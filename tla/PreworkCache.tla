---------------------------- MODULE PreworkCache ----------------------------
(***************************************************************************)
(* What the engine relies on in a message cache (core/cache): a set of     *)
(* messages, of which an addition may lose some, and from which PopAll     *)
(* takes the messages of one work and no others.                           *)
(***************************************************************************)

CONSTANTS
  Msgs,    \* the tss messages peers send to this node
  WorkOf   \* the work each message belongs to

\* The new message is in the cache.  The lists of the senders are bounded and
\* share memory, so an addition may push out any other message.
AddMessage(c, m) == {d \in SUBSET (c \cup {m}) : m \in d}

GetAllMessages(c, w) == {m \in c : WorkOf[m] = w}

\* A pop that leaves the messages it returns in the cache.
LeaveMessages(c, w) == c

\* What the cache holds after PopAllMessages(w, nil).
PopAllMessages(c, w) == c \ GetAllMessages(c, w)
=============================================================================
