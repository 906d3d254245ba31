----------------------------- MODULE Connections -----------------------------
(***************************************************************************)
(* Messages from one node to another over libp2p streams (p2p): the        *)
(* goroutines of the sender that write to the peer's connection, and the   *)
(* goroutine per stream with which the receiver reads.  A frame, a header  *)
(* with the length and the payload, is written in two segments; a read     *)
(* returns one.  The streams themselves are libp2p's: reliable, ordered,   *)
(* with a window that bounds what is written and not read.                 *)
(***************************************************************************)
EXTENDS Integers, Sequences, FiniteSets

CONSTANTS
  Msgs,        \* the messages, each sent by a goroutine of its own
  Window,      \* how many segments fit into a stream unread
  MaxBreaks,   \* bound: how often connections break or the receiver ends
  Nobody       \* no goroutine, no message

ASSUME MsgsAssumption   == IsFiniteSet(Msgs)
ASSUME BoundsAssumption == MaxBreaks \in Nat /\ Window \in Nat \ {0}
ASSUME NobodyAssumption == Nobody \notin Msgs

Streams == 1..Cardinality(Msgs)   \* a call of WriteToStream creates one at most

VARIABLES
  sender,     \* whether the sender is up
  stored,     \* the stream in con.streams, 0 for none
  pc,         \* where the goroutine of each message is in writeToStream
  mine,       \* the stream it writes to
  lock,       \* who holds con.lock
  made,       \* the number of streams created
  broken,     \* the streams that were reset
  wire,       \* the segments in each stream
  receiver,   \* whether the receiver's host runs, with its stream handler
  listening,  \* whether it has a listener
  reader,     \* the goroutine of handleStream for each stream
  partial,    \* the message of which it has read the first segment
  delivered,  \* the messages handed to the listener
  breaks      \* how often connections broke

writer == <<sender, stored, pc, mine, lock, made>>
host   == <<receiver, listening, breaks>>
vars   == <<writer, broken, wire, host, reader, partial, delivered>>

Segments == Msgs \X {1, 2}

\* The variables that say what is written to which stream.
StreamTypes ==
  /\ stored \in Nat
  /\ pc \in [Msgs -> {"idle", "creating", "ready", "head", "body", "ok", "err"}]
  /\ mine \in [Msgs -> Nat]
  /\ made \in Nat
  /\ wire \in [Streams -> Seq(Segments)]
  /\ partial \in [Streams -> Msgs \cup {Nobody}]

TypeOK ==
  /\ StreamTypes
  /\ sender \in {"up", "dead"}
  /\ lock \in Msgs \cup {Nobody}
  /\ broken \subseteq Nat
  /\ receiver \in {"up", "down"}
  /\ listening \in BOOLEAN
  /\ reader \in [Streams -> {"reading", "deaf", "error"}]
  /\ delivered \subseteq Msgs
  /\ breaks \in 0..MaxBreaks

Init ==
  /\ sender = "up"
  /\ stored = 0
  /\ pc = [m \in Msgs |-> "idle"]
  /\ mine = [m \in Msgs |-> 0]
  /\ lock = Nobody
  /\ made = 0
  /\ broken = {}
  /\ wire = [i \in Streams |-> << >>]
  /\ receiver = "down"
  /\ listening = FALSE
  /\ reader = [i \in Streams |-> "reading"]
  /\ partial = [i \in Streams |-> Nobody]
  /\ delivered = {}
  /\ breaks = 0

-----------------------------------------------------------------------------
(* The sender *)

\* writeToStream looks for a stream.
WriteToStream(m) ==
  /\ sender = "up"
  /\ pc[m] = "idle"
  /\ mine' = [mine EXCEPT ![m] = stored]
  /\ pc' = [pc EXCEPT ![m] = IF stored = 0 THEN "creating" ELSE "ready"]
  /\ UNCHANGED <<sender, stored, lock, made, broken, wire, host, reader, partial, delivered>>

\* NewStream succeeds; the stream replaces what another goroutine stored.
CreateStream(m) ==
  /\ sender = "up"
  /\ pc[m] = "creating"
  /\ receiver = "up"
  /\ made' = made + 1
  /\ stored' = made'
  /\ mine' = [mine EXCEPT ![m] = made']
  /\ pc' = [pc EXCEPT ![m] = "ready"]
  /\ UNCHANGED <<sender, lock, broken, wire, host, reader, partial, delivered>>

\* NewStream fails, at the latest when TimeoutConnecting has passed.
CreateStreamFails(m) ==
  /\ sender = "up"
  /\ pc[m] = "creating"
  /\ pc' = [pc EXCEPT ![m] = "err"]
  /\ UNCHANGED <<sender, stored, mine, lock, made, broken, wire, host, reader, partial, delivered>>

\* Connections break, and with them all streams: readers get an error.
BreakStreams ==
  /\ broken' = 1..made
  /\ wire' = [i \in Streams |-> << >>]
  /\ reader' = [i \in Streams |-> IF i <= made THEN "error" ELSE "reading"]
  /\ partial' = [i \in Streams |-> Nobody]

\* The map con.streams is written while another goroutine reads or writes it: the
\* Go runtime may end the process.
ConcurrentMapAccess ==
  /\ sender = "up"
  /\ \E m, n \in Msgs : m # n /\ pc[m] = "creating" /\ pc[n] \in {"idle", "creating"}
  /\ sender' = "dead"
  /\ BreakStreams
  /\ UNCHANGED <<stored, pc, mine, lock, made, host, delivered>>

\* The goroutine writes without the lock.
EnterUnlocked(m) ==
  /\ sender = "up"
  /\ pc[m] = "ready"
  /\ pc' = [pc EXCEPT ![m] = "head"]
  /\ UNCHANGED <<sender, stored, mine, lock, made, broken, wire, host, reader, partial, delivered>>

Lock(m) ==
  /\ sender = "up"
  /\ pc[m] = "ready"
  /\ lock = Nobody
  /\ lock' = m
  /\ pc' = [pc EXCEPT ![m] = "head"]
  /\ UNCHANGED <<sender, stored, mine, made, broken, wire, host, reader, partial, delivered>>

Writable(i) == i \notin broken /\ Len(wire[i]) < Window

\* WriteStreamWithBuffer, first segment.
WriteHead(m) ==
  /\ sender = "up"
  /\ pc[m] = "head"
  /\ Writable(mine[m])
  /\ wire' = [wire EXCEPT ![mine[m]] = Append(@, <<m, 1>>)]
  /\ pc' = [pc EXCEPT ![m] = "body"]
  /\ UNCHANGED <<sender, stored, mine, lock, made, broken, host, reader, partial, delivered>>

\* WriteStreamWithBuffer, the rest.
WriteBody(m) ==
  /\ sender = "up"
  /\ pc[m] = "body"
  /\ Writable(mine[m])
  /\ wire' = [wire EXCEPT ![mine[m]] = Append(@, <<m, 2>>)]
  /\ pc' = [pc EXCEPT ![m] = "ok"]
  /\ lock' = Nobody
  /\ UNCHANGED <<sender, stored, mine, made, broken, host, reader, partial, delivered>>

\* An error returns without the lock being released.
WriteFailsLocked(m) ==
  /\ sender = "up"
  /\ pc[m] \in {"head", "body"}
  /\ mine[m] \in broken
  /\ pc' = [pc EXCEPT ![m] = "err"]
  /\ UNCHANGED <<sender, stored, mine, lock, made, broken, wire, host, reader, partial, delivered>>

\* The stream is broken; it stays in the map.
WriteFails(m) ==
  /\ sender = "up"
  /\ pc[m] \in {"head", "body"}
  /\ mine[m] \in broken
  /\ pc' = [pc EXCEPT ![m] = "err"]
  /\ lock' = Nobody
  /\ UNCHANGED <<sender, stored, mine, made, broken, wire, host, reader, partial, delivered>>

-----------------------------------------------------------------------------
(* The receiver *)

\* DefaultConnectionManager.Start: the host is made and its handler set.
StartHost ==
  /\ receiver = "down"
  /\ receiver' = "up"
  /\ UNCHANGED <<writer, broken, wire, listening, breaks, reader, partial, delivered>>

AddListener ==
  /\ receiver = "up"
  /\ listening' = TRUE
  /\ UNCHANGED <<writer, broken, wire, receiver, breaks, reader, partial, delivered>>

Read(i) ==
  /\ receiver = "up"
  /\ reader[i] = "reading"
  /\ wire[i] # << >>
  /\ wire' = [wire EXCEPT ![i] = Tail(@)]

\* ReadStreamWithBuffer gets the first segment of a frame.
ReadHead(i) ==
  /\ Read(i)
  /\ partial[i] = Nobody
  /\ Head(wire[i])[2] = 1
  /\ partial' = [partial EXCEPT ![i] = Head(wire[i])[1]]
  /\ UNCHANGED <<writer, broken, host, reader, delivered>>

\* The reader stops after one message.
HandleOne(i) ==
  /\ Read(i)
  /\ Head(wire[i]) = <<partial[i], 2>>
  /\ partial' = [partial EXCEPT ![i] = Nobody]
  /\ IF listening
     THEN /\ delivered' = delivered \cup {partial[i]}
          /\ reader' = [reader EXCEPT ![i] = "error"]
     ELSE /\ reader' = [reader EXCEPT ![i] = "deaf"]
          /\ UNCHANGED delivered
  /\ UNCHANGED <<writer, broken, host>>

\* The frame is whole: it goes to the listener, and without one handleStream
\* returns, leaving the stream open.
HandleStream(i) ==
  /\ Read(i)
  /\ Head(wire[i]) = <<partial[i], 2>>
  /\ partial' = [partial EXCEPT ![i] = Nobody]
  /\ IF listening
     THEN /\ delivered' = delivered \cup {partial[i]}
          /\ UNCHANGED reader
     ELSE /\ reader' = [reader EXCEPT ![i] = "deaf"]
          /\ UNCHANGED delivered
  /\ UNCHANGED <<writer, broken, host>>

\* The connection is lost, or the receiver ends; it starts again without a
\* listener.
Break ==
  /\ breaks < MaxBreaks
  /\ breaks' = breaks + 1
  /\ receiver = "up"
  /\ \/ UNCHANGED <<receiver, listening>>
     \/ receiver' = "down" /\ listening' = FALSE
  /\ BreakStreams
  /\ UNCHANGED <<writer, delivered>>

-----------------------------------------------------------------------------

Writes(m) ==
  CreateStream(m) \/ CreateStreamFails(m) \/ Lock(m) \/ WriteHead(m) \/ WriteBody(m) \/ WriteFails(m)

Reads(i) == ReadHead(i) \/ HandleStream(i)

Next ==
  \/ \E m \in Msgs : WriteToStream(m) \/ Writes(m)
  \/ ConcurrentMapAccess
  \/ StartHost \/ AddListener \/ Break
  \/ \E i \in Streams : Reads(i)

Spec == Init /\ [][Next]_vars

\* Goroutines run on while they can; sync.RWMutex lets no goroutine wait for
\* ever while others take the lock again and again.
Fairness ==
  /\ \A m \in Msgs : WF_vars(Writes(m)) /\ SF_vars(Lock(m))
  /\ \A i \in Streams : WF_vars(Reads(i))

FairSpec == Spec /\ Fairness

-----------------------------------------------------------------------------
(* Properties *)

\* What is in a stream, after what its reader has already taken of a frame.
Unread(i) == IF partial[i] = Nobody THEN wire[i] ELSE <<<<partial[i], 1>>>> \o wire[i]

\* The segments are frames, the last of them possibly not yet complete.
Framed(u) ==
  \A j \in 1..Len(u) : IF j % 2 = 1 THEN u[j][2] = 1 ELSE u[j] = <<u[j - 1][1], 2>>

\* In every stream the two segments of a frame follow each other, whatever
\* goroutines write at the same time: a reader never takes payload for a length.
FramesWhole == \A i \in Streams : Framed(Unread(i))

\* What that rests on.  Who writes a frame holds the lock; a stream ends with half
\* a frame only while the goroutine that wrote it is writing the other half.
LockInv == \A m \in Msgs : pc[m] \in {"head", "body"} => lock = m

MineInv ==
  /\ stored \in 0..made
  /\ \A m \in Msgs : /\ mine[m] \in 0..made
                     /\ pc[m] \in {"ready", "head", "body"} => mine[m] # 0

InBody(m, i) == pc[m] = "body" /\ mine[m] = i /\ i \notin broken

HalfInv ==
  \A i \in Streams :
    /\ i \in broken => wire[i] = << >> /\ partial[i] = Nobody
    /\ \A m \in Msgs : InBody(m, i) => /\ Len(Unread(i)) % 2 = 1
                                       /\ Unread(i)[Len(Unread(i))] = <<m, 1>>
    /\ (\A m \in Msgs : ~InBody(m, i)) => Len(Unread(i)) % 2 = 0

\* The streams that nobody reads any more, though they are open.
Deaf == {i \in Streams : reader[i] = "deaf"}

\* The reader of stream i can take the next segment: it is the one it expects.
CanRead(i) ==
  /\ receiver = "up"
  /\ reader[i] = "reading"
  /\ wire[i] # << >>
  /\ IF partial[i] = Nobody THEN Head(wire[i])[2] = 1 ELSE Head(wire[i]) = <<partial[i], 2>>

\* The lock of the connection is held only by a goroutine that can go on writing,
\* return with an error, or wait for a reader that can go on reading; the
\* exception is a full stream that nobody reads any more.
NoWriterStuck ==
  \A m \in Msgs : sender = "up" /\ lock = m =>
    /\ pc[m] \in {"head", "body"}
    /\ \/ mine[m] \in broken
       \/ Writable(mine[m])
       \/ CanRead(mine[m])
       \/ mine[m] \in Deaf /\ Len(wire[mine[m]]) = Window

\* Only what was written whole is delivered, and what was written whole is
\* delivered or still in its stream, unless that broke or nobody reads it.
NothingLost ==
  \A m \in Msgs :
    /\ m \in delivered => pc[m] = "ok"
    /\ pc[m] = "ok" => \/ m \in delivered
                       \/ mine[m] \in broken \cup Deaf
                       \/ \E j \in DOMAIN wire[mine[m]] : wire[mine[m]][j] = <<m, 2>>

\* What these rest on: goroutines make one stream each, an open stream has its
\* host and its reader, a stream holds no more than its window and the second
\* segments of frames that are written, and the lock goes with the writing.
Creators == {m \in Msgs : pc[m] \notin {"idle", "creating"}}

HostInv ==
  /\ made <= Cardinality(Creators)
  /\ broken \subseteq 1..made
  /\ sender = "up" => \A i \in 1..made : i \notin broken => receiver = "up"
  /\ \A i \in Streams : reader[i] = "error" => i \in broken

SegmentInv ==
  \A i \in Streams : /\ Len(wire[i]) <= Window
                     /\ \A j \in DOMAIN wire[i] : wire[i][j][2] = 2 => pc[wire[i][j][1]] = "ok"

DoneInv ==
  \A m \in Msgs : /\ pc[m] = "ok" => mine[m] # 0
                  /\ lock = m => pc[m] \in {"head", "body"}

\* A message that WriteToStream sent without an error gets to the listener, unless
\* its stream breaks or a frame was read from it while there was no listener.
WrittenIsDelivered ==
  \A m \in Msgs :
    pc[m] = "ok" ~> (m \in delivered \/ mine[m] \in broken \cup Deaf)

\* WriteToStream returns, unless a stream that nobody reads any more is full: the
\* goroutine that writes to it then keeps the connection's lock for ever.
WritersReturn ==
  \A m \in Msgs :
    pc[m] # "idle" ~>
      \/ pc[m] \in {"ok", "err"}
      \/ sender = "dead"
      \/ \E i \in Deaf : Len(wire[i]) = Window
=============================================================================
