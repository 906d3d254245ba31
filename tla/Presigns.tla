------------------------------ MODULE Presigns ------------------------------
(***************************************************************************)
(* The presigns a node may still use: the rows of table presign            *)
(* (db/database.go) and the copy of the unused ones in memory              *)
(* (core/components/available_presign_manager.go), which the selections of *)
(* this node, as a leader, consume.  A step is a critical section of the   *)
(* manager's lock or a query of the database.  The process may end between *)
(* any two of them; a restart loads the unused rows.                       *)
(***************************************************************************)
EXTENDS Integers, FiniteSets

CONSTANTS
  Ids,       \* the ids of presigns; a work makes one, work_id being the key of the table
  Groups,    \* the groups of parties that made presigns
  GroupOf,   \* the group of each presign
  Calls,     \* the selections that look for presigns, each on a goroutine of its own
  BatchSize  \* how many presigns each of them needs

ASSUME IdsAssumption   == IsFiniteSet(Ids) /\ GroupOf \in [Ids -> Groups]
ASSUME BatchAssumption == BatchSize \in [Calls -> Nat \ {0}]

VARIABLES
  process,    \* whether the process is up
  status,     \* the status of each presign in the database
  available,  \* the presigns in memory
  lock,       \* whether the manager's lock can be had, between two critical sections
  adding,     \* presigns saved by AddPresign and not in memory yet
  call,       \* where each selection is in GetAvailablePresigns
  group,      \* the group it has found
  batch,      \* the presigns it has taken from memory
  handed,     \* how often each presign was returned to a selection
  dropped     \* presigns not in memory because of an error of the database

vars == <<process, status, available, lock, adding, call, group, batch, handed, dropped>>

TypeOK ==
  /\ process \in {"up", "down"}
  /\ status \in [Ids -> {"absent", "not_used", "used"}]
  /\ available \subseteq Ids
  /\ lock \in {"free", "leaked"}
  /\ adding \subseteq Ids
  /\ call \in [Calls -> {"idle", "found", "taken"}]
  /\ group \in [Calls -> Groups]
  /\ batch \in [Calls -> SUBSET Ids]
  /\ handed \in [Ids -> Nat]
  /\ dropped \subseteq Ids

Init ==
  /\ process = "down"
  /\ status = [i \in Ids |-> "absent"]
  /\ available = {}
  /\ lock = "free"
  /\ adding = {}
  /\ call = [c \in Calls |-> "idle"]
  /\ group \in {[c \in Calls |-> g] : g \in Groups}
  /\ batch = [c \in Calls |-> {}]
  /\ handed = [i \in Ids |-> 0]
  /\ dropped = {}

Mark(S, s) == [i \in Ids |-> IF i \in S THEN s ELSE status[i]]
Unused     == {i \in Ids : status[i] = "not_used"}
Of(g)      == {i \in available : GroupOf[i] = g}
Taken      == UNION {batch[c] : c \in Calls}

-----------------------------------------------------------------------------
(* Start and end of the process *)

\* Every row is loaded, whatever its status.
LoadAll ==
  /\ process = "down"
  /\ process' = "up"
  /\ available' = {i \in Ids : status[i] # "absent"}
  /\ UNCHANGED <<status, lock, adding, call, group, batch, handed, dropped>>

\* Load with GetAvailablePresignShortForm, when the engine is initialised.  An
\* error that ends the reading of the rows is not noticed: the rows not read are
\* left out.
Load ==
  /\ process = "down"
  /\ process' = "up"
  /\ \E S \in SUBSET Unused : available' = S /\ dropped' = Unused \ S
  /\ UNCHANGED <<status, lock, adding, call, group, batch, handed>>

\* The process ends.  The database may have done the updates under way.
Crash ==
  /\ process = "up"
  /\ process' = "down"
  /\ \E S \in SUBSET {c \in Calls : call[c] = "taken"} :
       status' = Mark(UNION {batch[c] : c \in S}, "used")
  /\ available' = {}
  /\ lock' = "free"
  /\ adding' = {}
  /\ call' = [c \in Calls |-> "idle"]
  /\ batch' = [c \in Calls |-> {}]
  /\ dropped' = {}
  /\ UNCHANGED <<group, handed>>

-----------------------------------------------------------------------------
(* AddPresign *)

\* The row is inserted; an error may be reported nevertheless, and then memory
\* is left alone.
SavePresignData(i) ==
  /\ process = "up"
  /\ status[i] = "absent"
  /\ status' = Mark({i}, "not_used")
  /\ \/ adding' = adding \cup {i} /\ UNCHANGED dropped
     \/ dropped' = dropped \cup {i} /\ UNCHANGED adding
  /\ UNCHANGED <<process, available, lock, call, group, batch, handed>>

AddPresign(i) ==
  /\ i \in adding
  /\ lock = "free"
  /\ adding' = adding \ {i}
  /\ available' = available \cup {i}
  /\ UNCHANGED <<process, status, lock, call, group, batch, handed, dropped>>

-----------------------------------------------------------------------------
(* GetAvailablePresigns.  A call that finds no group has no effect. *)

\* Under the read lock a group with enough presigns is found; which groups are
\* available to the selection is left open.
FindPresigns(c) ==
  /\ process = "up"
  /\ call[c] = "idle"
  /\ lock = "free"
  /\ \E g \in Groups :
       /\ Cardinality(Of(g)) >= BatchSize[c]
       /\ group' = [group EXCEPT ![c] = g]
  /\ call' = [call EXCEPT ![c] = "found"]
  /\ UNCHANGED <<process, status, available, lock, adding, batch, handed, dropped>>

\* The presigns stay in memory until the database is updated.
TakePresignsLate(c) ==
  /\ call[c] = "found"
  /\ lock = "free"
  /\ \/ \E B \in SUBSET Of(group[c]) :
          /\ Cardinality(B) = BatchSize[c]
          /\ batch' = [batch EXCEPT ![c] = B]
          /\ call' = [call EXCEPT ![c] = "taken"]
          /\ UNCHANGED lock
     \/ /\ Cardinality(Of(group[c])) < BatchSize[c]
        /\ call' = [call EXCEPT ![c] = "idle"]
        /\ lock' = "leaked"
        /\ UNCHANGED batch
  /\ UNCHANGED <<process, status, available, adding, group, handed, dropped>>

\* A call that finds too few presigns waits for more.
TakePresignsWaiting(c) ==
  /\ call[c] = "found"
  /\ lock = "free"
  /\ \E B \in SUBSET Of(group[c]) :
       /\ Cardinality(B) = BatchSize[c]
       /\ batch' = [batch EXCEPT ![c] = B]
       /\ available' = available \ B
  /\ call' = [call EXCEPT ![c] = "taken"]
  /\ UNCHANGED <<process, status, lock, adding, group, handed, dropped>>

\* Under the write lock the group is looked at again.  Its presigns are taken,
\* or, if another call was faster, the call returns none and keeps the lock.
TakePresigns(c) ==
  /\ call[c] = "found"
  /\ lock = "free"
  /\ \/ \E B \in SUBSET Of(group[c]) :
          /\ Cardinality(B) = BatchSize[c]
          /\ batch' = [batch EXCEPT ![c] = B]
          /\ available' = available \ B
          /\ call' = [call EXCEPT ![c] = "taken"]
          /\ UNCHANGED lock
     \/ /\ Cardinality(Of(group[c])) < BatchSize[c]
        /\ call' = [call EXCEPT ![c] = "idle"]
        /\ lock' = "leaked"
        /\ UNCHANGED <<batch, available>>
  /\ UNCHANGED <<process, status, adding, group, handed, dropped>>

\* The presigns are marked as used and returned.  If the database reports an
\* error, after the update or without it, none is returned.
UpdatePresignStatus(c) ==
  /\ call[c] = "taken"
  /\ call' = [call EXCEPT ![c] = "idle"]
  /\ batch' = [batch EXCEPT ![c] = {}]
  /\ \/ /\ status' = Mark(batch[c], "used")
        /\ handed' = [i \in Ids |-> IF i \in batch[c] THEN handed[i] + 1 ELSE handed[i]]
        /\ UNCHANGED dropped
     \/ /\ status' \in {status, Mark(batch[c], "used")}
        /\ dropped' = dropped \cup batch[c]
        /\ UNCHANGED handed
  /\ UNCHANGED <<process, available, lock, adding, group>>

-----------------------------------------------------------------------------

Next ==
  \/ Load
  \/ Crash
  \/ \E i \in Ids : SavePresignData(i) \/ AddPresign(i)
  \/ \E c \in Calls : FindPresigns(c) \/ TakePresigns(c) \/ UpdatePresignStatus(c)

Spec == Init /\ [][Next]_vars

\* A goroutine inside GetAvailablePresigns keeps running.
Fairness == \A c \in Calls : WF_vars(TakePresigns(c) \/ UpdatePresignStatus(c))

FairSpec == Spec /\ Fairness

-----------------------------------------------------------------------------
(* Properties *)

\* The comment of GetAvailablePresigns: a presign is consumed "to avoid dpulicated
\* usage".  This node gives a presign to one selection at most, whatever other
\* calls, failed updates and restarts come between.
HandedOutOnce == \A i \in Ids : handed[i] <= 1

\* Memory and database agree up to what is under way: of the unused rows each is
\* in memory, on its way there, taken by a call whose update is still to come, or
\* was dropped on an error (of an update, of AddPresign or of Load) until the next
\* restart; no presign is in two of these places, and nothing else is in memory.
MemoryMatchesDb ==
  /\ process = "up" => Unused \subseteq available \cup adding \cup Taken \cup dropped
  /\ available \cup adding \cup Taken \subseteq Unused
  /\ \A i \in dropped : status[i] # "absent"
  /\ available \cap adding = {}
  /\ (available \cup adding) \cap (Taken \cup dropped) = {}
  /\ Taken \cap dropped = {}
  /\ \A c, d \in Calls : c # d => batch[c] \cap batch[d] = {}

\* At any time at most one selection of the node looks for presigns.
OneSelection == \A c, d \in Calls : call[c] # "idle" /\ call[d] # "idle" => c = d

\* The early return that keeps the write lock is a race: while selections come one
\* after the other what the first look has found is there at the second look.
LeakNeedsRace == []OneSelection => [](lock = "free")

\* A selection that has found presigns gets an answer, unless another call has
\* left the lock behind; the selection waits for it with no timer running.
CallsReturn == \A c \in Calls : call[c] # "idle" ~> (call[c] = "idle" \/ lock = "leaked")

-----------------------------------------------------------------------------
(* What the invariants rest on *)

\* A call holds presigns only between taking them and the update of their status,
\* and nothing is under way while the process is down.
HoldingInv ==
  /\ \A c \in Calls : call[c] # "taken" => batch[c] = {}
  /\ process = "down" =>
       available = {} /\ adding = {} /\ dropped = {} /\ \A c \in Calls : call[c] = "idle"

\* A presign that was handed out is marked as used.
HandedInv == \A i \in Ids : handed[i] = 0 \/ (handed[i] = 1 /\ status[i] = "used")

\* What a call has found is still there, and the lock is free.
FoundInv ==
  /\ lock = "free"
  /\ \A c \in Calls : call[c] = "found" => Cardinality(Of(group[c])) >= BatchSize[c]
=============================================================================
