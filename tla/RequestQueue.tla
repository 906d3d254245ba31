---------------------------- MODULE RequestQueue ----------------------------
(***************************************************************************)
(* The queue of tss requests the engine has accepted and not yet started   *)
(* (core/request_queue.go).  A request is known by its work id; the queue  *)
(* is the sequence of the queued work ids, front first.                    *)
(***************************************************************************)
EXTENDS Integers, Sequences

CONSTANTS
  Works,     \* the work ids
  WorkType   \* the work type of each work id

Keygens  == {"EcKeygen", "EdKeygen"}
Signings == {"EcSigning", "EdSigning"}

ASSUME WorkTypeAssumption == WorkType \in [Works -> Keygens \cup Signings]

IsKeygen(w) == WorkType[w] \in Keygens

GetPriority(w) == IF IsKeygen(w) THEN 100 ELSE 80

Queued(queue) == {queue[i] : i \in 1..Len(queue)}

-----------------------------------------------------------------------------

\* An insertion at the tail, whatever the priority.
AddWorkFifo(queue, work) == Append(queue, work)

\* The last position whose request has at least the priority of work; 0 when
\* there is none.
Position(queue, work) ==
  LET atLeast == {i \in 1..Len(queue) : GetPriority(work) <= GetPriority(queue[i])}
  IN  CHOOSE p \in atLeast \cup {0} : \A i \in atLeast : i <= p

(***************************************************************************)
(* The two halves first and second of the queue share one backing array.   *)
(* append(first, work) finds room behind first, so it writes work over the *)
(* first request of second before second is appended.                      *)
(***************************************************************************)
Insert(queue, work, p) ==
  LET first  == SubSeq(queue, 1, p)
      second == IF p = Len(queue) THEN << >>
                ELSE <<work>> \o SubSeq(queue, p + 2, Len(queue))
  IN  first \o <<work>> \o second

\* The queue after AddWork of a request that is not queued yet.
AddWork(queue, work) ==
  LET p == Position(queue, work)
  IN  IF p = 0 THEN <<work>> \o queue ELSE Insert(queue, work, p)
=============================================================================
