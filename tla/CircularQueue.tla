--------------------------- MODULE CircularQueue ---------------------------
(***************************************************************************)
(* The ring buffer of tools/circular_queue.go with its map for look-ups.   *)
(* The slots between head and tail are a sequence, the oldest first; the   *)
(* item of a key is determined by the key, so the map is the set of its    *)
(* keys.                                                                   *)
(***************************************************************************)
EXTENDS Naturals, Sequences

NewCircularQueue == [queue |-> << >>, m |-> {}]

Full(q, size) == Len(q.queue) >= size

\* Add: of a full queue the oldest item goes, and whatever the map has for its
\* key.
QueueAdd(q, size, key) ==
  [queue |-> Append(IF Full(q, size) THEN Tail(q.queue) ELSE q.queue, key),
   m     |-> (IF Full(q, size) THEN q.m \ {Head(q.queue)} ELSE q.m) \cup {key}]

\* Get, as whether there is an item.
QueueHas(q, key) == key \in q.m

\* The keys of the items in the slots.
Slots(q) == {q.queue[i] : i \in DOMAIN q.queue}
=============================================================================
