------------------------------ MODULE CacheSpec ------------------------------
(***************************************************************************)
(* The cache of module PreworkCache as a state machine: what it holds and  *)
(* what the last call returned.                                            *)
(***************************************************************************)
EXTENDS PreworkCache

CONSTANT Works

VARIABLES
  cached,  \* the messages in the cache
  given    \* what the last call returned

Init == cached = {} /\ given = {}

Add(m) == cached' \in AddMessage(cached, m) /\ given' = {}

Pop(w) ==
  /\ given' = GetAllMessages(cached, w)
  /\ cached' = PopAllMessages(cached, w)

Next == (\E m \in Msgs : Add(m)) \/ (\E w \in Works : Pop(w))

Spec == Init /\ [][Next]_<<cached, given>>
=============================================================================
