----------------------------- MODULE Selection ------------------------------
(***************************************************************************)
(* What the selection round promises to the workers of a work, whatever    *)
(* messages carry it: one group is chosen, by the leader, out of the nodes *)
(* that have started; a node executes only as a part of that group and is  *)
(* left out only if it is no part of it; any node may fail instead.        *)
(***************************************************************************)
CONSTANTS
  Nodes,
  Leader,
  Choices,  \* the selections the work can be executed with
  Nobody    \* no selection

VARIABLES
  state,    \* where the selection of each node is
  chosen    \* the selection each node takes part in or was left out of

vars == <<state, chosen>>

Undecided(n) == state[n] \in {"off", "wait"}

Decide(n, result, sel) ==
  /\ Undecided(n)
  /\ state' = [state EXCEPT ![n] = result]
  /\ chosen' = [chosen EXCEPT ![n] = sel]

Init ==
  /\ state = [n \in Nodes |-> "off"]
  /\ chosen = [n \in Nodes |-> Nobody]

Start(n) ==
  /\ state[n] = "off"
  /\ state' = [state EXCEPT ![n] = "wait"]
  /\ UNCHANGED chosen

Select(sel) ==
  /\ Leader \in sel.pids
  /\ \A p \in sel.pids \ {Leader} : state[p] # "off"
  /\ Decide(Leader, "exec", sel)

Join(n) ==
  /\ n # Leader
  /\ state[Leader] = "exec"
  /\ n \in chosen[Leader].pids
  /\ Decide(n, "exec", chosen[Leader])

LeaveOut(n) ==
  /\ n # Leader
  /\ state[Leader] = "exec"
  /\ n \notin chosen[Leader].pids
  /\ Decide(n, "excluded", chosen[Leader])

Fail(n) == Decide(n, "failed", Nobody)

Next == \/ \E n \in Nodes : Start(n) \/ Join(n) \/ LeaveOut(n) \/ Fail(n)
        \/ \E sel \in Choices : Select(sel)

Spec == Init /\ [][Next]_vars
=============================================================================
