----------------------- MODULE PreworkSelectionProofs -----------------------
(***************************************************************************)
(* For every set of nodes, threshold, work type and timeouts: the types,   *)
(* the agreement of all nodes with the leader, the ability of the group    *)
(* the leader chooses, that the round implements Selection, how many       *)
(* responses can be held at the channel of the leader, and that nobody     *)
(* gives up needlessly.                                                    *)
(***************************************************************************)
EXTENDS PreworkSelection, FiniteSetTheorems, TLAPS

\* The sizes that are compared.
LEMMA PartyCounts ==
  /\ Cardinality(Nodes) \in Nat /\ Cardinality(Nodes) > 0
  /\ GetMinPartyCount \in Nat
<1>1. Cardinality(Nodes) \in Nat
  BY NodesAssumption, FS_CardinalityType
<1>2. Threshold \in Nat /\ Threshold < Cardinality(Nodes)
  BY ThresholdAssumption
<1>3. Cardinality(Nodes) > 0 /\ Threshold + 1 \in Nat
  BY <1>1, <1>2
<1> QED BY <1>1, <1>3 DEF GetMinPartyCount

\* The arithmetic of the comparisons.
LEMMA AtMostBelow == \A a, b, c \in Nat : a <= b /\ b < c => a < c
  OBVIOUS

\* ChooseLeader takes one of the parties.
LEMMA LeaderIsNode == Leader \in Nodes
  BY NodesAssumption DEF Leader, ChooseLeader

\* What tells the messages apart, and what they are made of.
LEMMA Messages ==
  /\ \A m \in Requests : m.type = "request" /\ m.to \in Members
  /\ \A m \in Responses : m.type = "response" /\ m.to = Leader /\ m.from \in Members
  /\ \A m \in Outputs : /\ m.type = "output" /\ m.to \in Members
                        /\ m.success \in {"yes", "no"} /\ m.sel \in Selection
  BY DEF Requests, Responses, Outputs, Request, Response, Output

\* getPartyList and the leader appended to it: n others if there are that many,
\* all of them available.
LEMMA WithLeaderSelects ==
  ASSUME NEW a \in SUBSET Nodes, Leader \in a, NEW n \in Nat, Cardinality(a) >= n + 1,
         NEW sel \in WithLeader(a, n)
  PROVE  /\ sel \in Selection
         /\ Leader \in sel.pids
         /\ sel.pids \subseteq a
         /\ Cardinality(sel.pids) >= n + 1
<1>1. IsFiniteSet(a) /\ Cardinality(a) \in Nat
  BY NodesAssumption, FS_Subset, FS_CardinalityType
<1>2. PICK S \in GetPartyList(a, n) : sel = [pids |-> S \cup {Leader}, presign |-> "none"]
  BY DEF WithLeader
<1>3. S \subseteq a \ {Leader}
  BY <1>2 DEF GetPartyList
<1>4. sel.pids = S \cup {Leader} /\ sel.presign = "none"
  BY <1>2
<1>5. Cardinality(S \cup {Leader}) >= n + 1
  <2>1. CASE S = a \ {Leader}
    <3>1. S \cup {Leader} = a
      BY <2>1
    <3>2. Cardinality(S \cup {Leader}) = Cardinality(a)
      BY <3>1, Zenon
    <3> QED BY <1>1, <3>2
  <2>2. CASE Cardinality(S) = n
    <3>1. IsFiniteSet(S) /\ Leader \notin S
      BY <1>1, <1>3, FS_Subset
    <3>2. Cardinality(S \cup {Leader}) = n + 1
      BY <2>2, <3>1, FS_AddElement, Zenon
    <3> QED BY <3>2
  <2> QED BY <1>2, <2>1, <2>2 DEF GetPartyList
<1>6. Cardinality(sel.pids) = Cardinality(S \cup {Leader})
  BY <1>4, Zenon
<1> QED BY <1>2, <1>3, <1>4, <1>5, <1>6, LeaderIsNode DEF Selection

\* Whatever checkEnoughParticipants returns is a group the work can be executed
\* with, the leader is in it, and all of it is available.
LEMMA EnoughSelects ==
  ASSUME NEW a \in SUBSET Nodes, Leader \in a, NEW sel \in CheckEnoughParticipants(a)
  PROVE  /\ sel \in Choices
         /\ Leader \in sel.pids
         /\ sel.pids \subseteq a
<1>0. Cardinality(a) \in Nat /\ Cardinality(Nodes) \in Nat /\ Cardinality(Nodes) > 0
  BY NodesAssumption, LeaderIsNode, ThresholdAssumption, FS_Subset, FS_CardinalityType
<1>1. Cardinality(a) >= GetMinPartyCount
  BY <1>0, ThresholdAssumption DEF CheckEnoughParticipants, GetMinPartyCount
<1>2. CASE WorkType # "EcSigning" /\ sel \in WithLeader(a, GetMinPartyCount - 1)
  <2>1. CASE IsKeygen
    <3>1. GetMinPartyCount = Cardinality(Nodes)
      BY <2>1 DEF GetMinPartyCount
    <3>2. a = Nodes
      BY <1>0, <1>1, <3>1, NodesAssumption, FS_Subset
    <3>3. /\ sel \in Selection /\ Leader \in sel.pids /\ sel.pids \subseteq a
          /\ Cardinality(sel.pids) >= Cardinality(Nodes)
      BY <1>0, <1>1, <1>2, <3>1, WithLeaderSelects
    <3>4. sel.pids = Nodes
      BY <1>0, <3>2, <3>3, NodesAssumption, FS_Subset, FS_CardinalityType
    <3>5. Cardinality(sel.pids) >= Threshold + 1
      BY <1>0, <3>3, <3>4, ThresholdAssumption
    <3> QED BY <3>3, <3>4, <3>5 DEF Choices
  <2>2. CASE ~ IsKeygen
    <3>1. GetMinPartyCount - 1 = Threshold /\ GetMinPartyCount = Threshold + 1
      BY <2>2, ThresholdAssumption DEF GetMinPartyCount
    <3>2. /\ sel \in Selection /\ Leader \in sel.pids /\ sel.pids \subseteq a
          /\ Cardinality(sel.pids) >= Threshold + 1
      BY <1>1, <1>2, <3>1, ThresholdAssumption, WithLeaderSelects
    <3> QED BY <2>2, <3>2 DEF Choices
  <2> QED BY <2>1, <2>2
<1>3. CASE WorkType = "EcSigning" /\ sel \in GetAvailablePresigns(a)
  <2>1. PICK P \in Presigns : P \subseteq a /\ sel = [pids |-> P, presign |-> "found"]
    BY <1>3 DEF GetAvailablePresigns
  <2>2. sel.pids = P /\ sel \in Selection
    BY <2>1 DEF Selection
  <2>3. Cardinality(P) > Threshold /\ Cardinality(P) \in Nat /\ Leader \in P
    BY <2>1, PresignsAssumption, NodesAssumption, FS_Subset, FS_CardinalityType
  <2>4. Cardinality(sel.pids) >= Threshold + 1
    <3>1. Cardinality(sel.pids) = Cardinality(P)
      BY <2>2, Zenon
    <3> QED BY <2>3, <3>1, ThresholdAssumption
  <2> QED BY <1>3, <2>1, <2>2, <2>3, <2>4 DEF Choices, IsKeygen
<1>4. CASE WorkType = "EcSigning" /\ sel \in WithLeader(a, Threshold)
  <2>1. Cardinality(a) >= Threshold + 1
    BY <1>1, <1>4 DEF GetMinPartyCount, IsKeygen
  <2>2. /\ sel \in Selection /\ Leader \in sel.pids /\ sel.pids \subseteq a
        /\ Cardinality(sel.pids) >= Threshold + 1
    BY <1>4, <2>1, ThresholdAssumption, WithLeaderSelects
  <2> QED BY <1>4, <2>2 DEF Choices, IsKeygen
<1> QED BY <1>2, <1>3, <1>4 DEF CheckEnoughParticipants

AllMessages == Requests \cup Responses \cup Outputs

\* The messages a step sends are messages.
LEMMA Sent ==
  /\ \A p \in Members : Request(p) \in AllMessages
  /\ \A p \in Members, c \in {"start", "request"} : Response(p, c) \in AllMessages
  /\ \A p \in Members, ok \in {"yes", "no"}, s \in Selection : Output(p, ok, s) \in AllMessages
  BY DEF AllMessages, Requests, Responses, Outputs

\* Every message has a receiver; a response comes from a member, and an
\* announcement goes to one and carries a selection.
LEMMA MessageFields ==
  ASSUME NEW m \in AllMessages
  PROVE  /\ m.to \in Nodes
         /\ m.type \in {"request", "response", "output"}
         /\ m.type = "request" => m.to \in Members
         /\ m.type = "response" => m \in Responses /\ m.from \in Members
         /\ m.type = "output" => /\ m.to \in Members /\ m.sel \in Selection
                                 /\ m.success \in {"yes", "no"}
<1>1. CASE m \in Requests
  BY <1>1, Messages DEF Members
<1>2. CASE m \in Responses
  BY <1>2, Messages, LeaderIsNode
<1>3. CASE m \in Outputs
  BY <1>3, Messages DEF Members
<1> QED BY <1>1, <1>2, <1>3 DEF AllMessages

\* memberFinalized gives member n a result that says what the message says.
LEMMA MemberResult ==
  ASSUME NEW n \in Members, NEW m, m.type = "output", m.sel \in Selection,
         MemberFinalized(n, m)
  PROVE  \E r \in {"exec", "excluded", "failed"}, s \in Selection :
           /\ state' = [state EXCEPT ![n] = r]
           /\ chosen' = [chosen EXCEPT ![n] = s]
           /\ r = "exec" => m.success = "yes" /\ s = m.sel /\ n \in s.pids
           /\ r = "excluded" => m.success = "yes" /\ s = m.sel /\ n \notin s.pids
           /\ r = "failed" => s = Nobody
<1>1. Nobody \in Selection
  BY DEF Nobody, Selection
<1>2. CASE BroadcastResult(n, "failed", Nobody)
  BY <1>1, <1>2, Zenon DEF BroadcastResult
<1>3. CASE m.success = "yes" /\ n \notin m.sel.pids /\ BroadcastResult(n, "excluded", m.sel)
  BY <1>3, Zenon DEF BroadcastResult
<1>4. CASE m.success = "yes" /\ n \in m.sel.pids /\ BroadcastResult(n, "exec", m.sel)
  BY <1>4, Zenon DEF BroadcastResult
<1> QED BY <1>2, <1>3, <1>4 DEF MemberFinalized

\* leaderFinalized tells the leader and all members the same.
LEMMA LeaderResult ==
  ASSUME NEW ok \in {"yes", "no"}, NEW sel \in Selection, LeaderFinalized(ok, sel)
  PROVE  /\ state' = [state EXCEPT ![Leader] = IF ok = "yes" THEN "exec" ELSE "failed"]
         /\ chosen' = [chosen EXCEPT ![Leader] = sel]
         /\ \A m \in net' \ net : /\ m \in AllMessages /\ m.type = "output"
                                  /\ m.success = ok /\ m.sel = sel
<1>1. \A p \in Members : /\ Output(p, ok, sel) \in AllMessages
                        /\ Output(p, ok, sel).type = "output"
                        /\ Output(p, ok, sel).success = ok
                        /\ Output(p, ok, sel).sel = sel
  BY Sent DEF Output
<1> QED BY <1>1 DEF LeaderFinalized, BroadcastResult

\* The leader's choices: one of each of the three places that call leaderFinalized.
LEMMA LeaderChoices ==
  ASSUME TypeOK, Leader \in available
  PROVE  /\ DoPreExecutionAsLeader => available' \subseteq Nodes /\ Leader \in available'
         /\ \A m \in responses : TakeResponse(m) => available' \subseteq Nodes /\ Leader \in available'
         /\ \A sel \in WithLeader(available, Threshold) :
              ~ IsKeygen /\ Cardinality(available) >= Threshold + 1 =>
                sel \in Choices /\ Leader \in sel.pids /\ sel.pids \subseteq available
<1>1. ASSUME DoPreExecutionAsLeader
      PROVE  available' \subseteq Nodes /\ Leader \in available'
  <2>1. \A m \in cached : m.type = "response" => m.from \in Nodes
    BY MessageFields DEF TypeOK, AllMessages, Members
  <2> QED BY <1>1, <2>1, LeaderIsNode DEF DoPreExecutionAsLeader
<1>2. ASSUME NEW m \in responses, TakeResponse(m)
      PROVE  available' \subseteq Nodes /\ Leader \in available'
  <2>1. m.from \in Nodes
    BY Messages DEF TypeOK, Members
  <2> QED BY <1>2, <2>1 DEF TakeResponse, TypeOK
<1>3. ASSUME NEW sel \in WithLeader(available, Threshold),
             ~ IsKeygen, Cardinality(available) >= Threshold + 1
      PROVE  sel \in Choices /\ Leader \in sel.pids /\ sel.pids \subseteq available
  BY <1>3, WithLeaderSelects, ThresholdAssumption DEF TypeOK, Choices
<1> QED BY <1>1, <1>2, <1>3

\* A step of the leader's decision, in any of those places.
LeaderDecides(ok, sel) ==
  /\ state[Leader] \in {"off", "wait"}
  /\ ok \in {"yes", "no"}
  /\ sel \in Selection
  /\ LeaderFinalized(ok, sel)
  /\ ok = "yes" => sel \in Choices /\ Leader \in sel.pids /\ sel.pids \subseteq available'
  /\ ok = "no" => sel = Nobody

\* A step that gives member n the result of a message.
MemberDecides(n) ==
  /\ n \in Members
  /\ state[n] \in {"off", "wait"}
  /\ UNCHANGED available
  /\ net' \subseteq net
  /\ \/ \E m \in net \cup cached : m.type = "output" /\ MemberFinalized(n, m)
     \/ BroadcastResult(n, "failed", Nobody)

\* What the steps do to the results, and to the messages of a step that decides.
LEMMA Steps ==
  ASSUME TypeOK, Leader \in available, Next
  PROVE  \/ UNCHANGED <<state, chosen>>
         \/ \E n \in Nodes : /\ state[n] = "off"
                             /\ state' = [state EXCEPT ![n] = "wait"]
                             /\ UNCHANGED chosen
         \/ \E ok, sel : LeaderDecides(ok, sel)
         \/ \E n \in Members : MemberDecides(n)
<1> USE LeaderIsNode
<1>0. Choices \subseteq Selection /\ Nobody \in Selection
  BY DEF Choices, Selection, Nobody
<1>1. CASE DoPreExecutionAsLeader
  <2>1. available' \in SUBSET Nodes /\ Leader \in available'
    BY <1>1, LeaderChoices
  <2>2. ASSUME NEW sel \in CheckEnoughParticipants(available'), LeaderFinalized("yes", sel)
        PROVE  LeaderDecides("yes", sel)
    BY <1>0, <1>1, <2>1, <2>2, EnoughSelects DEF LeaderDecides, DoPreExecutionAsLeader
  <2> QED BY <1>1, <2>2, Zenon DEF DoPreExecutionAsLeader
<1>2. ASSUME NEW m \in responses, TakeResponse(m)
      PROVE  UNCHANGED <<state, chosen>> \/ \E ok, sel : LeaderDecides(ok, sel)
  <2>1. available' \in SUBSET Nodes /\ Leader \in available'
    BY <1>2, LeaderChoices
  <2>2. ASSUME NEW sel \in CheckEnoughParticipants(available'), LeaderFinalized("yes", sel)
        PROVE  LeaderDecides("yes", sel)
    BY <1>0, <1>2, <2>1, <2>2, EnoughSelects DEF LeaderDecides, TakeResponse
  <2>3. ASSUME LeaderFinalized("no", Nobody)
        PROVE  LeaderDecides("no", Nobody)
    BY <1>0, <1>2, <2>3 DEF LeaderDecides, TakeResponse
  <2> QED BY <1>2, <2>2, <2>3 DEF TakeResponse
<1>3. CASE LeaderTimesOut
  <2>1. ASSUME NEW sel \in WithLeader(available, Threshold), LeaderFinalized("yes", sel),
               ~ IsKeygen, Cardinality(available) >= Threshold + 1
        PROVE  LeaderDecides("yes", sel)
    BY <1>0, <1>3, <2>1, LeaderChoices DEF LeaderDecides, LeaderTimesOut
  <2>2. ASSUME LeaderFinalized("no", Nobody)
        PROVE  LeaderDecides("no", Nobody)
    BY <1>0, <1>3, <2>2 DEF LeaderDecides, LeaderTimesOut
  <2> QED BY <1>3, <2>1, <2>2 DEF LeaderTimesOut
<1>4. ASSUME NEW n \in Members, DoPreExecutionAsMember(n)
      PROVE  \/ /\ state[n] = "off" /\ state' = [state EXCEPT ![n] = "wait"]
                /\ UNCHANGED chosen
             \/ MemberDecides(n)
  BY <1>4 DEF DoPreExecutionAsMember, MemberDecides
<1>5. ASSUME NEW n \in Members, MemberTimesOut(n)
      PROVE  MemberDecides(n)
  BY <1>5 DEF MemberTimesOut, MemberDecides
<1>6. ASSUME NEW m \in net, OnPreExecOutput(m)
      PROVE  UNCHANGED <<state, chosen>> \/ MemberDecides(m.to)
  BY <1>6, MessageFields DEF OnPreExecOutput, MemberDecides, TypeOK, AllMessages
<1>7. ASSUME NEW m \in net, OnPreExecOutput(m)
      PROVE  m.to \in Members
  BY <1>7, MessageFields DEF OnPreExecOutput, TypeOK, AllMessages
<1>8. CASE \/ \E m \in net : \/ CacheMessage(m) \/ OnPreExecutionRequest(m)
                             \/ OnPreExecutionResponse(m)
           \/ Tick
  BY <1>8 DEF CacheMessage, OnPreExecutionRequest, OnPreExecutionResponse, Tick
<1> QED BY <1>1, <1>2, <1>3, <1>4, <1>5, <1>6, <1>7, <1>8 DEF Next, Members

\* The types, and that the leader counts itself from the start.
LEMMA TypeStep ==
  ASSUME TypeOK, Leader \in available, [Next]_vars
  PROVE  TypeOK' /\ Leader \in available'
<1> USE LeaderIsNode
<1>0. Choices \subseteq Selection /\ Nobody \in Selection
  BY DEF Choices, Selection, Nobody
<1>1. state' \in [Nodes -> States] /\ chosen' \in [Nodes -> Selection]
  <2>1. CASE UNCHANGED vars
    BY <2>1 DEF vars, TypeOK
  <2>2. ASSUME NEW ok, NEW sel, LeaderDecides(ok, sel)
        PROVE  state' \in [Nodes -> States] /\ chosen' \in [Nodes -> Selection]
    BY <2>2, LeaderResult DEF LeaderDecides, TypeOK, States
  <2>3. ASSUME NEW n \in Members, MemberDecides(n)
        PROVE  state' \in [Nodes -> States] /\ chosen' \in [Nodes -> Selection]
    <3>1. CASE BroadcastResult(n, "failed", Nobody)
      BY <1>0, <3>1, Zenon DEF BroadcastResult, TypeOK, States
    <3>2. ASSUME NEW m \in net \cup cached, m.type = "output", MemberFinalized(n, m)
          PROVE  state' \in [Nodes -> States] /\ chosen' \in [Nodes -> Selection]
      <4>1. m.sel \in Selection
        BY <3>2, MessageFields DEF TypeOK, AllMessages
      <4> QED BY <3>2, <4>1, MemberResult DEF TypeOK, States
    <3> QED BY <2>3, <3>1, <3>2 DEF MemberDecides
  <2>4. CASE UNCHANGED <<state, chosen>> \/ \E n \in Nodes : /\ state' = [state EXCEPT ![n] = "wait"]
                                                         /\ UNCHANGED chosen
    BY <2>4 DEF TypeOK, States
  <2> QED BY <2>1, <2>2, <2>3, <2>4, Steps
<1> DEFINE Rest == /\ age' \in [Nodes -> Nat]
                   /\ available' \subseteq Nodes /\ Leader \in available'
                   /\ responses' \subseteq Responses
                   /\ net' \subseteq AllMessages
                   /\ cached' \subseteq AllMessages
<1>2. /\ age \in [Nodes -> Nat] /\ available \subseteq Nodes /\ responses \subseteq Responses
      /\ net \subseteq AllMessages /\ cached \subseteq AllMessages
  BY DEF TypeOK, AllMessages
<1> SUFFICES Rest
  BY <1>1 DEF TypeOK, AllMessages
<1>4. CASE DoPreExecutionAsLeader
  <2>1. available' \subseteq Nodes /\ Leader \in available'
    BY <1>4, LeaderChoices
  <2>2. net' \subseteq AllMessages
    <3>1. CASE \E sel \in CheckEnoughParticipants(available') : LeaderFinalized("yes", sel)
      <4>1. PICK sel \in CheckEnoughParticipants(available') : LeaderFinalized("yes", sel)
        BY <3>1
      <4>2. sel \in Selection
        BY <1>0, <2>1, EnoughSelects
      <4> QED BY <1>2, <4>1, <4>2, LeaderResult
    <3>2. CASE net' = net \cup {Request(p) : p \in Nodes \ available'}
      BY <1>2, <2>1, <3>2, Sent DEF Members
    <3> QED BY <1>4, <3>1, <3>2 DEF DoPreExecutionAsLeader
  <2> QED BY <1>2, <1>4, <2>1, <2>2 DEF DoPreExecutionAsLeader
<1>5. ASSUME NEW m \in responses, TakeResponse(m)
      PROVE  Rest
  <2>1. available' \subseteq Nodes /\ Leader \in available'
    BY <1>5, LeaderChoices
  <2>2. net' \subseteq AllMessages
    <3>1. CASE \E sel \in CheckEnoughParticipants(available') : LeaderFinalized("yes", sel)
      <4>1. PICK sel \in CheckEnoughParticipants(available') : LeaderFinalized("yes", sel)
        BY <3>1
      <4>2. sel \in Selection
        BY <1>0, <2>1, EnoughSelects
      <4> QED BY <1>2, <4>1, <4>2, LeaderResult
    <3>2. CASE UNCHANGED net
      BY <1>2, <3>2
    <3>3. CASE LeaderFinalized("no", Nobody)
      BY <1>0, <1>2, <3>3, LeaderResult
    <3> QED BY <1>5, <3>1, <3>2, <3>3 DEF TakeResponse
  <2> QED BY <1>2, <1>5, <2>1, <2>2 DEF TakeResponse
<1>6. CASE LeaderTimesOut
  <2>1. ASSUME NEW ok \in {"yes", "no"}, NEW sel \in Selection, LeaderFinalized(ok, sel)
        PROVE  net' \subseteq AllMessages
    BY <1>2, <2>1, LeaderResult
  <2>2. \A sel \in WithLeader(available, Threshold) : sel \in Selection
    BY <1>2 DEF WithLeader, GetPartyList, Selection
  <2>3. net' \subseteq AllMessages
    BY <1>0, <1>6, <2>1, <2>2 DEF LeaderTimesOut
  <2> QED BY <1>2, <1>6, <2>3 DEF LeaderTimesOut
<1>7. ASSUME NEW n \in Members, DoPreExecutionAsMember(n) \/ MemberTimesOut(n)
      PROVE  Rest
  BY <1>2, <1>7, Sent DEF DoPreExecutionAsMember, MemberTimesOut
<1>8. ASSUME NEW m \in net, CacheMessage(m) \/ OnPreExecOutput(m)
      PROVE  Rest
  BY <1>2, <1>8 DEF CacheMessage, OnPreExecOutput
<1>9. ASSUME NEW m \in net, OnPreExecutionRequest(m)
      PROVE  Rest
  <2>1. Response(m.to, "request") \in AllMessages
    BY <1>2, <1>9, MessageFields, Sent DEF OnPreExecutionRequest
  <2> QED BY <1>2, <1>9, <2>1 DEF OnPreExecutionRequest
<1>10. ASSUME NEW m \in net, OnPreExecutionResponse(m)
       PROVE  Rest
  <2>1. m \in Responses
    BY <1>2, <1>10, MessageFields DEF OnPreExecutionResponse
  <2> QED BY <1>2, <1>10, <2>1 DEF OnPreExecutionResponse
<1>11. CASE Tick
  BY <1>2, <1>11 DEF Tick
<1>12. CASE UNCHANGED vars
  BY <1>2, <1>12 DEF vars
<1> QED BY <1>4, <1>5, <1>6, <1>7, <1>8, <1>9, <1>10, <1>11, <1>12 DEF Next

TypeInv == TypeOK /\ Leader \in available

\* All variables have their types.
THEOREM SelectionTypeCorrect == Spec => []TypeOK
<1>1. Init => TypeInv
  BY LeaderIsNode DEF Init, TypeInv, TypeOK, States, Selection, Nobody
<1>2. TypeInv /\ [Next]_vars => TypeInv'
  BY TypeStep DEF TypeInv
<1>3. TypeInv => TypeOK
  BY DEF TypeInv
<1> QED BY <1>1, <1>2, <1>3, PTL DEF Spec

-----------------------------------------------------------------------------

\* What never goes back: a start, and the leader's success with its choice.
LEMMA Stable ==
  ASSUME TypeInv, [Next]_vars
  PROVE  /\ \A n \in Nodes : state[n] # "off" => state'[n] # "off"
         /\ state[Leader] = "exec" => state'[Leader] = "exec" /\ chosen'[Leader] = chosen[Leader]
         /\ state[Leader] # "excluded" => state'[Leader] # "excluded"
         /\ state'[Leader] = "exec" /\ state[Leader] # "exec" => Leader \in chosen'[Leader].pids
<1> USE LeaderIsNode DEF TypeInv, TypeOK
<1>1. CASE UNCHANGED <<state, chosen>>
  BY <1>1
<1>2. CASE \E n \in Nodes : /\ state[n] = "off"
                            /\ state' = [state EXCEPT ![n] = "wait"]
                            /\ UNCHANGED chosen
  BY <1>2
<1>3. ASSUME NEW ok, NEW sel, LeaderDecides(ok, sel)
      PROVE  /\ \A n \in Nodes : state[n] # "off" => state'[n] # "off"
             /\ state[Leader] # "exec" /\ state'[Leader] # "excluded"
             /\ state'[Leader] = "exec" => Leader \in chosen'[Leader].pids
  <2>1. /\ state' = [state EXCEPT ![Leader] = IF ok = "yes" THEN "exec" ELSE "failed"]
        /\ chosen' = [chosen EXCEPT ![Leader] = sel]
    BY <1>3, LeaderResult DEF LeaderDecides
  <2> QED BY <1>3, <2>1 DEF LeaderDecides
<1>4. ASSUME NEW n \in Members, MemberDecides(n)
      PROVE  /\ \A p \in Nodes : state[p] # "off" => state'[p] # "off"
             /\ state'[Leader] = state[Leader] /\ chosen'[Leader] = chosen[Leader]
  <2>1. \E r \in {"exec", "excluded", "failed"}, c \in Selection :
            /\ state' = [state EXCEPT ![n] = r]
            /\ chosen' = [chosen EXCEPT ![n] = c]
    <3>1. ASSUME NEW m \in net \cup cached, m.type = "output", MemberFinalized(n, m)
          PROVE  \E r \in {"exec", "excluded", "failed"}, c \in Selection :
                   /\ state' = [state EXCEPT ![n] = r]
                   /\ chosen' = [chosen EXCEPT ![n] = c]
      <4>1. m.sel \in Selection
        BY <3>1, MessageFields DEF AllMessages
      <4> QED BY <3>1, <4>1, MemberResult
    <3>2. Nobody \in Selection
      BY DEF Nobody, Selection
    <3> QED BY <1>4, <3>1, <3>2 DEF MemberDecides, BroadcastResult
  <2> QED BY <2>1 DEF Members
<1>5. UNCHANGED vars => UNCHANGED <<state, chosen>>
  BY DEF vars
<1> QED BY <1>1, <1>2, <1>3, <1>4, <1>5, Steps

\* A message that is true of the results stays true, and so do the new ones.
LEMMA AnnouncedStep ==
  ASSUME TypeInv, AnnouncedInv, [Next]_vars
  PROVE  AnnouncedInv'
<1> USE LeaderIsNode
<1> DEFINE True(m) == /\ m.type = "response" => state'[m.from] # "off"
                      /\ m.type = "output" /\ m.success = "yes" =>
                           state'[Leader] = "exec" /\ m.sel = chosen'[Leader]
           Grown == /\ \A p \in available' \ {Leader} : state'[p] # "off"
                    /\ \A m \in responses' \cup net' \cup cached' : True(m)
<1>0. TypeOK /\ Leader \in available
  BY DEF TypeInv
<1>1. /\ \A m \in responses \cup net \cup cached : True(m)
      /\ \A p \in available \ {Leader} : state'[p] # "off"
  <2>1. \A m \in net \cup cached : m.type = "response" => m.from \in Nodes
    BY <1>0, MessageFields DEF TypeOK, AllMessages, Members
  <2>2. \A m \in responses : m.type = "response" /\ m.from \in Nodes
    BY <1>0, Messages DEF TypeOK, Members
  <2> QED BY <1>0, <2>1, <2>2, Stable DEF AnnouncedInv, TypeOK
<1>2. TypeOK' /\ Leader \in available'
  BY <1>0, TypeStep
<1>3. SUFFICES Grown
  BY <1>2, <1>3, Stable DEF AnnouncedInv
<1>4. ASSUME NEW ok \in {"yes", "no"}, NEW sel \in Selection, LeaderFinalized(ok, sel)
      PROVE  \A m \in net' : True(m)
  <2>1. /\ ok = "yes" => state'[Leader] = "exec"
        /\ chosen'[Leader] = sel
    BY <1>0, <1>4, LeaderResult DEF TypeOK
  <2>2. \A m \in net' \ net : m.type = "output" /\ m.success = ok /\ m.sel = sel
    BY <1>4, LeaderResult
  <2> QED BY <1>1, <2>1, <2>2
<1>5. Choices \subseteq Selection /\ Nobody \in Selection
  BY DEF Choices, Selection, Nobody
<1>6. CASE DoPreExecutionAsLeader
  <2>1. \A p \in available' \ {Leader} : state'[p] # "off"
    BY <1>1, <1>6 DEF DoPreExecutionAsLeader
  <2>2. CASE \E sel \in CheckEnoughParticipants(available') : LeaderFinalized("yes", sel)
    <3>1. \A m \in net' : True(m)
      BY <1>2, <1>4, <1>5, <2>2, EnoughSelects DEF TypeOK
    <3> QED BY <1>1, <1>6, <2>1, <3>1 DEF DoPreExecutionAsLeader
  <2>3. CASE net' = net \cup {Request(p) : p \in Nodes \ available'}
    <3>1. \A m \in net' \ net : m.type = "request"
      BY <2>3 DEF Request
    <3> QED BY <1>1, <1>6, <2>1, <3>1 DEF DoPreExecutionAsLeader
  <2> QED BY <1>6, <2>2, <2>3 DEF DoPreExecutionAsLeader
<1>7. ASSUME NEW m \in responses, TakeResponse(m)
      PROVE  Grown
  <2>1. m.type = "response"
    BY <1>0, Messages DEF TypeOK
  <2>2. \A p \in available' \ {Leader} : state'[p] # "off"
    BY <1>1, <1>7, <2>1 DEF TakeResponse
  <2>3. \A x \in net' : True(x)
    <3>1. CASE \E sel \in CheckEnoughParticipants(available') : LeaderFinalized("yes", sel)
      BY <1>2, <1>4, <1>5, <3>1, EnoughSelects DEF TypeOK
    <3>2. CASE LeaderFinalized("no", Nobody)
      BY <1>4, <1>5, <3>2
    <3>3. CASE UNCHANGED net
      BY <1>1, <3>3
    <3> QED BY <1>7, <3>1, <3>2, <3>3 DEF TakeResponse
  <2> QED BY <1>1, <1>7, <2>2, <2>3 DEF TakeResponse
<1>8. CASE LeaderTimesOut
  <2>1. \A sel \in WithLeader(available, Threshold) : sel \in Selection
    BY <1>0 DEF WithLeader, GetPartyList, Selection, TypeOK
  <2>2. \A m \in net' : True(m)
    BY <1>4, <1>5, <1>8, <2>1 DEF LeaderTimesOut
  <2> QED BY <1>1, <1>8, <2>2 DEF LeaderTimesOut
<1>9. ASSUME NEW n \in Members, DoPreExecutionAsMember(n)
      PROVE  Grown
  <2>1. UNCHANGED <<available, responses>> /\ cached' \subseteq cached
    BY <1>9 DEF DoPreExecutionAsMember
  <2>2. CASE UNCHANGED net
    BY <1>1, <2>1, <2>2
  <2>3. CASE net' = net \cup {Response(n, "start")} /\ state' = [state EXCEPT ![n] = "wait"]
    <3>1. /\ Response(n, "start").type = "response"
          /\ Response(n, "start").from = n
          /\ state'[n] = "wait"
      BY <1>0, <2>3 DEF Response, Members, TypeOK
    <3>2. True(Response(n, "start"))
      BY <3>1
    <3> HIDE DEF True
    <3> QED BY <1>1, <2>1, <2>3, <3>2
  <2> QED BY <1>9, <2>2, <2>3 DEF DoPreExecutionAsMember
<1>10. ASSUME NEW n \in Members, MemberTimesOut(n)
       PROVE  Grown
  BY <1>1, <1>10 DEF MemberTimesOut
<1>11. ASSUME NEW m \in net, CacheMessage(m) \/ OnPreExecOutput(m) \/ OnPreExecutionResponse(m)
       PROVE  Grown
  <2> HIDE DEF True
  <2> QED BY <1>1, <1>11 DEF CacheMessage, OnPreExecOutput, OnPreExecutionResponse
<1>12. ASSUME NEW m \in net, OnPreExecutionRequest(m)
       PROVE  Grown
  <2>1. /\ Response(m.to, "request").type = "response"
        /\ Response(m.to, "request").from = m.to
        /\ state'[m.to] # "off"
    BY <1>12 DEF Response, OnPreExecutionRequest
  <2>2. True(Response(m.to, "request"))
    BY <2>1
  <2> HIDE DEF True
  <2> QED BY <1>1, <1>12, <2>2 DEF OnPreExecutionRequest
<1>13. CASE Tick \/ UNCHANGED vars
  <2> HIDE DEF True
  <2> QED BY <1>1, <1>13 DEF Tick, vars
<1> QED BY <1>6, <1>7, <1>8, <1>9, <1>10, <1>11, <1>12, <1>13 DEF Next

\* Every step of the round is a step of Selection, or changes no result.
LEMMA SelectionStep ==
  ASSUME TypeInv, AnnouncedInv, [Next]_vars
  PROVE  [Sel!Next]_(Sel!vars)
<1> USE LeaderIsNode DEF Sel!vars
<1>0. TypeOK /\ Leader \in available
  BY DEF TypeInv
<1>1. CASE UNCHANGED vars \/ UNCHANGED <<state, chosen>>
  BY <1>1 DEF vars
<1>2. CASE \E n \in Nodes : /\ state[n] = "off"
                            /\ state' = [state EXCEPT ![n] = "wait"]
                            /\ UNCHANGED chosen
  BY <1>2, Zenon DEF Sel!Next, Sel!Start
<1>3. ASSUME NEW ok, NEW sel, LeaderDecides(ok, sel)
      PROVE  Sel!Next
  <2>1. /\ state' = [state EXCEPT ![Leader] = IF ok = "yes" THEN "exec" ELSE "failed"]
        /\ chosen' = [chosen EXCEPT ![Leader] = sel]
    BY <1>3, LeaderResult DEF LeaderDecides
  <2>2. CASE ok = "yes"
    <3>1. AnnouncedInv'
      BY AnnouncedStep
    <3>2. sel \in Choices /\ Leader \in sel.pids /\ sel.pids \subseteq available'
      BY <1>3, <2>2 DEF LeaderDecides
    <3>3. \A p \in sel.pids \ {Leader} : state'[p] # "off"
      BY <3>1, <3>2 DEF AnnouncedInv
    <3>4. \A p \in sel.pids \ {Leader} : p \in Nodes
      BY <3>2 DEF Choices, Selection
    <3>5. \A p \in sel.pids \ {Leader} : state[p] # "off"
      BY <1>0, <2>1, <3>3, <3>4 DEF TypeOK
    <3>6. Sel!Decide(Leader, "exec", sel)
      BY <1>3, <2>1, <2>2 DEF LeaderDecides, Sel!Decide, Sel!Undecided
    <3> QED BY <3>2, <3>5, <3>6 DEF Sel!Next, Sel!Select
  <2>3. CASE ok = "no"
    <3>1. sel = Nobody
      BY <1>3, <2>3 DEF LeaderDecides
    <3> QED BY <1>3, <2>1, <2>3, <3>1, Zenon
            DEF LeaderDecides, Sel!Next, Sel!Fail, Sel!Decide, Sel!Undecided
  <2> QED BY <1>3, <2>2, <2>3 DEF LeaderDecides
<1>4. ASSUME NEW n \in Members, MemberDecides(n)
      PROVE  Sel!Next
  <2>0. n \in Nodes /\ n # Leader /\ Sel!Undecided(n)
    BY <1>4 DEF Members, MemberDecides, Sel!Undecided
  <2>1. CASE BroadcastResult(n, "failed", Nobody)
    BY <2>0, <2>1, Zenon DEF BroadcastResult, Sel!Next, Sel!Fail, Sel!Decide
  <2>2. ASSUME NEW m \in net \cup cached, m.type = "output", MemberFinalized(n, m)
        PROVE  Sel!Next
    <3>1. m.sel \in Selection
      BY <1>0, <2>2, MessageFields DEF TypeOK, AllMessages
    <3>2. PICK r \in {"exec", "excluded", "failed"}, c \in Selection :
            /\ state' = [state EXCEPT ![n] = r]
            /\ chosen' = [chosen EXCEPT ![n] = c]
            /\ r = "exec" => m.success = "yes" /\ c = m.sel /\ n \in c.pids
            /\ r = "excluded" => m.success = "yes" /\ c = m.sel /\ n \notin c.pids
            /\ r = "failed" => c = Nobody
      BY <2>2, <3>1, MemberResult
    <3>3. m.success = "yes" => state[Leader] = "exec" /\ m.sel = chosen[Leader]
      BY <2>2 DEF AnnouncedInv
    <3>4. CASE r = "exec"
      BY <2>0, <3>2, <3>3, <3>4, Zenon DEF Sel!Next, Sel!Join, Sel!Decide
    <3>5. CASE r = "excluded"
      BY <2>0, <3>2, <3>3, <3>5, Zenon DEF Sel!Next, Sel!LeaveOut, Sel!Decide
    <3>6. CASE r = "failed"
      BY <2>0, <3>2, <3>6, Zenon DEF Sel!Next, Sel!Fail, Sel!Decide
    <3> QED BY <3>4, <3>5, <3>6
  <2> QED BY <1>4, <2>1, <2>2 DEF MemberDecides
<1> QED BY <1>0, <1>1, <1>2, <1>3, <1>4, Steps

\* The results of a round are those of Selection whatever happens to messages
\* and timers.
THEOREM RoundImplementsSelection == Spec => ImplementsSelection
<1>1. Init => TypeInv /\ AnnouncedInv /\ Sel!Init
  BY LeaderIsNode DEF Init, TypeInv, TypeOK, States, Selection, Nobody, AnnouncedInv, Sel!Init
<1>2. TypeInv /\ AnnouncedInv /\ [Next]_vars => TypeInv' /\ AnnouncedInv'
  BY TypeStep, AnnouncedStep DEF TypeInv
<1>3. TypeInv /\ AnnouncedInv /\ [Next]_vars => [Sel!Next]_(Sel!vars)
  BY SelectionStep
<1> QED BY <1>1, <1>2, <1>3, PTL DEF Spec, ImplementsSelection, Sel!Spec

\* Agreement and the ability of the group are kept by the steps of Selection.
LEMMA SelectionKeeps ==
  ASSUME TypeOK, Agreement, GroupIsAble, state[Leader] # "excluded", [Sel!Next]_(Sel!vars)
  PROVE  Agreement' /\ GroupIsAble'
<1> USE LeaderIsNode
<1>1. CASE UNCHANGED Sel!vars
  BY <1>1 DEF Sel!vars, Agreement, GroupIsAble
<1>2. ASSUME NEW n \in Nodes, Sel!Start(n)
      PROVE  Agreement' /\ GroupIsAble'
  BY <1>2 DEF Sel!Start, Agreement, GroupIsAble, TypeOK, Selection
<1>3. ASSUME NEW n \in Nodes, Sel!Join(n) \/ Sel!LeaveOut(n)
      PROVE  Agreement' /\ GroupIsAble'
  <2>0. state \in [Nodes -> States] /\ chosen \in [Nodes -> Selection]
    BY DEF TypeOK
  <2>1. PICK r \in {"exec", "excluded"} :
          /\ n # Leader /\ state[Leader] = "exec"
          /\ r = "exec" <=> n \in chosen[Leader].pids
          /\ state' = [state EXCEPT ![n] = r]
          /\ chosen' = [chosen EXCEPT ![n] = chosen[Leader]]
    BY <1>3, Zenon DEF Sel!Join, Sel!LeaveOut, Sel!Decide
  <2>2. /\ state'[Leader] = "exec" /\ chosen'[Leader] = chosen[Leader]
        /\ state'[n] = r /\ chosen'[n] = chosen[Leader]
        /\ \A p \in Nodes \ {n} : state'[p] = state[p] /\ chosen'[p] = chosen[p]
    BY <2>0, <2>1
  <2>3. Agreement'
    BY <2>1, <2>2 DEF Agreement
  <2>4. \A p \in chosen[Leader].pids : p \in Nodes /\ state[p] # "off"
    BY <2>0, <2>1 DEF GroupIsAble, Selection
  <2>5. \A p \in chosen[Leader].pids : state'[p] # "off"
    BY <2>1, <2>2, <2>4
  <2>6. GroupIsAble'
    BY <2>1, <2>2, <2>5, Zenon DEF GroupIsAble
  <2> QED BY <2>3, <2>6
<1>4. ASSUME NEW n \in Nodes, Sel!Fail(n)
      PROVE  Agreement' /\ GroupIsAble'
  BY <1>4 DEF Sel!Fail, Sel!Decide, Sel!Undecided, Agreement, GroupIsAble, TypeOK, Selection
<1>5. ASSUME NEW sel \in Choices, Sel!Select(sel)
      PROVE  Agreement' /\ GroupIsAble'
  <2>1. /\ state' = [state EXCEPT ![Leader] = "exec"]
        /\ chosen' = [chosen EXCEPT ![Leader] = sel]
        /\ state[Leader] # "exec"
        /\ Leader \in sel.pids
        /\ \A p \in sel.pids \ {Leader} : state[p] # "off"
    BY <1>5 DEF Sel!Select, Sel!Decide, Sel!Undecided
  <2>2. Agreement'
    BY <2>1 DEF Agreement, TypeOK
  <2>3. chosen'[Leader] = sel /\ \A p \in sel.pids : state'[p] # "off"
    BY <2>1 DEF TypeOK, Choices, Selection
  <2>4. GroupIsAble'
    BY <2>3 DEF GroupIsAble, Choices
  <2> QED BY <2>2, <2>4
<1> QED BY <1>1, <1>2, <1>3, <1>4, <1>5 DEF Sel!Next

\* The invariants hold before any node has started.
LEMMA InitFacts == Init => TypeInv /\ AnnouncedInv /\ Agreement /\ GroupIsAble
<1> SUFFICES ASSUME Init PROVE TypeInv /\ AnnouncedInv /\ Agreement /\ GroupIsAble
  OBVIOUS
<1>1. \A n \in Nodes : state[n] = "off"
  BY DEF Init
<1>2. Agreement /\ GroupIsAble
  BY <1>1, LeaderIsNode DEF Agreement, GroupIsAble
<1>3. TypeInv
  BY LeaderIsNode DEF Init, TypeInv, TypeOK, States, Selection, Nobody
<1>4. AnnouncedInv
  <2>1. available = {Leader} /\ responses = {} /\ net = {} /\ cached = {} /\ state[Leader] = "off"
    BY <1>1, LeaderIsNode DEF Init
  <2> QED BY <2>1 DEF AnnouncedInv
<1> QED BY <1>2, <1>3, <1>4

\* Whoever executes agrees with the leader, and whoever is left out is not needed.
THEOREM NodesAgree == Spec => []Agreement
<1>1. Init => TypeInv /\ AnnouncedInv /\ Agreement /\ GroupIsAble
  BY InitFacts
<1>2. TypeInv /\ AnnouncedInv /\ Agreement /\ GroupIsAble /\ [Next]_vars
      => TypeInv' /\ AnnouncedInv' /\ Agreement' /\ GroupIsAble'
  BY TypeStep, AnnouncedStep, SelectionStep, SelectionKeeps DEF TypeInv, AnnouncedInv
<1> QED BY <1>1, <1>2, PTL DEF Spec

\* The group has enough parties, and all of them have started.
THEOREM GroupStaysAble == Spec => []GroupIsAble
<1>1. Init => TypeInv /\ AnnouncedInv /\ Agreement /\ GroupIsAble
  BY InitFacts
<1>2. TypeInv /\ AnnouncedInv /\ Agreement /\ GroupIsAble /\ [Next]_vars
      => TypeInv' /\ AnnouncedInv' /\ Agreement' /\ GroupIsAble'
  BY TypeStep, AnnouncedStep, SelectionStep, SelectionKeeps DEF TypeInv, AnnouncedInv
<1> QED BY <1>1, <1>2, PTL DEF Spec

-----------------------------------------------------------------------------
(* The channel of the leader *)

\* What a member is asked and what it says are different messages.
LEMMA Kinds ==
  ASSUME NEW p \in Members, NEW q \in Members
  PROVE  /\ Request(p).type = "request" /\ Request(p).to = p
         /\ \A c \in {"start", "request"} :
              /\ Response(p, c).type = "response" /\ Response(p, c).from = p
              /\ Response(p, c) # Request(q)
         /\ Response(p, "start") # Response(q, "request")
         /\ p # q => Request(p) # Request(q) /\ \A c \in {"start", "request"} : Response(p, c) # Response(q, c)
<1>1. /\ Request(p).type = "request" /\ Request(p).to = p /\ Request(q).type = "request" /\ Request(q).to = q
  BY DEF Request
<1>2. \A c \in {"start", "request"} :
        /\ Response(p, c).type = "response" /\ Response(p, c).from = p /\ Response(p, c).cause = c
        /\ Response(q, c).from = q /\ Response(q, c).cause = c
  BY DEF Response
<1> QED BY <1>1, <1>2

\* A request and a response in their general form.
LEMMA Forms ==
  /\ \A m \in AllMessages : m.type = "request" => m.to \in Members /\ m = Request(m.to)
  /\ \A m \in Responses : /\ m.type = "response" /\ m.to = Leader /\ m.from \in Members
                          /\ m = Response(m.from, "start") \/ m = Response(m.from, "request")
<1>1. ASSUME NEW m \in AllMessages, m.type = "request"
      PROVE  m.to \in Members /\ m = Request(m.to)
  <2>1. m \in Requests
    BY <1>1, Messages DEF AllMessages
  <2> QED BY <2>1 DEF Requests, Request
<1>2. ASSUME NEW m \in Responses
      PROVE  /\ m.type = "response" /\ m.to = Leader /\ m.from \in Members
             /\ m = Response(m.from, "start") \/ m = Response(m.from, "request")
  <2>1. PICK p \in Members, c \in {"start", "request"} : m = Response(p, c)
    BY DEF Responses
  <2>2. m.from = p /\ m.type = "response" /\ m.to = Leader
    BY <2>1 DEF Response
  <2> QED BY <2>1, <2>2
<1> QED BY <1>1, <1>2

\* A member whose messages only become fewer, and that is not counted anew.
LEMMA FewerMessages ==
  ASSUME NEW p \in Members, OneAnswer(p),
         \A m \in {Request(p), Response(p, "start"), Response(p, "request")} :
           /\ m \in net' => m \in net
           /\ m \in cached' => m \in cached
           /\ m \in responses' => m \in responses,
         p \in available' => p \in available
  PROVE  OneAnswer(p)' /\ (AskUnderWay(p)' => AskUnderWay(p))
<1>1. AskUnderWay(p)' => AskUnderWay(p)
  BY DEF AskUnderWay
<1>2. StartUnderWay(p)' => StartUnderWay(p)
  BY DEF StartUnderWay
<1> QED BY <1>1, <1>2 DEF OneAnswer

\* A step that sends nothing but announcements and counts nobody.
LEMMA Announces ==
  ASSUME ResponseInv, available' = available,
         \A m \in net' \ net : m.type = "output", cached' \subseteq cached, responses' \subseteq responses,
         state'[Leader] = "off" <=> state[Leader] = "off",
         state'[Leader] = "exec" => Cardinality(available) >= GetMinPartyCount
  PROVE  ResponseInv'
<1>1. ASSUME NEW p \in Members
      PROVE  OneAnswer(p)' /\ (AskUnderWay(p)' => AskUnderWay(p))
  <2>1. OneAnswer(p)
    BY DEF ResponseInv, OneAnswer
  <2>2. /\ Request(p).type # "output"
        /\ Response(p, "start").type # "output"
        /\ Response(p, "request").type # "output"
    BY Kinds
  <2>3. \A m \in {Request(p), Response(p, "start"), Response(p, "request")} :
          /\ m \in net' => m \in net
          /\ m \in cached' => m \in cached
          /\ m \in responses' => m \in responses
    BY <2>2
  <2> QED BY <2>1, <2>3, FewerMessages
<1>2. \A m \in cached' : m.type = "response" => state'[Leader] = "off"
  BY DEF ResponseInv
<1>3. state'[Leader] = "off" => responses' = {} /\ \A p \in Members : ~AskUnderWay(p)'
  BY <1>1 DEF ResponseInv
<1> QED BY <1>1, <1>2, <1>3 DEF ResponseInv, OneAnswer

\* The leader selects only if it has counted enough.
LEMMA EnoughCounted ==
  ASSUME NEW a, CheckEnoughParticipants(a) # {}, a \in SUBSET Nodes
  PROVE  Cardinality(a) >= GetMinPartyCount
<1>1. ~ (Cardinality(a) < GetMinPartyCount)
  BY DEF CheckEnoughParticipants
<1>2. Cardinality(a) \in Nat /\ GetMinPartyCount \in Nat
  BY NodesAssumption, ThresholdAssumption, FS_Subset, FS_CardinalityType DEF GetMinPartyCount
<1> QED BY <1>1, <1>2

\* The leader starts.
LEMMA LeaderStartAnswers ==
  ASSUME TypeInv, ResponseInv, DoPreExecutionAsLeader
  PROVE  ResponseInv'
<1> USE LeaderIsNode
<1>0. TypeOK /\ Leader \in available /\ state \in [Nodes -> States] /\ Choices \subseteq Selection
  BY DEF TypeInv, TypeOK, Choices
<1>1. /\ state[Leader] = "off" /\ responses = {} /\ responses' = {}
      /\ \A p \in Members : ~AskUnderWay(p)
      /\ cached' = {m \in cached : m.to # Leader}
  BY DEF DoPreExecutionAsLeader, ResponseInv
<1>2. available' \in SUBSET Nodes /\ Leader \in available'
  BY <1>0, LeaderChoices
<1>3. \A m \in cached' : m.type # "response"
  <2>1. \A m \in cached : m.type = "response" => m.to = Leader
    BY <1>0, MessageFields, Messages DEF TypeOK, AllMessages
  <2> QED BY <1>1, <2>1
<1>4. /\ state'[Leader] # "off"
      /\ state'[Leader] = "exec" => Cardinality(available') >= GetMinPartyCount
      /\ \A m \in net' \ net : m.type = "output" \/ \E p \in Nodes \ available' : m = Request(p)
  <2>1. CASE \E sel \in CheckEnoughParticipants(available') : LeaderFinalized("yes", sel)
    <3>1. PICK sel \in CheckEnoughParticipants(available') : LeaderFinalized("yes", sel)
      BY <2>1
    <3>2. sel \in Selection
      BY <1>0, <1>2, EnoughSelects
    <3>3. /\ state' = [state EXCEPT ![Leader] = "exec"]
          /\ \A m \in net' \ net : m.type = "output"
      BY <3>1, <3>2, LeaderResult
    <3>4. Cardinality(available') >= GetMinPartyCount
      BY <1>2, EnoughCounted
    <3> QED BY <1>0, <3>3, <3>4
  <2>2. CASE /\ state' = [state EXCEPT ![Leader] = "wait"]
             /\ net' = net \cup {Request(p) : p \in Nodes \ available'}
    BY <1>0, <2>2
  <2> QED BY <2>1, <2>2 DEF DoPreExecutionAsLeader
<1>5. ASSUME NEW p \in Members
      PROVE  OneAnswer(p)'
  <2>1. /\ Request(p) \notin net \cup cached
        /\ Response(p, "request") \notin net
    BY <1>1 DEF AskUnderWay
  <2>2. Response(p, "request") \notin net'
    <3>1. Response(p, "request").type = "response"
      BY Kinds
    <3>2. \A q \in Nodes \ available' : Request(q).type = "request"
      BY DEF Request
    <3> QED BY <1>4, <2>1, <3>1, <3>2
  <2>3. p \in available' => Request(p) \notin net'
    <3>1. Request(p).type = "request" /\ Request(p).to = p
      BY Kinds
    <3>2. \A q \in Nodes \ available' : Request(q).to = q
      BY DEF Request
    <3> QED BY <1>4, <2>1, <3>1, <3>2
  <2>4. Request(p) \notin cached'
    BY <1>1, <2>1
  <2> QED BY <1>1, <2>2, <2>3, <2>4 DEF OneAnswer, AskUnderWay
<1> QED BY <1>3, <1>4, <1>5 DEF ResponseInv, OneAnswer

\* The leader counts a response: it was the only one of its kind.
LEMMA CountsAnswer ==
  ASSUME TypeInv, ResponseInv, NEW m \in responses, TakeResponse(m)
  PROVE  ResponseInv'
<1> USE LeaderIsNode
<1>0. TypeOK /\ Leader \in available /\ state \in [Nodes -> States] /\ Choices \subseteq Selection /\ Nobody \in Selection
  BY DEF TypeInv, TypeOK, Choices, Nobody, Selection
<1>1. /\ state[Leader] = "wait" /\ responses' = responses \ {m} /\ cached' = cached
      /\ available' = available \cup {m.from}
  BY DEF TakeResponse
<1>2. available' \in SUBSET Nodes /\ Leader \in available'
  BY <1>0, LeaderChoices
<1>3. /\ state'[Leader] # "off"
      /\ state'[Leader] = "exec" => Cardinality(available') >= GetMinPartyCount
      /\ \A x \in net' \ net : x.type = "output"
  <2>1. CASE \E sel \in CheckEnoughParticipants(available') : LeaderFinalized("yes", sel)
    <3>1. PICK sel \in CheckEnoughParticipants(available') : LeaderFinalized("yes", sel)
      BY <2>1
    <3>2. sel \in Selection
      BY <1>0, <1>2, EnoughSelects
    <3>3. /\ state' = [state EXCEPT ![Leader] = "exec"]
          /\ \A x \in net' \ net : x.type = "output"
      BY <3>1, <3>2, LeaderResult
    <3>4. Cardinality(available') >= GetMinPartyCount
      BY <1>2, EnoughCounted
    <3> QED BY <1>0, <3>3, <3>4
  <2>2. CASE UNCHANGED <<state, chosen, net>>
    BY <1>1, <2>2
  <2>3. CASE LeaderFinalized("no", Nobody)
    <3>1. /\ state' = [state EXCEPT ![Leader] = "failed"]
          /\ \A x \in net' \ net : x.type = "output"
      BY <1>0, <2>3, LeaderResult
    <3> QED BY <1>0, <3>1
  <2> QED BY <2>1, <2>2, <2>3 DEF TakeResponse
<1>4. ASSUME NEW p \in Members
      PROVE  OneAnswer(p)'
  <2>1. OneAnswer(p)
    BY DEF ResponseInv, OneAnswer
  <2>2. /\ Request(p).type # "output"
        /\ Response(p, "start").type # "output"
        /\ Response(p, "request").type # "output"
    BY Kinds
  <2>3. \A x \in {Request(p), Response(p, "start"), Response(p, "request")} :
          /\ x \in net' => x \in net
          /\ x \in cached' => x \in cached
          /\ x \in responses' => x \in responses
    BY <1>1, <1>3, <2>2
  <2>4. CASE p # m.from
    BY <1>1, <2>1, <2>3, <2>4, FewerMessages
  <2>5. CASE p = m.from
    <3>1. m = Response(p, "start") \/ m = Response(p, "request")
      BY <1>0, <2>5, Forms DEF TypeOK
    <3>2. CASE m = Response(p, "start")
      <4>1. Response(p, "start") \notin net' \cup responses'
        BY <1>1, <2>1, <2>3, <3>2 DEF OneAnswer
      <4> QED BY <2>1, <2>3, <4>1 DEF OneAnswer, StartUnderWay
    <3>3. CASE m = Response(p, "request")
      <4>1. Response(p, "request") \notin net' \cup responses'
        BY <1>1, <2>1, <2>3, <3>3 DEF OneAnswer
      <4>2. Request(p) \notin net' \cup cached'
        BY <2>1, <2>3, <3>3 DEF OneAnswer
      <4> QED BY <2>1, <2>3, <4>1, <4>2 DEF OneAnswer, AskUnderWay
    <3> QED BY <3>1, <3>2, <3>3
  <2> QED BY <2>4, <2>5
<1>5. \A x \in cached' : x.type # "response"
  BY <1>1 DEF ResponseInv
<1> QED BY <1>3, <1>4, <1>5 DEF ResponseInv, OneAnswer

\* A member starts: nothing of it was under way.
LEMMA MemberStartAnswers ==
  ASSUME TypeInv, AnnouncedInv, ResponseInv, NEW n \in Members, DoPreExecutionAsMember(n)
  PROVE  ResponseInv'
<1> USE LeaderIsNode
<1>0. TypeOK /\ state \in [Nodes -> States] /\ n \in Nodes /\ n # Leader
  BY DEF TypeInv, TypeOK, Members
<1>1. state[n] = "off" /\ cached' \subseteq cached /\ UNCHANGED <<available, responses>>
  BY DEF DoPreExecutionAsMember
<1>2. CASE \E m \in cached : m.type = "output" /\ MemberFinalized(n, m) /\ UNCHANGED net
  <2>1. PICK m \in cached : m.type = "output" /\ MemberFinalized(n, m) /\ UNCHANGED net
    BY <1>2
  <2>2. m.sel \in Selection
    BY <1>0, <2>1, MessageFields DEF TypeOK, AllMessages
  <2>3. state'[Leader] = state[Leader]
    BY <1>0, <2>1, <2>2, MemberResult
  <2> QED BY <1>1, <2>1, <2>3, Announces DEF ResponseInv
<1>3. CASE state' = [state EXCEPT ![n] = "wait"] /\ net' = net \cup {Response(n, "start")}
  <2>1. state'[Leader] = state[Leader]
    BY <1>0, <1>3
  <2>2. /\ Response(n, "start") \notin net \cup responses
        /\ n \notin available
    <3>1. Response(n, "start").type = "response" /\ Response(n, "start").from = n
      BY Kinds
    <3> QED BY <1>0, <1>1, <3>1 DEF AnnouncedInv
  <2>3. ASSUME NEW p \in Members
        PROVE  OneAnswer(p)' /\ (AskUnderWay(p)' => AskUnderWay(p))
    <3>1. OneAnswer(p)
      BY DEF ResponseInv, OneAnswer
    <3>2. /\ Request(p) \in net' => Request(p) \in net
          /\ Response(p, "request") \in net' => Response(p, "request") \in net
          /\ p # n => (Response(p, "start") \in net' => Response(p, "start") \in net)
      BY <1>3, Kinds
    <3>3. AskUnderWay(p)' => AskUnderWay(p)
      BY <1>1, <3>2 DEF AskUnderWay
    <3>4. CASE p = n
      BY <1>1, <2>2, <3>1, <3>2, <3>3, <3>4 DEF OneAnswer
    <3>5. CASE p # n
      BY <1>1, <3>1, <3>2, <3>5, FewerMessages
    <3> QED BY <3>3, <3>4, <3>5
  <2>4. \A m \in cached' : m.type = "response" => state'[Leader] = "off"
    BY <1>1, <2>1 DEF ResponseInv
  <2>5. state'[Leader] = "off" => responses' = {} /\ \A p \in Members : ~AskUnderWay(p)'
    BY <1>1, <2>1, <2>3 DEF ResponseInv
  <2> QED BY <1>1, <2>1, <2>3, <2>4, <2>5 DEF ResponseInv, OneAnswer
<1> QED BY <1>2, <1>3 DEF DoPreExecutionAsMember

\* A message is cached, a request answered, a response put into the channel.
LEMMA DeliveryAnswers ==
  ASSUME TypeInv, ResponseInv, NEW m \in net,
         CacheMessage(m) \/ OnPreExecutionRequest(m) \/ OnPreExecutionResponse(m)
  PROVE  ResponseInv'
<1>0. TypeOK /\ m \in AllMessages
  BY DEF TypeInv, TypeOK, AllMessages
<1>1. UNCHANGED <<state, available>>
  BY DEF CacheMessage, OnPreExecutionRequest, OnPreExecutionResponse
<1> SUFFICES /\ \A p \in Members : OneAnswer(p)'
             /\ \A x \in cached' : x.type = "response" => state[Leader] = "off"
             /\ state[Leader] = "off" => responses' = {} /\ \A p \in Members : ~AskUnderWay(p)'
  BY <1>1 DEF ResponseInv, OneAnswer
<1>2. \A p \in Members : OneAnswer(p)
  BY DEF ResponseInv, OneAnswer
<1>3. CASE CacheMessage(m)
  <2>1. net' = net \ {m} /\ cached' = cached \cup {m} /\ UNCHANGED responses /\ state[m.to] = "off"
    BY <1>3 DEF CacheMessage
  <2>2. ASSUME NEW p \in Members
        PROVE  OneAnswer(p)' /\ (AskUnderWay(p)' => AskUnderWay(p))
    <3>1. AskUnderWay(p)' => AskUnderWay(p)
      BY <2>1 DEF AskUnderWay
    <3>2. StartUnderWay(p)' => StartUnderWay(p)
      BY <2>1 DEF StartUnderWay
    <3> QED BY <1>1, <1>2, <2>1, <3>1, <3>2 DEF OneAnswer
  <2>3. m.type = "response" => state[Leader] = "off"
    BY <1>0, <2>1, MessageFields, Forms
  <2> QED BY <2>1, <2>2, <2>3 DEF ResponseInv
<1>4. CASE OnPreExecutionRequest(m)
  <2> DEFINE q == m.to
  <2>1. /\ q \in Members /\ m = Request(q) /\ UNCHANGED <<cached, responses>>
        /\ net' = (net \ {m}) \cup {Response(q, "request")} \/ net' = net \ {m}
    BY <1>0, <1>4, Forms DEF OnPreExecutionRequest
  <2> HIDE DEF q
  <2>2. AskUnderWay(q) /\ state[Leader] # "off"
    BY <2>1 DEF AskUnderWay, ResponseInv
  <2>3. ASSUME NEW p \in Members
        PROVE  OneAnswer(p)'
    <3>1. /\ Request(p) \in net' => Request(p) \in net
          /\ Response(p, "start") \in net' => Response(p, "start") \in net
          /\ p # q => (Response(p, "request") \in net' => Response(p, "request") \in net)
      BY <2>1, Kinds
    <3>2. CASE p # q
      BY <1>1, <1>2, <2>1, <3>1, <3>2, FewerMessages
    <3>3. CASE p = q
      <4>1. /\ Request(p) \notin net'
            /\ Request(p) \notin cached'
        BY <1>2, <2>1, <3>3, Kinds DEF OneAnswer
      <4>2. Response(p, "request") \notin responses'
        BY <1>2, <2>1, <3>3 DEF OneAnswer
      <4>3. StartUnderWay(p)' => StartUnderWay(p)
        BY <2>1, <3>1 DEF StartUnderWay
      <4> QED BY <1>1, <1>2, <2>1, <2>2, <3>1, <3>3, <4>1, <4>2, <4>3 DEF OneAnswer
    <3> QED BY <3>2, <3>3
  <2> QED BY <2>1, <2>2, <2>3 DEF ResponseInv
<1>5. CASE OnPreExecutionResponse(m)
  <2>1. /\ net' = net \ {m} /\ UNCHANGED cached /\ state[Leader] # "off"
        /\ responses' = responses \cup {m} \/ responses' = responses
    BY <1>5 DEF OnPreExecutionResponse
  <2>2. ASSUME NEW p \in Members
        PROVE  OneAnswer(p)'
    <3>1. AskUnderWay(p)' => AskUnderWay(p)
      BY <2>1 DEF AskUnderWay
    <3>2. StartUnderWay(p)' => StartUnderWay(p)
      BY <2>1 DEF StartUnderWay
    <3> QED BY <1>1, <1>2, <2>1, <3>1, <3>2 DEF OneAnswer
  <2> QED BY <2>1, <2>2 DEF ResponseInv
<1> QED BY <1>3, <1>4, <1>5

\* ResponseInv is kept by every step.
LEMMA ResponseStep ==
  ASSUME TypeInv, AnnouncedInv, ResponseInv, [Next]_vars
  PROVE  ResponseInv'
<1> USE LeaderIsNode
<1>0. TypeOK /\ Leader \in available /\ state \in [Nodes -> States] /\ Nobody \in Selection
  BY DEF TypeInv, TypeOK, Nobody, Selection
<1>1. CASE LeaderTimesOut
  <2>1. state[Leader] = "wait" /\ UNCHANGED <<available, responses, cached>>
    BY <1>1 DEF LeaderTimesOut
  <2>2. CASE LeaderFinalized("no", Nobody)
    <3>1. /\ state' = [state EXCEPT ![Leader] = "failed"]
          /\ \A m \in net' \ net : m.type = "output"
      BY <1>0, <2>2, LeaderResult
    <3>2. state'[Leader] = "failed"
      BY <1>0, <3>1
    <3> QED BY <2>1, <3>1, <3>2, Announces
  <2>3. CASE /\ ~ IsKeygen /\ Cardinality(available) >= Threshold + 1
             /\ \E sel \in WithLeader(available, Threshold) : LeaderFinalized("yes", sel)
    <3>1. PICK sel \in WithLeader(available, Threshold) : LeaderFinalized("yes", sel)
      BY <2>3
    <3>2. sel \in Selection
      BY <1>0, <2>3, LeaderChoices DEF Choices
    <3>3. /\ state' = [state EXCEPT ![Leader] = "exec"]
          /\ \A m \in net' \ net : m.type = "output"
      BY <3>1, <3>2, LeaderResult
    <3>4. Cardinality(available) >= GetMinPartyCount /\ state'[Leader] = "exec"
      BY <1>0, <2>3, <3>3 DEF GetMinPartyCount
    <3> QED BY <2>1, <3>3, <3>4, Announces
  <2> QED BY <1>1, <2>2, <2>3 DEF LeaderTimesOut
<1>2. ASSUME NEW n \in Members, MemberTimesOut(n)
      PROVE  ResponseInv'
  <2>1. n \in Nodes /\ n # Leader
    BY DEF Members
  <2>2. state'[Leader] = state[Leader] /\ UNCHANGED <<available, responses, net, cached>>
    BY <1>0, <1>2, <2>1 DEF MemberTimesOut, BroadcastResult
  <2> QED BY <2>2, Announces DEF ResponseInv
<1>3. ASSUME NEW m \in net, OnPreExecOutput(m)
      PROVE  ResponseInv'
  <2>1. /\ m.type = "output" /\ net' = net \ {m} /\ UNCHANGED <<available, responses, cached>>
        /\ UNCHANGED state \/ MemberFinalized(m.to, m)
    BY <1>3 DEF OnPreExecOutput
  <2>2. m.to \in Members /\ m.sel \in Selection
    BY <1>0, <2>1, MessageFields DEF TypeOK, AllMessages
  <2>3. m.to \in Nodes /\ m.to # Leader
    BY <2>2 DEF Members
  <2>4. state'[Leader] = state[Leader]
    <3>1. CASE UNCHANGED state
      BY <3>1
    <3>2. CASE MemberFinalized(m.to, m)
      BY <1>0, <2>1, <2>2, <2>3, <3>2, MemberResult
    <3> QED BY <2>1, <3>1, <3>2
  <2> QED BY <2>1, <2>4, Announces DEF ResponseInv
<1>4. CASE Tick
  BY <1>4, Announces DEF Tick, ResponseInv
<1>5. CASE UNCHANGED vars
  BY <1>5, Announces DEF vars, ResponseInv
<1> QED BY <1>1, <1>2, <1>3, <1>4, <1>5, LeaderStartAnswers, CountsAnswer, MemberStartAnswers, DeliveryAnswers
        DEF Next

\* Of the nodes that were not counted two responses each may be left, and one of
\* every other member.
LEMMA FewLeft ==
  ASSUME TypeInv, ResponseInv
  PROVE  /\ Cardinality(available) \in Nat
         /\ Cardinality(responses \cup {m \in net : m.type = "response"}) \in Nat
         /\ Cardinality(responses \cup {m \in net : m.type = "response"}) + Cardinality(available)
              <= Cardinality(Nodes) + Cardinality(Nodes) - 1
<1> DEFINE R == responses \cup {m \in net : m.type = "response"}
           U == Nodes \ available
<1>0. TypeOK /\ Leader \in available /\ available \subseteq Nodes
  BY DEF TypeInv, TypeOK
<1>1. \A m \in R : /\ m.from \in Members
                   /\ m = Response(m.from, "start") \/ m = Response(m.from, "request")
  <2>1. R \subseteq Responses
    BY <1>0, MessageFields DEF TypeOK, AllMessages
  <2> QED BY <2>1, Forms
<1>2. /\ IsFiniteSet(U) /\ Cardinality(available) \in Nat /\ Cardinality(Nodes) \in Nat
      /\ Cardinality(U) = Cardinality(Nodes) - Cardinality(available)
  <2>1. IsFiniteSet(U) /\ Cardinality(U) = Cardinality(Nodes) - Cardinality(Nodes \cap available)
    BY NodesAssumption, FS_Difference, Zenon
  <2>2. Nodes \cap available = available
    BY <1>0
  <2>3. IsFiniteSet(available)
    BY <1>0, NodesAssumption, FS_Subset
  <2>4. Cardinality(available) \in Nat /\ Cardinality(Nodes) \in Nat
    BY <2>3, NodesAssumption, FS_CardinalityType, Zenon
  <2> QED BY <2>1, <2>2, <2>4, Zenon
<1> DEFINE D == {m \in R : m.from \in U /\ m = Response(m.from, "start")}
           T == R \ D
           d == [m \in D |-> m.from]
           f == [m \in T |-> m.from]
<1>3. d \in Injection(D, U)
  <2>1. d \in [D -> U]
    OBVIOUS
  <2>2. ASSUME NEW a \in D, NEW b \in D, d[a] = d[b]
        PROVE  a = b
    <3>1. a.from = b.from /\ a = Response(a.from, "start") /\ b = Response(b.from, "start")
      BY <2>2
    <3> HIDE DEF d, D
    <3> QED BY <3>1, Zenon
  <2> HIDE DEF d, D, U
  <2> QED BY <2>1, <2>2 DEF Injection, IsInjective
<1>4. f \in Injection(T, Members)
  <2>1. f \in [T -> Members]
    BY <1>1
  <2>2. ASSUME NEW a \in T, NEW b \in T, f[a] = f[b]
        PROVE  a = b
    <3> DEFINE p == a.from
    <3>1. /\ p \in Members /\ b.from = p
          /\ a = Response(p, "start") \/ a = Response(p, "request")
          /\ b = Response(p, "start") \/ b = Response(p, "request")
      BY <1>1, <2>2
    <3>2. a \in net \cup responses /\ b \in net \cup responses
      OBVIOUS
    <3>3. CASE p \in available
      <4>1. ~StartUnderWay(p) \/ ~AskUnderWay(p)
        BY <3>1, <3>3 DEF ResponseInv, OneAnswer
      <4> HIDE DEF p
      <4> QED BY <3>1, <3>2, <4>1 DEF StartUnderWay, AskUnderWay
    <3>4. CASE p \notin available
      <4>1. p \in U
        BY <3>1, <3>4 DEF Members
      <4>2. a # Response(p, "start") /\ b # Response(p, "start")
        BY <3>1, <4>1
      <4> QED BY <3>1, <4>2
    <3> QED BY <3>3, <3>4
  <2> HIDE DEF f, T
  <2> QED BY <2>1, <2>2 DEF Injection, IsInjective
<1>5. IsFiniteSet(Members) /\ Cardinality(Members) = Cardinality(Nodes) - 1
  BY NodesAssumption, LeaderIsNode, FS_RemoveElement DEF Members
<1>6. R = D \cup T
  OBVIOUS
<1> HIDE DEF d, f, D, T, U, R
<1>7. IsFiniteSet(D) /\ Cardinality(D) <= Cardinality(U)
  BY <1>2, <1>3, FS_Injection, Zenon
<1>8. IsFiniteSet(T) /\ Cardinality(T) <= Cardinality(Members)
  BY <1>4, <1>5, FS_Injection, Zenon
<1>9. /\ IsFiniteSet(D \cup T)
      /\ Cardinality(D \cup T) = Cardinality(D) + Cardinality(T) - Cardinality(D \cap T)
  BY <1>7, <1>8, FS_Union, Zenon
<1>10. Cardinality(D) \in Nat /\ Cardinality(T) \in Nat /\ Cardinality(R) \in Nat /\ Cardinality(D \cap T) \in Nat
  <2>1. IsFiniteSet(D \cap T)
    BY <1>7, FS_Intersection, Zenon
  <2> QED BY <1>6, <1>7, <1>8, <1>9, <2>1, FS_CardinalityType, Zenon
<1>11. Cardinality(R) = Cardinality(D) + Cardinality(T) - Cardinality(D \cap T)
  BY <1>6, <1>9, Zenon
<1>12. Cardinality(R) + Cardinality(available) <= Cardinality(Nodes) + Cardinality(Nodes) - 1
  BY <1>2, <1>5, <1>7, <1>8, <1>10, <1>11
<1> QED BY <1>2, <1>10, <1>12, Zenon DEF R

\* Arithmetic of the theorem below: r responses are left, the leader counted a of
\* n nodes, and at least k if it executes.
LEMMA LeftOver ==
  \A r, a, n, k \in Nat : /\ r + a <= n + n - 1
                          => /\ r - n + a <= n - 1
                             /\ k <= a => r - n + k <= n - 1
  OBVIOUS

\* onPreExecutionResponse leaves no more goroutines behind at a full
\* memberResponseCh than one for every party but one that the leader has not
\* counted, or can do without once it executes, for every set of nodes and every
\* threshold.
THEOREM FewResponsesBlock == Spec => []BlockedBounded
<1>1. Init => TypeInv /\ AnnouncedInv /\ ResponseInv
  <2> SUFFICES ASSUME Init PROVE TypeInv /\ AnnouncedInv /\ ResponseInv
    OBVIOUS
  <2>1. TypeInv /\ AnnouncedInv
    BY LeaderIsNode DEF Init, TypeInv, TypeOK, States, Selection, Nobody, AnnouncedInv
  <2>2. ResponseInv
    BY LeaderIsNode DEF Init, ResponseInv, OneAnswer, StartUnderWay, AskUnderWay
  <2> QED BY <2>1, <2>2
<1>2. TypeInv /\ AnnouncedInv /\ ResponseInv /\ [Next]_vars => TypeInv' /\ AnnouncedInv' /\ ResponseInv'
  BY TypeStep, AnnouncedStep, ResponseStep DEF TypeInv
<1>3. TypeInv /\ ResponseInv => BlockedBounded
  <2> SUFFICES ASSUME TypeInv, ResponseInv PROVE BlockedBounded
    OBVIOUS
  <2> DEFINE r == Cardinality(responses \cup {m \in net : m.type = "response"})
             a == Cardinality(available)
             n == Cardinality(Nodes)
             k == GetMinPartyCount
  <2>1. r \in Nat /\ a \in Nat /\ r + a <= n + n - 1
    BY FewLeft, Zenon
  <2>2. n \in Nat /\ k \in Nat
    BY NodesAssumption, PartyCounts, FS_CardinalityType, Zenon
  <2>3. state[Leader] = "exec" => k <= a
    BY <2>1, <2>2 DEF ResponseInv
  <2> HIDE DEF r, a, n, k
  <2>4. r - n + a <= n - 1 /\ (state[Leader] = "exec" => r - n + k <= n - 1)
    BY <2>1, <2>2, <2>3, LeftOver, Zenon
  <2> QED BY <2>4, Zenon DEF BlockedBounded, NewPreworkSelection, r, a, n, k
<1> QED BY <1>1, <1>2, <1>3, PTL DEF Spec

-----------------------------------------------------------------------------
(* Nobody gives up needlessly *)

\* A finite set has subsets of every size up to its own.
LEMMA SubsetOfSize ==
  ASSUME NEW S, IsFiniteSet(S), NEW k \in Nat, k <= Cardinality(S)
  PROVE  \E T \in SUBSET S : Cardinality(T) = k
<1> DEFINE n == Cardinality(S)
<1>1. n \in Nat
  BY FS_CardinalityType
<1>2. /\ IsFiniteSet(1..n) /\ Cardinality(1..n) = n
      /\ IsFiniteSet(1..k) /\ Cardinality(1..k) = k
  <2> HIDE DEF n
  <2>1. IsFiniteSet(1..n) /\ Cardinality(1..n) = n
    BY <1>1, FS_Interval
  <2>2. IsFiniteSet(1..k) /\ Cardinality(1..k) = k
    BY FS_Interval
  <2> QED BY <2>1, <2>2
<1>3. ExistsBijection(1..n, S)
  BY <1>2, FS_SameCardinalityBij, Zenon
<1>4. PICK g : g \in Bijection(1..n, S)
  BY <1>3, Zenon DEF ExistsBijection
<1>5. g \in [1..n -> S] /\ \A i, j \in 1..n : g[i] = g[j] => i = j
  BY <1>4, Zenon DEF Bijection, Injection, IsInjective
<1> HIDE DEF n
<1> DEFINE T == {g[i] : i \in 1..k}
           h == [i \in 1..k |-> g[i]]
<1>6. 1..k \subseteq 1..n
  BY <1>1 DEF n
<1>7. T \in SUBSET S
  BY <1>5, <1>6
<1>8. h \in Injection(1..k, T) /\ h \in Surjection(1..k, T)
  <2>1. h \in [1..k -> T]
    OBVIOUS
  <2>2. \A i, j \in 1..k : h[i] = h[j] => i = j
    BY <1>5, <1>6
  <2>3. \A t \in T : \E i \in 1..k : h[i] = t
    OBVIOUS
  <2>4. DOMAIN h = 1..k
    OBVIOUS
  <2> HIDE DEF h, T
  <2> QED BY <2>1, <2>2, <2>3, <2>4, Zenon DEF Injection, IsInjective, Surjection
<1>9. ExistsBijection(1..k, T)
  <2> HIDE DEF h, T
  <2> QED BY <1>8, Zenon DEF ExistsBijection, Bijection
<1>10. Cardinality(T) = k
  <2> HIDE DEF T
  <2>1. Cardinality(T) = Cardinality(1..k)
    BY <1>2, <1>9, FS_Bijection, Zenon
  <2> QED BY <1>2, <2>1, Zenon
<1> QED BY <1>7, <1>10, Zenon

\* getPartyList finds a group among enough parties.
LEMMA WithLeaderFinds ==
  ASSUME NEW a \in SUBSET Nodes, Leader \in a, NEW k \in Nat, k < Cardinality(a)
  PROVE  WithLeader(a, k) # {}
<1> DEFINE S == a \ {Leader}
<1>1. IsFiniteSet(a) /\ Cardinality(a) \in Nat
  BY NodesAssumption, FS_Subset, FS_CardinalityType
<1>2. IsFiniteSet(S) /\ Cardinality(S) = Cardinality(a) - 1
  BY <1>1, FS_RemoveElement
<1>3. PICK T \in SUBSET S : Cardinality(T) = k
  <2>1. k <= Cardinality(S)
    BY <1>1, <1>2
  <2> HIDE DEF S
  <2> QED BY <1>2, <2>1, SubsetOfSize
<1>4. GetPartyList(a, k) # {}
  BY <1>3 DEF GetPartyList
<1>5. \A g \in GetPartyList(a, k) : [pids |-> g \cup {Leader}, presign |-> "none"] \in WithLeader(a, k)
  BY Zenon DEF WithLeader
<1> QED BY <1>4, <1>5

\* What checkEnoughParticipants does not find among some parties, it does not find
\* among fewer.
LEMMA FewerNotEnough ==
  ASSUME NEW a \in SUBSET Nodes, Leader \in a, CheckEnoughParticipants(a) = {}, NEW b \in SUBSET a
  PROVE  CheckEnoughParticipants(b) = {}
<1>1. IsFiniteSet(a) /\ Cardinality(a) \in Nat
  BY NodesAssumption, FS_Subset, FS_CardinalityType
<1>2. Cardinality(b) \in Nat /\ Cardinality(b) <= Cardinality(a)
  BY <1>1, FS_Subset, FS_CardinalityType, Zenon
<1>3. GetMinPartyCount \in Nat /\ Cardinality(Nodes) \in Nat /\ Cardinality(Nodes) > 0
  BY PartyCounts, Zenon
<1>4. CASE Cardinality(a) < GetMinPartyCount
  <2>1. Cardinality(b) < GetMinPartyCount
    BY <1>1, <1>2, <1>3, <1>4, AtMostBelow, Zenon
  <2> QED BY <2>1, Zenon DEF CheckEnoughParticipants
<1>5. CASE ~ (Cardinality(a) < GetMinPartyCount)
  <2>1. WorkType = "EcSigning"
    <3>1. SUFFICES ASSUME WorkType # "EcSigning" PROVE FALSE
      OBVIOUS
    <3>2. WithLeader(a, GetMinPartyCount - 1) = {}
      BY <1>5, <3>1, Zenon DEF CheckEnoughParticipants
    <3>3. GetMinPartyCount - 1 \in Nat /\ GetMinPartyCount - 1 < Cardinality(a)
      BY <1>1, <1>3, <1>5, ThresholdAssumption DEF GetMinPartyCount
    <3> QED BY <3>2, <3>3, WithLeaderFinds, Zenon
  <2>2. GetAvailablePresigns(a) = {}
    BY <1>5, <2>1, Zenon DEF CheckEnoughParticipants
  <2>3. a # Nodes
    <3>1. SUFFICES ASSUME a = Nodes PROVE FALSE
      OBVIOUS
    <3>2. WithLeader(a, Threshold) = {}
      BY <1>5, <2>1, <2>2, <3>1, Zenon DEF CheckEnoughParticipants
    <3>3. Threshold \in Nat /\ Threshold < Cardinality(a)
      BY <3>1, ThresholdAssumption
    <3> QED BY <3>2, <3>3, WithLeaderFinds, Zenon
  <2>4. b # Nodes
    BY <2>3
  <2>5. GetAvailablePresigns(b) = {}
    <3>1. \A P \in Presigns : ~ (P \subseteq a)
      BY <2>2 DEF GetAvailablePresigns
    <3> QED BY <3>1 DEF GetAvailablePresigns
  <2> QED BY <2>1, <2>4, <2>5, Zenon DEF CheckEnoughParticipants
<1> QED BY <1>4, <1>5

\* The leader's part of WaitingInv, over a step of a member.
LEMMA LeaderInvKept ==
  ASSUME LeaderInv, state'[Leader] = state[Leader], chosen'[Leader] = chosen[Leader], available' = available,
         \A m \in net' \cup cached' : m \in net \cup cached \/ m.type # "output",
         state[Leader] # "off" => \A m \in cached' : m.to # Leader
  PROVE  LeaderInv'
<1>1. \A m \in net' \cup cached' : m.type = "output" /\ m.success = "no" => state'[Leader] = "failed"
  BY DEF LeaderInv
<1> QED BY <1>1 DEF LeaderInv

\* A member that does not move has been told, if its announcements stay.
LEMMA ToldKept ==
  ASSUME NEW p \in Members, Told(p), state'[Leader] = state[Leader], state'[p] = state[p],
         state[p] = "wait" => \A x \in net : x.type = "output" /\ x.to = p => x \in net',
         state[p] = "off" => \A x \in net \cup cached : x.type = "output" /\ x.to = p => x \in net' \cup cached'
  PROVE  Told(p)'
<1>1. ASSUME state[Leader] \in {"exec", "failed"}, state[p] = "wait"
      PROVE  \E x \in net' : x.type = "output" /\ x.to = p
  BY <1>1, Zenon DEF Told
<1>2. ASSUME state[Leader] \in {"exec", "failed"}, state[p] = "off"
      PROVE  \E x \in net' \cup cached' : x.type = "output" /\ x.to = p
  BY <1>2, Zenon DEF Told
<1> QED BY <1>1, <1>2, Zenon DEF Told

\* The leader decides and tells everybody.
LEMMA LeaderTells ==
  ASSUME TypeInv, WaitingInv, state[Leader] \in {"off", "wait"},
         NEW ok \in {"yes", "no"}, NEW sel \in Selection, LeaderFinalized(ok, sel),
         cached' \subseteq cached, \A m \in cached' : m.to # Leader
  PROVE  WaitingInv'
<1> USE LeaderIsNode
<1>1. TypeOK /\ state \in [Nodes -> States] /\ chosen \in [Nodes -> Selection]
  BY DEF TypeInv, TypeOK
<1>2. /\ state'[Leader] = IF ok = "yes" THEN "exec" ELSE "failed"
      /\ chosen'[Leader] = sel
      /\ \A m \in net' \ net : m.type = "output" /\ m.success = ok
  <2>1. /\ state' = [state EXCEPT ![Leader] = IF ok = "yes" THEN "exec" ELSE "failed"]
        /\ chosen' = [chosen EXCEPT ![Leader] = sel]
    BY LeaderResult
  <2>2. \A m \in net' \ net : m.type = "output" /\ m.success = ok
    BY LeaderResult
  <2> QED BY <1>1, <2>1, <2>2
<1>3. LeaderInv'
  <2>1. \A m \in net \cup cached : ~ (m.type = "output" /\ m.success = "no")
    BY DEF WaitingInv, LeaderInv
  <2>2. \A m \in net' \cup cached' : m.type = "output" /\ m.success = "no" => state'[Leader] = "failed"
    BY <1>2, <2>1
  <2> QED BY <1>2, <2>2 DEF LeaderInv
<1>4. ASSUME NEW p \in Members
      PROVE  Heard(p)' /\ Told(p)'
  <2>0. Output(p, ok, sel).type = "output" /\ Output(p, ok, sel).to = p
    BY DEF Output
  <2>1. Output(p, ok, sel) \in net'
    BY Zenon DEF LeaderFinalized
  <2>2. Heard(p)'
    BY <1>2 DEF Heard
  <2> QED BY <2>0, <2>1, <2>2 DEF Told
<1> QED BY <1>3, <1>4 DEF WaitingInv

\* A response that says that its sender has started.
LEMMA StartMessage ==
  ASSUME NEW p \in Members
  PROVE  /\ Response(p, "start").type = "response" /\ Response(p, "start").from = p
         /\ Response(p, "start").to = Leader
  BY DEF Response

\* The steps of the leader.
LEMMA LeaderWaits ==
  ASSUME TypeInv, WaitingInv,
         DoPreExecutionAsLeader \/ (\E m \in responses : TakeResponse(m)) \/ LeaderTimesOut
  PROVE  WaitingInv'
<1> USE LeaderIsNode
<1>0. /\ TypeOK /\ Leader \in available /\ state \in [Nodes -> States]
      /\ Choices \subseteq Selection /\ Nobody \in Selection
  BY DEF TypeInv, TypeOK, Choices, Nobody, Selection
<1>1. CASE DoPreExecutionAsLeader
  <2>1. /\ state[Leader] = "off" /\ cached' = {m \in cached : m.to # Leader} /\ UNCHANGED responses
        /\ available' = {Leader} \cup {m.from : m \in {x \in cached : x.type = "response"}}
    BY <1>1 DEF DoPreExecutionAsLeader
  <2>2. available' \in SUBSET Nodes /\ Leader \in available'
    BY <1>0, <1>1, LeaderChoices
  <2>3. CASE \E sel \in CheckEnoughParticipants(available') : LeaderFinalized("yes", sel)
    <3>1. PICK sel \in CheckEnoughParticipants(available') : LeaderFinalized("yes", sel)
      BY <2>3
    <3>2. sel \in Selection
      BY <1>0, <2>2, EnoughSelects
    <3> QED BY <2>1, <3>1, <3>2, LeaderTells
  <2>4. CASE /\ CheckEnoughParticipants(available') = {}
             /\ state' = [state EXCEPT ![Leader] = "wait"]
             /\ net' = net \cup {Request(p) : p \in Nodes \ available'}
             /\ UNCHANGED chosen
    <3>1. state'[Leader] = "wait" /\ \A p \in Members : state'[p] = state[p]
      BY <1>0, <2>4 DEF Members
    <3>3. \A m \in net' \cup cached' : ~ (m.type = "output" /\ m.success = "no")
      <4>1. \A p \in Nodes \ available' : Request(p).type = "request"
        BY DEF Request
      <4>2. \A m \in net \cup cached : ~ (m.type = "output" /\ m.success = "no")
        BY <2>1 DEF WaitingInv, LeaderInv
      <4> QED BY <2>1, <2>4, <4>1, <4>2
    <3>4. LeaderInv'
      <4>1. CheckEnoughParticipants(available)' = {}
        BY <2>4, Zenon DEF CheckEnoughParticipants, WithLeader, GetPartyList, GetAvailablePresigns,
                           GetMinPartyCount, IsKeygen
      <4> QED BY <2>1, <3>1, <3>3, <4>1 DEF LeaderInv
    <3>5. ASSUME NEW p \in Members
          PROVE  Heard(p)' /\ Told(p)'
      <4>1. Told(p)'
        BY <3>1 DEF Told
      <4>2. p \notin available
        BY <2>1 DEF WaitingInv, LeaderInv, Members
      <4>3. Response(p, "start") \in cached => p \in available'
        BY <2>1, StartMessage
      <4>4. StartUnderWay(p) => StartUnderWay(p)'
        BY <2>1, <2>4 DEF StartUnderWay
      <4> QED BY <2>1, <3>1, <4>1, <4>2, <4>3, <4>4 DEF WaitingInv, Heard
    <3> QED BY <3>4, <3>5 DEF WaitingInv
  <2>5. \/ \E sel \in CheckEnoughParticipants(available') : LeaderFinalized("yes", sel)
        \/ /\ CheckEnoughParticipants(available') = {}
           /\ state' = [state EXCEPT ![Leader] = "wait"]
           /\ net' = net \cup {Request(p) : p \in Nodes \ available'}
           /\ UNCHANGED chosen
    BY <1>1, Zenon DEF DoPreExecutionAsLeader
  <2> QED BY <2>3, <2>4, <2>5
<1>2. ASSUME NEW m \in responses, TakeResponse(m)
      PROVE  WaitingInv'
  <2>1. /\ state[Leader] = "wait" /\ UNCHANGED cached /\ responses' = responses \ {m}
        /\ available' = available \cup {m.from}
    BY <1>2 DEF TakeResponse
  <2>2. available' \in SUBSET Nodes /\ Leader \in available'
    BY <1>0, <1>2, LeaderChoices
  <2>3. \A x \in cached' : x.to # Leader
    BY <2>1 DEF WaitingInv, LeaderInv
  <2>4. CASE \E sel \in CheckEnoughParticipants(available') : LeaderFinalized("yes", sel)
    <3>1. PICK sel \in CheckEnoughParticipants(available') : LeaderFinalized("yes", sel)
      BY <2>4
    <3>2. sel \in Selection
      BY <1>0, <2>2, EnoughSelects
    <3> QED BY <2>1, <2>3, <3>1, <3>2, LeaderTells
  <2>5. CASE LeaderFinalized("no", Nobody)
    BY <1>0, <2>1, <2>3, <2>5, LeaderTells
  <2>6. CASE CheckEnoughParticipants(available') = {} /\ UNCHANGED <<state, chosen, net>>
    <3>1. CheckEnoughParticipants(available)' = {}
      BY <2>6, Zenon DEF CheckEnoughParticipants, WithLeader, GetPartyList, GetAvailablePresigns,
                         GetMinPartyCount, IsKeygen
    <3>2. LeaderInv'
      BY <2>1, <2>3, <2>6, <3>1 DEF WaitingInv, LeaderInv
    <3>3. ASSUME NEW p \in Members
          PROVE  Heard(p)' /\ Told(p)'
      <4>1. Told(p)'
        BY <2>1, <2>6 DEF Told
      <4>2. StartUnderWay(p) => StartUnderWay(p)' \/ p \in available'
        BY <2>1, <2>6, StartMessage DEF StartUnderWay
      <4>3. Heard(p)
        BY DEF WaitingInv
      <4> QED BY <2>1, <2>6, <4>1, <4>2, <4>3 DEF Heard
    <3> QED BY <3>2, <3>3 DEF WaitingInv
  <2> QED BY <1>2, <2>1, <2>4, <2>5, <2>6 DEF TakeResponse
<1>3. CASE LeaderTimesOut
  <2>1. state[Leader] = "wait" /\ UNCHANGED cached
    BY <1>3 DEF LeaderTimesOut
  <2>2. \A x \in cached' : x.to # Leader
    BY <2>1 DEF WaitingInv, LeaderInv
  <2>3. CASE LeaderFinalized("no", Nobody)
    BY <1>0, <2>1, <2>2, <2>3, LeaderTells
  <2>4. CASE /\ ~ IsKeygen /\ Cardinality(available) >= Threshold + 1
             /\ \E sel \in WithLeader(available, Threshold) : LeaderFinalized("yes", sel)
    <3>1. PICK sel \in WithLeader(available, Threshold) : LeaderFinalized("yes", sel)
      BY <2>4
    <3>2. sel \in Selection
      BY <1>0, <2>4, LeaderChoices
    <3> QED BY <2>1, <2>2, <3>1, <3>2, LeaderTells
  <2> QED BY <1>3, <2>3, <2>4 DEF LeaderTimesOut
<1> QED BY <1>1, <1>2, <1>3

\* A member gets its result, and loses at most messages of its own.
LEMMA MemberTold ==
  ASSUME TypeInv, WaitingInv, NEW n \in Members,
         NEW r \in {"exec", "excluded", "failed"}, NEW s,
         state' = [state EXCEPT ![n] = r], chosen' = [chosen EXCEPT ![n] = s],
         UNCHANGED <<available, responses>>,
         net' \subseteq net, cached' \subseteq cached,
         \A m \in net \cup cached : m.to # n => (m \in net => m \in net') /\ (m \in cached => m \in cached')
  PROVE  WaitingInv'
<1>1. n # Leader /\ n \in Nodes /\ state \in [Nodes -> States] /\ chosen \in [Nodes -> Selection]
  BY DEF TypeInv, TypeOK, Members
<1>2. /\ state'[Leader] = state[Leader] /\ chosen'[Leader] = chosen[Leader] /\ state'[n] = r
      /\ \A p \in Members \ {n} : state'[p] = state[p]
  BY <1>1, LeaderIsNode DEF Members
<1>3. LeaderInv'
  <2>1. LeaderInv
    BY DEF WaitingInv
  <2>2. state[Leader] # "off" => \A m \in cached' : m.to # Leader
    BY <2>1 DEF LeaderInv
  <2> QED BY <1>2, <2>1, <2>2, LeaderInvKept
<1>4. ASSUME NEW p \in Members
      PROVE  Heard(p)' /\ Told(p)'
  <2>1. CASE p = n
    BY <1>2, <2>1 DEF Heard, Told
  <2>2. CASE p # n
    <3>1. Heard(p)'
      <4>1. /\ StartUnderWay(p) => StartUnderWay(p)'
            /\ Response(p, "start") \in cached => Response(p, "start") \in cached'
        BY <1>1, StartMessage DEF StartUnderWay
      <4> QED BY <1>2, <2>2, <4>1 DEF WaitingInv, Heard
    <3>2. Told(p)'
      <4>1. Told(p) /\ state'[p] = state[p] /\ state'[Leader] = state[Leader]
        BY <1>2, <2>2 DEF WaitingInv
      <4>2. /\ \A x \in net : x.type = "output" /\ x.to = p => x \in net'
            /\ \A x \in net \cup cached : x.type = "output" /\ x.to = p => x \in net' \cup cached'
        BY <2>2
      <4> QED BY <4>1, <4>2, ToldKept, Zenon
    <3> QED BY <3>1, <3>2
  <2> QED BY <2>1, <2>2
<1> QED BY <1>3, <1>4 DEF WaitingInv

\* The steps of a member.
LEMMA MemberWaits ==
  ASSUME TypeInv, WaitingInv, NEW n \in Members, DoPreExecutionAsMember(n) \/ MemberTimesOut(n)
  PROVE  WaitingInv'
<1>0. /\ TypeOK /\ state \in [Nodes -> States] /\ n \in Nodes /\ n # Leader
  BY DEF TypeInv, TypeOK, Members
<1>1. CASE DoPreExecutionAsMember(n)
  <2>1. /\ state[n] = "off" /\ cached' = {m \in cached : m.to # n} /\ UNCHANGED <<available, responses>>
    BY <1>1 DEF DoPreExecutionAsMember
  <2>2. CASE \E m \in cached : m.type = "output" /\ MemberFinalized(n, m) /\ UNCHANGED net
    <3>1. PICK m \in cached : m.type = "output" /\ MemberFinalized(n, m) /\ UNCHANGED net
      BY <2>2
    <3>2. m.sel \in Selection
      BY <1>0, <3>1, MessageFields DEF TypeOK, AllMessages
    <3>3. PICK r \in {"exec", "excluded", "failed"}, s \in Selection :
            state' = [state EXCEPT ![n] = r] /\ chosen' = [chosen EXCEPT ![n] = s]
      BY <3>1, <3>2, MemberResult
    <3>4. /\ net' \subseteq net /\ cached' \subseteq cached
          /\ \A x \in net \cup cached : x.to # n => (x \in net => x \in net') /\ (x \in cached => x \in cached')
      BY <2>1, <3>1
    <3> QED BY <2>1, <3>3, <3>4, MemberTold, Zenon
  <2>3. CASE /\ {m \in cached : m.to = n /\ m.type = "output"} = {}
             /\ state' = [state EXCEPT ![n] = "wait"]
             /\ net' = net \cup {Response(n, "start")}
             /\ UNCHANGED chosen
    <3>1. /\ state'[Leader] = state[Leader] /\ state'[n] = "wait"
          /\ \A p \in Members \ {n} : state'[p] = state[p]
      BY <1>0, <2>3, LeaderIsNode DEF Members
    <3>2. LeaderInv'
      <4>1. \A m \in net' \cup cached' : m \in net \cup cached \/ m.type # "output"
        BY <2>1, <2>3, StartMessage
      <4>2. state[Leader] # "off" => \A m \in cached' : m.to # Leader
        BY <2>1 DEF WaitingInv, LeaderInv
      <4> QED BY <2>1, <2>3, <3>1, <4>1, <4>2, LeaderInvKept DEF WaitingInv
    <3>3. ASSUME NEW p \in Members
          PROVE  Heard(p)' /\ Told(p)'
      <4>1. /\ StartUnderWay(p) => StartUnderWay(p)'
            /\ Response(p, "start") \in cached => Response(p, "start") \in cached'
            /\ StartUnderWay(n)'
        BY <1>0, <2>1, <2>3, StartMessage DEF StartUnderWay
      <4>2. Heard(p)'
        BY <2>1, <3>1, <4>1 DEF WaitingInv, Heard
      <4>3. Told(p)
        BY DEF WaitingInv
      <4>4. CASE p = n
        \* An announcement is not in the cache, so it is under way.
        <5>1. ASSUME state[Leader] \in {"exec", "failed"}
              PROVE  \E x \in net' : x.type = "output" /\ x.to = p
          <6>1. PICK x \in net \cup cached : x.type = "output" /\ x.to = p
            BY <2>1, <4>3, <4>4, <5>1, Zenon DEF Told
          <6>2. x \in net'
            BY <2>3, <4>4, <6>1
          <6> QED BY <6>1, <6>2, Zenon
        <5>2. state'[p] = "wait" /\ state'[p] # "off"
          BY <3>1, <4>4
        <5> QED BY <3>1, <4>2, <5>1, <5>2, Zenon DEF Told
      <4>5. CASE p # n
        <5>1. state'[p] = state[p] /\ state'[Leader] = state[Leader]
          BY <3>1, <4>5
        <5>2. /\ \A x \in net : x.type = "output" /\ x.to = p => x \in net'
              /\ \A x \in net \cup cached : x.type = "output" /\ x.to = p => x \in net' \cup cached'
          BY <2>1, <2>3, <4>5
        <5> QED BY <4>2, <4>3, <5>1, <5>2, ToldKept, Zenon
      <4> QED BY <4>4, <4>5
    <3> QED BY <3>2, <3>3 DEF WaitingInv
  <2> QED BY <1>1, <2>2, <2>3 DEF DoPreExecutionAsMember
<1>2. CASE MemberTimesOut(n)
  <2>1. /\ state' = [state EXCEPT ![n] = "failed"] /\ chosen' = [chosen EXCEPT ![n] = Nobody]
        /\ UNCHANGED <<available, responses, net, cached>>
    BY <1>2 DEF MemberTimesOut, BroadcastResult
  <2>2. /\ net' \subseteq net /\ cached' \subseteq cached
        /\ \A x \in net \cup cached : x.to # n => (x \in net => x \in net') /\ (x \in cached => x \in cached')
    BY <2>1
  <2> QED BY <2>1, <2>2, MemberTold, Zenon
<1> QED BY <1>1, <1>2

\* The steps of messages.
LEMMA MessageWaits ==
  ASSUME TypeInv, WaitingInv, NEW m \in net,
         CacheMessage(m) \/ OnPreExecutionRequest(m) \/ OnPreExecutionResponse(m) \/ OnPreExecOutput(m)
  PROVE  WaitingInv'
<1>0. TypeOK /\ m \in AllMessages /\ state \in [Nodes -> States]
  BY DEF TypeInv, TypeOK, AllMessages
<1>1. LeaderInv /\ \A p \in Members : Heard(p) /\ Told(p)
  BY DEF WaitingInv
<1>2. \A p \in Members : m.type # "response" => m # Response(p, "start")
  BY StartMessage
<1>3. CASE CacheMessage(m)
  <2>1. /\ state[m.to] = "off" /\ net' = net \ {m} /\ cached' = cached \cup {m}
        /\ UNCHANGED <<state, available, responses, chosen>>
    BY <1>3 DEF CacheMessage
  <2>2. LeaderInv'
    <3>1. state[Leader] # "off" => \A x \in cached' : x.to # Leader
      BY <1>1, <2>1 DEF LeaderInv
    <3> QED BY <1>1, <2>1, <3>1, LeaderInvKept
  <2>3. ASSUME NEW p \in Members
        PROVE  Heard(p)' /\ Told(p)'
    <3>1. StartUnderWay(p) => StartUnderWay(p)' \/ Response(p, "start") \in cached'
      BY <2>1 DEF StartUnderWay
    <3>2. Heard(p)'
      BY <1>1, <2>1, <3>1 DEF Heard
    <3>3. Told(p)'
      <4>1. Told(p) /\ state'[p] = state[p] /\ state'[Leader] = state[Leader]
        BY <1>1, <2>1
      <4>2. state[p] = "wait" => \A x \in net : x.type = "output" /\ x.to = p => x \in net'
        BY <2>1
      <4>3. \A x \in net \cup cached : x.type = "output" /\ x.to = p => x \in net' \cup cached'
        BY <2>1
      <4> QED BY <4>1, <4>2, <4>3, ToldKept, Zenon
    <3> QED BY <3>2, <3>3
  <2> QED BY <2>2, <2>3 DEF WaitingInv
<1>4. CASE OnPreExecutionRequest(m)
  <2>1. /\ m.type = "request" /\ UNCHANGED <<state, available, responses, cached, chosen>>
        /\ net' = (net \ {m}) \cup {Response(m.to, "request")} \/ net' = net \ {m}
    BY <1>4 DEF OnPreExecutionRequest
  <2>2. Response(m.to, "request").type = "response"
    BY DEF Response
  <2>3. LeaderInv'
    <3>1. state[Leader] # "off" => \A x \in cached' : x.to # Leader
      BY <1>1, <2>1 DEF LeaderInv
    <3>2. \A x \in net' \cup cached' : x \in net \cup cached \/ x.type # "output"
      BY <2>1, <2>2
    <3> QED BY <1>1, <2>1, <3>1, <3>2, LeaderInvKept
  <2>4. ASSUME NEW p \in Members
        PROVE  Heard(p)' /\ Told(p)'
    <3>1. StartUnderWay(p) => StartUnderWay(p)'
      BY <1>2, <2>1 DEF StartUnderWay
    <3>2. Heard(p)'
      BY <1>1, <2>1, <3>1 DEF Heard
    <3>3. Told(p)'
      <4>1. Told(p) /\ state'[p] = state[p] /\ state'[Leader] = state[Leader]
        BY <1>1, <2>1
      <4>2. /\ \A x \in net : x.type = "output" /\ x.to = p => x \in net'
            /\ \A x \in net \cup cached : x.type = "output" /\ x.to = p => x \in net' \cup cached'
        BY <2>1
      <4> QED BY <4>1, <4>2, ToldKept, Zenon
    <3> QED BY <3>2, <3>3
  <2> QED BY <2>3, <2>4 DEF WaitingInv
<1>5. CASE OnPreExecutionResponse(m)
  <2>1. /\ m.type = "response" /\ UNCHANGED <<state, available, cached, chosen>> /\ net' = net \ {m}
        /\ responses' = responses \cup {m} \/ (Gone(Leader) /\ responses' = responses)
    BY <1>5 DEF OnPreExecutionResponse
  <2>2. LeaderInv'
    <3>1. state[Leader] # "off" => \A x \in cached' : x.to # Leader
      BY <1>1, <2>1 DEF LeaderInv
    <3> QED BY <1>1, <2>1, <3>1, LeaderInvKept, Zenon
  <2>3. ASSUME NEW p \in Members
        PROVE  Heard(p)' /\ Told(p)'
    <3>1. StartUnderWay(p) => StartUnderWay(p)' \/ Gone(Leader)
      BY <2>1 DEF StartUnderWay
    <3>2. Heard(p)'
      BY <1>1, <2>1, <3>1 DEF Heard, Gone
    <3>3. Told(p)'
      <4>1. Told(p) /\ state'[p] = state[p] /\ state'[Leader] = state[Leader]
        BY <1>1, <2>1
      <4>2. /\ \A x \in net : x.type = "output" /\ x.to = p => x \in net'
            /\ \A x \in net \cup cached : x.type = "output" /\ x.to = p => x \in net' \cup cached'
        BY <2>1
      <4> QED BY <4>1, <4>2, ToldKept, Zenon
    <3> QED BY <3>2, <3>3
  <2> QED BY <2>2, <2>3 DEF WaitingInv
<1>6. CASE OnPreExecOutput(m)
  <2>1. /\ m.type = "output" /\ net' = net \ {m} /\ UNCHANGED <<available, responses, cached>>
        /\ \/ MemberFinalized(m.to, m)
           \/ state[m.to] \notin {"off", "wait"} /\ UNCHANGED <<state, chosen>>
    BY <1>6 DEF OnPreExecOutput
  <2>2. m.to \in Members /\ m.sel \in Selection
    BY <1>0, <2>1, MessageFields
  <2>3. CASE MemberFinalized(m.to, m)
    <3>1. PICK r \in {"exec", "excluded", "failed"}, s \in Selection :
            state' = [state EXCEPT ![m.to] = r] /\ chosen' = [chosen EXCEPT ![m.to] = s]
      <4>1. m.type = "output"
        BY <2>1
      <4>2. \E r \in {"exec", "excluded", "failed"}, s \in Selection :
              /\ state' = [state EXCEPT ![m.to] = r]
              /\ chosen' = [chosen EXCEPT ![m.to] = s]
              /\ r = "exec" => m.success = "yes" /\ s = m.sel /\ m.to \in s.pids
              /\ r = "excluded" => m.success = "yes" /\ s = m.sel /\ m.to \notin s.pids
              /\ r = "failed" => s = Nobody
        BY <2>2, <2>3, <4>1, MemberResult
      <4> QED BY <4>2, Zenon
    <3>2. /\ net' \subseteq net /\ cached' \subseteq cached
          /\ \A x \in net \cup cached : x.to # m.to => (x \in net => x \in net') /\ (x \in cached => x \in cached')
      BY <2>1
    <3> QED BY <2>1, <2>2, <3>1, <3>2, MemberTold, Zenon
  <2>4. CASE state[m.to] \notin {"off", "wait"} /\ UNCHANGED <<state, chosen>>
    <3>1. LeaderInv'
      <4>1. state[Leader] # "off" => \A x \in cached' : x.to # Leader
        BY <1>1, <2>1, Zenon DEF LeaderInv
      <4> QED BY <1>1, <2>1, <2>4, <4>1, LeaderInvKept
    <3>2. ASSUME NEW p \in Members
          PROVE  Heard(p)' /\ Told(p)'
      <4>1. StartUnderWay(p) => StartUnderWay(p)'
        BY <1>2, <2>1, Zenon DEF StartUnderWay
      <4>2. Heard(p)'
        BY <1>1, <2>1, <2>4, <4>1 DEF Heard
      <4>3. Told(p)'
        <5>1. Told(p) /\ state'[p] = state[p] /\ state'[Leader] = state[Leader]
          BY <1>1, <2>4
        <5>2. state[p] \in {"off", "wait"} =>
                /\ \A x \in net : x.type = "output" /\ x.to = p => x \in net'
                /\ \A x \in net \cup cached : x.type = "output" /\ x.to = p => x \in net' \cup cached'
          BY <2>1, <2>4
        <5> QED BY <5>1, <5>2, ToldKept, Zenon
      <4> QED BY <4>2, <4>3
    <3> QED BY <3>1, <3>2 DEF WaitingInv
  <2> QED BY <2>1, <2>3, <2>4
<1> QED BY <1>3, <1>4, <1>5, <1>6

\* WaitingInv is kept by every step.
LEMMA WaitingStep ==
  ASSUME TypeInv, WaitingInv, [Next]_vars
  PROVE  WaitingInv'
<1>1. CASE UNCHANGED <<state, available, responses, net, cached, chosen>>
  BY <1>1 DEF WaitingInv, LeaderInv, Heard, Told, StartUnderWay
<1>2. CASE Tick
  BY <1>1, <1>2 DEF Tick
<1>3. CASE UNCHANGED vars
  BY <1>1, <1>3 DEF vars
<1> QED BY <1>2, <1>3, LeaderWaits, MemberWaits, MessageWaits DEF Next

\* A leader that waits has counted whoever is there, and cannot select from them.
LEMMA WaitsForParties ==
  ASSUME TypeInv, WaitingInv, Agreement, state[Leader] = "wait"
  PROVE  /\ Present \in SUBSET available
         /\ CheckEnoughParticipants(Present) = {}
<1> USE LeaderIsNode
<1>1. Present \in SUBSET available
  <2>1. ASSUME NEW p \in Present, p # Leader
        PROVE  p \in available
    <3>1. p \in Members /\ p \in Nodes /\ state[p] \in {"wait", "exec"} /\ ~StartUnderWay(p)
      BY <2>1 DEF Present, Members
    <3>2. state[p] = "wait"
      BY <3>1 DEF Agreement
    <3>3. Response(p, "start") \notin cached
      BY <3>1, StartMessage DEF WaitingInv, LeaderInv
    <3> QED BY <3>1, <3>2, <3>3 DEF WaitingInv, Heard
  <2> QED BY <2>1 DEF TypeInv
<1>2. CheckEnoughParticipants(available) = {} /\ available \in SUBSET Nodes /\ Leader \in available
  BY Zenon DEF WaitingInv, LeaderInv, TypeInv, TypeOK
<1> QED BY <1>1, <1>2, FewerNotEnough, Zenon

\* A member that takes an announcement fails only if the leader has, or for want
\* of presigns.
LEMMA FailsWithLeader ==
  ASSUME TypeInv, AnnouncedInv, WaitingInv, GroupIsAble,
         NEW n \in Members, NEW m \in net \cup cached, m.type = "output", MemberFinalized(n, m),
         state'[n] = "failed"
  PROVE  \/ state[Leader] = "failed"
         \/ state[Leader] = "exec" /\ chosen[Leader].presign = "found"
<1>0. TypeOK /\ state \in [Nodes -> States] /\ n \in Nodes
  BY DEF TypeInv, TypeOK, Members
<1>1. m.success \in {"yes", "no"}
  BY <1>0, MessageFields DEF TypeOK, AllMessages
<1>2. CASE m.success = "no"
  BY <1>2 DEF WaitingInv, LeaderInv
<1>3. CASE m.success = "yes"
  <2>1. state[Leader] = "exec" /\ m.sel = chosen[Leader]
    BY <1>3 DEF AnnouncedInv
  <2>2. ValidateLeaderSelection(m.sel)
    BY <2>1 DEF GroupIsAble, ValidateLeaderSelection
  <2>3. \/ BroadcastResult(n, "excluded", m.sel) \/ BroadcastResult(n, "exec", m.sel)
        \/ m.sel.presign = "found"
    BY <1>3, <2>2 DEF MemberFinalized
  <2> QED BY <1>0, <2>1, <2>3 DEF BroadcastResult
<1> QED BY <1>1, <1>2, <1>3

\* What NoNeedlessFailure says of one step of one node.
Excused(n) ==
  \/ n \in Members /\ ~Quiet
  \/ state[Leader] \in {"off", "failed"}
  \/ state[Leader] = "wait" /\ CheckEnoughParticipants(Present) = {}
  \/ state[Leader] = "exec" /\ chosen[Leader].presign = "found"

\* Each step that fails a waiting node has its reason.
LEMMA FailureHasReason ==
  ASSUME TypeInv, AnnouncedInv, WaitingInv, Agreement, GroupIsAble, Next,
         NEW n \in Nodes, state[n] = "wait", state'[n] = "failed"
  PROVE  Excused(n)
<1> USE LeaderIsNode
<1>0. TypeOK /\ state \in [Nodes -> States]
  BY DEF TypeInv, TypeOK
<1>1. CASE state[Leader] = "wait"
  BY <1>1, WaitsForParties, Zenon DEF Excused
<1>2. CASE state[Leader] \in {"off", "failed"}
  BY <1>2, Zenon DEF Excused
<1>3. CASE state[Leader] \in {"exec", "excluded"}
  <2>0. state[Leader] = "exec" /\ n \in Members
    BY <1>3 DEF AnnouncedInv, Members
  <2>1. ASSUME NEW q \in Members, DoPreExecutionAsMember(q)
        PROVE  FALSE
    <3>1. q \in Nodes /\ q # Leader /\ state[q] = "off"
      BY <2>1 DEF Members, DoPreExecutionAsMember
    <3>2. CASE \E m \in cached : m.type = "output" /\ MemberFinalized(q, m)
      <4>1. PICK m \in cached : m.type = "output" /\ MemberFinalized(q, m)
        BY <3>2
      <4>2. m.sel \in Selection
        BY <1>0, <4>1, MessageFields DEF TypeOK, AllMessages
      <4>3. state'[n] = state[n]
        BY <1>0, <3>1, <4>1, <4>2, MemberResult
      <4> QED BY <4>3
    <3>3. CASE state' = [state EXCEPT ![q] = "wait"]
      BY <1>0, <3>1, <3>3
    <3> QED BY <2>1, <3>2, <3>3 DEF DoPreExecutionAsMember
  <2>2. ASSUME NEW q \in Members, MemberTimesOut(q)
        PROVE  Excused(n)
    <3>1. PICK m \in net : m.type = "output"
      BY <2>0 DEF WaitingInv, Told
    <3>2. ~Quiet
      BY <3>1 DEF Quiet
    <3> QED BY <2>0, <3>2, Zenon DEF Excused
  <2>3. ASSUME NEW m \in net, OnPreExecOutput(m)
        PROVE  Excused(n)
    <3>1. m.type = "output" /\ (UNCHANGED state \/ MemberFinalized(m.to, m))
      BY <2>3 DEF OnPreExecOutput
    <3>2. m.to \in Members /\ m.sel \in Selection
      BY <1>0, <3>1, MessageFields DEF TypeOK, AllMessages
    <3>3. MemberFinalized(m.to, m)
      BY <3>1
    <3>4. n = m.to
      BY <1>0, <3>1, <3>2, <3>3, MemberResult
    <3>5. state[Leader] = "failed" \/ (state[Leader] = "exec" /\ chosen[Leader].presign = "found")
      BY <3>1, <3>2, <3>3, <3>4, FailsWithLeader
    <3> QED BY <3>5, Zenon DEF Excused
  <2>4. CASE DoPreExecutionAsLeader \/ (\E m \in responses : TakeResponse(m)) \/ LeaderTimesOut
    BY <2>0, <2>4 DEF DoPreExecutionAsLeader, TakeResponse, LeaderTimesOut
  <2>5. CASE \/ \E m \in net : \/ CacheMessage(m) \/ OnPreExecutionRequest(m)
                               \/ OnPreExecutionResponse(m)
             \/ Tick
    BY <2>5 DEF CacheMessage, OnPreExecutionRequest, OnPreExecutionResponse, Tick
  <2> QED BY <2>1, <2>2, <2>3, <2>4, <2>5 DEF Next
<1> QED BY <1>0, <1>1, <1>2, <1>3 DEF States

\* No node gives up a work of any type while the leader can select from those
\* that are there, or has selected, and nothing is on its way: a response, an
\* announcement or a request that meets a node before its worker is not lost.
THEOREM FailuresAreNeeded == Spec => NoNeedlessFailure
<1>1. Init => TypeInv /\ AnnouncedInv /\ WaitingInv
  <2> SUFFICES ASSUME Init PROVE TypeInv /\ AnnouncedInv /\ WaitingInv
    OBVIOUS
  <2>1. TypeInv /\ AnnouncedInv
    BY LeaderIsNode DEF Init, TypeInv, TypeOK, States, Selection, Nobody, AnnouncedInv
  <2>2. LeaderInv
    BY LeaderIsNode DEF Init, LeaderInv
  <2>3. \A p \in Members : Heard(p) /\ Told(p)
    BY LeaderIsNode DEF Init, Heard, Told, Members
  <2> QED BY <2>1, <2>2, <2>3 DEF WaitingInv
<1>2. TypeInv /\ AnnouncedInv /\ WaitingInv /\ [Next]_vars => TypeInv' /\ AnnouncedInv' /\ WaitingInv'
  BY TypeStep, AnnouncedStep, WaitingStep DEF TypeInv
<1> DEFINE Reason == \A n \in Nodes : state[n] = "wait" /\ state'[n] = "failed" => Excused(n)
<1>3. TypeInv /\ AnnouncedInv /\ WaitingInv /\ Agreement /\ GroupIsAble /\ [Next]_vars => [Reason]_vars
  BY FailureHasReason
<1>4. [][Reason]_vars <=> NoNeedlessFailure
  BY Zenon DEF NoNeedlessFailure, Excused
<1> QED BY <1>1, <1>2, <1>3, <1>4, NodesAgree, GroupStaysAble, PTL DEF Spec
=============================================================================
