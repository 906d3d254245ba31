-------------------------- MODULE PreworkSelection --------------------------
(***************************************************************************)
(* The selection round that every node runs before it executes a work      *)
(* (worker/prework_selection.go).  All nodes compute the same leader.  The *)
(* leader collects the nodes that are available and announces who takes    *)
(* part; a member reports that it is available and waits for the           *)
(* announcement; both give up after a timeout.                             *)
(*                                                                         *)
(* The module has one work and the selection of every node for it.  A node *)
(* starts whenever its engine has a worker free; what reaches it before is *)
(* cached and handed to Run.  Messages are delayed and reordered freely    *)
(* and may never arrive.  Time passes in ticks while some node waits.      *)
(***************************************************************************)
EXTENDS Integers, FiniteSets

CONSTANTS
  Nodes,          \* request.AllParties
  Hash,           \* the hash of each party id with the work id
  WorkType,       \* request.WorkType
  Threshold,      \* request.Threshold
  Presigns,       \* the sets of parties the leader holds enough presigns of
  LeaderTimeout,  \* cfg.SelectionLeaderTimeout, in ticks
  MemberTimeout   \* cfg.SelectionMemberTimeout, in ticks

ASSUME NodesAssumption ==
  /\ IsFiniteSet(Nodes)
  /\ \E p \in Nodes : \A q \in Nodes : Hash[p] <= Hash[q]
ASSUME WorkTypeAssumption == WorkType \in {"EcKeygen", "EdKeygen", "EcSigning", "EdSigning"}
ASSUME ThresholdAssumption == Threshold \in Nat /\ Threshold < Cardinality(Nodes)
ASSUME TimeoutAssumption == LeaderTimeout \in Nat /\ MemberTimeout \in Nat

\* Every node takes the party with the smallest hash.
ChooseLeader == CHOOSE p \in Nodes : \A q \in Nodes : Hash[p] <= Hash[q]

Leader  == ChooseLeader
Members == Nodes \ {Leader}

\* A presign was made by enough parties, this one among them.
ASSUME PresignsAssumption ==
  \A P \in Presigns : /\ P \subseteq Nodes
                      /\ Leader \in P
                      /\ Cardinality(P) > Threshold

VARIABLES
  state,      \* where the selection of each node is
  age,        \* how long each node has been waiting
  available,  \* the leader's availableParties
  responses,  \* the leader's memberResponseCh
  net,        \* messages under way
  cached,     \* messages that reached a node before its worker started
  chosen      \* the selection each node takes part in or was left out of

vars == <<state, age, available, responses, net, cached, chosen>>

States   == {"off", "wait", "exec", "excluded", "failed"}
IsKeygen == WorkType \in {"EcKeygen", "EdKeygen"}

\* Whether presigns of the parties were found.
Selection == [pids : SUBSET Nodes, presign : {"found", "none"}]
Nobody    == [pids |-> {}, presign |-> "none"]

Request(p)     == [type |-> "request", to |-> p]
Response(p, c) == [type |-> "response", to |-> Leader, from |-> p, cause |-> c]
Output(p, ok, s) == [type |-> "output", to |-> p, success |-> ok, sel |-> s]

Requests  == {Request(p) : p \in Members}
Responses == {Response(p, c) : p \in Members, c \in {"start", "request"}}
Outputs   == {Output(p, ok, s) : p \in Members, ok \in {"yes", "no"}, s \in Selection}

TypeOK ==
  /\ state \in [Nodes -> States]
  /\ age \in [Nodes -> Nat]
  /\ available \subseteq Nodes
  /\ responses \subseteq Responses
  /\ net \subseteq Requests \cup Responses \cup Outputs
  /\ cached \subseteq Requests \cup Responses \cup Outputs
  /\ chosen \in [Nodes -> Selection]

Init ==
  /\ state = [n \in Nodes |-> "off"]
  /\ age = [n \in Nodes |-> 0]
  /\ available = {Leader}
  /\ responses = {}
  /\ net = {}
  /\ cached = {}
  /\ chosen = [n \in Nodes |-> Nobody]

\* broadcastResult: the worker of node n is told the result, once.
BroadcastResult(n, result, sel) ==
  /\ state' = [state EXCEPT ![n] = result]
  /\ chosen' = [chosen EXCEPT ![n] = sel]

-----------------------------------------------------------------------------
(* Leader *)

GetMinPartyCount == IF IsKeygen THEN Cardinality(Nodes) ELSE Threshold + 1

\* Any of the parties.
GetPartyListOfAll(a, n) == {S \in SUBSET Members : Cardinality(S) = n}

\* The n other parties a map iteration may return first, or all if there are
\* not more; n is compared after the first was taken, so 0 stands for all.
GetPartyList(a, n) ==
  IF n = 0 \/ Cardinality(a \ {Leader}) <= n
  THEN {a \ {Leader}}
  ELSE {S \in SUBSET (a \ {Leader}) : Cardinality(S) = n}

\* The selections of n others and the leader.
WithLeader(a, n) == {[pids |-> S \cup {Leader}, presign |-> "none"] : S \in GetPartyList(a, n)}

\* The parties of one of the leader's presigns.
GetAvailablePresigns(a) == {[pids |-> P, presign |-> "found"] : P \in {Q \in Presigns : Q \subseteq a}}

\* The selections the leader may make with parties a available; none while it
\* has to wait.
CheckEnoughParticipants(a) ==
  IF Cardinality(a) < GetMinPartyCount
  THEN {}
  ELSE IF WorkType # "EcSigning"
  THEN WithLeader(a, GetMinPartyCount - 1)
  ELSE IF GetAvailablePresigns(a) # {}
  THEN GetAvailablePresigns(a)
  ELSE IF a = Nodes
  THEN WithLeader(a, Threshold)
  ELSE {}

\* The announcement goes to all members in messages of their own.
LeaderFinalized(ok, sel) ==
  /\ BroadcastResult(Leader, IF ok = "yes" THEN "exec" ELSE "failed", sel)
  /\ net' = net \cup {Output(p, ok, sel) : p \in Members}

\* The leader starts: it counts the responses in the cache, and selects or asks
\* everybody who has not responded.
DoPreExecutionAsLeader ==
  LET a == {Leader} \cup {m.from : m \in {x \in cached : x.type = "response"}}
  IN  /\ state[Leader] = "off"
      /\ cached' = {m \in cached : m.to # Leader}
      /\ available' = a
      /\ \/ \E sel \in CheckEnoughParticipants(a) : LeaderFinalized("yes", sel)
         \/ /\ CheckEnoughParticipants(a) = {}
            /\ state' = [state EXCEPT ![Leader] = "wait"]
            /\ net' = net \cup {Request(p) : p \in Nodes \ a}
            /\ UNCHANGED chosen
      /\ UNCHANGED <<age, responses>>

\* waitForMemberResponse takes a response from the channel.  After one that is
\* not enough, it ends with an error if the time is over.
TakeResponse(m) ==
  LET a == available \cup {m.from}
  IN  /\ state[Leader] = "wait"
      /\ m \in responses
      /\ responses' = responses \ {m}
      /\ available' = a
      /\ \/ \E sel \in CheckEnoughParticipants(a) : LeaderFinalized("yes", sel)
         \/ /\ CheckEnoughParticipants(a) = {}
            /\ UNCHANGED <<state, chosen, net>>
         \/ /\ CheckEnoughParticipants(a) = {}
            /\ age[Leader] = LeaderTimeout
            /\ LeaderFinalized("no", Nobody)
      /\ UNCHANGED <<age, cached>>

\* A channel that leaves out the leader.
NewPreworkSelectionShort == Cardinality(Nodes) - 1

\* The capacity of memberResponseCh; a response that finds it full blocks its
\* goroutine.
NewPreworkSelection == Cardinality(Nodes)

\* The timer of waitForMemberResponse fires: a signing goes on with the parties
\* it has, if they are enough.
LeaderTimesOut ==
  /\ state[Leader] = "wait"
  /\ age[Leader] = LeaderTimeout
  /\ IF ~ IsKeygen /\ Cardinality(available) >= Threshold + 1
     THEN \E sel \in WithLeader(available, Threshold) : LeaderFinalized("yes", sel)
     ELSE LeaderFinalized("no", Nobody)
  /\ UNCHANGED <<age, available, responses, cached>>

-----------------------------------------------------------------------------
(* Member *)

ValidateLeaderSelection(sel) ==
  /\ IsKeygen => sel.pids = Nodes
  /\ Cardinality(sel.pids) >= Threshold + 1

\* A member that does not look for itself among the selected.
MemberFinalizedJoins(n, m) ==
  IF m.success = "no" \/ ~ ValidateLeaderSelection(m.sel)
  THEN BroadcastResult(n, "failed", Nobody)
  ELSE BroadcastResult(n, "exec", m.sel)

\* The announcement is checked; a selected member needs the presigns in its
\* database, which may fail.
MemberFinalized(n, m) ==
  \/ /\ m.success = "no" \/ ~ ValidateLeaderSelection(m.sel)
     /\ BroadcastResult(n, "failed", Nobody)
  \/ /\ m.success = "yes" /\ ValidateLeaderSelection(m.sel)
     /\ n \notin m.sel.pids
     /\ BroadcastResult(n, "excluded", m.sel)
  \/ /\ m.success = "yes" /\ ValidateLeaderSelection(m.sel)
     /\ n \in m.sel.pids
     /\ \/ BroadcastResult(n, "exec", m.sel)
        \/ m.sel.presign = "found" /\ BroadcastResult(n, "failed", Nobody)

\* A member that does not look for an announcement in the cache.
DoPreExecutionAsMemberAnew(n) ==
  /\ n \in Members
  /\ state[n] = "off"
  /\ cached' = {m \in cached : m.to # n}
  /\ state' = [state EXCEPT ![n] = "wait"]
  /\ net' = net \cup {Response(n, "start")}
  /\ UNCHANGED <<age, available, responses, chosen>>

\* A member starts: it takes the announcement from the cache, or tells the
\* leader that it is available and waits.
DoPreExecutionAsMember(n) ==
  /\ n \in Members
  /\ state[n] = "off"
  /\ cached' = {m \in cached : m.to # n}
  /\ LET out == {m \in cached : m.to = n /\ m.type = "output"}
     IN  \/ \E m \in out : MemberFinalized(n, m) /\ UNCHANGED net
         \/ /\ out = {}
            /\ state' = [state EXCEPT ![n] = "wait"]
            /\ net' = net \cup {Response(n, "start")}
            /\ UNCHANGED chosen
  /\ UNCHANGED <<age, available, responses>>

\* A timer that ends without telling the worker.
MemberTimesOutSilent(n) ==
  /\ n \in Members
  /\ age[n] = MemberTimeout
  /\ UNCHANGED vars

MemberTimesOut(n) ==
  /\ n \in Members
  /\ state[n] = "wait"
  /\ age[n] = MemberTimeout
  /\ BroadcastResult(n, "failed", Nobody)
  /\ UNCHANGED <<age, available, responses, net, cached>>

-----------------------------------------------------------------------------
(* Messages.  ProcessNewMessage of the selection; the engine or the worker  *)
(* caches what comes before it.  Once a selection has failed or excluded    *)
(* its node the engine drops the worker, sooner or later, and what arrives  *)
(* after that waits in a cache nobody reads.                                *)

CacheMessage(m) ==
  /\ m \in net
  /\ state[m.to] = "off"
  /\ net' = net \ {m}
  /\ cached' = cached \cup {m}
  /\ UNCHANGED <<state, age, available, responses, chosen>>

Gone(n) == state[n] \in {"excluded", "failed"}

\* A member answers for as long as it has a worker.
OnPreExecutionRequest(m) ==
  /\ m \in net
  /\ m.type = "request"
  /\ state[m.to] # "off"
  /\ \/ net' = (net \ {m}) \cup {Response(m.to, "request")}
     \/ Gone(m.to) /\ net' = net \ {m}
  /\ UNCHANGED <<state, age, available, responses, cached, chosen>>

OnPreExecutionResponse(m) ==
  /\ m \in net
  /\ m.type = "response"
  /\ state[Leader] # "off"
  /\ \/ /\ Cardinality(responses) < NewPreworkSelection
        /\ responses' = responses \cup {m}
     \/ Gone(Leader) /\ UNCHANGED responses
  /\ net' = net \ {m}
  /\ UNCHANGED <<state, age, available, cached, chosen>>

\* A waiting member takes the announcement from preExecMsgCh at once; for any
\* other it stays there.
OnPreExecOutput(m) ==
  /\ m \in net
  /\ m.type = "output"
  /\ state[m.to] # "off"
  /\ net' = net \ {m}
  /\ \/ state[m.to] = "wait" /\ MemberFinalized(m.to, m)
     \/ state[m.to] # "wait" /\ UNCHANGED <<state, chosen>>
  /\ UNCHANGED <<age, available, responses, cached>>

Timeout(n) == IF n = Leader THEN LeaderTimeout ELSE MemberTimeout

\* Time passes for the nodes that wait, up to the first timer that is due.
Tick ==
  LET waiting == {n \in Nodes : state[n] = "wait"}
  IN  /\ waiting # {}
      /\ \A n \in waiting : age[n] < Timeout(n)
      /\ age' = [n \in Nodes |-> IF n \in waiting THEN age[n] + 1 ELSE age[n]]
      /\ UNCHANGED <<state, available, responses, net, cached, chosen>>

-----------------------------------------------------------------------------

Next ==
  \/ DoPreExecutionAsLeader
  \/ \E m \in responses : TakeResponse(m)
  \/ LeaderTimesOut
  \/ \E n \in Members : DoPreExecutionAsMember(n) \/ MemberTimesOut(n)
  \/ \E m \in net : \/ CacheMessage(m)
                    \/ OnPreExecutionRequest(m)
                    \/ OnPreExecutionResponse(m)
                    \/ OnPreExecOutput(m)
  \/ Tick

Spec == Init /\ [][Next]_vars

\* Timers fire.  Nothing is assumed of messages.
Fairness ==
  /\ WF_vars(Tick)
  /\ WF_vars(LeaderTimesOut)
  /\ \A n \in Members : WF_vars(MemberTimesOut(n))

FairSpec == Spec /\ Fairness

-----------------------------------------------------------------------------
(* Properties *)

\* All nodes that execute the work agree with the leader on who takes part and
\* with which presigns, and take part themselves; a node left out is no part of
\* the leader's group.  Hence nobody executes a work the leader gave up.
Agreement ==
  \A n \in Nodes :
    /\ state[n] = "exec" => /\ state[Leader] = "exec"
                            /\ n \in chosen[Leader].pids
                            /\ chosen[n] = chosen[Leader]
    /\ state[n] = "excluded" => /\ state[Leader] = "exec"
                                /\ n \notin chosen[Leader].pids

\* The group the leader executes with has more parties than the threshold, all
\* parties for a keygen, and each of them has started the work.
GroupIsAble ==
  state[Leader] = "exec" =>
    LET group == chosen[Leader].pids
    IN  /\ Cardinality(group) >= Threshold + 1
        /\ IsKeygen => group = Nodes
        /\ \A p \in group : state[p] # "off"

\* What the two rest on: whoever the leader counts, or is going to count, has
\* started, and an announcement of success tells the leader's own choice.
AnnouncedInv ==
  /\ Leader \in available
  /\ \A p \in available \ {Leader} : state[p] # "off"
  /\ \A m \in responses \cup net \cup cached : m.type = "response" => state[m.from] # "off"
  /\ \A m \in net \cup cached : m.type = "output" /\ m.success = "yes"
                              => state[Leader] = "exec" /\ m.sel = chosen[Leader]
  /\ state[Leader] = "exec" => Leader \in chosen[Leader].pids
  /\ state[Leader] # "excluded"

Choices == {s \in Selection : /\ Cardinality(s.pids) >= Threshold + 1
                              /\ IsKeygen => s.pids = Nodes}

Sel == INSTANCE Selection WITH Nodes <- Nodes, Leader <- Leader, Choices <- Choices,
                               Nobody <- Nobody, state <- state, chosen <- chosen

\* The round with its messages, caches and timers keeps the promise of Selection.
ImplementsSelection == Sel!Spec

\* The comment in onPreExecutionResponse fears a blocking operation: once the
\* leader has decided, nobody empties memberResponseCh any more, and a response
\* that finds it full is held for ever.  It happens, but no more often than this:
\* all parties the leader has not counted but one may each leave a goroutine
\* behind, and once the leader executes, all parties it can do without but one.
\* A keygen, or a signing of up to five nodes with the usual threshold, leaves
\* none; a signing of six may leave one.
BlockedBounded ==
  LET blocked == Cardinality(responses \cup {m \in net : m.type = "response"}) - NewPreworkSelection
  IN  /\ state[Leader] # "off" => blocked + Cardinality(available) <= Cardinality(Nodes) - 1
      /\ state[Leader] = "exec" => blocked + GetMinPartyCount <= Cardinality(Nodes) - 1

\* What a member has said on its own, and what it was asked and has answered.
StartUnderWay(p) == Response(p, "start") \in net \cup responses
AskUnderWay(p)   == \/ Request(p) \in net \cup cached
                    \/ Response(p, "request") \in net \cup responses

\* Every message is in one place, an answer replaces the request, and whoever the
\* leader counts has only one of its two responses left.
OneAnswer(p) ==
  /\ Response(p, "start") \notin net \cap responses
  /\ Request(p) \notin net \cap cached
  /\ Response(p, "request") \notin net \cap responses
  /\ Request(p) \in net \cup cached => Response(p, "request") \notin net \cup responses
  /\ p \in available => ~StartUnderWay(p) \/ ~AskUnderWay(p)

\* Inductive: a member says once that it is available and once more if it is
\* asked; a leader that has not started has asked nobody; and one that executes
\* has counted enough.
ResponseInv ==
  /\ state[Leader] = "off" => responses = {} /\ \A p \in Members : ~AskUnderWay(p)
  /\ \A m \in cached : m.type = "response" => state[Leader] = "off"
  /\ \A p \in Members : OneAnswer(p)
  /\ state[Leader] = "exec" => Cardinality(available) >= GetMinPartyCount

\* The nodes that take part or are ready to, and whose response has been counted.
Present == {p \in Nodes : state[p] \in {"wait", "exec"} /\ (p \in Members => ~StartUnderWay(p))}

\* Nothing is about to reach a node: the leader has read its responses, and what
\* is under way is held at its full channel.
Quiet ==
  /\ responses = {} \/ state[Leader] # "wait"
  /\ \A m \in net : /\ m.type = "response"
                    /\ state[Leader] # "off"
                    /\ Cardinality(responses) >= NewPreworkSelection

\* A node that waits gives up only if a message is still on its way, the leader
\* has not started or has given up, it waits with too few parties to select
\* from, or the member lacks the presigns that were selected.  Hence timers are
\* no reason of their own where messages arrive in time, whoever starts first.
\* (A leader whose time is over takes one more response, and gives up if that is
\* not enough, whoever else has just started; of an ECDSA signing also if it has
\* the parties to go on without presigns, as it does when its timer fires.)
NoNeedlessFailure ==
  [][\A n \in Nodes :
        state[n] = "wait" /\ state'[n] = "failed" =>
          \/ n \in Members /\ ~Quiet
          \/ state[Leader] \in {"off", "failed"}
          \/ state[Leader] = "wait" /\ CheckEnoughParticipants(Present) = {}
          \/ state[Leader] = "exec" /\ chosen[Leader].presign = "found"]_vars

\* What a waiting member has said is not lost before the leader decides.
Heard(p) ==
  state[Leader] \in {"off", "wait"} /\ state[p] = "wait"
  => p \in available \/ StartUnderWay(p) \/ Response(p, "start") \in cached

\* The leader's announcement is under way to a member until it takes it.
Told(p) ==
  state[Leader] \in {"exec", "failed"}
  => /\ state[p] = "wait" => \E m \in net : m.type = "output" /\ m.to = p
     /\ state[p] = "off" => \E m \in net \cup cached : m.type = "output" /\ m.to = p

\* The leader waits only for want of parties, reads its cache at the start, and
\* announces a failure only of its own.
LeaderInv ==
  /\ state[Leader] = "off" => available = {Leader}
  /\ state[Leader] = "wait" => CheckEnoughParticipants(available) = {}
  /\ state[Leader] # "off" => \A m \in cached : m.to # Leader
  /\ \A m \in net \cup cached : m.type = "output" /\ m.success = "no" => state[Leader] = "failed"

\* Inductive: nobody who waits is forgotten.
WaitingInv == LeaderInv /\ \A p \in Members : Heard(p) /\ Told(p)

\* Every node that waits gets a result, even if no message ever arrives.
EveryoneDecides == \A n \in Nodes : state[n] = "wait" ~> state[n] # "wait"
=============================================================================
