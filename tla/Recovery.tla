------------------------------ MODULE Recovery ------------------------------
(***************************************************************************)
(* The recovery of lost messages during the executions of one work on all  *)
(* its nodes.  Each executor has a monitor                                 *)
(* (worker/components/message_monitor.go) that wakes up at intervals and,  *)
(* if no message came since, asks for messages that are missing.  Engines  *)
(* answer from the cache of signed messages they keep for every sender     *)
(* (core/cache/work_message_cache.go): their own messages and the          *)
(* broadcasts they have seen.                                              *)
(*                                                                         *)
(* The parties of tss-lib are external.  A party emits its messages in the *)
(* order of their types, those of a round when it has all messages of the  *)
(* earlier rounds.  The network delays, reorders and loses messages.       *)
(***************************************************************************)
EXTENDS Integers, FiniteSets, CircularQueue

CONSTANTS
  Nodes,       \* the parties of the work
  WorkType,    \* request.WorkType
  Presigned,   \* whether an ECDSA signing has presigns, and needs its last round only
  SizePerNode, \* cache.MaxMessagePerNode, the size of the cache of a sender
  MaxLost,     \* bound: how many messages the network loses
  MaxTypes,    \* bound: the execution is looked at up to this type of message
  Hasty        \* bound: the nodes whose monitor may wake up while messages for the node are
               \* on their way, as they take longer than MonitorMessageTimeout

ASSUME NodesAssumption == IsFiniteSet(Nodes)
ASSUME WorkAssumption  == WorkType \in {"EcKeygen", "EdKeygen", "EcSigning", "EdSigning"}
ASSUME PresignedAssumption == Presigned \in BOOLEAN /\ (Presigned => WorkType = "EcSigning")
ASSUME SizeAssumption  == SizePerNode \in Nat \ {0}
ASSUME LostAssumption  == MaxLost \in Nat
ASSUME TypesAssumption == MaxTypes \in Nat
ASSUME HastyAssumption == Hasty \subseteq Nodes

\* The rounds of the types of messages, in their order.
Rounds ==
  CASE WorkType = "EcKeygen"  -> <<1, 2, 2, 3>>
    [] WorkType = "EdKeygen"  -> <<1, 2, 2>>
    [] WorkType = "EcSigning" -> <<1, 1, 2, 3, 4, 5, 6, 7>>
    [] WorkType = "EdSigning" -> <<1, 2, 3>>

AllTypes == {i \in DOMAIN Rounds : i <= MaxTypes}

\* The types a party emits: with presigns SignRound7Message only.
Types == {i \in AllTypes : Presigned => i = 8}

\* The types the monitor knows, all of ECDSA and none of EdDSA.
GetMessagesByWorkType == IF WorkType \in {"EcKeygen", "EcSigning"} THEN AllTypes ELSE {}

\* Whether tss-lib broadcasts a type.  The list of the code has those of ECDSA, the
\* only ones it is asked about.
IsBroadcastMessage(i) ==
  CASE WorkType = "EcKeygen"  -> i # 2
    [] WorkType = "EdKeygen"  -> i # 2
    [] WorkType = "EcSigning" -> i \notin {1, 3}
    [] WorkType = "EdSigning" -> TRUE

Peers(n) == Nodes \ {n}
Wanted   == [n \in Nodes |-> Peers(n) \X Types]

\* The keys of messages.  A broadcast is addressed to nobody.
All == "all"
Key(from, to, i) == [from |-> from, to |-> IF IsBroadcastMessage(i) THEN All ELSE to, type |-> i]
IsBroadcast(k)   == k.to = All
KeysOf           == [n \in Nodes |-> {Key(n, p, i) : p \in Peers(n), i \in Types}]
Keys             == UNION {KeysOf[n] : n \in Nodes}

\* A message on its way: a broadcast comes from its sender or from another node
\* that has it, any other message from its sender to its addressee.
Update(k, src, dest) == [key |-> k, src |-> src, dest |-> dest]
Packets == {p \in [key : Keys, src : Nodes, dest : Nodes] :
              /\ p.dest \notin {p.src, p.key.from}
              /\ IsBroadcast(p.key) \/ (p.src = p.key.from /\ p.dest = p.key.to)}

VARIABLES
  sent,     \* the messages the party of a node has emitted
  received, \* the messages, as pairs of sender and type, the executor has taken
  recent,   \* whether one came since the monitor woke up last
  stopped,  \* whether the executor has stopped, with its monitor
  cache,    \* workCache of each engine, per sender
  net,      \* the messages on their way
  lost      \* how many were lost

vars == <<sent, received, recent, stopped, cache, net, lost>>

TypeOK ==
  /\ sent \in [Nodes -> SUBSET Keys]
  /\ received \in [Nodes -> SUBSET (Nodes \X Types)]
  /\ \A n \in Nodes : sent[n] \subseteq KeysOf[n] /\ received[n] \subseteq Wanted[n]
  /\ recent \in [Nodes -> {"no", "yes"}]
  /\ stopped \in [Nodes -> {"no", "yes"}]
  /\ cache = [n \in Nodes |-> [p \in Nodes |-> cache[n][p]]]
  /\ \A n, p \in Nodes : /\ cache[n][p].queue \in Seq(Keys)
                         /\ cache[n][p].m \subseteq Slots(cache[n][p])
  /\ net \subseteq Packets
  /\ lost \in 0..MaxLost

Init ==
  /\ sent = [n \in Nodes |-> {}]
  /\ received = [n \in Nodes |-> {}]
  /\ recent = [n \in Nodes |-> "no"]
  /\ stopped = [n \in Nodes |-> "no"]
  /\ cache = [n \in Nodes |-> [p \in Nodes |-> NewCircularQueue]]
  /\ net = {}
  /\ lost = 0

-----------------------------------------------------------------------------
(* Caches and sending *)

\* Own messages have no more room than those of others.
WorkCacheAddSmall(n, k) == [cache EXCEPT ![n][k.from] = QueueAdd(@, SizePerNode, k)]

\* WorkMessageCache.Add: there is five times as much room for own messages.
WorkCacheAdd(n, k) ==
  [cache EXCEPT ![n][k.from] = QueueAdd(@, IF k.from = n THEN SizePerNode * 5 ELSE SizePerNode, k)]

\* WorkMessageCache.Get, as whether there is a message.
WorkCacheHas(n, k) == QueueHas(cache[n][k.from], k)

\* sendSignMessaged sends to everybody but ourselves.
SendSignMessaged(n, k) ==
  {Update(k, n, p) : p \in IF IsBroadcast(k) THEN Peers(n) ELSE {k.to}}

\* BroadcastMessage and UnicastMessage.
SendMessage(n, k) ==
  /\ cache' = WorkCacheAdd(n, k)
  /\ net' = net \cup SendSignMessaged(n, k)

-----------------------------------------------------------------------------
(* Party of tss-lib, and the executor that passes its messages on *)

Needed(n, r) == {m \in Wanted[n] : Rounds[m[2]] < r}

\* The party has emitted a message, for every job of the batch.
OnJobMessage(n, k) ==
  /\ k \in KeysOf[n] \ sent[n]
  /\ \A l \in KeysOf[n] : l.type < k.type => l \in sent[n]
  /\ Needed(n, Rounds[k.type]) \subseteq received[n]
  /\ sent' = [sent EXCEPT ![n] = @ \cup {k}]
  /\ SendMessage(n, k)
  /\ UNCHANGED <<received, recent, stopped, lost>>

\* All jobs have their results.
Finish(n) ==
  /\ stopped[n] = "no"
  /\ sent[n] = KeysOf[n]
  /\ received[n] = Wanted[n]
  /\ stopped' = [stopped EXCEPT ![n] = "yes"]
  /\ UNCHANGED <<sent, received, recent, cache, net, lost>>

-----------------------------------------------------------------------------
(* Engine *)

\* The monitor notes the message and its time.
NewMessageReceived(n, k) ==
  /\ received' = [received EXCEPT ![n] = @ \cup {<<k.from, k.type>>}]
  /\ recent' = [recent EXCEPT ![n] = "yes"]

\* A broadcast is cached, whether or not the executor still takes messages.
OnNetworkMessage(p) ==
  /\ p \in net
  /\ net' = net \ {p}
  /\ cache' = IF IsBroadcast(p.key) THEN WorkCacheAdd(p.dest, p.key) ELSE cache
  /\ IF stopped[p.dest] = "yes"
     THEN UNCHANGED <<received, recent>>
     ELSE NewMessageReceived(p.dest, p.key)
  /\ UNCHANGED <<sent, stopped, lost>>

\* OnAskMessage at node d: the answer is the signed message of the cache, for
\* its addressee only.
OnAskMessage(d, k, src) ==
  IF WorkCacheHas(d, k) /\ (IsBroadcast(k) \/ k.to = src) THEN {Update(k, d, src)} ELSE {}

\* Network: a message gets lost.
Lose(p) ==
  /\ p \in net
  /\ lost < MaxLost
  /\ lost' = lost + 1
  /\ net' = net \ {p}
  /\ UNCHANGED <<sent, received, recent, stopped, cache>>

-----------------------------------------------------------------------------
(* Message monitor *)

\* The largest type received from anybody.
MaxIndex(n) ==
  LET known == {m[2] : m \in {x \in received[n] : x[2] \in GetMessagesByWorkType}}
  IN  CHOOSE i \in known \cup {0} : \A j \in known : j <= i

\* What is missing up to the largest type.
Gaps(n) ==
  {m \in Peers(n) \X GetMessagesByWorkType : m[2] <= MaxIndex(n) /\ m \notin received[n]}

\* Only gaps are looked for.
FindGapsOnly(n) == Gaps(n)

\* The gaps; if there are none, the next type of everybody.
FindMissingMessages(n) ==
  IF Gaps(n) = {}
  THEN Peers(n) \X {i \in GetMessagesByWorkType : i = MaxIndex(n) + 1}
  ELSE Gaps(n)

\* A broadcast is asked of everybody, another message of its sender: the
\* answers to these requests.
OnMissingMesssageDetected(n) ==
  UNION {LET k == Key(m[1], n, m[2])
         IN  UNION {OnAskMessage(d, k, n) : d \in IF IsBroadcast(k) THEN Peers(n) ELSE {m[1]}}
         : m \in FindMissingMessages(n)}

\* The monitor wakes up.  It waits another time if a message came meanwhile.
\* Requests arrive at once or never.
WakeUp(n) ==
  /\ stopped[n] = "no"
  /\ n \in Hasty \/ \A p \in net : n # p.dest
  /\ recent' = [recent EXCEPT ![n] = "no"]
  /\ IF recent[n] = "yes"
     THEN UNCHANGED <<net, lost>>
     ELSE LET answers == OnMissingMesssageDetected(n)
          IN  \E unheard \in SUBSET answers :
                /\ lost + Cardinality(unheard) <= MaxLost
                /\ lost' = lost + Cardinality(unheard)
                /\ net' = net \cup (answers \ unheard)
  /\ UNCHANGED <<sent, received, stopped, cache>>

-----------------------------------------------------------------------------

Next ==
  \/ \E n \in Nodes : \/ \E k \in KeysOf[n] : OnJobMessage(n, k)
                      \/ Finish(n)
                      \/ WakeUp(n)
  \/ \E p \in net : OnNetworkMessage(p) \/ Lose(p)

Spec == Init /\ [][Next]_vars

\* Parties emit what they can, timers fire, and a node that messages are on
\* their way to receives one of them, unless they are lost.
Fairness ==
  /\ \A n \in Nodes : /\ WF_vars(\E k \in KeysOf[n] : OnJobMessage(n, k))
                      /\ WF_vars(Finish(n))
                      /\ WF_vars(WakeUp(n))
                      /\ WF_vars(\E p \in net : p.dest = n /\ OnNetworkMessage(p))

FairSpec == Spec /\ Fairness

-----------------------------------------------------------------------------
(* Properties *)

\* An engine can answer for every message of its own party for the whole
\* execution, whatever broadcasts of others it caches meanwhile and however
\* often.
OwnMessagesAnswerable ==
  \A n \in Nodes : \A k \in sent[n] : WorkCacheHas(n, k)

\* All messages of a party fit into the cache its engine has for it.
OwnRoom == \A n \in Nodes : Cardinality(KeysOf[n]) <= SizePerNode * 5

\* What that rests on: nothing but the messages of its own party goes into that
\* cache, each of them once.
OwnCacheInv ==
  /\ DOMAIN sent = Nodes
  /\ cache = [n \in Nodes |-> [p \in Nodes |-> cache[n][p]]]
  /\ \A n \in Nodes :
       /\ sent[n] \subseteq KeysOf[n]
       /\ cache[n][n].queue \in Seq(KeysOf[n])
       /\ Len(cache[n][n].queue) = Cardinality(sent[n])
       /\ sent[n] \subseteq cache[n][n].m
  /\ \A p \in net : /\ p.dest \in Nodes
                    /\ p.key.from \in Peers(p.dest)
                    /\ p.key.type \in Types

Complete(n) == sent[n] = KeysOf[n] /\ received[n] = Wanted[n]
CanEmit(n)  == \E k \in KeysOf[n] \ sent[n] : Needed(n, Rounds[k.type]) \subseteq received[n]

\* With presigns a node that has got nothing asks for SignRound1Message1, which
\* nobody sends; it lacks messages and has no claim to get them.
Lacks(n) == ~Complete(n) /\ (Presigned => received[n] # {})

\* If nothing is on its way, no party can go on, and yet some node lacks
\* messages, then some monitor asks for a message that somebody can give: the
\* nodes do not wait for each other, each asking for what was never sent.
StuckIsAsked ==
  (net = {} /\ (\A n \in Nodes : ~CanEmit(n)) /\ (\E n \in Nodes : Lacks(n)))
  => \E n \in Nodes : stopped[n] = "no" /\ OnMissingMesssageDetected(n) # {}

\* What that rests on, besides OwnCacheInv: an executor stops when it is complete.
StoppedInv ==
  /\ DOMAIN received = Nodes
  /\ stopped \in [Nodes -> {"no", "yes"}]
  /\ \A n \in Nodes : /\ received[n] \subseteq Wanted[n]
                      /\ stopped[n] = "yes" => Complete(n)

\* After any losses every executor gets all messages and finishes; those that
\* have finished are still answered for by their engines.
Recovers == <>(\A n \in Nodes : stopped[n] = "yes")
=============================================================================
