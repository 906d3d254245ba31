---------------------------- MODULE EngineProofs ----------------------------
(***************************************************************************)
(* Proofs about the engine's queue and pool and about its worker objects,  *)
(* for any number of goroutines, works and messages and any size of the    *)
(* worker pool.                                                            *)
(***************************************************************************)
EXTENDS Engine, FiniteSetTheorems, SequenceTheorems, TLAPS

\* The number of the next worker object.
LEMMA Successor == \A k \in Nat : k + 1 \in Nat /\ k + 1 # 0 /\ k + 1 \in 1..(k + 1) /\ k + 1 <= k + 1
  OBVIOUS

\* A set of natural numbers has a least member.
LEMMA LeastMember ==
  ASSUME NEW T \in SUBSET Nat, T # {}
  PROVE  \E x \in T : \A y \in T : x <= y
<1> DEFINE R == {ss \in Nat \X Nat : ss[1] < ss[2]}
<1>1. R = OpToRel(<, Nat)
  BY Zenon DEF OpToRel
<1>2. PICK x \in T : \A y \in T : ~ (<<y, x>> \in R)
  <2> HIDE DEF R
  <2> QED BY <1>1, NatLessThanWellFounded, WFMin, Zenon
<1>3. \A y, z \in Nat : y < z => <<y, z>> \in R
  OBVIOUS
<1> HIDE DEF R
<1> SUFFICES ASSUME NEW y \in T
             PROVE  x <= y
  OBVIOUS
<1>4. x \in Nat /\ y \in Nat
  OBVIOUS
<1>5. ~ (y < x)
  BY <1>2, <1>3, <1>4, Zenon
<1> QED BY <1>4, <1>5

\* A set of positions has a last one.
LEMMA LastPosition ==
  ASSUME NEW n \in Nat, NEW S \in SUBSET (0..n), S # {}
  PROVE  \E p \in S : \A i \in S : i <= p
<1> DEFINE T == {n - i : i \in S}
<1>1. T \in SUBSET Nat /\ T # {}
  <2>1. PICK i \in S : TRUE
    BY Zenon
  <2>2. n - i \in T
    OBVIOUS
  <2> QED BY <2>2
<1>2. PICK x \in T : \A y \in T : x <= y
  <2> HIDE DEF T
  <2> QED BY <1>1, LeastMember
<1>3. PICK p \in S : x = n - p
  OBVIOUS
<1>4. \A i \in S : n - p <= n - i
  BY <1>2, <1>3, Zenon
<1> QED BY <1>4

\* The position AddWork inserts behind is a position of the queue or 0.
LEMMA PositionType ==
  ASSUME NEW q \in Seq(Works), NEW w \in Works
  PROVE  /\ Position(q, w) \in 0..Len(q)
         /\ \A i \in 1..Len(q) : GetPriority(w) <= GetPriority(q[i]) => i <= Position(q, w)
         /\ Position(q, w) # 0 => GetPriority(w) <= GetPriority(q[Position(q, w)])
<1> DEFINE atLeast == {i \in 1..Len(q) : GetPriority(w) <= GetPriority(q[i])}
<1>1. \E p \in atLeast \cup {0} : \A i \in atLeast \cup {0} : i <= p
  <2>1. Len(q) \in Nat /\ atLeast \cup {0} \in SUBSET (0..Len(q))
    OBVIOUS
  <2> HIDE DEF atLeast
  <2> QED BY <2>1, LastPosition, Zenon
<1>2. Position(q, w) = CHOOSE p \in atLeast \cup {0} : \A i \in atLeast : i <= p
  BY DEF Position
<1>3. Position(q, w) \in atLeast \cup {0} /\ \A i \in atLeast : i <= Position(q, w)
  <2> HIDE DEF atLeast
  <2> QED BY <1>1, <1>2
<1> QED BY <1>3

\* AddWork brings no work into the queue but the new one.
LEMMA AddWorkIn ==
  ASSUME NEW S \in SUBSET Works, NEW q \in Seq(S), NEW w \in S
  PROVE  AddWork(q, w) \in Seq(S) /\ AddWork(q, w) # << >>
<1> DEFINE p == Position(q, w)
<1>1. p \in 0..Len(q)
  <2>1. q \in Seq(Works)
    OBVIOUS
  <2> QED BY <2>1, PositionType
<1> HIDE DEF p
<1>2. CASE p = 0
  BY <1>2 DEF AddWork, p
<1>3. CASE p # 0
  <2> DEFINE first  == SubSeq(q, 1, p)
             second == IF p = Len(q) THEN << >>
                       ELSE <<w>> \o SubSeq(q, p + 2, Len(q))
  <2>1. first \in Seq(S)
    BY <1>1, <1>3
  <2>2. second \in Seq(S)
    BY <1>1, <1>3
  <2>3. AddWork(q, w) = first \o <<w>> \o second
    BY <1>3, Zenon DEF AddWork, Insert, p
  <2> HIDE DEF first, second
  <2> QED BY <2>1, <2>2, <2>3
<1> QED BY <1>2, <1>3

\* AddWork yields a queue of works that is not empty.
LEMMA AddWorkType ==
  ASSUME NEW q \in Seq(Works), NEW w \in Works
  PROVE  AddWork(q, w) \in Seq(Works) /\ AddWork(q, w) # << >>
BY AddWorkIn

\* The queue after an insertion between two requests.
LEMMA Inserted ==
  ASSUME NEW q \in Seq(Works), NEW w \in Works, NEW p \in 1..Len(q), p # Len(q)
  PROVE  LET r == Insert(q, w, p)
         IN  /\ Len(r) = Len(q) + 1
             /\ \A k \in 1..p : r[k] = q[k]
             /\ r[p + 1] = w
             /\ r[p + 2] = w
             /\ \A k \in p + 3 .. Len(q) + 1 : r[k] = q[k - 1]
<1> DEFINE r     == Insert(q, w, p)
           first == SubSeq(q, 1, p)
           rest  == SubSeq(q, p + 2, Len(q))
<1>1. r = first \o <<w>> \o (<<w>> \o rest)
  BY Zenon DEF Insert
<1> HIDE DEF r
<1>2. /\ first \in Seq(Works)
      /\ Len(first) = p
      /\ \A k \in 1..p : first[k] = q[k]
  OBVIOUS
<1>3. /\ rest \in Seq(Works)
      /\ Len(rest) = Len(q) - p - 1
      /\ \A k \in 1..Len(q) - p - 1 : rest[k] = q[k + p + 1]
  OBVIOUS
<1> HIDE DEF first, rest
<1> DEFINE front == first \o <<w>>
           back  == <<w>> \o rest
<1>4. /\ front \in Seq(Works) /\ Len(front) = p + 1
      /\ \A k \in 1..p : front[k] = q[k]
      /\ front[p + 1] = w
  BY <1>2
<1>5. /\ back \in Seq(Works) /\ Len(back) = Len(q) - p
      /\ back[1] = w
      /\ \A k \in 2..Len(q) - p : back[k] = rest[k - 1]
  BY <1>3
<1>6. r = front \o back
  BY <1>1
<1> HIDE DEF front, back
<1>7. /\ Len(r) = Len(q) + 1
      /\ \A k \in 1..Len(q) + 1 : r[k] = IF k <= p + 1 THEN front[k] ELSE back[k - (p + 1)]
  <2>1. Len(front) + Len(back) = Len(q) + 1
    BY <1>4, <1>5
  <2>2. /\ Len(front \o back) = Len(front) + Len(back)
        /\ \A k \in 1..Len(front) + Len(back) :
             (front \o back)[k] = IF k <= Len(front) THEN front[k] ELSE back[k - Len(front)]
    BY <1>4, <1>5, ConcatProperties, Zenon
  <2> QED BY <1>4, <1>6, <2>1, <2>2
<1>8. /\ \A k \in 1..p : r[k] = q[k]
      /\ r[p + 1] = w
  BY <1>4, <1>7
<1>9. r[p + 2] = w
  <2>1. p + 2 \in 1..Len(q) + 1 /\ (p + 2) - (p + 1) = 1
    OBVIOUS
  <2> QED BY <1>5, <1>7, <2>1
<1>10. ASSUME NEW k \in p + 3 .. Len(q) + 1
       PROVE  r[k] = q[k - 1]
  <2>1. r[k] = back[k - (p + 1)] /\ k - (p + 1) \in 2..Len(q) - p
    BY <1>7
  <2>2. back[k - (p + 1)] = rest[(k - (p + 1)) - 1]
    BY <1>5, <2>1
  <2>3. rest[(k - (p + 1)) - 1] = q[((k - (p + 1)) - 1) + p + 1]
    BY <1>3, <2>1
  <2>4. ((k - (p + 1)) - 1) + p + 1 = k - 1
    OBVIOUS
  <2> QED BY <2>1, <2>2, <2>3, <2>4
<1> QED BY <1>7, <1>8, <1>9, <1>10 DEF r

\* A queue that is sorted by priority is sorted after AddWork.
LEMMA AddWorkSorted ==
  ASSUME NEW q \in Seq(Works), NEW w \in Works,
         \A i, j \in 1..Len(q) : i <= j => GetPriority(q[i]) >= GetPriority(q[j])
  PROVE  LET r == AddWork(q, w)
         IN  \A i, j \in 1..Len(r) : i <= j => GetPriority(r[i]) >= GetPriority(r[j])
<1> DEFINE p == Position(q, w)
           r == AddWork(q, w)
           P(v) == GetPriority(v)
<1>1. /\ p \in 0..Len(q)
      /\ \A i \in 1..Len(q) : P(w) <= P(q[i]) => i <= p
      /\ p # 0 => P(w) <= P(q[p])
  BY PositionType
<1>2. P(w) \in Int /\ \A i \in 1..Len(q) : P(q[i]) \in Int
  BY DEF GetPriority
<1>3. \A i \in 1..Len(q) : /\ i <= p => P(q[i]) >= P(w)
                           /\ i > p => P(w) >= P(q[i])
  BY <1>1, <1>2
<1>0. \A i, j \in 1..Len(q) : i <= j => P(q[i]) >= P(q[j])
  OBVIOUS
<1> SUFFICES ASSUME NEW i \in 1..Len(r), NEW j \in 1..Len(r), i <= j
             PROVE  P(r[i]) >= P(r[j])
  OBVIOUS
<1>4. CASE p = 0
  <2>1. r = <<w>> \o q
    BY <1>4 DEF AddWork
  <2> HIDE DEF p, r, P
  <2>2. /\ Len(r) = Len(q) + 1
        /\ r[1] = w
        /\ \A k \in 2..Len(r) : r[k] = q[k - 1]
    BY <2>1
  <2>3. CASE i = 1
    BY <2>2, <2>3, <1>2, <1>3, <1>4
  <2>4. CASE i > 1
    BY <2>2, <2>4, <1>0
  <2> QED BY <2>3, <2>4
<1>5. CASE p # 0 /\ p = Len(q)
  <2>1. r = SubSeq(q, 1, p) \o <<w>> \o << >>
    BY <1>5 DEF AddWork, Insert
  <2> HIDE DEF p, r, P
  <2>2. /\ Len(r) = Len(q) + 1
        /\ r[Len(r)] = w
        /\ \A k \in 1..Len(q) : r[k] = q[k]
    BY <1>1, <1>5, <2>1
  <2> QED BY <2>2, <1>0, <1>2, <1>3, <1>5
<1>6. CASE p # 0 /\ p # Len(q)
  <2> HIDE DEF P
  <2>7. r = Insert(q, w, p) /\ p \in 1..Len(q)
    BY <1>1, <1>6 DEF AddWork
  <2> HIDE DEF p, r
  <2>8. /\ Len(r) = Len(q) + 1
        /\ \A k \in 1..p : r[k] = q[k]
        /\ r[p + 1] = w
    BY <1>6, <2>7, Inserted
  <2>9. /\ r[p + 2] = w
        /\ \A k \in p + 3 .. Len(q) + 1 : r[k] = q[k - 1]
    BY <1>6, <2>7, Inserted
  <2>10. ASSUME NEW k \in 1..Len(r)
         PROVE  /\ k <= p + 2 => P(r[k]) >= P(w)
                /\ k >= p + 1 => P(w) >= P(r[k])
    <3>1. CASE k <= p
      <4>1. k \in 1..Len(q) /\ r[k] = q[k]
        BY <1>1, <2>8, <3>1
      <4> QED BY <1>1, <1>3, <3>1, <4>1
    <3>2. CASE k = p + 1 \/ k = p + 2
      BY <1>1, <1>2, <2>8, <2>9, <3>2
    <3>3. CASE k >= p + 3
      <4>1. k - 1 \in 1..Len(q) /\ k - 1 > p /\ r[k] = q[k - 1]
        BY <1>1, <2>8, <2>9, <3>3
      <4>2. P(w) >= P(q[k - 1])
        BY <1>3, <4>1
      <4> QED BY <1>1, <3>3, <4>1, <4>2
    <3> QED BY <1>1, <3>1, <3>2, <3>3
  <2>n. ASSUME NEW k \in 1..Len(r)
        PROVE  P(r[k]) \in Int
    <3>1. CASE k <= p
      <4>1. k \in 1..Len(q) /\ r[k] = q[k]
        BY <1>1, <2>8, <3>1
      <4> QED BY <1>2, <4>1
    <3>2. CASE k = p + 1 \/ k = p + 2
      BY <1>2, <2>8, <2>9, <3>2
    <3>3. CASE k >= p + 3
      <4>1. k - 1 \in 1..Len(q) /\ r[k] = q[k - 1]
        BY <1>1, <2>8, <2>9, <3>3
      <4> QED BY <1>2, <4>1
    <3> QED BY <1>1, <3>1, <3>2, <3>3
  <2>11. CASE i <= p + 2 /\ j >= p + 1
    BY <1>2, <2>10, <2>11, <2>n
  <2>12. CASE j <= p
    BY <1>0, <1>1, <2>8, <2>12
  <2>13. CASE i >= p + 3
    <3>1. i - 1 \in 1..Len(q) /\ j - 1 \in 1..Len(q) /\ r[i] = q[i - 1] /\ r[j] = q[j - 1]
      BY <1>1, <2>8, <2>9, <2>13
    <3> QED BY <1>0, <3>1
  <2> QED BY <1>1, <2>11, <2>12, <2>13
<1> QED BY <1>4, <1>5, <1>6
-----------------------------------------------------------------------------

\* What the steps at nodeLock do to the other variables, and where they take place.
LEMMA NodesStepFacts ==
  ASSUME NEW t \in Threads, NodesStep(t)
  PROVE  /\ UNCHANGED <<queue, workers, starts, live, submitted>>
         /\ UNCHANGED mail
         /\ UNCHANGED <<cur, reported, process>>
         /\ \E S \in SUBSET Peers : nodes' = nodes \cup S
         /\ pc[t] \in {"idle", "nodes", "send"}
         /\ \E p \in {"idle", "nodes", "send"} : pc' = [pc EXCEPT ![t] = p]
<1>1. ASSUME NEW S \in SUBSET Peers, AddNodes(t, S)
      PROVE  /\ UNCHANGED <<pool, mail, cur, reported, process>>
             /\ nodes' = nodes \cup S
             /\ pc[t] = "nodes" /\ pc' = [pc EXCEPT ![t] = "idle"]
  BY <1>1, Zenon DEF AddNodes, Goto
<1>2. ASSUME LockNodes(t) \/ SendSignMessaged(t) \/ GetNodeFromPeerId(t)
      PROVE  /\ UNCHANGED <<pool, mail, cur, reported, process>>
             /\ nodes' = nodes \cup {}
             /\ pc[t] \in {"idle", "nodes", "send"}
             /\ \E p \in {"idle", "nodes", "send"} : pc' = [pc EXCEPT ![t] = p]
  BY <1>2 DEF LockNodes, SendSignMessaged, GetNodeFromPeerId, Goto
<1>3. {} \in SUBSET Peers
  OBVIOUS
<1> QED BY <1>1, <1>2, <1>3, Zenon DEF NodesStep, pool

\* The end of the process or of the lock changes nothing else.
LEMMA HaltFacts ==
  ASSUME NEW t, NEW u, Halt(t, u)
  PROVE  /\ UNCHANGED <<pool, mail, nodes, pc, cur, reported>>
         /\ process' \in {"dead", "stuck"}
BY DEF Halt, MapRace, NodesRace, LockCycle

\* The variables keep their types, and threads that are about to start or finish a
\* work, or to hand a message over, hold one.
THEOREM TypeCorrect == Spec => []TypeOK
<1> USE WorkTypeAssumption, MsgsAssumption, NoneAssumption
    DEF TypeOK, Objects, Places
<1>1. Init => TypeOK
  BY DEF Init
<1>2. TypeOK /\ [Next]_vars => TypeOK'
  <2> SUFFICES ASSUME TypeOK, [Next]_vars
               PROVE  TypeOK'
    BY Zenon
  <2> USE DEF Goto, pool, mail
  <2>1. ASSUME NEW t \in Threads, NodesStep(t)
        PROVE  TypeOK'
    <3>1. PICK S \in SUBSET Peers, p \in {"idle", "nodes", "send"} :
                 nodes' = nodes \cup S /\ pc' = [pc EXCEPT ![t] = p]
      BY <2>1, NodesStepFacts, Zenon
    <3>2. UNCHANGED <<queue, workers, starts, live, submitted, held, to, net, cache, got>>
      BY <2>1, NodesStepFacts, Zenon DEF mail
    <3>3. UNCHANGED <<cur, reported, process>>
      BY <2>1, NodesStepFacts, Zenon
    <3> QED BY <3>1, <3>2, <3>3
  <2>2. ASSUME NEW t \in Threads, NEW w \in Works, AddRequest(t, w)
        PROVE  TypeOK'
    <3>1. AddWork(queue, w) \in Seq(Works)
      BY AddWorkType
    <3>2. queue' \in Seq(Works)
      BY <2>2, <3>1 DEF AddRequest
    <3>3. submitted' \in [Works -> Nat]
      BY <2>2 DEF AddRequest
    <3>4. \E p \in {"idle", "next"} : pc' = [pc EXCEPT ![t] = p]
      BY <2>2 DEF AddRequest
    <3> QED BY <2>2, <3>2, <3>3, <3>4, Zenon DEF AddRequest
  <2>3. ASSUME NEW t \in Threads, NEW m \in Msgs, OnNetworkMessage(t, m)
        PROVE  TypeOK'
    <3>1. /\ net' \subseteq Msgs
          /\ UNCHANGED <<pool, got, nodes, cur, reported, process>>
      BY <2>3 DEF OnNetworkMessage
    <3>2. CASE Goto(t, "idle", "idle") /\ UNCHANGED <<held, to>> /\ cache' \in SUBSET (cache \cup {m})
      <4>1. pc' = [pc EXCEPT ![t] = "idle"]
        BY <3>2
      <4> HIDE <2>3
      <4> QED BY <3>1, <3>2, <4>1, Zenon
    <3>3. CASE /\ Goto(t, "idle", "deliver") /\ held' = [held EXCEPT ![t] = m]
               /\ to' = [to EXCEPT ![t] = workers[WorkOf[m]]] /\ UNCHANGED cache
      <4>1. pc' = [pc EXCEPT ![t] = "deliver"]
        BY <3>3
      <4>2. to' \in [Threads -> Nat] /\ held' \in [Threads -> Msgs \cup {None}]
        BY <3>3
      <4>3. \A u \in Threads : pc'[u] = "deliver" => held'[u] \in Msgs
        BY <3>3, <4>1
      <4> HIDE <2>3
      <4> QED BY <3>1, <3>3, <4>1, <4>2, <4>3, Zenon
    <3> HIDE DEF TypeOK, Objects, Places
    <3> QED BY <2>3, <3>2, <3>3 DEF OnNetworkMessage, ProcessNewMessage, AddMessage
  <2>4. ASSUME NEW t \in Threads, StartNextWork(t)
        PROVE  TypeOK'
    <3>1. CASE Cardinality(Running) >= MaxWorker \/ queue = << >>
      BY <2>4, <3>1, Zenon DEF StartNextWork
    <3>2. CASE ~ (Cardinality(Running) >= MaxWorker \/ queue = << >>)
      <4>1. Head(queue) \in Works /\ Tail(queue) \in Seq(Works)
        BY <3>2, HeadTailProperties
      <4>2. /\ pc' = [pc EXCEPT ![t] = "start"]
            /\ cur' = [cur EXCEPT ![t] = Head(queue)]
            /\ queue' = Tail(queue)
            /\ UNCHANGED <<workers, starts, live, submitted, mail, nodes, reported, process>>
        BY <2>4, <3>2 DEF StartNextWork
      <4> HIDE <2>4, <3>2
      <4>3. /\ queue' \in Seq(Works)
            /\ pc' \in [Threads -> Places]
            /\ cur' \in [Threads -> Works \cup {None}]
        BY <4>1, <4>2
      <4>4. \A u \in Threads : pc'[u] \in {"start", "finish"} => cur'[u] \in Works
        BY <4>1, <4>2
      <4>5. \A u \in Threads : pc'[u] = "deliver" => held'[u] \in Msgs
        BY <4>2
      <4> QED BY <4>2, <4>3, <4>4, <4>5, Zenon
    <3> HIDE DEF TypeOK, Objects, Places
    <3> QED BY <3>1, <3>2
  <2>5. ASSUME NEW t \in Threads, StartWork(t)
        PROVE  TypeOK'
    <3>1. cur[t] \in Works /\ starts[cur[t]] + 1 \in Nat
      <4>1. cur[t] \in Works
        BY <2>5, Zenon DEF StartWork
      <4>2. starts[cur[t]] \in Nat
        BY <4>1, Zenon
      <4> QED BY <4>1, <4>2, Successor, Zenon
    <3> DEFINE o == <<cur[t], starts[cur[t]] + 1>>
    <3>2. o \in Objects
      BY <3>1
    <3>3. got' = got \cup ({o} \X GetAllMessages(cache, cur[t]))
      BY <2>5 DEF StartWork
    <3>4. got' \subseteq Objects \X Msgs
      BY <3>2, <3>3 DEF GetAllMessages
    <3> QED BY <2>5, <3>1, <3>2, <3>4 DEF StartWork, PopAllMessages
  <2>6. ASSUME NEW t \in Threads, DeliverMessage(t)
        PROVE  TypeOK'
    <3>1. held[t] \in Msgs /\ <<WorkOf[held[t]], to[t]>> \in Objects
      BY <2>6 DEF DeliverMessage
    <3>2. got' \subseteq Objects \X Msgs
      BY <2>6, <3>1 DEF DeliverMessage
    <3> QED BY <2>6, <3>2, Zenon DEF DeliverMessage
  <2>7. ASSUME NEW t \in Threads, FinishWorker(t)
        PROVE  TypeOK'
    BY <2>7 DEF FinishWorker
  <2>8. ASSUME NEW t \in Threads, LogRemaining(t)
        PROVE  TypeOK'
    BY <2>8 DEF LogRemaining
  <2>9. ASSUME NEW t \in Threads, NEW o \in live, NEW b \in BOOLEAN, Report(t, o, b)
        PROVE  TypeOK'
    BY <2>9, Zenon DEF Report
  <2>10. ASSUME NEW t \in Threads, NEW o \in live,
                OnWorkerResult(t, o) \/ OnNodeNotSelected(t, o) \/ OnWorkFailed(t, o)
         PROVE  TypeOK'
    <3> HIDE DEF TypeOK, Objects, Places, Goto, pool, mail
    <3>1. CASE OnWorkerResult(t, o)
      BY <2>9, <3>1, Zenon DEF OnWorkerResult
    <3>2. CASE OnNodeNotSelected(t, o)
      BY <2>9, <3>2, Zenon DEF OnNodeNotSelected
    <3>3. CASE OnWorkFailed(t, o)
      <4>1. CASE workers[o[1]] # 0
        BY <2>9, <3>3, <4>1, Zenon DEF OnWorkFailed
      <4>2. CASE workers[o[1]] = 0
        <5>1. /\ pc' = [pc EXCEPT ![t] = "idle"] /\ live' \subseteq live
              /\ UNCHANGED <<queue, workers, starts, submitted, held, to, net, cache, got>>
              /\ UNCHANGED <<nodes, cur, reported, process>>
          BY <3>3, <4>2 DEF OnWorkFailed, Goto, mail
        <5>2. pc \in [Threads -> Places] /\ live \subseteq Objects
          BY DEF TypeOK
        <5>3. pc' \in [Threads -> Places] /\ live' \subseteq Objects
          BY <5>1, <5>2 DEF Places
        <5>4. \A u \in Threads : pc'[u] = "idle" \/ pc'[u] = pc[u]
          BY <5>1, <5>2
        <5>5. \A u \in Threads : /\ pc'[u] \in {"start", "finish"} => cur[u] \in Works
                                 /\ pc'[u] = "deliver" => held[u] \in Msgs
          BY <5>4 DEF TypeOK
        <5> QED BY <5>1, <5>3, <5>5, Zenon DEF TypeOK
      <4> QED BY <4>1, <4>2
    <3> QED BY <2>10, <3>1, <3>2, <3>3
  <2>11. ASSUME NEW t \in Threads, NEW u \in Threads, Halt(t, u)
         PROVE  TypeOK'
    <3>1. UNCHANGED <<pool, mail, nodes, pc, cur, reported>> /\ process' \in {"dead", "stuck"}
      BY <2>11, HaltFacts, Zenon
    <3> QED BY <3>1
  <2>12. CASE UNCHANGED vars
    BY <2>12, Zenon DEF vars
  <2> HIDE DEF TypeOK, Objects, Places, Goto, pool, mail
  <2> QED BY <2>1, <2>2, <2>3, <2>4, <2>5, <2>6, <2>7, <2>8, <2>10, <2>11, <2>12
          DEF Next, WorkerReports
<1> QED BY <1>1, <1>2, PTL DEF Spec
-----------------------------------------------------------------------------

\* Only AddRequest and startNextWork change the queue.
LEMMA QueueStep ==
  ASSUME [Next]_vars
  PROVE  \/ UNCHANGED queue
         \/ \E t \in Threads, w \in Works : AddRequest(t, w)
         \/ \E t \in Threads : StartNextWork(t)
<1>1. CASE \E t \in Threads : NodesStep(t)
  BY <1>1, NodesStepFacts, Zenon
<1>2. CASE \E t \in Threads, m \in Msgs : OnNetworkMessage(t, m)
  BY <1>2 DEF OnNetworkMessage, pool
<1>3. CASE \E t \in Threads : StartWork(t)
  BY <1>3 DEF StartWork, pool
<1>4. CASE \E t \in Threads : DeliverMessage(t)
  BY <1>4 DEF DeliverMessage, pool
<1>5. CASE \E t \in Threads : FinishWorker(t)
  BY <1>5 DEF FinishWorker, pool
<1>6. CASE \E t \in Threads : LogRemaining(t)
  BY <1>6 DEF LogRemaining, pool
<1>7. CASE WorkerReports
  BY <1>7 DEF WorkerReports, OnWorkerResult, OnNodeNotSelected, OnWorkFailed, Report, pool
<1>8. CASE \E t, u \in Threads : Halt(t, u)
  BY <1>8, HaltFacts, Zenon DEF pool
<1>9. CASE UNCHANGED vars
  BY <1>9 DEF vars, pool
<1> QED BY <1>1, <1>2, <1>3, <1>4, <1>5, <1>6, <1>7, <1>8, <1>9 DEF Next

\* No step removes a node.
LEMMA NodesGrow ==
  ASSUME [Next]_vars
  PROVE  nodes \subseteq nodes'
<1>1. CASE \E t \in Threads : NodesStep(t)
  <2>1. PICK S \in SUBSET Peers : nodes' = nodes \cup S
    BY <1>1, NodesStepFacts, Zenon
  <2> QED BY <2>1
<1>2. CASE \E t \in Threads, w \in Works : AddRequest(t, w)
  BY <1>2 DEF AddRequest
<1>3. CASE \E t \in Threads, m \in Msgs : OnNetworkMessage(t, m)
  BY <1>3 DEF OnNetworkMessage
<1>4. CASE \E t \in Threads : StartNextWork(t)
  BY <1>4 DEF StartNextWork
<1>5. CASE \E t \in Threads : StartWork(t)
  BY <1>5 DEF StartWork
<1>6. CASE \E t \in Threads : DeliverMessage(t)
  BY <1>6 DEF DeliverMessage
<1>7. CASE \E t \in Threads : FinishWorker(t)
  BY <1>7 DEF FinishWorker
<1>8. CASE \E t \in Threads : LogRemaining(t)
  BY <1>8 DEF LogRemaining
<1>9. CASE WorkerReports
  BY <1>9 DEF WorkerReports, OnWorkerResult, OnNodeNotSelected, OnWorkFailed, Report
<1>10. CASE \E t, u \in Threads : Halt(t, u)
  <2>1. UNCHANGED nodes
    BY <1>10, HaltFacts, Zenon
  <2> QED BY <2>1
<1>11. CASE UNCHANGED vars
  BY <1>11 DEF vars
<1> QED BY <1>1, <1>2, <1>3, <1>4, <1>5, <1>6, <1>7, <1>8, <1>9, <1>10, <1>11 DEF Next

\* The queue is sorted by priority at all times, also after the insertions in
\* which AddWork loses a request.
THEOREM Sorted == Spec => []QueueSorted
<1>1. Init => QueueSorted
  BY DEF Init, QueueSorted
<1>2. TypeOK /\ QueueSorted /\ [Next]_vars => QueueSorted'
  <2> SUFFICES ASSUME TypeOK, QueueSorted, [Next]_vars
               PROVE  QueueSorted'
    OBVIOUS
  <2>0. queue \in Seq(Works)
    BY DEF TypeOK
  <2>1. CASE UNCHANGED queue
    BY <2>1 DEF QueueSorted
  <2>2. ASSUME NEW t \in Threads, NEW w \in Works, AddRequest(t, w)
        PROVE  QueueSorted'
    <3>1. queue' = queue \/ queue' = AddWork(queue, w)
      BY <2>2 DEF AddRequest
    <3>2. CASE queue' = AddWork(queue, w)
      BY <2>0, <3>2, AddWorkSorted DEF QueueSorted
    <3> QED BY <2>1, <3>1, <3>2
  <2>3. ASSUME NEW t \in Threads, StartNextWork(t)
        PROVE  QueueSorted'
    <3>1. queue' = queue \/ (queue # << >> /\ queue' = Tail(queue))
      BY <2>3 DEF StartNextWork
    <3>2. CASE queue # << >> /\ queue' = Tail(queue)
      <4>1. /\ Len(queue') = Len(queue) - 1
            /\ \A i \in 1..Len(queue') : queue'[i] = queue[i + 1]
        BY <2>0, <3>2, HeadTailProperties
      <4> QED BY <2>0, <4>1 DEF QueueSorted
    <3> QED BY <2>1, <3>1, <3>2
  <2> QED BY <2>1, <2>2, <2>3, QueueStep
<1> QED BY <1>1, <1>2, TypeCorrect, PTL DEF Spec

\* A sequence behind a new first element.
LEMMA Prepended ==
  ASSUME NEW q \in Seq(Works), NEW w \in Works
  PROVE  \A i \in 1..Len(q) : i + 1 \in 1..Len(<<w>> \o q) /\ (<<w>> \o q)[i + 1] = q[i]
<1>1. Len(<<w>> \o q) = Len(q) + 1 /\ Len(q) \in Nat
  OBVIOUS
<1>2. \A i \in 1..Len(q) : i + 1 \in 1..(Len(q) + 1)
  BY <1>1
<1>3. \A i \in 1..Len(q) : (<<w>> \o q)[i + 1] = q[i]
  OBVIOUS
<1> QED BY <1>1, <1>2, <1>3

\* What AddWork takes out of the queue.
LEMMA AddWorkLoses ==
  ASSUME NEW q \in Seq(Works), NEW w \in Works, NEW v \in Queued(q), v \notin Queued(AddWork(q, w))
  PROVE  /\ IsKeygen(w) /\ w \in Queued(AddWork(q, w))
         /\ ~IsKeygen(v)
         /\ Queued(q) \ Queued(AddWork(q, w)) = {v}
         /\ \E k \in Queued(q) : IsKeygen(k)
<1> DEFINE p == Position(q, w)
           r == AddWork(q, w)
<1>1. /\ p \in 0..Len(q)
      /\ \A i \in 1..Len(q) : GetPriority(w) <= GetPriority(q[i]) => i <= p
      /\ p # 0 => GetPriority(w) <= GetPriority(q[p])
  BY PositionType
<1>2. r = IF p = 0 THEN <<w>> \o q ELSE Insert(q, w, p)
  BY DEF AddWork
<1> HIDE DEF p, r
<1>3. p # 0
  <2> SUFFICES ASSUME p = 0 PROVE FALSE
    OBVIOUS
  <2>1. r = <<w>> \o q
    BY <1>2
  <2>2. \A i \in 1..Len(q) : i + 1 \in 1..Len(r) /\ r[i + 1] = q[i]
    BY <2>1, Prepended, Zenon
  <2> QED BY <2>2 DEF Queued, r
<1>4. p < Len(q)
  <2> SUFFICES ASSUME p = Len(q) PROVE FALSE
    BY <1>1
  <2>1. r = SubSeq(q, 1, Len(q)) \o <<w>> \o << >>
    BY <1>2, <1>3 DEF Insert
  <2>2. \A i \in 1..Len(q) : i \in 1..Len(r) /\ r[i] = q[i]
    BY <2>1
  <2> QED BY <2>2 DEF Queued, r
<1>5. /\ Len(r) = Len(q) + 1
      /\ \A i \in 1..p : r[i] = q[i]
      /\ r[p + 1] = w
      /\ \A i \in p + 3 .. Len(q) + 1 : r[i] = q[i - 1]
  <2>1. r = Insert(q, w, p) /\ p \in 1..Len(q) /\ p # Len(q)
    BY <1>1, <1>2, <1>3, <1>4
  <2> QED BY <2>1, Inserted
<1>6. \A i \in 1..Len(q) : i # p + 1 => q[i] \in Queued(r)
  <2> SUFFICES ASSUME NEW i \in 1..Len(q), i # p + 1 PROVE q[i] \in Queued(r)
    OBVIOUS
  <2>1. CASE i \in 1..p
    BY <1>1, <1>5, <2>1 DEF Queued
  <2>2. CASE i \in (p + 2)..Len(q)
    <3>1. i + 1 \in p + 3 .. Len(q) + 1 /\ i + 1 \in 1..Len(r) /\ (i + 1) - 1 = i
      BY <1>1, <1>5, <2>2
    <3>2. r[i + 1] = q[i]
      BY <1>5, <3>1
    <3> QED BY <3>1, <3>2 DEF Queued
  <2> QED BY <1>1, <2>1, <2>2
<1>7. v = q[p + 1] /\ p + 1 \in 1..Len(q) /\ Queued(q) \ Queued(r) = {v}
  <2>1. PICK i \in 1..Len(q) : v = q[i]
    BY DEF Queued
  <2>2. i = p + 1
    BY <1>6, <2>1 DEF r
  <2>3. \A x \in Queued(q) \ Queued(r) : x = q[p + 1]
    BY <1>6 DEF Queued
  <2> QED BY <2>1, <2>2, <2>3 DEF r
<1>8. ~(GetPriority(w) <= GetPriority(v)) /\ GetPriority(w) <= GetPriority(q[p])
  <2>1. ~(p + 1 <= p)
    BY <1>1
  <2> QED BY <1>1, <1>3, <1>7, <2>1
<1>9. IsKeygen(w) /\ ~IsKeygen(v) /\ IsKeygen(q[p])
  BY <1>8 DEF GetPriority
<1>10. w \in Queued(r) /\ q[p] \in Queued(q)
  <2>1. p + 1 \in 1..Len(r) /\ p \in 1..Len(q)
    BY <1>1, <1>3, <1>5
  <2> QED BY <1>5, <2>1 DEF Queued
<1> QED BY <1>7, <1>9, <1>10 DEF r

\* A request leaves the queue only from its front, but for a signing that a keygen
\* put behind another keygen overwrites.
THEOREM OnlySigningsLost == Spec => OnlySigningsDisplaced
<1> DEFINE Loss(w) == \/ queue' = Tail(queue)
                      \/ /\ ~IsKeygen(w)
                         /\ Queued(queue) \ Queued(queue') = {w}
                         /\ \E k \in Queued(queue), n \in Queued(queue') \ Queued(queue) :
                              IsKeygen(k) /\ IsKeygen(n)
           Losses == \A w \in Queued(queue) \ Queued(queue') : Loss(w)
<1>1. TypeOK /\ [Next]_vars => [Losses]_vars
  <2> SUFFICES ASSUME TypeOK, Next, NEW v \in Queued(queue) \ Queued(queue')
               PROVE  Loss(v)
    OBVIOUS
  <2>1. \/ UNCHANGED queue
        \/ \E t \in Threads, w \in Works : AddRequest(t, w)
        \/ \E t \in Threads : StartNextWork(t)
    BY QueueStep
  <2>2. ASSUME NEW w \in Works, w \notin Queued(queue), queue' = AddWork(queue, w)
        PROVE  Loss(v)
    <3>1. queue \in Seq(Works)
      BY DEF TypeOK
    <3>2. /\ IsKeygen(w) /\ w \in Queued(queue')
          /\ ~IsKeygen(v)
          /\ Queued(queue) \ Queued(queue') = {v}
          /\ \E k \in Queued(queue) : IsKeygen(k)
      BY <2>2, <3>1, AddWorkLoses
    <3> QED BY <2>2, <3>2
  <2>3. ASSUME NEW t \in Threads, NEW w \in Works, AddRequest(t, w)
        PROVE  Loss(v)
    <3>1. queue' = queue \/ (w \notin Queued(queue) /\ queue' = AddWork(queue, w))
      BY <2>3 DEF AddRequest
    <3> QED BY <2>2, <3>1
  <2>4. ASSUME NEW t \in Threads, StartNextWork(t)
        PROVE  Loss(v)
    <3>1. queue' = queue \/ queue' = Tail(queue)
      BY <2>4 DEF StartNextWork
    <3> QED BY <3>1
  <2> QED BY <2>1, <2>3, <2>4
<1> QED BY <1>1, TypeCorrect, PTL DEF Spec, OnlySigningsDisplaced

\* A queued request is never stranded, for any pool size and any interleaving of
\* requests, ends of work and startNextWork calls.
THEOREM NeverStranded == Spec => []NoStrandedRequest
<1> DEFINE Served == \/ \E w \in Works : workers[w] # 0
                     \/ \E t \in Threads : pc[t] \in {"next", "start", "log"}
<1>0. NoStrandedRequest <=> (queue # << >> => Served)
  BY DEF NoStrandedRequest, Running, At
<1>0p. NoStrandedRequest' <=> (queue' # << >> => Served')
  BY DEF NoStrandedRequest, Running, At
<1>1. Init => NoStrandedRequest
  BY DEF Init, NoStrandedRequest
<1>2. TypeOK /\ NoStrandedRequest /\ [Next]_vars => NoStrandedRequest'
  <2> SUFFICES ASSUME TypeOK, queue # << >> => Served, [Next]_vars, queue' # << >>
               PROVE  Served'
    BY <1>0, <1>0p
  <2> USE DEF TypeOK, Goto, pool, mail
  <2>1. ASSUME queue' = queue, workers' = workers,
               NEW t \in Threads, pc[t] \in {"idle", "deliver"},
               NEW p, pc' = [pc EXCEPT ![t] = p]
        PROVE  Served'
    BY <2>1
  <2>2. CASE UNCHANGED <<queue, workers, pc>>
    BY <2>2
  <2>3. ASSUME NEW t \in Threads, NEW w \in Works, AddRequest(t, w)
        PROVE  Served'
    <3>1. CASE UNCHANGED queue /\ Goto(t, "idle", "idle")
      BY <2>1, <2>3, <3>1 DEF AddRequest
    <3>2. CASE Goto(t, "idle", "next")
      BY <3>2
    <3> QED BY <2>3, <3>1, <3>2 DEF AddRequest
  <2>4. ASSUME NEW t \in Threads, NEW m \in Msgs, OnNetworkMessage(t, m)
        PROVE  Served'
    BY <2>1, <2>4 DEF OnNetworkMessage, ProcessNewMessage
  <2>5. ASSUME NEW t \in Threads, StartNextWork(t)
        PROVE  Served'
    <3>1. CASE Cardinality(Running) >= MaxWorker
      <4>1. ~ (Cardinality({}) >= MaxWorker)
        BY FS_EmptySet, MaxWorkerAssumption
      <4>2. Running # {}
        BY <3>1, <4>1, Zenon
      <4> QED BY <2>5, <4>2 DEF StartNextWork, Running
    <3>2. CASE queue = << >>
      BY <2>5, <3>2 DEF StartNextWork
    <3>3. CASE Goto(t, "next", "start")
      BY <3>3
    <3> QED BY <2>5, <3>1, <3>2, <3>3 DEF StartNextWork
  <2>6. ASSUME NEW t \in Threads, StartWork(t)
        PROVE  Served'
    <3>1. /\ cur[t] \in Works /\ starts[cur[t]] \in Nat /\ workers \in [Works -> Nat]
          /\ workers' = [workers EXCEPT ![cur[t]] = starts[cur[t]] + 1]
      BY <2>6, Zenon DEF StartWork
    <3> HIDE DEF TypeOK, Goto, pool, mail
    <3>2. workers'[cur[t]] = starts[cur[t]] + 1
      BY <3>1, Zenon
    <3>3. workers'[cur[t]] # 0
      BY <3>1, <3>2, Successor, Zenon
    <3> QED BY <3>1, <3>3, Zenon
  <2>7. ASSUME NEW t \in Threads, DeliverMessage(t)
        PROVE  Served'
    BY <2>1, <2>7 DEF DeliverMessage
  <2>8. ASSUME NEW t \in Threads, FinishWorker(t)
        PROVE  Served'
    BY <2>8 DEF FinishWorker
  <2>9. ASSUME NEW t \in Threads, LogRemaining(t)
        PROVE  Served'
    BY <2>9 DEF LogRemaining
  <2>10. ASSUME NEW t \in Threads, NEW o \in live,
                OnWorkerResult(t, o) \/ OnNodeNotSelected(t, o) \/ OnWorkFailed(t, o)
         PROVE  Served'
    BY <2>1, <2>10 DEF OnWorkerResult, OnNodeNotSelected, OnWorkFailed, Report
  <2>11. CASE \E t, u \in Threads : Halt(t, u)
    BY <2>2, <2>11, HaltFacts, Zenon DEF pool
  <2>13. ASSUME NEW t \in Threads, NodesStep(t)
         PROVE  Served'
    <3>1. UNCHANGED <<queue, workers>>
      BY <2>13, NodesStepFacts, Zenon
    <3>2. PICK p \in {"idle", "nodes", "send"} : pc' = [pc EXCEPT ![t] = p]
      BY <2>13, NodesStepFacts, Zenon
    <3>3. pc[t] \in {"idle", "nodes", "send"}
      BY <2>13, NodesStepFacts, Zenon
    <3> QED BY <3>1, <3>2, <3>3
  <2>12. CASE UNCHANGED vars
    BY <2>2, <2>12 DEF vars
  <2> QED BY <2>3, <2>4, <2>5, <2>6, <2>7, <2>8, <2>9, <2>10, <2>11, <2>12, <2>13
          DEF Next, WorkerReports
<1> QED BY <1>1, <1>2, TypeCorrect, PTL DEF Spec

\* The parties of every work that waits, starts or runs have nodes: AddRequest
\* refuses others, and nodes are never removed.
THEOREM PartiesStayKnown == Spec => []PartiesKnown
<1> DEFINE K == {w \in Works : Parties[w] \subseteq nodes}
           Known == /\ queue \in Seq(K)
                    /\ \A t \in At("start") : cur[t] \in K
                    /\ \A o \in live : o[1] \in K
<1>1. Init => Known
  <2> SUFFICES ASSUME Init PROVE Known
    OBVIOUS
  <2>1. queue = << >> /\ live = {} /\ \A t \in Threads : pc[t] = "idle"
    BY DEF Init
  <2>2. queue \in Seq(K)
    BY <2>1
  <2>3. At("start") = {}
    BY <2>1 DEF At
  <2> QED BY <2>1, <2>2, <2>3, Zenon
<1>2. TypeOK /\ Known /\ [Next]_vars => Known'
  <2> SUFFICES ASSUME TypeOK, Known, [Next]_vars
               PROVE  Known'
    OBVIOUS
  <2>1. K \subseteq Works /\ K \subseteq K'
    <3>1. nodes \subseteq nodes'
      BY NodesGrow
    <3> QED BY <3>1
  <2> HIDE DEF K
  <2>0. \A u \in Threads : pc[u] = "start" => cur[u] \in K
    BY DEF At
  <2>7. ASSUME queue' \in Seq(K),
               \A u \in Threads : pc'[u] = "start" => cur'[u] \in K,
               \A o \in live' : o[1] \in K
        PROVE  Known'
    <3>1. queue' \in Seq(K')
      BY <2>1, <2>7
    <3>2. \A u \in At("start")' : cur'[u] \in K'
      BY <2>1, <2>7 DEF At
    <3>3. \A o \in live' : o[1] \in K'
      BY <2>1, <2>7
    <3> QED BY <3>1, <3>2, <3>3
  <2>2. ASSUME NEW t \in Threads, NEW w \in Works, AddRequest(t, w)
        PROVE  Known'
    <3>1. w \in K
      BY <2>2 DEF AddRequest, K
    <3>2. queue' = queue \/ queue' = AddWork(queue, w)
      BY <2>2 DEF AddRequest
    <3>3. queue' \in Seq(K)
      BY <2>1, <3>1, <3>2, AddWorkIn
    <3>4. /\ UNCHANGED <<cur, live>>
          /\ \A u \in Threads : pc'[u] = "start" => pc[u] = "start"
      BY <2>2 DEF AddRequest, Goto, TypeOK
    <3> QED BY <2>0, <2>7, <3>3, <3>4
  <2>3. ASSUME NEW t \in Threads, StartNextWork(t)
        PROVE  Known'
    <3>1. CASE Goto(t, "next", "idle") /\ UNCHANGED <<queue, cur>>
      <4>1. /\ UNCHANGED live
            /\ \A u \in Threads : pc'[u] = "start" => pc[u] = "start"
        BY <2>3, <3>1 DEF StartNextWork, Goto, TypeOK
      <4> QED BY <2>0, <2>7, <3>1, <4>1
    <3>2. CASE /\ queue # << >>
               /\ Goto(t, "next", "start")
               /\ cur' = [cur EXCEPT ![t] = Head(queue)]
               /\ queue' = Tail(queue)
      <4>1. Head(queue) \in K /\ Tail(queue) \in Seq(K)
        BY <3>2, HeadTailProperties
      <4>2. /\ UNCHANGED live
            /\ cur'[t] = Head(queue)
            /\ \A u \in Threads : u # t /\ pc'[u] = "start" => pc[u] = "start" /\ cur'[u] = cur[u]
        BY <2>3, <3>2 DEF StartNextWork, Goto, TypeOK
      <4>3. \A u \in Threads : pc'[u] = "start" => cur'[u] \in K
        BY <2>0, <4>1, <4>2
      <4> QED BY <2>7, <3>2, <4>1, <4>2, <4>3
    <3> QED BY <2>3, <3>1, <3>2 DEF StartNextWork
  <2>4. ASSUME NEW t \in Threads, StartWork(t)
        PROVE  Known'
    <3>1. /\ pc[t] = "start"
          /\ live' = live \cup {<<cur[t], starts[cur[t]] + 1>>}
          /\ UNCHANGED queue
          /\ \A u \in Threads : pc'[u] = "start" => pc[u] = "start" /\ cur'[u] = cur[u]
      BY <2>4 DEF StartWork, Goto, TypeOK
    <3>2. cur[t] \in K
      BY <2>0, <3>1
    <3>3. \A o \in live' : o[1] \in K
      BY <3>1, <3>2
    <3> QED BY <2>0, <2>7, <3>1, <3>3
  <2>5. ASSUME NEW t \in Threads, NEW o \in live,
               OnWorkerResult(t, o) \/ OnNodeNotSelected(t, o) \/ OnWorkFailed(t, o)
        PROVE  Known'
    <3>1. /\ live' \subseteq live
          /\ UNCHANGED queue
          /\ \A u \in Threads : pc'[u] = "start" => pc[u] = "start" /\ cur'[u] = cur[u]
      BY <2>5 DEF OnWorkerResult, OnNodeNotSelected, OnWorkFailed, Report, Goto, TypeOK
    <3> QED BY <2>0, <2>7, <3>1
  <2>8. ASSUME UNCHANGED <<queue, live>>,
               \A u \in Threads : pc'[u] = "start" => pc[u] = "start" /\ cur'[u] = cur[u]
        PROVE  Known'
    BY <2>0, <2>7, <2>8
  <2> HIDE DEF Known
  <2>9. CASE \/ \E t \in Threads : NodesStep(t)
             \/ \E t, u \in Threads : Halt(t, u)
             \/ UNCHANGED vars
    <3>1. ASSUME NEW t \in Threads, NodesStep(t)
          PROVE  Known'
      <4>1. UNCHANGED <<queue, live, cur>>
        BY <3>1, NodesStepFacts, Zenon
      <4>2. PICK p \in {"idle", "nodes", "send"} : pc' = [pc EXCEPT ![t] = p]
        BY <3>1, NodesStepFacts, Zenon
      <4>3. \A u \in Threads : pc'[u] = "start" => pc[u] = "start"
        BY <4>2 DEF TypeOK
      <4> QED BY <2>8, <4>1, <4>3
    <3>2. CASE \E t, u \in Threads : Halt(t, u)
      BY <2>8, <3>2, HaltFacts, Zenon DEF pool
    <3>3. CASE UNCHANGED vars
      BY <2>8, <3>3 DEF vars, pool
    <3> QED BY <2>9, <3>1, <3>2, <3>3
  <2>10. ASSUME NEW t \in Threads, NEW m \in Msgs, OnNetworkMessage(t, m)
         PROVE  Known'
    <3>1. UNCHANGED <<queue, live, cur>>
      BY <2>10 DEF OnNetworkMessage, pool
    <3>2. \E p \in {"idle", "deliver"} : pc' = [pc EXCEPT ![t] = p]
      BY <2>10 DEF OnNetworkMessage, ProcessNewMessage, Goto
    <3>3. \A u \in Threads : pc'[u] = "start" => pc[u] = "start"
      BY <3>2 DEF TypeOK
    <3> QED BY <2>8, <3>1, <3>3
  <2>11. ASSUME NEW t \in Threads, DeliverMessage(t) \/ FinishWorker(t) \/ LogRemaining(t)
         PROVE  Known'
    <3>1. /\ UNCHANGED <<queue, live>>
          /\ cur' = cur \/ cur' = [cur EXCEPT ![t] = None]
          /\ \E p \in Places \ {"start"} : pc' = [pc EXCEPT ![t] = p]
      BY <2>11 DEF DeliverMessage, FinishWorker, LogRemaining, Goto, Places, pool, mail
    <3>2. \A u \in Threads : pc'[u] = "start" => u # t /\ pc[u] = "start"
      BY <3>1 DEF TypeOK
    <3>3. \A u \in Threads : u # t => cur'[u] = cur[u]
      BY <3>1 DEF TypeOK
    <3> QED BY <2>8, <3>1, <3>2, <3>3
  <2> QED BY <2>2, <2>3, <2>4, <2>5, <2>9, <2>10, <2>11 DEF Next, WorkerReports
<1>3. Known => PartiesKnown
  <2> SUFFICES ASSUME Known
               PROVE  PartiesKnown
    OBVIOUS
  <2>1. \A w \in K : Parties[w] \subseteq nodes
    OBVIOUS
  <2> HIDE DEF K
  <2>2. Queued(queue) \subseteq K
    BY DEF Queued
  <2>3. {cur[t] : t \in At("start")} \subseteq K /\ {o[1] : o \in live} \subseteq K
    OBVIOUS
  <2> HIDE DEF Known
  <2> QED BY <2>1, <2>2, <2>3 DEF PartiesKnown
<1> QED BY <1>1, <1>2, <1>3, TypeCorrect, PTL DEF Spec

-----------------------------------------------------------------------------
(* The worker objects: how many there are, the messages they are given, and *)
(* the outcomes they report.                                                *)

\* The pool and the workers about to be started never exceed MaxWorker by as many
\* as there are goroutines.
THEOREM OverrunIsBounded == Spec => []OverrunBounded
<1> DEFINE R == Running
           S == At("start")
<1>0. ASSUME TypeOK
      PROVE  /\ IsFiniteSet(R) /\ IsFiniteSet(S)
             /\ Cardinality(R) \in Nat /\ Cardinality(S) \in Nat
             /\ Cardinality(S) <= Cardinality(Threads) /\ Cardinality(Threads) \in Nat
  BY FiniteAssumption, FS_Subset, FS_CardinalityType DEF Running, At
<1>1. Init => OverrunBounded
  <2> SUFFICES ASSUME Init PROVE OverrunBounded
    OBVIOUS
  <2>1. R = {} /\ S = {}
    BY DEF Init, Running, At
  <2>2. Cardinality({}) = 0 /\ Cardinality(Threads) \in Nat
    BY FiniteAssumption, FS_EmptySet, FS_CardinalityType
  <2>3. Cardinality(Running) = 0 /\ Cardinality(At("start")) = 0
    BY <2>1, <2>2, Zenon
  <2> QED BY <2>2, <2>3, MaxWorkerAssumption DEF OverrunBounded
<1>2. TypeOK /\ TypeOK' /\ OverrunBounded /\ [Next]_vars => OverrunBounded'
  <2> SUFFICES ASSUME TypeOK, TypeOK', OverrunBounded, [Next]_vars
               PROVE  OverrunBounded'
    OBVIOUS
  <2>0. /\ IsFiniteSet(R) /\ IsFiniteSet(S)
        /\ Cardinality(R) \in Nat /\ Cardinality(S) \in Nat
        /\ Cardinality(Threads) \in Nat
    BY <1>0
  <2>0p. /\ IsFiniteSet(R') /\ IsFiniteSet(S')
         /\ Cardinality(R') \in Nat /\ Cardinality(S') \in Nat
         /\ Cardinality(S') <= Cardinality(Threads)
    BY FiniteAssumption, FS_Subset, FS_CardinalityType DEF Running, At
  \* The pool shrinks or stays, and no thread comes to start a work.
  <2>1. ASSUME R' \subseteq R, S' \subseteq S
        PROVE  OverrunBounded'
    <3>1. Cardinality(R') <= Cardinality(R) /\ Cardinality(S') <= Cardinality(S)
      BY <2>0, <2>1, FS_Subset
    <3> QED BY <2>0, <2>0p, <3>1, MaxWorkerAssumption DEF OverrunBounded
  <2>2. ASSUME NEW t \in Threads, StartNextWork(t)
        PROVE  OverrunBounded'
    <3>1. R' = R
      BY <2>2 DEF StartNextWork, Running
    <3>2. CASE Cardinality(Running) >= MaxWorker \/ queue = << >>
      <4>1. S' \subseteq S
        BY <2>2, <3>2 DEF StartNextWork, Goto, At, TypeOK
      <4> QED BY <2>1, <3>1, <4>1
    <3>3. CASE ~ (Cardinality(Running) >= MaxWorker)
      BY <2>0, <2>0p, <3>1, <3>3, MaxWorkerAssumption DEF OverrunBounded
    <3> QED BY <3>2, <3>3
  <2>3. ASSUME NEW t \in Threads, StartWork(t)
        PROVE  OverrunBounded'
    <3>1. R' = R \cup {cur[t]}
      <4>1. /\ cur[t] \in Works /\ starts[cur[t]] \in Nat
            /\ workers' = [workers EXCEPT ![cur[t]] = starts[cur[t]] + 1]
        BY <2>3 DEF StartWork, Goto, TypeOK
      <4>2. \A w \in Works : workers'[w] = IF w = cur[t] THEN starts[cur[t]] + 1 ELSE workers[w]
        BY <4>1 DEF TypeOK
      <4>3. starts[cur[t]] + 1 # 0
        BY <4>1, Successor, Zenon
      <4>4. \A w \in Works : workers'[w] # 0 <=> workers[w] # 0 \/ w = cur[t]
        BY <4>2, <4>3
      <4> QED BY <4>1, <4>4 DEF Running
    <3>2. S' = S \ {t} /\ t \in S
      BY <2>3 DEF StartWork, Goto, At, TypeOK
    <3>3. Cardinality(R') <= Cardinality(R) + 1
      <4>1. CASE cur[t] \in R
        <5>1. R' = R
          BY <3>1, <4>1
        <5> QED BY <2>0, <5>1
      <4>2. CASE cur[t] \notin R
        <5> HIDE DEF R
        <5>1. Cardinality(R \cup {cur[t]}) = Cardinality(R) + 1
          BY <2>0, <4>2, FS_AddElement, Zenon
        <5>2. Cardinality(R') = Cardinality(R) + 1
          BY <3>1, <5>1, Zenon
        <5> QED BY <2>0, <5>2, Successor, Zenon
      <4> QED BY <4>1, <4>2
    <3>4. Cardinality(S') = Cardinality(S) - 1
      BY <2>0, <3>2, FS_RemoveElement
    <3> QED BY <2>0, <2>0p, <3>3, <3>4, MaxWorkerAssumption DEF OverrunBounded
  <2>4. ASSUME NEW t \in Threads, FinishWorker(t)
        PROVE  OverrunBounded'
    <3>1. R' \subseteq R /\ S' \subseteq S
      BY <2>4 DEF FinishWorker, Goto, Running, At, TypeOK
    <3> QED BY <2>1, <3>1
  <2>5. ASSUME UNCHANGED workers,
               NEW t \in Threads, NEW p \in Places \ {"start"}, pc' = [pc EXCEPT ![t] = p]
        PROVE  OverrunBounded'
    <3>1. R' \subseteq R /\ S' \subseteq S
      BY <2>5 DEF Running, At, TypeOK
    <3> QED BY <2>1, <3>1
  <2>6. CASE UNCHANGED <<workers, pc>>
    BY <2>6 DEF OverrunBounded, Running, At
  <2>7. ASSUME NEW t \in Threads, NEW w \in Works, AddRequest(t, w)
        PROVE  OverrunBounded'
    BY <2>5, <2>7 DEF AddRequest, Goto, Places
  <2>8. ASSUME NEW t \in Threads, NEW m \in Msgs, OnNetworkMessage(t, m)
        PROVE  OverrunBounded'
    BY <2>5, <2>8 DEF OnNetworkMessage, ProcessNewMessage, Goto, Places, pool
  <2>9. ASSUME NEW t \in Threads, DeliverMessage(t) \/ LogRemaining(t)
        PROVE  OverrunBounded'
    BY <2>5, <2>9 DEF DeliverMessage, LogRemaining, Goto, Places, pool
  <2>10. ASSUME NEW t \in Threads, NEW o \in live,
                OnWorkerResult(t, o) \/ OnNodeNotSelected(t, o) \/ OnWorkFailed(t, o)
         PROVE  OverrunBounded'
    BY <2>5, <2>10 DEF OnWorkerResult, OnNodeNotSelected, OnWorkFailed, Report, Goto, Places
  <2>11. CASE \E t, u \in Threads : Halt(t, u)
    BY <2>6, <2>11, HaltFacts, Zenon DEF pool
  <2>13. ASSUME NEW t \in Threads, NodesStep(t)
         PROVE  OverrunBounded'
    <3>1. UNCHANGED workers
      BY <2>13, NodesStepFacts, Zenon
    <3>2. PICK p \in {"idle", "nodes", "send"} : pc' = [pc EXCEPT ![t] = p]
      BY <2>13, NodesStepFacts, Zenon
    <3>3. p \in Places \ {"start"}
      BY DEF Places
    <3> QED BY <2>5, <3>1, <3>2, <3>3, Zenon
  <2>12. CASE UNCHANGED vars
    BY <2>6, <2>12 DEF vars, pool
  <2> QED BY <2>2, <2>3, <2>4, <2>7, <2>8, <2>9, <2>10, <2>11, <2>12, <2>13
          DEF Next, WorkerReports
<1> QED BY <1>1, <1>2, TypeCorrect, PTL DEF Spec

\* No message stays in the prework cache once its work has a worker.
THEOREM NothingLeftBehind == Spec => []NoMessageLeftBehind
<1>1. Init => NoMessageLeftBehind
  BY DEF Init, NoMessageLeftBehind
<1>2. TypeOK /\ NoMessageLeftBehind /\ [Next]_vars => NoMessageLeftBehind'
  <2> SUFFICES ASSUME TypeOK, NoMessageLeftBehind, [Next]_vars
               PROVE  NoMessageLeftBehind'
    OBVIOUS
  <2> USE MsgsAssumption DEF NoMessageLeftBehind
  <2>1. CASE UNCHANGED <<workers, cache>>
    BY <2>1
  <2>2. ASSUME NEW t \in Threads, NEW m \in Msgs, OnNetworkMessage(t, m)
        PROVE  NoMessageLeftBehind'
    <3>1. UNCHANGED workers
      BY <2>2 DEF OnNetworkMessage, pool
    <3>2. CASE UNCHANGED cache
      BY <2>1, <3>1, <3>2
    <3>3. CASE workers[WorkOf[m]] = 0 /\ cache' \in AddMessage(cache, m)
      BY <3>1, <3>3 DEF AddMessage
    <3> QED BY <2>2, <3>2, <3>3 DEF OnNetworkMessage, ProcessNewMessage
  <2>3. ASSUME NEW t \in Threads, StartWork(t)
        PROVE  NoMessageLeftBehind'
    <3>1. workers' = [workers EXCEPT ![cur[t]] = starts[cur[t]] + 1]
      BY <2>3 DEF StartWork
    <3>2. \A m \in cache' : m \in cache /\ WorkOf[m] # cur[t] /\ WorkOf[m] \in Works
      BY <2>3 DEF StartWork, PopAllMessages, GetAllMessages, TypeOK
    <3> QED BY <3>1, <3>2 DEF TypeOK
  <2>4. ASSUME NEW t \in Threads, FinishWorker(t)
        PROVE  NoMessageLeftBehind'
    <3>1. workers' = [workers EXCEPT ![cur[t]] = 0] /\ UNCHANGED cache
      BY <2>4 DEF FinishWorker, mail
    <3>2. \A m \in cache : WorkOf[m] \in Works
      BY DEF TypeOK
    <3> QED BY <3>1, <3>2 DEF TypeOK
  <2>5. CASE \/ \E t \in Threads, w \in Works : AddRequest(t, w)
             \/ \E t \in Threads : StartNextWork(t) \/ DeliverMessage(t) \/ LogRemaining(t)
    BY <2>1, <2>5, Zenon DEF AddRequest, StartNextWork, DeliverMessage, LogRemaining, pool, mail
  <2>8. CASE (\E t \in Threads : NodesStep(t)) \/ (\E t, u \in Threads : Halt(t, u))
    <3>1. UNCHANGED <<workers, mail>>
      BY <2>8, NodesStepFacts, HaltFacts, Zenon DEF pool
    <3> QED BY <2>1, <3>1, Zenon DEF mail
  <2>6. CASE WorkerReports
    BY <2>1, <2>6, Zenon DEF WorkerReports, OnWorkerResult, OnNodeNotSelected, OnWorkFailed, Report, mail
  <2>7. CASE UNCHANGED vars
    BY <2>1, <2>7 DEF vars, pool, mail
  <2> QED BY <2>2, <2>3, <2>4, <2>5, <2>6, <2>7, <2>8, Zenon DEF Next
<1> QED BY <1>1, <1>2, TypeCorrect, PTL DEF Spec

\* Every message is in one place, so no two worker objects are given the same.
THEOREM OneConsumer == Spec => []SingleConsumer
<1> DEFINE Carried == {held[t] : t \in At("deliver")}
           Given   == {a[2] : a \in got}
<1>1. Init => MailInv
  BY DEF Init, MailInv, SingleConsumer, At
<1>2. TypeOK /\ MailInv /\ [Next]_vars => MailInv'
  <2> SUFFICES ASSUME TypeOK, MailInv, [Next]_vars
               PROVE  MailInv'
    OBVIOUS
  \* The conjuncts of the invariant, and what is to be shown of the next state.
  <2>0. /\ net \cap (cache \cup Carried \cup Given) = {}
        /\ cache \cap (Carried \cup Given) = {}
        /\ Carried \cap Given = {}
    BY Zenon DEF MailInv
  <2>0a. (\A u, v \in At("deliver") : held[u] = held[v] => u = v) /\ SingleConsumer
    BY Zenon DEF MailInv
  <2>0p. ASSUME /\ net' \cap (cache' \cup Carried' \cup Given') = {}
                /\ cache' \cap (Carried' \cup Given') = {}
                /\ Carried' \cap Given' = {},
                \A u, v \in At("deliver")' : held'[u] = held'[v] => u = v,
                SingleConsumer'
         PROVE  MailInv'
    BY <2>0p, Zenon DEF MailInv
  <2>0t. /\ pc \in [Threads -> Places] /\ held \in [Threads -> Msgs \cup {None}]
         /\ got \subseteq Objects \X Msgs
    BY DEF TypeOK
  <2> HIDE DEF Carried, Given
  <2>1. CASE UNCHANGED mail /\ At("deliver")' = At("deliver")
    <3>1. UNCHANGED <<held, net, cache, got>>
      BY <2>1 DEF mail
    <3>2. Carried' = Carried /\ Given' = Given
      BY <2>1, <3>1, Zenon DEF Carried, Given
    <3>3. SingleConsumer'
      BY <2>0a, <3>1, Zenon DEF SingleConsumer
    <3>4. \A u, v \in At("deliver")' : held'[u] = held'[v] => u = v
      BY <2>0a, <2>1, <3>1, Zenon
    <3>5. /\ net' \cap (cache' \cup Carried' \cup Given') = {}
          /\ cache' \cap (Carried' \cup Given') = {}
          /\ Carried' \cap Given' = {}
      BY <2>0, <3>1, <3>2
    <3> QED BY <2>0p, <3>3, <3>4, <3>5, Zenon
  <2>2. ASSUME UNCHANGED mail,
               NEW t \in Threads, pc[t] # "deliver",
               NEW p \in Places \ {"deliver"}, pc' = [pc EXCEPT ![t] = p]
        PROVE  MailInv'
    <3>1. At("deliver")' = At("deliver")
      BY <2>0t, <2>2 DEF At
    <3> QED BY <2>1, <2>2, <3>1, Zenon
  <2>3. ASSUME NEW t \in Threads, NEW m \in Msgs, OnNetworkMessage(t, m)
        PROVE  MailInv'
    <3>0. /\ m \in net /\ net' = net \ {m} /\ got' = got /\ pc[t] = "idle"
      BY <2>3 DEF OnNetworkMessage, ProcessNewMessage, Goto
    <3>a. Given' = Given /\ SingleConsumer'
      BY <2>0a, <3>0, Zenon DEF Given, SingleConsumer
    <3>1. CASE Goto(t, "idle", "idle") /\ UNCHANGED <<held, to>>
               /\ cache' \in SUBSET (cache \cup {m})
      <4>1. At("deliver")' = At("deliver") /\ held' = held
        BY <2>0t, <3>1 DEF At, Goto
      <4>2. Carried' = Carried
        BY <4>1, Zenon DEF Carried
      <4>3. \A u, v \in At("deliver")' : held'[u] = held'[v] => u = v
        BY <2>0a, <4>1, Zenon
      <4>4. /\ net' \cap (cache' \cup Carried' \cup Given') = {}
            /\ cache' \cap (Carried' \cup Given') = {}
            /\ Carried' \cap Given' = {}
        BY <2>0, <3>0, <3>a, <3>1, <4>2
      <4> QED BY <2>0p, <3>a, <4>3, <4>4, Zenon
    <3>2. CASE /\ Goto(t, "idle", "deliver") /\ held' = [held EXCEPT ![t] = m]
               /\ UNCHANGED cache
      <4>1. At("deliver")' = At("deliver") \cup {t} /\ t \notin At("deliver")
        BY <2>0t, <3>2 DEF At, Goto
      <4>2. held'[t] = m /\ \A u \in At("deliver") : held'[u] = held[u]
        BY <2>0t, <3>2, <4>1 DEF At
      <4>3. Carried' = Carried \cup {m}
        BY <4>1, <4>2 DEF Carried
      <4>4. \A u \in At("deliver") : held[u] # m
        <5>1. \A u \in At("deliver") : held[u] \in Carried
          BY Zenon DEF Carried
        <5> QED BY <2>0, <3>0, <5>1
      <4>5. \A u, v \in At("deliver")' : held'[u] = held'[v] => u = v
        BY <2>0a, <4>1, <4>2, <4>4
      <4>6. /\ net' \cap (cache' \cup Carried' \cup Given') = {}
            /\ cache' \cap (Carried' \cup Given') = {}
            /\ Carried' \cap Given' = {}
        BY <2>0, <3>0, <3>a, <3>2, <4>3
      <4> QED BY <2>0p, <3>a, <4>5, <4>6, Zenon
    <3> QED BY <2>3, <3>1, <3>2 DEF OnNetworkMessage, ProcessNewMessage, AddMessage
  <2>4. ASSUME NEW t \in Threads, StartWork(t)
        PROVE  MailInv'
    <3> DEFINE o == <<cur[t], starts[cur[t]] + 1>>
               M == GetAllMessages(cache, cur[t])
    <3>1. At("deliver")' = At("deliver") /\ held' = held /\ net' = net
      BY <2>0t, <2>4 DEF StartWork, Goto, At
    <3>2. got' = got \cup ({o} \X M) /\ cache' = cache \ M /\ M \subseteq cache
      BY <2>4 DEF StartWork, PopAllMessages, GetAllMessages
    <3> HIDE DEF o, M
    <3>3. \A a \in {o} \X M : a = <<o, a[2]>> /\ a[2] \in M
      OBVIOUS
    <3>4. Given' = Given \cup M
      <4>1. \A x \in M : <<o, x>> \in {o} \X M /\ <<o, x>>[2] = x
        OBVIOUS
      <4> QED BY <3>2, <3>3, <4>1, Zenon DEF Given
    <3>5. SingleConsumer'
      <4>1. \A a \in got : a[2] \notin M
        <5>1. \A a \in got : a[2] \in Given
          BY Zenon DEF Given
        <5> QED BY <2>0, <3>2, <5>1
      <4>2. \A a, b \in got : a[2] = b[2] => a = b
        BY <2>0a, Zenon DEF SingleConsumer
      <4>3. \A a, b \in {o} \X M : a[2] = b[2] => a = b
        BY <3>3, Zenon
      <4>4. \A a, b \in got' : a[2] = b[2] => a = b
        BY <3>2, <3>3, <4>1, <4>2, <4>3
      <4> QED BY <4>4, Zenon DEF SingleConsumer
    <3>6. Carried' = Carried
      BY <3>1, Zenon DEF Carried
    <3>7. \A u, v \in At("deliver")' : held'[u] = held'[v] => u = v
      BY <2>0a, <3>1, Zenon
    <3>8. /\ net' \cap (cache' \cup Carried' \cup Given') = {}
          /\ cache' \cap (Carried' \cup Given') = {}
          /\ Carried' \cap Given' = {}
      BY <2>0, <3>1, <3>2, <3>4, <3>6
    <3> QED BY <2>0p, <3>5, <3>7, <3>8, Zenon
  <2>5. ASSUME NEW t \in Threads, DeliverMessage(t)
        PROVE  MailInv'
    <3> DEFINE o == <<WorkOf[held[t]], to[t]>>
    <3>1. At("deliver")' = At("deliver") \ {t} /\ t \in At("deliver")
      BY <2>0t, <2>5 DEF DeliverMessage, Goto, At
    <3>2. /\ net' = net /\ cache' = cache /\ got' = got \cup {<<o, held[t]>>}
          /\ held' = [held EXCEPT ![t] = None]
      BY <2>5 DEF DeliverMessage
    <3> HIDE DEF o
    <3>3. \A u \in At("deliver") \ {t} : held'[u] = held[u] /\ held[u] # held[t]
      BY <2>0a, <2>0t, <3>1, <3>2 DEF At
    <3>4. Carried' = Carried \ {held[t]} /\ held[t] \in Carried
      BY <3>1, <3>3 DEF Carried
    <3>5. <<o, held[t]>>[2] = held[t]
      OBVIOUS
    <3>6. Given' = Given \cup {held[t]}
      <4>1. {a[2] : a \in got'} = {a[2] : a \in got} \cup {<<o, held[t]>>[2]}
        BY <3>2, Zenon
      <4> QED BY <3>5, <4>1, Zenon DEF Given
    <3>7. SingleConsumer'
      <4>1. \A a \in got : a[2] # held[t]
        <5>1. \A a \in got : a[2] \in Given
          BY Zenon DEF Given
        <5> QED BY <2>0, <3>4, <5>1
      <4>2. \A a, b \in got : a[2] = b[2] => a = b
        BY <2>0a, Zenon DEF SingleConsumer
      <4>3. \A a, b \in got' : a[2] = b[2] => a = b
        BY <3>2, <3>5, <4>1, <4>2
      <4> QED BY <4>3, Zenon DEF SingleConsumer
    <3>8. \A u, v \in At("deliver")' : held'[u] = held'[v] => u = v
      BY <2>0a, <3>1, <3>3
    <3>9. /\ net' \cap (cache' \cup Carried' \cup Given') = {}
          /\ cache' \cap (Carried' \cup Given') = {}
          /\ Carried' \cap Given' = {}
      BY <2>0, <3>2, <3>4, <3>6
    <3> QED BY <2>0p, <3>7, <3>8, <3>9, Zenon
  <2>6. ASSUME NEW t \in Threads, NEW w \in Works, AddRequest(t, w)
        PROVE  MailInv'
    BY <2>2, <2>6 DEF AddRequest, Goto, Places
  <2>7. ASSUME NEW t \in Threads, StartNextWork(t) \/ FinishWorker(t) \/ LogRemaining(t)
        PROVE  MailInv'
    BY <2>2, <2>7 DEF StartNextWork, FinishWorker, LogRemaining, Goto, Places
  <2>8. CASE WorkerReports
    BY <2>2, <2>8 DEF WorkerReports, OnWorkerResult, OnNodeNotSelected, OnWorkFailed, Report,
                      Goto, Places
  <2>9. CASE (\E t, u \in Threads : Halt(t, u)) \/ UNCHANGED vars
    <3>1. UNCHANGED <<mail, pc>>
      BY <2>9, HaltFacts, Zenon DEF vars
    <3>2. At("deliver")' = At("deliver")
      BY <3>1, Zenon DEF At
    <3> QED BY <2>1, <3>1, <3>2, Zenon
  <2>10. ASSUME NEW t \in Threads, NodesStep(t)
         PROVE  MailInv'
    <3>1. UNCHANGED mail
      BY <2>10, NodesStepFacts, Zenon
    <3>2. PICK p \in {"idle", "nodes", "send"} : pc' = [pc EXCEPT ![t] = p]
      BY <2>10, NodesStepFacts, Zenon
    <3>3. pc[t] \in {"idle", "nodes", "send"}
      BY <2>10, NodesStepFacts, Zenon
    <3>4. p \in Places \ {"deliver"} /\ pc[t] # "deliver"
      BY <3>3 DEF Places
    <3> QED BY <2>2, <3>1, <3>2, <3>4, Zenon
  <2> QED BY <2>3, <2>4, <2>5, <2>6, <2>7, <2>8, <2>9, <2>10 DEF Next
<1>3. MailInv => SingleConsumer
  BY DEF MailInv
<1> QED BY <1>1, <1>2, <1>3, TypeCorrect, PTL DEF Spec

\* What each step does to the pool, the reports and the threads that finish a work.
LEMMA OutcomeSteps ==
  ASSUME TypeOK, [Next]_vars
  PROVE  \/ /\ UNCHANGED <<workers, starts, live, reported>>
            /\ \A u \in At("finish")' : u \in At("finish") /\ cur'[u] = cur[u]
         \/ \E t \in Threads : StartWork(t)
         \/ \E t \in Threads : FinishWorker(t)
         \/ \E t \in Threads, o \in live :
              \/ \E told \in BOOLEAN : /\ Report(t, o, told)
                                       /\ WorkType[o[1]] = "EcSigning" => told
              \/ /\ workers[o[1]] = 0 /\ Goto(t, "idle", "idle") /\ live' = live \ {o}
                 /\ UNCHANGED <<workers, starts, reported, cur>>
<1> DEFINE Quiet == /\ UNCHANGED <<workers, starts, live, reported>>
                    /\ \A u \in At("finish")' : u \in At("finish") /\ cur'[u] = cur[u]
<1>1. ASSUME UNCHANGED <<workers, starts, live, reported>>,
             NEW t \in Threads, NEW p \in Places \ {"finish"}, pc' = [pc EXCEPT ![t] = p],
             \A u \in Threads : u # t => cur'[u] = cur[u]
      PROVE  Quiet
  BY <1>1 DEF At, TypeOK
<1>2. ASSUME NEW t \in Threads, NEW w \in Works, AddRequest(t, w)
      PROVE  Quiet
  BY <1>1, <1>2, Zenon DEF AddRequest, Goto, Places
<1>3. ASSUME NEW t \in Threads, NEW m \in Msgs, OnNetworkMessage(t, m)
      PROVE  Quiet
  BY <1>1, <1>3 DEF OnNetworkMessage, ProcessNewMessage, Goto, Places, pool
<1>4. ASSUME NEW t \in Threads, StartNextWork(t)
      PROVE  Quiet
  <2>1. \A u \in Threads : u # t => cur'[u] = cur[u]
    BY <1>4 DEF StartNextWork, TypeOK
  <2>2. \E p \in Places \ {"finish"} : pc' = [pc EXCEPT ![t] = p]
    BY <1>4 DEF StartNextWork, Goto, Places
  <2> QED BY <1>1, <1>4, <2>1, <2>2, Zenon DEF StartNextWork
<1>5. ASSUME NEW t \in Threads, DeliverMessage(t) \/ LogRemaining(t)
      PROVE  Quiet
  BY <1>1, <1>5, Zenon DEF DeliverMessage, LogRemaining, Goto, Places, pool
<1>6. CASE (\E t, u \in Threads : Halt(t, u)) \/ UNCHANGED vars
  <2>1. UNCHANGED <<pool, pc, cur, reported>>
    BY <1>6, HaltFacts, Zenon DEF vars
  <2> QED BY <2>1, Zenon DEF pool, At
<1>8. ASSUME NEW t \in Threads, NodesStep(t)
      PROVE  Quiet
  <2>1. UNCHANGED <<workers, starts, live, reported>> /\ \A u \in Threads : u # t => cur'[u] = cur[u]
    BY <1>8, NodesStepFacts, Zenon
  <2>2. PICK p \in {"idle", "nodes", "send"} : pc' = [pc EXCEPT ![t] = p]
    BY <1>8, NodesStepFacts, Zenon
  <2>3. p \in Places \ {"finish"}
    BY DEF Places
  <2> QED BY <1>1, <2>1, <2>2, <2>3, Zenon
<1>7. CASE WorkerReports
  <2>1. PICK t \in Threads, o \in live :
               OnWorkerResult(t, o) \/ OnNodeNotSelected(t, o) \/ OnWorkFailed(t, o)
    BY <1>7 DEF WorkerReports
  <2>2. CASE OnWorkerResult(t, o) \/ (workers[o[1]] # 0 /\ OnWorkFailed(t, o))
    <3>1. Report(t, o, TRUE)
      BY <2>2, Zenon DEF OnWorkerResult, OnWorkFailed
    <3> QED BY <3>1, Zenon
  <2>3. CASE OnNodeNotSelected(t, o)
    <3>1. Report(t, o, WorkType[o[1]] = "EcSigning")
      BY <2>3 DEF OnNodeNotSelected
    <3>2. (WorkType[o[1]] = "EcSigning") \in BOOLEAN
      OBVIOUS
    <3> QED BY <3>1, <3>2, Zenon
  <2>4. CASE workers[o[1]] = 0 /\ OnWorkFailed(t, o)
    BY <2>4, Zenon DEF OnWorkFailed
  <2> QED BY <2>1, <2>2, <2>3, <2>4, Zenon
<1> QED BY <1>2, <1>3, <1>4, <1>5, <1>6, <1>7, <1>8, Zenon DEF Next

\* Worker objects are numbered from 1 to starts, and only started works finish.
LEMMA Numbers == Spec => []NumbersInv
<1>1. Init => NumbersInv
  BY DEF Init, NumbersInv, At
<1>2. TypeOK /\ NumbersInv /\ [Next]_vars => NumbersInv'
  <2> SUFFICES ASSUME TypeOK, NumbersInv, [Next]_vars
               PROVE  NumbersInv'
    OBVIOUS
  <2>1. CASE /\ UNCHANGED <<workers, starts, live, reported>>
             /\ \A u \in At("finish")' : u \in At("finish") /\ cur'[u] = cur[u]
    BY <2>1 DEF NumbersInv
  <2>2. ASSUME NEW t \in Threads, StartWork(t)
        PROVE  NumbersInv'
    <3>1. cur[t] \in Works /\ starts[cur[t]] \in Nat
      BY <2>2 DEF StartWork, Goto, TypeOK
    <3>2. /\ starts' = [starts EXCEPT ![cur[t]] = @ + 1]
          /\ workers' = [workers EXCEPT ![cur[t]] = starts[cur[t]] + 1]
          /\ live' = live \cup {<<cur[t], starts[cur[t]] + 1>>}
      BY <2>2 DEF StartWork
    <3>3. \A u \in At("finish")' : u \in At("finish") /\ cur'[u] = cur[u] /\ cur[u] \in Works
      BY <2>2, Zenon DEF StartWork, Goto, At, TypeOK
    <3>0. /\ starts \in [Works -> Nat] /\ workers \in [Works -> Nat]
          /\ \A w \in Works : workers[w] <= starts[w]
      BY DEF TypeOK, NumbersInv
    <3>a. \A w \in Works : starts'[w] = IF w = cur[t] THEN starts[w] + 1 ELSE starts[w]
      BY <3>0, <3>1, <3>2
    <3>b. \A w \in Works : workers'[w] = IF w = cur[t] THEN starts[w] + 1 ELSE workers[w]
      BY <3>0, <3>1, <3>2
    <3>c. \A w \in Works : starts[w] \in Nat /\ workers[w] \in Nat
      BY <3>0
    <3>4. \A w \in Works : starts'[w] \in Nat /\ starts'[w] >= starts[w]
      BY <3>a, <3>c
    <3>5. \A w \in Works : workers'[w] <= starts'[w]
      <4> SUFFICES ASSUME NEW w \in Works PROVE workers'[w] <= starts'[w]
        OBVIOUS
      <4>1. CASE w = cur[t]
        <5>1. starts'[w] = starts[w] + 1 /\ workers'[w] = starts[w] + 1 /\ starts[w] \in Nat
          BY <3>a, <3>b, <3>c, <4>1, Zenon
        <5> QED BY <5>1, Successor, Zenon
      <4>2. CASE w # cur[t]
        <5>1. starts'[w] = starts[w] /\ workers'[w] = workers[w] /\ workers[w] <= starts[w]
          BY <3>0, <3>a, <3>b, <4>2, Zenon
        <5> QED BY <5>1, Zenon
      <4> QED BY <4>1, <4>2, Zenon
    <3>6. \A u \in At("finish")' : starts'[cur'[u]] > 0
      <4> SUFFICES ASSUME NEW u \in At("finish")'
                   PROVE  starts'[cur'[u]] > 0
        BY Zenon
      <4>1. cur'[u] = cur[u] /\ cur[u] \in Works /\ starts[cur[u]] > 0
        BY <3>3 DEF NumbersInv
      <4>2. starts[cur[u]] \in Nat
        BY <4>1 DEF TypeOK
      <4>3. starts'[cur[u]] \in Nat /\ starts'[cur[u]] >= starts[cur[u]]
        BY <3>4, <4>1
      <4>4. starts'[cur[u]] > 0
        BY <4>1, <4>2, <4>3
      <4> QED BY <4>1, <4>4, Zenon
    <3>7. ASSUME NEW o \in live'
          PROVE  o[2] \in 1..starts'[o[1]]
      <4>1. CASE o \in live
        <5>1. o[1] \in Works /\ o[2] \in 1..starts[o[1]]
          BY <4>1 DEF TypeOK, Objects, NumbersInv
        <5>2. starts[o[1]] \in Nat /\ starts'[o[1]] \in Nat /\ starts'[o[1]] >= starts[o[1]]
          BY <3>4, <5>1 DEF TypeOK
        <5> QED BY <5>1, <5>2
      <4>2. CASE o = <<cur[t], starts[cur[t]] + 1>>
        <5>1. o[1] = cur[t] /\ o[2] = starts[cur[t]] + 1
          BY <4>2
        <5>2. starts'[cur[t]] = starts[cur[t]] + 1
          BY <3>1, <3>a
        <5>3. o[2] = starts[cur[t]] + 1 /\ starts'[o[1]] = starts[cur[t]] + 1
          BY <5>1, <5>2, Zenon
        <5> QED BY <3>1, <5>3, Successor, Zenon
      <4> QED BY <3>2, <3>7, <4>1, <4>2
    <3> QED BY <3>5, <3>6, <3>7 DEF NumbersInv
  <2>3. ASSUME NEW t \in Threads, FinishWorker(t)
        PROVE  NumbersInv'
    <3>1. /\ UNCHANGED <<starts, live>>
          /\ workers' = [workers EXCEPT ![cur[t]] = 0]
      BY <2>3 DEF FinishWorker
    <3>2. \A u \in At("finish")' : u \in At("finish") /\ cur'[u] = cur[u]
      BY <2>3 DEF FinishWorker, Goto, At, TypeOK
    <3>3. \A w \in Works : workers'[w] <= starts'[w]
      <4>1. /\ workers \in [Works -> Nat] /\ \A w \in Works : workers[w] <= starts[w]
            /\ \A w \in Works : starts[w] \in Nat
        BY DEF NumbersInv, TypeOK
      <4>2. \A w \in Works : workers'[w] = 0 \/ workers'[w] = workers[w]
        BY <3>1, <4>1
      <4>3. \A k \in Nat : 0 <= k
        OBVIOUS
      <4> QED BY <3>1, <4>1, <4>2, <4>3, Zenon
    <3> QED BY <3>1, <3>2, <3>3 DEF NumbersInv
  <2>4. ASSUME NEW t \in Threads, NEW o \in live, NEW told \in BOOLEAN, Report(t, o, told)
        PROVE  NumbersInv'
    <3>1. /\ UNCHANGED <<starts, workers>> /\ live' = live \ {o}
          /\ cur' = [cur EXCEPT ![t] = o[1]] /\ pc' = [pc EXCEPT ![t] = "finish"]
      BY <2>4 DEF Report, Goto
    <3>2. o[1] \in Works /\ starts[o[1]] > 0
      <4>1. o \in Works \X Nat /\ o[2] \in 1..starts[o[1]] /\ starts \in [Works -> Nat]
        BY DEF TypeOK, Objects, NumbersInv
      <4>2. o[1] \in Works
        BY <4>1
      <4>3. starts[o[1]] \in Nat
        BY <4>1, <4>2
      <4> QED BY <4>1, <4>2, <4>3
    <3>3. \A u \in At("finish")' : u = t \/ (u \in At("finish") /\ cur'[u] = cur[u])
      BY <3>1 DEF At, TypeOK
    <3>4. cur'[t] = o[1]
      BY <3>1 DEF TypeOK
    <3> QED BY <3>1, <3>2, <3>3, <3>4 DEF NumbersInv
  <2>5. ASSUME NEW t \in Threads, NEW o \in live, Goto(t, "idle", "idle"), live' = live \ {o},
               UNCHANGED <<workers, starts, reported, cur>>
        PROVE  NumbersInv'
    <3>1. At("finish")' = At("finish")
      BY <2>5 DEF Goto, At, TypeOK
    <3> QED BY <2>5, <3>1 DEF NumbersInv
  <2> QED BY <2>1, <2>2, <2>3, <2>4, <2>5, OutcomeSteps, Zenon
<1> QED BY <1>1, <1>2, TypeCorrect, PTL DEF Spec

\* The callback is told an outcome of every ECDSA signing whose workers have ended.
THEOREM EcSigningsReported == Spec => []EcSigningReported
<1> DEFINE Ec(w) == WorkType[w] = "EcSigning"
           Open(w) == workers[w] # 0 /\ \E k \in 1..starts[w] : <<w, k>> \in live
<1>1. Init => ReportInv
  BY DEF Init, ReportInv, At
<1>2. TypeOK /\ NumbersInv /\ ReportInv /\ [Next]_vars => ReportInv'
  <2> SUFFICES ASSUME TypeOK, NumbersInv, ReportInv, [Next]_vars
               PROVE  ReportInv'
    OBVIOUS
  <2>1. CASE /\ UNCHANGED <<workers, starts, live, reported>>
             /\ \A u \in At("finish")' : u \in At("finish") /\ cur'[u] = cur[u]
    BY <2>1 DEF ReportInv
  <2>2. ASSUME NEW t \in Threads, StartWork(t)
        PROVE  ReportInv'
    <3>1. cur[t] \in Works /\ starts[cur[t]] \in Nat
      BY <2>2 DEF StartWork, Goto, TypeOK
    <3>2. /\ starts' = [starts EXCEPT ![cur[t]] = @ + 1]
          /\ workers' = [workers EXCEPT ![cur[t]] = starts[cur[t]] + 1]
          /\ live' = live \cup {<<cur[t], starts[cur[t]] + 1>>}
          /\ UNCHANGED reported
      BY <2>2 DEF StartWork
    <3>3. \A u \in At("finish")' : u \in At("finish") /\ cur'[u] = cur[u]
      BY <2>2, Zenon DEF StartWork, Goto, At, TypeOK
    <3>4. ASSUME NEW w \in Works, Ec(w), starts'[w] > 0, w \notin reported'
          PROVE  workers'[w] # 0 /\ \E k \in 1..starts'[w] : <<w, k>> \in live'
      <4>1. CASE w = cur[t]
        <5>1. /\ workers'[w] = starts[w] + 1 /\ starts'[w] = starts[w] + 1
              /\ <<w, starts[w] + 1>> \in live' /\ starts[w] \in Nat
          BY <3>1, <3>2, <4>1 DEF TypeOK
        <5> QED BY <5>1
      <4>2. CASE w # cur[t]
        <5>1. workers'[w] = workers[w] /\ starts'[w] = starts[w] /\ live \subseteq live'
          BY <3>2, <4>2 DEF TypeOK
        <5> QED BY <3>2, <3>4, <5>1, Zenon DEF ReportInv
      <4> QED BY <4>1, <4>2
    <3> QED BY <3>2, <3>3, <3>4 DEF ReportInv
  <2>3. ASSUME NEW t \in Threads, FinishWorker(t)
        PROVE  ReportInv'
    <3>1. /\ UNCHANGED <<starts, live, reported>>
          /\ workers' = [workers EXCEPT ![cur[t]] = 0]
          /\ t \in At("finish")
      BY <2>3 DEF FinishWorker, Goto, At
    <3>2. \A u \in At("finish")' : u \in At("finish") /\ cur'[u] = cur[u]
      BY <2>3 DEF FinishWorker, Goto, At, TypeOK
    <3>3. \A w \in Works : Ec(w) /\ w \notin reported => workers'[w] = workers[w]
      BY <3>1 DEF ReportInv, TypeOK
    <3> QED BY <3>1, <3>2, <3>3, Zenon DEF ReportInv
  <2>4. ASSUME NEW t \in Threads, NEW o \in live, NEW told \in BOOLEAN, Report(t, o, told),
               WorkType[o[1]] = "EcSigning" => told
        PROVE  ReportInv'
    <3>1. /\ UNCHANGED <<starts, workers>> /\ live' = live \ {o}
          /\ cur' = [cur EXCEPT ![t] = o[1]] /\ pc' = [pc EXCEPT ![t] = "finish"]
      BY <2>4, Zenon DEF Report, Goto
    <3>2. reported \subseteq reported' /\ (Ec(o[1]) => o[1] \in reported')
      BY <2>4 DEF Report
    <3>3. \A u \in At("finish")' : u = t \/ (u \in At("finish") /\ cur'[u] = cur[u])
      BY <3>1 DEF At, TypeOK
    <3>4. cur'[t] = o[1]
      BY <3>1 DEF TypeOK
    <3>5. \A w \in Works, k \in Nat : w # o[1] /\ <<w, k>> \in live => <<w, k>> \in live'
      BY <3>1
    <3>6. \A w \in Works : starts[w] \in Nat
      BY DEF TypeOK
    <3>7. ASSUME NEW w \in Works, Ec(w), starts'[w] > 0, w \notin reported'
          PROVE  workers'[w] # 0 /\ \E k \in 1..starts'[w] : <<w, k>> \in live'
      <4>1. w # o[1] /\ w \notin reported /\ starts[w] > 0
        BY <3>1, <3>2, <3>7
      <4>2. workers[w] # 0 /\ \E k \in 1..starts[w] : <<w, k>> \in live
        BY <3>7, <4>1 DEF ReportInv
      <4>3. PICK k \in 1..starts[w] : <<w, k>> \in live
        BY <4>2
      <4>4. k \in Nat
        BY <3>6
      <4>5. <<w, k>> \in live'
        BY <3>5, <4>1, <4>3, <4>4
      <4> QED BY <3>1, <4>2, <4>5
    <3> QED BY <3>2, <3>3, <3>4, <3>7 DEF ReportInv
  <2>5. ASSUME NEW t \in Threads, NEW o \in live, Goto(t, "idle", "idle"), live' = live \ {o},
               workers[o[1]] = 0, UNCHANGED <<workers, starts, reported, cur>>
        PROVE  ReportInv'
    <3>1. At("finish")' = At("finish")
      BY <2>5 DEF Goto, At, TypeOK
    <3>2. ASSUME NEW w \in Works, Ec(w), starts[w] > 0, w \notin reported
          PROVE  workers[w] # 0 /\ \E k \in 1..starts[w] : <<w, k>> \in live'
      <4>1. workers[w] # 0 /\ \E k \in 1..starts[w] : <<w, k>> \in live
        BY <3>2 DEF ReportInv
      <4>2. PICK k \in 1..starts[w] : <<w, k>> \in live
        BY <4>1, Zenon
      <4>3. <<w, k>>[1] = w
        OBVIOUS
      <4>4. <<w, k>> # o
        BY <2>5, <4>1, <4>3, Zenon
      <4>5. <<w, k>> \in live'
        BY <2>5, <4>2, <4>4
      <4> QED BY <4>1, <4>5, Zenon
    <3> QED BY <2>5, <3>1, <3>2, Zenon DEF ReportInv
  <2> QED BY <2>1, <2>2, <2>3, <2>4, <2>5, OutcomeSteps
<1>3. ReportInv => EcSigningReported
  BY Zenon DEF ReportInv, EcSigningReported
<1> QED BY <1>1, <1>2, <1>3, TypeCorrect, Numbers, PTL DEF Spec

\* A work started once keeps its worker in the map until that worker reports.
THEOREM StaysRegistered == Spec => []WorkerStaysRegistered
<1>1. Init => RegisteredInv
  BY DEF Init, RegisteredInv
<1>2. TypeOK /\ NumbersInv /\ RegisteredInv /\ [Next]_vars => RegisteredInv'
  <2> SUFFICES ASSUME TypeOK, NumbersInv, RegisteredInv, [Next]_vars,
                      NEW w \in Works, starts'[w] = 1, <<w, 1>> \in live'
               PROVE  workers'[w] = 1 /\ \A u \in At("finish")' : cur'[u] # w
    BY DEF RegisteredInv
  <2>1. CASE /\ UNCHANGED <<workers, starts, live, reported>>
             /\ \A u \in At("finish")' : u \in At("finish") /\ cur'[u] = cur[u]
    BY <2>1 DEF RegisteredInv
  <2>2. ASSUME NEW t \in Threads, StartWork(t)
        PROVE  workers'[w] = 1 /\ \A u \in At("finish")' : cur'[u] # w
    <3>1. cur[t] \in Works /\ starts[w] \in Nat
      BY <2>2, Zenon DEF StartWork, Goto, TypeOK
    <3>2. /\ starts' = [starts EXCEPT ![cur[t]] = @ + 1]
          /\ workers' = [workers EXCEPT ![cur[t]] = starts[cur[t]] + 1]
          /\ live' = live \cup {<<cur[t], starts[cur[t]] + 1>>}
      BY <2>2 DEF StartWork
    <3>3. \A u \in At("finish")' : u \in At("finish") /\ cur'[u] = cur[u]
      BY <2>2, Zenon DEF StartWork, Goto, At, TypeOK
    <3>4. CASE w = cur[t]
      <4>1. starts[w] = 0 /\ workers'[w] = 1
        <5>1. starts \in [Works -> Nat] /\ workers \in [Works -> Nat]
          BY DEF TypeOK
        <5>2. starts'[w] = starts[w] + 1 /\ workers'[w] = starts[w] + 1 /\ starts[w] \in Nat
          BY <3>1, <3>2, <3>4, <5>1
        <5>3. \A k \in Nat : k + 1 = 1 => k = 0
          OBVIOUS
        <5>4. starts[w] + 1 = 1
          BY <5>2, Zenon
        <5> QED BY <5>2, <5>3, <5>4, Zenon
      <4>2. ASSUME NEW u \in At("finish")'
            PROVE  cur'[u] # w
        <5>1. u \in At("finish") /\ cur'[u] = cur[u]
          BY <3>3
        <5>2. starts[cur[u]] > 0
          BY <5>1 DEF NumbersInv
        <5>3. ~ (0 > 0)
          OBVIOUS
        <5> QED BY <4>1, <5>1, <5>2, <5>3, Zenon
      <4> QED BY <4>1, <4>2
    <3>5. CASE w # cur[t]
      <4>1. starts[w] = 1 /\ workers'[w] = workers[w]
        BY <3>2, <3>5 DEF TypeOK
      <4>2. <<w, 1>> \in live
        BY <3>2, <3>5
      <4> QED BY <3>3, <4>1, <4>2 DEF RegisteredInv
    <3> QED BY <3>4, <3>5
  <2>3. ASSUME NEW t \in Threads, FinishWorker(t)
        PROVE  workers'[w] = 1 /\ \A u \in At("finish")' : cur'[u] # w
    <3>1. /\ UNCHANGED <<starts, live>> /\ t \in At("finish")
          /\ workers' = [workers EXCEPT ![cur[t]] = 0]
      BY <2>3 DEF FinishWorker, Goto, At
    <3>2. \A u \in At("finish")' : u \in At("finish") /\ cur'[u] = cur[u]
      BY <2>3 DEF FinishWorker, Goto, At, TypeOK
    <3>3. workers[w] = 1 /\ \A u \in At("finish") : cur[u] # w
      BY <3>1 DEF RegisteredInv
    <3> QED BY <3>1, <3>2, <3>3, Zenon DEF TypeOK
  <2>4. ASSUME NEW t \in Threads, NEW o \in live, NEW told \in BOOLEAN, Report(t, o, told)
        PROVE  workers'[w] = 1 /\ \A u \in At("finish")' : cur'[u] # w
    <3>1. /\ UNCHANGED <<starts, workers>> /\ live' = live \ {o}
          /\ cur' = [cur EXCEPT ![t] = o[1]] /\ pc' = [pc EXCEPT ![t] = "finish"]
      BY <2>4 DEF Report, Goto
    <3>2. \A u \in At("finish")' : u = t \/ (u \in At("finish") /\ cur'[u] = cur[u])
      BY <3>1 DEF At, TypeOK
    <3>3. cur'[t] = o[1]
      BY <3>1 DEF TypeOK
    <3>4. o = <<o[1], o[2]>> /\ o[2] \in 1..starts[o[1]]
      <4>1. o \in Works \X Nat
        BY DEF TypeOK, Objects
      <4> QED BY <4>1 DEF NumbersInv
    <3>5. o[1] # w
      <4> SUFFICES ASSUME o[1] = w PROVE FALSE
        OBVIOUS
      <4>1. o[2] = 1
        BY <3>1, <3>4
      <4>2. o = <<w, 1>>
        BY <3>4, <4>1
      <4> QED BY <3>1, <4>2
    <3>6. workers[w] = 1 /\ \A u \in At("finish") : cur[u] # w
      BY <3>1 DEF RegisteredInv
    <3> QED BY <3>1, <3>2, <3>3, <3>5, <3>6
  <2>5. ASSUME NEW t \in Threads, NEW o \in live, Goto(t, "idle", "idle"), live' = live \ {o},
               UNCHANGED <<workers, starts, reported, cur>>
        PROVE  workers'[w] = 1 /\ \A u \in At("finish")' : cur'[u] # w
    <3>1. At("finish")' = At("finish")
      BY <2>5 DEF Goto, At, TypeOK
    <3> QED BY <2>5, <3>1 DEF RegisteredInv
  <2> QED BY <2>1, <2>2, <2>3, <2>4, <2>5, OutcomeSteps, Zenon
<1>3. RegisteredInv => WorkerStaysRegistered
  BY DEF RegisteredInv, WorkerStaysRegistered
<1> QED BY <1>1, <1>2, <1>3, TypeCorrect, Numbers, PTL DEF Spec
=============================================================================
