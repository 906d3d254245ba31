--------------------------- MODULE RecoveryProofs ---------------------------
(***************************************************************************)
(* Proofs about the recovery of messages, for any number of nodes, lost    *)
(* messages and any size of the caches.                                    *)
(***************************************************************************)
EXTENDS Recovery, FiniteSetTheorems, SequenceTheorems, TLAPS

\* The messages of a party are finitely many.
LEMMA KeysFinite ==
  ASSUME NEW n \in Nodes
  PROVE  IsFiniteSet(KeysOf[n])
<1>1. IsFiniteSet(Types)
  <2>1. Types \in SUBSET Nat /\ \A i \in Types : i <= 8
    BY WorkAssumption DEF Types, AllTypes, Rounds
  <2>2. 8 \in Nat
    OBVIOUS
  <2> QED BY <2>1, <2>2, FS_BoundedSetOfNaturals, Zenon
<1>2. IsFiniteSet(Peers(n) \X Types)
  <2>1. Peers(n) \in SUBSET Nodes
    BY DEF Peers
  <2>2. IsFiniteSet(Peers(n))
    BY <2>1, NodesAssumption, FS_Subset, Zenon
  <2> QED BY <1>1, <2>2, FS_Product, Zenon
<1> DEFINE S == Peers(n) \X Types
           f == [x \in S |-> Key(n, x[1], x[2])]
<1>3. f \in Surjection(S, KeysOf[n])
  <2>1. f \in [S -> KeysOf[n]]
    BY DEF KeysOf
  <2>2. ASSUME NEW k \in KeysOf[n]
        PROVE  \E x \in S : f[x] = k
    <3>1. PICK p \in Peers(n), i \in Types : k = Key(n, p, i)
      BY DEF KeysOf
    <3>2. <<p, i>> \in S /\ f[<<p, i>>] = k
      BY <3>1
    <3> QED BY <3>2
  <2> HIDE DEF f, S
  <2> QED BY <2>1, <2>2 DEF Surjection
<1> HIDE DEF f
<1> QED BY <1>2, <1>3, FS_Surjection, Zenon

\* A message of a party is from it, and to one of its peers or broadcast.
LEMMA KeyFacts ==
  ASSUME NEW n \in Nodes, NEW k \in KeysOf[n]
  PROVE  k.from = n /\ (IsBroadcast(k) \/ k.to \in Peers(n)) /\ k.type \in Types
BY DEF KeysOf, Key, IsBroadcast

-----------------------------------------------------------------------------
(* Types *)

\* The messages that can be on their way are finitely many.
LEMMA PacketsFinite == IsFiniteSet(Packets)
<1>1. IsFiniteSet(Keys)
  <2> DEFINE R == {KeysOf[n] : n \in Nodes}
  <2>1. KeysOf \in Surjection(Nodes, R)
    <3>1. KeysOf = [n \in Nodes |-> KeysOf[n]]
      BY DEF KeysOf
    <3> QED BY <3>1 DEF Surjection
  <2>2. \A T \in R : IsFiniteSet(T)
    BY KeysFinite
  <2>3. Keys = UNION R
    BY DEF Keys
  <2> HIDE DEF R
  <2>4. IsFiniteSet(R)
    BY <2>1, NodesAssumption, FS_Surjection, Zenon
  <2> QED BY <2>2, <2>3, <2>4, FS_UNION, Zenon
<1> DEFINE T == (Keys \X Nodes) \X Nodes
           f == [p \in Packets |-> <<<<p.key, p.src>>, p.dest>>]
<1>2. IsFiniteSet(T)
  BY <1>1, NodesAssumption, FS_Product, Zenon
<1>3. f \in Injection(Packets, T)
  <2>1. f \in [Packets -> T]
    BY DEF Packets
  <2>2. ASSUME NEW a \in Packets, NEW b \in Packets, f[a] = f[b]
        PROVE  a = b
    <3>1. a.key = b.key /\ a.src = b.src /\ a.dest = b.dest
      BY <2>2
    <3>2. a \in [key : Keys, src : Nodes, dest : Nodes] /\ b \in [key : Keys, src : Nodes, dest : Nodes]
      BY DEF Packets
    <3> QED BY <3>1, <3>2
  <2> HIDE DEF f, T
  <2> QED BY <2>1, <2>2 DEF Injection, IsInjective
<1> HIDE DEF f, T
<1> QED BY <1>2, <1>3, FS_Injection, Zenon

\* What a party sends goes to its peers.
LEMMA SentPackets ==
  ASSUME NEW n \in Nodes, NEW k \in KeysOf[n]
  PROVE  SendSignMessaged(n, k) \subseteq Packets
<1>1. k.from = n /\ (IsBroadcast(k) \/ k.to \in Peers(n)) /\ k \in Keys
  BY KeyFacts DEF Keys
<1>2. ASSUME NEW p \in Peers(n), IsBroadcast(k) \/ p = k.to
      PROVE  Update(k, n, p) \in Packets
  BY <1>1, <1>2 DEF Update, Packets, Peers
<1> QED BY <1>1, <1>2 DEF SendSignMessaged

\* The answers to a monitor come from its peers.
LEMMA AnswerPackets ==
  ASSUME TypeOK, NEW n \in Nodes, NEW p \in OnMissingMesssageDetected(n)
  PROVE  p \in Packets /\ p.dest = n
<1>1. PICK m \in FindMissingMessages(n) :
        LET k == Key(m[1], n, m[2])
        IN  \E d \in IF IsBroadcast(k) THEN Peers(n) ELSE {m[1]} : p \in OnAskMessage(d, k, n)
  BY DEF OnMissingMesssageDetected
<1> DEFINE k == Key(m[1], n, m[2])
<1>2. m[1] \in Peers(n)
  BY DEF FindMissingMessages, Gaps
<1>3. k.from = m[1] /\ (IsBroadcast(k) \/ k.to = n)
  BY DEF Key, IsBroadcast
<1>4. PICK d \in IF IsBroadcast(k) THEN Peers(n) ELSE {m[1]} : p \in OnAskMessage(d, k, n)
  BY <1>1
<1> HIDE DEF k
<1>5. p = Update(k, d, n) /\ d \in Peers(n) /\ (IsBroadcast(k) \/ d = m[1]) /\ WorkCacheHas(d, k)
  BY <1>2, <1>4 DEF OnAskMessage
<1>6. k \in Keys
  <2>1. m[1] \in Nodes /\ d \in Nodes
    BY <1>2, <1>5 DEF Peers
  <2>2. cache[d][m[1]].queue \in Seq(Keys) /\ cache[d][m[1]].m \subseteq Slots(cache[d][m[1]])
    BY <2>1 DEF TypeOK
  <2>3. k \in Slots(cache[d][m[1]])
    BY <1>3, <1>5, <2>2 DEF WorkCacheHas, QueueHas
  <2> QED BY <2>2, <2>3 DEF Slots
<1> QED BY <1>2, <1>3, <1>5, <1>6 DEF Update, Packets, Peers

\* Whatever the map of a ring has is in a slot, also when the oldest item went.
LEMMA AddKeepsSlots ==
  ASSUME NEW S, NEW q, q.queue \in Seq(S), q.m \subseteq Slots(q), NEW size \in Nat \ {0}, NEW k \in S
  PROVE  /\ QueueAdd(q, size, k).queue \in Seq(S)
         /\ QueueAdd(q, size, k).m \subseteq Slots(QueueAdd(q, size, k))
<1> DEFINE b == IF Full(q, size) THEN Tail(q.queue) ELSE q.queue
           r == QueueAdd(q, size, k)
<1>1. r.queue = Append(b, k)
  BY DEF QueueAdd
<1>2. r.m = (IF Full(q, size) THEN q.m \ {Head(q.queue)} ELSE q.m) \cup {k}
  BY DEF QueueAdd
<1>3. Full(q, size) => q.queue # << >>
  BY DEF Full
<1>4. b \in Seq(S)
  BY <1>3, HeadTailProperties
<1>5. /\ Append(b, k) \in Seq(S) /\ Len(Append(b, k)) = Len(b) + 1 /\ Len(b) \in Nat
      /\ \A i \in 1..Len(b) : Append(b, k)[i] = b[i]
      /\ Append(b, k)[Len(b) + 1] = k
      /\ DOMAIN Append(b, k) = 1..(Len(b) + 1)
  <2> HIDE DEF b
  <2> QED BY <1>4, AppendProperties, LenProperties
<1>6. ASSUME NEW x \in q.m, ~Full(q, size) \/ x # Head(q.queue)
      PROVE  \E i \in 1..Len(b) : b[i] = x
  <2>1. PICK i \in DOMAIN q.queue : q.queue[i] = x
    BY DEF Slots
  <2>2. DOMAIN q.queue = 1..Len(q.queue) /\ Len(q.queue) \in Nat
    BY LenProperties
  <2>3. CASE ~Full(q, size)
    BY <2>1, <2>2, <2>3
  <2>4. CASE Full(q, size)
    <3>1. /\ Len(Tail(q.queue)) = Len(q.queue) - 1
          /\ \A j \in 1..Len(Tail(q.queue)) : Tail(q.queue)[j] = q.queue[j + 1]
          /\ Head(q.queue) = q.queue[1]
      BY <1>3, <2>4, HeadTailProperties
    <3>2. i # 1
      BY <1>6, <2>1, <2>4, <3>1
    <3>3. i - 1 \in 1..Len(Tail(q.queue)) /\ (i - 1) + 1 = i
      BY <2>1, <2>2, <3>1, <3>2
    <3>4. Tail(q.queue)[i - 1] = x
      BY <2>1, <3>1, <3>3
    <3> QED BY <2>4, <3>3, <3>4
  <2> QED BY <2>3, <2>4
<1> HIDE DEF b, r
<1>7. ASSUME NEW x \in r.m
      PROVE  \E i \in DOMAIN r.queue : r.queue[i] = x
  <2>1. CASE x = k
    BY <1>1, <1>5, <2>1
  <2>2. CASE x # k
    <3>1. x \in q.m /\ (~Full(q, size) \/ x # Head(q.queue))
      BY <1>2, <1>7, <2>2
    <3>2. PICK i \in 1..Len(b) : b[i] = x
      BY <1>6, <3>1
    <3> QED BY <1>1, <1>5, <3>2
  <2> QED BY <2>1, <2>2
<1>8. r.m \subseteq Slots(r)
  BY <1>7 DEF Slots
<1> QED BY <1>1, <1>5, <1>8 DEF r

\* WorkMessageCache.Add keeps the shape of the caches.
LEMMA CacheType ==
  ASSUME TypeOK, NEW d \in Nodes, NEW k \in Keys, k.from \in Nodes, cache' = WorkCacheAdd(d, k)
  PROVE  /\ cache' = [n \in Nodes |-> [p \in Nodes |-> cache'[n][p]]]
         /\ \A n, p \in Nodes : /\ cache'[n][p].queue \in Seq(Keys)
                                /\ cache'[n][p].m \subseteq Slots(cache'[n][p])
<1> DEFINE q    == cache[d][k.from]
           size == IF k.from = d THEN SizePerNode * 5 ELSE SizePerNode
<1>1. cache = [n \in Nodes |-> [p \in Nodes |-> cache[n][p]]]
  BY DEF TypeOK
<1>2. /\ cache' = [n \in Nodes |-> [p \in Nodes |-> cache'[n][p]]]
      /\ cache'[d][k.from] = QueueAdd(q, size, k)
      /\ \A n, p \in Nodes : n # d \/ p # k.from => cache'[n][p] = cache[n][p]
  BY <1>1 DEF WorkCacheAdd
<1>3. size \in Nat \ {0}
  BY SizeAssumption
<1>4. q.queue \in Seq(Keys) /\ q.m \subseteq Slots(q)
  BY DEF TypeOK
<1> HIDE DEF q, size
<1>5. /\ QueueAdd(q, size, k).queue \in Seq(Keys)
      /\ QueueAdd(q, size, k).m \subseteq Slots(QueueAdd(q, size, k))
  BY <1>3, <1>4, AddKeepsSlots
<1>6. ASSUME NEW n \in Nodes, NEW p \in Nodes
      PROVE  cache'[n][p].queue \in Seq(Keys) /\ cache'[n][p].m \subseteq Slots(cache'[n][p])
  <2>1. CASE n = d /\ p = k.from
    BY <1>2, <1>5, <2>1
  <2>2. CASE n # d \/ p # k.from
    <3>1. cache'[n][p] = cache[n][p]
      BY <1>2, <2>2
    <3> QED BY <3>1 DEF TypeOK
  <2> QED BY <2>1, <2>2
<1> QED BY <1>2, <1>6

\* The types of the variables: a packet is never to its sender nor to the node its
\* message is from, a node takes only messages of its peers, and the map of a ring
\* has nothing that is in none of its slots.
THEOREM RecoveryTypeCorrect == Spec => []TypeOK
<1>1. Init => TypeOK
  <2> SUFFICES ASSUME Init PROVE TypeOK
    OBVIOUS
  <2>1. \A n, p \in Nodes : cache[n][p] = NewCircularQueue
    BY DEF Init
  <2>2. NewCircularQueue.queue = << >> /\ NewCircularQueue.m = {} /\ << >> \in Seq(Keys)
    BY DEF NewCircularQueue
  <2>3. cache = [n \in Nodes |-> [p \in Nodes |-> cache[n][p]]]
    BY DEF Init
  <2>4. 0 \in 0..MaxLost
    BY LostAssumption
  <2>5. \A n, p \in Nodes : cache[n][p].queue \in Seq(Keys) /\ cache[n][p].m \subseteq Slots(cache[n][p])
    BY <2>1, <2>2
  <2> QED BY <2>3, <2>4, <2>5 DEF Init, TypeOK
<1>2. TypeOK /\ [Next]_vars => TypeOK'
  <2> SUFFICES ASSUME TypeOK, [Next]_vars
               PROVE  TypeOK'
    OBVIOUS
  <2>1. ASSUME NEW n \in Nodes, NEW k \in KeysOf[n], OnJobMessage(n, k)
        PROVE  TypeOK'
    <3>1. k.from = n /\ k \in Keys
      BY KeyFacts DEF Keys
    <3>2. /\ cache' = WorkCacheAdd(n, k) /\ net' = net \cup SendSignMessaged(n, k)
          /\ sent' = [sent EXCEPT ![n] = @ \cup {k}]
          /\ UNCHANGED <<received, recent, stopped, lost>>
      BY <2>1 DEF OnJobMessage, SendMessage
    <3>3. /\ cache' = [x \in Nodes |-> [p \in Nodes |-> cache'[x][p]]]
          /\ \A x, p \in Nodes : /\ cache'[x][p].queue \in Seq(Keys)
                                 /\ cache'[x][p].m \subseteq Slots(cache'[x][p])
      BY <3>1, <3>2, CacheType
    <3>4. net' \subseteq Packets
      BY <3>2, SentPackets DEF TypeOK
    <3>5. sent' \in [Nodes -> SUBSET Keys] /\ \A x \in Nodes : sent'[x] \subseteq KeysOf[x]
      BY <3>1, <3>2 DEF TypeOK
    <3> QED BY <3>2, <3>3, <3>4, <3>5 DEF TypeOK
  <2>2. ASSUME NEW n \in Nodes, Finish(n)
        PROVE  TypeOK'
    <3>1. stopped' \in [Nodes -> {"no", "yes"}] /\ UNCHANGED <<sent, received, recent, cache, net, lost>>
      BY <2>2 DEF Finish, TypeOK
    <3> QED BY <3>1 DEF TypeOK
  <2>3. ASSUME NEW n \in Nodes, WakeUp(n)
        PROVE  TypeOK'
    <3>1. recent' \in [Nodes -> {"no", "yes"}] /\ UNCHANGED <<sent, received, stopped, cache>>
      BY <2>3 DEF WakeUp, TypeOK
    <3>2. net' \subseteq Packets /\ lost' \in 0..MaxLost
      <4>1. CASE UNCHANGED <<net, lost>>
        BY <4>1 DEF TypeOK
      <4>2. CASE ~ UNCHANGED <<net, lost>>
        <5>1. PICK unheard \in SUBSET OnMissingMesssageDetected(n) :
                /\ lost + Cardinality(unheard) <= MaxLost
                /\ lost' = lost + Cardinality(unheard)
                /\ net' = net \cup (OnMissingMesssageDetected(n) \ unheard)
          BY <2>3, <4>2 DEF WakeUp
        <5>2. unheard \in SUBSET Packets
          BY AnswerPackets
        <5>3. Cardinality(unheard) \in Nat
          BY <5>2, PacketsFinite, FS_Subset, FS_CardinalityType, Zenon
        <5>4. lost \in 0..MaxLost /\ net \subseteq Packets
          BY DEF TypeOK
        <5> QED BY <5>1, <5>3, <5>4, AnswerPackets, LostAssumption
      <4> QED BY <4>1, <4>2
    <3> QED BY <3>1, <3>2 DEF TypeOK
  <2>4. ASSUME NEW p \in net, OnNetworkMessage(p)
        PROVE  TypeOK'
    <3>1. /\ p \in Packets /\ p.key \in Keys /\ p.dest \in Nodes /\ p.dest # p.key.from
      BY DEF TypeOK, Packets
    <3>2. p.key.from \in Nodes /\ p.key.type \in Types
      <4>1. PICK n \in Nodes : p.key \in KeysOf[n]
        BY <3>1 DEF Keys
      <4> QED BY <4>1, KeyFacts
    <3>3. UNCHANGED <<sent, stopped, lost>> /\ net' \subseteq net
      BY <2>4 DEF OnNetworkMessage
    <3>4. /\ cache' = [x \in Nodes |-> [y \in Nodes |-> cache'[x][y]]]
          /\ \A x, y \in Nodes : /\ cache'[x][y].queue \in Seq(Keys)
                                 /\ cache'[x][y].m \subseteq Slots(cache'[x][y])
      <4>1. CASE cache' = cache
        BY <4>1 DEF TypeOK
      <4>2. CASE cache' = WorkCacheAdd(p.dest, p.key)
        BY <3>1, <3>2, <4>2, CacheType
      <4> QED BY <2>4, <4>1, <4>2 DEF OnNetworkMessage
    <3>5. \/ UNCHANGED <<received, recent>>
          \/ /\ received' = [received EXCEPT ![p.dest] = @ \cup {<<p.key.from, p.key.type>>}]
             /\ recent' = [recent EXCEPT ![p.dest] = "yes"]
      BY <2>4 DEF OnNetworkMessage, NewMessageReceived
    <3>6. <<p.key.from, p.key.type>> \in Wanted[p.dest] /\ <<p.key.from, p.key.type>> \in Nodes \X Types
      BY <3>1, <3>2 DEF Wanted, Peers
    <3>7. /\ received' \in [Nodes -> SUBSET (Nodes \X Types)]
          /\ \A n \in Nodes : received'[n] \subseteq Wanted[n]
          /\ recent' \in [Nodes -> {"no", "yes"}]
      <4>1. /\ received \in [Nodes -> SUBSET (Nodes \X Types)] /\ recent \in [Nodes -> {"no", "yes"}]
            /\ \A n \in Nodes : received[n] \subseteq Wanted[n]
        BY DEF TypeOK
      <4> QED BY <3>1, <3>5, <3>6, <4>1
    <3> QED BY <3>3, <3>4, <3>7 DEF TypeOK
  <2>5. ASSUME NEW p \in net, Lose(p)
        PROVE  TypeOK'
    <3>1. UNCHANGED <<sent, received, recent, stopped, cache>> /\ net' \subseteq net
      BY <2>5 DEF Lose
    <3>2. lost' \in 0..MaxLost
      BY <2>5, LostAssumption DEF Lose, TypeOK
    <3> QED BY <3>1, <3>2 DEF TypeOK
  <2>6. CASE UNCHANGED vars
    BY <2>6 DEF vars, TypeOK
  <2> QED BY <2>1, <2>2, <2>3, <2>4, <2>5, <2>6 DEF Next
<1> QED BY <1>1, <1>2, PTL DEF Spec

-----------------------------------------------------------------------------
(* Own messages stay in their cache *)

\* A queue with room keeps what it has.
LEMMA AddWithRoom ==
  ASSUME NEW S, NEW q, q.queue \in Seq(S), NEW size \in Nat, Len(q.queue) < size, NEW k \in S
  PROVE  /\ QueueAdd(q, size, k).queue \in Seq(S)
         /\ Len(QueueAdd(q, size, k).queue) = Len(q.queue) + 1
         /\ QueueAdd(q, size, k).m = q.m \cup {k}
<1>1. ~Full(q, size)
  BY DEF Full
<1> QED BY <1>1 DEF QueueAdd

\* Adding a message of a peer leaves the cache for our own messages alone; a
\* message of our own party goes into that one.
LEMMA CacheAdds ==
  ASSUME cache = [n \in Nodes |-> [p \in Nodes |-> cache[n][p]]],
         NEW d \in Nodes, NEW k, k.from \in Nodes
  PROVE  /\ \A n \in Nodes : n # d \/ k.from # d => WorkCacheAdd(d, k)[n][n] = cache[n][n]
         /\ k.from = d => WorkCacheAdd(d, k)[d][d] = QueueAdd(cache[d][d], SizePerNode * 5, k)
         /\ WorkCacheAdd(d, k) = [n \in Nodes |-> [p \in Nodes |-> WorkCacheAdd(d, k)[n][p]]]
BY DEF WorkCacheAdd

\* The answers to a monitor are about messages of the peers.
LEMMA AnswersArePeers ==
  ASSUME TypeOK, NEW n \in Nodes, NEW p \in OnMissingMesssageDetected(n)
  PROVE  p.dest = n /\ p.key.from \in Peers(n) /\ p.key.type \in Types
<1>1. p \in Packets /\ p.dest = n
  BY AnswerPackets
<1>2. p.key \in Keys /\ p.key.from # n
  BY <1>1 DEF Packets
<1>3. PICK q \in Nodes : p.key \in KeysOf[q]
  BY <1>2 DEF Keys
<1>4. p.key.from = q /\ p.key.type \in Types
  BY <1>3, KeyFacts
<1> QED BY <1>1, <1>2, <1>4 DEF Peers

\* Own messages stay in their cache if it has room for all of them.
LEMMA OwnCacheStep ==
  ASSUME OwnRoom, TypeOK, OwnCacheInv, [Next]_vars
  PROVE  OwnCacheInv'
<1>1. ASSUME NEW n \in Nodes, NEW k \in KeysOf[n], OnJobMessage(n, k)
      PROVE  OwnCacheInv'
  <2>1. k.from = n /\ (IsBroadcast(k) \/ k.to \in Peers(n)) /\ k.type \in Types
    BY KeyFacts
  <2>2. cache' = WorkCacheAdd(n, k) /\ sent' = [sent EXCEPT ![n] = @ \cup {k}] /\ k \notin sent[n]
    BY <1>1 DEF OnJobMessage, SendMessage
  <2>3. IsFiniteSet(sent[n]) /\ sent[n] \cup {k} \subseteq KeysOf[n]
    <3>1. sent[n] \in SUBSET KeysOf[n]
      BY DEF OwnCacheInv
    <3> QED BY <3>1, KeysFinite, FS_Subset, Zenon
  <2>4. Cardinality(sent[n] \cup {k}) = Cardinality(sent[n]) + 1
    BY <2>2, <2>3, FS_AddElement, Zenon
  <2>5. /\ Cardinality(sent[n] \cup {k}) <= SizePerNode * 5
        /\ Cardinality(sent[n]) \in Nat
    <3>1. Cardinality(sent[n] \cup {k}) <= Cardinality(KeysOf[n])
      BY <2>3, KeysFinite, FS_Subset, Zenon
    <3>2. Cardinality(KeysOf[n]) \in Nat /\ Cardinality(sent[n]) \in Nat
      BY <2>3, KeysFinite, FS_CardinalityType, Zenon
    <3>3. Cardinality(KeysOf[n]) <= SizePerNode * 5
      BY DEF OwnRoom
    <3> QED BY <2>4, <3>1, <3>2, <3>3, SizeAssumption
  <2>6. cache'[n][n] = QueueAdd(cache[n][n], SizePerNode * 5, k)
    BY <2>1, <2>2, CacheAdds DEF OwnCacheInv
  <2>7. /\ cache'[n][n].queue \in Seq(KeysOf[n])
        /\ Len(cache'[n][n].queue) = Cardinality(sent[n]) + 1
        /\ cache'[n][n].m = cache[n][n].m \cup {k}
    <3>1. /\ cache[n][n].queue \in Seq(KeysOf[n])
          /\ Len(cache[n][n].queue) = Cardinality(sent[n])
      BY DEF OwnCacheInv
    <3>2. SizePerNode * 5 \in Nat /\ Len(cache[n][n].queue) < SizePerNode * 5
      BY <2>4, <2>5, <3>1, SizeAssumption
    <3> DEFINE q == cache[n][n]
    <3>3. /\ QueueAdd(q, SizePerNode * 5, k).queue \in Seq(KeysOf[n])
          /\ Len(QueueAdd(q, SizePerNode * 5, k).queue) = Len(q.queue) + 1
          /\ QueueAdd(q, SizePerNode * 5, k).m = q.m \cup {k}
      <4> HIDE DEF q
      <4> DEFINE size == SizePerNode * 5
                 S    == KeysOf[n]
      <4>1. q.queue \in Seq(S) /\ size \in Nat /\ Len(q.queue) < size
        BY <3>1, <3>2 DEF q
      <4>2. k \in S
        OBVIOUS
      <4> HIDE DEF size, S
      <4>3. /\ QueueAdd(q, size, k).queue \in Seq(S)
            /\ Len(QueueAdd(q, size, k).queue) = Len(q.queue) + 1
            /\ QueueAdd(q, size, k).m = q.m \cup {k}
        BY <4>1, <4>2, AddWithRoom
      <4> QED BY <4>3 DEF size, S
    <3>4. /\ cache'[n][n] = QueueAdd(q, SizePerNode * 5, k)
          /\ Len(q.queue) = Cardinality(sent[n]) /\ q.m = cache[n][n].m
      BY <2>6, <3>1
    <3> HIDE DEF q
    <3> QED BY <3>3, <3>4
  <2>8. /\ cache' = [x \in Nodes |-> [p \in Nodes |-> cache'[x][p]]]
        /\ \A x \in Nodes \ {n} : cache'[x][x] = cache[x][x]
    BY <2>1, <2>2, CacheAdds DEF OwnCacheInv
  <2>9. \A p \in net' : p.dest \in Nodes /\ p.key.from \in Peers(p.dest) /\ p.key.type \in Types
    <3>1. \A p \in SendSignMessaged(n, k) : p.key = k /\ p.dest \in Peers(n)
      BY <2>1 DEF SendSignMessaged, Update
    <3>2. net' = net \cup SendSignMessaged(n, k)
      BY <1>1 DEF OnJobMessage, SendMessage
    <3> QED BY <2>1, <3>1, <3>2 DEF OwnCacheInv, Peers
  <2>10. /\ DOMAIN sent' = Nodes
         /\ sent'[n] = sent[n] \cup {k}
         /\ \A x \in Nodes \ {n} : sent'[x] = sent[x]
    BY <2>2 DEF OwnCacheInv
  <2> QED BY <2>3, <2>4, <2>7, <2>8, <2>9, <2>10 DEF OwnCacheInv
<1>2. ASSUME NEW p \in net, OnNetworkMessage(p)
      PROVE  OwnCacheInv'
  <2>1. p.dest \in Nodes /\ p.key.from \in Peers(p.dest)
    BY DEF OwnCacheInv
  <2>2. UNCHANGED sent /\ net' \subseteq net /\ cache' \in {cache, WorkCacheAdd(p.dest, p.key)}
    BY <1>2 DEF OnNetworkMessage
  <2>3. /\ cache' = [x \in Nodes |-> [q \in Nodes |-> cache'[x][q]]]
        /\ \A x \in Nodes : cache'[x][x] = cache[x][x]
    BY <2>1, <2>2, CacheAdds DEF OwnCacheInv, Peers
  <2> QED BY <2>2, <2>3 DEF OwnCacheInv
<1>3. ASSUME NEW n \in Nodes, WakeUp(n)
      PROVE  OwnCacheInv'
  <2>1. UNCHANGED <<sent, cache>> /\ net' \subseteq net \cup OnMissingMesssageDetected(n)
    BY <1>3 DEF WakeUp
  <2> QED BY <2>1, AnswersArePeers DEF OwnCacheInv
<1>4. ASSUME UNCHANGED <<sent, cache>>, net' \subseteq net
      PROVE  OwnCacheInv'
  BY <1>4 DEF OwnCacheInv
<1>5. ASSUME NEW n \in Nodes, Finish(n)
      PROVE  OwnCacheInv'
  BY <1>4, <1>5 DEF Finish
<1>6. ASSUME NEW p \in net, Lose(p)
      PROVE  OwnCacheInv'
  BY <1>4, <1>6 DEF Lose
<1>7. CASE UNCHANGED vars
  BY <1>4, <1>7 DEF vars
<1> QED BY <1>1, <1>2, <1>3, <1>5, <1>6, <1>7 DEF Next

\* Own messages are in their cache.
LEMMA OwnCache ==
  ASSUME OwnRoom
  PROVE  Spec => []OwnCacheInv
<1>1. Init => OwnCacheInv
  <2> SUFFICES ASSUME Init PROVE OwnCacheInv
    OBVIOUS
  <2>1. Cardinality({}) = 0
    BY FS_EmptySet
  <2>2. \A n, p \in Nodes : cache[n][p].queue = << >> /\ sent[n] = {}
    BY DEF Init, NewCircularQueue
  <2>3. \A n \in Nodes : << >> \in Seq(KeysOf[n]) /\ Len(<< >>) = 0
    OBVIOUS
  <2>4. cache = [n \in Nodes |-> [p \in Nodes |-> cache[n][p]]] /\ DOMAIN sent = Nodes /\ net = {}
    BY DEF Init
  <2> QED BY <2>1, <2>2, <2>3, <2>4 DEF OwnCacheInv
<1>2. TypeOK /\ OwnCacheInv /\ [Next]_vars => OwnCacheInv'
  BY OwnCacheStep
<1> QED BY <1>1, <1>2, RecoveryTypeCorrect, PTL DEF Spec

\* An engine can answer for every message of its own party for the whole execution,
\* whatever broadcasts it caches meanwhile, if those messages are at most five
\* times SizePerNode.
THEOREM OwnMessagesStay ==
  ASSUME OwnRoom
  PROVE  Spec => []OwnMessagesAnswerable
<1>1. OwnCacheInv => OwnMessagesAnswerable
  BY KeyFacts DEF OwnCacheInv, OwnMessagesAnswerable, WorkCacheHas, QueueHas
<1> QED BY <1>1, OwnCache, PTL

-----------------------------------------------------------------------------
(* Stuck nodes ask for something that can be answered *)

\* Types are numbers, without gaps unless there are presigns, and later types are
\* of no earlier rounds.
LEMMA TypeFacts ==
  /\ Types \subseteq Nat \ {0}
  /\ \A i \in Types : i <= 8 /\ Rounds[i] \in Nat /\ Rounds[i] <= 8
  /\ ~Presigned => \A i \in Types : \A j \in 1..i : j \in Types /\ Rounds[j] <= Rounds[i]
<1>1. CASE WorkType = "EcKeygen"
  BY <1>1, TypesAssumption DEF Types, AllTypes, Rounds
<1>2. CASE WorkType = "EdKeygen"
  BY <1>2, TypesAssumption DEF Types, AllTypes, Rounds
<1>3. CASE WorkType = "EcSigning"
  BY <1>3, TypesAssumption DEF Types, AllTypes, Rounds
<1>4. CASE WorkType = "EdSigning"
  BY <1>4, TypesAssumption DEF Types, AllTypes, Rounds
<1> QED BY <1>1, <1>2, <1>3, <1>4, WorkAssumption

\* A set of types, or of rounds, has a greatest and a least member.
LEMMA SmallExtrema ==
  ASSUME NEW S \in SUBSET (0..8), S # {}
  PROVE  /\ \E p \in S : \A i \in S : i <= p
         /\ \E p \in S : \A i \in S : p <= i
<1>1. \A i \in S : i \in {0, 1, 2, 3, 4, 5, 6, 7, 8}
  OBVIOUS
<1>2. \E p \in S : \A i \in S : i <= p
  <2>1. CASE 8 \in S
    BY <1>1, <2>1
  <2>2. CASE 7 \in S /\ S \cap {8} = {}
    BY <1>1, <2>2
  <2>3. CASE 6 \in S /\ S \cap {8, 7} = {}
    BY <1>1, <2>3
  <2>4. CASE 5 \in S /\ S \cap {8, 7, 6} = {}
    BY <1>1, <2>4
  <2>5. CASE 4 \in S /\ S \cap {8, 7, 6, 5} = {}
    BY <1>1, <2>5
  <2>6. CASE 3 \in S /\ S \cap {8, 7, 6, 5, 4} = {}
    BY <1>1, <2>6
  <2>7. CASE 2 \in S /\ S \cap {8, 7, 6, 5, 4, 3} = {}
    BY <1>1, <2>7
  <2>8. CASE 1 \in S /\ S \cap {8, 7, 6, 5, 4, 3, 2} = {}
    BY <1>1, <2>8
  <2>9. CASE 0 \in S /\ S \cap {8, 7, 6, 5, 4, 3, 2, 1} = {}
    BY <1>1, <2>9
  <2> QED BY <1>1, <2>1, <2>2, <2>3, <2>4, <2>5, <2>6, <2>7, <2>8, <2>9
<1>3. \E p \in S : \A i \in S : p <= i
  <2>1. CASE 0 \in S
    BY <1>1, <2>1
  <2>2. CASE 1 \in S /\ S \cap {0} = {}
    BY <1>1, <2>2
  <2>3. CASE 2 \in S /\ S \cap {0, 1} = {}
    BY <1>1, <2>3
  <2>4. CASE 3 \in S /\ S \cap {0, 1, 2} = {}
    BY <1>1, <2>4
  <2>5. CASE 4 \in S /\ S \cap {0, 1, 2, 3} = {}
    BY <1>1, <2>5
  <2>6. CASE 5 \in S /\ S \cap {0, 1, 2, 3, 4} = {}
    BY <1>1, <2>6
  <2>7. CASE 6 \in S /\ S \cap {0, 1, 2, 3, 4, 5} = {}
    BY <1>1, <2>7
  <2>8. CASE 7 \in S /\ S \cap {0, 1, 2, 3, 4, 5, 6} = {}
    BY <1>1, <2>8
  <2>9. CASE 8 \in S /\ S \cap {0, 1, 2, 3, 4, 5, 6, 7} = {}
    BY <1>1, <2>9
  <2> QED BY <1>1, <2>1, <2>2, <2>3, <2>4, <2>5, <2>6, <2>7, <2>8, <2>9
<1> QED BY <1>2, <1>3

\* MaxIndex is the largest type received, or 0.
LEMMA MaxIndexFacts ==
  ASSUME NEW n \in Nodes, received[n] \subseteq Wanted[n], Types \subseteq GetMessagesByWorkType
  PROVE  MaxIndex(n) \in Nat /\ \A m \in received[n] : m[2] <= MaxIndex(n)
<1> DEFINE known == {m[2] : m \in {x \in received[n] : x[2] \in GetMessagesByWorkType}}
<1>1. \A m \in received[n] : m[2] \in Types
  BY DEF Wanted
<1>2. known \cup {0} \in SUBSET (0..8) /\ known \cup {0} # {}
  <2>1. \A i \in Types : i \in 0..8
    BY TypeFacts
  <2>2. known \subseteq Types
    BY <1>1
  <2> HIDE DEF known
  <2> QED BY <2>1, <2>2
<1>3. \A m \in received[n] : m[2] \in known
  BY <1>1
<1>4. MaxIndex(n) = CHOOSE i \in known \cup {0} : \A j \in known : j <= i
  BY DEF MaxIndex
<1> HIDE DEF known
<1>5. \E p \in known \cup {0} : \A i \in known \cup {0} : i <= p
  BY <1>2, SmallExtrema
<1>6. MaxIndex(n) \in known \cup {0} /\ \A j \in known : j <= MaxIndex(n)
  BY <1>4, <1>5
<1> QED BY <1>2, <1>3, <1>6

\* A message that the monitor misses and its sender has sent is answered.
LEMMA SentIsAnswered ==
  ASSUME OwnCacheInv, NEW n \in Nodes, NEW q \in Peers(n), NEW j,
         <<q, j>> \in FindMissingMessages(n), Key(q, n, j) \in sent[q]
  PROVE  OnMissingMesssageDetected(n) # {}
<1> DEFINE k == Key(q, n, j)
<1>1. k.from = q /\ (IsBroadcast(k) \/ k.to = n)
  BY DEF Key, IsBroadcast
<1>2. WorkCacheHas(q, k)
  BY <1>1 DEF OwnCacheInv, WorkCacheHas, QueueHas, Peers
<1>3. Update(k, q, n) \in OnAskMessage(q, k, n)
  BY <1>1, <1>2 DEF OnAskMessage
<1> HIDE DEF k
<1>4. Update(k, q, n) \in UNION {OnAskMessage(d, k, n) : d \in IF IsBroadcast(k) THEN Peers(n) ELSE {q}}
  BY <1>3
<1> QED BY <1>4 DEF OnMissingMesssageDetected, k

\* If all peers have sent a message of type i that is missing, and all they have of
\* earlier rounds, the monitor asks for one that its sender can give.
LEMMA AsksForSent ==
  ASSUME OwnCacheInv, NEW n \in Nodes, received[n] \subseteq Wanted[n],
         ~Presigned, GetMessagesByWorkType = Types,
         NEW p \in Peers(n), NEW i \in Types, <<p, i>> \notin received[n],
         \A q \in Peers(n) : \A j \in Types : Rounds[j] <= Rounds[i] => Key(q, n, j) \in sent[q]
  PROVE  OnMissingMesssageDetected(n) # {}
<1>1. ASSUME NEW q \in Peers(n), NEW j \in Types, j <= i, <<q, j>> \in FindMissingMessages(n)
      PROVE  OnMissingMesssageDetected(n) # {}
  <2>1. Key(q, n, j) \in sent[q]
    BY <1>1, TypeFacts
  <2> QED BY <1>1, <2>1, SentIsAnswered
<1> DEFINE x == MaxIndex(n)
<1>2. x \in Nat /\ (\A m \in received[n] : m[2] <= x) /\ i \in Nat
  BY MaxIndexFacts, TypeFacts
<1> HIDE DEF x
<1>3. CASE i <= x
  <2>1. <<p, i>> \in Gaps(n)
    BY <1>3 DEF Gaps, x
  <2>2. <<p, i>> \in FindMissingMessages(n)
    BY <2>1 DEF FindMissingMessages
  <2> QED BY <1>1, <1>2, <2>2
<1>4. CASE i > x /\ Gaps(n) # {}
  <2>1. PICK g \in Gaps(n) : TRUE
    BY <1>4
  <2>2. g = <<g[1], g[2]>> /\ g[1] \in Peers(n) /\ g[2] \in Types /\ g[2] <= x
    BY <2>1 DEF Gaps, x
  <2>3. g \in FindMissingMessages(n) /\ g[2] <= i
    BY <1>2, <1>4, <2>1, <2>2, TypeFacts DEF FindMissingMessages
  <2> QED BY <1>1, <2>2, <2>3
<1>5. CASE i > x /\ Gaps(n) = {}
  <2>1. x + 1 \in Types /\ x + 1 <= i
    BY <1>2, <1>5, TypeFacts
  <2>2. <<p, x + 1>> \in FindMissingMessages(n)
    BY <1>5, <2>1 DEF FindMissingMessages, x
  <2> QED BY <1>1, <2>1, <2>2
<1> QED BY <1>2, <1>3, <1>4, <1>5

\* An executor that has stopped has sent and received everything.
LEMMA Stopped ==
  ASSUME OwnRoom
  PROVE  Spec => []StoppedInv
<1>1. Init => StoppedInv
  BY DEF Init, StoppedInv
<1>2. OwnCacheInv /\ OwnCacheInv' /\ StoppedInv /\ [Next]_vars => StoppedInv'
  <2> SUFFICES ASSUME OwnCacheInv, OwnCacheInv', StoppedInv, [Next]_vars
               PROVE  StoppedInv'
    OBVIOUS
  <2>1. ASSUME NEW n \in Nodes, NEW k \in KeysOf[n], OnJobMessage(n, k)
        PROVE  StoppedInv'
    <3>1. UNCHANGED <<received, stopped>> /\ \A x \in Nodes : sent[x] \subseteq sent'[x]
      BY <2>1 DEF OnJobMessage, OwnCacheInv
    <3> QED BY <3>1 DEF StoppedInv, Complete, OwnCacheInv
  <2>2. ASSUME NEW n \in Nodes, Finish(n)
        PROVE  StoppedInv'
    BY <2>2 DEF Finish, StoppedInv, Complete
  <2>3. ASSUME NEW p \in net, OnNetworkMessage(p)
        PROVE  StoppedInv'
    <3>1. p.dest \in Nodes /\ <<p.key.from, p.key.type>> \in Wanted[p.dest]
      BY DEF OwnCacheInv, Wanted
    <3> QED BY <2>3, <3>1 DEF OnNetworkMessage, NewMessageReceived, StoppedInv, Complete
  <2>4. ASSUME UNCHANGED <<sent, received, stopped>>
        PROVE  StoppedInv'
    BY <2>4 DEF StoppedInv, Complete
  <2>5. ASSUME NEW n \in Nodes, WakeUp(n)
        PROVE  StoppedInv'
    BY <2>4, <2>5 DEF WakeUp
  <2>6. ASSUME NEW p \in net, Lose(p)
        PROVE  StoppedInv'
    BY <2>4, <2>6 DEF Lose
  <2>7. CASE UNCHANGED vars
    BY <2>4, <2>7 DEF vars
  <2> QED BY <2>1, <2>2, <2>3, <2>5, <2>6, <2>7 DEF Next
<1> QED BY <1>1, <1>2, OwnCache, PTL DEF Spec

\* A message that some party has not emitted is of no earlier round than the least
\* round r in which somebody is late; the node that is late in it lacks a message of
\* an earlier round, which therefore was sent.
LEMMA StuckAsks ==
  ASSUME OwnCacheInv, StoppedInv, ~Presigned, GetMessagesByWorkType = Types,
         \A n \in Nodes : ~CanEmit(n), NEW c \in Nodes, ~Complete(c)
  PROVE  \E n \in Nodes : stopped[n] = "no" /\ OnMissingMesssageDetected(n) # {}
<1>1. ASSUME NEW n \in Nodes, NEW p \in Peers(n), NEW i \in Types, <<p, i>> \notin received[n],
             \A q \in Nodes : \A k \in KeysOf[q] \ sent[q] : Rounds[k.type] > Rounds[i]
      PROVE  OnMissingMesssageDetected(n) # {}
  <2>1. ASSUME NEW q \in Peers(n), NEW j \in Types, Rounds[j] <= Rounds[i]
        PROVE  Key(q, n, j) \in sent[q]
    <3>1. Key(q, n, j) \in KeysOf[q] /\ Key(q, n, j).type = j /\ q \in Nodes
      BY DEF KeysOf, Key, Peers
    <3> QED BY <1>1, <2>1, <3>1, TypeFacts
  <2>2. received[n] \subseteq Wanted[n]
    BY DEF StoppedInv
  <2> QED BY <1>1, <2>1, <2>2, AsksForSent
<1> DEFINE late == {Rounds[k.type] : k \in UNION {KeysOf[q] \ sent[q] : q \in Nodes}}
<1>2. CASE late = {}
  <2>1. ASSUME NEW q \in Nodes
        PROVE  sent[q] = KeysOf[q]
    <3>1. ASSUME NEW k \in KeysOf[q] \ sent[q]
          PROVE  Rounds[k.type] \in late
      BY <3>1
    <3> HIDE DEF late
    <3>2. KeysOf[q] \subseteq sent[q]
      BY <1>2, <3>1
    <3> QED BY <3>2 DEF OwnCacheInv
  <2>2. PICK m \in Wanted[c] : m \notin received[c]
    BY <2>1 DEF Complete, StoppedInv
  <2>3. m = <<m[1], m[2]>> /\ m[1] \in Peers(c) /\ m[2] \in Types
    BY DEF Wanted
  <2> QED BY <1>1, <2>1, <2>2, <2>3 DEF StoppedInv
<1>3. CASE late # {}
  <2>1. \A q \in Nodes : \A k \in KeysOf[q] : k.type \in Types
    BY DEF KeysOf, Key
  <2>2. late \in SUBSET (0..8)
    <3>1. late \in SUBSET Nat
      BY <2>1, TypeFacts
    <3>2. \A x \in late : x <= 8
      BY <2>1, TypeFacts
    <3> HIDE DEF late
    <3> QED BY <3>1, <3>2
  <2>3. PICK r \in late : \A s \in late : r <= s
    <3> HIDE DEF late
    <3> QED BY <1>3, <2>2, SmallExtrema
  <2>4. PICK n \in Nodes : \E k \in KeysOf[n] \ sent[n] : r = Rounds[k.type]
    OBVIOUS
  <2>5. PICK m \in Needed(n, r) : m \notin received[n]
    BY <2>4 DEF CanEmit
  <2>6. m = <<m[1], m[2]>> /\ m[1] \in Peers(n) /\ m[2] \in Types /\ Rounds[m[2]] < r
    BY DEF Needed, Wanted
  <2>7. \A q \in Nodes : \A l \in KeysOf[q] \ sent[q] : Rounds[l.type] > Rounds[m[2]]
    <3> SUFFICES ASSUME NEW q \in Nodes, NEW l \in KeysOf[q] \ sent[q]
                 PROVE  Rounds[l.type] > Rounds[m[2]]
      OBVIOUS
    <3>1. Rounds[l.type] \in late
      OBVIOUS
    <3>2. Rounds[m[2]] \in Nat
      BY <2>6, TypeFacts
    <3>3. r \in Nat /\ Rounds[l.type] \in Nat
      <4> HIDE DEF late
      <4> QED BY <2>2, <2>3, <3>1
    <3> QED BY <2>3, <2>6, <3>1, <3>2, <3>3
  <2>8. OnMissingMesssageDetected(n) # {}
    BY <1>1, <2>5, <2>6, <2>7
  <2>9. ~Complete(n)
    BY <2>4 DEF Complete
  <2> QED BY <2>8, <2>9 DEF StoppedInv
<1> QED BY <1>2, <1>3

\* With presigns all parties emit their messages at once, and a node that has got
\* one of them looks for gaps up to the last type.
LEMMA PresignedAsks ==
  ASSUME OwnCacheInv, StoppedInv, Presigned, \A n \in Nodes : ~CanEmit(n),
         NEW c \in Nodes, Lacks(c)
  PROVE  stopped[c] = "no" /\ OnMissingMesssageDetected(c) # {}
<1>1. /\ \A i \in Types : i = 8 /\ Rounds[i] = 7
      /\ Types \subseteq GetMessagesByWorkType
  BY PresignedAssumption DEF Types, AllTypes, GetMessagesByWorkType, Rounds
<1>2. ASSUME NEW q \in Nodes
      PROVE  sent[q] = KeysOf[q]
  <2>1. \A k \in KeysOf[q] : Needed(q, Rounds[k.type]) = {}
    <3>1. \A k \in KeysOf[q] : Rounds[k.type] = 7
      BY <1>1, KeyFacts
    <3>2. Needed(q, 7) = {}
      BY <1>1 DEF Needed, Wanted
    <3> QED BY <3>1, <3>2
  <2>2. KeysOf[q] \subseteq sent[q]
    BY <2>1 DEF CanEmit
  <2> QED BY <2>2 DEF OwnCacheInv
<1>3. PICK m \in Wanted[c] : m \notin received[c]
  BY <1>2 DEF Lacks, Complete, StoppedInv
<1>4. m = <<m[1], 8>> /\ m[1] \in Peers(c) /\ 8 \in Types
  BY <1>1 DEF Wanted
<1>5. received[c] \subseteq Wanted[c] /\ received[c] # {}
  BY DEF StoppedInv, Lacks
<1>6. 8 <= MaxIndex(c)
  <2>1. PICK g \in received[c] : TRUE
    BY <1>5
  <2>2. g[2] = 8
    BY <1>1, <1>5 DEF Wanted
  <2>3. \A x \in received[c] : x[2] <= MaxIndex(c)
    BY <1>1, <1>5, MaxIndexFacts
  <2> QED BY <2>2, <2>3
<1>7. <<m[1], 8>> \in FindMissingMessages(c)
  <2>1. <<m[1], 8>> \in Gaps(c)
    BY <1>1, <1>3, <1>4, <1>6 DEF Gaps
  <2> QED BY <2>1 DEF FindMissingMessages
<1>8. Key(m[1], c, 8) \in sent[m[1]]
  BY <1>2, <1>4 DEF KeysOf, Peers
<1>9. OnMissingMesssageDetected(c) # {}
  BY <1>4, <1>7, <1>8, SentIsAnswered
<1>10. stopped[c] = "no"
  BY DEF StoppedInv, Lacks
<1> QED BY <1>9, <1>10

\* Nodes of an ECDSA work never wait for each other, each asking for what was never
\* sent: whatever was lost, if nothing is on its way and no party can go on, some
\* monitor asks for a message that its sender can give.  In a signing with presigns
\* this needs a node that has got a message.
THEOREM StuckNodesAsk ==
  ASSUME OwnRoom, WorkType \in {"EcKeygen", "EcSigning"}
  PROVE  Spec => []StuckIsAsked
<1>1. ~Presigned => GetMessagesByWorkType = Types
  BY DEF GetMessagesByWorkType, Types
<1>2. OwnCacheInv /\ StoppedInv => StuckIsAsked
  <2> SUFFICES ASSUME OwnCacheInv, StoppedInv, \A n \in Nodes : ~CanEmit(n), NEW c \in Nodes, Lacks(c)
               PROVE  \E n \in Nodes : stopped[n] = "no" /\ OnMissingMesssageDetected(n) # {}
    BY DEF StuckIsAsked
  <2>1. CASE Presigned
    BY <2>1, PresignedAsks
  <2>2. CASE ~Presigned
    <3>1. ~Complete(c)
      BY DEF Lacks
    <3> QED BY <1>1, <2>2, <3>1, StuckAsks
  <2> QED BY <2>1, <2>2
<1> QED BY <1>2, OwnCache, Stopped, PTL
=============================================================================
