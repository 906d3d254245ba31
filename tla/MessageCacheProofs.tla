------------------------- MODULE MessageCacheProofs -------------------------
(***************************************************************************)
(* Proofs about the message cache, for any messages, senders and works and *)
(* any limit.                                                              *)
(***************************************************************************)
EXTENDS MessageCache, FiniteSetTheorems, TLAPS

-----------------------------------------------------------------------------
(* Arrays and slices *)

\* A write to an array.
LEMMA Written ==
  ASSUME NEW S, NEW q \in Seq(S), NEW i \in Nat, NEW v \in S
  PROVE  /\ [q EXCEPT ![i] = v] \in Seq(S)
         /\ Len([q EXCEPT ![i] = v]) = Len(q)
         /\ \A j \in 1..Len(q) : [q EXCEPT ![i] = v][j] = IF j = i THEN v ELSE q[j]
<1> DEFINE r == [q EXCEPT ![i] = v]
<1>1. q \in [1..Len(q) -> S] /\ Len(q) \in Nat
  OBVIOUS
<1>2. r \in [1..Len(q) -> S]
  BY <1>1, Zenon
<1>3. \A j \in 1..Len(q) : r[j] = IF j = i THEN v ELSE q[j]
  BY <1>1
<1> HIDE DEF r
<1>4. r \in Seq(S) /\ Len(r) = Len(q)
  BY <1>1, <1>2
<1> QED BY <1>3, <1>4 DEF r

\* An append finds a free array: every list and the new list refer to one.
LEMMA FreeArray ==
  ASSUME TypeOK
  PROVE  Free \in Arrays /\ Free \notin Used
<1> DEFINE S == Senders \cup {Nil}
           f == [x \in S |-> IF x = Nil THEN newList.arr ELSE list[x].arr]
           n == Cardinality(Senders)
<1>1. IsFiniteSet(Senders) /\ n \in Nat /\ Nil \notin Senders
  BY SendersAssumption, NilAssumption, FS_CardinalityType
<1>2. IsFiniteSet(S) /\ Cardinality(S) = n + 1
  BY <1>1, FS_AddElement
<1>3. f \in Surjection(S, Used)
  <2>1. \A x \in S : f[x] \in Used
    BY <1>1 DEF Used
  <2>2. \A a \in Used : \E x \in S : f[x] = a
    BY <1>1 DEF Used
  <2>3. f \in [S -> Used]
    BY <2>1, Zenon
  <2> QED BY <2>2, <2>3, Zenon DEF Surjection
<1> HIDE DEF f, S
<1>4. IsFiniteSet(Used) /\ Cardinality(Used) <= n + 1
  <2>1. IsFiniteSet(Used) /\ Cardinality(Used) <= Cardinality(S)
    BY <1>2, <1>3, FS_Surjection
  <2> QED BY <1>2, <2>1
<1>5. Cardinality(Arrays) = n + 2
  <2>1. 1 \in Int /\ n + 2 \in Int /\ ~(1 > n + 2)
    BY <1>1
  <2>2. Cardinality(1..(n + 2)) = (n + 2) - 1 + 1
    BY <2>1, FS_Interval
  <2> QED BY <1>1, <2>2 DEF Arrays
<1>6. \E a \in Arrays : a \notin Used
  <2> SUFFICES ASSUME Arrays \in SUBSET Used
               PROVE  FALSE
    OBVIOUS
  <2>1. Cardinality(Arrays) <= Cardinality(Used)
    BY <1>4, FS_Subset
  <2>2. Cardinality(Used) \in Nat
    BY <1>4, FS_CardinalityType
  <2> QED BY <1>1, <1>4, <1>5, <2>1, <2>2
<1> QED BY <1>6 DEF Free

\* The slice that append returns.
LEMMA AppendedSlice ==
  ASSUME TypeOK, NEW s \in Slices, Valid(heap, s)
  PROVE  /\ AppendSlice(s) \in Slices
         /\ AppendSlice(s).arr \in Arrays
         /\ AppendSlice(s).arr # 0
         /\ AppendSlice(s).len = s.len + 1
         /\ Fits(s) => AppendSlice(s).arr = s.arr /\ AppendSlice(s).lo = s.lo
         /\ ~Fits(s) => AppendSlice(s).arr \notin Used /\ AppendSlice(s).lo = 0
<1>1. Free \in Arrays /\ Free \notin Used
  BY FreeArray
<1>2. \A a \in Arrays : a # 0
  BY DEF Arrays
<1>3. s.arr \in Arrays \cup {0} /\ s.lo \in Nat /\ s.len \in Nat
  BY DEF Slices
<1>4. CASE Fits(s)
  <2>1. s.arr # 0
    BY <1>3, <1>4 DEF Fits, Room
  <2> QED BY <1>2, <1>3, <1>4, <2>1 DEF AppendSlice, Slices
<1>5. CASE ~Fits(s)
  BY <1>1, <1>2, <1>3, <1>5 DEF AppendSlice, Slices
<1> QED BY <1>4, <1>5

\* The arrays after an append, in place or in a new array.
LEMMA AppendedHeap ==
  ASSUME TypeOK, NEW s \in Slices, Valid(heap, s), NEW m \in Msgs
  PROVE  /\ AppendHeap(s, m) \in [Arrays -> Seq(Msgs \cup {Nil})]
         /\ \A a \in Arrays : a # AppendSlice(s).arr => AppendHeap(s, m)[a] = heap[a]
         /\ Fits(s) => AppendHeap(s, m)[s.arr] = [heap[s.arr] EXCEPT ![s.lo + s.len + 1] = m]
         /\ ~Fits(s) => AppendHeap(s, m)[Free] = Copy(s, m)
<1>1. Free \in Arrays
  BY FreeArray
<1>2. s.arr \in Arrays \cup {0} /\ s.lo \in Nat /\ s.len \in Nat
  BY DEF Slices
<1>3. heap \in [Arrays -> Seq(Msgs \cup {Nil})]
  BY DEF TypeOK
<1>4. CASE Fits(s)
  <2>1. s.arr \in Arrays /\ s.arr # 0
    BY <1>2, <1>4 DEF Fits, Room
  <2>2. AppendHeap(s, m) = [heap EXCEPT ![s.arr] = [heap[s.arr] EXCEPT ![s.lo + s.len + 1] = m]]
    BY <1>4 DEF AppendHeap
  <2>3. [heap[s.arr] EXCEPT ![s.lo + s.len + 1] = m] \in Seq(Msgs \cup {Nil})
    <3>1. heap[s.arr] \in Seq(Msgs \cup {Nil}) /\ s.lo + s.len + 1 \in Nat /\ m \in Msgs \cup {Nil}
      BY <1>2, <1>3, <2>1
    <3>2. \A q \in Seq(Msgs \cup {Nil}), i \in Nat, v \in Msgs \cup {Nil} :
            [q EXCEPT ![i] = v] \in Seq(Msgs \cup {Nil})
      BY Written, Zenon
    <3> QED BY <3>1, <3>2, Zenon
  <2>4. AppendSlice(s).arr = s.arr
    BY <1>4, AppendedSlice
  <2> QED BY <1>3, <1>4, <2>1, <2>2, <2>3, <2>4
<1>5. CASE ~Fits(s)
  <2>1. AppendHeap(s, m) = [heap EXCEPT ![Free] = Copy(s, m)]
    BY <1>5 DEF AppendHeap
  <2>2. Copy(s, m) \in Seq(Msgs \cup {Nil})
    <3> DEFINE c == IF Room(s) = 0 THEN 1 ELSE 2 * Room(s)
    <3>1. Room(s) \in Nat
      BY <1>2, <1>3 DEF Room, Valid
    <3>2. c \in Nat
      BY <3>1
    <3>3. \A i \in 1..c : (IF i <= s.len THEN At(heap, s, i) ELSE IF i = s.len + 1 THEN m ELSE Nil)
                            \in Msgs \cup {Nil}
      <4>1. \A k \in 1..s.len : At(heap, s, k) \in Msgs
        BY <1>2 DEF Valid, Empty
      <4>2. \A i \in 1..c : i <= s.len => i \in 1..s.len
        BY <1>2, <3>2
      <4> QED BY <4>1, <4>2
    <3>4. Copy(s, m) \in [1..c -> Msgs \cup {Nil}]
      BY <3>3 DEF Copy
    <3> QED BY <3>2, <3>4
  <2>3. AppendSlice(s).arr = Free
    BY <1>5 DEF AppendSlice
  <2> QED BY <1>1, <1>3, <1>5, <2>1, <2>2, <2>3
<1> QED BY <1>4, <1>5

\* What append returns, read in the heap g that the collector leaves.
LEMMA AppendedItems ==
  ASSUME TypeOK, NEW s \in Slices, Valid(heap, s), NEW m \in Msgs, NEW g,
         g[AppendSlice(s).arr] = AppendHeap(s, m)[AppendSlice(s).arr]
  PROVE  /\ Valid(g, AppendSlice(s))
         /\ \A k \in 1..s.len : At(g, AppendSlice(s), k) = At(heap, s, k)
         /\ At(g, AppendSlice(s), s.len + 1) = m
<1> DEFINE t == AppendSlice(s)
<1>1. /\ t \in Slices /\ t.arr \in Arrays /\ t.arr # 0 /\ t.len = s.len + 1
      /\ Fits(s) => t.arr = s.arr /\ t.lo = s.lo
      /\ ~Fits(s) => t.arr = Free /\ t.lo = 0
  BY AppendedSlice DEF AppendSlice
<1>2. s.arr \in Arrays \cup {0} /\ s.lo \in Nat /\ s.len \in Nat
  BY DEF Slices
<1>3. heap \in [Arrays -> Seq(Msgs \cup {Nil})]
  BY DEF TypeOK
<1>4. \A k \in 1..s.len : At(heap, s, k) \in Msgs
  BY <1>2 DEF Valid, Empty
<1>5. Room(s) \in Nat /\ s.len <= Room(s)
  BY <1>2, <1>3 DEF Room, Valid, Empty
<1>6. /\ t.lo + t.len <= Len(g[t.arr])
      /\ \A k \in 1..s.len : At(g, t, k) = At(heap, s, k)
      /\ At(g, t, s.len + 1) = m
  <2>1. CASE Fits(s)
    <3>1. s.arr \in Arrays /\ s.arr # 0
      BY <1>1, <2>1
    <3>2. g[t.arr] = [heap[s.arr] EXCEPT ![s.lo + s.len + 1] = m]
      BY <1>1, <2>1, AppendedHeap
    <3>3. s.lo + s.len + 1 \in 1..Len(heap[s.arr]) /\ heap[s.arr] \in Seq(Msgs \cup {Nil})
      BY <1>2, <1>3, <2>1, <3>1 DEF Fits, Room
    <3>4. Len(g[t.arr]) = Len(heap[s.arr])
      BY <3>2, <3>3
    <3>5. \A k \in 1..s.len : s.lo + k \in 1..Len(heap[s.arr]) /\ s.lo + k # s.lo + s.len + 1
      BY <1>2, <3>3
    <3>6. \A j \in 1..Len(heap[s.arr]) :
            g[t.arr][j] = IF j = s.lo + s.len + 1 THEN m ELSE heap[s.arr][j]
      <4>1. s.lo + s.len + 1 \in Nat /\ m \in Msgs \cup {Nil}
        BY <1>2
      <4> QED BY <3>2, <3>3, <4>1, Written
    <3>7. t.arr = s.arr /\ t.lo = s.lo /\ t.len = s.len + 1
      BY <1>1, <2>1
    <3> HIDE DEF t
    <3>8. \A k \in 1..s.len : g[t.arr][t.lo + k] = heap[s.arr][s.lo + k]
      BY <3>5, <3>6, <3>7
    <3>9. g[t.arr][t.lo + (s.len + 1)] = m
      <4>1. t.lo + (s.len + 1) = s.lo + s.len + 1
        BY <1>2, <3>7
      <4> QED BY <3>3, <3>6, <4>1
    <3>10. t.lo + t.len <= Len(g[t.arr])
      BY <1>2, <3>3, <3>4, <3>7
    <3> QED BY <3>8, <3>9, <3>10 DEF At
  <2>2. CASE ~Fits(s)
    <3> DEFINE c == IF Room(s) = 0 THEN 1 ELSE 2 * Room(s)
    <3>1. c \in Nat /\ s.len + 1 <= c
      BY <1>2, <1>5, <2>2 DEF Fits
    <3>2. g[t.arr] = [i \in 1..c |-> IF i <= s.len THEN At(heap, s, i) ELSE IF i = s.len + 1 THEN m ELSE Nil]
      <4>1. t.arr = Free
        BY <1>1, <2>2
      <4>2. AppendHeap(s, m)[Free] = Copy(s, m)
        BY <2>2, AppendedHeap, Zenon
      <4>3. g[t.arr] = Copy(s, m)
        BY <4>1, <4>2
      <4> QED BY <4>3 DEF Copy
    <3> HIDE DEF c
    <3>3. g[t.arr] \in [1..c -> Msgs \cup {Nil}]
      <4>1. \A i \in 1..c : i <= s.len => i \in 1..s.len
        BY <1>2, <3>1
      <4> QED BY <1>4, <3>2, <4>1
    <3>4. Len(g[t.arr]) = c
      BY <3>1, <3>3
    <3>5. \A k \in 1..(s.len + 1) : k \in 1..c /\ 0 + k = k
      BY <1>2, <3>1
    <3>6. \A k \in 1..s.len : g[t.arr][k] = At(heap, s, k)
      BY <1>2, <3>2, <3>5
    <3>7. g[t.arr][s.len + 1] = m
      BY <1>2, <3>2, <3>5
    <3> QED BY <1>1, <1>2, <2>2, <3>1, <3>4, <3>6, <3>7 DEF At
  <2> QED BY <2>1, <2>2
<1> HIDE DEF t
<1>7. \A k \in 1..t.len : At(g, t, k) \in Msgs
  BY <1>1, <1>2, <1>4, <1>6
<1> QED BY <1>1, <1>6, <1>7 DEF Valid, t

\* What append does to another slice x: if it writes into its window it writes m.
LEMMA AppendedOthers ==
  ASSUME TypeOK, NEW s \in Slices, Valid(heap, s), NEW m \in Msgs, NEW g,
         NEW x \in Slices, Valid(heap, x), x.arr \in Used,
         x.arr # 0 => g[x.arr] = AppendHeap(s, m)[x.arr]
  PROVE  /\ Valid(g, x)
         /\ \A k \in 1..x.len : At(g, x, k) \in {At(heap, x, k), m}
         /\ x.arr # AppendSlice(s).arr \/ x.lo + x.len <= s.lo + s.len
            => \A k \in 1..x.len : At(g, x, k) = At(heap, x, k)
<1>1. s.arr \in Arrays \cup {0} /\ s.lo \in Nat /\ s.len \in Nat
  BY DEF Slices
<1>2. x.arr \in Arrays \cup {0} /\ x.lo \in Nat /\ x.len \in Nat
  BY DEF Slices
<1>3. heap \in [Arrays -> Seq(Msgs \cup {Nil})]
  BY DEF TypeOK
<1>4. CASE x.arr = 0
  <2>1. x = Empty
    BY <1>4 DEF Valid
  <2> QED BY <2>1 DEF Valid, Empty
<1>5. CASE x.arr # 0 /\ x.arr # AppendSlice(s).arr
  <2>1. g[x.arr] = heap[x.arr]
    BY <1>2, <1>5, AppendedHeap, Zenon
  <2> QED BY <1>5, <2>1 DEF Valid, At
<1>6. CASE x.arr # 0 /\ x.arr = AppendSlice(s).arr
  <2>1. Fits(s) /\ x.arr = s.arr
    BY <1>6, AppendedSlice
  <2>2. g[x.arr] = [heap[x.arr] EXCEPT ![s.lo + s.len + 1] = m]
    BY <1>6, <2>1, AppendedHeap
  <2>3. heap[x.arr] \in Seq(Msgs \cup {Nil}) /\ x.lo + x.len <= Len(heap[x.arr])
        /\ \A k \in 1..x.len : At(heap, x, k) \in Msgs
    BY <1>2, <1>3, <1>6 DEF Valid
  <2>4. \A k \in 1..x.len : x.lo + k \in 1..Len(heap[x.arr])
    BY <1>2, <2>3
  <2>5. Len(g[x.arr]) = Len(heap[x.arr])
    BY <2>2, <2>3
  <2>6. \A k \in 1..x.len : At(g, x, k) = IF x.lo + k = s.lo + s.len + 1 THEN m ELSE At(heap, x, k)
    BY <2>2, <2>3, <2>4 DEF At
  <2>7. \A k \in 1..x.len : x.lo + x.len <= s.lo + s.len => x.lo + k # s.lo + s.len + 1
    BY <1>1, <1>2
  <2>8. Valid(g, x)
    BY <1>6, <2>3, <2>5, <2>6 DEF Valid
  <2> QED BY <1>6, <2>6, <2>7, <2>8
<1> QED BY <1>4, <1>5, <1>6

\* The same in terms of what the slices hold.
LEMMA AppendedContents ==
  ASSUME TypeOK, NEW s \in Slices, Valid(heap, s), NEW m \in Msgs, NEW g,
         g[AppendSlice(s).arr] = AppendHeap(s, m)[AppendSlice(s).arr]
  PROVE  Items(g, AppendSlice(s)) = Items(heap, s) \cup {m}
<1> DEFINE t == AppendSlice(s)
<1>1. t.len = s.len + 1 /\ s.len \in Nat
  BY AppendedSlice DEF Slices
<1>2. /\ \A k \in 1..s.len : At(g, t, k) = At(heap, s, k)
      /\ At(g, t, s.len + 1) = m
  BY AppendedItems
<1> HIDE DEF t
<1>3. \A k : k \in 1..t.len <=> k \in 1..s.len \/ k = s.len + 1
  BY <1>1
<1>4. Items(g, t) \subseteq Items(heap, s) \cup {m}
  BY <1>2, <1>3 DEF Items
<1>5. Items(heap, s) \cup {m} \subseteq Items(g, t)
  BY <1>2, <1>3 DEF Items
<1> QED BY <1>4, <1>5 DEF t

LEMMA OtherContents ==
  ASSUME TypeOK, NEW s \in Slices, Valid(heap, s), NEW m \in Msgs, NEW g,
         NEW x \in Slices, Valid(heap, x), x.arr \in Used,
         x.arr # 0 => g[x.arr] = AppendHeap(s, m)[x.arr]
  PROVE  /\ Items(g, x) \subseteq Items(heap, x) \cup {m}
         /\ x.arr # AppendSlice(s).arr \/ x.lo + x.len <= s.lo + s.len
            => Items(g, x) = Items(heap, x)
<1>1. /\ \A k \in 1..x.len : At(g, x, k) \in {At(heap, x, k), m}
      /\ x.arr # AppendSlice(s).arr \/ x.lo + x.len <= s.lo + s.len
         => \A k \in 1..x.len : At(g, x, k) = At(heap, x, k)
  BY AppendedOthers
<1> QED BY <1>1, Zenon DEF Items

\* The same facts in the form the steps below cite them: slice x has in arrays g
\* the array that it has in h, lies clear of where an append to slice s writes, and
\* has in g the contents it has now.
SameIn(g, h, x) == x.arr # 0 => g[x.arr] = h[x.arr]

Clear(x, s) == x.arr # AppendSlice(s).arr \/ x.lo + x.len <= s.lo + s.len

Kept(g, x) ==
  /\ Valid(g, x)
  /\ Items(g, x) = Items(heap, x)
  /\ \A k \in 1..x.len : At(g, x, k) = At(heap, x, k)

\* An append changes no slice that lies clear of it.
LEMMA ClearKept ==
  ASSUME TypeOK, NEW s \in Slices, Valid(heap, s), NEW m \in Msgs, NEW g,
         NEW x \in Slices, Valid(heap, x), x.arr \in Used,
         SameIn(g, AppendHeap(s, m), x), Clear(x, s)
  PROVE  Kept(g, x)
<1>1. x.arr # 0 => g[x.arr] = AppendHeap(s, m)[x.arr]
  BY DEF SameIn
<1>2. x.arr # AppendSlice(s).arr \/ x.lo + x.len <= s.lo + s.len
  BY Zenon DEF Clear
<1>3. /\ Valid(g, x)
      /\ x.arr # AppendSlice(s).arr \/ x.lo + x.len <= s.lo + s.len
         => \A k \in 1..x.len : At(g, x, k) = At(heap, x, k)
  BY <1>1, AppendedOthers
<1>4. x.arr # AppendSlice(s).arr \/ x.lo + x.len <= s.lo + s.len => Items(g, x) = Items(heap, x)
  BY <1>1, OtherContents
<1> QED BY <1>2, <1>3, <1>4, Zenon DEF Kept

\* And whatever slice it meets, it only adds the message to its contents.
LEMMA OthersGrow ==
  ASSUME TypeOK, NEW s \in Slices, Valid(heap, s), NEW m \in Msgs, NEW g,
         NEW x \in Slices, Valid(heap, x), x.arr \in Used,
         SameIn(g, AppendHeap(s, m), x)
  PROVE  Valid(g, x) /\ Items(g, x) \subseteq Items(heap, x) \cup {m}
<1>1. x.arr # 0 => g[x.arr] = AppendHeap(s, m)[x.arr]
  BY DEF SameIn
<1>2. Valid(g, x)
  BY <1>1, AppendedOthers
<1>3. Items(g, x) \subseteq Items(heap, x) \cup {m}
  BY <1>1, OtherContents
<1> QED BY <1>2, <1>3

\* A slice whose array has not changed.
LEMMA SameArray ==
  ASSUME NEW g, NEW h, NEW x \in Slices, Valid(h, x), x.arr # 0 => g[x.arr] = h[x.arr]
  PROVE  /\ Valid(g, x)
         /\ Items(g, x) = Items(h, x)
         /\ \A k \in 1..x.len : At(g, x, k) = At(h, x, k)
<1>1. CASE x.arr = 0
  <2>1. x = Empty
    BY <1>1 DEF Valid
  <2> QED BY <2>1 DEF Valid, Empty, Items
<1>2. CASE x.arr # 0
  BY <1>2 DEF Valid, At, Items
<1> QED BY <1>1, <1>2

\* A slice holds messages.
LEMMA Contents ==
  ASSUME NEW h, NEW x \in Slices, Valid(h, x)
  PROVE  /\ Items(h, x) \subseteq Msgs
         /\ \A k \in 1..x.len : At(h, x, k) \in Msgs /\ At(h, x, k) \in Items(h, x)
<1>1. \A k \in 1..x.len : At(h, x, k) \in Msgs
  BY DEF Valid, Empty
<1> QED BY <1>1, Zenon DEF Items

\* What the collector leaves.
LEMMA Collected ==
  ASSUME NEW h \in [Arrays -> Seq(Msgs \cup {Nil})], Collect(h)
  PROVE  /\ heap' \in [Arrays -> Seq(Msgs \cup {Nil})]
         /\ \A a \in Arrays : a \in Used' => heap'[a] = h[a]
<1>1. << >> \in Seq(Msgs \cup {Nil})
  OBVIOUS
<1> DEFINE U == Used'
<1>2. heap' = [a \in Arrays |-> IF a \in U THEN h[a] ELSE << >>]
  BY DEF Collect
<1> HIDE DEF U
<1>3. heap' \in [Arrays -> Seq(Msgs \cup {Nil})] /\ \A a \in Arrays : a \in U => heap'[a] = h[a]
  BY <1>1, <1>2
<1> QED BY <1>3 DEF U

\* A list without its first element.
LEMMA Trimmed ==
  ASSUME NEW s \in Slices, Valid(heap, s)
  PROVE  /\ Trim(s) \in Slices
         /\ Trim(s).arr = s.arr
         /\ Valid(heap, Trim(s))
         /\ Items(heap, Trim(s)) \subseteq Items(heap, s)
         /\ s.len < MaxMessagePerNode => Trim(s) = s
         /\ s.len >= MaxMessagePerNode => Trim(s).lo = s.lo + 1 /\ Trim(s).len = s.len - 1
<1>1. s.arr \in Arrays \cup {0} /\ s.lo \in Nat /\ s.len \in Nat
  BY DEF Slices
<1>2. CASE s.len >= MaxMessagePerNode
  <2> DEFINE t == [arr |-> s.arr, lo |-> s.lo + 1, len |-> s.len - 1]
  <2>1. Trim(s) = t
    BY <1>2, Zenon DEF Trim, Slices
  <2>2. s.len >= 1
    BY <1>1, <1>2, LimitAssumption
  <2>3. t \in Slices
    BY <1>1, <2>2 DEF Slices
  <2>4. s.arr # 0
    BY <2>2 DEF Valid, Empty
  <2>5. \A k \in 1..t.len : k + 1 \in 1..s.len /\ t.lo + k = s.lo + (k + 1)
    BY <1>1, <2>2
  <2>6. \A k \in 1..t.len : At(heap, t, k) = At(heap, s, k + 1)
    BY <2>5 DEF At
  <2>7. t.lo + t.len = s.lo + s.len
    BY <1>1
  <2>8. t.arr = s.arr /\ t.lo = s.lo + 1 /\ t.len = s.len - 1
    OBVIOUS
  <2> HIDE DEF t
  <2>9. Items(heap, t) \subseteq Items(heap, s)
    BY <2>5, <2>6 DEF Items
  <2>10. Valid(heap, t)
    BY <2>4, <2>5, <2>6, <2>7, <2>8 DEF Valid
  <2> QED BY <1>1, <1>2, <2>1, <2>3, <2>8, <2>9, <2>10, LimitAssumption
<1>3. CASE ~(s.len >= MaxMessagePerNode)
  BY <1>1, <1>3, LimitAssumption DEF Trim
<1>4. (s.len < MaxMessagePerNode) <=> ~(s.len >= MaxMessagePerNode)
  BY <1>1, LimitAssumption
<1> QED BY <1>2, <1>3, <1>4

-----------------------------------------------------------------------------
(* The steps *)

LEMMA EmptyItems == \A h : Items(h, Empty) = {} /\ Valid(h, Empty) /\ Empty \in Slices
  BY DEF Items, Empty, Valid, Slices

LEMMA InitInv == Init => CacheInv
<1> SUFFICES ASSUME Init PROVE CacheInv
  OBVIOUS
<1>1. TypeOK
  <2>1. << >> \in Seq(Msgs \cup {Nil}) /\ 0 \in Nat /\ MaxMessagePerNode \in Nat
    BY LimitAssumption
  <2> QED BY <2>1, EmptyItems DEF Init, TypeOK
<1>2. SliceInv
  BY EmptyItems DEF Init, SliceInv
<1>3. LoopInv
  BY EmptyItems, NilAssumption DEF Init, LoopInv, Waiting, Empty
<1> QED BY <1>1, <1>2, <1>3 DEF Init, CacheInv

\* What an added message does to the lists.
LEMMA AddLists ==
  ASSUME CacheInv, NEW m \in Msgs, AddMessage(m)
  PROVE  /\ TypeOK'
         /\ SliceInv'
         /\ Items(heap', list'[From[m]]) = Items(heap, Trim(list[From[m]])) \cup {m}
         /\ \A x \in Senders \ {From[m]} :
              /\ list'[x] = list[x]
              /\ Items(heap', list[x]) \subseteq Items(heap, list[x]) \cup {m}
              /\ ~Shared(From[m]) => Items(heap', list[x]) = Items(heap, list[x])
         /\ list'[From[m]] # list[From[m]]
<1> DEFINE f == From[m]
           s == Trim(list[f])
           t == AppendSlice(s)
<1>1. f \in Senders
  BY MessagesAssumption
<1>2. TypeOK /\ SliceInv /\ heap \in [Arrays -> Seq(Msgs \cup {Nil})] /\ list \in [Senders -> Slices]
  BY DEF CacheInv, TypeOK
<1>3. list[f] \in Slices /\ Valid(heap, list[f])
  BY <1>1, <1>2 DEF SliceInv
<1>4. /\ s \in Slices /\ s.arr = list[f].arr /\ Valid(heap, s)
      /\ Items(heap, s) \subseteq Items(heap, list[f])
      /\ list[f].len < MaxMessagePerNode => s = list[f]
      /\ list[f].len >= MaxMessagePerNode => s.lo = list[f].lo + 1 /\ s.len = list[f].len - 1
  BY <1>3, Trimmed
<1>5. /\ list' = [list EXCEPT ![f] = t] /\ newList' = newList /\ todo' = todo \ {m}
      /\ Collect(AppendHeap(s, m))
      /\ given' = {} /\ UNCHANGED <<work, left, cur, idx, result, pops, limit>>
  BY DEF AddMessage, loop
<1> HIDE DEF s, f
<1>6. /\ t \in Slices /\ t.arr \in Arrays /\ t.arr # 0 /\ t.len = s.len + 1
      /\ Fits(s) => t.arr = s.arr /\ t.lo = s.lo
      /\ ~Fits(s) => t.arr \notin Used /\ t.lo = 0
  BY <1>2, <1>4, AppendedSlice
<1> HIDE DEF t
<1>7. list'[f] = t /\ \A x \in Senders \ {f} : list'[x] = list[x]
  BY <1>1, <1>2, <1>5
<1>8. AppendHeap(s, m) \in [Arrays -> Seq(Msgs \cup {Nil})]
  BY <1>2, <1>4, AppendedHeap, Zenon
<1>9. /\ heap' \in [Arrays -> Seq(Msgs \cup {Nil})]
      /\ \A a \in Arrays : a \in Used' => heap'[a] = AppendHeap(s, m)[a]
  BY <1>5, <1>8, Collected
<1>10. t.arr \in Used' /\ newList.arr \in Used' /\ \A x \in Senders \ {f} : list[x].arr \in Used'
  BY <1>1, <1>5, <1>7 DEF Used
<1>11. heap'[t.arr] = AppendHeap(s, m)[t.arr]
  BY <1>6, <1>9, <1>10
<1>12. Valid(heap', t) /\ Items(heap', t) = Items(heap, s) \cup {m}
  <2>1. TypeOK /\ s \in Slices /\ Valid(heap, s)
    BY <1>2, <1>4
  <2>2. heap'[AppendSlice(s).arr] = AppendHeap(s, m)[AppendSlice(s).arr]
    BY <1>11 DEF t
  <2>3. Valid(heap', AppendSlice(s))
    BY <2>1, <2>2, AppendedItems, Zenon
  <2>4. Items(heap', AppendSlice(s)) = Items(heap, s) \cup {m}
    BY <2>1, <2>2, AppendedContents, Zenon
  <2> QED BY <2>3, <2>4 DEF t
<1>13. ASSUME NEW x \in Senders \ {f}
       PROVE  /\ Valid(heap', list[x])
              /\ Items(heap', list[x]) \subseteq Items(heap, list[x]) \cup {m}
              /\ ~Shared(f) => Items(heap', list[x]) = Items(heap, list[x])
  <2>1. list[x] \in Slices /\ Valid(heap, list[x]) /\ list[x].arr \in Used
    BY <1>2 DEF SliceInv, Used
  <2>2. SameIn(heap', AppendHeap(s, m), list[x])
    <3>1. list[x].arr \in Arrays \cup {0}
      BY <2>1 DEF Slices
    <3> QED BY <1>9, <1>10, <3>1 DEF SameIn
  <2>3. TypeOK /\ s \in Slices /\ Valid(heap, s)
    BY <1>2, <1>4
  <2>4. Valid(heap', list[x]) /\ Items(heap', list[x]) \subseteq Items(heap, list[x]) \cup {m}
    BY <2>1, <2>2, <2>3, OthersGrow
  <2>5. ~Shared(f) => list[x].arr # t.arr
    BY <1>1, <1>4, <1>6, <2>1 DEF Shared
  <2>6. ASSUME ~Shared(f)
        PROVE  Items(heap', list[x]) = Items(heap, list[x])
    <3>1. Clear(list[x], s)
      BY <2>5, <2>6, Zenon DEF Clear, t
    <3>2. Kept(heap', list[x])
      BY <2>1, <2>2, <2>3, <3>1, ClearKept
    <3> QED BY <3>2, Zenon DEF Kept
  <2> QED BY <2>4, <2>6, Zenon
<1>14. TypeOK'
  <2>1. list' \in [Senders -> Slices]
    BY <1>2, <1>5, <1>6, Zenon
  <2> QED BY <1>2, <1>5, <1>9, <2>1 DEF TypeOK
<1>15. SliceInv'
  <2>1. newList = Empty
    BY DEF CacheInv, LoopInv, AddMessage
  <2>2. \A x \in Senders : x \notin Known' => x # f /\ x \notin Known
    BY <1>5 DEF Known, f, AddMessage
  <2>3. \A x \in Senders : Valid(heap', list'[x])
    BY <1>7, <1>12, <1>13
  <2>4. \A x \in Senders : x \notin Known' => list'[x] = Empty
    BY <1>2, <1>7, <2>2 DEF SliceInv
  <2>5. Valid(heap', newList')
    BY <1>5, <2>1, EmptyItems
  <2> QED BY <2>3, <2>4, <2>5 DEF SliceInv
<1>16. t # list[f]
  <2>1. list[f].lo \in Nat /\ list[f].len \in Nat /\ list[f].arr \in Used
    BY <1>1, <1>3 DEF Slices, Used
  <2>2. CASE list[f].len < MaxMessagePerNode
    BY <1>4, <1>6, <2>1, <2>2
  <2>3. CASE list[f].len >= MaxMessagePerNode
    BY <1>4, <1>6, <2>1, <2>3
  <2> QED BY <2>1, <2>2, <2>3, LimitAssumption
<1> QED BY <1>7, <1>12, <1>13, <1>14, <1>15, <1>16 DEF s, f

\* An added message keeps the invariant, and is an abstract Add.
LEMMA AddStep ==
  ASSUME CacheInv, NEW m \in Msgs, AddMessage(m)
  PROVE  CacheInv' /\ Held' \subseteq Held \cup {m} /\ m \in Held' /\ given' = {}
<1> DEFINE f == From[m]
<1>1. f \in Senders
  BY MessagesAssumption
<1>2. list \in [Senders -> Slices] /\ SliceInv
  BY DEF CacheInv, TypeOK
<1>3. /\ TypeOK' /\ SliceInv'
      /\ Items(heap', list'[f]) = Items(heap, Trim(list[f])) \cup {m}
      /\ \A x \in Senders \ {f} : /\ list'[x] = list[x]
                                  /\ Items(heap', list[x]) \subseteq Items(heap, list[x]) \cup {m}
  BY AddLists
<1>4. Items(heap, Trim(list[f])) \subseteq Items(heap, list[f])
  BY <1>1, <1>2, Trimmed DEF SliceInv
<1> HIDE DEF f
<1>5. \A x \in Senders : Items(heap', list'[x]) \subseteq Items(heap, list[x]) \cup {m}
  BY <1>3, <1>4
<1>6. /\ work = Nil /\ work' = Nil /\ newList' = Empty /\ result' = {} /\ left' = {} /\ cur' = Nil
      /\ newList = Empty
  BY DEF CacheInv, LoopInv, AddMessage, loop
<1>7. LoopInv'
  <2>1. Items(heap', newList') = {} /\ newList'.lo = 0
    BY <1>6, EmptyItems DEF Empty
  <2>2. \A s \in Senders : ~Waiting(s)'
    BY <1>6, NilAssumption DEF Waiting
  <2> QED BY <1>6, <2>1, <2>2 DEF LoopInv
<1>8. Held' = UNION {Items(heap', list'[x]) : x \in Senders}
  BY <1>6, EmptyItems DEF Held
<1>9. Held' \subseteq Held \cup {m}
  BY <1>5, <1>8 DEF Held
<1>10. m \in Held'
  BY <1>1, <1>3, <1>8
<1> QED BY <1>3, <1>6, <1>7, <1>9, <1>10 DEF CacheInv, AddMessage

LEMMA PopStep ==
  ASSUME CacheInv, NEW w \in Works, PopAllMessages(w)
  PROVE  CacheInv' /\ Held' = Held /\ given' = given
<1>1. /\ work = Nil /\ newList = Empty /\ result = {} /\ cur = Nil
      /\ TypeOK /\ SliceInv
  BY DEF CacheInv, LoopInv, PopAllMessages
<1>2. /\ UNCHANGED <<heap, list, newList, cur, idx, result, todo, given>>
      /\ work' = w /\ left' = Known /\ w # Nil
      /\ limit' = limit * Cardinality(Senders) /\ pops' = pops + 1
  BY NilAssumption DEF PopAllMessages, lists
<1>3. Known \subseteq Senders /\ Known' = Known
  BY <1>2, MessagesAssumption DEF Known
<1>4. TypeOK'
  <2>1. Cardinality(Senders) \in Nat
    BY SendersAssumption, FS_CardinalityType
  <2>2. limit' \in Nat /\ pops' \in Nat
    BY <1>1, <1>2, <2>1 DEF TypeOK
  <2> QED BY <1>1, <1>2, <1>3, <2>2 DEF TypeOK
<1>5. SliceInv'
  BY <1>1, <1>2, <1>3 DEF SliceInv
<1>6. \A s \in Senders : Waiting(s)' <=> s \in Known
  BY <1>1, <1>2, NilAssumption DEF Waiting
<1>7. LoopInv'
  BY <1>1, <1>2, <1>3, <1>6, EmptyItems DEF LoopInv, Empty
<1>8. ApartInv'
  <2>1. \A s \in Senders : s \notin Known => list'[s] = Empty
    BY <1>1, <1>2 DEF SliceInv
  <2>2. newList'.arr = 0 /\ newList'.len = 0 /\ Empty.lo = 0 /\ Empty.len = 0
    BY <1>1, <1>2 DEF Empty
  <2>3. ASSUME NEW s \in Senders, s \notin Known
        PROVE  /\ list'[s].lo = 0 /\ list'[s].len <= newList'.len
               /\ Items(heap', list'[s]) \subseteq Items(heap', newList')
    <3>1. list'[s] = Empty /\ newList' = Empty
      BY <1>1, <1>2, <2>1, <2>3
    <3> QED BY <2>2, <3>1
  <2> QED BY <1>6, <2>2, <2>3 DEF ApartInv
<1>9. Held' = Held
  BY <1>2 DEF Held
<1> QED BY <1>2, <1>4, <1>5, <1>7, <1>8, <1>9 DEF CacheInv

LEMMA NextValueStep ==
  ASSUME CacheInv, NEW s \in Senders, NextValue(s)
  PROVE  CacheInv' /\ Held' = Held /\ given' = given
<1>1. TypeOK /\ SliceInv /\ LoopInv /\ ApartInv /\ work # Nil /\ cur = Nil /\ s \in left
  BY DEF CacheInv, NextValue
<1>2. /\ UNCHANGED <<heap, list, newList, work, result, todo, given, pops, limit>>
      /\ left' = left \ {s} /\ cur' = s /\ idx' = 0 /\ s # Nil
  BY NilAssumption DEF NextValue, lists
<1>3. \A x \in Senders : Waiting(x)' <=> Waiting(x)
  BY <1>1, <1>2, NilAssumption DEF Waiting
<1>4. TypeOK'
  BY <1>1, <1>2 DEF TypeOK
<1>5. SliceInv' /\ Known' = Known
  BY <1>1, <1>2 DEF SliceInv, Known
<1>6. ApartInv'
  BY <1>1, <1>2, <1>3 DEF ApartInv
<1>7. LoopInv'
  <2>1. list[s].len \in Nat
    BY <1>1 DEF TypeOK, Slices
  <2>2. 0 <= list[s].len /\ 1..0 = {}
    BY <2>1
  <2> QED BY <1>1, <1>2, <1>3, <1>5, <2>2 DEF LoopInv
<1>8. Held' = Held
  BY <1>2 DEF Held
<1> QED BY <1>2, <1>4, <1>5, <1>6, <1>7, <1>8 DEF CacheInv

\* The message the inner loop is at.
LEMMA Current ==
  ASSUME CacheInv, NextMessage
  PROVE  /\ cur \in Senders /\ list[cur] \in Slices /\ Valid(heap, list[cur])
         /\ idx \in Nat /\ idx + 1 \in 1..list[cur].len
         /\ At(heap, list[cur], idx + 1) \in Msgs
         /\ At(heap, list[cur], idx + 1) \in Items(heap, list[cur])
         /\ work # Nil
<1>1. cur \in Senders /\ idx \in Nat /\ list \in [Senders -> Slices]
  BY DEF CacheInv, TypeOK, NextMessage
<1>2. list[cur] \in Slices /\ Valid(heap, list[cur])
  BY <1>1 DEF CacheInv, SliceInv
<1>3. list[cur].len \in Nat /\ idx < list[cur].len
  BY <1>2 DEF Slices, NextMessage
<1>4. idx + 1 \in 1..list[cur].len
  BY <1>1, <1>3
<1>5. /\ At(heap, list[cur], idx + 1) \in Msgs
      /\ At(heap, list[cur], idx + 1) \in Items(heap, list[cur])
  BY <1>2, <1>4, Contents
<1>6. work # Nil
  BY DEF CacheInv, LoopInv, NextMessage
<1> QED BY <1>1, <1>2, <1>4, <1>5, <1>6

LEMMA SelectStep ==
  ASSUME CacheInv, NextMessage, Select, WorkOf[At(heap, list[cur], idx + 1)] = work
  PROVE  CacheInv' /\ Held' = Held /\ given' = given
<1> DEFINE m == At(heap, list[cur], idx + 1)
<1>1. /\ cur \in Senders /\ idx \in Nat /\ idx + 1 \in 1..list[cur].len
      /\ m \in Msgs /\ m \in Items(heap, list[cur]) /\ work # Nil /\ list[cur] \in Slices
  BY Current
<1>2. TypeOK /\ SliceInv /\ LoopInv /\ ApartInv /\ cur # Nil
  BY <1>1 DEF CacheInv, NextMessage
<1>3. /\ UNCHANGED <<heap, list, newList, work, left, cur, todo, given, pops, limit>>
      /\ idx' = idx + 1 /\ result' = result \cup {m}
  BY DEF NextMessage, Select, lists
<1>4. WorkOf[m] = work
  OBVIOUS
<1>5. \A k \in 1..idx : At(heap, list[cur], k) \in result \cup Items(heap, newList)
  BY <1>2 DEF LoopInv
<1>6. At(heap, list[cur], idx + 1) = m
  OBVIOUS
<1> HIDE DEF m
<1>7. TypeOK'
  BY <1>1, <1>2, <1>3 DEF TypeOK
<1>8. SliceInv' /\ Known' = Known
  BY <1>2, <1>3 DEF SliceInv, Known
<1>9. \A x \in Senders : Waiting(x)' <=> Waiting(x)
  BY <1>3 DEF Waiting
<1>10. ApartInv'
  BY <1>2, <1>3, <1>9 DEF ApartInv
<1>11. LoopInv'
  <2>1. \A k \in 1..(idx + 1) : k \in 1..idx \/ k = idx + 1
    BY <1>1
  <2>2. \A k \in 1..(idx + 1) : At(heap, list[cur], k) \in (result \cup {m}) \cup Items(heap, newList)
    BY <1>5, <1>6, <2>1
  <2>3. idx + 1 <= list[cur].len
    BY <1>1 DEF Slices
  <2> QED BY <1>1, <1>2, <1>3, <1>4, <1>8, <1>9, <2>2, <2>3 DEF LoopInv
<1>12. Held' = Held
  BY <1>1, <1>3 DEF Held
<1> QED BY <1>3, <1>7, <1>8, <1>10, <1>11, <1>12 DEF CacheInv

\* What keeping a message does to the lists: nothing, although they share arrays
\* with the list that is appended to.
LEMMA KeepLists ==
  ASSUME CacheInv, NextMessage, Keep
  PROVE  /\ TypeOK'
         /\ SliceInv'
         /\ ApartInv'
         /\ Items(heap', newList') = Items(heap, newList) \cup {At(heap, list[cur], idx + 1)}
         /\ newList'.lo = 0
         /\ \A x \in Senders :
              /\ Items(heap', list[x]) = Items(heap, list[x])
              /\ \A k \in 1..list[x].len : At(heap', list[x], k) = At(heap, list[x], k)
<1> DEFINE m == At(heap, list[cur], idx + 1)
           t == AppendSlice(newList)
<1>1. cur \in Senders /\ idx \in Nat /\ m \in Msgs /\ work # Nil
  BY Current
<1>2. /\ TypeOK /\ SliceInv /\ LoopInv /\ ApartInv
      /\ heap \in [Arrays -> Seq(Msgs \cup {Nil})] /\ list \in [Senders -> Slices]
      /\ newList \in Slices /\ Valid(heap, newList) /\ newList.lo = 0
  BY <1>1 DEF CacheInv, TypeOK, SliceInv, LoopInv
<1>3. /\ UNCHANGED <<list, result, work, left, cur, todo, given, pops, limit>>
      /\ idx' = idx + 1 /\ newList' = t /\ Collect(AppendHeap(newList, m))
  BY DEF NextMessage, Keep
<1> HIDE DEF m
<1>4. /\ t \in Slices /\ t.arr \in Arrays /\ t.arr # 0 /\ t.len = newList.len + 1
      /\ Fits(newList) => t.arr = newList.arr /\ t.lo = newList.lo
      /\ ~Fits(newList) => t.arr \notin Used /\ t.lo = 0
  BY <1>2, AppendedSlice
<1> HIDE DEF t
<1>5. AppendHeap(newList, m) \in [Arrays -> Seq(Msgs \cup {Nil})]
  BY <1>1, <1>2, AppendedHeap, Zenon
<1>6. /\ heap' \in [Arrays -> Seq(Msgs \cup {Nil})]
      /\ \A a \in Arrays : a \in Used' => heap'[a] = AppendHeap(newList, m)[a]
  BY <1>3, <1>5, Collected
<1>7. t.arr \in Used' /\ \A x \in Senders : list[x].arr \in Used'
  BY <1>3 DEF Used
<1>8. heap'[t.arr] = AppendHeap(newList, m)[t.arr]
  BY <1>4, <1>6, <1>7
<1>9. Valid(heap', t) /\ Items(heap', t) = Items(heap, newList) \cup {m}
  <2>1. TypeOK /\ newList \in Slices /\ Valid(heap, newList) /\ m \in Msgs
    BY <1>1, <1>2
  <2>2. heap'[AppendSlice(newList).arr] = AppendHeap(newList, m)[AppendSlice(newList).arr]
    BY <1>8 DEF t
  <2>3. Valid(heap', AppendSlice(newList))
    BY <2>1, <2>2, AppendedItems, Zenon
  <2>4. Items(heap', AppendSlice(newList)) = Items(heap, newList) \cup {m}
    BY <2>1, <2>2, AppendedContents, Zenon
  <2> QED BY <2>3, <2>4 DEF t
<1>10. ASSUME NEW x \in Senders
       PROVE  /\ Valid(heap', list[x])
              /\ Items(heap', list[x]) = Items(heap, list[x])
              /\ \A k \in 1..list[x].len : At(heap', list[x], k) = At(heap, list[x], k)
  <2>1. list[x] \in Slices /\ Valid(heap, list[x]) /\ list[x].arr \in Used
    BY <1>2 DEF SliceInv, Used
  <2>2. SameIn(heap', AppendHeap(newList, m), list[x])
    <3>1. list[x].arr \in Arrays \cup {0}
      BY <2>1 DEF Slices
    <3> QED BY <1>6, <1>7, <3>1 DEF SameIn
  <2>3. list[x].arr # t.arr \/ list[x].lo + list[x].len <= newList.lo + newList.len
    <3>1. CASE Waiting(x)
      BY <1>2, <1>4, <2>1, <3>1 DEF ApartInv
    <3>2. CASE ~Waiting(x) /\ list[x].arr = t.arr
      <4>1. list[x].lo = 0 /\ list[x].len <= newList.len
        BY <1>2, <1>4, <2>1, <3>2 DEF ApartInv
      <4> QED BY <1>2, <2>1, <4>1 DEF Slices
    <3> QED BY <3>1, <3>2
  <2>4. TypeOK /\ newList \in Slices /\ Valid(heap, newList) /\ m \in Msgs
    BY <1>1, <1>2
  <2>5. Clear(list[x], newList)
    BY <2>3, Zenon DEF Clear, t
  <2>6. Kept(heap', list[x])
    BY <2>1, <2>2, <2>4, <2>5, ClearKept
  <2> QED BY <2>6, Zenon DEF Kept
<1>11. TypeOK'
  <2>1. idx' \in Nat /\ newList' \in Slices
    BY <1>1, <1>3, <1>4
  <2>2. UNCHANGED <<list, result, work, left, cur, todo, given, pops, limit>> /\ TypeOK
    BY <1>2, <1>3
  <2> QED BY <1>6, <2>1, <2>2, Zenon DEF TypeOK
<1>12. SliceInv'
  <2>1. Known' = Known
    BY <1>3 DEF Known
  <2> QED BY <1>2, <1>3, <1>9, <1>10, <2>1 DEF SliceInv
<1>13. ApartInv'
  <2> SUFFICES ASSUME NEW x \in Senders
               PROVE  IF Waiting(x)
                      THEN t.arr # 0 => list[x].arr # t.arr
                      ELSE /\ list[x].arr = t.arr => list[x].lo = 0 /\ list[x].len <= t.len
                           /\ Items(heap', list[x]) \subseteq Items(heap', t)
    BY <1>3 DEF ApartInv, Waiting
  <2>1. list[x] \in Slices /\ list[x].arr \in Used
    BY <1>2 DEF Used
  <2>2. CASE Waiting(x)
    BY <1>2, <1>4, <2>1, <2>2 DEF ApartInv
  <2>3. CASE ~Waiting(x)
    <3>1. Items(heap, list[x]) \subseteq Items(heap, newList)
      BY <1>2, <2>3 DEF ApartInv
    <3>2. Items(heap', list[x]) \subseteq Items(heap', t)
      BY <1>9, <1>10, <3>1
    <3>3. list[x].arr = t.arr => list[x].lo = 0 /\ list[x].len <= newList.len
      BY <1>2, <1>4, <2>1, <2>3 DEF ApartInv
    <3>4. list[x].len \in Nat /\ newList.len \in Nat
      BY <1>2, <2>1 DEF Slices
    <3>5. list[x].len <= newList.len => list[x].len <= t.len
      BY <1>4, <3>4
    <3> QED BY <2>3, <3>2, <3>3, <3>5, Zenon
  <2> QED BY <2>2, <2>3
<1> QED BY <1>2, <1>3, <1>4, <1>9, <1>10, <1>11, <1>12, <1>13 DEF m

LEMMA KeepStep ==
  ASSUME CacheInv, NextMessage, Keep, WorkOf[At(heap, list[cur], idx + 1)] # work
  PROVE  CacheInv' /\ Held' = Held /\ given' = given
<1> DEFINE m == At(heap, list[cur], idx + 1)
<1>1. /\ cur \in Senders /\ idx \in Nat /\ idx + 1 \in 1..list[cur].len
      /\ m \in Msgs /\ m \in Items(heap, list[cur]) /\ work # Nil /\ list[cur] \in Slices
  BY Current
<1>2. LoopInv /\ cur # Nil
  BY DEF CacheInv, NextMessage
<1>3. UNCHANGED <<list, result, work, left, cur, todo, given, pops, limit>> /\ idx' = idx + 1
  BY DEF NextMessage, Keep
<1>4. /\ TypeOK' /\ SliceInv' /\ ApartInv'
      /\ Items(heap', newList') = Items(heap, newList) \cup {m} /\ newList'.lo = 0
      /\ \A x \in Senders : Items(heap', list[x]) = Items(heap, list[x])
      /\ \A k \in 1..list[cur].len : At(heap', list[cur], k) = At(heap, list[cur], k)
  BY <1>1, KeepLists
<1>5. WorkOf[m] # work /\ At(heap, list[cur], idx + 1) = m
  OBVIOUS
<1> HIDE DEF m
<1>6. LoopInv'
  <2>1. \A k \in 1..(idx + 1) : (k \in 1..idx \/ k = idx + 1) /\ k \in 1..list[cur].len
    <3>1. idx \in Nat /\ list[cur].len \in Nat /\ idx + 1 \in 1..list[cur].len
      BY <1>1 DEF Slices
    <3> QED BY <3>1
  <2>2. \A k \in 1..idx : At(heap, list[cur], k) \in result \cup Items(heap, newList)
    BY <1>2 DEF LoopInv
  <2>3. \A k \in 1..(idx + 1) : At(heap', list[cur], k) \in result \cup Items(heap', newList')
    BY <1>4, <1>5, <2>1, <2>2
  <2>4. idx + 1 <= list[cur].len
    BY <1>1 DEF Slices
  <2>5. \A x \in Senders : Waiting(x)' => x \in Known'
    BY <1>2, <1>3 DEF LoopInv, Waiting, Known
  <2>6. \A x \in Items(heap', newList') : WorkOf[x] # work
    BY <1>2, <1>4, <1>5 DEF LoopInv
  <2> QED BY <1>1, <1>2, <1>3, <1>4, <2>3, <2>4, <2>5, <2>6, Zenon DEF LoopInv
<1>7. Held' = Held
  BY <1>1, <1>3, <1>4 DEF Held
<1> QED BY <1>3, <1>4, <1>6, <1>7 DEF CacheInv

LEMMA NextMessageStep ==
  ASSUME CacheInv, NextMessage
  PROVE  CacheInv' /\ Held' = Held /\ given' = given
<1>1. CASE WorkOf[At(heap, list[cur], idx + 1)] = work
  <2>1. Select
    BY <1>1 DEF NextMessage
  <2> QED BY <1>1, <2>1, SelectStep
<1>2. CASE WorkOf[At(heap, list[cur], idx + 1)] # work
  <2>1. Keep
    BY <1>2 DEF NextMessage
  <2> QED BY <1>2, <2>1, KeepStep
<1> QED BY <1>1, <1>2

\* Collecting garbage changes no list that is left.
LEMMA CollectSame ==
  ASSUME TypeOK, Collect(heap), NEW x \in Slices, Valid(heap, x), x.arr \in Used'
  PROVE  /\ heap' \in [Arrays -> Seq(Msgs \cup {Nil})]
         /\ Valid(heap', x)
         /\ Items(heap', x) = Items(heap, x)
<1>1. heap \in [Arrays -> Seq(Msgs \cup {Nil})]
  BY DEF TypeOK
<1>2. /\ heap' \in [Arrays -> Seq(Msgs \cup {Nil})]
      /\ \A a \in Arrays : a \in Used' => heap'[a] = heap[a]
  BY <1>1, Collected
<1>3. x.arr # 0 => heap'[x.arr] = heap[x.arr]
  BY <1>2 DEF Slices
<1> QED BY <1>2, <1>3, SameArray, Zenon

LEMMA SetListStep ==
  ASSUME CacheInv, SetList
  PROVE  CacheInv' /\ Held' = Held /\ given' = given
<1>1. /\ TypeOK /\ SliceInv /\ LoopInv /\ ApartInv /\ cur # Nil /\ work # Nil /\ cur \in Senders
      /\ list \in [Senders -> Slices] /\ newList \in Slices /\ cur \notin left
  BY DEF CacheInv, SetList, LoopInv, TypeOK
<1>2. /\ UNCHANGED <<newList, work, left, result, todo, given, pops, limit>>
      /\ list' = [list EXCEPT ![cur] = newList] /\ cur' = Nil /\ idx' = 0
      /\ Collect(heap) /\ idx = list[cur].len
  BY DEF SetList
<1>3. list'[cur] = newList /\ \A x \in Senders \ {cur} : list'[x] = list[x]
  BY <1>1, <1>2
<1>4. newList.arr \in Used' /\ \A x \in Senders \ {cur} : list[x].arr \in Used'
  BY <1>2, <1>3 DEF Used
<1>5. /\ heap' \in [Arrays -> Seq(Msgs \cup {Nil})]
      /\ Valid(heap', newList)
      /\ Items(heap', newList) = Items(heap, newList)
  BY <1>1, <1>2, <1>4, CollectSame DEF SliceInv
<1>6. \A x \in Senders \ {cur} : Valid(heap', list[x]) /\ Items(heap', list[x]) = Items(heap, list[x])
  <2> TAKE x \in Senders \ {cur}
  <2>1. list[x] \in Slices /\ Valid(heap, list[x]) /\ list[x].arr \in Used'
    BY <1>1, <1>4 DEF SliceInv
  <2> QED BY <1>1, <1>2, <2>1, CollectSame
<1>7. TypeOK'
  <2>1. list' \in [Senders -> Slices]
    BY <1>1, <1>2
  <2> QED BY <1>1, <1>2, <1>5, <2>1 DEF TypeOK
<1>8. SliceInv' /\ Known' = Known
  <2>1. Known' = Known
    BY <1>2 DEF Known
  <2>2. cur \in Known
    BY <1>1 DEF LoopInv, Waiting
  <2>3. \A x \in Senders : x \notin Known => list'[x] = Empty
    BY <1>1, <1>3, <2>2 DEF SliceInv
  <2>4. \A x \in Senders : Valid(heap', list'[x])
    BY <1>3, <1>5, <1>6
  <2> QED BY <1>2, <1>5, <2>1, <2>3, <2>4 DEF SliceInv
<1>9. \A x \in Senders : Waiting(x)' <=> Waiting(x) /\ x # cur
  BY <1>1, <1>2, NilAssumption DEF Waiting
<1>10. ApartInv'
  <2> SUFFICES ASSUME NEW x \in Senders
               PROVE  IF Waiting(x)'
                      THEN newList.arr # 0 => list'[x].arr # newList.arr
                      ELSE /\ list'[x].arr = newList.arr => list'[x].lo = 0 /\ list'[x].len <= newList.len
                           /\ Items(heap', list'[x]) \subseteq Items(heap', newList)
    BY <1>2 DEF ApartInv
  <2>1. CASE x = cur
    <3>1. newList.lo = 0 /\ newList.len \in Nat
      BY <1>1 DEF LoopInv, Slices
    <3>2. list'[x] = newList /\ ~Waiting(x)'
      BY <1>3, <1>9, <2>1, Zenon
    <3>3. newList.len <= newList.len
      BY <3>1
    <3>4. /\ list'[x].lo = 0 /\ list'[x].len <= newList.len
          /\ Items(heap', list'[x]) \subseteq Items(heap', newList)
      BY <3>1, <3>2, <3>3, Zenon
    <3> QED BY <3>2, <3>4, Zenon
  <2>2. CASE x # cur
    BY <1>1, <1>3, <1>5, <1>6, <1>9, <2>2 DEF ApartInv
  <2> QED BY <2>1, <2>2
<1>11. LoopInv'
  <2>1. \E x \in Senders : list'[x] = newList
    BY <1>1, <1>3
  <2> QED BY <1>1, <1>2, <1>5, <1>8, <1>9, <2>1 DEF LoopInv
<1>12. Held' = Held
  <2>1. Items(heap, list[cur]) \subseteq result \cup Items(heap, newList)
    <3>1. \A k \in 1..list[cur].len : At(heap, list[cur], k) \in result \cup Items(heap, newList)
      BY <1>1, <1>2 DEF LoopInv
    <3> QED BY <3>1, Zenon DEF Items
  <2>2. \A x \in Senders : x # cur => Items(heap', list'[x]) = Items(heap, list[x])
    BY <1>3, <1>6
  <2>3. Items(heap', list'[cur]) = Items(heap, newList)
    BY <1>3, <1>5
  <2>4. result' = result /\ Items(heap', newList') = Items(heap, newList)
    BY <1>2, <1>5
  <2>5. \A x \in Senders : \/ Items(heap', list'[x]) = Items(heap, list[x])
                            \/ /\ Items(heap', list'[x]) = Items(heap, newList)
                               /\ Items(heap, list[x]) \subseteq result \cup Items(heap, newList)
    BY <2>1, <2>2, <2>3, Zenon
  <2>6. Held' \subseteq Held
    BY <2>4, <2>5 DEF Held
  <2>7. Held \subseteq Held'
    BY <2>4, <2>5 DEF Held
  <2> QED BY <2>6, <2>7
<1> QED BY <1>2, <1>7, <1>8, <1>10, <1>11, <1>12 DEF CacheInv

\* The end of a pop is an abstract Pop.
LEMMA ReturnStep ==
  ASSUME CacheInv, Return
  PROVE  /\ CacheInv'
         /\ work \in Works
         /\ given' = {m \in Held : WorkOf[m] = work}
         /\ Held' = {m \in Held : WorkOf[m] # work}
<1>1. /\ TypeOK /\ SliceInv /\ LoopInv /\ ApartInv /\ work \in Works /\ cur = Nil /\ left = {}
      /\ list \in [Senders -> Slices]
  BY DEF CacheInv, Return, TypeOK
<1>2. /\ UNCHANGED <<list, left, cur, idx, todo, pops, limit>>
      /\ given' = result /\ work' = Nil /\ newList' = Empty /\ result' = {} /\ Collect(heap)
  BY DEF Return
<1>3. ASSUME NEW x \in Senders
      PROVE  /\ heap' \in [Arrays -> Seq(Msgs \cup {Nil})]
             /\ Valid(heap', list[x])
             /\ Items(heap', list[x]) = Items(heap, list[x])
  <2>1. list[x] \in Slices /\ Valid(heap, list[x]) /\ list[x].arr \in Used'
    BY <1>1, <1>2 DEF SliceInv, Used
  <2> QED BY <1>1, <1>2, <2>1, CollectSame
<1>4. heap' \in [Arrays -> Seq(Msgs \cup {Nil})]
  BY <1>3, SendersAssumption
<1>5. TypeOK'
  BY <1>1, <1>2, <1>4, EmptyItems, Zenon DEF TypeOK
<1>6. \A x \in Senders : ~Waiting(x) /\ ~Waiting(x)'
  BY <1>1, <1>2, NilAssumption DEF Waiting
<1>7. SliceInv'
  BY <1>1, <1>2, <1>3, EmptyItems DEF SliceInv, Known
<1>8. LoopInv'
  BY <1>1, <1>2, <1>6, EmptyItems DEF LoopInv, Empty
<1>9. /\ \A m \in result : WorkOf[m] = work
      /\ \A m \in Items(heap, newList) : WorkOf[m] # work
      /\ newList # Empty => \E x \in Senders : list[x] = newList
      /\ \A x \in Senders : Items(heap, list[x]) \subseteq Items(heap, newList)
  BY <1>1, <1>6 DEF LoopInv, ApartInv
<1>10. given' = {m \in Held : WorkOf[m] = work}
  BY <1>2, <1>9, Zenon DEF Held
<1>11. Held' = UNION {Items(heap, list[x]) : x \in Senders}
  BY <1>2, <1>3, EmptyItems DEF Held
<1>12. Items(heap, newList) \subseteq UNION {Items(heap, list[x]) : x \in Senders}
  BY <1>9, EmptyItems
<1>13. Held' = {m \in Held : WorkOf[m] # work}
  BY <1>9, <1>11, <1>12 DEF Held
<1> QED BY <1>1, <1>2, <1>5, <1>7, <1>8, <1>10, <1>13 DEF CacheInv

-----------------------------------------------------------------------------
(* How long the lists become *)

LEMMA SendersCount ==
  /\ Cardinality(Senders) \in Nat /\ Cardinality(Senders) >= 1
  /\ \A S \in SUBSET Senders : IsFiniteSet(S) /\ Cardinality(S) \in Nat /\ Cardinality(S) <= Cardinality(Senders)
<1>1. Cardinality(Senders) \in Nat
  BY SendersAssumption, FS_CardinalityType
<1>2. Cardinality(Senders) # 0
  BY SendersAssumption, FS_EmptySet
<1>3. \A S \in SUBSET Senders : IsFiniteSet(S) /\ Cardinality(S) <= Cardinality(Senders)
  BY SendersAssumption, FS_Subset
<1>4. \A S \in SUBSET Senders : Cardinality(S) \in Nat
  BY <1>3, FS_CardinalityType
<1> QED BY <1>1, <1>2, <1>3, <1>4

LEMMA AddGrowth ==
  ASSUME CacheInv, GrowthInv, NEW m \in Msgs, AddMessage(m)
  PROVE  GrowthInv'
<1> DEFINE f == From[m]
<1>1. /\ f \in Senders /\ list \in [Senders -> Slices] /\ limit \in Nat /\ TypeOK
      /\ list[f] \in Slices /\ Valid(heap, list[f])
  BY MessagesAssumption DEF CacheInv, TypeOK, SliceInv
<1>2. /\ list' = [list EXCEPT ![f] = AppendSlice(Trim(list[f]))]
      /\ limit' = limit /\ work = Nil /\ work' = Nil
  BY DEF AddMessage, loop
<1>3. limit >= MaxMessagePerNode /\ \A x \in Senders : list[x].len <= limit
  BY <1>2 DEF GrowthInv, GrowthBounded
<1> HIDE DEF f
<1>4. /\ Trim(list[f]) \in Slices /\ Valid(heap, Trim(list[f]))
      /\ list[f].len < MaxMessagePerNode => Trim(list[f]) = list[f]
      /\ list[f].len >= MaxMessagePerNode => Trim(list[f]).len = list[f].len - 1
  BY <1>1, Trimmed
<1>5. AppendSlice(Trim(list[f])).len = Trim(list[f]).len + 1
  BY <1>1, <1>4, AppendedSlice
<1>6. AppendSlice(Trim(list[f])).len <= limit
  <2>1. list[f].len \in Nat /\ MaxMessagePerNode \in Nat
    BY <1>1, LimitAssumption DEF Slices
  <2>2. limit \in Nat /\ limit >= MaxMessagePerNode /\ list[f].len <= limit
    BY <1>1, <1>3, Zenon
  <2>3. CASE list[f].len < MaxMessagePerNode
    <3>1. AppendSlice(Trim(list[f])).len = list[f].len + 1
      BY <1>4, <1>5, <2>3, Zenon
    <3> QED BY <2>1, <2>2, <2>3, <3>1
  <2>4. CASE list[f].len >= MaxMessagePerNode
    <3>1. AppendSlice(Trim(list[f])).len = (list[f].len - 1) + 1
      BY <1>4, <1>5, <2>4, Zenon
    <3> QED BY <2>1, <2>2, <3>1
  <2> QED BY <2>1, <2>3, <2>4
<1>7. \A x \in Senders : list'[x].len <= limit
  BY <1>1, <1>2, <1>3, <1>6
<1> QED BY <1>2, <1>3, <1>7 DEF GrowthInv, GrowthBounded

LEMMA PopGrowth ==
  ASSUME CacheInv, GrowthInv, NEW w \in Works, PopAllMessages(w)
  PROVE  GrowthInv'
<1> DEFINE c == Cardinality(Senders)
<1>1. /\ limit \in Nat /\ list \in [Senders -> Slices] /\ SliceInv
      /\ work = Nil /\ newList = Empty /\ cur = Nil
  BY DEF CacheInv, TypeOK, LoopInv, PopAllMessages
<1>2. /\ UNCHANGED <<list, newList, cur>>
      /\ work' = w /\ w # Nil /\ left' = Known /\ limit' = limit * c
  BY NilAssumption DEF PopAllMessages, lists
<1>3. limit >= MaxMessagePerNode /\ \A x \in Senders : list[x].len <= limit
  BY <1>1 DEF GrowthInv, GrowthBounded
<1>4. Known \in SUBSET Senders
  BY MessagesAssumption DEF Known
<1>5. c \in Nat /\ c >= 1 /\ Cardinality(Known) \in Nat /\ Cardinality(Known) <= c
  BY <1>4, SendersCount
<1> HIDE DEF c
<1>6. limit * c >= limit /\ limit * Cardinality(Known) <= limit * c
  BY <1>1, <1>5
<1>7. limit * c >= MaxMessagePerNode
  BY <1>1, <1>3, <1>5, <1>6, LimitAssumption
<1>8. \A x \in Senders : Waiting(x)' <=> x \in Known
  BY <1>1, <1>2, NilAssumption DEF Waiting
<1>9. \A x \in Senders : x \notin Known => list[x].len <= newList.len
  BY <1>1 DEF SliceInv, Empty
<1>10. newList'.len + Rest' + limit * Cardinality(left') <= limit'
  <2>1. newList'.len = 0 /\ Rest' = 0
    BY <1>1, <1>2 DEF Rest, Empty
  <2> QED BY <1>1, <1>2, <1>5, <1>6, <2>1
<1>11. /\ limit' = limit * Cardinality(Senders)
       /\ limit <= limit'
       /\ \A s \in Senders : Waiting(s)' => list'[s].len <= limit
       /\ \A s \in Senders : ~Waiting(s)' => list'[s].len <= newList'.len
  BY <1>1, <1>2, <1>3, <1>5, <1>6, <1>8, <1>9 DEF c
<1>12. limit' >= MaxMessagePerNode /\ work' # Nil
  BY <1>2, <1>7
<1> QED BY <1>1, <1>10, <1>11, <1>12 DEF GrowthInv, Growing

LEMMA NextValueGrowth ==
  ASSUME CacheInv, GrowthInv, NEW s \in Senders, NextValue(s)
  PROVE  GrowthInv'
<1>1. /\ limit \in Nat /\ list \in [Senders -> Slices] /\ newList \in Slices /\ left \in SUBSET Senders
      /\ work # Nil /\ cur = Nil /\ s \in left
  BY DEF CacheInv, TypeOK, NextValue
<1>2. /\ UNCHANGED <<list, newList, work, limit>>
      /\ left' = left \ {s} /\ cur' = s /\ idx' = 0 /\ s # Nil
  BY NilAssumption DEF NextValue, lists
<1>3. PICK n \in Nat : Growing(n)
  BY <1>1 DEF GrowthInv
<1>4. \A x \in Senders : Waiting(x)' <=> Waiting(x)
  BY <1>1, <1>2, NilAssumption DEF Waiting
<1>5. list[s].len \in Nat /\ newList.len \in Nat /\ list[s].len <= n
  BY <1>1, <1>3 DEF Slices, Growing, Waiting
<1>6. Cardinality(left) \in Nat /\ Cardinality(left \ {s}) = Cardinality(left) - 1
  BY <1>1, SendersCount, FS_RemoveElement
<1>7. newList.len + n * Cardinality(left) <= limit
  BY <1>1, <1>3, <1>5, <1>6 DEF Growing, Rest
<1>8. Rest' = list[s].len
  BY <1>2, <1>5 DEF Rest
<1>9. n * (Cardinality(left) - 1) = n * Cardinality(left) - n /\ n * Cardinality(left) \in Nat
  BY <1>3, <1>6
<1>10. newList'.len + Rest' + n * Cardinality(left') <= limit'
  <2>1. newList.len + list[s].len + (n * Cardinality(left) - n) <= limit
    BY <1>1, <1>5, <1>7, <1>9
  <2>2. n * Cardinality(left') = n * Cardinality(left) - n
    BY <1>2, <1>6, <1>9, Zenon
  <2> QED BY <1>2, <1>8, <2>1, <2>2, Zenon
<1>11. limit >= MaxMessagePerNode
  BY DEF GrowthInv
<1> QED BY <1>1, <1>2, <1>3, <1>4, <1>10, <1>11 DEF GrowthInv, Growing

LEMMA NextMessageGrowth ==
  ASSUME CacheInv, GrowthInv, NextMessage
  PROVE  GrowthInv'
<1>1. /\ limit \in Nat /\ TypeOK /\ newList \in Slices /\ Valid(heap, newList) /\ left \in SUBSET Senders
  BY DEF CacheInv, TypeOK, SliceInv
<1>2. cur \in Senders /\ idx \in Nat /\ idx + 1 \in 1..list[cur].len /\ work # Nil /\ list[cur] \in Slices
  BY Current
<1>3. UNCHANGED <<list, work, left, cur, limit>> /\ idx' = idx + 1 /\ cur # Nil
  BY DEF NextMessage, Select, Keep, lists
<1>4. newList'.len \in {newList.len, newList.len + 1} /\ newList.len \in Nat
  <2>1. newList' = newList \/ newList' = AppendSlice(newList)
    BY DEF NextMessage, Select, Keep, lists
  <2>2. AppendSlice(newList).len = newList.len + 1
    BY <1>1, AppendedSlice
  <2> QED BY <1>1, <2>1, <2>2 DEF Slices
<1>5. PICK n \in Nat : Growing(n)
  BY <1>2 DEF GrowthInv
<1>6. Rest' = Rest - 1 /\ Rest \in Nat
  BY <1>2, <1>3 DEF Rest, Slices
<1>7. n * Cardinality(left) \in Nat
  <2>1. Cardinality(left) \in Nat
    BY <1>1, SendersCount
  <2> QED BY <1>5, <2>1
<1>8. newList'.len + Rest' + n * Cardinality(left') <= limit'
  <2>1. newList.len + Rest + n * Cardinality(left) <= limit
    BY <1>5 DEF Growing
  <2> QED BY <1>1, <1>3, <1>4, <1>6, <1>7, <2>1
<1>9. \A x \in Senders : ~Waiting(x)' => list'[x].len <= newList'.len
  <2>1. \A x \in Senders : list[x].len \in Nat
    BY DEF CacheInv, TypeOK, Slices
  <2>2. \A x \in Senders : ~Waiting(x)' => list[x].len <= newList.len
    BY <1>3, <1>5 DEF Growing, Waiting
  <2> QED BY <1>3, <1>4, <2>1, <2>2
<1>10. \A x \in Senders : Waiting(x)' => list'[x].len <= n
  BY <1>3, <1>5 DEF Growing, Waiting
<1>11. limit' = n * Cardinality(Senders) /\ n <= limit' /\ limit' >= MaxMessagePerNode /\ work' # Nil
  BY <1>2, <1>3, <1>5 DEF Growing, GrowthInv
<1> QED BY <1>5, <1>8, <1>9, <1>10, <1>11 DEF GrowthInv, Growing

LEMMA SetListGrowth ==
  ASSUME CacheInv, GrowthInv, SetList
  PROVE  GrowthInv'
<1>1. /\ limit \in Nat /\ list \in [Senders -> Slices] /\ newList \in Slices /\ left \in SUBSET Senders
      /\ work # Nil /\ cur # Nil /\ cur \in Senders /\ cur \notin left
  BY DEF CacheInv, TypeOK, LoopInv, SetList
<1>2. /\ UNCHANGED <<newList, work, left, limit>>
      /\ list' = [list EXCEPT ![cur] = newList] /\ cur' = Nil /\ idx = list[cur].len
  BY DEF SetList
<1>3. PICK n \in Nat : Growing(n)
  BY <1>1 DEF GrowthInv
<1>4. list'[cur] = newList /\ \A x \in Senders \ {cur} : list'[x] = list[x]
  BY <1>1, <1>2
<1>5. \A x \in Senders : Waiting(x)' <=> Waiting(x) /\ x # cur
  BY <1>1, <1>2, NilAssumption DEF Waiting
<1>6. Rest = 0 /\ Rest' = 0
  <2>1. list[cur].len \in Nat
    BY <1>1 DEF Slices
  <2> QED BY <1>1, <1>2, <2>1 DEF Rest
<1>7. newList.len \in Nat
  BY <1>1 DEF Slices
<1>8. \A x \in Senders : ~Waiting(x)' => list'[x].len <= newList'.len
  BY <1>2, <1>3, <1>4, <1>5, <1>7 DEF Growing
<1>9. \A x \in Senders : Waiting(x)' => list'[x].len <= n
  BY <1>3, <1>4, <1>5 DEF Growing
<1>10. newList'.len + Rest' + n * Cardinality(left') <= limit'
  BY <1>2, <1>3, <1>6 DEF Growing
<1>11. limit' = n * Cardinality(Senders) /\ n <= limit' /\ limit' >= MaxMessagePerNode /\ work' # Nil
  BY <1>1, <1>2, <1>3 DEF Growing, GrowthInv
<1> QED BY <1>3, <1>8, <1>9, <1>10, <1>11 DEF GrowthInv, Growing

LEMMA ReturnGrowth ==
  ASSUME CacheInv, GrowthInv, Return
  PROVE  GrowthInv'
<1>1. /\ limit \in Nat /\ list \in [Senders -> Slices] /\ newList \in Slices
      /\ work # Nil /\ cur = Nil /\ left = {}
  BY DEF CacheInv, TypeOK, Return
<1>2. UNCHANGED <<list, limit>> /\ work' = Nil
  BY DEF Return
<1>3. PICK n \in Nat : Growing(n)
  BY <1>1 DEF GrowthInv
<1>4. newList.len <= limit /\ newList.len \in Nat
  <2>1. Cardinality(left) = 0 /\ Rest = 0
    BY <1>1, FS_EmptySet DEF Rest
  <2>2. newList.len \in Nat
    BY <1>1 DEF Slices
  <2> QED BY <1>1, <1>3, <2>1, <2>2 DEF Growing
<1>5. \A x \in Senders : list[x].len <= limit
  <2>1. \A x \in Senders : ~Waiting(x)
    BY <1>1, NilAssumption DEF Waiting
  <2>2. \A x \in Senders : list[x].len \in Nat
    BY <1>1 DEF Slices
  <2> QED BY <1>1, <1>3, <1>4, <2>1, <2>2 DEF Growing
<1> QED BY <1>2, <1>5 DEF GrowthInv, GrowthBounded

\* GrowthInv implies what is checked, inside a pop as well.
LEMMA GrowthImplies == CacheInv /\ GrowthInv => GrowthBounded
<1> SUFFICES ASSUME CacheInv, GrowthInv PROVE GrowthBounded
  OBVIOUS
<1>1. CASE work = Nil
  BY <1>1 DEF GrowthInv
<1>2. CASE work # Nil
  <2>1. PICK n \in Nat : Growing(n)
    BY <1>2 DEF GrowthInv
  <2>2. /\ limit \in Nat /\ newList.len \in Nat /\ \A x \in Senders : list[x].len \in Nat
    BY DEF CacheInv, TypeOK, Slices
  <2>3. Rest \in Nat
    <3>1. CASE cur = Nil
      BY <3>1 DEF Rest
    <3>2. CASE cur # Nil
      <4>1. cur \in Senders /\ idx \in Nat /\ idx <= list[cur].len
        BY <3>2 DEF CacheInv, TypeOK, LoopInv
      <4> QED BY <2>2, <3>2, <4>1 DEF Rest
    <3> QED BY <3>1, <3>2
  <2>4. Cardinality(left) \in Nat
    BY SendersCount DEF CacheInv, TypeOK
  <2>5. n * Cardinality(left) \in Nat
    BY <2>1, <2>4
  <2>6. newList.len <= limit
    BY <2>1, <2>2, <2>3, <2>5 DEF Growing
  <2>7. \A x \in Senders : list[x].len <= limit
    BY <2>1, <2>2, <2>6 DEF Growing
  <2> QED BY <2>7 DEF GrowthBounded
<1> QED BY <1>1, <1>2

-----------------------------------------------------------------------------
(* The theorems *)

LEMMA StutterInv ==
  ASSUME UNCHANGED vars
  PROVE  /\ CacheInv => CacheInv'
         /\ GrowthInv => GrowthInv'
         /\ Held' = Held /\ given' = given
<1>1. UNCHANGED <<heap, list, newList, work, left, cur, idx, result, todo, given, pops, limit>>
  BY DEF vars, lists, loop
<1>2. Held' = Held
  BY <1>1 DEF Held
<1>3. CacheInv => CacheInv'
  BY <1>1, Zenon DEF CacheInv, TypeOK, SliceInv, Known, LoopInv, ApartInv, Waiting
<1>4. GrowthInv => GrowthInv'
  BY <1>1, Zenon DEF GrowthInv, Growing, GrowthBounded, Rest, Waiting
<1> QED BY <1>1, <1>2, <1>3, <1>4

\* Every list is a window on its array with messages in it, what a pop has gone
\* through is selected or kept, and the lists it has not come to are not touched
\* by what it appends.
THEOREM CacheCorrect == Spec => []CacheInv
<1>1. CacheInv /\ [Next]_vars => CacheInv'
  <2> SUFFICES ASSUME CacheInv, [Next]_vars PROVE CacheInv'
    OBVIOUS
  <2>1. CASE \E m \in Msgs : AddMessage(m)
    BY <2>1, AddStep
  <2>2. CASE \E w \in Works : PopAllMessages(w)
    BY <2>2, PopStep
  <2>3. CASE \E s \in Senders : NextValue(s)
    BY <2>3, NextValueStep
  <2>4. CASE NextMessage
    BY <2>4, NextMessageStep
  <2>5. CASE SetList
    BY <2>5, SetListStep
  <2>6. CASE Return
    BY <2>6, ReturnStep
  <2>7. CASE UNCHANGED vars
    BY <2>7, StutterInv
  <2> QED BY <2>1, <2>2, <2>3, <2>4, <2>5, <2>6, <2>7 DEF Next
<1> QED BY <1>1, InitInv, PTL DEF Spec

\* The limit of a list holds until messages are popped, and each pop multiplies
\* the length of a list at most by the number of senders: GrowthBounded, for any
\* number of senders, messages and pops.
THEOREM ListsBounded == Spec => []GrowthBounded
<1>1. Init => GrowthInv
  <2> SUFFICES ASSUME Init PROVE GrowthInv
    OBVIOUS
  <2>1. limit = MaxMessagePerNode /\ MaxMessagePerNode \in Nat /\ work = Nil
        /\ \A s \in Senders : list[s].len = 0
    BY LimitAssumption DEF Init, Empty
  <2> QED BY <2>1 DEF GrowthInv, GrowthBounded
<1>2. CacheInv /\ GrowthInv /\ [Next]_vars => GrowthInv'
  <2> SUFFICES ASSUME CacheInv, GrowthInv, [Next]_vars PROVE GrowthInv'
    OBVIOUS
  <2>1. CASE \E m \in Msgs : AddMessage(m)
    BY <2>1, AddGrowth
  <2>2. CASE \E w \in Works : PopAllMessages(w)
    BY <2>2, PopGrowth
  <2>3. CASE \E s \in Senders : NextValue(s)
    BY <2>3, NextValueGrowth
  <2>4. CASE NextMessage
    BY <2>4, NextMessageGrowth
  <2>5. CASE SetList
    BY <2>5, SetListGrowth
  <2>6. CASE Return
    BY <2>6, ReturnGrowth
  <2>7. CASE UNCHANGED vars
    BY <2>7, StutterInv
  <2> QED BY <2>1, <2>2, <2>3, <2>4, <2>5, <2>6, <2>7 DEF Next
<1> QED BY <1>1, <1>2, CacheCorrect, GrowthImplies, PTL DEF Spec

\* The slices implement the cache the engine relies on (module CacheSpec): adding
\* a message is its Add, the end of getAllMessages is its Pop, and no other turn
\* of the loops changes what is held or what was given.
THEOREM CacheRefines == Spec => ImplementsCache
<1>1. Init => Abstract!Init
  <2> SUFFICES ASSUME Init PROVE Held = {} /\ given = {}
    BY DEF Abstract!Init
  <2> QED BY EmptyItems DEF Init, Held
<1>2. CacheInv /\ [Next]_vars => [Abstract!Next]_<<Held, given>>
  <2> SUFFICES ASSUME CacheInv, [Next]_vars PROVE Abstract!Next \/ UNCHANGED <<Held, given>>
    OBVIOUS
  <2>1. ASSUME NEW m \in Msgs, AddMessage(m) PROVE Abstract!Next
    <3>1. Held' \subseteq Held \cup {m} /\ m \in Held' /\ given' = {}
      BY <2>1, AddStep
    <3>2. Abstract!Add(m)
      BY <3>1 DEF Abstract!Add, Abstract!AddMessage
    <3> QED BY <3>2 DEF Abstract!Next
  <2>2. ASSUME NEW w \in Works, PopAllMessages(w) PROVE UNCHANGED <<Held, given>>
    BY <2>2, PopStep
  <2>3. ASSUME NEW s \in Senders, NextValue(s) PROVE UNCHANGED <<Held, given>>
    BY <2>3, NextValueStep
  <2>4. CASE NextMessage
    BY <2>4, NextMessageStep
  <2>5. CASE SetList
    BY <2>5, SetListStep
  <2>6. CASE Return
    <3>1. /\ work \in Works
          /\ given' = {m \in Held : WorkOf[m] = work}
          /\ Held' = {m \in Held : WorkOf[m] # work}
      BY <2>6, ReturnStep
    <3>2. Abstract!Pop(work)
      BY <3>1 DEF Abstract!Pop, Abstract!GetAllMessages, Abstract!PopAllMessages
    <3> QED BY <3>1, <3>2 DEF Abstract!Next
  <2>7. CASE UNCHANGED vars
    BY <2>7, StutterInv
  <2> QED BY <2>1, <2>2, <2>3, <2>4, <2>5, <2>6, <2>7 DEF Next
<1> QED BY <1>1, <1>2, CacheCorrect, PTL DEF Spec, ImplementsCache, Abstract!Spec

\* A message is lost without being returned only by an append for a sender whose
\* list is full or shares its array with another sender's.
THEOREM LossExplained == Spec => LossOnlyAtLimitOrShared
<1> DEFINE Loss == \A m \in Msgs : m \in Held /\ m \notin Held' /\ m \notin given' =>
                     \E s \in Senders : /\ list'[s] # list[s]
                                        /\ list[s].len >= MaxMessagePerNode \/ Shared(s)
<1>1. CacheInv /\ [Next]_vars => [Loss]_vars
  <2> SUFFICES ASSUME CacheInv, [Next]_vars PROVE Loss \/ UNCHANGED vars
    OBVIOUS
  <2>1. ASSUME NEW m \in Msgs, AddMessage(m) PROVE Loss
    <3> DEFINE f == From[m]
    <3>1. /\ f \in Senders /\ list \in [Senders -> Slices] /\ SliceInv
          /\ newList = Empty /\ result = {}
      BY <2>1, MessagesAssumption DEF CacheInv, TypeOK, LoopInv, AddMessage
    <3>2. /\ Items(heap', list'[f]) = Items(heap, Trim(list[f])) \cup {m}
          /\ \A x \in Senders \ {f} :
               /\ list'[x] = list[x]
               /\ ~Shared(f) => Items(heap', list[x]) = Items(heap, list[x])
          /\ list'[f] # list[f]
      BY <2>1, AddLists
    <3> HIDE DEF f
    <3>3. ~(list[f].len >= MaxMessagePerNode) => Trim(list[f]) = list[f]
      BY DEF Trim
    <3>4. CASE list[f].len >= MaxMessagePerNode \/ Shared(f)
      BY <3>1, <3>2, <3>4
    <3>5. CASE ~(list[f].len >= MaxMessagePerNode \/ Shared(f))
      <4>1. \A x \in Senders : Items(heap, list[x]) \subseteq Items(heap', list'[x])
        BY <3>2, <3>3, <3>5
      <4>2. Held \subseteq Held'
        BY <3>1, <4>1, EmptyItems DEF Held
      <4> QED BY <4>2
    <3> QED BY <3>4, <3>5
  <2>2. ASSUME NEW w \in Works, PopAllMessages(w) PROVE Loss
    BY <2>2, PopStep
  <2>3. ASSUME NEW s \in Senders, NextValue(s) PROVE Loss
    BY <2>3, NextValueStep
  <2>4. CASE NextMessage
    BY <2>4, NextMessageStep
  <2>5. CASE SetList
    BY <2>5, SetListStep
  <2>6. CASE Return
    <3>1. /\ given' = {m \in Held : WorkOf[m] = work}
          /\ Held' = {m \in Held : WorkOf[m] # work}
      BY <2>6, ReturnStep
    <3> QED BY <3>1
  <2> QED BY <2>1, <2>2, <2>3, <2>4, <2>5, <2>6 DEF Next
<1> QED BY <1>1, CacheCorrect, PTL DEF Spec, LossOnlyAtLimitOrShared
=============================================================================
