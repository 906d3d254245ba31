-------------------------- MODULE ConnectionsProofs --------------------------
(***************************************************************************)
(* Proofs about the streams between two nodes, for any number of           *)
(* goroutines that write and breaks of the connection and any window.      *)
(***************************************************************************)
EXTENDS Connections, SequenceTheorems, FiniteSetTheorems, TLAPS

-----------------------------------------------------------------------------
(* Sequences of segments *)

\* A whole frame may be followed by the first segment of another.
LEMMA AppendHead ==
  ASSUME NEW u \in Seq(Segments), Framed(u), Len(u) % 2 = 0, NEW m \in Msgs
  PROVE  LET v == Append(u, <<m, 1>>)
         IN  Framed(v) /\ Len(v) % 2 = 1 /\ v[Len(v)] = <<m, 1>>
<1> DEFINE v == Append(u, <<m, 1>>)
<1>1. Len(u) \in Nat /\ Len(v) = Len(u) + 1 /\ v[Len(u) + 1] = <<m, 1>>
  OBVIOUS
<1>2. \A j \in 1..Len(u) : v[j] = u[j]
  OBVIOUS
<1>3. Len(v) % 2 = 1
  BY <1>1
<1> HIDE DEF v
<1>4. Framed(v)
  BY <1>1, <1>2, <1>3 DEF Framed
<1> QED BY <1>1, <1>3, <1>4 DEF v

\* The first segment may be followed by the second one of the same message.
LEMMA AppendBody ==
  ASSUME NEW u \in Seq(Segments), Framed(u), Len(u) % 2 = 1, NEW m \in Msgs, u[Len(u)] = <<m, 1>>
  PROVE  LET v == Append(u, <<m, 2>>)
         IN  Framed(v) /\ Len(v) % 2 = 0
<1> DEFINE v == Append(u, <<m, 2>>)
<1>1. Len(u) \in Nat /\ Len(v) = Len(u) + 1 /\ v[Len(u) + 1] = <<m, 2>>
  OBVIOUS
<1>2. \A j \in 1..Len(u) : v[j] = u[j]
  OBVIOUS
<1>3. Len(v) % 2 = 0 /\ v[Len(v) - 1] = <<m, 1>>
  <2>1. Len(u) # 0 /\ (Len(u) + 1) % 2 = 0
    BY <1>1
  <2>2. Len(u) \in 1..Len(u) /\ Len(v) - 1 = Len(u)
    BY <1>1, <2>1
  <2> QED BY <1>1, <1>2, <2>1, <2>2
<1> HIDE DEF v
<1>4. ASSUME NEW j \in 1..Len(v)
      PROVE  IF j % 2 = 1 THEN v[j][2] = 1 ELSE v[j] = <<v[j - 1][1], 2>>
  <2>1. CASE j = Len(v)
    BY <1>1, <1>3, <2>1
  <2>2. CASE j # Len(v)
    <3>1. j \in 1..Len(u) /\ v[j] = u[j] /\ (j % 2 # 1 => v[j - 1] = u[j - 1])
      BY <1>1, <1>2, <2>2
    <3> QED BY <3>1 DEF Framed
  <2> QED BY <2>1, <2>2
<1>5. Framed(v)
  BY <1>4 DEF Framed
<1> QED BY <1>3, <1>5 DEF v

\* The first frame may be taken away.
LEMMA DropFrame ==
  ASSUME NEW u \in Seq(Segments), NEW v \in Seq(Segments), Framed(u),
         Len(u) = Len(v) + 2, \A j \in 1..Len(v) : v[j] = u[j + 2]
  PROVE  /\ Framed(v)
         /\ Len(v) % 2 = Len(u) % 2
         /\ Len(u) % 2 = 1 => v[Len(v)] = u[Len(u)]
<1>1. Len(u) \in Nat /\ Len(v) \in Nat
  OBVIOUS
<1>2. Len(v) % 2 = Len(u) % 2
  BY <1>1
<1>3. ASSUME NEW j \in 1..Len(v)
      PROVE  IF j % 2 = 1 THEN v[j][2] = 1 ELSE v[j] = <<v[j - 1][1], 2>>
  <2>1. j + 2 \in 1..Len(u) /\ (j + 2) % 2 = j % 2 /\ v[j] = u[j + 2]
    BY <1>1
  <2>2. CASE j % 2 = 1
    BY <2>1, <2>2 DEF Framed
  <2>3. CASE j % 2 # 1
    <3>1. j - 1 \in 1..Len(v) /\ v[j - 1] = u[(j + 2) - 1]
      BY <1>1, <2>3
    <3>2. u[j + 2] = <<u[(j + 2) - 1][1], 2>>
      BY <2>1, <2>3 DEF Framed
    <3> QED BY <2>1, <2>3, <3>1, <3>2
  <2> QED BY <2>2, <2>3
<1>4. Len(u) % 2 = 1 => v[Len(v)] = u[Len(u)]
  BY <1>1, <1>2
<1> QED BY <1>2, <1>3, <1>4 DEF Framed

-----------------------------------------------------------------------------
(* The invariant *)

StreamInv == StreamTypes /\ LockInv /\ MineInv /\ HalfInv /\ FramesWhole

\* What is unread of a stream, as a sequence.
LEMMA UnreadType ==
  ASSUME StreamTypes, NEW i \in Streams
  PROVE  /\ Unread(i) \in Seq(Segments)
         /\ partial[i] # Nobody => /\ Len(Unread(i)) = Len(wire[i]) + 1
                                   /\ Unread(i)[1] = <<partial[i], 1>>
                                   /\ \A j \in 1..Len(wire[i]) : Unread(i)[j + 1] = wire[i][j]
<1>1. wire[i] \in Seq(Segments)
  BY DEF StreamTypes
<1>2. CASE partial[i] = Nobody
  BY <1>1, <1>2 DEF Unread
<1>3. CASE partial[i] # Nobody
  <2>1. <<partial[i], 1>> \in Segments
    BY <1>3 DEF StreamTypes, Segments
  <2>2. <<<<partial[i], 1>>>> \in Seq(Segments)
    BY <2>1
  <2> QED BY <1>1, <1>3, <2>2 DEF Unread
<1> QED BY <1>2, <1>3

\* Appending to a stream appends to what is unread of it.
LEMMA UnreadAppend ==
  ASSUME StreamTypes, NEW i \in Streams, NEW x \in Segments,
         wire' = [wire EXCEPT ![i] = Append(@, x)], UNCHANGED partial
  PROVE  /\ Unread(i)' = Append(Unread(i), x)
         /\ \A k \in Streams \ {i} : Unread(k)' = Unread(k)
<1>1. wire[i] \in Seq(Segments) /\ wire'[i] = Append(wire[i], x)
  BY DEF StreamTypes
<1>2. \A k \in Streams \ {i} : wire'[k] = wire[k]
  BY DEF StreamTypes
<1>3. CASE partial[i] = Nobody
  BY <1>1, <1>2, <1>3 DEF Unread
<1>4. CASE partial[i] # Nobody
  <2>1. <<partial[i], 1>> \in Segments
    BY <1>4 DEF StreamTypes, Segments
  <2>2. <<<<partial[i], 1>>>> \o Append(wire[i], x) = Append(<<<<partial[i], 1>>>> \o wire[i], x)
    BY <1>1, <2>1
  <2> QED BY <1>1, <1>2, <1>4, <2>2 DEF Unread
<1> QED BY <1>3, <1>4

\* A step that changes no stream and in which nobody starts or ends a second
\* segment keeps the frames.
LEMMA SameStreams ==
  ASSUME HalfInv, FramesWhole, UNCHANGED <<wire, partial, broken>>,
         \A m \in Msgs, i \in Streams : InBody(m, i)' <=> InBody(m, i)
  PROVE  (HalfInv /\ FramesWhole)'
BY DEF HalfInv, FramesWhole, Unread

\* The frames stay whole when only stream i changes and its unread part is framed.
LEMMA OtherStreams ==
  ASSUME FramesWhole, NEW i, i \in Streams => Framed(Unread(i)'),
         \A k \in Streams : k # i => Unread(k)' = Unread(k)
  PROVE  FramesWhole'
<1>1. ASSUME NEW k \in Streams
      PROVE  Framed(Unread(k)')
  <2>1. CASE k = i
    BY <2>1
  <2>2. CASE k # i
    BY <2>2 DEF FramesWhole
  <2> QED BY <2>1, <2>2
<1> QED BY <1>1 DEF FramesWhole, Framed

\* Breaking streams empties all of them.
LEMMA BreakStep ==
  ASSUME StreamInv, BreakStreams, UNCHANGED <<pc, mine, lock, made, stored>>
  PROVE  StreamInv'
<1> USE DEF StreamInv
<1>1. StreamTypes' /\ LockInv' /\ MineInv'
  BY DEF BreakStreams, StreamTypes, LockInv, MineInv
<1>2. \A i \in Streams : Unread(i)' = << >> /\ wire'[i] = << >> /\ partial'[i] = Nobody
  BY DEF BreakStreams, Unread
<1>3. \A i \in Streams, m \in Msgs : ~InBody(m, i)'
  <2> SUFFICES ASSUME NEW i \in Streams, NEW m \in Msgs, pc[m] = "body", mine[m] = i
               PROVE  i \in 1..made
    BY DEF InBody, BreakStreams
  <2> QED BY DEF MineInv, StreamTypes
<1>4. HalfInv'
  BY <1>2, <1>3 DEF HalfInv
<1>5. FramesWhole'
  BY <1>2 DEF FramesWhole, Framed
<1> QED BY <1>1, <1>4, <1>5

\* A segment is appended by the goroutine that holds the lock.
LEMMA AppendStep ==
  ASSUME StreamTypes, NEW i, NEW x \in Segments,
         wire' = [wire EXCEPT ![i] = Append(@, x)], UNCHANGED partial
  PROVE  /\ wire' \in [Streams -> Seq(Segments)]
         /\ i \in Streams => Unread(i)' = Append(Unread(i), x)
         /\ \A k \in Streams : k # i => Unread(k)' = Unread(k) /\ wire'[k] = wire[k]
<1>0. wire \in [Streams -> Seq(Segments)]
  BY DEF StreamTypes
<1>1. CASE i \in Streams
  <2>1. Append(wire[i], x) \in Seq(Segments)
    BY <1>0, <1>1
  <2>2. wire' \in [Streams -> Seq(Segments)] /\ \A k \in Streams : k # i => wire'[k] = wire[k]
    BY <1>0, <1>1, <2>1
  <2>3. Unread(i)' = Append(Unread(i), x) /\ \A k \in Streams \ {i} : Unread(k)' = Unread(k)
    BY <1>1, UnreadAppend
  <2> QED BY <2>2, <2>3
<1>2. CASE i \notin Streams
  <2>1. wire' = wire
    BY <1>0, <1>2
  <2> QED BY <1>0, <1>2, <2>1 DEF Unread
<1> QED BY <1>1, <1>2

\* The first segment of a frame is written.
LEMMA HeadStep ==
  ASSUME StreamInv, NEW m \in Msgs, WriteHead(m)
  PROVE  StreamInv'
<1> USE DEF StreamInv
<1> PICK i : i = mine[m]
  OBVIOUS
<1>1. /\ pc[m] = "head" /\ pc' = [pc EXCEPT ![m] = "body"] /\ i \notin broken
      /\ wire' = [wire EXCEPT ![i] = Append(@, <<m, 1>>)]
      /\ UNCHANGED <<mine, lock, made, stored, broken, partial>>
  BY DEF WriteHead, Writable, host
<1>2. /\ wire' \in [Streams -> Seq(Segments)]
      /\ i \in Streams => Unread(i)' = Append(Unread(i), <<m, 1>>)
      /\ \A k \in Streams : k # i => Unread(k)' = Unread(k) /\ wire'[k] = wire[k]
  <2>1. <<m, 1>> \in Segments
    BY DEF Segments
  <2> QED BY <1>1, <2>1, AppendStep
<1>3. StreamTypes' /\ LockInv' /\ MineInv'
  BY <1>1, <1>2 DEF StreamTypes, LockInv, MineInv
<1>4. \A k \in Streams, n \in Msgs : InBody(n, k)' <=> (InBody(n, k) \/ (n = m /\ k = i))
  BY <1>1 DEF InBody, StreamTypes
<1>5. \A n \in Msgs : ~InBody(n, i)
  BY <1>1 DEF InBody, LockInv
<1>6. ASSUME i \in Streams
      PROVE  /\ Framed(Unread(i))' /\ (Len(Unread(i)) % 2 = 1)'
             /\ (Unread(i)[Len(Unread(i))])' = <<m, 1>>
  <2>1. Len(Unread(i)) % 2 = 0 /\ Framed(Unread(i)) /\ Unread(i) \in Seq(Segments)
    BY <1>5, <1>6, UnreadType DEF HalfInv, FramesWhole
  <2> DEFINE v == Append(Unread(i), <<m, 1>>)
  <2>2. Framed(v) /\ Len(v) % 2 = 1 /\ v[Len(v)] = <<m, 1>>
    BY <2>1, AppendHead
  <2>3. Unread(i)' = v
    BY <1>2, <1>6
  <2> HIDE DEF v
  <2> QED BY <2>2, <2>3 DEF Framed
<1>7. FramesWhole'
  <2>1. i \in Streams => Framed(Unread(i)')
    BY <1>6 DEF Framed
  <2> QED BY <1>2, <2>1, OtherStreams
<1>8. HalfInv'
  <2>1. ASSUME NEW k \in Streams, k # i
        PROVE  /\ k \in broken' => wire'[k] = << >> /\ partial'[k] = Nobody
               /\ \A n \in Msgs : InBody(n, k)' => /\ Len(Unread(k)') % 2 = 1
                                                   /\ Unread(k)'[Len(Unread(k)')] = <<n, 1>>
               /\ (\A n \in Msgs : ~InBody(n, k)') => Len(Unread(k)') % 2 = 0
    BY <1>1, <1>2, <1>4, <2>1 DEF HalfInv
  <2>2. ASSUME i \in Streams
        PROVE  /\ i \notin broken'
               /\ \A n \in Msgs : InBody(n, i)' => n = m
               /\ InBody(m, i)'
    BY <1>1, <1>4, <1>5, <2>2
  <2> QED BY <1>6, <2>1, <2>2 DEF HalfInv
<1> QED BY <1>3, <1>7, <1>8

\* The second segment is written.
LEMMA BodyStep ==
  ASSUME StreamInv, NEW m \in Msgs, WriteBody(m)
  PROVE  StreamInv'
<1> USE DEF StreamInv
<1> PICK i : i = mine[m]
  OBVIOUS
<1>1. /\ pc[m] = "body" /\ pc' = [pc EXCEPT ![m] = "ok"] /\ i \notin broken
      /\ wire' = [wire EXCEPT ![i] = Append(@, <<m, 2>>)]
      /\ UNCHANGED <<mine, made, stored, broken, partial>>
  BY DEF WriteBody, Writable, host
<1>2. /\ wire' \in [Streams -> Seq(Segments)]
      /\ i \in Streams => Unread(i)' = Append(Unread(i), <<m, 2>>)
      /\ \A k \in Streams : k # i => Unread(k)' = Unread(k) /\ wire'[k] = wire[k]
  <2>1. <<m, 2>> \in Segments
    BY DEF Segments
  <2> QED BY <1>1, <2>1, AppendStep
<1>3. StreamTypes' /\ LockInv' /\ MineInv'
  BY <1>1, <1>2 DEF StreamTypes, LockInv, MineInv
<1>4. \A k \in Streams, n \in Msgs : InBody(n, k)' <=> (InBody(n, k) /\ n # m)
  BY <1>1 DEF InBody, StreamTypes
<1>5. InBody(m, i) /\ \A n \in Msgs, k \in Streams : InBody(n, k) => n = m
  BY <1>1 DEF InBody, LockInv
<1>6. ASSUME i \in Streams
      PROVE  Framed(Unread(i))' /\ (Len(Unread(i)) % 2 = 0)'
  <2>1. /\ Len(Unread(i)) % 2 = 1 /\ Unread(i)[Len(Unread(i))] = <<m, 1>>
        /\ Framed(Unread(i)) /\ Unread(i) \in Seq(Segments)
    BY <1>5, <1>6, UnreadType DEF HalfInv, FramesWhole
  <2> DEFINE v == Append(Unread(i), <<m, 2>>)
  <2>2. Framed(v) /\ Len(v) % 2 = 0
    BY <2>1, AppendBody
  <2>3. Unread(i)' = v
    BY <1>2, <1>6
  <2> HIDE DEF v
  <2> QED BY <2>2, <2>3 DEF Framed
<1>7. FramesWhole'
  <2>1. i \in Streams => Framed(Unread(i)')
    BY <1>6 DEF Framed
  <2> QED BY <1>2, <2>1, OtherStreams
<1>8. \A k \in Streams : k # i => \A n \in Msgs : ~InBody(n, k)
  BY <1>5 DEF InBody
<1>9. HalfInv'
  BY <1>1, <1>2, <1>4, <1>5, <1>6, <1>8 DEF HalfInv
<1> QED BY <1>3, <1>7, <1>9

\* The reader of a stream takes its first segment.
LEMMA ReadFacts ==
  ASSUME StreamTypes, NEW i \in Streams, Read(i)
  PROVE  /\ wire' \in [Streams -> Seq(Segments)]
         /\ wire[i] \in Seq(Segments) /\ wire[i] # << >> /\ wire'[i] = Tail(wire[i])
         /\ Head(wire[i]) \in Segments
         /\ \A k \in Streams : k # i => wire'[k] = wire[k]
<1>1. wire[i] \in Seq(Segments) /\ wire[i] # << >> /\ wire' = [wire EXCEPT ![i] = Tail(@)]
  BY DEF Read, StreamTypes
<1>2. Tail(wire[i]) \in Seq(Segments) /\ Head(wire[i]) \in Segments
  BY <1>1
<1> QED BY <1>1, <1>2 DEF StreamTypes

\* A reader takes the first segment of a frame.
LEMMA ReadHeadStep ==
  ASSUME StreamInv, NEW i \in Streams, ReadHead(i)
  PROVE  StreamInv'
<1> USE DEF StreamInv
<1>1. /\ Read(i) /\ partial[i] = Nobody /\ Head(wire[i])[2] = 1
      /\ partial' = [partial EXCEPT ![i] = Head(wire[i])[1]]
      /\ UNCHANGED <<pc, mine, lock, made, stored, broken>>
  BY DEF ReadHead, writer
<1>2. /\ wire' \in [Streams -> Seq(Segments)]
      /\ wire[i] \in Seq(Segments) /\ wire[i] # << >> /\ wire'[i] = Tail(wire[i])
      /\ Head(wire[i]) \in Segments
      /\ \A k \in Streams : k # i => wire'[k] = wire[k]
  BY <1>1, ReadFacts
<1>3. Head(wire[i])[1] \in Msgs /\ Head(wire[i]) = <<Head(wire[i])[1], 1>>
  BY <1>1, <1>2 DEF Segments
<1>4. StreamTypes' /\ LockInv' /\ MineInv'
  BY <1>1, <1>2, <1>3 DEF StreamTypes, LockInv, MineInv
<1>5. Unread(i)' = Unread(i)
  <2>1. Unread(i) = wire[i]
    BY <1>1 DEF Unread
  <2>2. partial'[i] = Head(wire[i])[1] /\ partial'[i] # Nobody
    BY <1>1, <1>3, NobodyAssumption DEF StreamTypes
  <2>3. Unread(i)' = <<Head(wire[i])>> \o Tail(wire[i])
    BY <1>2, <1>3, <2>2 DEF Unread
  <2>4. <<Head(wire[i])>> \o Tail(wire[i]) = wire[i]
    BY <1>2
  <2> QED BY <2>1, <2>3, <2>4
<1>6. \A k \in Streams : k # i => Unread(k)' = Unread(k) /\ partial'[k] = partial[k]
  BY <1>1, <1>2 DEF Unread, StreamTypes
<1>7. FramesWhole'
  <2>1. Framed(Unread(i)')
    BY <1>5 DEF FramesWhole
  <2> QED BY <1>6, <2>1, OtherStreams
<1>8. HalfInv'
  <2>1. i \notin broken
    BY <1>2 DEF HalfInv
  <2>2. \A m \in Msgs, k \in Streams : InBody(m, k)' <=> InBody(m, k)
    BY <1>1 DEF InBody
  <2>3. \A k \in Streams : Unread(k)' = Unread(k)
    BY <1>5, <1>6, Zenon
  <2>4. ASSUME NEW k \in Streams, k \in broken'
        PROVE  wire'[k] = << >> /\ partial'[k] = Nobody
    <3>1. k \in broken /\ k # i
      BY <1>1, <2>1, <2>4, Zenon
    <3> QED BY <1>2, <1>6, <3>1, Zenon DEF HalfInv
  <2> QED BY <2>2, <2>3, <2>4 DEF HalfInv
<1> QED BY <1>4, <1>7, <1>8

\* A reader takes the second segment.
LEMMA HandleStep ==
  ASSUME StreamInv, NEW i \in Streams, HandleStream(i)
  PROVE  StreamInv'
<1> USE DEF StreamInv
<1>1. /\ Read(i) /\ Head(wire[i]) = <<partial[i], 2>>
      /\ partial' = [partial EXCEPT ![i] = Nobody]
      /\ UNCHANGED <<pc, mine, lock, made, stored, broken>>
  BY DEF HandleStream, writer
<1>2. /\ wire' \in [Streams -> Seq(Segments)]
      /\ wire[i] \in Seq(Segments) /\ wire[i] # << >> /\ wire'[i] = Tail(wire[i])
      /\ Head(wire[i]) \in Segments
      /\ \A k \in Streams : k # i => wire'[k] = wire[k]
  BY <1>1, ReadFacts
<1>3. partial[i] # Nobody
  BY <1>1, <1>2, NobodyAssumption DEF Segments
<1>4. StreamTypes' /\ LockInv' /\ MineInv'
  BY <1>1, <1>2 DEF StreamTypes, LockInv, MineInv
<1> DEFINE u == Unread(i)
           v == Tail(wire[i])
<1>5. /\ u \in Seq(Segments) /\ Len(u) = Len(wire[i]) + 1
      /\ \A j \in 1..Len(wire[i]) : u[j + 1] = wire[i][j]
  BY <1>3, UnreadType
<1>6. Unread(i)' = v
  BY <1>1, <1>2 DEF Unread, StreamTypes
<1>7. /\ v \in Seq(Segments) /\ Len(wire[i]) = Len(v) + 1
      /\ \A j \in 1..Len(v) : v[j] = wire[i][j + 1]
  BY <1>2
<1>8. Len(u) = Len(v) + 2 /\ \A j \in 1..Len(v) : v[j] = u[j + 2]
  <2> HIDE DEF u, v
  <2>1. Len(v) \in Nat
    BY <1>7
  <2>2. ASSUME NEW j \in 1..Len(v)
        PROVE  v[j] = u[j + 2]
    <3>1. j + 1 \in 1..Len(wire[i]) /\ (j + 1) + 1 = j + 2
      BY <1>7, <2>1
    <3> QED BY <1>5, <1>7, <3>1
  <2> QED BY <1>5, <1>7, <2>1, <2>2
<1>9. /\ Framed(v) /\ Len(v) % 2 = Len(u) % 2
      /\ Len(u) % 2 = 1 => v[Len(v)] = u[Len(u)]
  <2>1. Framed(u)
    BY DEF FramesWhole
  <2> HIDE DEF u, v
  <2> QED BY <1>5, <1>7, <1>8, <2>1, DropFrame
<1>10. \A k \in Streams : k # i => Unread(k)' = Unread(k) /\ partial'[k] = partial[k]
  BY <1>1, <1>2 DEF Unread, StreamTypes
<1> HIDE DEF v
<1>11. FramesWhole'
  <2>1. Framed(Unread(i)')
    BY <1>6, <1>9 DEF Framed
  <2> QED BY <1>10, <2>1, OtherStreams
<1>12. HalfInv'
  <2>1. i \notin broken
    BY <1>2 DEF HalfInv
  <2>2. \A m \in Msgs, k \in Streams : InBody(m, k)' <=> InBody(m, k)
    BY <1>1 DEF InBody
  <2>3. ASSUME NEW k \in Streams, k # i
        PROVE  /\ k \in broken' => wire'[k] = << >> /\ partial'[k] = Nobody
               /\ \A m \in Msgs : InBody(m, k)' => /\ Len(Unread(k)') % 2 = 1
                                                  /\ Unread(k)'[Len(Unread(k)')] = <<m, 1>>
               /\ (\A m \in Msgs : ~InBody(m, k)') => Len(Unread(k)') % 2 = 0
    <3>1. Unread(k)' = Unread(k) /\ wire'[k] = wire[k] /\ partial'[k] = partial[k] /\ broken' = broken
      BY <1>1, <1>2, <1>10, <2>3, Zenon
    <3> QED BY <2>2, <3>1, Zenon DEF HalfInv
  <2>4. /\ i \notin broken'
        /\ \A m \in Msgs : InBody(m, i)' => /\ Len(Unread(i)') % 2 = 1
                                           /\ Unread(i)'[Len(Unread(i)')] = <<m, 1>>
        /\ (\A m \in Msgs : ~InBody(m, i)') => Len(Unread(i)') % 2 = 0
    <3>1. i \notin broken'
      BY <1>1, <2>1
    <3> QED BY <1>6, <1>9, <2>2, <3>1 DEF HalfInv
  <2> QED BY <2>3, <2>4, Zenon DEF HalfInv
<1> QED BY <1>4, <1>11, <1>12

\* The invariant holds.
LEMMA StreamsInvariant == Spec => []StreamInv
<1>1. Init => StreamInv
  <2> SUFFICES ASSUME Init PROVE StreamInv
    OBVIOUS
  <2>1. StreamTypes /\ LockInv /\ MineInv
    BY DEF Init, StreamTypes, LockInv, MineInv
  <2>2. \A i \in Streams : Unread(i) = << >> /\ \A m \in Msgs : ~InBody(m, i)
    BY DEF Init, Unread, InBody
  <2>3. HalfInv /\ FramesWhole
    BY <2>2 DEF Init, HalfInv, FramesWhole, Framed
  <2> QED BY <2>1, <2>3 DEF StreamInv
<1>2. StreamInv /\ [Next]_vars => StreamInv'
  <2> SUFFICES ASSUME StreamInv, [Next]_vars
               PROVE  StreamInv'
    OBVIOUS
  <2> USE DEF StreamInv, host, writer
  <2>0. ASSUME UNCHANGED <<wire, partial, broken>>, (StreamTypes /\ LockInv /\ MineInv)',
               \A m \in Msgs, i \in Streams : InBody(m, i)' <=> InBody(m, i)
        PROVE  StreamInv'
    BY <2>0, SameStreams
  <2>1. ASSUME NEW m \in Msgs, WriteToStream(m) \/ CreateStream(m) \/ CreateStreamFails(m) \/ Lock(m)
        PROVE  StreamInv'
    <3> USE DEF WriteToStream, CreateStream, CreateStreamFails, Lock
    <3>1. UNCHANGED <<wire, partial, broken>>
      BY <2>1
    <3>2. StreamTypes'
      <4>1. CASE WriteToStream(m)
        BY <4>1 DEF StreamTypes
      <4>2. CASE CreateStream(m)
        BY <4>2 DEF StreamTypes
      <4>3. CASE CreateStreamFails(m) \/ Lock(m)
        BY <4>3 DEF StreamTypes
      <4> QED BY <2>1, <4>1, <4>2, <4>3
    <3>3. LockInv'
      BY <2>1, NobodyAssumption DEF LockInv, StreamTypes
    <3>4. MineInv'
      BY <2>1 DEF MineInv, StreamTypes
    <3>5. \A n \in Msgs, i \in Streams : InBody(n, i)' <=> InBody(n, i)
      BY <2>1 DEF InBody, StreamTypes
    <3> QED BY <2>0, <3>1, <3>2, <3>3, <3>4, <3>5
  <2>2. ASSUME NEW m \in Msgs, WriteFails(m)
        PROVE  StreamInv'
    <3>1. UNCHANGED <<wire, partial, broken>>
      BY <2>2 DEF WriteFails
    <3>2. StreamTypes' /\ LockInv' /\ MineInv'
      BY <2>2 DEF WriteFails, StreamTypes, LockInv, MineInv
    <3>3. \A n \in Msgs, i \in Streams : InBody(n, i)' <=> InBody(n, i)
      BY <2>2 DEF WriteFails, InBody, StreamTypes
    <3> QED BY <2>0, <3>1, <3>2, <3>3
  <2>3. CASE StartHost \/ AddListener \/ UNCHANGED vars
    <3>1. UNCHANGED <<wire, partial, broken, pc, mine, lock, made, stored>>
      BY <2>3 DEF StartHost, AddListener, vars
    <3>2. StreamTypes' /\ LockInv' /\ MineInv'
      BY <3>1 DEF StreamTypes, LockInv, MineInv
    <3>3. \A n \in Msgs, i \in Streams : InBody(n, i)' <=> InBody(n, i)
      BY <3>1 DEF InBody
    <3> QED BY <2>0, <3>1, <3>2, <3>3
  <2>4. CASE ConcurrentMapAccess \/ Break
    BY <2>4, BreakStep DEF ConcurrentMapAccess, Break
  <2>5. ASSUME NEW m \in Msgs, WriteHead(m) \/ WriteBody(m)
        PROVE  StreamInv'
    BY <2>5, HeadStep, BodyStep
  <2>6. ASSUME NEW i \in Streams, ReadHead(i) \/ HandleStream(i)
        PROVE  StreamInv'
    BY <2>6, ReadHeadStep, HandleStep
  <2> QED BY <2>1, <2>2, <2>3, <2>4, <2>5, <2>6 DEF Next, Writes, Reads
<1> QED BY <1>1, <1>2, PTL DEF Spec

\* In every stream the segments of a frame follow each other, whatever goroutines
\* write at the same time and however often connections break.
THEOREM FramesStayWhole == Spec => []FramesWhole
<1>1. StreamInv => FramesWhole
  BY DEF StreamInv
<1> QED BY <1>1, StreamsInvariant, PTL

\* The types of the variables.
THEOREM ConnectionsTypeCorrect == Spec => []TypeOK
<1>1. Init => TypeOK
  <2> SUFFICES ASSUME Init PROVE TypeOK
    OBVIOUS
  <2>1. breaks \in 0..MaxBreaks
    BY BoundsAssumption DEF Init
  <2>2. StreamTypes
    BY DEF Init, StreamTypes
  <2>3. reader \in [Streams -> {"reading", "deaf", "error"}] /\ listening \in BOOLEAN
    BY DEF Init
  <2> HIDE DEF StreamTypes
  <2> QED BY <2>1, <2>2, <2>3 DEF Init, TypeOK
<1>2. StreamInv' /\ StreamInv /\ TypeOK /\ [Next]_vars => TypeOK'
  <2> SUFFICES ASSUME StreamInv', StreamInv, TypeOK, [Next]_vars
               PROVE  TypeOK'
    OBVIOUS
  <2>0. StreamTypes' /\ StreamTypes
    BY DEF StreamInv
  <2> USE DEF TypeOK, host, writer
  <2>1. ASSUME NEW m \in Msgs, WriteToStream(m) \/ Writes(m)
        PROVE  TypeOK'
    BY <2>0, <2>1 DEF WriteToStream, Writes, CreateStream, CreateStreamFails, Lock, WriteHead,
                      WriteBody, WriteFails
  <2>2. CASE StartHost \/ AddListener \/ UNCHANGED vars
    BY <2>0, <2>2 DEF StartHost, AddListener, vars
  <2>3. BreakStreams => broken' \subseteq Nat /\ reader' \in [Streams -> {"reading", "deaf", "error"}]
    BY <2>0 DEF BreakStreams
  <2>4. CASE ConcurrentMapAccess
    BY <2>0, <2>3, <2>4 DEF ConcurrentMapAccess
  <2>5. CASE Break
    <3>1. breaks' \in 0..MaxBreaks
      BY <2>5, BoundsAssumption DEF Break
    <3> QED BY <2>0, <2>3, <2>5, <3>1 DEF Break
  <2>6. ASSUME NEW i \in Streams, ReadHead(i)
        PROVE  TypeOK'
    BY <2>0, <2>6 DEF ReadHead
  <2>7. ASSUME NEW i \in Streams, HandleStream(i)
        PROVE  TypeOK'
    <3>1. Head(wire[i]) \in Segments /\ Head(wire[i]) = <<partial[i], 2>>
      BY <2>0, <2>7, ReadFacts DEF HandleStream
    <3>2. partial[i] \in Msgs
      BY <3>1 DEF Segments
    <3> QED BY <2>0, <2>7, <3>2 DEF HandleStream
  <2> QED BY <2>1, <2>2, <2>4, <2>5, <2>6, <2>7 DEF Next, Reads
<1> QED BY <1>1, <1>2, StreamsInvariant, PTL DEF Spec

-----------------------------------------------------------------------------
(* Streams, their hosts and their readers *)

OpenInv == StreamInv /\ TypeOK /\ HostInv /\ SegmentInv /\ DoneInv

\* The goroutines that have made their stream are finitely many.
LEMMA CreatorsFinite ==
  /\ IsFiniteSet(Creators) /\ Cardinality(Creators) \in Nat /\ Cardinality(Msgs) \in Nat
  /\ Cardinality(Creators) <= Cardinality(Msgs)
<1>1. Creators \in SUBSET Msgs
  BY DEF Creators
<1>2. IsFiniteSet(Creators) /\ Cardinality(Creators) <= Cardinality(Msgs)
  BY <1>1, MsgsAssumption, FS_Subset, Zenon
<1> QED BY <1>2, MsgsAssumption, FS_CardinalityType

\* Whoever writes has a stream of its own connection.
LEMMA MineIsStream ==
  ASSUME OpenInv, NEW m \in Msgs, pc[m] \in {"head", "body", "ok"}
  PROVE  mine[m] \in Streams /\ mine[m] \in 1..made
<1>1. /\ made <= Cardinality(Creators) /\ made \in Nat
      /\ mine[m] \in 0..made /\ mine[m] # 0
  BY DEF OpenInv, HostInv, StreamInv, StreamTypes, MineInv, DoneInv
<1> QED BY <1>1, CreatorsFinite DEF Streams

\* HostInv is kept where goroutines do not create streams.
LEMMA HostKept ==
  ASSUME HostInv, TypeOK, Creators \subseteq Creators', UNCHANGED <<sender, made, broken, receiver>>,
         \A i \in Streams : reader'[i] = "error" => reader[i] = "error"
  PROVE  HostInv'
<1>1. IsFiniteSet(Creators') /\ Cardinality(Creators') \in Nat
  <2>1. Creators' \in SUBSET Msgs
    BY DEF Creators
  <2>2. IsFiniteSet(Creators')
    BY <2>1, MsgsAssumption, FS_Subset, Zenon
  <2> QED BY <2>2, FS_CardinalityType
<1>2. Cardinality(Creators) <= Cardinality(Creators')
  BY <1>1, FS_Subset, Zenon
<1>3. made \in Nat /\ Cardinality(Creators) \in Nat
  BY CreatorsFinite DEF TypeOK, StreamTypes
<1>4. made' <= Cardinality(Creators')
  BY <1>1, <1>2, <1>3 DEF HostInv
<1> QED BY <1>4 DEF HostInv

\* All streams break.
LEMMA HostBreaks ==
  ASSUME HostInv, TypeOK, BreakStreams, UNCHANGED <<pc, made>>
  PROVE  HostInv'
<1>1. Creators' = Creators
  BY DEF Creators
<1>2. /\ broken' = 1..made /\ made \in Nat
      /\ \A i \in Streams : reader'[i] = "error" => i <= made
  BY DEF BreakStreams, TypeOK, StreamTypes
<1>3. \A i \in Streams : reader'[i] = "error" => i \in broken'
  BY <1>2 DEF Streams
<1>4. made' <= Cardinality(Creators')
  BY <1>1 DEF HostInv
<1> QED BY <1>2, <1>3, <1>4 DEF HostInv

\* HostInv is kept by every step.
LEMMA HostStep ==
  ASSUME HostInv, TypeOK, [Next]_vars
  PROVE  HostInv'
<1> USE DEF writer, host
<1>0. pc \in [Msgs -> {"idle", "creating", "ready", "head", "body", "ok", "err"}] /\ made \in Nat
      /\ reader \in [Streams -> {"reading", "deaf", "error"}]
  BY DEF TypeOK, StreamTypes
<1>1. ASSUME NEW m \in Msgs, CreateStream(m)
      PROVE  HostInv'
  <2>1. /\ pc[m] = "creating" /\ pc' = [pc EXCEPT ![m] = "ready"] /\ made' = made + 1
        /\ receiver = "up" /\ UNCHANGED <<sender, broken, receiver, reader>>
    BY <1>1 DEF CreateStream
  <2>2. Creators' = Creators \cup {m} /\ m \notin Creators
    BY <1>0, <2>1 DEF Creators
  <2>3. Cardinality(Creators \cup {m}) = Cardinality(Creators) + 1
    BY <2>2, CreatorsFinite, FS_AddElement
  <2>4. Cardinality(Creators') = Cardinality(Creators) + 1
    BY <2>2, <2>3, Zenon
  <2>5. made' <= Cardinality(Creators')
    BY <1>0, <2>1, <2>4, CreatorsFinite DEF HostInv
  <2>6. broken' \subseteq 1..made'
    BY <1>0, <2>1 DEF HostInv
  <2> QED BY <2>1, <2>5, <2>6 DEF HostInv
<1>2. ASSUME NEW m \in Msgs, NEW x, pc' = [pc EXCEPT ![m] = x], pc[m] = "idle" \/ x \notin {"idle", "creating"},
             UNCHANGED <<sender, made, broken, receiver, reader>>
      PROVE  HostInv'
  <2>1. Creators \subseteq Creators'
    BY <1>0, <1>2 DEF Creators
  <2> QED BY <1>2, <2>1, HostKept
<1>3. ASSUME NEW m \in Msgs, WriteToStream(m)
      PROVE  HostInv'
  BY <1>2, <1>3 DEF WriteToStream
<1>4. ASSUME NEW m \in Msgs, CreateStreamFails(m) \/ Lock(m) \/ WriteFails(m)
      PROVE  HostInv'
  BY <1>2, <1>4 DEF CreateStreamFails, Lock, WriteFails
<1>5. ASSUME NEW m \in Msgs, WriteHead(m) \/ WriteBody(m)
      PROVE  HostInv'
  BY <1>2, <1>5 DEF WriteHead, WriteBody
<1>6. CASE ConcurrentMapAccess \/ Break
  BY <1>6, HostBreaks DEF ConcurrentMapAccess, Break
<1>7. ASSUME UNCHANGED <<pc, sender, made, broken, receiver>>,
             \A i \in Streams : reader'[i] = "error" => reader[i] = "error"
      PROVE  HostInv'
  <2>1. Creators' = Creators
    BY <1>7 DEF Creators
  <2> QED BY <1>7, <2>1, HostKept
<1>8. CASE StartHost
  <2>1. receiver' = "up" /\ UNCHANGED <<pc, sender, made, broken, reader>>
    BY <1>8 DEF StartHost
  <2>2. Creators' = Creators
    BY <2>1 DEF Creators
  <2> QED BY <2>1, <2>2 DEF HostInv
<1>9. CASE AddListener \/ UNCHANGED vars
  BY <1>7, <1>9 DEF AddListener, vars
<1>10. ASSUME NEW i \in Streams, ReadHead(i) \/ HandleStream(i)
       PROVE  HostInv'
  <2>1. \A k \in Streams : reader'[k] = "error" => reader[k] = "error"
    BY <1>0, <1>10 DEF ReadHead, HandleStream
  <2> QED BY <1>7, <1>10, <2>1 DEF ReadHead, HandleStream
<1> QED BY <1>1, <1>3, <1>4, <1>5, <1>6, <1>8, <1>9, <1>10 DEF Next, Writes, Reads

\* DoneInv is kept by every step.
LEMMA DoneStep ==
  ASSUME StreamInv, TypeOK, DoneInv, [Next]_vars
  PROVE  DoneInv'
<1> USE DEF writer, host
<1>0. /\ pc \in [Msgs -> {"idle", "creating", "ready", "head", "body", "ok", "err"}]
      /\ mine \in [Msgs -> Nat] /\ made \in Nat /\ lock \in Msgs \cup {Nobody}
      /\ LockInv /\ MineInv
  BY DEF TypeOK, StreamTypes, StreamInv
<1>1. ASSUME NEW m \in Msgs, WriteToStream(m) \/ CreateStream(m) \/ CreateStreamFails(m)
      PROVE  DoneInv'
  BY <1>0, <1>1 DEF WriteToStream, CreateStream, CreateStreamFails, DoneInv
<1>2. ASSUME NEW m \in Msgs, Lock(m) \/ WriteHead(m)
      PROVE  DoneInv'
  BY <1>0, <1>2 DEF Lock, WriteHead, DoneInv
<1>3. ASSUME NEW m \in Msgs, WriteBody(m) \/ WriteFails(m)
      PROVE  DoneInv'
  BY <1>0, <1>3, NobodyAssumption DEF WriteBody, WriteFails, DoneInv, MineInv
<1>4. CASE UNCHANGED <<pc, mine, lock>>
  BY <1>4 DEF DoneInv
<1>5. CASE ConcurrentMapAccess \/ StartHost \/ AddListener \/ Break \/ UNCHANGED vars
  BY <1>4, <1>5 DEF ConcurrentMapAccess, StartHost, AddListener, Break, vars
<1>6. ASSUME NEW i \in Streams, ReadHead(i) \/ HandleStream(i)
      PROVE  DoneInv'
  BY <1>4, <1>6 DEF ReadHead, HandleStream
<1> QED BY <1>1, <1>2, <1>3, <1>5, <1>6 DEF Next, Writes, Reads

\* SegmentInv is kept by every step.
LEMMA SegmentStep ==
  ASSUME StreamInv, TypeOK, SegmentInv, [Next]_vars
  PROVE  SegmentInv'
<1> USE DEF writer, host
<1>0. /\ pc \in [Msgs -> {"idle", "creating", "ready", "head", "body", "ok", "err"}]
      /\ wire \in [Streams -> Seq(Segments)] /\ Window \in Nat \ {0}
  BY BoundsAssumption DEF TypeOK, StreamTypes
<1>1. \A i \in Streams : \A j \in DOMAIN wire[i] : wire[i][j] \in Segments /\ wire[i][j][1] \in Msgs
  BY <1>0 DEF Segments
<1>2. ASSUME UNCHANGED wire, \A m \in Msgs : pc[m] = "ok" => pc'[m] = "ok"
      PROVE  SegmentInv'
  BY <1>1, <1>2 DEF SegmentInv
<1>3. ASSUME NEW m \in Msgs, NEW x \in {1, 2}, Writable(mine[m]),
             wire' = [wire EXCEPT ![mine[m]] = Append(@, <<m, x>>)],
             \A n \in Msgs : pc[n] = "ok" => pc'[n] = "ok", x = 2 => pc'[m] = "ok"
      PROVE  SegmentInv'
  <2>1. ASSUME NEW i \in Streams, i = mine[m]
        PROVE  /\ Len(wire'[i]) <= Window
               /\ \A j \in DOMAIN wire'[i] : wire'[i][j][2] = 2 => pc'[wire'[i][j][1]] = "ok"
    <3>1. wire'[i] = Append(wire[i], <<m, x>>) /\ wire[i] \in Seq(Segments) /\ Len(wire[i]) < Window
      BY <1>0, <1>3, <2>1 DEF Writable
    <3>2. /\ Len(wire'[i]) = Len(wire[i]) + 1 /\ Len(wire[i]) \in Nat
          /\ wire'[i][Len(wire[i]) + 1] = <<m, x>>
          /\ \A j \in 1..Len(wire[i]) : wire'[i][j] = wire[i][j]
          /\ DOMAIN wire'[i] = 1..(Len(wire[i]) + 1) /\ DOMAIN wire[i] = 1..Len(wire[i])
      BY <3>1
    <3>3. Len(wire'[i]) <= Window
      <4>1. /\ Len(wire'[i]) = Len(wire[i]) + 1 /\ Len(wire[i]) \in Nat
            /\ Len(wire[i]) < Window /\ Window \in Nat
        BY <1>0, <3>1, <3>2, Zenon
      <4> QED BY <4>1
    <3>4. ASSUME NEW j \in DOMAIN wire'[i], wire'[i][j][2] = 2
          PROVE  pc'[wire'[i][j][1]] = "ok"
      <4>1. CASE j = Len(wire[i]) + 1
        <5>1. wire'[i][j] = <<m, x>>
          BY <3>2, <4>1, Zenon
        <5>2. wire'[i][j][1] = m /\ wire'[i][j][2] = x
          BY <5>1
        <5> QED BY <1>3, <3>4, <5>2, Zenon
      <4>2. CASE j # Len(wire[i]) + 1
        <5>1. j \in DOMAIN wire[i] /\ wire'[i][j] = wire[i][j]
          BY <3>2, <4>2
        <5> QED BY <1>1, <1>3, <3>4, <5>1 DEF SegmentInv
      <4> QED BY <4>1, <4>2
    <3> QED BY <3>3, <3>4
  <2>2. ASSUME NEW i \in Streams, i # mine[m]
        PROVE  /\ Len(wire'[i]) <= Window
               /\ \A j \in DOMAIN wire'[i] : wire'[i][j][2] = 2 => pc'[wire'[i][j][1]] = "ok"
    <3>1. wire'[i] = wire[i]
      BY <1>0, <1>3, <2>2
    <3> QED BY <1>1, <1>3, <3>1 DEF SegmentInv
  <2> QED BY <2>1, <2>2 DEF SegmentInv
<1>4. ASSUME NEW m \in Msgs, WriteToStream(m) \/ CreateStream(m) \/ CreateStreamFails(m) \/ Lock(m) \/ WriteFails(m)
      PROVE  SegmentInv'
  <2>1. \A n \in Msgs : pc[n] = "ok" => pc'[n] = "ok"
    BY <1>0, <1>4 DEF WriteToStream, CreateStream, CreateStreamFails, Lock, WriteFails
  <2> QED BY <1>2, <1>4, <2>1 DEF WriteToStream, CreateStream, CreateStreamFails, Lock, WriteFails
<1>5. ASSUME NEW m \in Msgs, WriteHead(m) \/ WriteBody(m)
      PROVE  SegmentInv'
  <2>1. CASE WriteHead(m)
    <3>1. \A n \in Msgs : pc[n] = "ok" => pc'[n] = "ok"
      BY <1>0, <2>1 DEF WriteHead
    <3>2. Writable(mine[m]) /\ wire' = [wire EXCEPT ![mine[m]] = Append(@, <<m, 1>>)]
      BY <2>1 DEF WriteHead
    <3>3. 1 \in {1, 2} /\ (1 = 2 => pc'[m] = "ok")
      OBVIOUS
    <3> QED BY <1>3, <3>1, <3>2, <3>3
  <2>2. CASE WriteBody(m)
    <3>1. pc'[m] = "ok" /\ \A n \in Msgs : pc[n] = "ok" => pc'[n] = "ok"
      BY <1>0, <2>2 DEF WriteBody
    <3> QED BY <1>3, <2>2, <3>1 DEF WriteBody
  <2> QED BY <1>5, <2>1, <2>2
<1>6. CASE ConcurrentMapAccess \/ Break
  <2>1. \A i \in Streams : wire'[i] = << >>
    BY <1>6 DEF ConcurrentMapAccess, Break, BreakStreams
  <2> QED BY <1>0, <2>1 DEF SegmentInv
<1>7. CASE StartHost \/ AddListener \/ UNCHANGED vars
  BY <1>2, <1>7 DEF StartHost, AddListener, vars
<1>8. ASSUME NEW i \in Streams, Read(i), UNCHANGED pc
      PROVE  SegmentInv'
  <2>1. /\ wire[i] \in Seq(Segments) /\ wire[i] # << >> /\ wire'[i] = Tail(wire[i])
        /\ \A k \in Streams : k # i => wire'[k] = wire[k]
    BY <1>8, ReadFacts DEF TypeOK
  <2>2. /\ Len(wire'[i]) <= Len(wire[i]) /\ Len(wire'[i]) \in Nat /\ Len(wire[i]) \in Nat
        /\ \A j \in DOMAIN wire'[i] : j + 1 \in DOMAIN wire[i] /\ wire'[i][j] = wire[i][j + 1]
    BY <2>1
  <2>a. Len(wire'[i]) <= Window
    <3>1. Len(wire[i]) <= Window /\ Window \in Nat
      BY <1>0 DEF SegmentInv
    <3> QED BY <2>2, <3>1
  <2>b. \A j \in DOMAIN wire'[i] : wire'[i][j][2] = 2 => pc'[wire'[i][j][1]] = "ok"
    <3> SUFFICES ASSUME NEW j \in DOMAIN wire'[i], wire'[i][j][2] = 2
                 PROVE  pc'[wire'[i][j][1]] = "ok"
      BY Zenon
    <3>1. j + 1 \in DOMAIN wire[i] /\ wire'[i][j] = wire[i][j + 1] /\ wire[i][j + 1][2] = 2
      BY <2>2, Zenon
    <3>2. pc[wire[i][j + 1][1]] = "ok"
      BY <3>1, Zenon DEF SegmentInv
    <3> QED BY <1>8, <3>1, <3>2, Zenon
  <2>3. /\ Len(wire'[i]) <= Window
        /\ \A j \in DOMAIN wire'[i] : wire'[i][j][2] = 2 => pc'[wire'[i][j][1]] = "ok"
    BY <2>a, <2>b, Zenon
  <2>4. \A k \in Streams : k # i =>
          /\ Len(wire'[k]) <= Window
          /\ \A j \in DOMAIN wire'[k] : wire'[k][j][2] = 2 => pc'[wire'[k][j][1]] = "ok"
    BY <1>8, <2>1 DEF SegmentInv
  <2> QED BY <2>3, <2>4 DEF SegmentInv
<1>9. ASSUME NEW i \in Streams, ReadHead(i) \/ HandleStream(i)
      PROVE  SegmentInv'
  BY <1>8, <1>9 DEF ReadHead, HandleStream
<1> QED BY <1>4, <1>5, <1>6, <1>7, <1>9 DEF Next, Writes, Reads

\* The invariant holds.
LEMMA OpenInvariant == Spec => []OpenInv
<1>1. Init => HostInv /\ SegmentInv /\ DoneInv
  <2> SUFFICES ASSUME Init PROVE HostInv /\ SegmentInv /\ DoneInv
    OBVIOUS
  <2>1. HostInv
    BY CreatorsFinite DEF Init, HostInv
  <2>2. SegmentInv
    BY BoundsAssumption DEF Init, SegmentInv
  <2>3. DoneInv
    BY NobodyAssumption DEF Init, DoneInv
  <2> QED BY <2>1, <2>2, <2>3
<1>2. StreamInv /\ TypeOK /\ HostInv /\ SegmentInv /\ DoneInv /\ [Next]_vars
      => HostInv' /\ SegmentInv' /\ DoneInv'
  BY HostStep, SegmentStep, DoneStep
<1> QED BY <1>1, <1>2, StreamsInvariant, ConnectionsTypeCorrect, PTL DEF Spec, OpenInv

\* The next segment of a stream is the one its reader expects.
LEMMA ReaderExpects ==
  ASSUME StreamInv, NEW i \in Streams, wire[i] # << >>
  PROVE  IF partial[i] = Nobody THEN Head(wire[i])[2] = 1 ELSE Head(wire[i]) = <<partial[i], 2>>
<1> DEFINE u == Unread(i)
<1>1. StreamTypes /\ wire[i] \in Seq(Segments) /\ Len(wire[i]) \in Nat /\ Len(wire[i]) >= 1
      /\ Head(wire[i]) = wire[i][1]
  BY DEF StreamInv, StreamTypes
<1>2. Framed(u)
  BY DEF StreamInv, FramesWhole
<1>3. CASE partial[i] = Nobody
  <2>1. u = wire[i]
    BY <1>3 DEF Unread
  <2> HIDE DEF u
  <2>2. u[1][2] = 1
    BY <1>1, <1>2, <2>1 DEF Framed
  <2> QED BY <1>1, <1>3, <2>1, <2>2
<1>4. CASE partial[i] # Nobody
  <2>1. Len(u) = Len(wire[i]) + 1 /\ u[1] = <<partial[i], 1>> /\ u[2] = wire[i][1]
    <3>1. /\ Len(u) = Len(wire[i]) + 1 /\ u[1] = <<partial[i], 1>>
          /\ \A j \in 1..Len(wire[i]) : u[j + 1] = wire[i][j]
      BY <1>1, <1>4, UnreadType
    <3> HIDE DEF u
    <3>2. u[1 + 1] = wire[i][1]
      BY <1>1, <3>1
    <3> QED BY <3>1, <3>2
  <2> HIDE DEF u
  <2>2. 2 \in 1..Len(u) /\ 2 % 2 # 1
    BY <1>1, <2>1
  <2>3. u[2] = <<u[2 - 1][1], 2>>
    BY <1>2, <2>2 DEF Framed
  <2> QED BY <1>1, <1>4, <2>1, <2>3
<1> QED BY <1>3, <1>4

\* The connection's lock: no goroutine keeps it waiting for something that cannot
\* happen, except for a reader that handleStream has ended.
THEOREM LockNeverStuck == Spec => []NoWriterStuck
<1>1. OpenInv => NoWriterStuck
  <2> SUFFICES ASSUME OpenInv, NEW m \in Msgs, sender = "up", lock = m
               PROVE  /\ pc[m] \in {"head", "body"}
                      /\ \/ mine[m] \in broken
                         \/ Writable(mine[m])
                         \/ CanRead(mine[m])
                         \/ mine[m] \in Deaf /\ Len(wire[mine[m]]) = Window
    BY DEF NoWriterStuck
  <2>1. pc[m] \in {"head", "body"}
    BY DEF OpenInv, DoneInv
  <2>2. PICK i \in Streams : i = mine[m] /\ i \in 1..made
    BY <2>1, MineIsStream
  <2>3. CASE i \notin broken /\ ~Writable(i)
    <3>1. /\ wire[i] \in Seq(Segments) /\ Window \in Nat \ {0}
          /\ Len(wire[i]) <= Window
      BY BoundsAssumption DEF OpenInv, SegmentInv, TypeOK, StreamTypes
    <3>2. Len(wire[i]) = Window /\ wire[i] # << >>
      BY <2>3, <3>1 DEF Writable
    <3>3. receiver = "up" /\ reader[i] \in {"reading", "deaf"}
      BY <2>2, <2>3 DEF OpenInv, HostInv, TypeOK
    <3>4. reader[i] = "reading" => CanRead(i)
      BY <3>2, <3>3, ReaderExpects DEF CanRead, OpenInv
    <3>5. reader[i] = "deaf" => i \in Deaf
      BY DEF Deaf
    <3> QED BY <2>1, <2>2, <3>2, <3>3, <3>4, <3>5
  <2> QED BY <2>1, <2>2, <2>3
<1> QED BY <1>1, OpenInvariant, PTL

\* What is in a stream with more behind it is still in it.
LEMMA StillThere ==
  ASSUME NEW s \in Seq(Segments), NEW x \in Segments, NEW j \in DOMAIN s
  PROVE  /\ \E k \in DOMAIN Append(s, x) : Append(s, x)[k] = s[j]
         /\ s[j] # Head(s) => \E k \in DOMAIN Tail(s) : Tail(s)[k] = s[j]
<1>1. j \in 1..Len(s) /\ Len(s) \in Nat /\ s # << >> /\ Head(s) = s[1]
  OBVIOUS
<1>2. j \in DOMAIN Append(s, x) /\ Append(s, x)[j] = s[j]
  BY <1>1
<1>3. s[j] # Head(s) => (j - 1) \in DOMAIN Tail(s) /\ Tail(s)[j - 1] = s[j]
  BY <1>1
<1> QED BY <1>2, <1>3

\* What NothingLost says of one message.
Kept(m) ==
  /\ m \in delivered => pc[m] = "ok"
  /\ pc[m] = "ok" => \/ m \in delivered
                     \/ mine[m] \in broken \cup Deaf
                     \/ \E j \in DOMAIN wire[mine[m]] : wire[mine[m]][j] = <<m, 2>>

\* A message is kept by every step.
LEMMA KeptStep ==
  ASSUME OpenInv, [Next]_vars, NEW m \in Msgs, Kept(m)
  PROVE  Kept(m)'
<1> USE DEF writer, host
<1>0. /\ pc \in [Msgs -> {"idle", "creating", "ready", "head", "body", "ok", "err"}]
      /\ mine \in [Msgs -> Nat] /\ wire \in [Streams -> Seq(Segments)]
      /\ reader \in [Streams -> {"reading", "deaf", "error"}]
      /\ StreamTypes /\ SegmentInv
  BY DEF OpenInv, TypeOK, StreamTypes
<1>1. pc[m] = "ok" => mine[m] \in Streams /\ mine[m] \in 1..made
  BY MineIsStream
<1>2. ASSUME UNCHANGED <<wire, broken, reader, delivered>>, pc'[m] = "ok" <=> pc[m] = "ok",
             pc[m] = "ok" => mine'[m] = mine[m]
      PROVE  Kept(m)'
  BY <1>2 DEF Kept, Deaf
<1>3. ASSUME NEW n \in Msgs, WriteToStream(n) \/ CreateStream(n) \/ CreateStreamFails(n)
      PROVE  Kept(m)'
  <2>1. /\ pc'[m] = "ok" <=> pc[m] = "ok"
        /\ pc[m] = "ok" => mine'[m] = mine[m]
    BY <1>0, <1>3 DEF WriteToStream, CreateStream, CreateStreamFails
  <2> QED BY <1>2, <1>3, <2>1 DEF WriteToStream, CreateStream, CreateStreamFails
<1>4. ASSUME NEW n \in Msgs, Lock(n) \/ WriteFails(n)
      PROVE  Kept(m)'
  <2>1. pc'[m] = "ok" <=> pc[m] = "ok"
    BY <1>0, <1>4 DEF Lock, WriteFails
  <2> QED BY <1>2, <1>4, <2>1 DEF Lock, WriteFails
<1>5. ASSUME NEW n \in Msgs, NEW x \in {1, 2}, wire' = [wire EXCEPT ![mine[n]] = Append(@, <<n, x>>)],
             UNCHANGED <<mine, broken, reader, delivered>>, pc[m] = "ok" <=> pc'[m] = "ok"
      PROVE  Kept(m)'
  <2>1. <<n, x>> \in Segments
    BY DEF Segments
  <2>2. ASSUME pc[m] = "ok", NEW j \in DOMAIN wire[mine[m]], wire[mine[m]][j] = <<m, 2>>
        PROVE  \E k \in DOMAIN wire'[mine[m]] : wire'[mine[m]][k] = <<m, 2>>
    <3>1. wire[mine[m]] \in Seq(Segments)
      BY <1>0, <1>1, <2>2
    <3>2. wire'[mine[m]] = wire[mine[m]] \/ wire'[mine[m]] = Append(wire[mine[m]], <<n, x>>)
      BY <1>0, <1>1, <1>5, <2>2
    <3>3. \E k \in DOMAIN Append(wire[mine[m]], <<n, x>>) :
             Append(wire[mine[m]], <<n, x>>)[k] = wire[mine[m]][j]
      BY <2>1, <3>1, StillThere, Zenon
    <3>4. CASE wire'[mine[m]] = wire[mine[m]]
      BY <2>2, <3>4
    <3>5. CASE wire'[mine[m]] = Append(wire[mine[m]], <<n, x>>)
      BY <2>2, <3>3, <3>5, Zenon
    <3> QED BY <3>2, <3>4, <3>5
  <2> QED BY <1>5, <2>2 DEF Kept, Deaf
<1>6. ASSUME NEW n \in Msgs, WriteHead(n)
      PROVE  Kept(m)'
  <2>1. pc'[m] = "ok" <=> pc[m] = "ok"
    BY <1>0, <1>6 DEF WriteHead
  <2> QED BY <1>5, <1>6, <2>1 DEF WriteHead
<1>7. ASSUME NEW n \in Msgs, WriteBody(n)
      PROVE  Kept(m)'
  <2>1. CASE n # m
    <3>1. pc'[m] = "ok" <=> pc[m] = "ok"
      BY <1>0, <1>7, <2>1 DEF WriteBody
    <3> QED BY <1>5, <1>7, <3>1 DEF WriteBody
  <2>2. CASE n = m
    <3>1. pc[m] = "body" /\ pc'[m] = "ok" /\ UNCHANGED <<mine, delivered>>
          /\ wire' = [wire EXCEPT ![mine[m]] = Append(@, <<m, 2>>)]
      BY <1>0, <1>7, <2>2 DEF WriteBody
    <3>2. mine[m] \in Streams
      BY <3>1, MineIsStream
    <3>3. wire'[mine[m]] = Append(wire[mine[m]], <<m, 2>>) /\ wire[mine[m]] \in Seq(Segments)
      BY <1>0, <3>1, <3>2
    <3>4. \E j \in DOMAIN wire'[mine[m]] : wire'[mine[m]][j] = <<m, 2>>
      <4>1. Len(wire[mine[m]]) + 1 \in DOMAIN wire'[mine[m]]
        BY <3>3
      <4>2. wire'[mine[m]][Len(wire[mine[m]]) + 1] = <<m, 2>>
        <5>1. \A q \in Seq(Segments) : Append(q, <<m, 2>>)[Len(q) + 1] = <<m, 2>>
          OBVIOUS
        <5> QED BY <3>3, <5>1, Zenon
      <4> QED BY <4>1, <4>2
    <3> QED BY <3>1, <3>4 DEF Kept
  <2> QED BY <2>1, <2>2
<1>8. CASE ConcurrentMapAccess \/ Break
  <2>1. broken' = 1..made /\ UNCHANGED <<pc, mine, delivered>>
    BY <1>8 DEF ConcurrentMapAccess, Break, BreakStreams
  <2> QED BY <1>1, <2>1 DEF Kept
<1>9. CASE StartHost \/ AddListener \/ UNCHANGED vars
  BY <1>2, <1>9 DEF StartHost, AddListener, vars
<1>10. ASSUME NEW i \in Streams, Read(i), UNCHANGED <<pc, mine, broken>>, delivered \subseteq delivered',
              \A k \in Streams : reader[k] = "deaf" => reader'[k] = "deaf",
              m \in delivered' => pc[m] = "ok",
              pc[m] = "ok" /\ mine[m] = i /\ Head(wire[i]) = <<m, 2>> => m \in delivered' \/ reader'[i] = "deaf"
       PROVE  Kept(m)'
  <2>1. /\ wire[i] \in Seq(Segments) /\ wire'[i] = Tail(wire[i])
        /\ \A k \in Streams : k # i => wire'[k] = wire[k]
    BY <1>0, <1>10, ReadFacts
  <2>2. ASSUME pc[m] = "ok", NEW j \in DOMAIN wire[mine[m]], wire[mine[m]][j] = <<m, 2>>,
               m \notin delivered', mine[m] \notin Deaf'
        PROVE  \E k \in DOMAIN wire'[mine[m]] : wire'[mine[m]][k] = <<m, 2>>
    <3>1. CASE mine[m] # i
      BY <1>1, <2>1, <2>2, <3>1
    <3>2. CASE mine[m] = i
      <4>1. Head(wire[i]) # <<m, 2>>
        BY <1>10, <2>2, <3>2 DEF Deaf
      <4>2. <<m, 2>> \in Segments
        BY DEF Segments
      <4>3. wire[mine[m]][j] # Head(wire[mine[m]]) /\ wire[mine[m]] \in Seq(Segments)
            /\ wire'[mine[m]] = Tail(wire[mine[m]])
        BY <2>1, <2>2, <3>2, <4>1, Zenon
      <4>4. \E k \in DOMAIN Tail(wire[mine[m]]) : Tail(wire[mine[m]])[k] = wire[mine[m]][j]
        BY <4>2, <4>3, StillThere, Zenon
      <4> QED BY <2>2, <4>3, <4>4, Zenon
    <3> QED BY <3>1, <3>2
  <2> QED BY <1>10, <2>2 DEF Kept, Deaf
<1>11. ASSUME NEW i \in Streams, ReadHead(i)
       PROVE  Kept(m)'
  <2>1. /\ Read(i) /\ Head(wire[i])[2] = 1 /\ UNCHANGED <<pc, mine, broken, reader, delivered>>
    BY <1>11 DEF ReadHead
  <2>2. Head(wire[i]) # <<m, 2>>
    BY <2>1
  <2> QED BY <1>10, <2>1, <2>2 DEF Kept
<1>12. ASSUME NEW i \in Streams, HandleStream(i)
       PROVE  Kept(m)'
  <2>1. /\ Read(i) /\ Head(wire[i]) = <<partial[i], 2>> /\ UNCHANGED <<pc, mine, broken>>
        /\ \/ delivered' = delivered \cup {partial[i]} /\ UNCHANGED reader
           \/ reader' = [reader EXCEPT ![i] = "deaf"] /\ UNCHANGED delivered
    BY <1>12 DEF HandleStream
  <2>2. pc[partial[i]] = "ok"
    <3>1. wire[i] \in Seq(Segments) /\ wire[i] # << >>
      BY <1>0, <2>1, ReadFacts
    <3>2. 1 \in DOMAIN wire[i] /\ wire[i][1] = <<partial[i], 2>>
      <4>1. \A q \in Seq(Segments) : q # << >> => 1 \in DOMAIN q /\ q[1] = Head(q)
        OBVIOUS
      <4>2. 1 \in DOMAIN wire[i] /\ wire[i][1] = Head(wire[i])
        BY <3>1, <4>1, Zenon
      <4> QED BY <2>1, <4>2, Zenon
    <3>3. wire[i][1][1] = partial[i] /\ wire[i][1][2] = 2
      BY <3>2
    <3>4. wire[i][1][2] = 2 => pc[wire[i][1][1]] = "ok"
      BY <1>0, <3>2, Zenon DEF SegmentInv
    <3> QED BY <3>3, <3>4, Zenon
  <2>3. \A k \in Streams : reader[k] = "deaf" => reader'[k] = "deaf"
    BY <1>0, <2>1
  <2>4. m \in delivered' => pc[m] = "ok"
    BY <2>1, <2>2 DEF Kept
  <2>5. Head(wire[i]) = <<m, 2>> => m \in delivered' \/ reader'[i] = "deaf"
    BY <1>0, <2>1
  <2> QED BY <1>10, <2>1, <2>3, <2>4, <2>5
<1> QED BY <1>3, <1>4, <1>6, <1>7, <1>8, <1>9, <1>11, <1>12 DEF Next, Writes, Reads

\* The listener gets only messages that were written whole, and a message that was
\* written whole is with the listener or in its stream until the stream breaks or
\* its reader has ended.
THEOREM WrittenIsKept == Spec => []NothingLost
<1>1. Init => NothingLost
  BY DEF Init, NothingLost
<1>2. OpenInv /\ NothingLost /\ [Next]_vars => NothingLost'
  <2>1. NothingLost <=> \A m \in Msgs : Kept(m)
    BY DEF NothingLost, Kept
  <2>2. NothingLost' <=> \A m \in Msgs : Kept(m)'
    BY DEF NothingLost, Kept
  <2> QED BY <2>1, <2>2, KeptStep
<1> QED BY <1>1, <1>2, OpenInvariant, PTL DEF Spec
=============================================================================
