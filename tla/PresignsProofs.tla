--------------------------- MODULE PresignsProofs ---------------------------
(***************************************************************************)
(* Proofs about the available presigns, for any number of presigns, groups *)
(* and calls, any sizes of batches, and any number of restarts.            *)
(***************************************************************************)
EXTENDS Presigns, FiniteSetTheorems, TLAPS

\* The types of the variables.
THEOREM PresignsTypeCorrect == Spec => []TypeOK
<1>1. Init => TypeOK
  BY DEF Init, TypeOK
<1>2. TypeOK /\ [Next]_vars => TypeOK'
  <2> SUFFICES ASSUME TypeOK, [Next]_vars
               PROVE  TypeOK'
    OBVIOUS
  <2> USE DEF TypeOK
  <2>0. ASSUME NEW S \in SUBSET Ids, NEW x \in {"absent", "not_used", "used"}
        PROVE  Mark(S, x) \in [Ids -> {"absent", "not_used", "used"}]
    BY DEF Mark
  <2>1. CASE Load
    BY <2>1 DEF Load, Unused
  <2>2. CASE Crash
    <3>1. PICK S \in SUBSET {c \in Calls : call[c] = "taken"} :
                 status' = Mark(UNION {batch[c] : c \in S}, "used")
      BY <2>2 DEF Crash
    <3>2. UNION {batch[c] : c \in S} \in SUBSET Ids
      OBVIOUS
    <3> QED BY <2>0, <2>2, <3>1, <3>2 DEF Crash
  <2>3. ASSUME NEW i \in Ids, SavePresignData(i) \/ AddPresign(i)
        PROVE  TypeOK'
    BY <2>0, <2>3 DEF SavePresignData, AddPresign
  <2>4. ASSUME NEW c \in Calls, FindPresigns(c)
        PROVE  TypeOK'
    BY <2>4 DEF FindPresigns
  <2>5. ASSUME NEW c \in Calls, TakePresigns(c)
        PROVE  TypeOK'
    BY <2>5 DEF TakePresigns, Of
  <2>6. ASSUME NEW c \in Calls, UpdatePresignStatus(c)
        PROVE  TypeOK'
    BY <2>0, <2>6 DEF UpdatePresignStatus
  <2>7. CASE UNCHANGED vars
    BY <2>7 DEF vars
  <2> QED BY <2>1, <2>2, <2>3, <2>4, <2>5, <2>6, <2>7 DEF Next
<1> QED BY <1>1, <1>2, PTL DEF Spec

\* A call holds presigns only while it has to update them.
LEMMA Holding == Spec => []HoldingInv
<1>1. Init => HoldingInv
  BY DEF Init, HoldingInv
<1>2. TypeOK /\ HoldingInv /\ [Next]_vars => HoldingInv'
  <2> SUFFICES ASSUME TypeOK, HoldingInv, [Next]_vars
               PROVE  HoldingInv'
    OBVIOUS
  <2> USE DEF TypeOK, HoldingInv
  <2>1. CASE Load \/ Crash
    BY <2>1 DEF Load, Crash
  <2>2. ASSUME NEW i \in Ids, SavePresignData(i) \/ AddPresign(i)
        PROVE  HoldingInv'
    BY <2>2 DEF SavePresignData, AddPresign
  <2>3. ASSUME NEW c \in Calls, FindPresigns(c) \/ TakePresigns(c) \/ UpdatePresignStatus(c)
        PROVE  HoldingInv'
    BY <2>3 DEF FindPresigns, TakePresigns, UpdatePresignStatus
  <2>4. CASE UNCHANGED vars
    BY <2>4 DEF vars
  <2> QED BY <2>1, <2>2, <2>3, <2>4 DEF Next
<1> QED BY <1>1, <1>2, PresignsTypeCorrect, PTL DEF Spec

\* Memory and database agree on the unused presigns.
THEOREM MemoryMatches == Spec => []MemoryMatchesDb
<1>0. \A i : i \in Taken <=> \E c \in Calls : i \in batch[c]
  BY DEF Taken
<1>0p. \A i : i \in Taken' <=> \E c \in Calls : i \in batch'[c]
  BY DEF Taken
<1>1. Init => MemoryMatchesDb
  BY DEF Init, MemoryMatchesDb, Taken
<1>2. TypeOK /\ HoldingInv /\ MemoryMatchesDb /\ [Next]_vars => MemoryMatchesDb'
  <2> SUFFICES ASSUME TypeOK, HoldingInv, MemoryMatchesDb, [Next]_vars
               PROVE  MemoryMatchesDb'
    OBVIOUS
  <2> USE DEF TypeOK, MemoryMatchesDb
  <2>1. CASE Load
    <3>1. Taken' = {} /\ Unused' = Unused
      BY <1>0p, <2>1 DEF Load, HoldingInv, Unused
    <3>2. \A c \in Calls : batch'[c] = {}
      BY <2>1 DEF Load, HoldingInv
    <3>3. PICK S \in SUBSET Unused : available' = S /\ dropped' = Unused \ S
      BY <2>1 DEF Load
    <3>4. adding' = {} /\ \A i \in dropped' : status'[i] # "absent"
      BY <2>1, <3>3 DEF Load, HoldingInv, Unused
    <3> QED BY <3>1, <3>2, <3>3, <3>4
  <2>2. CASE Crash
    <3>1. Taken' = {}
      BY <1>0p, <2>2 DEF Crash
    <3> QED BY <2>2, <3>1 DEF Crash
  <2>3. ASSUME NEW i \in Ids, SavePresignData(i)
        PROVE  MemoryMatchesDb'
    <3>1. i \notin Unused /\ Unused' = Unused \cup {i} /\ Taken' = Taken
      BY <2>3 DEF SavePresignData, Unused, Mark, Taken
    <3>2. i \notin dropped /\ \A j \in dropped' : status'[j] # "absent"
      BY <2>3 DEF SavePresignData, Mark
    <3>3. UNCHANGED <<process, available, batch>> /\ process = "up"
      BY <2>3 DEF SavePresignData
    <3>4. CASE adding' = adding \cup {i} /\ UNCHANGED dropped
      BY <3>1, <3>2, <3>3, <3>4
    <3>5. CASE dropped' = dropped \cup {i} /\ UNCHANGED adding
      BY <3>1, <3>2, <3>3, <3>5
    <3> QED BY <2>3, <3>4, <3>5 DEF SavePresignData
  <2>4. ASSUME NEW i \in Ids, AddPresign(i)
        PROVE  MemoryMatchesDb'
    <3>1. Unused' = Unused /\ Taken' = Taken
      BY <2>4 DEF AddPresign, Unused, Taken
    <3> QED BY <2>4, <3>1 DEF AddPresign
  <2>5. ASSUME NEW c \in Calls, FindPresigns(c)
        PROVE  MemoryMatchesDb'
    BY <2>5 DEF FindPresigns, Unused, Taken
  <2>6. ASSUME NEW c \in Calls, TakePresigns(c)
        PROVE  MemoryMatchesDb'
    <3>1. CASE UNCHANGED <<batch, available>>
      BY <2>6, <3>1 DEF TakePresigns, Unused, Taken
    <3>2. ASSUME NEW B \in SUBSET Of(group[c]), batch' = [batch EXCEPT ![c] = B],
                 available' = available \ B
          PROVE  MemoryMatchesDb'
      <4>1. B \subseteq available
        BY DEF Of
      <4>2. batch[c] = {}
        BY <2>6 DEF TakePresigns, HoldingInv
      <4>3. Taken' = Taken \cup B
        BY <1>0, <1>0p, <3>2, <4>2
      <4>4. \A d, e \in Calls : d # e => batch'[d] \cap batch'[e] = {}
        <5>1. \A d \in Calls : batch[d] \subseteq Taken
          BY <1>0
        <5>2. B \cap Taken = {}
          BY <4>1
        <5> QED BY <3>2, <5>1, <5>2
      <4>5. UNCHANGED <<process, status, adding, dropped>> /\ Unused' = Unused
        BY <2>6 DEF TakePresigns, Unused
      <4> QED BY <3>2, <4>1, <4>3, <4>4, <4>5
    <3> QED BY <2>6, <3>1, <3>2 DEF TakePresigns
  <2>7. ASSUME NEW c \in Calls, UpdatePresignStatus(c)
        PROVE  MemoryMatchesDb'
    <3>1. /\ batch' = [batch EXCEPT ![c] = {}]
          /\ UNCHANGED <<process, available, adding>>
          /\ \/ status' = Mark(batch[c], "used") /\ dropped' \in {dropped, dropped \cup batch[c]}
             \/ status' = status /\ dropped' = dropped \cup batch[c]
      BY <2>7 DEF UpdatePresignStatus
    <3>2. batch[c] \subseteq Taken /\ Taken' = Taken \ batch[c]
      BY <1>0, <1>0p, <3>1
    <3>3. CASE status' = Mark(batch[c], "used")
      <4>1. Unused' = Unused \ batch[c]
        BY <3>3 DEF Unused, Mark
      <4>2. \A j \in dropped' : status'[j] # "absent"
        BY <3>1, <3>3 DEF Mark
      <4> QED BY <3>1, <3>2, <4>1, <4>2
    <3>4. CASE status' = status /\ dropped' = dropped \cup batch[c]
      <4>1. Unused' = Unused
        BY <3>4 DEF Unused
      <4>2. \A j \in dropped' : status'[j] # "absent"
        BY <3>2, <3>4 DEF Unused
      <4> QED BY <3>1, <3>2, <3>4, <4>1, <4>2
    <3> QED BY <3>1, <3>3, <3>4
  <2>8. CASE UNCHANGED vars
    BY <2>8 DEF vars, Unused, Taken
  <2> QED BY <2>1, <2>2, <2>3, <2>4, <2>5, <2>6, <2>7, <2>8 DEF Next
<1> QED BY <1>1, <1>2, PresignsTypeCorrect, Holding, PTL DEF Spec

\* No presign is handed out twice, whatever calls, failures and restarts there are:
\* what a call holds is unused in the database, what was handed out is not.
THEOREM NoPresignReuse == Spec => []HandedOutOnce
<1>1. Init => HandedInv
  BY DEF Init, HandedInv
<1>2. TypeOK /\ MemoryMatchesDb /\ HandedInv /\ [Next]_vars => HandedInv'
  <2> SUFFICES ASSUME TypeOK, MemoryMatchesDb, HandedInv, [Next]_vars, NEW i \in Ids
               PROVE  handed'[i] = 0 \/ (handed'[i] = 1 /\ status'[i] = "used")
    BY DEF HandedInv
  <2>1. \A c \in Calls : i \in batch[c] => status[i] = "not_used"
    BY DEF MemoryMatchesDb, Taken, Unused
  <2> USE DEF TypeOK, HandedInv, Mark
  <2>2. CASE Load
    BY <2>2 DEF Load
  <2>3. CASE Crash
    <3>1. UNCHANGED handed /\ (status[i] = "used" => status'[i] = "used")
      BY <2>3 DEF Crash
    <3> QED BY <3>1
  <2>4. ASSUME NEW j \in Ids, SavePresignData(j) \/ AddPresign(j)
        PROVE  handed'[i] = 0 \/ (handed'[i] = 1 /\ status'[i] = "used")
    BY <2>4 DEF SavePresignData, AddPresign
  <2>5. ASSUME NEW c \in Calls, FindPresigns(c) \/ TakePresigns(c)
        PROVE  handed'[i] = 0 \/ (handed'[i] = 1 /\ status'[i] = "used")
    BY <2>5 DEF FindPresigns, TakePresigns
  <2>6. ASSUME NEW c \in Calls, UpdatePresignStatus(c)
        PROVE  handed'[i] = 0 \/ (handed'[i] = 1 /\ status'[i] = "used")
    BY <2>1, <2>6 DEF UpdatePresignStatus
  <2>7. CASE UNCHANGED vars
    BY <2>7 DEF vars
  <2> QED BY <2>2, <2>3, <2>4, <2>5, <2>6, <2>7 DEF Next
<1>3. HandedInv => HandedOutOnce
  BY DEF HandedInv, HandedOutOnce
<1> QED BY <1>1, <1>2, <1>3, PresignsTypeCorrect, MemoryMatches, PTL DEF Spec

\* A larger set has more presigns of a group.
LEMMA MorePresigns ==
  ASSUME NEW B \in SUBSET Ids, NEW A \in SUBSET B, NEW g, NEW n \in Nat,
         Cardinality({i \in A : GroupOf[i] = g}) >= n
  PROVE  Cardinality({i \in B : GroupOf[i] = g}) >= n
<1> DEFINE S == {i \in A : GroupOf[i] = g}
           T == {i \in B : GroupOf[i] = g}
<1>1. S \in SUBSET T /\ T \in SUBSET Ids
  OBVIOUS
<1>2. Cardinality(S) >= n
  OBVIOUS
<1> HIDE DEF S, T
<1>3. IsFiniteSet(T)
  BY <1>1, IdsAssumption, FS_Subset, Zenon
<1>4. IsFiniteSet(S) /\ Cardinality(S) <= Cardinality(T)
  BY <1>1, <1>3, FS_Subset, Zenon
<1>5. Cardinality(S) \in Nat /\ Cardinality(T) \in Nat
  BY <1>3, <1>4, FS_CardinalityType
<1>6. Cardinality(T) >= n
  BY <1>2, <1>4, <1>5
<1> QED BY <1>6 DEF T

\* With one selection at a time a call finds at its second look what it found at
\* its first.
LEMMA FoundStep ==
  ASSUME TypeOK, HoldingInv, FoundInv, OneSelection, [Next]_vars
  PROVE  FoundInv'
<1> USE DEF TypeOK
<1>1. ASSUME available \subseteq available', available' \subseteq Ids, lock' = lock,
             \A c \in Calls : call'[c] = "found" => call[c] = "found" /\ group'[c] = group[c]
      PROVE  FoundInv'
  <2>1. ASSUME NEW c \in Calls, call'[c] = "found"
        PROVE  Cardinality({i \in available' : GroupOf[i] = group'[c]}) >= BatchSize[c]
    <3>1. /\ Cardinality({i \in available : GroupOf[i] = group[c]}) >= BatchSize[c]
          /\ BatchSize[c] \in Nat
      BY <1>1, <2>1, BatchAssumption DEF FoundInv, Of
    <3>2. Cardinality({i \in available' : GroupOf[i] = group[c]}) >= BatchSize[c]
      <4>1. available' \in SUBSET Ids /\ available \in SUBSET available'
        BY <1>1
      <4> QED BY <3>1, <4>1, MorePresigns, Zenon
    <3> QED BY <1>1, <2>1, <3>2
  <2> QED BY <1>1, <2>1 DEF FoundInv, Of
<1>2. CASE Load
  BY <1>1, <1>2 DEF Load, Unused, HoldingInv
<1>3. CASE Crash
  BY <1>3 DEF Crash, FoundInv
<1>4. ASSUME NEW i \in Ids, SavePresignData(i) \/ AddPresign(i)
      PROVE  FoundInv'
  BY <1>1, <1>4 DEF SavePresignData, AddPresign
<1>5. ASSUME NEW c \in Calls, FindPresigns(c)
      PROVE  FoundInv'
  <2>1. PICK g \in Groups : Cardinality(Of(g)) >= BatchSize[c] /\ group' = [group EXCEPT ![c] = g]
    BY <1>5 DEF FindPresigns
  <2>2. /\ group'[c] = g /\ UNCHANGED <<available, lock>>
        /\ \A d \in Calls : d # c => call'[d] = call[d] /\ group'[d] = group[d]
    BY <1>5, <2>1 DEF FindPresigns
  <2>3. \A d \in Calls : call'[d] = "found" =>
          Cardinality({i \in available' : GroupOf[i] = group'[d]}) >= BatchSize[d]
    BY <2>1, <2>2 DEF FoundInv, Of
  <2> QED BY <2>2, <2>3 DEF FoundInv, Of
<1>6. ASSUME NEW c \in Calls, TakePresigns(c)
      PROVE  FoundInv'
  <2>1. call[c] = "found" /\ UNCHANGED group
    BY <1>6 DEF TakePresigns
  <2>2. ~(Cardinality(Of(group[c])) < BatchSize[c])
    <3>1. Cardinality(Of(group[c])) >= BatchSize[c] /\ BatchSize[c] \in Nat
      BY <2>1, BatchAssumption DEF FoundInv
    <3>2. Cardinality(Of(group[c])) \in Nat
      <4>1. Of(group[c]) \in SUBSET Ids
        BY DEF Of
      <4>2. IsFiniteSet(Of(group[c]))
        BY <4>1, IdsAssumption, FS_Subset, Zenon
      <4> QED BY <4>2, FS_CardinalityType
    <3> QED BY <3>1, <3>2
  <2>3. lock' = lock /\ call' = [call EXCEPT ![c] = "taken"]
    BY <1>6, <2>2 DEF TakePresigns
  <2>4. \A d \in Calls : call'[d] # "found"
    BY <2>1, <2>3 DEF OneSelection
  <2> QED BY <2>3, <2>4 DEF FoundInv
<1>7. ASSUME NEW c \in Calls, UpdatePresignStatus(c)
      PROVE  FoundInv'
  BY <1>1, <1>7 DEF UpdatePresignStatus
<1>8. CASE UNCHANGED vars
  BY <1>1, <1>8 DEF vars
<1> QED BY <1>2, <1>3, <1>4, <1>5, <1>6, <1>7, <1>8 DEF Next

\* GetAvailablePresigns leaves its lock behind only if selections overlap.
THEOREM LockLeaksByRace == Spec => LeakNeedsRace
<1>1. Init => FoundInv
  BY DEF Init, FoundInv
<1>2. TypeOK /\ HoldingInv /\ FoundInv /\ OneSelection /\ [Next]_vars => FoundInv'
  BY FoundStep
<1>3. FoundInv => lock = "free"
  BY DEF FoundInv
<1> QED BY <1>1, <1>2, <1>3, PresignsTypeCorrect, Holding, PTL DEF Spec, LeakNeedsRace
=============================================================================
