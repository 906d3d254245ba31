----------------------------- MODULE HeartProofs -----------------------------
(***************************************************************************)
(* Proofs about the heart, for any works and any numbers of submissions    *)
(* and crashes.                                                            *)
(***************************************************************************)
EXTENDS Heart, TLAPS

\* A submission is a work and a number.
LEMMA SubsFacts ==
  ASSUME NEW s \in Subs
  PROVE  /\ s = <<s[1], s[2]>>
         /\ s[1] \in Works
         /\ s[2] \in Nat \ {0}
         /\ IsKeygen(s) => s[1] \in Keygens
         /\ ~IsKeygen(s) => s[1] \in Keysigns
BY BoundsAssumption DEF Subs, IsKeygen, Works

\* The steps that save a key: a row is inserted only if there is none.
LEMMA SaveFacts ==
  ASSUME TypeOK, SavedInv, NEW s \in Subs, SaveKeygen(s) \/ SaveKeygenFails(s)
  PROVE  /\ SavedInv'
         /\ rows' \in [Keygens -> Nat]
         /\ \A w \in Keygens : rows[w] # 0 => rows'[w] = rows[w]
<1>0. /\ rows \in [Keygens -> Nat]
      /\ work \in [Subs -> Stages]
  BY DEF TypeOK
<1>1. /\ s[1] \in Keygens
      /\ s[2] \in Nat
      /\ \A t \in Subs : t[2] # 0
      /\ \A t \in Subs : IsKeygen(t) => t[1] \in Keygens
  BY SubsFacts DEF SaveKeygen, SaveKeygenFails
<1>2. /\ \/ UNCHANGED rows
         \/ rows[s[1]] = 0 /\ rows' = [rows EXCEPT ![s[1]] = s[2]]
      /\ UNCHANGED told
      /\ \A t \in Subs : t # s => work'[t] = work[t]
      /\ work'[s] = "saved" => IsKeygen(s) /\ rows'[s[1]] = s[2]
  <2>1. CASE SaveKeygen(s)
    BY <1>0, <1>1, <2>1 DEF SaveKeygen
  <2>2. CASE SaveKeygenFails(s)
    BY <1>0, <1>1, <2>2 DEF SaveKeygenFails
  <2> QED BY <2>1, <2>2
<1>3. rows' \in [Keygens -> Nat] /\ \A w \in Keygens : rows[w] # 0 => rows'[w] = rows[w]
  BY <1>0, <1>1, <1>2
<1>4. ASSUME NEW t \in Subs, work'[t] = "saved"
      PROVE  IsKeygen(t) /\ rows'[t[1]] = t[2]
  <2>1. CASE t = s
    BY <1>2, <1>4, <2>1
  <2>2. CASE t # s
    <3>1. IsKeygen(t) /\ rows[t[1]] = t[2]
      BY <1>2, <1>4, <2>2 DEF SavedInv
    <3> QED BY <1>1, <1>3, <3>1
  <2> QED BY <2>1, <2>2
<1> QED BY <1>2, <1>3, <1>4 DEF SavedInv, IsKeygen

\* The key of a keygen about to be reported stays in the database.
LEMMA SavedStep ==
  ASSUME TypeOK, SavedInv, [Next]_vars
  PROVE  SavedInv'
<1>0. work \in [Subs -> Stages]
  BY DEF TypeOK
<1>1. ASSUME UNCHANGED <<rows, told>>, \A s \in Subs : work'[s] = "saved" => work[s] = "saved"
      PROVE  SavedInv'
  BY <1>1 DEF SavedInv, IsKeygen
<1>2. ASSUME NEW s \in Subs, SaveKeygen(s) \/ SaveKeygenFails(s)
      PROVE  SavedInv'
  BY <1>2, SaveFacts
<1>3. CASE Start \/ Crash \/ SetPrivKey \/ InitConnectionManager \/ SetSisuReady \/ UNCHANGED vars
  BY <1>1, <1>3 DEF Start, Crash, Stop, SetPrivKey, InitConnectionManager, SetSisuReady, vars
<1>4. ASSUME NEW s \in Subs,
             ExecuteWithoutInput(s) \/ Keygen(s) \/ Keysign(s) \/ KeysignReturns(s) \/ StartNextWork(s)
      PROVE  SavedInv'
  BY <1>0, <1>1, <1>4 DEF ExecuteWithoutInput, Stop, Keygen, Keysign, KeysignReturns, StartNextWork,
                          AddRequest
<1>5. ASSUME NEW s \in Subs, NEW c \in Subs, NEW l \in Subs, KeygenOverwrites(s, c, l)
      PROVE  SavedInv'
  BY <1>0, <1>1, <1>5 DEF KeygenOverwrites
<1>6. ASSUME NEW s \in Subs,
             \/ OnWorkSigningFinished(s) \/ RemoveRequest(s)
             \/ NotSelected(s) \/ OnWorkFailed(s) \/ NotRegistered(s)
      PROVE  SavedInv'
  BY <1>0, <1>1, <1>6 DEF OnWorkSigningFinished, RemoveRequest, NotSelected, OnWorkFailed, NotRegistered
<1>7. ASSUME NEW s \in Subs, OnWorkKeygenFinished(s)
      PROVE  SavedInv'
  BY <1>0, <1>7 DEF OnWorkKeygenFinished, SavedInv, IsKeygen
<1> QED BY <1>2, <1>3, <1>4, <1>5, <1>6, <1>7 DEF Next, Report

\* The types of the variables are kept.
LEMMA TypeStep ==
  ASSUME TypeOK, SavedInv, [Next]_vars
  PROVE  TypeOK'
<1> USE DEF TypeOK, server, Stages
<1>0. ASSUME Stop
      PROVE  TypeOK'
  <2>1. crashes' \in 0..MaxCrashes
    BY <1>0, BoundsAssumption DEF Stop
  <2>2. requests' \in [Keysigns -> Nat] /\ posts' \subseteq Posts
    BY <1>0 DEF Stop
  <2> QED BY <1>0, <2>1, <2>2 DEF Stop
<1>1. CASE Start \/ SetPrivKey \/ InitConnectionManager \/ SetSisuReady
  BY <1>1 DEF Start, SetPrivKey, InitConnectionManager, SetSisuReady, HasEngine
<1>2. CASE Crash
  BY <1>0, <1>2 DEF Crash
<1>3. ASSUME NEW s \in Subs, ExecuteWithoutInput(s)
      PROVE  TypeOK'
  BY <1>0, <1>3 DEF ExecuteWithoutInput
<1>4. ASSUME NEW s \in Subs, Keygen(s)
      PROVE  TypeOK'
  BY <1>4 DEF Keygen, AddRequest
<1>5. ASSUME NEW s \in Subs, Keysign(s)
      PROVE  TypeOK'
  <2>1. Loads(Algo[s[1]]) \subseteq BOOLEAN
    BY Zenon DEF Loads
  <2>2. input' \in [Subs -> BOOLEAN]
    BY <1>5, <2>1 DEF Keysign
  <2> QED BY <1>5, <2>2 DEF Keysign, AddRequest
<1>6. ASSUME NEW s \in Subs, KeysignReturns(s)
      PROVE  TypeOK'
  BY <1>6, SubsFacts DEF KeysignReturns
<1>7. ASSUME NEW s \in Subs, SaveKeygen(s) \/ SaveKeygenFails(s) \/ OnWorkKeygenFinished(s)
      PROVE  TypeOK'
  <2>1. CASE SaveKeygen(s) \/ SaveKeygenFails(s)
    <3>1. rows' \in [Keygens -> Nat]
      BY <2>1, SaveFacts
    <3> QED BY <2>1, <3>1 DEF SaveKeygen, SaveKeygenFails
  <2>2. CASE OnWorkKeygenFinished(s)
    BY <2>2 DEF OnWorkKeygenFinished
  <2> QED BY <1>7, <2>1, <2>2
<1>8. ASSUME NEW s \in Subs, OnWorkSigningFinished(s) \/ OnWorkFailed(s)
      PROVE  TypeOK'
  <2>1. ASSUME ~IsKeygen(s), Post(s)
        PROVE  posts' \subseteq Posts
    <3>1. requests[s[1]] \in Nat
      BY <2>1, SubsFacts
    <3> DEFINE late == \/ call[s] = "added"
                       \/ \E t \in Others(s) : call[t] \in {"added", "returned"}
    <3>2. late \in BOOLEAN
      OBVIOUS
    <3>3. posts' = posts \cup {[sub |-> s, request |-> requests[s[1]], excused |-> late]}
      BY <2>1 DEF Post
    <3> HIDE DEF late
    <3> QED BY <3>1, <3>2, <3>3 DEF Posts
  <2> QED BY <1>8, <2>1 DEF OnWorkSigningFinished, OnWorkFailed
<1>9. ASSUME NEW s \in Subs, RemoveRequest(s) \/ NotSelected(s) \/ NotRegistered(s)
      PROVE  TypeOK'
  BY <1>9 DEF RemoveRequest, NotSelected, NotRegistered
<1>10. CASE UNCHANGED vars
  BY <1>10 DEF vars
<1>11. ASSUME NEW s \in Subs, NEW c \in Subs, NEW l \in Subs, KeygenOverwrites(s, c, l)
      PROVE  TypeOK'
  BY <1>11 DEF KeygenOverwrites
<1>12. ASSUME NEW s \in Subs, StartNextWork(s)
      PROVE  TypeOK'
  BY <1>12 DEF StartNextWork
<1> QED BY <1>1, <1>2, <1>3, <1>4, <1>5, <1>6, <1>7, <1>8, <1>9, <1>10, <1>11, <1>12 DEF Next, Report

\* The types of the variables, and the key of a keygen about to be reported is in the database.
THEOREM HeartTypeCorrect == Spec => [](TypeOK /\ SavedInv)
<1>1. Init => TypeOK
  <2> SUFFICES ASSUME Init PROVE TypeOK
    OBVIOUS
  <2>1. crashes \in 0..MaxCrashes
    BY BoundsAssumption DEF Init
  <2>2. requests \in [Keysigns -> Nat] /\ posts \subseteq Posts
    BY DEF Init
  <2>3. rows \in [Keygens -> Nat]
    BY DEF Init
  <2> QED BY <2>1, <2>2, <2>3 DEF Init, TypeOK, Stages
<1>2. Init => SavedInv
  BY DEF Init, SavedInv
<1> QED BY <1>1, <1>2, TypeStep, SavedStep, PTL DEF Spec

\* Only OnWorkKeygenFinished tells Sisu of a key, and rows are never changed.
LEMMA KeySteps ==
  ASSUME TypeOK, SavedInv, [Next]_vars
  PROVE  /\ \A w \in Keygens : rows[w] # 0 => rows'[w] = rows[w]
         /\ told' = told \/ \E s \in Subs : OnWorkKeygenFinished(s)
<1>1. CASE Start
  BY <1>1 DEF Start, server
<1>2. CASE Crash
  BY <1>2 DEF Crash, Stop, server
<1>3. CASE SetPrivKey
  BY <1>3 DEF SetPrivKey, server
<1>4. CASE InitConnectionManager
  BY <1>4 DEF InitConnectionManager, server
<1>5. CASE SetSisuReady
  BY <1>5 DEF SetSisuReady, server
<1>6. CASE \E x \in Subs : ExecuteWithoutInput(x)
  BY <1>6 DEF ExecuteWithoutInput, Stop, server
<1>7. CASE \E x \in Subs : Keygen(x)
  BY <1>7 DEF Keygen, server
<1>8. CASE \E x \in Subs : Keysign(x)
  BY <1>8 DEF Keysign, server
<1>9. CASE \E x \in Subs : KeysignReturns(x)
  BY <1>9 DEF KeysignReturns, server
<1>10. CASE \E x \in Subs : StartNextWork(x)
  BY <1>10 DEF StartNextWork, server
<1>11. CASE \E x \in Subs : SaveKeygen(x)
  BY <1>11, SaveFacts DEF SaveKeygen
<1>12. CASE \E x \in Subs : SaveKeygenFails(x)
  BY <1>12, SaveFacts DEF SaveKeygenFails
<1>13. CASE \E x \in Subs : OnWorkKeygenFinished(x)
  BY <1>13 DEF OnWorkKeygenFinished, server
<1>14. CASE \E x \in Subs : OnWorkSigningFinished(x)
  BY <1>14 DEF OnWorkSigningFinished, server
<1>15. CASE \E x \in Subs : RemoveRequest(x)
  BY <1>15 DEF RemoveRequest, server
<1>16. CASE \E x \in Subs : NotSelected(x)
  BY <1>16 DEF NotSelected, server
<1>17. CASE \E x \in Subs : OnWorkFailed(x)
  BY <1>17 DEF OnWorkFailed, server
<1>18. CASE \E x \in Subs : NotRegistered(x)
  BY <1>18 DEF NotRegistered, server
<1>19. CASE \E x, c, l \in Subs : KeygenOverwrites(x, c, l)
  BY <1>19 DEF KeygenOverwrites, server
<1>20. CASE UNCHANGED vars
  BY <1>20 DEF vars, server
<1> QED BY <1>1, <1>2, <1>3, <1>4, <1>5, <1>6, <1>7, <1>8, <1>9, <1>10,
           <1>11, <1>12, <1>13, <1>14, <1>15, <1>16, <1>17, <1>18, <1>19, <1>20
        DEF Next, Report

\* A key Sisu is told of is the one in the database.
THEOREM KeysAreStored == Spec => []PostedKeyIsStored
<1>1. Init => PostedKeyIsStored
  BY DEF Init, PostedKeyIsStored
<1>2. TypeOK /\ SavedInv /\ PostedKeyIsStored /\ [Next]_vars => PostedKeyIsStored'
  <2> SUFFICES ASSUME TypeOK, SavedInv, PostedKeyIsStored, [Next]_vars,
                      NEW s \in told'
               PROVE  rows'[s[1]] = s[2]
    BY DEF PostedKeyIsStored
  <2>1. s \in Subs /\ IsKeygen(s) /\ rows[s[1]] = s[2]
    <3>1. CASE s \in told
      BY <3>1 DEF TypeOK, SavedInv, PostedKeyIsStored
    <3>2. CASE s \notin told
      BY <3>2, KeySteps DEF OnWorkKeygenFinished, SavedInv
    <3> QED BY <3>1, <3>2
  <2>2. s[1] \in Keygens /\ s[2] # 0
    BY <2>1, SubsFacts
  <2>3. \A w \in Keygens : rows[w] # 0 => rows'[w] = rows[w]
    BY KeySteps
  <2> QED BY <2>1, <2>2, <2>3
<1> QED BY <1>1, <1>2, HeartTypeCorrect, PTL DEF Spec

\* Signings that are not started again and whose call has returned have their
\* request in the map.
LEMMA RequestStep ==
  ASSUME TypeOK, SavedInv, RequestInv, [Next]_vars
  PROVE  RequestInv'
<1> USE DEF TypeOK, RequestInv, Stages
<1>0. ASSUME Stop
      PROVE  RequestInv'
  BY <1>0 DEF Stop
<1>1. CASE Start \/ Crash \/ SetPrivKey \/ InitConnectionManager \/ SetSisuReady \/ UNCHANGED vars
  BY <1>0, <1>1 DEF Start, Crash, SetPrivKey, InitConnectionManager, SetSisuReady, vars
<1>2. ASSUME NEW s \in Subs, ExecuteWithoutInput(s)
      PROVE  RequestInv'
  BY <1>0, <1>2 DEF ExecuteWithoutInput
<1>3. ASSUME NEW s \in Subs, Keygen(s)
      PROVE  RequestInv'
  BY <1>3 DEF Keygen, Submits, AddRequest
<1>4. ASSUME NEW s \in Subs, Keysign(s)
      PROVE  RequestInv'
  BY <1>4 DEF Keysign, Submits, AddRequest
<1>5. ASSUME NEW s \in Subs, KeysignReturns(s)
      PROVE  RequestInv'
  BY <1>5, SubsFacts DEF KeysignReturns, Others, IsKeygen
<1>6. ASSUME NEW s \in Subs, RemoveRequest(s)
      PROVE  RequestInv'
  BY <1>6, SubsFacts DEF RemoveRequest, Others, IsKeygen
<1>7. ASSUME NEW s \in Subs,
             \/ SaveKeygen(s) \/ SaveKeygenFails(s) \/ OnWorkKeygenFinished(s)
             \/ NotSelected(s) \/ NotRegistered(s)
      PROVE  RequestInv'
  BY <1>7 DEF SaveKeygen, SaveKeygenFails, OnWorkKeygenFinished, NotSelected, NotRegistered
<1>8. ASSUME NEW s \in Subs, OnWorkSigningFinished(s) \/ OnWorkFailed(s)
      PROVE  RequestInv'
  BY <1>8 DEF OnWorkSigningFinished, OnWorkFailed
<1>9. ASSUME NEW s \in Subs, StartNextWork(s)
      PROVE  RequestInv'
  BY <1>9 DEF StartNextWork
<1>10. ASSUME NEW s \in Subs, NEW c \in Subs, NEW l \in Subs, KeygenOverwrites(s, c, l)
      PROVE  RequestInv'
  <2>1. IsKeygen(s) /\ IsKeygen(c)
    BY <1>10 DEF KeygenOverwrites, Overwrites, IsKeygen
  <2>2. /\ UNCHANGED requests
        /\ call'[s] = "returned" /\ call'[c] = "returned"
        /\ \A t \in Subs : t \notin {s, c} => call'[t] = call[t]
    BY <1>10 DEF KeygenOverwrites
  <2>3. /\ work'[s] \in {"queued", "lost"} /\ work'[c] \in {"queued", "lost"}
        /\ work[l] = "queued" /\ work'[l] = "lost"
        /\ \A t \in Subs : t \notin {s, c, l} => work'[t] = work[t]
    BY <1>10 DEF KeygenOverwrites
  <2>4. \A t \in Subs : work'[t] # "none" => call'[t] \in {"added", "returned"}
    BY <2>2, <2>3
  <2>5. \A t \in Subs : work'[t] = "answering" => ~IsKeygen(t)
    BY <2>3
  <2>6. ASSUME NEW t \in Subs, ~IsKeygen(t), work'[t] \in {"queued", "running"}, call'[t] = "returned",
               \A u \in Others(t) : call'[u] \notin {"added", "returned"}
        PROVE  requests'[t[1]] = t[2]
    <3>1. t \notin {s, c} /\ \A u \in Others(t) : u \in Subs /\ u \notin {s, c}
      BY <2>1, <2>6 DEF Others, IsKeygen
    <3>2. work[t] \in {"queued", "running"} /\ call[t] = "returned"
      BY <2>2, <2>3, <2>6, <3>1
    <3>3. \A u \in Others(t) : call[u] \notin {"added", "returned"}
      BY <2>2, <2>6, <3>1
    <3> QED BY <2>2, <2>6, <3>2, <3>3
  <2> QED BY <2>4, <2>5, <2>6 DEF Others, IsKeygen
<1> QED BY <1>1, <1>2, <1>3, <1>4, <1>5, <1>6, <1>7, <1>8, <1>9, <1>10 DEF Next, Report

\* Results are posted by OnWorkSigningFinished and OnWorkFailed of running signings.
LEMMA PostSteps ==
  ASSUME [Next]_vars
  PROVE  \/ posts' \subseteq posts
         \/ \E s \in Subs : ~IsKeygen(s) /\ work[s] = "running" /\ Post(s)
<1>1. CASE Start
  BY <1>1 DEF Start, server
<1>2. CASE Crash
  BY <1>2 DEF Crash, Stop, server
<1>3. CASE SetPrivKey
  BY <1>3 DEF SetPrivKey, server
<1>4. CASE InitConnectionManager
  BY <1>4 DEF InitConnectionManager, server
<1>5. CASE SetSisuReady
  BY <1>5 DEF SetSisuReady, server
<1>6. CASE \E x \in Subs : ExecuteWithoutInput(x)
  BY <1>6 DEF ExecuteWithoutInput, Stop, server
<1>7. CASE \E x \in Subs : Keygen(x)
  BY <1>7 DEF Keygen, server
<1>8. CASE \E x \in Subs : Keysign(x)
  BY <1>8 DEF Keysign, server
<1>9. CASE \E x \in Subs : KeysignReturns(x)
  BY <1>9 DEF KeysignReturns, server
<1>10. CASE \E x \in Subs : StartNextWork(x)
  BY <1>10 DEF StartNextWork, server
<1>11. CASE \E x \in Subs : SaveKeygen(x)
  BY <1>11 DEF SaveKeygen, server
<1>12. CASE \E x \in Subs : SaveKeygenFails(x)
  BY <1>12 DEF SaveKeygenFails, server
<1>13. CASE \E x \in Subs : OnWorkKeygenFinished(x)
  BY <1>13 DEF OnWorkKeygenFinished, server
<1>14. CASE \E x \in Subs : OnWorkSigningFinished(x)
  BY <1>14 DEF OnWorkSigningFinished, server
<1>15. CASE \E x \in Subs : RemoveRequest(x)
  BY <1>15 DEF RemoveRequest, server
<1>16. CASE \E x \in Subs : NotSelected(x)
  BY <1>16 DEF NotSelected, server
<1>17. CASE \E x \in Subs : OnWorkFailed(x)
  BY <1>17 DEF OnWorkFailed, server
<1>18. CASE \E x \in Subs : NotRegistered(x)
  BY <1>18 DEF NotRegistered, server
<1>19. CASE \E x, c, l \in Subs : KeygenOverwrites(x, c, l)
  BY <1>19 DEF KeygenOverwrites, server
<1>20. CASE UNCHANGED vars
  BY <1>20 DEF vars, server
<1> QED BY <1>1, <1>2, <1>3, <1>4, <1>5, <1>6, <1>7, <1>8, <1>9, <1>10,
           <1>11, <1>12, <1>13, <1>14, <1>15, <1>16, <1>17, <1>18, <1>19, <1>20
        DEF Next, Report

\* A result posted for a signing carries the request of the client, unless the
\* worker was faster than Keysign or the work was submitted again.
THEOREM RequestsAreAttached == Spec => []RequestAttached
<1>1. Init => RequestInv /\ RequestAttached
  BY DEF Init, RequestInv, RequestAttached
<1>2. RequestInv /\ RequestAttached /\ [Next]_vars => RequestAttached'
  <2> SUFFICES ASSUME RequestInv, RequestAttached, [Next]_vars
               PROVE  RequestAttached'
    OBVIOUS
  <2>1. ASSUME NEW s \in Subs, ~IsKeygen(s), work[s] = "running", Post(s)
        PROVE  RequestAttached'
    <3> DEFINE late == \/ call[s] = "added"
                       \/ \E t \in Others(s) : call[t] \in {"added", "returned"}
               p    == [sub |-> s, request |-> requests[s[1]], excused |-> late]
    <3>1. late \/ requests[s[1]] = s[2]
      BY <2>1 DEF RequestInv
    <3>2. posts' = posts \cup {p}
      BY <2>1 DEF Post
    <3>3. p.excused = late /\ p.request = requests[s[1]] /\ p.sub = s
      OBVIOUS
    <3> HIDE DEF p, late
    <3> QED BY <3>1, <3>2, <3>3 DEF RequestAttached
  <2>2. CASE posts' \subseteq posts
    BY <2>2 DEF RequestAttached
  <2> QED BY <2>1, <2>2, PostSteps
<1> QED BY <1>1, <1>2, RequestStep, HeartTypeCorrect, PTL DEF Spec

EcSignings == {s \in Subs : ~IsKeygen(s) /\ Algo[s[1]] = "ec"}
InEngine   == {"queued", "running", "lost"}

\* A step keeps every ECDSA signing accounted for if it forgets no post and moves
\* each one on only with a post, or with another submission to stand in for it.
LEMMA AccountKept ==
  ASSUME EcAccountedFor,
         posts \subseteq posts',
         \A s \in EcSignings : work'[s] \in {"answering", "ended"} =>
           work[s] \in {"answering", "ended"} \/ Posted(s)',
         \A s \in EcSignings : work'[s] \in {"refused", "dropped"} =>
           \/ work[s] \in {"refused", "dropped"}
           \/ \E o \in Others(s) : work'[o] \in InEngine \/ Posted(o)',
         \A s \in EcSignings : work[s] \in InEngine =>
           \/ work'[s] \in InEngine
           \/ Posted(s)'
           \/ \E o \in Others(s) : work[o] = "ended"
  PROVE  EcAccountedFor'
<1>1. \A s \in Subs : Posted(s) => Posted(s)'
  BY DEF Posted
<1>2. \A s \in EcSignings : \A o \in Others(s) : o \in EcSignings
  BY DEF EcSignings, Others, IsKeygen
<1>3. \A s \in EcSignings :
        /\ work[s] \in {"answering", "ended"} => Posted(s)
        /\ work[s] \in {"refused", "dropped"} => \E o \in Others(s) : work[o] \in InEngine \/ Posted(o)
  BY DEF EcAccountedFor, EcSignings, InEngine
<1>4. \A s \in EcSignings : s \in Subs
  BY DEF EcSignings
<1>5. ASSUME NEW s \in EcSignings, work'[s] \in {"answering", "ended"}
      PROVE  Posted(s)'
  BY <1>1, <1>3, <1>4, <1>5
<1>6. ASSUME NEW s \in EcSignings, work[s] \in {"refused", "dropped"}
      PROVE  \E o \in Others(s) : work'[o] \in InEngine \/ Posted(o)'
  <2>1. PICK o \in Others(s) : work[o] \in InEngine \/ Posted(o)
    BY <1>3, <1>6
  <2>2. o \in EcSignings /\ o \in Subs
    BY <1>2, <1>4
  <2>3. CASE Posted(o)
    BY <1>1, <2>2, <2>3
  <2>4. CASE work[o] \in InEngine /\ (work'[o] \in InEngine \/ Posted(o)')
    BY <2>4
  <2>5. ASSUME NEW e \in Others(o), work[e] = "ended"
        PROVE  e \in Others(s) /\ Posted(e)'
    <3>1. e \in EcSignings /\ e \in Subs
      BY <1>2, <1>4, <2>2
    <3>2. Posted(e)'
      BY <1>1, <1>3, <2>5, <3>1
    <3>3. e # s
      BY <1>6, <2>5
    <3>4. e \in Others(s)
      BY <3>1, <3>3 DEF Others
    <3> QED BY <3>2, <3>4
  <2> QED BY <2>1, <2>2, <2>3, <2>4, <2>5
<1>7. ASSUME NEW s \in EcSignings, work'[s] \in {"refused", "dropped"}
      PROVE  \E o \in Others(s) : work'[o] \in InEngine \/ Posted(o)'
  BY <1>6, <1>7
<1>8. ASSUME NEW s \in Subs, ~IsKeygen(s), Algo[s[1]] = "ec"
      PROVE  /\ work'[s] \in {"answering", "ended"} => Posted(s)'
             /\ work'[s] \in {"refused", "dropped"} =>
                  \E o \in Others(s) : work'[o] \in {"queued", "running", "lost"} \/ Posted(o)'
  <2>1. s \in EcSignings
    BY <1>8 DEF EcSignings
  <2> QED BY <1>5, <1>7, <2>1 DEF InEngine
<1> QED BY <1>8 DEF EcAccountedFor, IsKeygen, Others

\* A post of s is one, and forgets no other.
LEMMA PostFacts ==
  ASSUME NEW s \in Subs, Post(s)
  PROVE  posts \subseteq posts' /\ Posted(s)'
<1> DEFINE p == [sub |-> s, request |-> requests[s[1]],
                 excused |-> \/ call[s] = "added"
                             \/ \E t \in Others(s) : call[t] \in {"added", "returned"}]
<1>1. posts' = posts \cup {p} /\ p.sub = s
  BY DEF Post
<1> HIDE DEF p
<1> QED BY <1>1 DEF Posted

\* Every step keeps every ECDSA signing accounted for.
LEMMA AccountStep ==
  ASSUME TypeOK, SavedInv, RequestInv, EcAccountedFor, [Next]_vars
  PROVE  EcAccountedFor'
<1>0. work \in [Subs -> Stages] /\ \A s \in Subs : Others(s) \subseteq Subs
  BY DEF TypeOK, Others
<1>1. ASSUME UNCHANGED posts,
             \A t \in EcSignings :
               work'[t] = work[t] \/ (work[t] = "queued" /\ work'[t] \in {"running", "lost"})
                                 \/ (work[t] = "answering" /\ work'[t] = "ended")
      PROVE  EcAccountedFor'
  BY <1>1, AccountKept DEF InEngine
<1>2. ASSUME Stop
      PROVE  EcAccountedFor'
  BY <1>2 DEF Stop, EcAccountedFor
<1>3. CASE Start \/ Crash \/ SetPrivKey \/ InitConnectionManager \/ SetSisuReady \/ UNCHANGED vars
  BY <1>1, <1>2, <1>3 DEF Start, Crash, SetPrivKey, InitConnectionManager, SetSisuReady, vars
<1>4. ASSUME NEW s \in Subs, ExecuteWithoutInput(s)
      PROVE  EcAccountedFor'
  BY <1>2, <1>4 DEF ExecuteWithoutInput
<1>5. ASSUME NEW s \in Subs,
             KeysignReturns(s) \/ StartNextWork(s) \/ RemoveRequest(s)
      PROVE  EcAccountedFor'
  BY <1>0, <1>1, <1>5 DEF KeysignReturns, StartNextWork, RemoveRequest, EcSignings
<1>6. ASSUME NEW s \in Subs,
             Keygen(s) \/ SaveKeygen(s) \/ SaveKeygenFails(s) \/ OnWorkKeygenFinished(s) \/ NotSelected(s)
      PROVE  EcAccountedFor'
  <2>1. UNCHANGED posts /\ s \notin EcSignings
    BY <1>6 DEF Keygen, SaveKeygen, SaveKeygenFails, OnWorkKeygenFinished, NotSelected, SavedInv, EcSignings
  <2>2. \A t \in Subs : t # s => work'[t] = work[t]
    BY <1>0, <1>6 DEF Keygen, AddRequest, SaveKeygen, SaveKeygenFails, OnWorkKeygenFinished, NotSelected
  <2> QED BY <1>1, <2>1, <2>2 DEF EcSignings
<1>7. ASSUME NEW s \in Subs, NEW c \in Subs, NEW l \in Subs, KeygenOverwrites(s, c, l)
      PROVE  EcAccountedFor'
  <2>1. s \notin EcSignings /\ c \notin EcSignings
    BY <1>7 DEF KeygenOverwrites, Overwrites, IsKeygen, EcSignings
  <2> QED BY <1>0, <1>1, <1>7, <2>1 DEF KeygenOverwrites, EcSignings
<1>8. ASSUME NEW s \in Subs, Keysign(s)
      PROVE  EcAccountedFor'
  <2>0. UNCHANGED posts /\ (AddRequest(s) \/ UNCHANGED work) /\ work[s] = "none"
    BY <1>8 DEF Keysign, Submits, RequestInv
  <2>1. CASE UNCHANGED work
    BY <1>1, <2>0, <2>1
  <2>2. CASE AddRequest(s)
    <3>1. /\ work'[s] \in {"queued", "refused"}
          /\ \A t \in Subs : t # s => work'[t] = work[t]
      BY <1>0, <2>2 DEF AddRequest
    <3>2. work'[s] = "refused" => \E o \in Others(s) : work[o] = "queued"
      BY <1>0, <2>2 DEF AddRequest, InQueue
    <3>3. work'[s] = "refused" => \E o \in Others(s) : work'[o] \in InEngine
      BY <3>1, <3>2 DEF Others, InEngine
    <3>4. \A t \in EcSignings : t = s \/ work'[t] = work[t]
      BY <3>1 DEF EcSignings
    <3>5. work[s] \notin InEngine
      BY <2>0 DEF InEngine
    <3> QED BY <2>0, <3>1, <3>3, <3>4, <3>5, AccountKept
  <2> QED BY <2>0, <2>1, <2>2
<1>9. ASSUME NEW s \in Subs, OnWorkSigningFinished(s) \/ OnWorkFailed(s)
      PROVE  EcAccountedFor'
  <2>1. /\ \A t \in Subs : t # s => work'[t] = work[t]
        /\ work'[s] \in {"answering", "ended"}
        /\ IF IsKeygen(s) THEN UNCHANGED posts ELSE Post(s)
    BY <1>0, <1>9 DEF OnWorkSigningFinished, OnWorkFailed
  <2>2. CASE IsKeygen(s)
    BY <1>1, <2>1, <2>2 DEF EcSignings
  <2>3. CASE ~IsKeygen(s)
    <3>1. posts \subseteq posts' /\ Posted(s)'
      BY <2>1, <2>3, PostFacts
    <3>2. \A t \in EcSignings : t = s \/ work'[t] = work[t]
      BY <2>1 DEF EcSignings
    <3> QED BY <2>1, <3>1, <3>2, AccountKept
  <2> QED BY <2>2, <2>3
<1>10. ASSUME NEW s \in Subs, NotRegistered(s)
      PROVE  EcAccountedFor'
  <2>1. PICK o \in Others(s) : work[o] = "ended"
    BY <1>10 DEF NotRegistered
  <2>2. /\ UNCHANGED posts
        /\ work'[s] = "dropped"
        /\ \A t \in Subs : t # s => work'[t] = work[t]
    BY <1>0, <1>10 DEF NotRegistered
  <2>3. s \in EcSignings => Posted(o)'
    BY <2>1, <2>2 DEF EcAccountedFor, EcSignings, Others, IsKeygen, Posted
  <2>4. \A t \in EcSignings : t = s \/ work'[t] = work[t]
    BY <2>2 DEF EcSignings
  <2> QED BY <2>1, <2>2, <2>3, <2>4, AccountKept
<1> QED BY <1>3, <1>4, <1>5, <1>6, <1>7, <1>8, <1>9, <1>10 DEF Next, Report

\* Every submission of an ECDSA signing is answered, or stands for one that is, or
\* waits in the engine, or was overwritten in the queue: none comes to an end in
\* silence, not even one whose failure the engine does not report.
THEOREM NoEndUnanswered == Spec => []EcAccountedFor
<1>1. Init => EcAccountedFor /\ RequestInv
  BY DEF Init, EcAccountedFor, RequestInv
<1>2. TypeOK /\ SavedInv /\ RequestInv /\ EcAccountedFor /\ [Next]_vars => EcAccountedFor'
  BY AccountStep
<1> QED BY <1>1, <1>2, RequestStep, HeartTypeCorrect, PTL DEF Spec

\* A heart accepts works only after SetSisuReady, and listens from then on or was
\* called too early.
LEMMA ListenStep ==
  ASSUME TypeOK, ListenInv, [Next]_vars
  PROVE  ListenInv'
<1>0. work \in [Subs -> Stages]
  BY DEF TypeOK
<1>1. ASSUME UNCHANGED <<ready, listening, early>>,
             ready \/ \A s \in Subs : work'[s] # "none" => work[s] # "none"
      PROVE  ListenInv'
  BY <1>1 DEF ListenInv
<1>2. ASSUME Stop
      PROVE  ListenInv'
  BY <1>2 DEF Stop, ListenInv
<1>3. CASE Start \/ SetPrivKey \/ InitConnectionManager \/ UNCHANGED vars
  BY <1>1, <1>3 DEF Start, SetPrivKey, InitConnectionManager, vars, server
<1>4. CASE SetSisuReady
  BY <1>4 DEF SetSisuReady, ListenInv
<1>5. ASSUME NEW s \in Subs, Keygen(s) \/ Keysign(s)
      PROVE  ListenInv'
  BY <1>1, <1>5 DEF Keygen, Keysign, Serving, server
<1>6. ASSUME NEW s \in Subs, NEW c \in Subs, NEW l \in Subs, KeygenOverwrites(s, c, l)
      PROVE  ListenInv'
  BY <1>1, <1>6 DEF KeygenOverwrites, Serving, server
<1>7. ASSUME NEW s \in Subs, KeysignReturns(s) \/ StartNextWork(s) \/ Report(s)
      PROVE  ListenInv'
  <2>1. UNCHANGED <<ready, listening, early>>
    BY <1>7 DEF KeysignReturns, StartNextWork, Report, SaveKeygen, SaveKeygenFails, OnWorkKeygenFinished,
                OnWorkSigningFinished, RemoveRequest, NotSelected, OnWorkFailed, NotRegistered, server
  <2>2. \A t \in Subs : work'[t] # "none" => work[t] # "none"
    BY <1>0, <1>7 DEF KeysignReturns, StartNextWork, Report, SaveKeygen, SaveKeygenFails,
                OnWorkKeygenFinished, OnWorkSigningFinished, RemoveRequest, NotSelected, OnWorkFailed,
                NotRegistered
  <2> QED BY <1>1, <2>1, <2>2
<1>8. CASE Crash \/ \E s \in Subs : ExecuteWithoutInput(s)
  BY <1>2, <1>8 DEF Crash, ExecuteWithoutInput
<1> QED BY <1>3, <1>4, <1>5, <1>6, <1>7, <1>8 DEF Next

\* A heart that has accepted a work listens to its peers, or SetSisuReady came before
\* the engine.
THEOREM AcceptedAreHeard == Spec => []AcceptedIsHeard
<1>1. Init => ListenInv
  BY DEF Init, ListenInv
<1>2. TypeOK /\ ListenInv /\ [Next]_vars => ListenInv'
  BY ListenStep
<1>3. ListenInv => AcceptedIsHeard
  BY DEF ListenInv, AcceptedIsHeard
<1> QED BY <1>1, <1>2, <1>3, HeartTypeCorrect, PTL DEF Spec
=============================================================================
