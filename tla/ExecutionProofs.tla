--------------------------- MODULE ExecutionProofs ---------------------------
(***************************************************************************)
(* Proofs about the execution of a work on one node, for every type of     *)
(* work, any size of the batch and any number of peers.                    *)
(***************************************************************************)
EXTENDS Execution, SequenceTheorems, TLAPS

\* The types are a sequence.
LEMMA TypesFacts ==
  /\ Len(GetMessagesByWorkType) \in Nat
  /\ Types = 1..Len(GetMessagesByWorkType)
<1>1. GetMessagesByWorkType \in Seq(Nat)
  <2>1. CASE WorkType = "EcKeygen"
    <3>1. GetMessagesByWorkType = <<1, 2, 2, 3>>
      BY <2>1 DEF GetMessagesByWorkType
    <3> QED BY <3>1
  <2>2. CASE WorkType = "EdKeygen"
    <3>1. GetMessagesByWorkType = <<1, 2, 2>>
      BY <2>2 DEF GetMessagesByWorkType
    <3> QED BY <3>1
  <2>3. CASE WorkType = "EdSigning"
    <3>1. GetMessagesByWorkType = <<1, 2, 3>>
      BY <2>3 DEF GetMessagesByWorkType
    <3> QED BY <3>1
  <2>4. CASE WorkType = "EcSigning"
    <3>1. GetMessagesByWorkType = IF HasPresign THEN <<1>> ELSE <<1, 1, 2, 3, 4, 5, 6, 7>>
      BY <2>4 DEF GetMessagesByWorkType
    <3>2. CASE HasPresign
      BY <3>1, <3>2
    <3>3. CASE ~HasPresign
      BY <3>1, <3>3
    <3> QED BY <3>2, <3>3
  <2> QED BY <2>1, <2>2, <2>3, <2>4, WorkTypeAssumption
<1> QED BY <1>1, LenProperties DEF Types

\* What stands in a sequence that was appended to.
LEMMA Appended ==
  ASSUME NEW S, NEW s \in Seq(S), NEW e \in S,
         NEW i \in DOMAIN Append(s, e)
  PROVE  Append(s, e)[i] = e \/ (i \in DOMAIN s /\ Append(s, e)[i] = s[i])
<1>1. /\ Append(s, e) \in Seq(S)
      /\ Len(Append(s, e)) = Len(s) + 1
      /\ \A k \in 1..Len(s) : Append(s, e)[k] = s[k]
      /\ Append(s, e)[Len(s) + 1] = e
  BY AppendProperties
<1>2. DOMAIN Append(s, e) = 1..(Len(s) + 1) /\ DOMAIN s = 1..Len(s) /\ Len(s) \in Nat
  BY <1>1, LenProperties
<1>3. i \in 1..Len(s) \/ i = Len(s) + 1
  BY <1>2
<1> QED BY <1>1, <1>2, <1>3

\* A failure appended to the calls that are under way adds no success.
LEMMA FailureAppended ==
  ASSUME callback \in Seq({"ok", "fail"}),
         callback' = callback \/ callback' = Append(callback, "fail")
  PROVE  \A i \in DOMAIN callback' :
           callback'[i] = "fail" \/ (i \in DOMAIN callback /\ callback'[i] = callback[i])
<1> DEFINE R == {"ok", "fail"}
<1>1. callback \in Seq(R) /\ "fail" \in R
  OBVIOUS
<1> HIDE DEF R
<1>2. CASE callback' = callback
  BY <1>2
<1>3. CASE callback' = Append(callback, "fail")
  BY <1>1, <1>3, Appended
<1> QED BY <1>2, <1>3

-----------------------------------------------------------------------------
(* Types *)

\* A call that goes on keeps the types of calls and listeners.
LEMMA ProceedType ==
  ASSUME TypeOK, NEW c \in Calls, NEW s \in Stages, Proceed(c, s)
  PROVE  /\ call' \in [Jobs \X {"ok", "fail"} -> Stages]
         /\ listener' \in [Jobs -> {"off", "on", "blocked", "returned", "timeout"}]
<1>1. c[1] \in Jobs
  BY DEF Calls
<1> QED BY <1>1 DEF TypeOK, Proceed, Calls

\* Broadcasting keeps the types.
LEMMA BroadcastType ==
  ASSUME TypeOK, NEW r \in {"ok", "fail"}, BroadcastResult(r)
  PROVE  stopped' \in {"no", "yes"} /\ callback' \in Seq({"ok", "fail"})
<1> DEFINE R == {"ok", "fail"}
<1>1. callback \in Seq(R) /\ r \in R
  BY DEF TypeOK
<1>2. Append(callback, r) \in Seq(R)
  <2> HIDE DEF R
  <2> QED BY <1>1, AppendProperties
<1> QED BY <1>1, <1>2 DEF TypeOK, BroadcastResult

\* The types of the variables.
THEOREM ExecutionTypeCorrect == Spec => []TypeOK
<1>1. Init => TypeOK
  <2> SUFFICES ASSUME Init PROVE TypeOK
    OBVIOUS
  <2>1. 0 \in 0..Len(GetMessagesByWorkType)
    BY TypesFacts
  <2>2. call \in [Jobs \X {"ok", "fail"} -> Stages]
    BY DEF Init, Stages
  <2> QED BY <2>1, <2>2 DEF Init, NewJobs, TypeOK
<1>2. TypeOK /\ [Next]_vars => TypeOK'
  <2> SUFFICES ASSUME TypeOK, [Next]_vars
               PROVE  TypeOK'
    OBVIOUS
  <2> USE DEF TypeOK, party, job
  <2>1. CASE StartExecution
    <3>1. /\ listener' \in [Jobs -> {"off", "on", "blocked", "returned", "timeout"}]
          /\ failing' \in {"no", "yes"}
      BY <2>1 DEF StartExecution, StartJobs
    <3> QED BY <2>1, <3>1 DEF StartExecution
  <2>2. ASSUME NEW m \in Msgs, ProcessNewMessage(m)
        PROVE  TypeOK'
    BY <2>2 DEF ProcessNewMessage
  <2>3. ASSUME NEW m \in Msgs, ProcessUpdateMessage(m)
        PROVE  TypeOK'
    BY <2>3 DEF ProcessUpdateMessage
  <2>4. CASE OnJobExecutionResult
    <3>1. callback \in Seq({"ok", "fail"}) /\ reports \in Seq({"result", "failed"})
      OBVIOUS
    <3>2. callback' \in Seq({"ok", "fail"})
      BY <2>4, <3>1, HeadTailProperties DEF OnJobExecutionResult
    <3>3. reports' \in Seq({"result", "failed"})
      <4> DEFINE R == {"result", "failed"}
      <4>1. PICK r \in R : reports' = Append(reports, r)
        BY <2>4 DEF OnJobExecutionResult
      <4> HIDE DEF R
      <4>2. reports \in Seq(R)
        BY <3>1 DEF R
      <4>3. reports' \in Seq(R)
        BY <4>1, <4>2, AppendProperties
      <4> QED BY <4>3 DEF R
    <3> QED BY <2>4, <3>2, <3>3 DEF OnJobExecutionResult
  <2>5. CASE BroadcastFailure
    BY <2>5, BroadcastType DEF BroadcastFailure
  <2>6. ASSUME NEW j \in Jobs, NEW m \in Msgs, ProcessMessage(j, m)
        PROVE  TypeOK'
    <3>1. inbox' \in [Jobs -> SUBSET Msgs]
      BY <2>6 DEF ProcessMessage
    <3>2. received' \in [Jobs -> SUBSET Msgs]
      <4>1. received' = [received EXCEPT ![j] = @ \cup {m}] \/ received' = received
        BY <2>6 DEF ProcessMessage
      <4>2. received \in [Jobs -> SUBSET Msgs] /\ received[j] \cup {m} \in SUBSET Msgs
        OBVIOUS
      <4> HIDE DEF TypeOK
      <4> QED BY <4>1, <4>2
    <3> QED BY <2>6, <3>1, <3>2 DEF ProcessMessage
  <2>7. ASSUME NEW j \in Jobs, PartySends(j)
        PROVE  TypeOK'
    <3>1. /\ made' = [made EXCEPT ![j] = @ + 1]
          /\ made[j] + 1 \in 0..Len(GetMessagesByWorkType)
      BY <2>7, TypesFacts DEF PartySends
    <3>2. made' \in [Jobs -> 0..Len(GetMessagesByWorkType)] /\ \A k \in Jobs : taken[k] <= made'[k]
      BY <3>1, TypesFacts
    <3> QED BY <2>7, <3>2 DEF PartySends
  <2>8. ASSUME NEW j \in Jobs, PartyEnds(j)
        PROVE  TypeOK'
    BY <2>8 DEF PartyEnds
  <2>9. ASSUME NEW j \in Jobs, AddOutMessage(j)
        PROVE  TypeOK'
    <3>1. /\ taken' = [taken EXCEPT ![j] = @ + 1]
          /\ taken[j] + 1 \in 1..Len(GetMessagesByWorkType)
          /\ taken[j] + 1 <= made[j]
      BY <2>9, TypesFacts DEF AddOutMessage
    <3>2. taken' \in [Jobs -> 0..Len(GetMessagesByWorkType)] /\ \A k \in Jobs : taken'[k] <= made[k]
      BY <3>1, TypesFacts
    <3>3. sent' \subseteq Types
      BY <2>9, <3>1, TypesFacts DEF AddOutMessage, OnJobMessage
    <3> QED BY <2>9, <3>2, <3>3 DEF AddOutMessage
  <2>10. ASSUME NEW j \in Jobs, TakeResult(j) \/ JobTimeout(j)
         PROVE  TypeOK'
    <3>1. call' \in [Jobs \X {"ok", "fail"} -> Stages]
      BY <2>10 DEF TakeResult, JobTimeout, Stages
    <3> QED BY <2>10, <3>1 DEF TakeResult, JobTimeout
  <2>11. ASSUME NEW c \in Calls, CheckStopped(c)
         PROVE  TypeOK'
    BY <2>11, ProceedType DEF CheckStopped, Stages
  <2>12. ASSUME NEW c \in Calls, StoreResult(c)
         PROVE  TypeOK'
    <3>1. \E s \in Stages : Proceed(c, s)
      BY <2>12 DEF StoreResult, Stages
    <3>2. results' \in [Jobs -> {"nil", "ok", "fail"}]
      BY <2>12 DEF StoreResult, Calls
    <3> QED BY <2>12, <3>1, <3>2, ProceedType DEF StoreResult
  <2>13. ASSUME NEW c \in Calls, CastResult(c)
         PROVE  TypeOK'
    <3>1. stopped' \in {"no", "yes"} /\ callback' \in Seq({"ok", "fail"})
      BY <2>13, BroadcastType DEF CastResult
    <3> QED BY <2>13, <3>1, ProceedType DEF CastResult, Stages
  <2>14. CASE UNCHANGED vars
    BY <2>14 DEF vars
  <2> HIDE DEF TypeOK, party, job
  <2> QED BY <2>1, <2>2, <2>3, <2>4, <2>5, <2>6, <2>7, <2>8, <2>9, <2>10, <2>11, <2>12, <2>13, <2>14
          DEF Next, Calls
<1> QED BY <1>1, <1>2, PTL DEF Spec

-----------------------------------------------------------------------------
(* Outcomes *)

\* broadcastResult: the engine is told one outcome at most, however many jobs,
\* timers and refused messages end in it, in whatever order.
THEOREM ReportedOnce == Spec => []ReportsOnce
<1>1. Init => ReportInv
  BY DEF Init, ReportInv, ReportsOnce
<1>2. TypeOK /\ ReportInv /\ [Next]_vars => ReportInv'
  <2> SUFFICES ASSUME TypeOK, ReportInv, [Next]_vars
               PROVE  ReportInv'
    OBVIOUS
  <2>1. /\ callback \in Seq({"ok", "fail"}) /\ reports \in Seq({"result", "failed"})
        /\ stopped \in {"no", "yes"}
        /\ Len(callback) \in Nat /\ Len(reports) \in Nat
    BY LenProperties DEF TypeOK
  <2>2. CASE OnJobExecutionResult
    <3>1. Len(callback') = Len(callback) - 1
      BY <2>1, <2>2, HeadTailProperties DEF OnJobExecutionResult
    <3>2. Len(reports') = Len(reports) + 1
      BY <2>1, <2>2 DEF OnJobExecutionResult
    <3>3. stopped' = stopped /\ callback # << >>
      BY <2>2 DEF OnJobExecutionResult
    <3> QED BY <2>1, <3>1, <3>2, <3>3 DEF ReportInv, ReportsOnce
  <2>3. ASSUME NEW r \in {"ok", "fail"}, BroadcastResult(r), UNCHANGED reports
        PROVE  ReportInv'
    <3>1. CASE stopped = "no"
      <4>1. Len(callback') = 1 /\ Len(reports') = 0 /\ stopped' = "yes"
        BY <2>3, <3>1 DEF BroadcastResult, ReportInv
      <4> QED BY <4>1 DEF ReportInv, ReportsOnce
    <3>2. CASE stopped = "yes"
      BY <2>3, <3>2 DEF BroadcastResult, ReportInv, ReportsOnce
    <3> QED BY <2>1, <3>1, <3>2
  <2>4. CASE BroadcastFailure \/ \E c \in Calls : CastResult(c)
    BY <2>3, <2>4 DEF BroadcastFailure, CastResult
  <2>5. CASE UNCHANGED <<stopped, callback, reports>>
    BY <2>5 DEF ReportInv, ReportsOnce
  <2> QED
    <3>1. CASE StartExecution
      BY <2>5, <3>1 DEF StartExecution, party, job
    <3>2. CASE \E m \in Msgs : ProcessNewMessage(m)
      BY <2>5, <3>2 DEF ProcessNewMessage, party, job
    <3>3. CASE \E m \in Msgs : ProcessUpdateMessage(m)
      BY <2>5, <3>3 DEF ProcessUpdateMessage, party, job
    <3>4. CASE \E j \in Jobs, m \in Msgs : ProcessMessage(j, m)
      BY <2>5, <3>4 DEF ProcessMessage, party, job
    <3>5. CASE \E j \in Jobs : PartySends(j)
      BY <2>5, <3>5 DEF PartySends, party, job
    <3>6. CASE \E j \in Jobs : PartyEnds(j)
      BY <2>5, <3>6 DEF PartyEnds, party, job
    <3>7. CASE \E j \in Jobs : AddOutMessage(j)
      BY <2>5, <3>7 DEF AddOutMessage, party, job
    <3>8. CASE \E j \in Jobs : TakeResult(j)
      BY <2>5, <3>8 DEF TakeResult, party, job
    <3>9. CASE \E j \in Jobs : JobTimeout(j)
      BY <2>5, <3>9 DEF JobTimeout, party, job
    <3>10. CASE \E c \in Calls : CheckStopped(c)
      BY <2>5, <3>10 DEF CheckStopped, party, job
    <3>11. CASE \E c \in Calls : StoreResult(c)
      BY <2>5, <3>11 DEF StoreResult, party, job
    <3>12. CASE UNCHANGED vars
      BY <2>5, <3>12 DEF vars, party, job
    <3> QED BY <2>2, <2>4, <3>1, <3>2, <3>3, <3>4, <3>5, <3>6, <3>7, <3>8, <3>9, <3>10, <3>11, <3>12
            DEF Next, Calls
<1>3. ReportInv => ReportsOnce
  BY DEF ReportInv
<1> QED BY <1>1, <1>2, <1>3, ExecutionTypeCorrect, PTL DEF Spec

\* A success that is on its way or reported has the result of every party: the
\* failure of a timer that races the last result cannot be overlooked.
THEOREM SuccessHasAllResults == Spec => []SuccessIsWhole
<1> DEFINE AllTaken == \A j \in Jobs : endCh[j] = "taken"
           Success  == \/ \E i \in DOMAIN callback : callback[i] = "ok"
                       \/ \E i \in DOMAIN reports : reports[i] = "result"
<1>1. Init => ResultInv
  BY DEF Init, NewJobs, ResultInv, SuccessIsWhole
<1>2. TypeOK /\ ResultInv /\ [Next]_vars => ResultInv'
  <2> SUFFICES ASSUME TypeOK, ResultInv, [Next]_vars
               PROVE  ResultInv'
    OBVIOUS
  <2>1. Success => AllTaken
    BY DEF ResultInv, SuccessIsWhole
  <2>2. ASSUME Success' => AllTaken',
               \A j \in Jobs : call'[<<j, "ok">>] # "no" \/ results'[j] = "ok" => endCh'[j] = "taken",
               (\E c \in Calls : call'[c] = "castok") => AllTaken'
        PROVE  ResultInv'
    BY <2>2 DEF ResultInv, SuccessIsWhole, Calls
  <2>3. /\ callback \in Seq({"ok", "fail"}) /\ reports \in Seq({"result", "failed"})
        /\ endCh \in [Jobs -> {"empty", "full", "taken"}]
        /\ call \in [Calls -> Stages]
        /\ results \in [Jobs -> {"nil", "ok", "fail"}]
    BY DEF TypeOK, Calls
  <2>4. /\ \A j \in Jobs : call[<<j, "ok">>] # "no" \/ results[j] = "ok" => endCh[j] = "taken"
        /\ (\E c \in Calls : call[c] = "castok") => AllTaken
    BY DEF ResultInv, Calls
  <2>5. CASE OnJobExecutionResult
    <3>1. Success' => Success
      <4>1. \A i \in DOMAIN callback' : i + 1 \in DOMAIN callback /\ callback'[i] = callback[i + 1]
        BY <2>3, <2>5 DEF OnJobExecutionResult
      <4>2. CASE Head(callback) = "ok"
        BY <2>3, <2>5, <4>2 DEF OnJobExecutionResult
      <4>3. CASE Head(callback) # "ok"
        <5>1. reports' = Append(reports, "failed")
          BY <2>5, <4>3 DEF OnJobExecutionResult
        <5>2. \A i \in DOMAIN reports' :
                reports'[i] = "failed" \/ (i \in DOMAIN reports /\ reports'[i] = reports[i])
          BY <2>3, <5>1, Appended
        <5> QED BY <4>1, <5>2
      <4> QED BY <4>2, <4>3
    <3> QED BY <2>1, <2>2, <2>4, <2>5, <3>1 DEF OnJobExecutionResult, job
  <2>6. CASE BroadcastFailure
    <3>1. callback' = callback \/ callback' = Append(callback, "fail")
      BY <2>6 DEF BroadcastFailure, BroadcastResult
    <3>2. \A i \in DOMAIN callback' :
            callback'[i] = "fail" \/ (i \in DOMAIN callback /\ callback'[i] = callback[i])
      BY <2>3, <3>1, FailureAppended
    <3> QED BY <2>1, <2>2, <2>4, <2>6, <3>2 DEF BroadcastFailure, job
  <2>7. ASSUME NEW j \in Jobs, PartyEnds(j)
        PROVE  ResultInv'
    <3>1. \A k \in Jobs : endCh[k] = "taken" => endCh'[k] = "taken"
      BY <2>3, <2>7 DEF PartyEnds
    <3> QED BY <2>1, <2>2, <2>4, <2>7, <3>1 DEF PartyEnds
  <2>8. ASSUME NEW j \in Jobs, TakeResult(j)
        PROVE  ResultInv'
    <3>1. endCh' = [endCh EXCEPT ![j] = "taken"] /\ call' = [call EXCEPT ![<<j, "ok">>] = "check"]
      BY <2>8 DEF TakeResult
    <3>2. AllTaken => AllTaken'
      BY <2>3, <3>1
    <3>3. \A k \in Jobs : call'[<<k, "ok">>] # "no" \/ results'[k] = "ok" => endCh'[k] = "taken"
      BY <2>3, <2>4, <2>8, <3>1 DEF TakeResult
    <3>4. (\E c \in Calls : call'[c] = "castok") => AllTaken'
      BY <2>3, <2>4, <3>1, <3>2
    <3> QED BY <2>1, <2>2, <2>8, <3>2, <3>3, <3>4 DEF TakeResult
  <2>9. ASSUME NEW j \in Jobs, JobTimeout(j)
        PROVE  ResultInv'
    <3>1. call' = [call EXCEPT ![<<j, "fail">>] = "check"]
      BY <2>9 DEF JobTimeout
    <3>2. \A k \in Jobs : call'[<<k, "ok">>] = call[<<k, "ok">>]
      BY <2>3, <3>1
    <3>3. \A c \in Calls : call'[c] = "castok" => call[c] = "castok"
      BY <2>3, <3>1
    <3> QED BY <2>1, <2>2, <2>4, <2>9, <3>2, <3>3 DEF JobTimeout
  <2>10. ASSUME NEW c \in Calls, CheckStopped(c)
         PROVE  ResultInv'
    <3>1. PICK s \in {"over", "store"} : call[c] = "check" /\ call' = [call EXCEPT ![c] = s]
      BY <2>10 DEF CheckStopped, Proceed
    <3>2. \A d \in Calls : /\ call'[d] # "no" => call[d] # "no"
                           /\ call'[d] = "castok" => call[d] = "castok"
      BY <2>3, <3>1
    <3>3. \A k \in Jobs : <<k, "ok">> \in Calls
      BY DEF Calls
    <3> QED BY <2>1, <2>2, <2>4, <2>10, <3>2, <3>3 DEF CheckStopped
  <2>11. ASSUME NEW c \in Calls, StoreResult(c)
         PROVE  ResultInv'
    <3>1. /\ call[c] = "store"
          /\ results' = [results EXCEPT ![c[1]] = c[2]]
          /\ UNCHANGED <<endCh, callback, reports>>
      BY <2>11 DEF StoreResult
    <3>2. PICK s \in {"over", "castok", "castfail"} :
            /\ call' = [call EXCEPT ![c] = s]
            /\ s = "castok" => \A j \in Jobs : results'[j] \notin {"nil", "fail"}
      BY <2>11 DEF StoreResult, Proceed
    <3>3. PICK j \in Jobs, r \in {"ok", "fail"} : c = <<j, r>>
      BY DEF Calls
    <3>4. \A k \in Jobs : results'[k] = "ok" => endCh[k] = "taken"
      BY <2>3, <2>4, <3>1, <3>3
    <3>5. \A k \in Jobs : call'[<<k, "ok">>] # "no" => endCh[k] = "taken"
      BY <2>3, <2>4, <3>1, <3>2, <3>3
    <3>6. results' \in [Jobs -> {"nil", "ok", "fail"}]
      BY <2>3, <3>1, <3>3
    <3>7. s = "castok" => AllTaken
      BY <3>2, <3>4, <3>6
    <3>8. (\E d \in Calls : call'[d] = "castok") => AllTaken
      BY <2>3, <2>4, <3>2, <3>7
    <3> QED BY <2>1, <2>2, <3>1, <3>4, <3>5, <3>8
  <2>12. ASSUME NEW c \in Calls, CastResult(c)
         PROVE  ResultInv'
    <3>1. /\ call[c] \in {"castok", "castfail"}
          /\ call' = [call EXCEPT ![c] = "over"]
          /\ UNCHANGED <<endCh, results, reports>>
      BY <2>12 DEF CastResult, Proceed
    <3>2. \/ callback' = callback
          \/ callback' = Append(callback, IF call[c] = "castok" THEN "ok" ELSE "fail")
      BY <2>12 DEF CastResult, BroadcastResult
    <3>3. Success' => AllTaken
      <4>1. CASE call[c] = "castok"
        BY <2>4, <4>1
      <4>2. CASE call[c] = "castfail"
        <5>1. callback' = callback \/ callback' = Append(callback, "fail")
          BY <3>2, <4>2
        <5>2. \A i \in DOMAIN callback' :
                callback'[i] = "fail" \/ (i \in DOMAIN callback /\ callback'[i] = callback[i])
          BY <2>3, <5>1, FailureAppended
        <5> QED BY <2>1, <3>1, <5>2
      <4> QED BY <3>1, <4>1, <4>2
    <3>4. \A d \in Calls : /\ call'[d] # "no" => call[d] # "no"
                           /\ call'[d] = "castok" => call[d] = "castok"
      BY <2>3, <3>1
    <3>5. \A k \in Jobs : <<k, "ok">> \in Calls
      BY DEF Calls
    <3>6. UNCHANGED <<endCh, results>>
      BY <3>1
    <3> QED BY <2>2, <2>4, <3>3, <3>4, <3>5, <3>6
  <2>13. CASE UNCHANGED <<callback, reports, call, results, endCh>>
    BY <2>13 DEF ResultInv, SuccessIsWhole
  <2> QED
    <3>1. CASE StartExecution
      BY <2>13, <3>1 DEF StartExecution, party, job
    <3>2. CASE \E m \in Msgs : ProcessNewMessage(m)
      BY <2>13, <3>2 DEF ProcessNewMessage, party, job
    <3>3. CASE \E m \in Msgs : ProcessUpdateMessage(m)
      BY <2>13, <3>3 DEF ProcessUpdateMessage, party, job
    <3>4. CASE \E j \in Jobs, m \in Msgs : ProcessMessage(j, m)
      BY <2>13, <3>4 DEF ProcessMessage, party, job
    <3>5. CASE \E j \in Jobs : PartySends(j)
      BY <2>13, <3>5 DEF PartySends, party, job
    <3>6. CASE \E j \in Jobs : AddOutMessage(j)
      BY <2>13, <3>6 DEF AddOutMessage, party, job
    <3>7. CASE UNCHANGED vars
      BY <2>13, <3>7 DEF vars, party, job
    <3> QED BY <2>5, <2>6, <2>7, <2>8, <2>9, <2>10, <2>11, <2>12, <3>1, <3>2, <3>3, <3>4, <3>5, <3>6, <3>7
            DEF Next, Calls
<1>3. ResultInv => SuccessIsWhole
  BY DEF ResultInv
<1> QED BY <1>1, <1>2, <1>3, ExecutionTypeCorrect, PTL DEF Spec

-----------------------------------------------------------------------------
(* Messages *)

\* OnJobMessage: no message of the batch is composed while a job lacks its part.
THEOREM SentMessagesWhole == Spec => []SentIsWhole
<1>1. Init => SentIsWhole
  BY DEF Init, SentIsWhole
<1>2. TypeOK /\ SentIsWhole /\ [Next]_vars => SentIsWhole'
  <2> SUFFICES ASSUME TypeOK, SentIsWhole, [Next]_vars
               PROVE  SentIsWhole'
    OBVIOUS
  <2>1. ASSUME NEW j \in Jobs, AddOutMessage(j)
        PROVE  SentIsWhole'
    <3>1. /\ taken \in [Jobs -> 0..Len(GetMessagesByWorkType)]
          /\ taken' = [taken EXCEPT ![j] = @ + 1]
          /\ sent \subseteq 1..Len(GetMessagesByWorkType)
      BY <2>1, TypesFacts DEF TypeOK, AddOutMessage
    <3>2. \A i \in sent : \A k \in Jobs : taken'[k] >= i
      BY <3>1, TypesFacts DEF SentIsWhole
    <3>3. \A i \in sent' \ sent : \A k \in Jobs : taken'[k] >= i
      BY <2>1 DEF AddOutMessage, OnJobMessage
    <3> QED BY <3>2, <3>3 DEF SentIsWhole
  <2>2. CASE UNCHANGED <<taken, sent>>
    BY <2>2 DEF SentIsWhole
  <2> QED
    <3>1. CASE StartExecution
      BY <2>2, <3>1 DEF StartExecution, party, job
    <3>2. CASE \E m \in Msgs : ProcessNewMessage(m)
      BY <2>2, <3>2 DEF ProcessNewMessage, party, job
    <3>3. CASE \E m \in Msgs : ProcessUpdateMessage(m)
      BY <2>2, <3>3 DEF ProcessUpdateMessage, party, job
    <3>4. CASE OnJobExecutionResult
      BY <2>2, <3>4 DEF OnJobExecutionResult, party, job
    <3>5. CASE BroadcastFailure
      BY <2>2, <3>5 DEF BroadcastFailure, party, job
    <3>6. CASE \E j \in Jobs, m \in Msgs : ProcessMessage(j, m)
      BY <2>2, <3>6 DEF ProcessMessage, party, job
    <3>7. CASE \E j \in Jobs : PartySends(j)
      BY <2>2, <3>7 DEF PartySends, party, job
    <3>8. CASE \E j \in Jobs : PartyEnds(j)
      BY <2>2, <3>8 DEF PartyEnds, party, job
    <3>9. CASE \E j \in Jobs : TakeResult(j)
      BY <2>2, <3>9 DEF TakeResult, party, job
    <3>10. CASE \E j \in Jobs : JobTimeout(j)
      BY <2>2, <3>10 DEF JobTimeout, party, job
    <3>11. CASE \E c \in Calls : CheckStopped(c)
      BY <2>2, <3>11 DEF CheckStopped, party, job
    <3>12. CASE \E c \in Calls : StoreResult(c)
      BY <2>2, <3>12 DEF StoreResult, party, job
    <3>13. CASE \E c \in Calls : CastResult(c)
      BY <2>2, <3>13 DEF CastResult, party, job
    <3>14. CASE UNCHANGED vars
      BY <2>2, <3>14 DEF vars, party, job
    <3> QED BY <2>1, <3>1, <3>2, <3>3, <3>4, <3>5, <3>6, <3>7, <3>8, <3>9, <3>10, <3>11, <3>12, <3>13, <3>14
            DEF Next, Calls
<1> QED BY <1>1, <1>2, ExecutionTypeCorrect, PTL DEF Spec

\* ProcessNewMessage and runExecutor: no message of a peer is lost between the
\* cache of the worker and the parties.
THEOREM MessagesReachParties == Spec => []NoMessageForgotten
<1>1. Init => NoMessageForgotten
  BY DEF Init, NoMessageForgotten
<1>2. TypeOK /\ NoMessageForgotten /\ [Next]_vars => NoMessageForgotten'
  <2> SUFFICES ASSUME TypeOK, NoMessageForgotten, [Next]_vars
               PROVE  NoMessageForgotten'
    OBVIOUS
  <2> USE DEF NoMessageForgotten, party, job
  <2>1. CASE StartExecution
    <3>1. failing' = "yes" \/ failing' = failing
      BY <2>1 DEF StartExecution, StartJobs
    <3> QED BY <2>1, <3>1 DEF StartExecution
  <2>2. ASSUME NEW m \in Msgs, ProcessNewMessage(m)
        PROVE  NoMessageForgotten'
    BY <2>2 DEF ProcessNewMessage
  <2>3. ASSUME NEW m \in Msgs, ProcessUpdateMessage(m)
        PROVE  NoMessageForgotten'
    BY <2>3 DEF ProcessUpdateMessage, TypeOK
  <2>4. ASSUME NEW j \in Jobs, NEW m \in Msgs, ProcessMessage(j, m)
        PROVE  NoMessageForgotten'
    <3>1. inbox \in [Jobs -> SUBSET Msgs] /\ received \in [Jobs -> SUBSET Msgs]
      BY DEF TypeOK
    <3>2. /\ inbox' = [inbox EXCEPT ![j] = @ \ {m}]
          /\ UNCHANGED <<executor, net, cache, arriving, stopped>>
      BY <2>4 DEF ProcessMessage
    <3>3. CASE failing' = "yes"
      BY <3>3
    <3>4. CASE received' = [received EXCEPT ![j] = @ \cup {m}] /\ UNCHANGED failing
      <4>1. \A k \in Jobs : inbox[k] \cup received[k] \subseteq inbox'[k] \cup received'[k]
        BY <3>1, <3>2, <3>4
      <4> QED BY <3>2, <3>4, <4>1
    <3> QED BY <2>4, <3>3, <3>4 DEF ProcessMessage
  <2>5. CASE BroadcastFailure \/ \E c \in Calls : CastResult(c)
    <3>1. stopped' = "yes"
      BY <2>5 DEF BroadcastFailure, CastResult, BroadcastResult, TypeOK
    <3> QED BY <3>1
  <2>6. CASE UNCHANGED <<executor, net, cache, arriving, inbox, received, failing, stopped>>
    BY <2>6
  <2> QED
    <3> HIDE DEF NoMessageForgotten
    <3>1. CASE OnJobExecutionResult
      BY <2>6, <3>1 DEF OnJobExecutionResult, party, job
    <3>2. CASE \E j \in Jobs : PartySends(j)
      BY <2>6, <3>2 DEF PartySends, party, job
    <3>3. CASE \E j \in Jobs : PartyEnds(j)
      BY <2>6, <3>3 DEF PartyEnds, party, job
    <3>4. CASE \E j \in Jobs : AddOutMessage(j)
      BY <2>6, <3>4 DEF AddOutMessage, party, job
    <3>5. CASE \E j \in Jobs : TakeResult(j)
      BY <2>6, <3>5 DEF TakeResult, party, job
    <3>6. CASE \E j \in Jobs : JobTimeout(j)
      BY <2>6, <3>6 DEF JobTimeout, party, job
    <3>7. CASE \E c \in Calls : CheckStopped(c)
      BY <2>6, <3>7 DEF CheckStopped, party, job
    <3>8. CASE \E c \in Calls : StoreResult(c)
      BY <2>6, <3>8 DEF StoreResult, party, job
    <3>9. CASE UNCHANGED vars
      BY <2>6, <3>9 DEF vars, party, job
    <3> QED BY <2>1, <2>2, <2>3, <2>4, <2>5, <3>1, <3>2, <3>3, <3>4, <3>5, <3>6, <3>7, <3>8, <3>9
            DEF Next, Calls
<1> QED BY <1>1, <1>2, ExecutionTypeCorrect, PTL DEF Spec

\* The executor counts all messages of a party, but the last one of an ECDSA
\* signing without presigns.
LEMMA CountFacts ==
  /\ GetMessageCountByWorkType \in Nat
  /\ GetMessageCountByWorkType <= Len(GetMessagesByWorkType)
  /\ Len(GetMessagesByWorkType) <= GetMessageCountByWorkType + 1
  /\ WorkType # "EcSigning" \/ HasPresign =>
       GetMessageCountByWorkType = Len(GetMessagesByWorkType)
<1>1. CASE WorkType = "EcKeygen"
  <2>1. GetMessagesByWorkType = <<1, 2, 2, 3>> /\ GetMessageCountByWorkType = 4
    BY <1>1 DEF GetMessagesByWorkType, GetMessageCountByWorkType
  <2> QED BY <2>1
<1>2. CASE WorkType = "EdKeygen"
  <2>1. GetMessagesByWorkType = <<1, 2, 2>> /\ GetMessageCountByWorkType = 3
    BY <1>2 DEF GetMessagesByWorkType, GetMessageCountByWorkType
  <2> QED BY <2>1
<1>3. CASE WorkType = "EdSigning"
  <2>1. GetMessagesByWorkType = <<1, 2, 3>> /\ GetMessageCountByWorkType = 3
    BY <1>3 DEF GetMessagesByWorkType, GetMessageCountByWorkType
  <2> QED BY <2>1
<1>4. CASE WorkType = "EcSigning" /\ HasPresign
  <2>1. GetMessagesByWorkType = <<1>> /\ GetMessageCountByWorkType = 1
    BY <1>4 DEF GetMessagesByWorkType, GetMessageCountByWorkType
  <2> QED BY <2>1
<1>5. CASE WorkType = "EcSigning" /\ ~HasPresign
  <2>1. GetMessagesByWorkType = <<1, 1, 2, 3, 4, 5, 6, 7>> /\ GetMessageCountByWorkType = 7
    BY <1>5 DEF GetMessagesByWorkType, GetMessageCountByWorkType
  <2> QED BY <1>5, <2>1
<1> QED BY <1>1, <1>2, <1>3, <1>4, <1>5, WorkTypeAssumption

\* SentInv holds: OnJobMessage sends when the last job has its message.
LEMMA SentInvariant == Spec => []SentInv
<1>1. Init => SentInv
  <2> SUFFICES ASSUME Init PROVE SentInv
    OBVIOUS
  <2>1. 1 \in Jobs /\ \A i \in Types : i >= 1
    BY BatchAssumption, TypesFacts DEF Jobs
  <2>2. taken[1] = 0 /\ \A j \in Jobs : listener[j] = "off"
    BY <2>1 DEF Init, NewJobs
  <2>3. ASSUME NEW i \in Types PROVE ~ (taken[1] >= i)
    BY <2>1, <2>2, TypesFacts
  <2> QED BY <2>1, <2>2, <2>3 DEF SentInv
<1>2. TypeOK /\ SentInv /\ [Next]_vars => SentInv'
  <2> SUFFICES ASSUME TypeOK, SentInv, [Next]_vars
               PROVE  SentInv'
    OBVIOUS
  <2>0. /\ taken \in [Jobs -> 0..Len(GetMessagesByWorkType)]
        /\ listener \in [Jobs -> {"off", "on", "blocked", "returned", "timeout"}]
    BY DEF TypeOK
  <2>1. ASSUME UNCHANGED <<taken, sent>>,
               \A j \in Jobs : listener'[j] = "returned" => listener[j] = "returned" \/ DoneOutCh(taken[j])
        PROVE  SentInv'
    BY <2>1 DEF SentInv, DoneOutCh
  <2>2. CASE StartExecution
    <3>1. \A j \in Jobs : listener'[j] # "returned"
      BY <2>2 DEF StartExecution, StartJobs
    <3> QED BY <2>1, <2>2, <3>1 DEF StartExecution
  <2>3. ASSUME NEW j \in Jobs, AddOutMessage(j)
        PROVE  SentInv'
    <3>1. /\ taken' = [taken EXCEPT ![j] = @ + 1]
          /\ sent' = OnJobMessage(taken', taken[j] + 1)
          /\ \/ listener' = IF endCh[j] = "taken" /\ DoneOutCh(taken[j] + 1)
                            THEN [listener EXCEPT ![j] = "returned"] ELSE listener
             \/ listener' = [listener EXCEPT ![j] = "blocked"]
      BY <2>3, Zenon DEF AddOutMessage
    <3>2. /\ taken[j] \in Nat /\ taken'[j] = taken[j] + 1
          /\ \A k \in Jobs : k # j => taken'[k] = taken[k]
      BY <2>0, <3>1, TypesFacts
    <3>3. sent \subseteq sent' /\ ((\A k \in Jobs : taken'[k] >= taken[j] + 1) => taken[j] + 1 \in sent')
      BY <3>1 DEF OnJobMessage
    <3>4. ASSUME NEW i \in Types, \A k \in Jobs : taken'[k] >= i
          PROVE  i \in sent'
      <4>1. i \in Nat /\ taken[j] + 1 >= i
        BY <3>2, <3>4, TypesFacts
      <4>2. CASE i = taken[j] + 1
        BY <3>3, <3>4, <4>2
      <4>3. CASE i # taken[j] + 1
        <5>1. taken[j] >= i
          BY <3>2, <4>1, <4>3
        <5>2. \A k \in Jobs : taken[k] >= i
          BY <3>2, <3>4, <5>1
        <5> QED BY <3>3, <5>2 DEF SentInv
      <4> QED BY <4>2, <4>3
    <3>5. ASSUME NEW k \in Jobs, listener'[k] = "returned"
          PROVE  DoneOutCh(taken'[k])
      <4>1. CASE k = j /\ DoneOutCh(taken[j] + 1)
        BY <3>2, <4>1
      <4>2. CASE listener[k] = "returned"
        <5>1. taken[k] \in Nat /\ taken'[k] >= taken[k] /\ taken'[k] \in Nat
          BY <2>0, <3>2, TypesFacts
        <5>2. taken[k] >= GetMessageCountByWorkType
          BY <4>2 DEF SentInv, DoneOutCh
        <5> QED BY <5>1, <5>2, CountFacts DEF DoneOutCh
      <4> QED BY <2>0, <3>1, <3>5, <4>1, <4>2
    <3> QED BY <3>4, <3>5 DEF SentInv, DoneOutCh
  <2>4. ASSUME NEW j \in Jobs, JobTimeout(j)
        PROVE  SentInv'
    BY <2>0, <2>1, <2>4 DEF JobTimeout
  <2>5. ASSUME NEW c \in Calls, NEW s \in Stages, Proceed(c, s), UNCHANGED <<taken, sent>>
        PROVE  SentInv'
    <3>1. c[1] \in Jobs
      BY DEF Calls
    <3>2. \/ listener' = listener
          \/ DoneOutCh(taken[c[1]]) /\ listener' = [listener EXCEPT ![c[1]] = "returned"]
      BY <2>5 DEF Proceed
    <3> QED BY <2>0, <2>1, <2>5, <3>1, <3>2
  <2>6. ASSUME NEW c \in Calls, CheckStopped(c) \/ StoreResult(c) \/ CastResult(c)
        PROVE  SentInv'
    <3>1. UNCHANGED <<taken, sent>>
      BY <2>6 DEF CheckStopped, StoreResult, CastResult
    <3>2. \E s \in Stages : Proceed(c, s)
      BY <2>6 DEF CheckStopped, StoreResult, CastResult, Stages
    <3> QED BY <2>5, <3>1, <3>2
  <2>7. CASE UNCHANGED <<taken, sent, listener>>
    BY <2>1, <2>7
  <2> QED
    <3>1. CASE \E m \in Msgs : ProcessNewMessage(m)
      BY <2>7, <3>1 DEF ProcessNewMessage, job
    <3>2. CASE \E m \in Msgs : ProcessUpdateMessage(m)
      BY <2>7, <3>2 DEF ProcessUpdateMessage, job
    <3>3. CASE OnJobExecutionResult
      BY <2>7, <3>3 DEF OnJobExecutionResult, job
    <3>4. CASE BroadcastFailure
      BY <2>7, <3>4 DEF BroadcastFailure, job
    <3>5. CASE \E j \in Jobs, m \in Msgs : ProcessMessage(j, m)
      BY <2>7, <3>5 DEF ProcessMessage, job
    <3>6. CASE \E j \in Jobs : PartySends(j)
      BY <2>7, <3>6 DEF PartySends, job
    <3>7. CASE \E j \in Jobs : PartyEnds(j)
      BY <2>7, <3>7 DEF PartyEnds
    <3>8. CASE \E j \in Jobs : TakeResult(j)
      BY <2>7, <3>8 DEF TakeResult
    <3>9. CASE UNCHANGED vars
      BY <2>7, <3>9 DEF vars, job
    <3> QED BY <2>2, <2>3, <2>4, <2>6, <3>1, <3>2, <3>3, <3>4, <3>5, <3>6, <3>7, <3>8, <3>9
            DEF Next, Calls
<1> QED BY <1>1, <1>2, ExecutionTypeCorrect, PTL DEF Spec

\* When all jobs have returned, the messages the executor counts were sent.
LEMMA DoneSends ==
  ASSUME TypeOK, SentInv, \A j \in Jobs : listener[j] = "returned", NEW i \in Types,
         i <= GetMessageCountByWorkType
  PROVE  i \in sent
<1>1. ASSUME NEW j \in Jobs PROVE taken[j] >= i
  <2>1. taken[j] \in Nat /\ i \in Nat
    BY TypesFacts DEF TypeOK
  <2>2. taken[j] >= GetMessageCountByWorkType
    BY DEF SentInv, DoneOutCh
  <2> QED BY <2>1, <2>2, CountFacts
<1> QED BY <1>1 DEF SentInv

\* OnJobMessage: jobs that are done leave no message of their parties behind, for
\* the works whose messages the executor counts in full.
THEOREM DoneJobsSentAll ==
  ASSUME WorkType # "EcSigning" \/ HasPresign
  PROVE  Spec => []AllMessagesSent
<1>1. GetMessageCountByWorkType = Len(GetMessagesByWorkType) /\ Len(GetMessagesByWorkType) \in Nat
  BY CountFacts, TypesFacts
<1>2. TypeOK /\ SentInv => AllMessagesSent
  <2> SUFFICES ASSUME TypeOK, SentInv
               PROVE  AllMessagesSent
    OBVIOUS
  <2>1. ASSUME NEW j \in Jobs, listener[j] = "returned"
        PROVE  taken[j] = made[j]
    <3>1. taken[j] >= Len(GetMessagesByWorkType)
      BY <1>1, <2>1 DEF SentInv, DoneOutCh
    <3>2. /\ taken[j] \in 0..Len(GetMessagesByWorkType) /\ made[j] \in 0..Len(GetMessagesByWorkType)
          /\ taken[j] <= made[j]
      BY DEF TypeOK
    <3> QED BY <1>1, <3>1, <3>2
  <2>2. ASSUME \A j \in Jobs : listener[j] = "returned"
        PROVE  sent = Types
    <3>1. \A i \in Types : i <= GetMessageCountByWorkType
      BY <1>1, TypesFacts
    <3>2. sent \subseteq Types
      BY DEF TypeOK
    <3> QED BY <2>2, <3>1, <3>2, DoneSends
  <2> QED BY <2>1, <2>2 DEF AllMessagesSent
<1> QED BY <1>2, ExecutionTypeCorrect, SentInvariant, PTL

\* OnJobMessage: for every work, jobs that are done leave at most the last message
\* unsent.
THEOREM DoneJobsSentButLast == Spec => []OnlyLastUnsent
<1>1. TypeOK /\ SentInv => OnlyLastUnsent
  <2> SUFFICES ASSUME TypeOK, SentInv, \A j \in Jobs : listener[j] = "returned",
                      NEW i \in Types \ sent
               PROVE  i = Len(GetMessagesByWorkType)
    BY DEF OnlyLastUnsent
  <2>1. ~ (i <= GetMessageCountByWorkType)
    BY DoneSends
  <2> QED BY <2>1, CountFacts, TypesFacts
<1> QED BY <1>1, ExecutionTypeCorrect, SentInvariant, PTL

-----------------------------------------------------------------------------
(* An outcome is never lost *)

\* Whoever broadcasts leaves a stopped executor whose outcome is on its way.
LEMMA BroadcastStops ==
  ASSUME TypeOK, ProgressInv, NEW r \in {"ok", "fail"}, BroadcastResult(r), UNCHANGED reports
  PROVE  ProgressInv'
<1>1. callback \in Seq({"ok", "fail"}) /\ stopped \in {"no", "yes"}
  BY DEF TypeOK
<1>2. CASE stopped = "no"
  <2>1. callback' # << >>
    <3> DEFINE R == {"ok", "fail"}
    <3>1. callback \in Seq(R) /\ r \in R /\ callback' = Append(callback, r)
      BY <1>1, <1>2 DEF BroadcastResult
    <3> HIDE DEF R
    <3>2. Len(callback') = Len(callback) + 1 /\ Len(callback) \in Nat
      BY <3>1, AppendProperties, LenProperties
    <3> QED BY <3>2
  <2>2. stopped' = "yes"
    BY <1>2 DEF BroadcastResult
  <2> QED BY <2>1, <2>2 DEF ProgressInv
<1>3. CASE stopped = "yes"
  <2>1. stopped' = "yes" /\ callback' = callback /\ reports' = reports
    BY <1>3 DEF BroadcastResult
  <2> QED BY <1>3, <2>1 DEF ProgressInv
<1> QED BY <1>1, <1>2, <1>3

\* StartInv holds: jobs and timers start with the executor.
LEMMA StartInvariant == Spec => []StartInv
<1>1. Init => StartInv
  BY DEF Init, NewJobs, StartInv, Calls
<1>2. TypeOK /\ StartInv /\ [Next]_vars => StartInv'
  <2> SUFFICES ASSUME TypeOK, StartInv, [Next]_vars
               PROVE  StartInv'
    OBVIOUS
  <2>0. /\ listener \in [Jobs -> {"off", "on", "blocked", "returned", "timeout"}]
        /\ call \in [Calls -> Stages] /\ executor \in {"nil", "set"}
        /\ \A j \in Jobs : <<j, "ok">> \in Calls /\ <<j, "fail">> \in Calls
    BY DEF TypeOK, Calls
  <2>1. /\ \A j \in Jobs : Selecting(j) => executor = "set"
        /\ \A c \in Calls : call[c] # "no" => executor = "set"
    BY <2>0 DEF StartInv, Selecting
  <2>2. CASE StartExecution
    <3>1. executor' = "set" /\ executor = "nil" /\ call' = call
      BY <2>2 DEF StartExecution
    <3>2. \A j \in Jobs : call[<<j, "fail">>] = "no"
      BY <2>0, <3>1 DEF StartInv
    <3> QED BY <3>1, <3>2 DEF StartInv
  <2>3. ASSUME NEW j \in Jobs, AddOutMessage(j)
        PROVE  StartInv'
    <3>1. /\ Selecting(j) /\ UNCHANGED <<executor, call>>
          /\ \/ listener' = listener \/ listener' = [listener EXCEPT ![j] = "returned"]
             \/ listener' = [listener EXCEPT ![j] = "blocked"]
      BY <2>3 DEF AddOutMessage
    <3> QED BY <2>0, <2>1, <3>1 DEF StartInv
  <2>4. ASSUME NEW j \in Jobs, TakeResult(j)
        PROVE  StartInv'
    <3>1. /\ Selecting(j) /\ UNCHANGED <<executor, listener>>
          /\ call' = [call EXCEPT ![<<j, "ok">>] = "check"]
      BY <2>4 DEF TakeResult
    <3>2. \A k \in Jobs : call'[<<k, "fail">>] = call[<<k, "fail">>]
      BY <2>0, <3>1
    <3> QED BY <2>0, <2>1, <3>1, <3>2 DEF StartInv
  <2>5. ASSUME NEW j \in Jobs, JobTimeout(j)
        PROVE  StartInv'
    <3>1. /\ Selecting(j) /\ UNCHANGED executor
          /\ listener' = [listener EXCEPT ![j] = "timeout"]
          /\ call' = [call EXCEPT ![<<j, "fail">>] = "check"]
      BY <2>5 DEF JobTimeout
    <3>2. \A k \in Jobs : k # j => call'[<<k, "fail">>] = call[<<k, "fail">>] /\ listener'[k] = listener[k]
      BY <2>0, <3>1
    <3>3. listener'[j] = "timeout" /\ executor' = "set"
      BY <2>0, <2>1, <3>1
    <3> QED BY <3>2, <3>3 DEF StartInv
  <2>6. ASSUME NEW c \in Calls, CheckStopped(c) \/ StoreResult(c) \/ CastResult(c)
        PROVE  StartInv'
    <3>1. UNCHANGED executor /\ call[c] # "no"
      BY <2>6 DEF CheckStopped, StoreResult, CastResult
    <3>2. PICK s \in Stages : Proceed(c, s)
      BY <2>6 DEF CheckStopped, StoreResult, CastResult, Stages
    <3>3. /\ call' = [call EXCEPT ![c] = s]
          /\ listener' = listener \/ listener' = [listener EXCEPT ![c[1]] = "returned"]
      BY <3>2 DEF Proceed
    <3>4. \A k \in Jobs : listener'[k] = listener[k] \/ listener'[k] = "returned"
      BY <2>0, <3>3
    <3>5. ASSUME NEW k \in Jobs, listener'[k] \in {"off", "on"} PROVE call'[<<k, "fail">>] = "no"
      <4>1. listener[k] \in {"off", "on"}
        BY <3>4, <3>5
      <4>2. call[<<k, "fail">>] = "no"
        BY <4>1 DEF StartInv
      <4> QED BY <2>0, <3>1, <3>3, <4>2
    <3>6. executor' = "set"
      BY <2>1, <3>1
    <3> QED BY <3>5, <3>6 DEF StartInv
  <2>7. CASE UNCHANGED <<executor, listener, call>>
    BY <2>7 DEF StartInv
  <2> QED
    <3>1. CASE \E m \in Msgs : ProcessNewMessage(m)
      BY <2>7, <3>1 DEF ProcessNewMessage, job
    <3>2. CASE \E m \in Msgs : ProcessUpdateMessage(m)
      BY <2>7, <3>2 DEF ProcessUpdateMessage, job
    <3>3. CASE OnJobExecutionResult
      BY <2>7, <3>3 DEF OnJobExecutionResult, job
    <3>4. CASE BroadcastFailure
      BY <2>7, <3>4 DEF BroadcastFailure, job
    <3>5. CASE \E j \in Jobs, m \in Msgs : ProcessMessage(j, m)
      BY <2>7, <3>5 DEF ProcessMessage, job
    <3>6. CASE \E j \in Jobs : PartySends(j)
      BY <2>7, <3>6 DEF PartySends, job
    <3>7. CASE \E j \in Jobs : PartyEnds(j)
      BY <2>7, <3>7 DEF PartyEnds
    <3>8. CASE UNCHANGED vars
      BY <2>7, <3>8 DEF vars, job
    <3> QED BY <2>2, <2>3, <2>4, <2>5, <2>6, <3>1, <3>2, <3>3, <3>4, <3>5, <3>6, <3>7, <3>8
            DEF Next, Calls
<1> QED BY <1>1, <1>2, ExecutionTypeCorrect, PTL DEF Spec

\* ProgressInv holds: no job gives up before it has handed its result in, and the
\* one that stores the last result broadcasts.
LEMMA ProgressInvariant == Spec => []ProgressInv
<1>1. Init => ProgressInv
  <2> SUFFICES ASSUME Init PROVE ProgressInv
    OBVIOUS
  <2>1. 1 \in Jobs
    BY BatchAssumption DEF Jobs
  <2>2. \A j \in Jobs : listener[j] = "off" /\ endCh[j] = "empty" /\ results[j] = "nil"
    BY DEF Init, NewJobs
  <2>3. \A c \in Calls : call[c] = "no"
    BY DEF Init, Calls
  <2>4. stopped = "no" /\ executor = "nil"
    BY DEF Init
  <2> QED BY <2>1, <2>2, <2>3, <2>4 DEF ProgressInv
<1>2. TypeOK /\ StartInv /\ ProgressInv /\ [Next]_vars => ProgressInv'
  <2> SUFFICES ASSUME TypeOK, StartInv, ProgressInv, [Next]_vars
               PROVE  ProgressInv'
    OBVIOUS
  <2> DEFINE Listening == executor = "set" /\ failing = "no" => \A j \in Jobs : listener[j] # "off"
             Called    == \A j \in Jobs : endCh[j] = "taken" => call[<<j, "ok">>] # "no"
             Stored    == \A c \in Calls : call[c] = "over" => results[c[1]] # "nil"
             Busy(j)   == \/ listener[j] \in {"off", "blocked"} \/ Selecting(j) \/ results[j] # "nil"
                          \/ \E r \in {"ok", "fail"} : InCall(<<j, r>>)
             Casting   == (\A j \in Jobs : results[j] # "nil")
                          => \E c \in Calls : call[c] \in {"castok", "castfail"}
  <2>0. /\ endCh \in [Jobs -> {"empty", "full", "taken"}]
        /\ listener \in [Jobs -> {"off", "on", "blocked", "returned", "timeout"}]
        /\ call \in [Calls -> Stages]
        /\ results \in [Jobs -> {"nil", "ok", "fail"}]
        /\ stopped \in {"no", "yes"} /\ failing \in {"no", "yes"}
    BY DEF TypeOK, Calls
  <2>1. stopped = "no" => Listening /\ Called /\ Stored /\ (\A j \in Jobs : Busy(j)) /\ Casting
    BY DEF ProgressInv
  <2>2. ASSUME UNCHANGED <<stopped, callback, reports>>,
               stopped = "no" => Listening' /\ Called' /\ Stored' /\ (\A j \in Jobs : Busy(j)') /\ Casting'
        PROVE  ProgressInv'
    BY <2>2 DEF ProgressInv
  <2> HIDE DEF Listening, Called, Stored, Busy, Casting
  <2>3. \A j \in Jobs : <<j, "ok">> \in Calls /\ <<j, "fail">> \in Calls
    BY DEF Calls
  <2>4. CASE StartExecution
    <3>1. UNCHANGED <<stopped, callback, reports, endCh, call, results>>
      BY <2>4 DEF StartExecution
    <3>2. PICK n \in 0..BatchSize :
            /\ listener' = [j \in Jobs |-> IF j <= n THEN "on" ELSE "off"]
            /\ failing' = IF n < BatchSize THEN "yes" ELSE failing
      BY <2>4 DEF StartExecution, StartJobs
    <3>3. Listening'
      <4>1. CASE n < BatchSize
        BY <3>2, <4>1 DEF Listening
      <4>2. CASE ~ (n < BatchSize)
        <5>1. n = BatchSize
          BY <4>2, BatchAssumption
        <5>2. \A j \in Jobs : listener'[j] = "on"
          BY <3>2, <5>1, BatchAssumption DEF Jobs
        <5> QED BY <5>2 DEF Listening
      <4> QED BY <4>1, <4>2
    <3>4. ASSUME NEW j \in Jobs, stopped = "no" PROVE Busy(j)'
      <4>1. CASE call[<<j, "ok">>] \in {"no", "over"}
        <5>1. listener'[j] \in {"off", "on"}
          BY <3>2
        <5> QED BY <3>1, <4>1, <5>1 DEF Busy, Selecting
      <4>2. CASE call[<<j, "ok">>] \notin {"no", "over"}
        <5>1. call'[<<j, "ok">>] \in {"check", "store", "castok", "castfail"}
          BY <2>0, <2>3, <3>1, <4>2 DEF Stages
        <5> QED BY <5>1 DEF Busy, InCall
      <4> QED BY <4>1, <4>2
    <3>5. stopped = "no" => Called' /\ Stored' /\ Casting'
      BY <2>1, <3>1 DEF Called, Stored, Casting
    <3> QED BY <2>2, <3>1, <3>3, <3>4, <3>5
  <2>5. CASE OnJobExecutionResult
    <3>1. UNCHANGED <<executor, failing, listener, endCh, call, results, stopped>>
      BY <2>5 DEF OnJobExecutionResult, job
    <3>2. reports' # << >>
      <4> DEFINE R == {"result", "failed"}
      <4>1. PICK r \in R : reports' = Append(reports, r)
        BY <2>5 DEF OnJobExecutionResult
      <4>2. reports \in Seq(R)
        BY DEF TypeOK
      <4> HIDE DEF R
      <4>3. Len(reports') = Len(reports) + 1 /\ Len(reports) \in Nat
        BY <4>1, <4>2, AppendProperties, LenProperties
      <4> QED BY <4>3
    <3>3. stopped = "no" => Listening' /\ Called' /\ Stored' /\ (\A j \in Jobs : Busy(j)') /\ Casting'
      BY <2>1, <3>1 DEF Listening, Called, Stored, Busy, Casting, Selecting, InCall
    <3> QED BY <3>1, <3>2, <3>3 DEF ProgressInv, Listening, Called, Stored, Busy, Casting
  <2>6. CASE BroadcastFailure
    BY <2>6, BroadcastStops DEF BroadcastFailure
  <2>7. ASSUME NEW j \in Jobs, AddOutMessage(j)
        PROVE  ProgressInv'
    <3>1. /\ UNCHANGED <<executor, failing, endCh, call, results, stopped, callback, reports>>
          /\ Selecting(j)
      BY <2>7 DEF AddOutMessage
    <3>2. \/ listener' = listener
          \/ endCh[j] = "taken" /\ listener' = [listener EXCEPT ![j] = "returned"]
          \/ listener' = [listener EXCEPT ![j] = "blocked"]
      BY <2>7 DEF AddOutMessage
    <3>3. ASSUME NEW k \in Jobs, stopped = "no" PROVE Busy(k)'
      <4>1. CASE listener'[k] = listener[k]
        BY <2>1, <3>1, <3>3, <4>1 DEF Busy, Selecting, InCall
      <4>2. CASE k = j /\ endCh[j] = "taken"
        <5>1. call[<<j, "ok">>] = "over"
          BY <2>1, <3>1, <3>3, <4>2 DEF Called, Selecting
        <5>2. results[j] # "nil"
          BY <2>1, <2>3, <3>3, <5>1 DEF Stored
        <5> QED BY <3>1, <4>2, <5>2 DEF Busy
      <4>3. CASE k = j /\ listener' = [listener EXCEPT ![j] = "blocked"]
        BY <2>0, <4>3 DEF Busy
      <4> QED BY <2>0, <3>2, <4>1, <4>2, <4>3
    <3>4. Listening => Listening'
      BY <2>0, <3>1, <3>2 DEF Listening
    <3>5. stopped = "no" => Called' /\ Stored' /\ Casting'
      BY <2>1, <3>1 DEF Called, Stored, Casting
    <3> QED BY <2>1, <2>2, <3>1, <3>3, <3>4, <3>5
  <2>8. ASSUME NEW j \in Jobs, PartyEnds(j)
        PROVE  ProgressInv'
    <3>1. /\ UNCHANGED <<executor, failing, listener, call, results, stopped, callback, reports>>
          /\ endCh' = [endCh EXCEPT ![j] = "full"]
      BY <2>8 DEF PartyEnds
    <3>2. Called => Called'
      BY <2>0, <3>1 DEF Called
    <3>3. stopped = "no" => Listening' /\ Stored' /\ (\A k \in Jobs : Busy(k)') /\ Casting'
      BY <2>1, <3>1 DEF Listening, Stored, Busy, Casting, Selecting, InCall
    <3> QED BY <2>1, <2>2, <3>1, <3>2, <3>3
  <2>9. ASSUME NEW j \in Jobs, TakeResult(j)
        PROVE  ProgressInv'
    <3>1. /\ UNCHANGED <<executor, failing, listener, results, stopped, callback, reports>>
          /\ endCh' = [endCh EXCEPT ![j] = "taken"]
          /\ call' = [call EXCEPT ![<<j, "ok">>] = "check"]
          /\ call[<<j, "ok">>] \in {"no", "over"}
      BY <2>9 DEF TakeResult, Selecting
    <3>2. call'[<<j, "ok">>] = "check" /\ \A c \in Calls : c # <<j, "ok">> => call'[c] = call[c]
      BY <2>0, <2>3, <3>1
    <3>3. Called => Called'
      BY <2>0, <2>3, <3>1, <3>2 DEF Called
    <3>4. Stored => Stored'
      BY <3>1, <3>2 DEF Stored
    <3>5. ASSUME NEW k \in Jobs, Busy(k) PROVE Busy(k)'
      <4>1. CASE k = j
        BY <3>2, <4>1 DEF Busy, InCall
      <4>2. CASE k # j
        <5>1. call'[<<k, "ok">>] = call[<<k, "ok">>] /\ call'[<<k, "fail">>] = call[<<k, "fail">>]
          BY <2>3, <3>2, <4>2
        <5> QED BY <3>1, <3>5, <5>1 DEF Busy, Selecting, InCall
      <4> QED BY <4>1, <4>2
    <3>6. Casting => Casting'
      BY <3>1, <3>2 DEF Casting
    <3>7. Listening => Listening'
      BY <3>1 DEF Listening
    <3> QED BY <2>1, <2>2, <3>1, <3>3, <3>4, <3>5, <3>6, <3>7
  <2>10. ASSUME NEW j \in Jobs, JobTimeout(j)
         PROVE  ProgressInv'
    <3>1. /\ UNCHANGED <<executor, failing, endCh, results, stopped, callback, reports>>
          /\ listener' = [listener EXCEPT ![j] = "timeout"]
          /\ call' = [call EXCEPT ![<<j, "fail">>] = "check"]
      BY <2>10 DEF JobTimeout
    <3>2. call'[<<j, "fail">>] = "check" /\ \A c \in Calls : c # <<j, "fail">> => call'[c] = call[c]
      BY <2>0, <2>3, <3>1
    <3>3. Called => Called'
      BY <2>3, <3>1, <3>2 DEF Called
    <3>4. Stored => Stored'
      BY <3>1, <3>2 DEF Stored
    <3>5. ASSUME NEW k \in Jobs, Busy(k) PROVE Busy(k)'
      <4>1. CASE k = j
        BY <3>2, <4>1 DEF Busy, InCall
      <4>2. CASE k # j
        <5>1. /\ call'[<<k, "ok">>] = call[<<k, "ok">>] /\ call'[<<k, "fail">>] = call[<<k, "fail">>]
              /\ listener'[k] = listener[k]
          BY <2>0, <2>3, <3>1, <3>2, <4>2
        <5> QED BY <3>1, <3>5, <5>1 DEF Busy, Selecting, InCall
      <4> QED BY <4>1, <4>2
    <3>6. Casting => Casting'
      <4> SUFFICES ASSUME Casting, \A k \in Jobs : results[k] # "nil"
                   PROVE  \E c \in Calls : call'[c] \in {"castok", "castfail"}
        BY <3>1 DEF Casting
      <4>1. PICK c \in Calls : call[c] \in {"castok", "castfail"}
        BY DEF Casting
      <4>2. call[<<j, "fail">>] = "no"
        BY <2>10 DEF JobTimeout, Selecting, StartInv
      <4> QED BY <3>2, <4>1, <4>2
    <3>7. Listening => Listening'
      BY <2>0, <3>1 DEF Listening
    <3> QED BY <2>1, <2>2, <3>1, <3>3, <3>4, <3>5, <3>6, <3>7
  <2>11. ASSUME NEW c \in Calls, CheckStopped(c)
         PROVE  ProgressInv'
    <3>1. /\ UNCHANGED <<executor, failing, endCh, results, stopped, callback, reports>>
          /\ call[c] = "check"
      BY <2>11 DEF CheckStopped
    <3>2. CASE stopped = "yes"
      BY <2>2, <3>1, <3>2
    <3>3. CASE stopped = "no"
      <4>1. call' = [call EXCEPT ![c] = "store"] /\ listener' = listener
        BY <2>11, <3>3 DEF CheckStopped, Proceed
      <4>2. call'[c] = "store" /\ \A d \in Calls : d # c => call'[d] = call[d]
        BY <2>0, <4>1
      <4>3. \A j \in Jobs : Busy(j) => Busy(j)'
        BY <2>3, <3>1, <4>1, <4>2 DEF Busy, Selecting, InCall
      <4>4. Listening => Listening'
        BY <3>1, <4>1 DEF Listening
      <4>5. Called => Called'
        BY <2>3, <3>1, <4>2 DEF Called
      <4>6. Stored => Stored'
        BY <3>1, <4>2 DEF Stored
      <4>7. Casting => Casting'
        BY <3>1, <4>2 DEF Casting
      <4> QED BY <2>1, <2>2, <3>1, <4>3, <4>4, <4>5, <4>6, <4>7
    <3> QED BY <2>0, <3>2, <3>3
  <2>12. ASSUME NEW c \in Calls, StoreResult(c)
         PROVE  ProgressInv'
    <3>1. /\ UNCHANGED <<executor, failing, endCh, stopped, callback, reports>>
          /\ call[c] = "store"
          /\ results' = [results EXCEPT ![c[1]] = c[2]]
      BY <2>12 DEF StoreResult
    <3>2. PICK s \in {"over", "castok", "castfail"} :
            Proceed(c, s) /\ (s = "over" => \E j \in Jobs : results'[j] = "nil")
      BY <2>12 DEF StoreResult
    <3>3. PICK i \in Jobs, r \in {"ok", "fail"} : c = <<i, r>>
      BY DEF Calls
    <3>4. call' = [call EXCEPT ![c] = s]
      BY <3>2 DEF Proceed
    <3>5. call'[c] = s /\ \A d \in Calls : d # c => call'[d] = call[d]
      BY <2>0, <3>4
    <3>6. results'[i] # "nil" /\ \A j \in Jobs : j # i => results'[j] = results[j]
      BY <2>0, <3>1, <3>3
    <3>7. \A j \in Jobs : \/ listener'[j] = listener[j]
                          \/ j = i /\ listener'[j] = "returned"
      BY <2>0, <3>2, <3>3 DEF Proceed
    <3>8. \A j \in Jobs : Busy(j) => Busy(j)'
      <4> SUFFICES ASSUME NEW j \in Jobs, Busy(j) PROVE Busy(j)'
        OBVIOUS
      <4>1. CASE j = i
        BY <3>6, <4>1 DEF Busy
      <4>2. CASE j # i
        <5>1. /\ call'[<<j, "ok">>] = call[<<j, "ok">>] /\ call'[<<j, "fail">>] = call[<<j, "fail">>]
              /\ listener'[j] = listener[j] /\ results'[j] = results[j]
          BY <2>3, <3>3, <3>5, <3>6, <3>7, <4>2
        <5> QED BY <5>1 DEF Busy, Selecting, InCall
      <4> QED BY <4>1, <4>2
    <3>9. Listening => Listening'
      BY <3>1, <3>7 DEF Listening
    <3>10. Called => Called'
      BY <2>3, <3>1, <3>5 DEF Called
    <3>11. Stored => Stored'
      <4> SUFFICES ASSUME Stored, NEW d \in Calls, call'[d] = "over"
                   PROVE  results'[d[1]] # "nil"
        BY DEF Stored
      <4>1. d[1] \in Jobs
        BY DEF Calls
      <4>2. CASE d[1] = i
        BY <3>6, <4>2
      <4>3. CASE d[1] # i
        <5>1. d # c
          BY <3>3, <4>3
        <5>2. results[d[1]] # "nil"
          BY <3>5, <5>1 DEF Stored
        <5> QED BY <3>6, <4>1, <4>3, <5>2
      <4> QED BY <4>2, <4>3
    <3>12. Casting'
      BY <3>2, <3>5 DEF Casting
    <3> QED BY <2>1, <2>2, <3>1, <3>8, <3>9, <3>10, <3>11, <3>12
  <2>13. ASSUME NEW c \in Calls, CastResult(c)
         PROVE  ProgressInv'
    BY <2>13, BroadcastStops DEF CastResult
  <2>14. ASSUME NEW j \in Jobs, NEW m \in Msgs, ProcessMessage(j, m)
         PROVE  ProgressInv'
    <3>1. /\ UNCHANGED <<executor, listener, endCh, call, results, stopped, callback, reports>>
          /\ failing' = failing \/ failing' = "yes"
      BY <2>14 DEF ProcessMessage, job
    <3>2. Listening => Listening'
      BY <3>1 DEF Listening
    <3>3. stopped = "no" => Called' /\ Stored' /\ (\A k \in Jobs : Busy(k)') /\ Casting'
      BY <2>1, <3>1 DEF Called, Stored, Busy, Casting, Selecting, InCall
    <3> QED BY <2>1, <2>2, <3>1, <3>2, <3>3
  <2>15. CASE UNCHANGED <<executor, failing, listener, endCh, call, results, stopped, callback, reports>>
    <3>1. stopped = "no" => Listening' /\ Called' /\ Stored' /\ (\A j \in Jobs : Busy(j)') /\ Casting'
      BY <2>1, <2>15 DEF Listening, Called, Stored, Busy, Casting, Selecting, InCall
    <3> QED BY <2>2, <2>15, <3>1
  <2> QED
    <3>1. CASE \E m \in Msgs : ProcessNewMessage(m)
      BY <2>15, <3>1 DEF ProcessNewMessage, job
    <3>2. CASE \E m \in Msgs : ProcessUpdateMessage(m)
      BY <2>15, <3>2 DEF ProcessUpdateMessage, job
    <3>3. CASE \E j \in Jobs : PartySends(j)
      BY <2>15, <3>3 DEF PartySends, job
    <3>4. CASE UNCHANGED vars
      BY <2>15, <3>4 DEF vars, job
    <3> QED BY <2>4, <2>5, <2>6, <2>7, <2>8, <2>9, <2>10, <2>11, <2>12, <2>13, <2>14, <3>1, <3>2, <3>3, <3>4
            DEF Next, Calls
<1> QED BY <1>1, <1>2, ExecutionTypeCorrect, StartInvariant, PTL DEF Spec

\* OnJobResult and the timers of the jobs: until the engine is told an outcome
\* there is one on its way, or a goroutine that will bring it about, or a job is
\* held in a send.
THEOREM OutcomeNeverLost == Spec => []OutcomeUnderWay
<1>1. TypeOK /\ ProgressInv => OutcomeUnderWay
  <2> SUFFICES ASSUME TypeOK, ProgressInv, executor = "set", reports = << >>, callback = << >>, failing # "yes",
                      \A c \in Calls : ~InCall(c)
               PROVE  (\E j \in Jobs : Selecting(j)) \/ HeldUp
    BY DEF OutcomeUnderWay
  <2>1. stopped = "no" /\ failing = "no"
    BY DEF TypeOK, ProgressInv
  <2>2. ~ (\A j \in Jobs : results[j] # "nil")
    BY <2>1 DEF ProgressInv, InCall
  <2>3. PICK j \in Jobs : results[j] = "nil"
    BY <2>2
  <2>4. listener[j] # "off"
    BY <2>1 DEF ProgressInv
  <2>5. \A r \in {"ok", "fail"} : ~InCall(<<j, r>>)
    BY DEF Calls
  <2>6. listener[j] = "blocked" \/ Selecting(j)
    BY <2>1, <2>3, <2>4, <2>5 DEF ProgressInv
  <2> QED BY <2>3, <2>6 DEF HeldUp
<1> QED BY <1>1, ExecutionTypeCorrect, ProgressInvariant, PTL
=============================================================================
