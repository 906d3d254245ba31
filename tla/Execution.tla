------------------------------ MODULE Execution ------------------------------
(***************************************************************************)
(* The execution of a work on one node, from the end of the selection on:  *)
(* the worker (worker/default_worker.go) makes an executor with a job per  *)
(* message of the batch (worker/worker_executor.go); a job (worker/job.go) *)
(* listens to the channels of one party of tss-lib until the party is done *)
(* or the time is over; the executor reports one result to the worker and  *)
(* the worker one outcome to the engine.                                   *)
(*                                                                         *)
(* tss-lib is external: a party puts its messages into outCh round by      *)
(* round, each round once it has the messages of the earlier rounds of     *)
(* every peer, and its result into endCh when it has all.  A type of       *)
(* message counts as one message, to whomever it goes.                     *)
(***************************************************************************)
EXTENDS Integers, Sequences, FiniteSets

CONSTANTS
  WorkType,   \* request.WorkType
  BatchSize,  \* request.BatchSize
  HasPresign, \* whether the selection found presigns
  Peers       \* the other parties of the execution

ASSUME WorkTypeAssumption == WorkType \in {"EcKeygen", "EdKeygen", "EcSigning", "EdSigning"}
ASSUME BatchAssumption    == BatchSize \in Nat \ {0}
ASSUME PresignAssumption  == HasPresign \in BOOLEAN
ASSUME PeersAssumption    == IsFiniteSet(Peers)

IsKeygen == WorkType \in {"EcKeygen", "EdKeygen"}

\* The types of messages a party sends, in their order, by the round they are of.
GetMessagesByWorkType ==
  CASE WorkType = "EcKeygen"  -> <<1, 2, 2, 3>>
    [] WorkType = "EdKeygen"  -> <<1, 2, 2>>
    [] WorkType = "EdSigning" -> <<1, 2, 3>>
    [] WorkType = "EcSigning" -> IF HasPresign THEN <<1>> ELSE <<1, 1, 2, 3, 4, 5, 6, 7>>

Types == DOMAIN GetMessagesByWorkType
Round(i) == GetMessagesByWorkType[i]

\* One message less than there are.
GetMessageCountShort == Len(GetMessagesByWorkType) - 1

GetMessageCountByWorkType ==
  CASE WorkType = "EcKeygen"  -> 4
    [] WorkType = "EdKeygen"  -> 3
    [] WorkType = "EdSigning" -> 3
    [] WorkType = "EcSigning" -> IF HasPresign THEN 1 ELSE 7

Jobs == 1..BatchSize
Msgs == Peers \X Types

VARIABLES
  executor,  \* whether the worker has an executor
  net,       \* the messages of peers that have not reached the worker
  cache,     \* the update messages in preExecutionCache
  arriving,  \* messages on goroutines that are about to hand them to the executor
  inbox,     \* messages on goroutines that are about to update the party of a job
  received,  \* the messages the party of each job has
  made,      \* how many messages it has put into outCh
  taken,     \* how many of these the job has taken
  endCh,     \* whether the result of the party is in endCh, or was taken
  listener,  \* where the listening goroutine of each job is
  call,      \* where the goroutine is that calls OnJobResult with success or failure
  results,   \* jobResults
  failing,   \* whether goroutines are about to broadcast a failure
  stopped,   \* isStopped
  callback,  \* the results on their way to the worker
  sent,      \* the types of messages given to the dispatcher
  reports    \* what the worker told the engine

party == <<inbox, received, made>>
job   == <<taken, endCh, listener>>
vars  == <<executor, net, cache, arriving, party, job, call, results, failing, stopped,
           callback, sent, reports>>

Stages == {"no", "check", "store", "castok", "castfail", "over"}

TypeOK ==
  /\ executor \in {"nil", "set"}
  /\ net \subseteq Msgs
  /\ cache \subseteq Msgs
  /\ arriving \subseteq Msgs
  /\ inbox \in [Jobs -> SUBSET Msgs]
  /\ received \in [Jobs -> SUBSET Msgs]
  /\ made \in [Jobs -> 0..Len(GetMessagesByWorkType)]
  /\ taken \in [Jobs -> 0..Len(GetMessagesByWorkType)]
  /\ \A j \in Jobs : taken[j] <= made[j]
  /\ endCh \in [Jobs -> {"empty", "full", "taken"}]
  /\ listener \in [Jobs -> {"off", "on", "blocked", "returned", "timeout"}]
  /\ call \in [Jobs \X {"ok", "fail"} -> Stages]
  /\ results \in [Jobs -> {"nil", "ok", "fail"}]
  /\ failing \in {"no", "yes"}
  /\ stopped \in {"no", "yes"}
  /\ callback \in Seq({"ok", "fail"})
  /\ sent \subseteq Types
  /\ reports \in Seq({"result", "failed"})

\* The jobs before they start.
NewJobs ==
  /\ taken = [j \in Jobs |-> 0]
  /\ endCh = [j \in Jobs |-> "empty"]
  /\ listener = [j \in Jobs |-> "off"]

Init ==
  /\ executor = "nil"
  /\ net = Msgs
  /\ cache = {}
  /\ arriving = {}
  /\ inbox = [j \in Jobs |-> {}]
  /\ received = [j \in Jobs |-> {}]
  /\ made = [j \in Jobs |-> 0]
  /\ NewJobs
  /\ call = [c \in Jobs \X {"ok", "fail"} |-> "no"]
  /\ results = [j \in Jobs |-> "nil"]
  /\ failing = "no"
  /\ stopped = "no"
  /\ callback = << >>
  /\ sent = {}
  /\ reports = << >>

-----------------------------------------------------------------------------
(* Worker *)

\* The executor is made without the messages that wait for it.
StartExecutionEmpty ==
  /\ executor = "nil"
  /\ executor' = "set"
  /\ listener' = [j \in Jobs |-> "on"]
  /\ UNCHANGED <<net, cache, arriving, party, taken, endCh, call, results, failing,
                 stopped, callback, sent, reports>>

\* Init of the executor: the jobs are started up to one that fails.
StartJobs ==
  \E n \in 0..BatchSize :
    /\ listener' = [j \in Jobs |-> IF j <= n THEN "on" ELSE "off"]
    /\ failing' = IF n < BatchSize THEN "yes" ELSE failing

\* startEcExecution and startEdExecution with runExecutor, one critical section
\* of the worker's lock: the cached messages are handed to Run.
StartExecution ==
  /\ executor = "nil"
  /\ executor' = "set"
  /\ StartJobs
  /\ arriving' = arriving \cup cache
  /\ cache' = {}
  /\ UNCHANGED <<net, party, taken, endCh, call, results, stopped, callback, sent, reports>>

\* A message comes from a peer that has our messages of all earlier rounds.  It
\* is cached if there is no executor yet.
ProcessNewMessage(m) ==
  /\ m \in net
  /\ \A i \in Types : Round(i) < Round(m[2]) => i \in sent
  /\ net' = net \ {m}
  /\ \/ executor = "nil" /\ cache' = cache \cup {m} /\ UNCHANGED arriving
     \/ executor = "set" /\ arriving' = arriving \cup {m} /\ UNCHANGED cache
  /\ UNCHANGED <<executor, party, job, call, results, failing, stopped, callback, sent, reports>>

\* onJobExecutionResult: a keygen that cannot be saved has failed.
OnJobExecutionResult ==
  /\ callback # << >>
  /\ callback' = Tail(callback)
  /\ \/ /\ Head(callback) = "ok"
        /\ reports' = Append(reports, "result")
     \/ /\ Head(callback) = "fail" \/ IsKeygen
        /\ reports' = Append(reports, "failed")
  /\ UNCHANGED <<executor, net, cache, arriving, party, job, call, results, failing, stopped, sent>>

-----------------------------------------------------------------------------
(* Executor *)

\* Whoever comes first is not asked.
BroadcastResultAgain(r) ==
  /\ stopped' = "yes"
  /\ callback' = Append(callback, r)

\* The first result stops the executor and goes to the worker.
BroadcastResult(r) ==
  IF stopped = "no"
  THEN stopped' = "yes" /\ callback' = Append(callback, r)
  ELSE UNCHANGED <<stopped, callback>>

\* A message is dropped once the executor has stopped, and else goes to the
\* party of every job on a goroutine of its own.
ProcessUpdateMessage(m) ==
  /\ m \in arriving
  /\ arriving' = arriving \ {m}
  /\ inbox' = IF stopped = "yes" THEN inbox ELSE [j \in Jobs |-> inbox[j] \cup {m}]
  /\ UNCHANGED <<executor, net, cache, received, made, job, call, results, failing, stopped,
                 callback, sent, reports>>

\* The party takes the message, or refuses it and the execution fails.
ProcessMessage(j, m) ==
  /\ m \in inbox[j]
  /\ inbox' = [inbox EXCEPT ![j] = @ \ {m}]
  /\ \/ received' = [received EXCEPT ![j] = @ \cup {m}] /\ UNCHANGED failing
     \/ failing' = "yes" /\ UNCHANGED received
  /\ UNCHANGED <<executor, net, cache, arriving, made, job, call, results, stopped, callback,
                 sent, reports>>

\* A failure of a job that did not start or of messages that were refused; of
\* several only the first matters.
BroadcastFailure ==
  /\ failing = "yes"
  /\ failing' = "no"
  /\ BroadcastResult("fail")
  /\ UNCHANGED <<executor, net, cache, arriving, party, job, call, results, sent, reports>>

-----------------------------------------------------------------------------
(* Party of tss-lib *)

Has(j, r) == \A m \in Msgs : Round(m[2]) < r => m \in received[j]

PartySends(j) ==
  /\ listener[j] # "off"
  /\ made[j] < Len(GetMessagesByWorkType)
  /\ made[j] - taken[j] < Cardinality(Peers) + 1
  /\ Has(j, Round(made[j] + 1))
  /\ made' = [made EXCEPT ![j] = @ + 1]
  /\ UNCHANGED <<executor, net, cache, arriving, inbox, received, job, call, results, failing,
                 stopped, callback, sent, reports>>

PartyEnds(j) ==
  /\ endCh[j] = "empty"
  /\ made[j] = Len(GetMessagesByWorkType)
  /\ received[j] = Msgs
  /\ endCh' = [endCh EXCEPT ![j] = "full"]
  /\ UNCHANGED <<executor, net, cache, arriving, party, taken, listener, call, results, failing,
                 stopped, callback, sent, reports>>

-----------------------------------------------------------------------------
(* Job *)

\* The listening goroutine is in its select; it calls OnJobResult itself with
\* the result of the party.
Selecting(j) == listener[j] = "on" /\ call[<<j, "ok">>] \in {"no", "over"}

DoneOutCh(t) == t >= GetMessageCountByWorkType

\* A message is sent as soon as one job has it.
OnJobMessageEarly(t, i) == IF \E j \in Jobs : t[j] >= i THEN sent \cup {i} ELSE sent

\* The message of type i is sent when all jobs have theirs.
OnJobMessage(t, i) == IF \A j \in Jobs : t[j] >= i THEN sent \cup {i} ELSE sent

\* A message of the party is passed on, even after the executor has stopped.
\* The job is done if it has seen enough types and the result.  The goroutine
\* that completes a type sends it itself, and does not come back if the engine
\* is held at nodeLock or at a stream that nobody reads.
AddOutMessage(j) ==
  /\ Selecting(j)
  /\ taken[j] < made[j]
  /\ taken' = [taken EXCEPT ![j] = @ + 1]
  /\ sent' = OnJobMessage(taken', taken[j] + 1)
  /\ \/ listener' = IF endCh[j] = "taken" /\ DoneOutCh(taken[j] + 1)
                    THEN [listener EXCEPT ![j] = "returned"] ELSE listener
     \/ sent' # sent /\ listener' = [listener EXCEPT ![j] = "blocked"]
  /\ UNCHANGED <<executor, net, cache, arriving, party, endCh, call, results, failing, stopped,
                 callback, reports>>

\* The result is taken from endCh and OnJobResult called.
TakeResult(j) ==
  /\ Selecting(j)
  /\ endCh[j] = "full"
  /\ endCh' = [endCh EXCEPT ![j] = "taken"]
  /\ call' = [call EXCEPT ![<<j, "ok">>] = "check"]
  /\ UNCHANGED <<executor, net, cache, arriving, party, taken, listener, results, failing,
                 stopped, callback, sent, reports>>

\* The job ends without a result.
JobTimeoutSilent(j) ==
  /\ Selecting(j)
  /\ listener' = [listener EXCEPT ![j] = "timeout"]
  /\ UNCHANGED <<executor, net, cache, arriving, party, taken, endCh, call, results, failing,
                 stopped, callback, sent, reports>>

\* The time is over: another goroutine calls OnJobResult with a failure.
JobTimeout(j) ==
  /\ Selecting(j)
  /\ listener' = [listener EXCEPT ![j] = "timeout"]
  /\ call' = [call EXCEPT ![<<j, "fail">>] = "check"]
  /\ UNCHANGED <<executor, net, cache, arriving, party, taken, endCh, results, failing,
                 stopped, callback, sent, reports>>

-----------------------------------------------------------------------------
(* OnJobResult.  It looks at isStopped, stores the result and counts under  *)
(* a lock, and broadcasts after it has given the lock up.                   *)

\* The goroutine of call c goes on to stage s; at the end of OnJobResult the
\* listening goroutine returns if it is done.
Proceed(c, s) ==
  /\ call' = [call EXCEPT ![c] = s]
  /\ listener' = IF s = "over" /\ c[2] = "ok" /\ DoneOutCh(taken[c[1]])
                 THEN [listener EXCEPT ![c[1]] = "returned"] ELSE listener

CheckStopped(c) ==
  /\ call[c] = "check"
  /\ Proceed(c, IF stopped = "yes" THEN "over" ELSE "store")
  /\ UNCHANGED <<executor, net, cache, arriving, party, taken, endCh, results, failing, stopped,
                 callback, sent, reports>>

\* The last result decides.
StoreResultLast(c) ==
  /\ call[c] = "store"
  /\ results' = [results EXCEPT ![c[1]] = c[2]]
  /\ Proceed(c, IF \E j \in Jobs : results'[j] = "nil" THEN "over"
                ELSE IF c[2] = "fail" THEN "castfail" ELSE "castok")
  /\ UNCHANGED <<executor, net, cache, arriving, party, taken, endCh, failing, stopped, callback,
                 sent, reports>>

\* The results are counted before the new one is stored.
StoreResultStale(c) ==
  /\ call[c] = "store"
  /\ results' = [results EXCEPT ![c[1]] = c[2]]
  /\ Proceed(c, IF \E j \in Jobs : results[j] = "nil" THEN "over"
                ELSE IF \E j \in Jobs : results'[j] = "fail" THEN "castfail" ELSE "castok")
  /\ UNCHANGED <<executor, net, cache, arriving, party, taken, endCh, failing, stopped, callback,
                 sent, reports>>

\* A failure of any job is one of the execution.
StoreResult(c) ==
  /\ call[c] = "store"
  /\ results' = [results EXCEPT ![c[1]] = c[2]]
  /\ Proceed(c, IF \E j \in Jobs : results'[j] = "nil" THEN "over"
                ELSE IF \E j \in Jobs : results'[j] = "fail" THEN "castfail" ELSE "castok")
  /\ UNCHANGED <<executor, net, cache, arriving, party, taken, endCh, failing, stopped, callback,
                 sent, reports>>

CastResult(c) ==
  /\ call[c] \in {"castok", "castfail"}
  /\ BroadcastResult(IF call[c] = "castok" THEN "ok" ELSE "fail")
  /\ Proceed(c, "over")
  /\ UNCHANGED <<executor, net, cache, arriving, party, taken, endCh, results, failing, sent, reports>>

-----------------------------------------------------------------------------

OnJobResult(c) == CheckStopped(c) \/ StoreResult(c) \/ CastResult(c)

Next ==
  \/ StartExecution
  \/ \E m \in Msgs : ProcessNewMessage(m) \/ ProcessUpdateMessage(m)
  \/ OnJobExecutionResult
  \/ BroadcastFailure
  \/ \E j \in Jobs : \/ \E m \in Msgs : ProcessMessage(j, m)
                     \/ PartySends(j)
                     \/ PartyEnds(j)
                     \/ AddOutMessage(j)
                     \/ TakeResult(j)
                     \/ JobTimeout(j)
  \/ \E c \in Jobs \X {"ok", "fail"} : CheckStopped(c) \/ StoreResult(c) \/ CastResult(c)

Spec == Init /\ [][Next]_vars

\* Timers of goroutines that wait for them fire, and the goroutines of the
\* execution keep running, but for one that is held in a send.  Nothing is
\* assumed of the parties and of messages.
Fairness ==
  /\ WF_vars(BroadcastFailure)
  /\ WF_vars(OnJobExecutionResult)
  /\ \A j \in Jobs : WF_vars(JobTimeout(j))
  /\ \A c \in Jobs \X {"ok", "fail"} : WF_vars(OnJobResult(c))

FairSpec == Spec /\ Fairness

-----------------------------------------------------------------------------
(* Properties *)

\* The engine is told one outcome at most, although jobs, timers, refused
\* messages and a failed start all end in broadcastResult.
ReportsOnce == Len(callback) + Len(reports) <= 1

\* A success is reported only if the party of every job came to its result, also
\* when another job times out at the same moment.
SuccessIsWhole ==
  "ok" \in {callback[i] : i \in DOMAIN callback} \/ "result" \in {reports[i] : i \in DOMAIN reports}
  => \A j \in Jobs : endCh[j] = "taken"

\* No message of a peer is lost between the cache of the worker and the parties
\* of its jobs: until the executor stops, what reached the worker is cached while
\* there is no executor, and on its way to, or with, every party after that.
NoMessageForgotten ==
  stopped = "no" =>
    \A m \in Msgs \ net :
      \/ executor = "nil" /\ m \in cache
      \/ m \in arriving
      \/ failing = "yes"
      \/ \A j \in Jobs : m \in inbox[j] \cup received[j]

\* NewTssMessage reads the message of every job, so a type of message is sent
\* only when no job lacks its own.
SentIsWhole == \A i \in sent : \A j \in Jobs : taken[j] >= i

\* The comment of OnJobMessage: other nodes depend on our messages, so we keep
\* sending them.  A job that returns because it is done leaves no message of its
\* party behind, and if all jobs return so, all messages were sent.
AllMessagesSent ==
  /\ \A j \in Jobs : listener[j] = "returned" => taken[j] = made[j]
  /\ (\A j \in Jobs : listener[j] = "returned") => sent = Types

\* The jobs that return because they are done leave at most the last message of
\* their parties unsent, whatever the work.
OnlyLastUnsent ==
  (\A j \in Jobs : listener[j] = "returned")
  => \A i \in Types \ sent : i = Len(GetMessagesByWorkType)

Calls     == Jobs \X {"ok", "fail"}
InCall(c) == call[c] \in {"check", "store", "castok", "castfail"}

\* A job that is held in a send has neither a result nor a timer any more.
HeldUp == \E j \in Jobs : listener[j] = "blocked" /\ results[j] = "nil"

\* An execution does not end in silence: until the engine is told an outcome,
\* one is on its way to the worker, or a goroutine is left that will bring it
\* about without any message of a peer, unless a job without a result is held in
\* a send.  The job that stores the last result cannot be missed, though every
\* job gives the lock up before it broadcasts.
OutcomeUnderWay ==
  executor = "set" /\ reports = << >> =>
    \/ callback # << >>
    \/ failing = "yes"
    \/ \E j \in Jobs : Selecting(j)
    \/ \E c \in Calls : InCall(c)
    \/ HeldUp

\* Inductive: a message that all jobs have is sent, and a job returns when it has
\* passed on as many messages as it counts.
SentInv ==
  /\ \A i \in Types : (\A j \in Jobs : taken[j] >= i) => i \in sent
  /\ \A j \in Jobs : listener[j] = "returned" => DoneOutCh(taken[j])

\* Inductive: before the executor is made no job listens and none has a result;
\* a timer that has not fired has reported nothing.
StartInv ==
  /\ executor = "nil" =>
       (\A j \in Jobs : listener[j] = "off") /\ \A c \in Calls : call[c] = "no"
  /\ \A j \in Jobs : listener[j] \in {"off", "on"} => call[<<j, "fail">>] = "no"

\* Inductive: a stopped executor has broadcast; in a running one every job is
\* listening, held in a send, in a call or stored, a finished call has stored its result, and
\* when all are stored somebody is about to broadcast.
ProgressInv ==
  /\ stopped = "yes" => callback # << >> \/ reports # << >>
  /\ stopped = "no" =>
       /\ executor = "set" /\ failing = "no" => \A j \in Jobs : listener[j] # "off"
       /\ \A j \in Jobs : endCh[j] = "taken" => call[<<j, "ok">>] # "no"
       /\ \A c \in Calls : call[c] = "over" => results[c[1]] # "nil"
       /\ \A j \in Jobs : \/ listener[j] \in {"off", "blocked"} \/ Selecting(j) \/ results[j] # "nil"
                           \/ \E r \in {"ok", "fail"} : InCall(<<j, r>>)
       /\ (\A j \in Jobs : results[j] # "nil") => \E c \in Calls : call[c] \in {"castok", "castfail"}

\* Inductive: an executor that runs has reported nothing.
ReportInv ==
  /\ ReportsOnce
  /\ stopped = "no" => callback = << >> /\ reports = << >>

\* Inductive: a call with success, and a job with it, come from a taken result.
ResultInv ==
  /\ SuccessIsWhole
  /\ \A j \in Jobs : call[<<j, "ok">>] # "no" \/ results[j] = "ok" => endCh[j] = "taken"
  /\ (\E c \in Jobs \X {"ok", "fail"} : call[c] = "castok") => \A j \in Jobs : endCh[j] = "taken"

\* Whatever parties and peers do, the engine is told an outcome of an execution,
\* unless a job is held in a send before it has a result: its listening goroutine
\* sends before it gets back to its timer.
ExecutionReports == executor = "set" ~> (reports # << >> \/ HeldUp)
=============================================================================
