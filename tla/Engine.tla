------------------------------- MODULE Engine -------------------------------
(***************************************************************************)
(* The scheduling core of the engine of one node (core/engine.go): requests*)
(* are queued, at most MaxWorker of them should run at a time, every end   *)
(* of a worker starts the next one, and a message of a work goes to its    *)
(* worker or, before the worker exists, to the prework cache.              *)
(*                                                                         *)
(* Threads are the goroutines that can be inside the engine together: RPC  *)
(* calls, one goroutine per network message, and the goroutines on which   *)
(* workers send and report.  A step is one critical section of workLock,   *)
(* or what happens between two of them.  nodeLock is modelled where one    *)
(* goroutine takes it twice: a waiting AddNodes keeps all readers waiting. *)
(***************************************************************************)
EXTENDS RequestQueue, PreworkCache, FiniteSets

CONSTANTS
  Threads,     \* goroutines
  MaxWorker,   \* the size of the worker pool
  MaxSubmits,  \* bound: how often a client submits the same work id
  Peers,       \* the other nodes
  Parties,     \* the peers that take part in each work
  From,        \* the peer each message comes from
  None         \* no work, no message

ASSUME FiniteAssumption    == IsFiniteSet(Threads) /\ IsFiniteSet(Works)
ASSUME MaxWorkerAssumption == MaxWorker \in Nat \ {0}
ASSUME BoundAssumption     == MaxSubmits \in Nat
ASSUME PartiesAssumption   == Parties \in [Works -> SUBSET Peers]
ASSUME MsgsAssumption      == WorkOf \in [Msgs -> Works] /\ From \in [Msgs -> Peers]
ASSUME NoneAssumption      == None \notin Works /\ None \notin Msgs

VARIABLES
  queue,      \* requestQueue.queue
  workers,    \* the workers map: the number of the worker object, 0 for nil
  starts,     \* how many worker objects were made for each work
  live,       \* the worker objects <<work, number>> that have not reported yet
  submitted,  \* how often each work was submitted
  nodes,      \* the peers AddNodes was called with
  pc,         \* where each thread is
  cur,        \* the work a thread is about to start or to finish
  held,       \* the message a thread carries to a worker
  to,         \* the number of the worker object it carries it to
  net,        \* the messages that have not reached this node
  cache,      \* the messages in preworkCache
  got,        \* which worker object was given which message
  reported,   \* the works the callback was told an outcome of
  process     \* up, dead of a concurrent access to a map, or stuck at workLock

pool == <<queue, workers, starts, live, submitted>>
mail == <<held, to, net, cache, got>>
vars == <<pool, mail, nodes, pc, cur, reported, process>>

Objects == Works \X Nat
Places  == {"idle", "next", "start", "finish", "log", "deliver", "send", "nodes"}

\* The types of the variables; a thread on its way to start or finish a work
\* has one, and a thread on its way to a worker has a message for it.
TypeOK ==
  /\ queue \in Seq(Works)
  /\ workers \in [Works -> Nat]
  /\ starts \in [Works -> Nat]
  /\ live \subseteq Objects
  /\ submitted \in [Works -> Nat]
  /\ nodes \subseteq Peers
  /\ pc \in [Threads -> Places]
  /\ cur \in [Threads -> Works \cup {None}]
  /\ held \in [Threads -> Msgs \cup {None}]
  /\ to \in [Threads -> Nat]
  /\ net \subseteq Msgs
  /\ cache \subseteq Msgs
  /\ got \subseteq Objects \X Msgs
  /\ reported \subseteq Works
  /\ process \in {"up", "dead", "stuck"}
  /\ \A t \in Threads : /\ pc[t] \in {"start", "finish"} => cur[t] \in Works
                        /\ pc[t] = "deliver" => held[t] \in Msgs

Running == {w \in Works : workers[w] # 0}
At(p)   == {t \in Threads : pc[t] = p}

Init ==
  /\ queue = << >>
  /\ workers = [w \in Works |-> 0]
  /\ starts = [w \in Works |-> 0]
  /\ live = {}
  /\ submitted = [w \in Works |-> 0]
  /\ nodes = {}
  /\ pc = [t \in Threads |-> "idle"]
  /\ cur = [t \in Threads |-> None]
  /\ held = [t \in Threads |-> None]
  /\ to = [t \in Threads |-> 0]
  /\ net = Msgs
  /\ cache = {}
  /\ got = {}
  /\ reported = {}
  /\ process = "up"

Goto(t, from, dest) ==
  /\ process = "up"
  /\ pc[t] = from
  /\ pc' = [pc EXCEPT ![t] = dest]

-----------------------------------------------------------------------------
(* nodeLock.  At "nodes" a goroutine waits to write, at "send" one holds the *)
(* lock for reading.                                                         *)

\* A reader gets the lock: nobody waits to write.
Readable == At("nodes") = {}

\* A sender holds the lock and a writer waits for it.
NodesLocked == At("send") # {} /\ At("nodes") # {}

LockNodes(t) ==
  /\ Goto(t, "idle", "nodes")
  /\ UNCHANGED <<pool, mail, nodes, cur, reported, process>>

AddNodes(t, S) ==
  /\ At("send") = {}
  /\ Goto(t, "nodes", "idle")
  /\ nodes' = nodes \cup S
  /\ UNCHANGED <<pool, mail, cur, reported, process>>

\* A worker sends a message, or OnAskMessage answers with one of a started work:
\* sendSignMessaged holds the lock while it looks up the nodes,
SendSignMessaged(t) ==
  /\ Readable
  /\ \E w \in Works : starts[w] > 0
  /\ Goto(t, "idle", "send")
  /\ UNCHANGED <<pool, mail, nodes, cur, reported, process>>

\* and getNodeFromPeerId takes it again.  The writes follow without the lock.
GetNodeFromPeerId(t) ==
  /\ Readable
  /\ Goto(t, "send", "idle")
  /\ UNCHANGED <<pool, mail, nodes, cur, reported, process>>

-----------------------------------------------------------------------------
(* Requests *)

\* A request with an unknown party is accepted.
AddRequestUnchecked(t, w) ==
  /\ Readable
  /\ submitted[w] < MaxSubmits
  /\ submitted' = [submitted EXCEPT ![w] = @ + 1]
  /\ \/ w \in Queued(queue) /\ Goto(t, "idle", "idle") /\ UNCHANGED queue
     \/ w \notin Queued(queue) /\ Goto(t, "idle", "next") /\ queue' = AddWork(queue, w)
  /\ UNCHANGED <<workers, starts, live, mail, nodes, cur, reported, process>>

\* A request with an unknown party is refused and changes nothing; a request
\* already in the queue is dropped; any other is queued and the caller goes on
\* to startNextWork.
AddRequest(t, w) ==
  /\ Readable
  /\ submitted[w] < MaxSubmits
  /\ Parties[w] \subseteq nodes
  /\ submitted' = [submitted EXCEPT ![w] = @ + 1]
  /\ \/ w \in Queued(queue) /\ Goto(t, "idle", "idle") /\ UNCHANGED queue
     \/ w \notin Queued(queue) /\ Goto(t, "idle", "next") /\ queue' = AddWork(queue, w)
  /\ UNCHANGED <<workers, starts, live, mail, nodes, cur, reported, process>>

\* Without the check of the pool.
StartNextWorkUnchecked(t) ==
  /\ IF queue = << >>
     THEN Goto(t, "next", "idle") /\ UNCHANGED <<queue, cur>>
     ELSE /\ Goto(t, "next", "start")
          /\ cur' = [cur EXCEPT ![t] = Head(queue)]
          /\ queue' = Tail(queue)
  /\ UNCHANGED <<workers, starts, live, submitted, mail, nodes, reported, process>>

\* The critical section of startNextWork: the pool is checked and a request
\* popped; the lock is given up before startWork takes it again.
StartNextWork(t) ==
  /\ IF Cardinality(Running) >= MaxWorker \/ queue = << >>
     THEN Goto(t, "next", "idle") /\ UNCHANGED <<queue, cur>>
     ELSE /\ Goto(t, "next", "start")
          /\ cur' = [cur EXCEPT ![t] = Head(queue)]
          /\ queue' = Tail(queue)
  /\ UNCHANGED <<workers, starts, live, submitted, mail, nodes, reported, process>>

\* The critical section of startWork: a new worker object replaces whatever
\* the map holds for the work, and is started with the cached messages.
StartWork(t) ==
  LET w == cur[t]
      o == <<w, starts[w] + 1>>
  IN  /\ Goto(t, "start", "idle")
      /\ starts' = [starts EXCEPT ![w] = @ + 1]
      /\ workers' = [workers EXCEPT ![w] = starts[w] + 1]
      /\ live' = live \cup {o}
      /\ got' = got \cup ({o} \X GetAllMessages(cache, w))
      /\ cache' = PopAllMessages(cache, w)
      /\ cur' = [cur EXCEPT ![t] = None]
      /\ UNCHANGED <<queue, submitted, held, to, net, nodes, reported, process>>

-----------------------------------------------------------------------------
(* Messages *)

\* Every message is cached, also one that is carried to a worker.
ProcessNewMessageCached(t, m) ==
  LET k == workers[WorkOf[m]]
  IN  /\ cache' \in AddMessage(cache, m)
      /\ \/ k = 0 /\ Goto(t, "idle", "idle") /\ UNCHANGED <<held, to>>
         \/ /\ k # 0
            /\ Goto(t, "idle", "deliver")
            /\ held' = [held EXCEPT ![t] = m]
            /\ to' = [to EXCEPT ![t] = k]

\* Looking the worker up and caching the message are one critical section; a
\* message for a worker is carried to it after the lock is given up.
ProcessNewMessage(t, m) ==
  LET k == workers[WorkOf[m]]
  IN  \/ /\ k = 0
         /\ Goto(t, "idle", "idle")
         /\ cache' \in AddMessage(cache, m)
         /\ UNCHANGED <<held, to>>
      \/ /\ k # 0
         /\ Goto(t, "idle", "deliver")
         /\ held' = [held EXCEPT ![t] = m]
         /\ to' = [to EXCEPT ![t] = k]
         /\ UNCHANGED cache

\* A message of an unknown peer is dropped.
OnNetworkMessage(t, m) ==
  /\ Readable
  /\ m \in net
  /\ net' = net \ {m}
  /\ \/ From[m] \in nodes /\ ProcessNewMessage(t, m)
     \/ From[m] \notin nodes /\ Goto(t, "idle", "idle") /\ UNCHANGED <<cache, held, to>>
  /\ UNCHANGED <<pool, got, nodes, cur, reported, process>>

\* The worker object that was looked up takes the message, even if it has
\* reported in the meantime.
DeliverMessage(t) ==
  /\ Goto(t, "deliver", "idle")
  /\ got' = got \cup {<< <<WorkOf[held[t]], to[t]>>, held[t]>>}
  /\ held' = [held EXCEPT ![t] = None]
  /\ to' = [to EXCEPT ![t] = 0]
  /\ UNCHANGED <<pool, net, cache, nodes, cur, reported, process>>

-----------------------------------------------------------------------------
(* Outcomes.  A worker object reports once, on a goroutine of its own. *)

\* The goroutine t of object o has told the callback, or not, and goes on to
\* finishWorker.
Report(t, o, told) ==
  /\ Goto(t, "idle", "finish")
  /\ cur' = [cur EXCEPT ![t] = o[1]]
  /\ live' = live \ {o}
  /\ reported' = IF told THEN reported \cup {o[1]} ELSE reported
  /\ UNCHANGED <<queue, workers, starts, submitted, mail, nodes, process>>

OnWorkerResult(t, o) == Report(t, o, TRUE)

\* The callback is not told.
OnNodeNotSelectedSilent(t, o) == Report(t, o, FALSE)

\* Only for an ECDSA signing is the callback told that this node is excluded.
OnNodeNotSelected(t, o) == Report(t, o, WorkType[o[1]] = "EcSigning")

\* A failure of a work that is no longer in the map is only logged.
OnWorkFailed(t, o) ==
  IF workers[o[1]] # 0
  THEN Report(t, o, TRUE)
  ELSE /\ Goto(t, "idle", "idle")
       /\ live' = live \ {o}
       /\ UNCHANGED <<queue, workers, starts, submitted, mail, nodes, cur, reported, process>>

\* The worker is removed and nothing is started in its place.
FinishWorkerOnly(t) ==
  /\ Goto(t, "finish", "idle")
  /\ workers' = [workers EXCEPT ![cur[t]] = 0]
  /\ cur' = [cur EXCEPT ![t] = None]
  /\ UNCHANGED <<queue, starts, live, submitted, mail, nodes, reported, process>>

\* All workers are removed.
FinishWorkerAll(t) ==
  /\ Goto(t, "finish", "log")
  /\ workers' = [w \in Works |-> 0]
  /\ cur' = [cur EXCEPT ![t] = None]
  /\ UNCHANGED <<queue, starts, live, submitted, mail, nodes, reported, process>>

\* The critical section of finishWorker.
FinishWorker(t) ==
  /\ Goto(t, "finish", "log")
  /\ workers' = [workers EXCEPT ![cur[t]] = 0]
  /\ cur' = [cur EXCEPT ![t] = None]
  /\ UNCHANGED <<queue, starts, live, submitted, mail, nodes, reported, process>>

\* finishWorker lists the remaining workers without the lock, then calls
\* startNextWork.
LogRemaining(t) ==
  /\ Goto(t, "log", "next")
  /\ UNCHANGED <<pool, mail, nodes, cur, reported, process>>

\* The runtime ends the process when it sees the map iterated by one goroutine
\* and written by another; it need not see it.
MapRace(t, u) ==
  /\ process = "up"
  /\ pc[t] = "log"
  /\ pc[u] \in {"start", "finish"}
  /\ process' = "dead"
  /\ UNCHANGED <<pool, mail, nodes, pc, cur, reported>>

\* OnAskMessage goes through the nodes without the lock, to answer for a message of
\* a started work, while AddNodes writes them.
NodesRace(t, u) ==
  /\ process = "up"
  /\ pc[t] = "idle"
  /\ \E w \in Works : starts[w] > 0
  /\ pc[u] = "nodes"
  /\ At("send") = {}
  /\ process' = "dead"
  /\ UNCHANGED <<pool, mail, nodes, pc, cur, reported>>

\* ProcessNewMessage locks workLock for reading and getWorker does so again.  A
\* writer that comes between waits for the first and keeps the second waiting:
\* nobody gets the lock any more.
LockCycle(t, u) ==
  /\ process = "up"
  /\ pc[t] = "idle"
  /\ Readable
  /\ \E m \in net : From[m] \in nodes
  /\ pc[u] \in {"next", "start", "finish"}
  /\ process' = "stuck"
  /\ UNCHANGED <<pool, mail, nodes, pc, cur, reported>>

Halt(t, u) == MapRace(t, u) \/ NodesRace(t, u) \/ LockCycle(t, u)

-----------------------------------------------------------------------------

NodesStep(t) == \/ LockNodes(t)
                \/ \E S \in SUBSET Peers : AddNodes(t, S)
                \/ SendSignMessaged(t)
                \/ GetNodeFromPeerId(t)

WorkerReports == \E t \in Threads, o \in live :
                   OnWorkerResult(t, o) \/ OnNodeNotSelected(t, o) \/ OnWorkFailed(t, o)

Next ==
  \/ \E t \in Threads : NodesStep(t)
  \/ \E t \in Threads, w \in Works : AddRequest(t, w)
  \/ \E t \in Threads, m \in Msgs : OnNetworkMessage(t, m)
  \/ \E t \in Threads : \/ StartNextWork(t)
                        \/ StartWork(t)
                        \/ DeliverMessage(t)
                        \/ FinishWorker(t)
                        \/ LogRemaining(t)
  \/ WorkerReports
  \/ \E t, u \in Threads : Halt(t, u)

Spec == Init /\ [][Next]_vars

\* A goroutine inside the engine keeps running unless it waits for a lock.
Fairness ==
  \A t \in Threads : WF_vars(\/ StartNextWork(t) \/ StartWork(t) \/ DeliverMessage(t)
                             \/ FinishWorker(t) \/ LogRemaining(t) \/ GetNodeFromPeerId(t)
                             \/ \E S \in SUBSET Peers : AddNodes(t, S))

FairSpec == Spec /\ Fairness

-----------------------------------------------------------------------------
(* Properties *)

\* Requests are taken in the order of the priorities AddWork documents: no
\* request waits behind one of lower priority, whatever was inserted or lost.
QueueSorted ==
  \A i, j \in 1..Len(queue) : i <= j => GetPriority(queue[i]) >= GetPriority(queue[j])

\* A waiting request is never forgotten by the scheduler: while one is queued, a
\* worker runs (and will call startNextWork when it finishes) or a goroutine is
\* between the event that calls startNextWork and the end of that call.
NoStrandedRequest ==
  queue # << >> => Running # {} \/ At("next") \cup At("start") \cup At("log") # {}

\* startNextWork gives the lock up between its check of the pool and startWork,
\* so the pool can exceed MaxWorker; it exceeds it by fewer workers than there
\* are goroutines, counting the workers about to start.
OverrunBounded ==
  Cardinality(Running) + Cardinality(At("start")) < MaxWorker + Cardinality(Threads)

\* Once a work has a worker, no message of it is left in the prework cache,
\* where nobody would look for it: startWork registers the worker and empties
\* the cache in one critical section, ProcessNewMessage looks up and caches in one.
NoMessageLeftBehind ==
  \A m \in cache : workers[WorkOf[m]] = 0

\* A message is given to one worker object only: the cache gives it up when it
\* hands it over, and what goes straight to a worker is not cached as well.
SingleConsumer ==
  \A a, b \in got : a[2] = b[2] => a = b

\* The owner of an ECDSA signing is always told an outcome: once all worker
\* objects of the work have reported to the engine, so has the engine to its
\* callback, even if one of them ended after another one was removed from the map.
EcSigningReported ==
  \A w \in Works : /\ WorkType[w] = "EcSigning"
                   /\ starts[w] > 0
                   /\ \A k \in 1..starts[w] : <<w, k>> \notin live
                   => w \in reported

\* The worker of a work that was started once stays in the map until it reports:
\* no other end of work removes it, so its messages keep reaching it.
WorkerStaysRegistered ==
  \A w \in Works : starts[w] = 1 /\ <<w, 1>> \in live => workers[w] = 1

\* Every party of a work that waits, starts or runs has a node, so that
\* sendSignMessaged finds it; where it does not, it returns with nodeLock held and
\* the next AddNodes waits for ever.
PartiesKnown ==
  \A w \in Queued(queue) \cup {cur[t] : t \in At("start")} \cup {o[1] : o \in live} :
    Parties[w] \subseteq nodes

-----------------------------------------------------------------------------
(* What the invariants above rest on. *)

\* The numbers of worker objects, and a thread that finishes a work has a
\* started one.
NumbersInv ==
  /\ \A w \in Works : workers[w] <= starts[w]
  /\ \A o \in live : o[2] \in 1..starts[o[1]]
  /\ \A t \in At("finish") : starts[cur[t]] > 0

\* A message is in one place only: on the net, in the cache, carried by one
\* thread, or with the worker that was given it.
MailInv ==
  LET carried == {held[t] : t \in At("deliver")}
      given   == {a[2] : a \in got}
  IN  /\ net \cap (cache \cup carried \cup given) = {}
      /\ cache \cap (carried \cup given) = {}
      /\ carried \cap given = {}
      /\ \A t, u \in At("deliver") : held[t] = held[u] => t = u
      /\ SingleConsumer

\* An ECDSA signing that was started and not reported has a worker object that
\* will report and find the work in the map; one that is being finished was reported.
ReportInv ==
  /\ \A w \in Works : /\ WorkType[w] = "EcSigning"
                      /\ starts[w] > 0
                      /\ w \notin reported
                      => workers[w] # 0 /\ \E k \in 1..starts[w] : <<w, k>> \in live
  /\ \A t \in At("finish") : WorkType[cur[t]] = "EcSigning" => cur[t] \in reported

\* While the only worker object of a work is running, nobody is finishing it.
RegisteredInv ==
  \A w \in Works : starts[w] = 1 /\ <<w, 1>> \in live
                  => workers[w] = 1 /\ \A t \in At("finish") : cur[t] # w

\* What the insertion can cost: when a keygen is queued behind a keygen, the
\* signing it is put before disappears.  Otherwise a request leaves the queue only
\* from its front.
OnlySigningsDisplaced ==
  [][\A w \in Queued(queue) \ Queued(queue') :
       \/ queue' = Tail(queue)
       \/ /\ ~IsKeygen(w)
          /\ Queued(queue) \ Queued(queue') = {w}
          /\ \E k \in Queued(queue), n \in Queued(queue') \ Queued(queue) :
               IsKeygen(k) /\ IsKeygen(n)]_vars

-----------------------------------------------------------------------------
(* Liveness, and what the comments say *)

\* Workers that have not ended keep reporting.  Their selections and jobs have
\* timeouts, but one that waits for ever outside the engine never reports: in a
\* write to a stream nobody reads any more, or at the lock GetAvailablePresigns has
\* left behind.  (Strong, since a report finds every thread in use only because
\* there are so few of them here.)
WorkersReport == SF_vars(WorkerReports)

\* As long as its workers report, the queue of the engine is emptied sooner or
\* later, unless the process dies of a race on one of its maps, gets stuck at
\* workLock, or a send and AddNodes wait for each other at nodeLock.
QueueDrains ==
  WorkersReport => (queue # << >> ~> (queue = << >> \/ process # "up" \/ NodesLocked))

\* The comment of AddWork: the request is added to the queue.  A queued request
\* leaves the queue only by being popped.
OnlyPopRemoves ==
  [][\A w \in Queued(queue) \ Queued(queue') :
        w = Head(queue) /\ Len(queue') < Len(queue)]_vars
=============================================================================
