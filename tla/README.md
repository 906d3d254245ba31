# A verification of dheart in TLA+

dheart is the node that runs threshold key generation and signing for the Sisu
network. Sisu calls it over RPC; it finds out with the other nodes who takes
part in a work, runs the rounds of tss-lib with them, and posts the result back.
This directory models the parts of it that are hard to test: the calls of Sisu
and the results it gets back, goroutines inside the engine, the selection round
between nodes, the presigns it consumes, the jobs of an execution, the recovery
of lost messages, the caches, and the streams between nodes.

## The system

| part | source | state | operations | interacts with |
|---|---|---|---|---|
| Heart | `core/heart.go` | `keysignRequests`, `privateKey`, `ready` | Keygen, Keysign, SetPrivKey, SetSisuReady, outcomes | RPC server, engine, database, client |
| Engine | `core/engine.go` | `nodes`, `workers`, `requestQueue`, `preworkCache`, `workCache` | AddNodes, AddRequest, startNextWork, startWork, finishWorker, OnNetworkMessage, OnAskMessage, outcomes of workers | Heart, workers, connection manager |
| Request queue | `core/request_queue.go` | the slice `queue` | AddWork, Pop | engine |
| Worker | `worker/default_worker.go` | `preworkSelection`, `executor`, `preExecutionCache` | Start, ProcessNewMessage, result of the selection and of the execution | engine, selection, executor |
| Prework selection | `worker/prework_selection.go`, `available_parties.go` | available parties, two channels, a timer | Run as leader or member, ProcessNewMessage | the same on all other nodes |
| Executor | `worker/worker_executor.go` | `jobs`, `jobOutput`, `jobResults`, `isStopped` | Init, Run, OnJobMessage, OnJobResult, ProcessUpdateMessage, OnMissingMesssageDetected | jobs, monitor, dispatcher |
| Job | `worker/job.go` | `finishedMsgs`, `doneOutCh`, `doneEndCh` | startListening, processMessage | a party of tss-lib |
| Message monitor | `worker/components/message_monitor.go` | `receivedMessages`, `lastReceivedTime` | NewMessageReceived, findMissingMessages | executor |
| Prework cache | `core/cache/message_cache.go` | a list per sender | AddMessage, PopAllMessages | engine, worker |
| Work message cache | `core/cache/work_message_cache.go`, `tools/circular_queue.go` | a ring buffer per sender and a map | Add, Get | engine |
| Available presigns | `core/components/available_presign_manager.go` | presigns in use and available | Load, AddPresign, GetAvailablePresigns | selection, database |
| Connections | `p2p/*.go` | a connection and a stream per peer | WriteToStream, handleStream | engine |
| Database, server, client, store, configuration | `db`, `server`, `client`, `store`, `core/config`, `run` | - | I/O | Heart |

A request goes from Heart to the queue of the engine; a free place in the pool
makes it a worker; the worker runs the selection; the selected nodes run an
executor with one job per message of the batch; the executor's single result
goes back through worker and engine to Heart. Messages of other nodes take the
way engine - worker - selection or executor - job, and wait in a cache at each
stage that has not started yet.

What is hard about it: goroutines that meet in the engine between two critical
sections; messages that arrive before their worker, their selection or their
executor; timers that race late messages; jobs of one batch that end, fail and
time out together; channels and slices of limited size; and works submitted
again while they run. `PROJECT.json` lists these hazards line by line.

## Modules

| module | models |
|---|---|
| `Heart` | the heart of one node: start-up calls, submissions, outcomes, keys in the database, crashes |
| `RequestQueue` | the queue as a sequence of work ids, with the priority position and the insertion |
| `PreworkCache` | the prework cache as the engine sees it: a set of messages |
| `CacheSpec` | abstract: that cache as a state machine |
| `MessageCache` | the cache as it is: slices on arrays that senders come to share |
| `Engine` | the engine of one node: queue, pool, prework cache, message dispatch, outcomes, its two locks |
| `Selection` | abstract: the leader fixes one group, every other node joins it, is left out or fails |
| `PreworkSelection` | the selection round of one work on all nodes |
| `Presigns` | unused presigns in memory and in the database, and the selections that compete for them |
| `Execution` | worker, executor and jobs of one node from the end of the selection on |
| `CircularQueue` | the ring buffer with its map |
| `Recovery` | monitors, requests for missing messages, answers and caches during the executions of one work on all nodes |
| `Connections` | goroutines that write to one peer, the streams between, and the peer's readers |
| `EngineProofs`, `MessageCacheProofs`, `PreworkSelectionProofs`, `ExecutionProofs`, `RecoveryProofs`, `PresignsProofs`, `HeartProofs`, `ConnectionsProofs` | the theorems |
| `MCEngine`, `MCPreworkSelection`, `MCExecution`, `MCRecovery`, `MCMessageCache`, `MCPresigns`, `MCHeart`, `MCConnections` | instances for TLC |

**Heart.** A submission `<<w, k>>` is the k-th call of Sisu for work `w`. `call`
follows its RPC goroutine, `work` what the engine does with it: a request is
queued, refused because its id is queued, or lost because a keygen overwrites it
(`KeygenOverwrites`, what `engine_lost` shows of the queue; the second copy of the
keygen counts as its next submission). Between call and engine lie the accesses to
`keysignRequests` (`requests`), which `Keysign` writes after the engine has the
request. `rows` is the table of keys and, with `told`, all that survives `Stop`;
every submission of a keygen makes a key of its own, and a row is inserted once.
`Keysign` gets the key of any finished keygen, or nil, also when the read fails.
`SaveKeygen` precedes the post, and may fail with or without its row. `network` is
what `initConnectionManager` has made; `SetSisuReady` may come before, between or
after. `ExecuteWithoutInput` is the nil dereference of an executor without a key
or without preparams. What an engine does in between is left to the other modules.

**Engine.** `queue`, `workers`, `nodes` and `cache` are the fields of the
engine; `workers` holds the number of the worker object because a work id that
is submitted again replaces its worker, and `live` holds the objects that have
not reported. Threads are goroutines: RPC calls, network messages, reports of
workers. A step is one critical section of `workLock` or the code between two;
`pc` says where a goroutine is. `startNextWork` is therefore two steps
(`StartNextWork`, `StartWork`), `finishWorker` three (`FinishWorker`,
`LogRemaining`, then `StartNextWork`). `MapRace` is the runtime error for the
iteration over `workers` without the lock. `Insert` keeps what `append` does to
the shared backing array of the queue. `LockCycle` is a writer that waits
between the two read locks `ProcessNewMessage` takes on `workLock`. At `nodeLock`
the same happens between the two read locks of a send: `SendSignMessaged` and
`GetNodeFromPeerId` are its two steps, `LockNodes` and `AddNodes` those of the
writer, and while a writer waits (`~Readable`) no reader gets the lock. `NodesRace`
is `OnAskMessage` going through the nodes without the lock. The prework
cache is the one of `PreworkCache`; which messages a full list gives up is left
open there, and `MessageCache` shows that the code does no worse.

**MessageCache.** A list is a slice: array, offset and length. `AppendSlice` and
`AppendHeap` are Go's `append`, in place where the array has room and in an array
of twice the size where not; `Collect` forgets arrays nobody refers to.
`AddMessage` is one step. A pop is a step for each turn of the loops of
`getAllMessages`, all under `cacheLock`: `NextValue` takes a sender in the order of
a map iteration, `NextMessage` selects a message or appends it to `newList`,
`SetList` gives the sender that list as it is by then. `Held`, what is in some list
or in the hands of the pop, is the refinement mapping to `CacheSpec`; the abstract
pop happens at `Return`. `limit` is an auxiliary variable: `MaxMessagePerNode`,
multiplied by the number of senders at each pop.

**PreworkSelection.** Every node has a `state` (off, waiting, executing,
excluded, failed) and an `age` since it began to wait. The network is a set:
messages are delayed and reordered freely and may never arrive. A message that
arrives before the node's worker goes to `cached` and is read at the start.
`responses` is `memberResponseCh` with its capacity. `Tick` lets time pass for
waiting nodes up to the first timer that is due. `Quiet` says that nothing is on
its way but responses held at a full channel. Presigns are given as the sets of parties the leader has enough of.

**Presigns.** A row is absent, unused or used. `GetAvailablePresigns` is three
steps: `FindPresigns` under the read lock, `TakePresigns` under the write lock,
`UpdatePresignStatus` in the database, which may report an error with or without
having done its work. `Crash` may come between any two; `Load` then reads the
unused rows, or some of them if the read ends early, since the code does not ask
`rows` for its error (`dropped`). A call that finds too few presigns at its second look returns
without unlocking: `lock` is then `leaked`.

**Execution.** tss-lib is external: a party puts the messages of a round into
`outCh` when it has those of the earlier rounds of all peers, and the result
into `endCh` at the end; peers send a round only when they have ours of the
earlier ones. Types of messages stand for messages. `call` follows the
goroutines inside `OnJobResult`, which checks `isStopped`, stores and counts
under a lock and broadcasts after it. A timer may fire at any time. The goroutine
that listens to a party also sends its messages, and may be held there for ever
(`blocked`): streams and `nodeLock` are outside this module.

**Recovery.** Every node has an executor and an engine. A party emits its
messages in the order of their types; the engine caches and sends each
(`SendMessage`), receives those of others and caches the broadcasts among them
(`OnNetworkMessage`). `received` is what the monitor has noted, `recent` whether
something came since its timer fired last, which is when it waits once more.
`WakeUp` is the timer with the search for missing messages and the requests it
makes. A request arrives at once or is lost; its answer (`OnAskMessage`) travels
like any other message. `Presigned` says that a signing has presigns and sends only
its last type, while the monitor still looks for all of them. `Lose` drops a message. An executor that has everything
stops, its engine goes on answering. Timeouts of jobs are left out here: they
end a work that has not recovered in time.

**Connections.** One direction between two nodes. `pc` follows the goroutine of
each message through `WriteToStream`: look for a stream, create one, take the
lock, write header, write payload. Two goroutines that find no stream create two,
or end the process by writing the map at the same time
(`ConcurrentMapAccess`). A stream is libp2p's: reliable, ordered, with a window
(`Window`). It breaks with its connection and stays in the map. A reader that has
a frame while there is no listener returns and leaves its stream open (`deaf`).
A read is assumed to return one written segment: `ReadStreamWithBuffer` makes a
new `bufio.Reader` for each frame, so bytes of a next frame that a read brought
along would be dropped.

## Runs

| run | instance | shows |
|---|---|---|
| `engine` | keygen and signing, each submitted up to twice, 3 goroutines, pool of 1, one message; 357,622 states | queue ordered, never stranded, and drained if workers report and the engine neither dies nor gets stuck; overrun of the pool bounded; no message left in the cache or given twice; ECDSA signings reported; a worker registered until it reports; all parties known |
| `engine_lost` | two keygens, a signing, 3 goroutines | violated: a queued request is overwritten by an insertion |
| `selection_signing` | 3 nodes, threshold 1, presigns of one pair; 22,911 states | agreement on the group, refinement of `Selection`, blocked responses bounded, nobody gives up without need, everybody decides |
| `execution` | a batch of 2 EdDSA signings, 1 peer; 71,956 states | one outcome, success only of the whole batch, no outcome lost on its way, no message forgotten, messages sent for the whole batch, an outcome in the end unless a job is held in a send |
| `execution_last` | 1 ECDSA signing without presigns, 1 peer | violated: the last message stays in `outCh` |
| `recovery` | ECDSA keygen, 2 nodes, all 4 types, 4 losses, caches of 1 (own: 5), hasty monitors; 7,767 states | senders can always answer for their messages; stuck nodes ask for something that can be answered; all executors finish |
| `recovery_eddsa` | EdDSA signing, 2 nodes, 1 loss | violated: nothing is asked for |
| `cache` | 6 messages of 2 senders, 2 works, limit 4, 2 pops; 243,103 states | the slices implement `CacheSpec`; messages are lost only at the limit or by sharing an array |
| `cache_limit` | the same messages, limit 2, 1 pop | violated: more messages of one sender than the limit |
| `presigns` | 3 presigns, 2 groups, 3 selections (of 1, 1 and 2), any number of restarts; 14,441 states | no presign handed out twice; memory and database agree; calls return unless the lock was left behind |
| `heart` | 2 ECDSA keygens and a signing, 4 of 5 submissions, 1 crash; 775,162 states | the key told is the key stored; results carry their requests but for two races; every ECDSA signing accounted for; whoever accepts works hears its peers unless `SetSisuReady` came too early |
| `connections` | 3 messages, window of 2 segments, 1 break; 33,210 states | frames never mixed; nobody keeps the lock while nothing can happen, but for a deaf stream; what was written arrives, and writers return, unless a stream broke or went deaf |

Bounds. Three goroutines are the fewest for which an overrun of the pool, a
resubmission and a message meet; two submissions make two worker objects of one
work. Three nodes are the fewest with a member in and a member out of a group
of two; the safety properties of the round were also checked once with four and a
threshold of two, where a leader has to take more than one response (1,730,762
states, too many to keep). Timeouts of 2 and 1 ticks
keep the order of the defaults. A keygen, which needs all nodes, is covered by the
theorems, which hold for every type of work and number of nodes, as are the
six nodes at which a response is first blocked. Two jobs are the fewest of a batch that can
disagree; one peer is enough since the executor treats peers alike.
Two nodes are enough for the whole list of types of a keygen, with monitors that
ask while messages are still on their way (`Hasty`). Caches of size one overflow
at the second broadcast of a sender; the own one, five times as large, holds all
messages of a keygen as 320 do in the program. With two nodes nobody relays a
broadcast; for the safety properties the theorems of `RecoveryProofs` cover any
number of nodes, for `Recovers` relays are not covered by a run.
A second keygen and a signing are what it takes to overwrite a request; `MaxCalls`
leaves one of the five submissions out, any one, to keep the run short (all five were
checked once).
Six messages, five of them of one sender, and a limit of four let a list be trimmed, grow in a new array,
and be appended to after two pops that left both senders on one array. Three
selections are the fewest of which one takes what another has found while a third
waits for the lock; presigns of two groups let them also pass each other. One
crash is enough to lose memory at any point and come back with the database as it
was. Three messages of two segments fill a window of two behind a reader that has
gone.
Deadlock is checked in `presigns` only: elsewhere the system may come to rest
when all works have ended or all messages were sent.

Fairness. `Engine`: a goroutine inside the engine keeps running unless it waits for
a lock. `QueueDrains` has as its hypothesis that workers which have not ended report
(`WorkersReport`). `ExecutionReports` and `EveryoneDecides` show when they do; a
worker does not if it is held in a write to a stream nobody reads or at the lock
`GetAvailablePresigns` left behind. `PreworkSelection` and
`Execution`: timers fire and goroutines go on unless they are held in a send;
nothing is assumed of messages, peers or parties, so an outcome is reached even in
silence. `Recovery`: parties
emit what they can, timers fire, and a node with messages on their way receives
one of them; the number of losses is finite. `Presigns`: a goroutine inside
`GetAvailablePresigns` keeps running. `Heart` has no liveness properties: nothing in
the repository obliges Sisu to call, or anybody to start the process again.
`Connections`: goroutines run on
while they can, and the lock is given to everybody who waits for it in the end,
as `sync.RWMutex` guarantees; connections need not be made.

## Findings

Each is the violation of what a comment or a test says, shown by a run:

1. `request_queue.go:57` (`engine_lost`): inserting a keygen behind a keygen and
   before a signing overwrites the signing and queues the keygen twice.
2. `tss_phase_messages.go:88` (`execution_last`): seven of eight message types are
   counted for an ECDSA signing without presigns, and a job can return before it
   has sent `SignRound7Message`, which is then not even cached for requests of
   peers.
3. `tss_phase_messages.go:122` (`recovery_eddsa`): the monitor knows no message of
   an EdDSA work, so one lost message makes it fail.
4. `message_cache.go:80` (`cache_limit`): a pop leaves the messages of one sender in
   the lists of others, where a trim of the sender's own list does not reach them, so
   the limit "PER VALIDATOR" of the comment at line 17 does not hold. What is left of
   it is the bound of theorem `ListsBounded`.

Observations the models contain and the properties allow for:

- `engine.go:277`: the pool is checked in one critical section and extended in
  another, so more than `MaxWorker` workers may run; `OverrunBounded` bounds them.
- `engine.go:197`: nested read locks under a waiting writer stop the engine for
  good (`LockCycle`), and so do those at `engine.go:366` under a waiting `AddNodes`
  (`NodesLocked`): sends, messages of peers and requests of Sisu then wait. These, and
  the iterations over `workers` (line 257, `MapRace`) and over `nodes` (line 234,
  `NodesRace`) without a lock, are the exceptions in `QueueDrains`.
- `prework_selection.go:471`: as the TODO there fears, a response can be blocked for
  ever: members answer up to twice, and nobody reads the channel after the decision.
  `BlockedBounded` is the exact number. A signing with the usual threshold has none up
  to five nodes and may have one with six.
- `job.go:234`: the goroutine of a job sends messages itself, so one that is held in a
  write never gets back to its timer: the exception in `ExecutionReports` (`HeldUp`).
- `prework_selection.go:185` with `config/timeout.go:24`: a leader that times out
  announces a group whose members gave up 15 seconds earlier.
- `prework_selection.go:178` with line 230: a leader that takes a response when its time
  is over leaves the loop and fails, even if others have just started and, for an
  ECDSA signing, even if it has the parties with which the timer at line 185 would
  have succeeded. `NoNeedlessFailure` therefore speaks of parties that were counted.
- `message_cache.go:62`: after a pop senders share arrays, so that a new message
  of one may overwrite a message of another.
- `available_presign_manager.go:145`: the early return keeps the write lock; every
  later selection with presigns on this node waits for ever.
- `heart.go:376`: a work that reports before `Keysign` has stored the request is
  posted without it, and the request stored later stays in the map. The map has no
  lock.
- `heart.go:270`: the private key is stored before the connection manager has
  started; if that fails, a second call returns success and does nothing.
- `heart.go:234`: a `SetSisuReady` that comes before `SetPrivKey` has made the engine
  leaves a heart that will accept works and hear no peer, until it is called again.
- `heart.go:352`: a database that fails to read a key returns none and no error; the
  signing is accepted, and its executor ends the process.
- `default_worker.go:305`: the row of a keygen is inserted and never replaced, so after
  a crash between the save and the post every repetition of the work id fails.
- `database.go:418`: presigns may be left out by a read that ends early; they stay
  unused until the next start.
- `tss_phase_messages.go:110`: a signing with presigns sends only its last type, but
  the monitor knows all eight. A node that has received nothing asks for the first,
  which nobody has sent; `StuckIsAsked` therefore speaks of nodes that have received
  something.
- `connection_manager.go:184`: a stream on which a message comes before there is a
  listener is never read again, and once its window is full the sender keeps the
  lock of the connection.
- `connection.go:71`: a broken stream stays in the map; later messages to the
  peer fail.
- `circular_queue.go:47` deletes the key of the evicted entry from the map even if
  a newer entry of this key is in the queue, as happens when several nodes relay
  one broadcast. It takes three nodes, three types and caches of two, more than
  the runs have. It can cost only the relaying of the message: by
  `OwnMessagesStay` its sender still answers.
- `database.go`: `SavePeers` executes its statement without parameters and
  `LoadPeers` fills the key type from the column of the key; peers come from the
  configuration.

## Theorems

Each proof has an inductive invariant with one step per action; the temporal
conclusion is the last step.

`EngineProofs`, for any works, goroutines, pool size, messages and number of
submissions:

- `TypeCorrect`, `Sorted`, `NeverStranded`, `OverrunIsBounded`,
  `NothingLeftBehind`: the invariant is inductive together with `TypeOK`.
  `Sorted` rests on `AddWorkSorted`: the insertion keeps the order even where it
  overwrites a request, since it overwrites it with one of a priority that fits.
- `OneConsumer` by `MailInv`: a message is on the net, in the cache, carried by
  one goroutine or given to one worker, and in no two places.
- `EcSigningsReported` by `NumbersInv` and `ReportInv`: a started and unreported
  ECDSA signing is in the map and has a live worker object.
- `StaysRegistered` by `NumbersInv` and `RegisteredInv`: nobody is finishing a
  work whose only worker has not reported.
- `PartiesStayKnown`: inductive with `TypeOK`; nodes are never removed, and the
  insertion brings no work into the queue that was not checked.
- `OnlySigningsLost` bounds what the run `engine_lost` finds: by `AddWorkLoses` an
  insertion removes at most one request, a signing, and only if a keygen is put
  between a keygen and that signing. No run checks its property,
  `OnlySigningsDisplaced`.

`MessageCacheProofs`, for any messages, works, limit and number of pops and any
finite set of senders that is not empty:

- `CacheCorrect` is the inductive invariant, `CacheInv`. `SliceInv`: a list is a
  window on its array that holds messages. `ApartInv`, inside a pop: no list that
  is still to be gone through has the array of `newList`, and one that was set from
  it and has its array is a beginning of it; so what `append` writes in place is in
  no window. `LoopInv`: what was gone through is selected or kept by its work, and
  the last sender gone through has all that was kept.
- `CacheRefines`: `AddMessage` is the abstract `Add`, `Return` the abstract `Pop`,
  and every other step leaves `Held` alone. This is what `Engine` assumes of its
  cache.
- `LossExplained`: an append by a sender whose list is not full and is alone on its
  array leaves every other message where it is.
- `ListsBounded` by `GrowthInv`: inside a pop the kept messages, the rest of the
  current list and the limit before the pop for each sender to come do not exceed
  the new limit.

The lemmas before them say what `append` does to the slice it is given
(`AppendedItems`), to another slice (`AppendedOthers`) and to what they hold, and
that there is always a free array (`FreeArray`).

`PreworkSelectionProofs`, for any nodes, hashes, thresholds, presigns and
timeouts:

- `SelectionTypeCorrect`: types, and the leader counts itself.
- `RoundImplementsSelection`: every step is a step of `Selection` or leaves its
  variables alone.
- `NodesAgree`, `GroupStaysAble` by `AnnouncedInv`: whoever the leader counts has
  started, and every announcement of success under way carries the leader's own
  choice.
- `FewResponsesBlock` by `ResponseInv`: a member answers once when it starts
  and once more if it was asked, an answer takes the place of its request, and of
  the two one has been read from each member the leader counts.
- `FailuresAreNeeded` by `WaitingInv`, for every type of work: until the leader
  decides, each waiting member is counted or its response is under way or cached;
  afterwards the announcement is under way to it or cached. So nothing that meets a
  node before its worker is lost, and a timer that fires where nothing is on its way
  finds too few parties or no leader.

`ExecutionProofs`, for every work type, batch size and set of peers:

- `ExecutionTypeCorrect`, and `ReportedOnce` by `ReportInv`: an outcome is
  on its way or reported only when `isStopped` is set, which one caller does.
- `SuccessHasAllResults` by `ResultInv`: a stored success, and a call that carries
  one, belong to a job whose result was taken from its party.
- `SentMessagesWhole` and `MessagesReachParties`: inductive with the types.
- `DoneJobsSentAll`, for all works but an ECDSA signing without presigns, and
  `DoneJobsSentButLast`, for all, by `SentInv`: what all jobs have passed on was
  sent, and a job that is done has passed on as many messages as the executor
  counts. The excluded work is the one of the run `execution_last`, for which the
  count is one too low; the second theorem says that this is all that is missing.
- `OutcomeNeverLost` by `StartInv` and `ProgressInv`: every job of a running executor
  is listening, in a call of `OnJobResult`, held in a send, or stored, and when all are stored the
  call that stored the last one is about to broadcast. This is the safety part of
  `ExecutionReports`: no other state is left in which nobody will report.

`RecoveryProofs`, for any number of nodes, losses and hasty monitors, under
`OwnRoom`, which says that the messages of a party fit into the cache of its own
engine:

- `RecoveryTypeCorrect`, without `OwnRoom`; the map of a ring has nothing that is in
  none of its slots.
- `OwnMessagesStay` by `OwnCacheInv`: that cache gets only own messages, each
  once, so none of them is displaced.
- `StuckNodesAsk` for ECDSA, by `StoppedInv` and the former: take the least round
  of which somebody has not sent a message. That node lacks a message of an earlier
  round, which all have sent; whether its monitor looks at a gap or at the next
  type, it asks for something its sender has. In a signing with presigns all that is
  sent is the last type; a node that has one of some peer and lacks another's has a
  gap there, and asks for it.

`PresignsProofs`, for any presigns, groups and selections:

- `PresignsTypeCorrect`; `MemoryMatches` by `HoldingInv`: a call has presigns only
  between the critical section that took them and the update of their rows.
- `NoPresignReuse` by these and `HandedInv`: what was handed out is marked as used,
  and only unused presigns are taken.
- `LockLeaksByRace` by `FoundInv`: as long as at most one selection at a time looks
  for presigns (`OneSelection`), a group found under the read lock still has enough
  presigns under the write lock, and the early return that keeps the lock is not
  taken.

`HeartProofs`, for any works, algorithms, numbers of submissions and crashes:

- `HeartTypeCorrect`; `KeysAreStored` by `SavedInv`: a keygen about to be reported
  has its own key in its row, and rows are never replaced.
- `RequestsAreAttached` by `RequestInv`: the map holds the request of a signing in the
  engine whose call has returned and that was submitted once.
- `NoEndUnanswered`: `EcAccountedFor` is inductive with the types and `RequestInv`. A
  worker whose report the engine drops has lost its entry to another submission, which
  has ended and so was answered; a request is refused only while another is queued.
- `AcceptedAreHeard` by `ListenInv`: works are accepted only by a heart that is ready,
  and the call that made it ready registered the engine or came too early.

`ConnectionsProofs`, for any messages, window and number of breaks:

- `ConnectionsTypeCorrect`; `FramesStayWhole` by `LockInv`, `MineInv` and
  `HalfInv`: a stream ends with half a frame only while the goroutine that wrote
  it holds the lock.
- `LockNeverStuck` by these and `HostInv`, `SegmentInv`, `DoneInv`: the stream of a
  writer that waits is full and not broken, so its receiver is up and its reader is
  either deaf or, by `FramesWhole`, before a segment it expects. This is the safety
  part of `WritersReturn`.
- `WrittenIsKept`: `NothingLost`, the safety part of `WrittenIsDelivered`, is
  inductive with the former. Only written messages are delivered, and a written one
  is in its stream until the listener has it, the stream breaks or goes deaf.

Assumptions are the named `ASSUME`s of the modules: finite sets, a leader with
the smallest hash, a threshold below the number of nodes, presigns made by the
leader and enough others, bounds that are numbers. Model-checked only: liveness
(`QueueDrains`, `EveryoneDecides`, `ExecutionReports`, `Recovers`, `CallsReturn`,
`WrittenIsDelivered`, `WritersReturn`), which the prover
does not do, although for most of them a theorem above says that no state is a dead
end.

## Not modelled

- Cryptography is tss-lib's; signatures of messages are not checked by the code.
- The store, configuration and start-up read files before anything runs
  concurrently. Of the database, the connection, migrations, preparams and peers
  are left out: they are read once.
- Discovery and the retries of the first connection are libp2p's.
- The transport of RPC, and the single-node API for development, which bypasses
  the engine.
- Nobody calls the blame manager, `Worker.Stop`, `startTimeoutClock`,
  `RemoveListener` and `ReleaseStream`. `Heart.BlockEnd` returns at once, so
  `doPresign` is not reached and `AddPresign`, though modelled, has no caller.
- The modules are composed by what they assume of each other (`Engine` of its
  workers and its cache, `Heart` of the engine), not in one state space: a product
  of them is out of reach.
