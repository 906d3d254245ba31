-------------------------------- MODULE Heart --------------------------------
(***************************************************************************)
(* The heart of one node (core/heart.go) between the Sisu node that calls  *)
(* it, the engine that reports to it, and the keys in the database.        *)
(*                                                                         *)
(* A work may be submitted again; submission <<w, k>> is the k-th one.     *)
(* RPC calls and the reports of workers run on goroutines of their own and *)
(* interleave between the accesses to the map keysignRequests, the queries *)
(* and the posts to Sisu.  What a worker does until it reports is in the   *)
(* modules Engine, PreworkSelection and Execution.                         *)
(***************************************************************************)
EXTENDS Integers, FiniteSets

CONSTANTS
  Keygens,     \* ids of key generations
  Keysigns,    \* ids of signings
  Algo,        \* the algorithm of each of them, "ec" or "ed"
  MaxSubmits,  \* bound: how often Sisu submits each work
  MaxCalls,    \* bound: how often it submits works
  MaxCrashes   \* bound: how often the process ends

Works == Keygens \cup Keysigns
Subs  == UNION {{w} \X (1..MaxSubmits[w]) : w \in Works}

ASSUME WorksAssumption  == Algo \in [Works -> {"ec", "ed"}] /\ Keygens \cap Keysigns = {}
ASSUME BoundsAssumption == MaxSubmits \in [Works -> Nat] /\ {MaxCalls, MaxCrashes} \subseteq Nat

VARIABLES
  process,    \* whether the process is up
  crashes,    \* how often it ended
  network,    \* how far SetPrivKey has got with cm and engine
  ready,      \* h.ready
  listening,  \* whether the engine listens to the connection manager
  early,      \* whether the last SetSisuReady came before there was an engine
  rows,       \* table keygen: the submission whose key it holds for a work, 0 for none
  call,       \* the RPC call of each submission; "over" after a crash
  work,       \* what the engine does with it
  input,      \* whether a signing was given a key, and not nil
  requests,   \* keysignRequests: the submission it holds for a work, 0 for none
  told,       \* the keygens whose key was posted to Sisu
  posts       \* the results of signings posted to Sisu since the start

server == <<process, crashes, network, ready, listening, early>>
vars   == <<server, rows, call, work, input, requests, told, posts>>

IsKeygen(s) == s[1] \in Keygens
Others(s)   == {t \in Subs : t[1] = s[1] /\ t # s}
Posts       == [sub : Subs, request : Nat, excused : BOOLEAN]

\* A submission is refused while its work id is queued, lost if the queue
\* overwrites it, and dropped if the engine does not report its failure.
Stages == {"none", "refused", "queued", "lost", "running", "saved", "answering", "ended", "dropped"}

TypeOK ==
  /\ process \in {"up", "down"}
  /\ crashes \in 0..MaxCrashes
  /\ network \in {"none", "cm", "engine"}
  /\ ready \in BOOLEAN
  /\ listening \in BOOLEAN
  /\ early \in BOOLEAN
  /\ rows \in [Keygens -> Nat]
  /\ call \in [Subs -> {"new", "added", "returned", "over"}]
  /\ work \in [Subs -> Stages]
  /\ input \in [Subs -> BOOLEAN]
  /\ requests \in [Keysigns -> Nat]
  /\ told \subseteq Subs
  /\ posts \subseteq Posts

Init ==
  /\ process = "down"
  /\ crashes = 0
  /\ network = "none"
  /\ ready = FALSE
  /\ listening = FALSE
  /\ early = FALSE
  /\ rows = [w \in Keygens |-> 0]
  /\ call = [s \in Subs |-> "new"]
  /\ work = [s \in Subs |-> "none"]
  /\ input = [s \in Subs |-> FALSE]
  /\ requests = [w \in Keysigns |-> 0]
  /\ told = {}
  /\ posts = {}

-----------------------------------------------------------------------------
(* Start and end of the process *)

\* TssApi.Init calls Start, which retries createDb and makes preparams if the
\* database has none.  An error of the latter ends the process again.
Start ==
  /\ process = "down"
  /\ process' = "up"
  /\ UNCHANGED <<crashes, network, ready, listening, early, rows, call, work, input, requests, told, posts>>

\* What is in memory is lost: the private key, the map, the works and the calls.
Stop ==
  /\ process = "up"
  /\ crashes < MaxCrashes
  /\ process' = "down"
  /\ crashes' = crashes + 1
  /\ network' = "none"
  /\ ready' = FALSE
  /\ listening' = FALSE
  /\ early' = FALSE
  /\ call' = [s \in Subs |-> IF call[s] = "new" THEN "new" ELSE "over"]
  /\ work' = [s \in Subs |-> "none"]
  /\ input' = [s \in Subs |-> FALSE]
  /\ requests' = [w \in Keysigns |-> 0]
  /\ posts' = {}
  /\ UNCHANGED <<rows, told>>

\* A crash at any point, which includes the fatal error of the Go runtime when
\* two goroutines access keysignRequests at the same time.
Crash == Stop

\* Executing a signing with a nil key, or an ECDSA keygen whose preparams cannot
\* be read, dereferences nil on a goroutine that nobody recovers.
ExecuteWithoutInput(s) ==
  /\ work[s] = "running"
  /\ IF IsKeygen(s) THEN Algo[s[1]] = "ec" ELSE ~input[s]
  /\ Stop

\* SetPrivKey keeps the private key and makes the connection manager.  A second
\* call with the key does nothing, whatever became of the first.
SetPrivKey ==
  /\ process = "up"
  /\ network = "none"
  /\ network' = "cm"
  /\ UNCHANGED <<process, crashes, ready, listening, early, rows, call, work, input, requests, told, posts>>

\* initConnectionManager goes on to make the engine.  If engine.Init or the start
\* of the connection manager then fails, SetPrivKey returns an error, and the heart
\* goes on with what it has made.
InitConnectionManager ==
  /\ network = "cm"
  /\ network' = "engine"
  /\ UNCHANGED <<process, crashes, ready, listening, early, rows, call, work, input, requests, told, posts>>

HasEngine == network = "engine"

\* If cm is nil the call panics after ready is stored, and the RPC server
\* recovers; if the engine is nil it is nil that is made the listener.
SetSisuReady ==
  /\ process = "up"
  /\ ready' = TRUE
  /\ listening' = HasEngine
  /\ early' = ~HasEngine
  /\ UNCHANGED <<process, crashes, network, rows, call, work, input, requests, told, posts>>

-----------------------------------------------------------------------------
(* Keygen and Keysign *)

\* Sisu submits s; before the k-th time it has submitted the work k - 1 times.
Submits(s) ==
  /\ process = "up"
  /\ call[s] = "new"
  /\ s[2] > 1 => call[<<s[1], s[2] - 1>>] # "new"
  /\ Cardinality({t \in Subs : call[t] # "new"}) < MaxCalls

InQueue(S) == \E o \in S : work[o] = "queued"

\* AddWork puts a keygen behind the queued keygens; if there are some, and then a
\* signing, it overwrites the signing.
Overwrites(s) ==
  /\ IsKeygen(s)
  /\ InQueue({o \in Subs : IsKeygen(o)})
  /\ InQueue({o \in Subs : ~IsKeygen(o)})

\* AddRequest queues the request, or drops it if its work id is in the queue.
AddRequest(s) ==
  \/ /\ ~InQueue(Others(s)) /\ ~Overwrites(s)
     /\ work' = [work EXCEPT ![s] = "queued"]
  \/ /\ InQueue(Others(s))
     /\ work' = [work EXCEPT ![s] = "refused"]

\* Works are accepted before Sisu is ready.
ServingUnready == HasEngine

\* Without SetSisuReady a call returns an error; without an engine it panics and
\* the RPC server returns an error.  Neither changes anything.
Serving == ready /\ HasEngine

\* If AddRequest returns an error the call changes nothing.
Keygen(s) ==
  /\ IsKeygen(s)
  /\ Submits(s)
  /\ Serving
  /\ AddRequest(s)
  /\ call' = [call EXCEPT ![s] = "returned"]
  /\ UNCHANGED <<server, rows, input, requests, told, posts>>

\* The keygen that overwrites signing l is in the queue twice; its copy, c, counts
\* as its next submission.
KeygenOverwrites(s, c, l) ==
  /\ Submits(s)
  /\ Serving
  /\ ~InQueue(Others(s)) /\ Overwrites(s)
  /\ c = <<s[1], s[2] + 1>>
  /\ call[c] = "new"
  /\ ~IsKeygen(l) /\ work[l] = "queued"
  /\ work' = [work EXCEPT ![s] = "queued", ![c] = "queued", ![l] = "lost"]
  /\ call' = [call EXCEPT ![s] = "returned", ![c] = "returned"]
  /\ UNCHANGED <<server, rows, input, requests, told, posts>>

\* startNextWork, once a worker is free.
StartNextWork(s) ==
  /\ work[s] = "queued"
  /\ work' = [work EXCEPT ![s] = "running"]
  /\ UNCHANGED <<server, rows, call, input, requests, told, posts>>

\* Whether LoadEcKeygen or LoadEdKeygen returns a key: one needs a row of the key
\* type, and they return nil also if they fail to read it.
Loads(a) == {FALSE} \cup {rows[g] # 0 : g \in {h \in Keygens : Algo[h] = a}}

\* Keysign up to AddRequest, which may return an error.  If the database returns
\* one the call ends before, with an error for ECDSA and without one for EdDSA.
Keysign(s) ==
  /\ ~IsKeygen(s)
  /\ Submits(s)
  /\ Serving
  /\ \E i \in Loads(Algo[s[1]]) : input' = [input EXCEPT ![s] = i]
  /\ AddRequest(s) \/ UNCHANGED work
  /\ call' = [call EXCEPT ![s] = "added"]
  /\ UNCHANGED <<server, rows, requests, told, posts>>

\* Keysign after AddRequest: the request is remembered.
KeysignReturns(s) ==
  /\ call[s] = "added"
  /\ call' = [call EXCEPT ![s] = "returned"]
  /\ requests' = [requests EXCEPT ![s[1]] = s[2]]
  /\ UNCHANGED <<server, rows, work, input, told, posts>>

-----------------------------------------------------------------------------
(* Reports of the engine.  A post may be lost, which changes nothing here. *)

\* The result posted for a signing.  The last field notes whether the RPC call
\* was still before its access to the map, or the process has got another
\* submission of the work.
Post(s) ==
  posts' = posts \cup
    {[sub |-> s, request |-> requests[s[1]],
      excused |-> \/ call[s] = "added"
                  \/ \E t \in Others(s) : call[t] \in {"added", "returned"}]}

\* The row is replaced, as INSERT OR REPLACE would do.
SaveKeygenAnew(s) ==
  /\ IsKeygen(s)
  /\ work[s] = "running"
  /\ rows' = [rows EXCEPT ![s[1]] = s[2]]
  /\ work' = [work EXCEPT ![s] = "saved"]
  /\ UNCHANGED <<server, call, input, requests, told, posts>>

\* saveJobResultData of a keygen that has succeeded: the key type and the work id
\* are the primary key of the row.
SaveKeygen(s) ==
  /\ IsKeygen(s)
  /\ work[s] = "running"
  /\ rows[s[1]] = 0
  /\ rows' = [rows EXCEPT ![s[1]] = s[2]]
  /\ work' = [work EXCEPT ![s] = "saved"]
  /\ UNCHANGED <<server, call, input, requests, told, posts>>

\* The row is there already, or the database returns an error, with or without
\* having inserted the row: OnWorkFailed posts a failure.
SaveKeygenFails(s) ==
  /\ IsKeygen(s)
  /\ work[s] = "running"
  /\ \/ UNCHANGED rows
     \/ rows[s[1]] = 0 /\ rows' = [rows EXCEPT ![s[1]] = s[2]]
  /\ work' = [work EXCEPT ![s] = "ended"]
  /\ UNCHANGED <<server, call, input, requests, told, posts>>

OnWorkKeygenFinished(s) ==
  /\ work[s] = "saved"
  /\ work' = [work EXCEPT ![s] = "ended"]
  /\ told' = told \cup {s}
  /\ UNCHANGED <<server, rows, call, input, requests, posts>>

\* OnWorkSigningFinished up to its post: the signatures, or for ECDSA that this
\* node was not selected.
OnWorkSigningFinished(s) ==
  /\ ~IsKeygen(s)
  /\ work[s] = "running"
  /\ input[s] \/ Algo[s[1]] = "ec"
  /\ Post(s)
  /\ work' = [work EXCEPT ![s] = "answering"]
  /\ UNCHANGED <<server, rows, call, input, requests, told>>

\* The request is removed before the result is made.
RemoveFirst(s) ==
  /\ ~IsKeygen(s)
  /\ work[s] = "running"
  /\ requests[s[1]] # 0
  /\ requests' = [requests EXCEPT ![s[1]] = 0]
  /\ UNCHANGED <<server, rows, call, work, input, told, posts>>

\* OnWorkSigningFinished after its post: the request is removed.
RemoveRequest(s) ==
  /\ work[s] = "answering"
  /\ work' = [work EXCEPT ![s] = "ended"]
  /\ requests' = [requests EXCEPT ![s[1]] = 0]
  /\ UNCHANGED <<server, rows, call, input, told, posts>>

\* OnNodeNotSelected reports nothing at all.
NotSelectedSilent(s) ==
  /\ work[s] = "running"
  /\ work' = [work EXCEPT ![s] = "ended"]
  /\ UNCHANGED <<server, rows, call, input, requests, told, posts>>

\* OnNodeNotSelected reports nothing unless the work is an ECDSA signing.
NotSelected(s) ==
  /\ work[s] = "running"
  /\ IsKeygen(s) \/ Algo[s[1]] = "ed"
  /\ work' = [work EXCEPT ![s] = "ended"]
  /\ UNCHANGED <<server, rows, call, input, requests, told, posts>>

OnWorkFailed(s) ==
  /\ work[s] = "running"
  /\ work' = [work EXCEPT ![s] = "ended"]
  /\ IF IsKeygen(s) THEN UNCHANGED posts ELSE Post(s)
  /\ UNCHANGED <<server, rows, call, input, requests, told>>

\* The engine reports no failure of a worker whose entry the end of another
\* submission has removed; that one has reported.
NotRegistered(s) ==
  /\ work[s] = "running"
  /\ \E o \in Others(s) : work[o] = "ended"
  /\ work' = [work EXCEPT ![s] = "dropped"]
  /\ UNCHANGED <<server, rows, call, input, requests, told, posts>>

Report(s) ==
  \/ SaveKeygen(s) \/ SaveKeygenFails(s) \/ OnWorkKeygenFinished(s)
  \/ OnWorkSigningFinished(s) \/ RemoveRequest(s)
  \/ NotSelected(s) \/ OnWorkFailed(s) \/ NotRegistered(s)

-----------------------------------------------------------------------------

Next ==
  \/ Start
  \/ Crash
  \/ SetPrivKey \/ InitConnectionManager
  \/ SetSisuReady
  \/ \E s \in Subs :
       \/ ExecuteWithoutInput(s)
       \/ Keygen(s) \/ Keysign(s) \/ KeysignReturns(s)
       \/ \E c, l \in Subs : KeygenOverwrites(s, c, l)
       \/ StartNextWork(s)
       \/ Report(s)

Spec == Init /\ [][Next]_vars

-----------------------------------------------------------------------------
(* Properties *)

\* A key Sisu is told of is the one in the database, also after crashes between
\* the save and the post, failed saves, and submissions that are repeated, of
\* which each makes a key of its own.
PostedKeyIsStored == \A s \in told : rows[s[1]] = s[2]

\* The result of a signing carries the request of the client, unless the worker
\* reported before Keysign stored the request, or Sisu submitted the work again.
RequestAttached == \A p \in posts : p.excused \/ p.request = p.sub[2]

Posted(s) == \E p \in posts : p.sub = s

\* The engine accounts for every submission of an ECDSA signing: one that comes to
\* its end was answered itself, also if the node was not selected; for one that
\* was refused or dropped another submission of the work was answered, or is in
\* the engine, or was lost from the queue.  EdDSA signings have no such guarantee.
EcAccountedFor ==
  \A s \in Subs :
    ~IsKeygen(s) /\ Algo[s[1]] = "ec" =>
      /\ work[s] \in {"answering", "ended"} => Posted(s)
      /\ work[s] \in {"refused", "dropped"} =>
           \E o \in Others(s) : work[o] \in {"queued", "running", "lost"} \/ Posted(o)

\* A heart that has accepted a work listens to its peers, whatever the order in
\* which SetPrivKey and SetSisuReady ran, unless the last SetSisuReady came before
\* SetPrivKey had made the engine.
AcceptedIsHeard == (\E s \in Subs : work[s] # "none") => listening \/ early

-----------------------------------------------------------------------------
(* What the invariants rest on *)

\* The key of a keygen about to be reported is in the database.
SavedInv ==
  /\ \A s \in Subs : work[s] = "saved" => IsKeygen(s) /\ rows[s[1]] = s[2]
  /\ \A s \in told : IsKeygen(s)

\* The map holds the request of a signing that was accepted and has not ended, if
\* its call has returned and the process has got no other submission of the work.
RequestInv ==
  /\ \A s \in Subs : work[s] # "none" => call[s] \in {"added", "returned"}
  /\ \A s \in Subs : work[s] = "answering" => ~IsKeygen(s)
  /\ \A s \in Subs :
       /\ ~IsKeygen(s) /\ work[s] \in {"queued", "running"} /\ call[s] = "returned"
       /\ \A t \in Others(s) : call[t] \notin {"added", "returned"}
       => requests[s[1]] = s[2]

\* Works are accepted only by a heart that Sisu has called ready, and that listens
\* or was called too early.
ListenInv ==
  /\ ready => listening \/ early
  /\ \A s \in Subs : work[s] # "none" => ready
=============================================================================
