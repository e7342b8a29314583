----------------------------- MODULE WebBackend -----------------------------
(***************************************************************************)
(* The server of experiments/disc_web: HTTP handler threads, the import    *)
(* and synchronisation workers they start, and the Device they share       *)
(* (server.py, device.py, imports.py, catalogue.py).                       *)
(*                                                                         *)
(* The DiscSession below it is seen through its generation, its readiness  *)
(* and its operation lease; DiscSession.tla is its model.  A worker is     *)
(* known by the id of the request that started it.  A lock that is taken   *)
(* without waiting is taken in one step with the checks that follow it,    *)
(* and a request that is turned away because it is locked changes nothing. *)
(***************************************************************************)
EXTENDS Naturals, FiniteSets, Sequences
LOCAL INSTANCE TLC

CONSTANTS Handlers, Ids, Targets,
          NoTarget,
          RequestBudget,        \* request ids remembered, 4096 in the code
          ThreadsMayFail,       \* whether a thread may fail to start
          MaxTries              \* bound: the session tries below this generation

ASSUME WebConstants ==
  /\ NoTarget \notin Targets
  /\ IsFiniteSet(Ids) /\ IsFiniteSet(Handlers)
  /\ RequestBudget \in Nat /\ ThreadsMayFail \in BOOLEAN /\ MaxTries \in Nat

VARIABLES
  target,       \* the player of the configuration
  owner,        \* sessions there have been before this one
  base, raw,    \* generation_base, and the session's own generation
  conn,         \* the session: "down", "connecting", "ready", "over" (exited)
  gate, lock,   \* Imports.gate and Device.lock are locked
  lease,        \* the session's operation lock is held
  requests,     \* request ids claimed
  job,          \* Imports.job
  syncing,      \* Catalogue.job: the player and generation it is for
  verified,     \* Catalogue.verified
  pc, req, gated,       \* handlers: position, request, whether they hold the gate
  wpc,          \* workers: position
  displays,     \* history: which connection each generation was shown for
  sent,         \* history: commands that left, in order
  touched,      \* history: an import or scan left since the last sync began
  attempted,    \* mutation_attempted of the import that has left
  overlapped    \* history: a read cleared it before the failed import reported

deviceVars == <<target, owner, base, raw, conn>>
lockVars == <<gate, lock, lease>>
jobVars == <<job, syncing, verified>>
handlerVars == <<pc, req, gated>>
sentVars == <<sent, attempted, overlapped>>
historyVars == <<displays, sentVars, touched>>
vars == <<deviceVars, lockVars, requests, jobVars, handlerVars, wpc, historyVars>>

Shown == base + raw                  \* the generation that browsers are shown
Here == [owner |-> owner, raw |-> raw]
Connections == [owner : Nat, raw : Nat]

Imports == {"upload", "scan"}
Pinned == Imports \cup {"sound"}     \* called with expected_generation
Commands == {"control", "sound", "disconnect"}
Posts == Imports \cup Commands \cup {"sync", "configure"}

\* What a browser sends: the generation it was shown, and for which
\* connection, which is not on the wire; for "configure" a new player.
Requests == [kind : Posts, id : Ids, gen : Nat, at : Connections,
             to : Targets]
NoRequest == [kind |-> "none"]

Jobs == [kind : Imports, id : Ids, gen : Nat, at : Connections,
         phase : {"receiving", "scanning", "sending", "done", "not_sent", "uncertain"}]
NoJob == [kind |-> "none"]
NoSync == [key |-> NoTarget, gen |-> 0]

TypeOK ==
  /\ target \in Targets /\ owner \in Nat
  /\ base \in Nat /\ raw \in Nat
  /\ conn \in {"down", "connecting", "ready", "over"}
  /\ gate \in BOOLEAN /\ lock \in BOOLEAN /\ lease \in BOOLEAN
  /\ requests \subseteq Ids /\ Cardinality(requests) <= RequestBudget
  /\ job \in Jobs \cup {NoJob}
  /\ syncing \in [key : Targets \cup {NoTarget}, gen : Nat]
  /\ verified \in [key : Targets \cup {NoTarget}, gen : Nat]
  /\ pc \in [Handlers -> {"idle", "claimed", "admitted", "checked", "staging",
                          "starting", "exiting", "exited", "swapped", "waiting",
                          "reading"}]
  /\ req \in [Handlers -> Requests \cup {NoRequest}]
  /\ gated \in [Handlers -> BOOLEAN]
  /\ wpc \in [Ids -> {"none", "start", "dispatch", "sent", "failed", "sync", "collect",
                      "published", "verified"}]
  /\ displays \subseteq [gen : Nat, at : Connections]
  /\ sent \in Seq([kind : Posts, id : Ids, seen : Connections, at : Connections])
  /\ touched \in BOOLEAN /\ attempted \in BOOLEAN /\ overlapped \in BOOLEAN

Init ==
  /\ target \in Targets /\ owner = 0 /\ base = 0 /\ raw = 0 /\ conn = "down"
  /\ gate = FALSE /\ lock = FALSE /\ lease = FALSE
  /\ requests = {} /\ job = NoJob /\ syncing = NoSync /\ verified = NoSync
  /\ pc = [h \in Handlers |-> "idle"] /\ req = [h \in Handlers |-> NoRequest]
  /\ gated = [h \in Handlers |-> FALSE] /\ wpc = [i \in Ids |-> "none"]
  /\ displays = {[gen |-> 0, at |-> Here]} /\ sent = <<>> /\ touched = FALSE
  /\ attempted = FALSE /\ overlapped = FALSE

Ready == conn = "ready"
Current(gen) == gen = Shown                       \* protocol_generation accepts
Display == displays' = displays \cup {[gen |-> Shown', at |-> Here']}

Works(i, position) == wpc[i] = position /\ job # NoJob

Goto(h, position) == pc' = [pc EXCEPT ![h] = position]
WorkerGoto(i, position) == wpc' = [wpc EXCEPT ![i] = position]

\* The handler replies: it keeps neither its request nor the gate.
Leave(h) ==
  /\ Goto(h, "idle") /\ req' = [req EXCEPT ![h] = NoRequest]
  /\ gated' = [gated EXCEPT ![h] = FALSE]
ReleaseGate(h) == gate' = (gate /\ ~gated[h])     \* the end of foreground()

Refuse(h) ==
  /\ ReleaseGate(h) /\ Leave(h)
  /\ UNCHANGED <<deviceVars, lock, lease, requests, jobVars, wpc, historyVars>>

----------------------------------------------------------------------------
(* The session under the device                                            *)

Session(move) ==
  /\ move /\ UNCHANGED <<target, owner, base>> /\ Display
  /\ UNCHANGED <<lockVars, requests, jobVars, handlerVars, wpc,
                 sentVars, touched>>

\* Its worker, once enabled, tries a connection; never over one in use.
SessionTries ==
  Session(conn = "down" /\ Shown < MaxTries /\ conn' = "connecting" /\ raw' = raw + 1)
SessionReady == Session(conn = "connecting" /\ ~lease /\ conn' = "ready" /\ raw' = raw)
SessionLost == Session(conn \in {"connecting", "ready"} /\ conn' = "down" /\ raw' = raw)

----------------------------------------------------------------------------
(* Requests (server.py)                                                    *)

\* Mutants: the budget is forgotten; the oldest id makes room for a new one.
Bug_Boundless(id) == id \notin requests /\ requests' = requests \cup {id}
Bug_Evicting(id) ==
  /\ id \notin requests
  /\ \/ Cardinality(requests) < RequestBudget /\ requests' = requests \cup {id}
     \/ /\ Cardinality(requests) = RequestBudget
        /\ \E old \in requests : requests' = (requests \ {old}) \cup {id}

claim(id) ==
  /\ id \notin requests /\ Cardinality(requests) < RequestBudget
  /\ requests' = requests \cup {id}

\* A browser posts what it was shown, however long ago; a request repeated
\* with a claimed id is turned away.
Post(h, kind, id) ==
  /\ pc[h] = "idle" /\ claim(id)
  /\ \E d \in displays, to \in IF kind = "configure" THEN Targets ELSE {target} :
       req' = [req EXCEPT ![h] = [kind |-> kind, id |-> id, gen |-> d.gen, at |-> d.at,
                                  to |-> to]]
  /\ Goto(h, "claimed")
  /\ UNCHANGED <<deviceVars, lockVars, jobVars, gated, wpc, historyVars>>

\* foreground(), reserve() and Catalogue.start() take the gate or give up.
Admit(h) ==
  /\ pc[h] = "claimed" /\ ~gate
  /\ gate' = TRUE /\ gated' = [gated EXCEPT ![h] = TRUE] /\ Goto(h, "admitted")
  /\ UNCHANGED <<deviceVars, lock, lease, requests, jobVars, req, wpc, historyVars>>

Turned(h) ==
  /\ \/ pc[h] = "claimed" /\ gate
     \/ pc[h] = "admitted" /\ lock /\ req[h].kind \notin {"sync"}
  /\ Refuse(h)

\* A read of the device (queue, cover, live rows).  A cached view is read
\* outside the gate, but reads the device when it finds no snapshot: when
\* the player was replaced after the handler had seen that there is one.
Read(h, through) ==
  /\ pc[h] = "idle" /\ ~lock /\ IF through THEN ~gate ELSE owner > 0
  /\ lock' = TRUE /\ gate' = (gate \/ through)
  /\ gated' = [gated EXCEPT ![h] = through] /\ Goto(h, "waiting")
  /\ UNCHANGED <<deviceVars, lease, requests, jobVars, req, wpc, historyVars>>

\* begin_operation() clears the flag of its client, which may be that of an
\* import that failed and has not looked at it yet (session.py:189, 314).
\* Other operations hold the gate, so that no import is under way.
Clears == \E i \in Ids : Works(i, "failed") /\ job.at = Here
ReadLease(h) ==
  /\ pc[h] = "waiting" /\ Ready /\ ~lease
  /\ lease' = TRUE /\ Goto(h, "reading")
  /\ attempted' = (attempted /\ ~Clears) /\ overlapped' = (overlapped \/ Clears)
  /\ UNCHANGED <<deviceVars, gate, lock, requests, jobVars, req, gated, wpc, displays,
                 sent, touched>>

\* The rows are read, or the session was not ready.
ReadEnds(h) ==
  /\ \/ pc[h] = "waiting" /\ ~Ready /\ UNCHANGED lease
     \/ pc[h] = "reading" /\ lease' = FALSE
  /\ lock' = FALSE /\ ReleaseGate(h) /\ Leave(h)
  /\ UNCHANGED <<deviceVars, requests, jobVars, wpc, historyVars>>

----------------------------------------------------------------------------
(* Commands and the choice of a player (device.py)                         *)

LockAndCheck(h, kinds, accepts, position) ==
  /\ pc[h] = "admitted" /\ req[h].kind \in kinds /\ ~lock
  /\ Current(req[h].gen) /\ accepts
  /\ lock' = TRUE /\ Goto(h, position)
  /\ UNCHANGED <<deviceVars, gate, lease, requests, jobVars, req, gated, wpc,
                 historyVars>>

Check(h) == LockAndCheck(h, Commands, req[h].kind # "disconnect" => Ready, "checked")
Configure(h) ==
  LockAndCheck(h, {"configure"}, TRUE,
               IF req[h].to = target THEN "swapped" ELSE "exiting")

\* The lock is taken, the request found outdated, and the lock released.
Outdated(h) ==
  /\ pc[h] = "admitted"
  /\ \/ ~Current(req[h].gen)
     \/ ~Ready /\ req[h].kind \notin {"disconnect", "configure"}
  /\ Refuse(h)

\* Mutant: any ready connection will do for any call.
Bug_Admits(kind, gen) == Ready

\* operation(): a pinned call wants the connection the browser was shown,
\* any other call whichever is ready now.
Admits(kind, gen) == Ready /\ (kind \in Pinned => Current(gen))

Leaves(kind, id, seen) ==
  sent' = Append(sent, [kind |-> kind, id |-> id, seen |-> seen, at |-> Here])

\* The whole call under its lease: the command leaves or it does not.
Call(h) ==
  /\ pc[h] = "checked" /\ req[h].kind # "disconnect" /\ ~lease
  /\ \/ Admits(req[h].kind, req[h].gen) /\ Leaves(req[h].kind, req[h].id, req[h].at)
     \/ UNCHANGED sent
  /\ lock' = FALSE /\ ReleaseGate(h) /\ Leave(h)
  /\ UNCHANGED <<deviceVars, lease, requests, jobVars, wpc, displays, attempted,
                 overlapped, touched>>

Disconnect(h) ==
  /\ pc[h] = "checked" /\ req[h].kind = "disconnect"
  /\ conn' = "down" /\ raw' = raw + 1 /\ UNCHANGED <<target, owner, base>> /\ Display
  /\ lock' = FALSE /\ ReleaseGate(h) /\ Leave(h)
  /\ UNCHANGED <<lease, requests, jobVars, wpc, sentVars, touched>>

\* configure(): the old session ends, then everything is replaced at once.
OldExits(h) ==
  /\ pc[h] = "exiting"
  /\ conn' = "over" /\ raw' = raw + 1 /\ UNCHANGED <<target, owner, base>> /\ Display
  /\ Goto(h, "exited")
  /\ UNCHANGED <<lockVars, requests, jobVars, req, gated, wpc, sentVars, touched>>

\* Mutant: the new session's generation 0 is the last one shown for the old.
Bug_NextBase == base + raw

NextBase == base + raw + 1
Swap(h) ==
  /\ pc[h] = "exited"
  /\ base' = NextBase /\ raw' = 0 /\ owner' = owner + 1 /\ conn' = "down"
  /\ target' = req[h].to /\ lease' = FALSE /\ Display /\ Goto(h, "swapped")
  /\ UNCHANGED <<gate, lock, requests, jobVars, req, gated, wpc, sentVars, touched>>

Reconfigured(h) ==
  /\ pc[h] = "swapped"
  /\ lock' = FALSE /\ job' = NoJob /\ ReleaseGate(h) /\ Leave(h)
  /\ UNCHANGED <<deviceVars, lease, requests, syncing, verified, wpc, historyVars>>

----------------------------------------------------------------------------
(* Uploads and scans (imports.py)                                          *)

reserve(h) ==
  /\ pc[h] = "admitted" /\ req[h].kind \in Imports
  /\ Ready /\ Current(req[h].gen) /\ ~lock
  /\ job' = [kind |-> req[h].kind, id |-> req[h].id, gen |-> req[h].gen, at |-> req[h].at,
             phase |-> IF req[h].kind = "upload" THEN "receiving" ELSE "scanning"]
  /\ Goto(h, IF req[h].kind = "upload" THEN "staging" ELSE "starting")
  /\ UNCHANGED <<deviceVars, lockVars, requests, syncing, verified, req, gated, wpc,
                 historyVars>>

\* The thread starts, and the gate is its own from here.
Start(h, position) ==
  /\ WorkerGoto(req[h].id, position) /\ Leave(h) /\ UNCHANGED <<gate, lock, lease>>

\* The whole body is on disk.
Staged(h) ==
  /\ pc[h] = "staging" /\ Start(h, "start")
  /\ job' = [job EXCEPT !.phase = "sending"]
  /\ UNCHANGED <<deviceVars, requests, syncing, verified, historyVars>>

\* Mutant: the gate is not released when the upload fails.
Bug_StagingFails(h) ==
  /\ pc[h] = "staging"
  /\ job' = [job EXCEPT !.phase = "not_sent"] /\ Leave(h)
  /\ UNCHANGED <<deviceVars, lockVars, requests, syncing, verified, wpc, historyVars>>

\* The body is short or late, the disk is full, or the thread cannot start.
StagingFails(h) ==
  /\ pc[h] = "staging"
  /\ job' = [job EXCEPT !.phase = "not_sent"] /\ ReleaseGate(h) /\ Leave(h)
  /\ UNCHANGED <<deviceVars, lock, lease, requests, syncing, verified, wpc, historyVars>>

ScanStarts(h) ==
  /\ pc[h] = "starting" /\ Start(h, "start")
  /\ UNCHANGED <<deviceVars, requests, jobVars, historyVars>>

\* scan() has no error path: the request ends and the gate stays locked.
ScanFailsToStart(h) ==
  /\ pc[h] = "starting" /\ ThreadsMayFail /\ Leave(h)
  /\ UNCHANGED <<deviceVars, lockVars, requests, jobVars, wpc, historyVars>>

\* run() ends: the phase is recorded and the gate released.
Ends(i, phase) ==
  /\ job' = [job EXCEPT !.phase = phase] /\ gate' = FALSE /\ WorkerGoto(i, "none")
  /\ UNCHANGED <<deviceVars, lock, requests, syncing, handlerVars, displays>>

\* Mutant: an upload or a scan leaves the library marked as verified.
Bug_Recheck(i) ==
  /\ Works(i, "start") /\ Current(job.gen) /\ Ready /\ WorkerGoto(i, "dispatch")
  /\ UNCHANGED <<deviceVars, lockVars, requests, jobVars, handlerVars, historyVars>>

\* Before anything else the worker looks at the connection again, and
\* declares the library unverified.
Recheck(i) ==
  /\ Works(i, "start")
  /\ \/ /\ ~Current(job.gen) \/ ~Ready
        /\ Ends(i, "not_sent") /\ UNCHANGED <<lease, verified, sentVars, touched>>
     \/ /\ Current(job.gen) /\ Ready
        /\ verified' = NoSync /\ WorkerGoto(i, "dispatch")
        /\ UNCHANGED <<deviceVars, lockVars, requests, job, syncing, handlerVars,
                       historyVars>>

Dispatch(i) ==
  /\ Works(i, "dispatch") /\ ~lease /\ Admits(job.kind, job.gen)
  /\ Leaves(job.kind, i, job.at) /\ touched' = TRUE
  /\ attempted' = TRUE /\ overlapped' = FALSE
  /\ lease' = TRUE /\ WorkerGoto(i, "sent")
  /\ UNCHANGED <<deviceVars, gate, lock, requests, jobVars, handlerVars, displays>>

\* An error of http.client is neither an OSError nor anything else that
\* _perform() and run() catch: the worker dies and the phase stays.
Dies(i) == job.kind = "upload" /\ Ends(i, job.phase)

\* Refused by protocol_generation, by the session, or before its send; the
\* staged file could not be written.
NotDispatched(i) ==
  /\ Works(i, "dispatch")
  /\ \/ Dies(i)
     \/ Ends(i, "not_sent")
     \/ (job.kind = "upload" \/ ~Current(job.gen)) /\ Ends(i, "uncertain")
  /\ UNCHANGED <<lease, verified, sentVars, touched>>

\* The call returns: confirmed, or over a connection that was lost meanwhile.
\* Its status is made under the lease.
Finish(i) ==
  /\ Works(i, "sent") /\ lease' = FALSE /\ attempted' = FALSE
  /\ \E phase \in {"done", "uncertain"} : Ends(i, phase)
  /\ UNCHANGED <<verified, sent, overlapped, touched>>

\* The call raises after its write: the lease ends first.
Fails(i) ==
  /\ Works(i, "sent") /\ lease' = FALSE /\ WorkerGoto(i, "failed")
  /\ UNCHANGED <<deviceVars, gate, lock, requests, jobVars, handlerVars, historyVars>>

\* Mutant: a command without a confirmation is reported as not sent.
Bug_Report(i) ==
  /\ Works(i, "failed") /\ attempted' = FALSE /\ Ends(i, "not_sent")
  /\ UNCHANGED <<lease, verified, sent, overlapped, touched>>

\* And then the handler reads the client's flag, as it is by now.
Report(i) ==
  /\ Works(i, "failed") /\ attempted' = FALSE
  /\ Dies(i) \/ Ends(i, IF attempted THEN "uncertain" ELSE "not_sent")
  /\ UNCHANGED <<lease, verified, sent, overlapped, touched>>

----------------------------------------------------------------------------
(* Synchronisation (catalogue.py)                                          *)

SyncBegins(h) ==
  /\ Current(req[h].gen) /\ Ready
  /\ verified' = NoSync /\ syncing' = [key |-> target, gen |-> req[h].gen]

SyncStart(h) ==
  /\ pc[h] = "admitted" /\ req[h].kind = "sync" /\ SyncBegins(h)
  /\ Start(h, "sync")
  /\ UNCHANGED <<deviceVars, requests, job, historyVars>>

SyncFailsToStart(h) ==
  /\ pc[h] = "admitted" /\ req[h].kind = "sync" /\ ThreadsMayFail /\ SyncBegins(h)
  /\ ReleaseGate(h) /\ Leave(h)
  /\ UNCHANGED <<deviceVars, lock, lease, requests, job, wpc, historyVars>>

SyncStep(i, from, to) ==
  /\ wpc[i] = from /\ WorkerGoto(i, to)
  /\ UNCHANGED <<deviceVars, requests, job, syncing, handlerVars, displays, sentVars>>

\* The lease, and with it the first read of the player's library.
SyncLease(i) ==
  /\ SyncStep(i, "sync", "collect") /\ Ready /\ Current(syncing.gen) /\ ~lease
  /\ lease' = TRUE /\ touched' = FALSE
  /\ UNCHANGED <<gate, lock, verified>>

\* Mutant: the display tokens are cleared inside the lease.
Bug_Publish(i) ==
  /\ SyncStep(i, "collect", "published") /\ Current(syncing.gen) /\ Ready
  /\ UNCHANGED <<lockVars, verified, touched>>

\* before_publish(), the snapshot, and the end of the lease.
Publish(i) ==
  /\ SyncStep(i, "collect", "published") /\ Current(syncing.gen) /\ Ready
  /\ lease' = FALSE
  /\ UNCHANGED <<gate, lock, verified, touched>>

Verify(i) ==
  /\ SyncStep(i, "published", "verified") /\ verified' = syncing
  /\ UNCHANGED <<lockVars, touched>>

\* The display tokens are cleared under the device's lock, waiting for it.
Clear(i) ==
  /\ SyncStep(i, "verified", "none") /\ ~lock /\ gate' = FALSE
  /\ UNCHANGED <<lock, lease, verified, touched>>

\* Refused, interrupted, timed out, or the storage failed.
SyncFails(i) ==
  /\ \E from \in {"sync", "collect"} :
       SyncStep(i, from, "none") /\ lease' = (lease /\ from = "sync")
  /\ gate' = FALSE
  /\ UNCHANGED <<lock, verified, touched>>

----------------------------------------------------------------------------
Next ==
  \/ SessionTries \/ SessionReady \/ SessionLost
  \/ \E h \in Handlers :
       \/ \E kind \in Posts, id \in Ids : Post(h, kind, id)
       \/ Admit(h) \/ Turned(h) \/ Outdated(h)
       \/ \E through \in BOOLEAN : Read(h, through)
       \/ ReadLease(h) \/ ReadEnds(h)
       \/ Check(h) \/ Call(h) \/ Disconnect(h)
       \/ Configure(h) \/ OldExits(h) \/ Swap(h) \/ Reconfigured(h)
       \/ reserve(h) \/ Staged(h) \/ StagingFails(h) \/ ScanStarts(h)
       \/ ScanFailsToStart(h) \/ SyncStart(h) \/ SyncFailsToStart(h)
  \/ \E i \in Ids :
       \/ Recheck(i) \/ Dispatch(i) \/ NotDispatched(i) \/ Finish(i) \/ Fails(i) \/ Report(i)
       \/ SyncLease(i) \/ Publish(i) \/ Verify(i) \/ Clear(i) \/ SyncFails(i)

Spec == Init /\ [][Next]_vars

\* Threads run, and every wait for the player ends: reads, uploads and scans
\* have deadlines.  The session itself need never connect.
HandlerRuns(h) ==
  \/ Admit(h) \/ Turned(h) \/ Outdated(h) \/ ReadLease(h) \/ ReadEnds(h)
  \/ Check(h) \/ Call(h) \/ Disconnect(h) \/ Configure(h) \/ OldExits(h) \/ Swap(h)
  \/ Reconfigured(h) \/ reserve(h) \/ Staged(h) \/ StagingFails(h)
  \/ ScanStarts(h) \/ ScanFailsToStart(h) \/ SyncStart(h) \/ SyncFailsToStart(h)
WorkerRuns(i) ==
  \/ Recheck(i) \/ Dispatch(i) \/ NotDispatched(i) \/ Finish(i) \/ Fails(i) \/ Report(i)
  \/ SyncLease(i) \/ Publish(i) \/ Verify(i) \/ Clear(i) \/ SyncFails(i)

FairSpec ==
  /\ Spec
  /\ \A h \in Handlers : WF_vars(HandlerRuns(h))
  /\ \A i \in Ids : WF_vars(WorkerRuns(i)) /\ SF_vars(Clear(i))

----------------------------------------------------------------------------
(* Properties                                                              *)

\* A generation that a browser was shown stands for one connection of one
\* player for ever, although each device switch starts a new session whose
\* own counter begins at 0 (device.py:115).
GenerationsNeverReused ==
  \A d, e \in displays : d.gen = e.gen => d.at = e.at

\* The gate, the device lock and the session's lease are each locked exactly
\* while one thread will release them: every early return, refusal, failed
\* upload and worker exit releases what it holds, once, and an import's gate
\* passes from its handler to its worker without a gap (imports.py, gate).
\* The exception: a scan whose thread could not be started leaves the gate
\* locked and nobody to release it.
GateHolders == {h \in Handlers : gated[h]} \cup {i \in Ids : wpc[i] # "none"}
LockHolders ==
  {h \in Handlers :
     pc[h] \in {"checked", "exiting", "exited", "swapped", "waiting", "reading"}}
LeaseHolders ==
  {h \in Handlers : pc[h] = "reading"} \cup {i \in Ids : wpc[i] \in {"sent", "collect"}}
HeldByOne(locked, holders) == Cardinality(holders) = IF locked THEN 1 ELSE 0
Stranded == ThreadsMayFail /\ gate /\ GateHolders = {} /\ job # NoJob /\ job.phase = "scanning"
LocksHaveOneHolder ==
  /\ HeldByOne(gate, GateHolders) \/ Stranded
  /\ HeldByOne(lock, LockHolders)
  /\ HeldByOne(lease, LeaseHolders)

\* A request leaves as a command at most once, however often and at whatever
\* time the browser or the network repeats it (server.py:196, claim).
SentAtMostOnce ==
  \A m, n \in 1 .. Len(sent) : sent[m].id = sent[n].id => m = n

\* Nothing is sent to another player than the browser showed, and an upload,
\* a scan or a sound setting not even over a later connection to it, because
\* no generation stands for two connections
\* (device.py:99, protocol_generation; session.py:544, operation).
SentWhereShown ==
  /\ GenerationsNeverReused
  /\ \A n \in 1 .. Len(sent) :
       /\ sent[n].at.owner = sent[n].seen.owner
       /\ sent[n].kind \in Pinned => sent[n].at = sent[n].seen

\* What the page says is true: the phase of the latest job about what left,
\* nothing for "not_sent", the command for "done" (imports.py:129), and a
\* library shown as fresh was read after the last upload or scan that this
\* server sent (catalogue.py:56; architecture.md "Upload/scan attempts
\* invalidate the local freshness marker").  The exception: a read on the
\* import's own connection, between the end of a failed import's lease and
\* its look at the flag, makes a possible write "not_sent" (session.py:314).
WasSent(id) == \E n \in 1 .. Len(sent) : sent[n].id = id
FreshIsUntouched == verified = [key |-> target, gen |-> Shown] /\ Ready => ~touched
PageIsHonest ==
  /\ job # NoJob => /\ job.phase = "not_sent" => ~WasSent(job.id) \/ overlapped
                    /\ job.phase = "done" => WasSent(job.id)
  /\ FreshIsUntouched

\* Whoever holds the gate gives it up: an import, a scan, a synchronisation
\* or a switch of players never locks the server for good.
GateIsFreed == (GateHolders # {}) ~> (GateHolders = {})

\* A request turned away because another operation is in progress is told
\* the truth (imports.py:41): there is one that will end.
BusyIsTrue == gate => GateHolders # {}


\* Names of the same kind are interchangeable.
Symmetry == Permutations(Handlers) \cup Permutations(Ids) \cup Permutations(Targets)
============================================================================
