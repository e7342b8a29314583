-------------------------- MODULE WebBackendProofs --------------------------
(***************************************************************************)
(* Proofs about WebBackend for any sets of handlers, request ids and       *)
(* players, any budget of ids and threads that may fail to start.          *)
(***************************************************************************)
EXTENDS WebBackend, FiniteSetTheorems, TLAPS

Positions == {"idle", "claimed", "admitted", "checked", "staging", "starting", "exiting",
              "exited", "swapped", "waiting", "reading"}
WorkerPositions == {"none", "start", "dispatch", "sent", "failed", "sync", "collect",
                    "published", "verified"}
Locking == {"checked", "exiting", "exited", "swapped", "waiting", "reading"}
Gated == {"admitted", "checked", "exiting", "exited", "swapped", "staging", "starting"}
Requesting == Gated \cup {"claimed"}
Leasing == {"sent", "collect"}

\* Whether a handler has a request, and the gate, at its position.
HandlerInv ==
  \A h \in Handlers :
    /\ pc[h] \in Requesting => req[h] \in Requests
    /\ pc[h] \notin Requesting => req[h] = NoRequest
    /\ pc[h] \in Gated => gated[h]
    /\ pc[h] \in {"idle", "claimed"} => ~gated[h]

\* No two threads hold the gate, and a gate that nobody holds is open, except
\* after a scan whose thread could not start.
GateInv ==
  /\ \A h, k \in Handlers : gated[h] /\ gated[k] => h = k
  /\ \A i, j \in Ids : wpc[i] # "none" /\ wpc[j] # "none" => i = j
  /\ \A h \in Handlers, i \in Ids : ~(gated[h] /\ wpc[i] # "none")
  /\ ~gate => (\A h \in Handlers : ~gated[h]) /\ (\A i \in Ids : wpc[i] = "none")
  /\ \/ ~gate \/ (\E h \in Handlers : gated[h]) \/ (\E i \in Ids : wpc[i] # "none")
     \/ ThreadsMayFail /\ job # NoJob /\ job.phase = "scanning"

LockInv ==
  /\ \A h, k \in Handlers : pc[h] \in Locking /\ pc[k] \in Locking => h = k
  /\ lock <=> \E h \in Handlers : pc[h] \in Locking

\* Readers hold the device's lock as well, so two of them are excluded by it.
LeaseInv ==
  /\ \A h \in Handlers, i \in Ids : ~(pc[h] = "reading" /\ wpc[i] \in Leasing)
  /\ lease <=> (\E h \in Handlers : pc[h] = "reading") \/ (\E i \in Ids : wpc[i] \in Leasing)

\* An id is in one place: a handler's request, a worker that has not sent it
\* yet, or a command that left.
IdInv ==
  /\ \A h \in Handlers : pc[h] \in Requesting =>
       /\ req[h].id \in requests /\ wpc[req[h].id] = "none" /\ ~WasSent(req[h].id)
       /\ \A k \in Handlers : pc[k] \in Requesting /\ req[h].id = req[k].id => h = k
  /\ \A i \in Ids : /\ wpc[i] # "none" => i \in requests
                    /\ wpc[i] \in {"start", "dispatch"} => ~WasSent(i)
                    /\ wpc[i] \in {"sent", "failed"} => WasSent(i)
  /\ \A n \in 1 .. Len(sent) : sent[n].id \in requests

\* The job is that of the handler that stages it or the worker that runs it.
JobInv ==
  /\ job # NoJob => job.id \in requests
  /\ \A h \in Handlers :
       /\ pc[h] = "staging" => job # NoJob /\ job.id = req[h].id /\ job.phase = "receiving"
       /\ pc[h] = "starting" => job # NoJob /\ job.id = req[h].id /\ job.phase = "scanning"
       /\ job # NoJob /\ pc[h] \in Requesting /\ req[h].id = job.id => pc[h] \in {"staging", "starting"}
  /\ \A i \in Ids : wpc[i] \in {"start", "dispatch", "sent", "failed"} =>
       job # NoJob /\ job.id = i /\ job.phase \in {"sending", "scanning"}
  /\ \A i \in Ids : wpc[i] \in {"sent", "failed"} => attempted \/ overlapped
  /\ job # NoJob /\ job.phase = "not_sent" => ~WasSent(job.id) \/ overlapped
  /\ job # NoJob /\ job.phase = "done" => WasSent(job.id)

\* Generations grow with every connection that is shown.
ShownInv ==
  /\ [gen |-> Shown, at |-> Here] \in displays
  /\ \A d \in displays : d.gen <= Shown /\ (d.gen = Shown => d.at = Here)
  /\ GenerationsNeverReused

\* What a request or a job names was shown; a command that passed its check is
\* for the present player, which nobody replaces while it holds the lock.
NamedInv ==
  /\ \A h \in Handlers :
       /\ pc[h] \in Requesting => [gen |-> req[h].gen, at |-> req[h].at] \in displays
       /\ pc[h] = "checked" => req[h].at.owner = owner
  /\ job # NoJob => [gen |-> job.gen, at |-> job.at] \in displays

SentInv ==
  \A n \in 1 .. Len(sent) : /\ sent[n].at.owner = sent[n].seen.owner
                            /\ sent[n].kind \in Pinned => sent[n].at = sent[n].seen

\* The library is declared unverified before anything is sent to it.
FreshInv ==
  /\ touched => verified = NoSync
  /\ \A i \in Ids : /\ wpc[i] = "dispatch" => verified = NoSync
                    /\ wpc[i] \in {"collect", "published"} => ~touched

IInv == /\ TypeOK /\ HandlerInv /\ GateInv /\ LockInv /\ LeaseInv /\ IdInv /\ SentAtMostOnce
        /\ JobInv /\ ShownInv /\ NamedInv /\ SentInv /\ FreshInv
(* lemmas *)
----------------------------------------------------------------------------
(* Requests, the gate, the lock and the lease                              *)

\* A request names a generation and a connection that were shown together.
LEMMA PostRequest ==
  ASSUME IInv, NEW h \in Handlers, NEW kind \in Posts, NEW id \in Ids, Post(h, kind, id)
  PROVE  \E r \in Requests : /\ r.id = id /\ req' = [req EXCEPT ![h] = r]
                             /\ [gen |-> r.gen, at |-> r.at] \in displays
<1>1. target \in Targets /\ displays \subseteq [gen : Nat, at : Connections]
  BY DEF IInv, TypeOK
<1>2. PICK d \in displays, to \in Targets :
        req' = [req EXCEPT ![h] = [kind |-> kind, id |-> id, gen |-> d.gen, at |-> d.at, to |-> to]]
  BY <1>1 DEF Post
<1>3. [kind |-> kind, id |-> id, gen |-> d.gen, at |-> d.at, to |-> to] \in Requests
  BY <1>1 DEF Requests
<1>4. [gen |-> d.gen, at |-> d.at] = d
  BY <1>1
<1> QED
  BY <1>2, <1>3, <1>4

\* A new phase changes nothing else of a job.
LEMMA JobPhase ==
  ASSUME NEW j \in Jobs, NEW phase
  PROVE  LET k == [j EXCEPT !.phase = phase]
         IN k # NoJob /\ k.kind = j.kind /\ k.id = j.id /\ k.gen = j.gen /\ k.at = j.at /\ k.phase = phase
BY DEF Jobs, NoJob, Imports

\* A handler has its request and the gate exactly where it says so.
LEMMA HandlerStep == IInv /\ [Next]_vars => HandlerInv'
<1> SUFFICES ASSUME IInv, [Next]_vars PROVE HandlerInv'
  OBVIOUS
<1> USE DEF HandlerInv, Gated, Requesting, deviceVars, lockVars, jobVars, handlerVars,
           historyVars, sentVars, Goto, WorkerGoto, Leave, ReleaseGate, Refuse, Start, Session,
           LockAndCheck, Ends, SyncBegins, SyncStep, Works
<1>t. /\ pc \in [Handlers -> Positions] /\ wpc \in [Ids -> WorkerPositions]
      /\ req \in [Handlers -> Requests \cup {NoRequest}] /\ gated \in [Handlers -> BOOLEAN]
  BY DEF IInv, TypeOK, Positions, WorkerPositions
<1>r. \A h \in Handlers : pc[h] \in Gated \cup {"claimed"} => req[h].id \in Ids /\ req[h].kind \in Posts
  BY DEF IInv, HandlerInv, Requesting, Requests
<1>i. HandlerInv
  BY DEF IInv
<1>1. CASE SessionTries
  BY <1>1, <1>t, <1>i DEF SessionTries
<1>2. CASE SessionReady
  BY <1>2, <1>t, <1>i DEF SessionReady
<1>3. CASE SessionLost
  BY <1>3, <1>t, <1>i DEF SessionLost
<1>4. ASSUME NEW h \in Handlers, NEW kind \in Posts, NEW id \in Ids, Post(h, kind, id)
      PROVE  HandlerInv'
  <2>1. PICK r \in Requests : req' = [req EXCEPT ![h] = r]
    BY <1>4, PostRequest
  <2> QED
    BY <1>4, <1>t, <1>i, <2>1 DEF Post
<1>5. ASSUME NEW h \in Handlers, NEW through \in BOOLEAN, Read(h, through) PROVE HandlerInv'
  BY <1>5, <1>t, <1>i DEF Read
<1>6. ASSUME NEW h \in Handlers, Admit(h) PROVE HandlerInv'
  BY <1>6, <1>t, <1>i DEF Admit
<1>7. ASSUME NEW h \in Handlers, Turned(h) PROVE HandlerInv'
  BY <1>7, <1>t, <1>i DEF Turned
<1>8. ASSUME NEW h \in Handlers, Outdated(h) PROVE HandlerInv'
  BY <1>8, <1>t, <1>i DEF Outdated
<1>9. ASSUME NEW h \in Handlers, ReadLease(h) PROVE HandlerInv'
  BY <1>9, <1>t, <1>i DEF ReadLease
<1>10. ASSUME NEW h \in Handlers, ReadEnds(h) PROVE HandlerInv'
  BY <1>10, <1>t, <1>i DEF ReadEnds
<1>11. ASSUME NEW h \in Handlers, Check(h) PROVE HandlerInv'
  BY <1>11, <1>t, <1>i DEF Check
<1>12. ASSUME NEW h \in Handlers, Call(h) PROVE HandlerInv'
  BY <1>12, <1>t, <1>i DEF Call
<1>13. ASSUME NEW h \in Handlers, Disconnect(h) PROVE HandlerInv'
  BY <1>13, <1>t, <1>i DEF Disconnect
<1>14. ASSUME NEW h \in Handlers, Configure(h) PROVE HandlerInv'
  BY <1>14, <1>t, <1>i DEF Configure
<1>15. ASSUME NEW h \in Handlers, OldExits(h) PROVE HandlerInv'
  BY <1>15, <1>t, <1>i DEF OldExits
<1>16. ASSUME NEW h \in Handlers, Swap(h) PROVE HandlerInv'
  BY <1>16, <1>t, <1>i DEF Swap
<1>17. ASSUME NEW h \in Handlers, Reconfigured(h) PROVE HandlerInv'
  BY <1>17, <1>t, <1>i DEF Reconfigured
<1>18. ASSUME NEW h \in Handlers, reserve(h) PROVE HandlerInv'
  BY <1>18, <1>t, <1>i DEF reserve
<1>19. ASSUME NEW h \in Handlers, Staged(h) PROVE HandlerInv'
  BY <1>19, <1>t, <1>i DEF Staged
<1>20. ASSUME NEW h \in Handlers, StagingFails(h) PROVE HandlerInv'
  BY <1>20, <1>t, <1>i DEF StagingFails
<1>21. ASSUME NEW h \in Handlers, ScanStarts(h) PROVE HandlerInv'
  BY <1>21, <1>t, <1>i DEF ScanStarts
<1>22. ASSUME NEW h \in Handlers, ScanFailsToStart(h) PROVE HandlerInv'
  BY <1>22, <1>t, <1>i DEF ScanFailsToStart
<1>23. ASSUME NEW h \in Handlers, SyncStart(h) PROVE HandlerInv'
  BY <1>23, <1>t, <1>i DEF SyncStart
<1>24. ASSUME NEW h \in Handlers, SyncFailsToStart(h) PROVE HandlerInv'
  BY <1>24, <1>t, <1>i DEF SyncFailsToStart
<1>25. ASSUME NEW i \in Ids, Recheck(i) PROVE HandlerInv'
  BY <1>25, <1>t, <1>i DEF Recheck
<1>26. ASSUME NEW i \in Ids, Dispatch(i) PROVE HandlerInv'
  BY <1>26, <1>t, <1>i DEF Dispatch
<1>27. ASSUME NEW i \in Ids, NotDispatched(i) PROVE HandlerInv'
  BY <1>27, <1>t, <1>i DEF NotDispatched, Dies
<1>28. ASSUME NEW i \in Ids, Finish(i) PROVE HandlerInv'
  BY <1>28, <1>t, <1>i DEF Finish
<1>29. ASSUME NEW i \in Ids, Fails(i) PROVE HandlerInv'
  BY <1>29, <1>t, <1>i DEF Fails
<1>30. ASSUME NEW i \in Ids, Report(i) PROVE HandlerInv'
  BY <1>30, <1>t, <1>i DEF Report, Dies
<1>31. ASSUME NEW i \in Ids, SyncLease(i) PROVE HandlerInv'
  BY <1>31, <1>t, <1>i DEF SyncLease
<1>32. ASSUME NEW i \in Ids, Publish(i) PROVE HandlerInv'
  BY <1>32, <1>t, <1>i DEF Publish
<1>33. ASSUME NEW i \in Ids, Verify(i) PROVE HandlerInv'
  BY <1>33, <1>t, <1>i DEF Verify
<1>34. ASSUME NEW i \in Ids, Clear(i) PROVE HandlerInv'
  BY <1>34, <1>t, <1>i DEF Clear
<1>35. ASSUME NEW i \in Ids, SyncFails(i) PROVE HandlerInv'
  BY <1>35, <1>t, <1>i DEF SyncFails
<1>36. CASE UNCHANGED vars
  BY <1>36, <1>t, <1>i DEF vars
<1> QED
  BY <1>1, <1>2, <1>3, <1>4, <1>5, <1>6, <1>7, <1>8, <1>9, <1>10, <1>11, <1>12,
     <1>13, <1>14, <1>15, <1>16, <1>17, <1>18, <1>19, <1>20, <1>21, <1>22, <1>23,
     <1>24, <1>25, <1>26, <1>27, <1>28, <1>29, <1>30, <1>31, <1>32, <1>33, <1>34,
     <1>35, <1>36 DEF Next

\* The gate passes from a thread to the next and is never lost, except as Stranded says.
LEMMA GateStep == IInv /\ [Next]_vars => GateInv'
<1> SUFFICES ASSUME IInv, [Next]_vars PROVE GateInv'
  OBVIOUS
<1> USE DEF HandlerInv, GateInv, Gated, Requesting, deviceVars, lockVars, jobVars,
           handlerVars, historyVars, sentVars, Goto, WorkerGoto, Leave, ReleaseGate, Refuse, Start,
           Session, LockAndCheck, Ends, SyncBegins, SyncStep, Works
<1>t. /\ pc \in [Handlers -> Positions] /\ wpc \in [Ids -> WorkerPositions]
      /\ req \in [Handlers -> Requests \cup {NoRequest}] /\ gated \in [Handlers -> BOOLEAN]
  BY DEF IInv, TypeOK, Positions, WorkerPositions
<1>r. \A h \in Handlers : pc[h] \in Gated \cup {"claimed"} => req[h].id \in Ids /\ req[h].kind \in Posts
  BY DEF IInv, HandlerInv, Requesting, Requests
<1>i. HandlerInv /\ GateInv
  BY DEF IInv
<1>1. CASE SessionTries
  BY <1>1, <1>t, <1>i, <1>r DEF SessionTries
<1>2. CASE SessionReady
  BY <1>2, <1>t, <1>i, <1>r DEF SessionReady
<1>3. CASE SessionLost
  BY <1>3, <1>t, <1>i, <1>r DEF SessionLost
<1>4. ASSUME NEW h \in Handlers, NEW kind \in Posts, NEW id \in Ids, Post(h, kind, id)
      PROVE  GateInv'
  BY <1>4, <1>t, <1>i, <1>r DEF Post
<1>5. ASSUME NEW h \in Handlers, NEW through \in BOOLEAN, Read(h, through) PROVE GateInv'
  BY <1>5, <1>t, <1>i, <1>r DEF Read
<1>6. ASSUME NEW h \in Handlers, Admit(h) PROVE GateInv'
  BY <1>6, <1>t, <1>i, <1>r DEF Admit
<1>7. ASSUME NEW h \in Handlers, Turned(h) PROVE GateInv'
  BY <1>7, <1>t, <1>i, <1>r DEF Turned
<1>8. ASSUME NEW h \in Handlers, Outdated(h) PROVE GateInv'
  BY <1>8, <1>t, <1>i, <1>r DEF Outdated
<1>9. ASSUME NEW h \in Handlers, ReadLease(h) PROVE GateInv'
  BY <1>9, <1>t, <1>i, <1>r DEF ReadLease
<1>10. ASSUME NEW h \in Handlers, ReadEnds(h) PROVE GateInv'
  BY <1>10, <1>t, <1>i, <1>r DEF ReadEnds
<1>11. ASSUME NEW h \in Handlers, Check(h) PROVE GateInv'
  BY <1>11, <1>t, <1>i, <1>r DEF Check
<1>12. ASSUME NEW h \in Handlers, Call(h) PROVE GateInv'
  BY <1>12, <1>t, <1>i, <1>r DEF Call
<1>13. ASSUME NEW h \in Handlers, Disconnect(h) PROVE GateInv'
  BY <1>13, <1>t, <1>i, <1>r DEF Disconnect
<1>14. ASSUME NEW h \in Handlers, Configure(h) PROVE GateInv'
  BY <1>14, <1>t, <1>i, <1>r DEF Configure
<1>15. ASSUME NEW h \in Handlers, OldExits(h) PROVE GateInv'
  BY <1>15, <1>t, <1>i, <1>r DEF OldExits
<1>16. ASSUME NEW h \in Handlers, Swap(h) PROVE GateInv'
  BY <1>16, <1>t, <1>i, <1>r DEF Swap
<1>17. ASSUME NEW h \in Handlers, Reconfigured(h) PROVE GateInv'
  BY <1>17, <1>t, <1>i, <1>r DEF Reconfigured
<1>18. ASSUME NEW h \in Handlers, reserve(h) PROVE GateInv'
  BY <1>18, <1>t, <1>i, <1>r DEF reserve
<1>19. ASSUME NEW h \in Handlers, Staged(h) PROVE GateInv'
  BY <1>19, <1>t, <1>i, <1>r DEF Staged
<1>20. ASSUME NEW h \in Handlers, StagingFails(h) PROVE GateInv'
  BY <1>20, <1>t, <1>i, <1>r DEF StagingFails
<1>21. ASSUME NEW h \in Handlers, ScanStarts(h) PROVE GateInv'
  BY <1>21, <1>t, <1>i, <1>r DEF ScanStarts
<1>22. ASSUME NEW h \in Handlers, ScanFailsToStart(h) PROVE GateInv'
  BY <1>22, <1>t, <1>i DEF ScanFailsToStart, IInv, JobInv
<1>23. ASSUME NEW h \in Handlers, SyncStart(h) PROVE GateInv'
  BY <1>23, <1>t, <1>i, <1>r DEF SyncStart
<1>24. ASSUME NEW h \in Handlers, SyncFailsToStart(h) PROVE GateInv'
  BY <1>24, <1>t, <1>i, <1>r DEF SyncFailsToStart
<1>25. ASSUME NEW i \in Ids, Recheck(i) PROVE GateInv'
  BY <1>25, <1>t, <1>i, <1>r DEF Recheck
<1>26. ASSUME NEW i \in Ids, Dispatch(i) PROVE GateInv'
  BY <1>26, <1>t, <1>i, <1>r DEF Dispatch
<1>27. ASSUME NEW i \in Ids, NotDispatched(i) PROVE GateInv'
  BY <1>27, <1>t, <1>i, <1>r DEF NotDispatched, Dies
<1>28. ASSUME NEW i \in Ids, Finish(i) PROVE GateInv'
  BY <1>28, <1>t, <1>i, <1>r DEF Finish
<1>29. ASSUME NEW i \in Ids, Fails(i) PROVE GateInv'
  BY <1>29, <1>t, <1>i, <1>r DEF Fails
<1>30. ASSUME NEW i \in Ids, Report(i) PROVE GateInv'
  BY <1>30, <1>t, <1>i, <1>r DEF Report, Dies
<1>31. ASSUME NEW i \in Ids, SyncLease(i) PROVE GateInv'
  BY <1>31, <1>t, <1>i, <1>r DEF SyncLease
<1>32. ASSUME NEW i \in Ids, Publish(i) PROVE GateInv'
  BY <1>32, <1>t, <1>i, <1>r DEF Publish
<1>33. ASSUME NEW i \in Ids, Verify(i) PROVE GateInv'
  BY <1>33, <1>t, <1>i, <1>r DEF Verify
<1>34. ASSUME NEW i \in Ids, Clear(i) PROVE GateInv'
  BY <1>34, <1>t, <1>i, <1>r DEF Clear
<1>35. ASSUME NEW i \in Ids, SyncFails(i) PROVE GateInv'
  BY <1>35, <1>t, <1>i, <1>r DEF SyncFails
<1>36. CASE UNCHANGED vars
  BY <1>36, <1>t, <1>i, <1>r DEF vars
<1> QED
  BY <1>1, <1>2, <1>3, <1>4, <1>5, <1>6, <1>7, <1>8, <1>9, <1>10, <1>11, <1>12,
     <1>13, <1>14, <1>15, <1>16, <1>17, <1>18, <1>19, <1>20, <1>21, <1>22, <1>23,
     <1>24, <1>25, <1>26, <1>27, <1>28, <1>29, <1>30, <1>31, <1>32, <1>33, <1>34,
     <1>35, <1>36 DEF Next

\* The device's lock has one owner.
LEMMA LockStep == IInv /\ [Next]_vars => LockInv'
<1> SUFFICES ASSUME IInv, [Next]_vars PROVE LockInv'
  OBVIOUS
<1> USE DEF LockInv, Locking, deviceVars, lockVars, jobVars, handlerVars, historyVars, sentVars, Goto,
           WorkerGoto, Leave, ReleaseGate, Refuse, Start, Session, LockAndCheck, Ends,
           SyncBegins, SyncStep, Works
<1>t. /\ pc \in [Handlers -> Positions] /\ wpc \in [Ids -> WorkerPositions]
      /\ req \in [Handlers -> Requests \cup {NoRequest}] /\ gated \in [Handlers -> BOOLEAN]
  BY DEF IInv, TypeOK, Positions, WorkerPositions
<1>r. \A h \in Handlers : pc[h] \in Gated \cup {"claimed"} => req[h].id \in Ids /\ req[h].kind \in Posts
  BY DEF IInv, HandlerInv, Requesting, Requests
<1>i. LockInv
  BY DEF IInv
<1>1. CASE SessionTries
  BY <1>1, <1>t, <1>i DEF SessionTries
<1>2. CASE SessionReady
  BY <1>2, <1>t, <1>i DEF SessionReady
<1>3. CASE SessionLost
  BY <1>3, <1>t, <1>i DEF SessionLost
<1>4. ASSUME NEW h \in Handlers, NEW kind \in Posts, NEW id \in Ids, Post(h, kind, id)
      PROVE  LockInv'
  BY <1>4, <1>t, <1>i DEF Post
<1>5. ASSUME NEW h \in Handlers, NEW through \in BOOLEAN, Read(h, through) PROVE LockInv'
  BY <1>5, <1>t, <1>i DEF Read
<1>6. ASSUME NEW h \in Handlers, Admit(h) PROVE LockInv'
  BY <1>6, <1>t, <1>i DEF Admit
<1>7. ASSUME NEW h \in Handlers, Turned(h) PROVE LockInv'
  BY <1>7, <1>t, <1>i DEF Turned
<1>8. ASSUME NEW h \in Handlers, Outdated(h) PROVE LockInv'
  BY <1>8, <1>t, <1>i DEF Outdated
<1>9. ASSUME NEW h \in Handlers, ReadLease(h) PROVE LockInv'
  BY <1>9, <1>t, <1>i DEF ReadLease
<1>10. ASSUME NEW h \in Handlers, ReadEnds(h) PROVE LockInv'
  BY <1>10, <1>t, <1>i DEF ReadEnds
<1>11. ASSUME NEW h \in Handlers, Check(h) PROVE LockInv'
  BY <1>11, <1>t, <1>i DEF Check
<1>12. ASSUME NEW h \in Handlers, Call(h) PROVE LockInv'
  BY <1>12, <1>t, <1>i DEF Call
<1>13. ASSUME NEW h \in Handlers, Disconnect(h) PROVE LockInv'
  BY <1>13, <1>t, <1>i DEF Disconnect
<1>14. ASSUME NEW h \in Handlers, Configure(h) PROVE LockInv'
  BY <1>14, <1>t, <1>i DEF Configure
<1>15. ASSUME NEW h \in Handlers, OldExits(h) PROVE LockInv'
  BY <1>15, <1>t, <1>i DEF OldExits
<1>16. ASSUME NEW h \in Handlers, Swap(h) PROVE LockInv'
  BY <1>16, <1>t, <1>i DEF Swap
<1>17. ASSUME NEW h \in Handlers, Reconfigured(h) PROVE LockInv'
  BY <1>17, <1>t, <1>i DEF Reconfigured
<1>18. ASSUME NEW h \in Handlers, reserve(h) PROVE LockInv'
  BY <1>18, <1>t, <1>i DEF reserve
<1>19. ASSUME NEW h \in Handlers, Staged(h) PROVE LockInv'
  BY <1>19, <1>t, <1>i DEF Staged
<1>20. ASSUME NEW h \in Handlers, StagingFails(h) PROVE LockInv'
  BY <1>20, <1>t, <1>i DEF StagingFails
<1>21. ASSUME NEW h \in Handlers, ScanStarts(h) PROVE LockInv'
  BY <1>21, <1>t, <1>i DEF ScanStarts
<1>22. ASSUME NEW h \in Handlers, ScanFailsToStart(h) PROVE LockInv'
  BY <1>22, <1>t, <1>i DEF ScanFailsToStart
<1>23. ASSUME NEW h \in Handlers, SyncStart(h) PROVE LockInv'
  BY <1>23, <1>t, <1>i DEF SyncStart
<1>24. ASSUME NEW h \in Handlers, SyncFailsToStart(h) PROVE LockInv'
  BY <1>24, <1>t, <1>i DEF SyncFailsToStart
<1>25. ASSUME NEW i \in Ids, Recheck(i) PROVE LockInv'
  BY <1>25, <1>t, <1>i DEF Recheck
<1>26. ASSUME NEW i \in Ids, Dispatch(i) PROVE LockInv'
  BY <1>26, <1>t, <1>i DEF Dispatch
<1>27. ASSUME NEW i \in Ids, NotDispatched(i) PROVE LockInv'
  BY <1>27, <1>t, <1>i DEF NotDispatched, Dies
<1>28. ASSUME NEW i \in Ids, Finish(i) PROVE LockInv'
  BY <1>28, <1>t, <1>i DEF Finish
<1>29. ASSUME NEW i \in Ids, Fails(i) PROVE LockInv'
  BY <1>29, <1>t, <1>i DEF Fails
<1>30. ASSUME NEW i \in Ids, Report(i) PROVE LockInv'
  BY <1>30, <1>t, <1>i DEF Report, Dies
<1>31. ASSUME NEW i \in Ids, SyncLease(i) PROVE LockInv'
  BY <1>31, <1>t, <1>i DEF SyncLease
<1>32. ASSUME NEW i \in Ids, Publish(i) PROVE LockInv'
  BY <1>32, <1>t, <1>i DEF Publish
<1>33. ASSUME NEW i \in Ids, Verify(i) PROVE LockInv'
  BY <1>33, <1>t, <1>i DEF Verify
<1>34. ASSUME NEW i \in Ids, Clear(i) PROVE LockInv'
  BY <1>34, <1>t, <1>i DEF Clear
<1>35. ASSUME NEW i \in Ids, SyncFails(i) PROVE LockInv'
  BY <1>35, <1>t, <1>i DEF SyncFails
<1>36. CASE UNCHANGED vars
  BY <1>36, <1>t, <1>i DEF vars
<1> QED
  BY <1>1, <1>2, <1>3, <1>4, <1>5, <1>6, <1>7, <1>8, <1>9, <1>10, <1>11, <1>12,
     <1>13, <1>14, <1>15, <1>16, <1>17, <1>18, <1>19, <1>20, <1>21, <1>22, <1>23,
     <1>24, <1>25, <1>26, <1>27, <1>28, <1>29, <1>30, <1>31, <1>32, <1>33, <1>34,
     <1>35, <1>36 DEF Next

\* The session's lease has one holder, and a switch of players finds none.
LEMMA LeaseStep == IInv /\ [Next]_vars => LeaseInv'
<1> SUFFICES ASSUME IInv, [Next]_vars PROVE LeaseInv'
  OBVIOUS
<1> USE DEF HandlerInv, GateInv, LockInv, LeaseInv, Gated, Requesting, Locking, Leasing,
           deviceVars, lockVars, jobVars, handlerVars, historyVars, sentVars, Goto, WorkerGoto, Leave,
           ReleaseGate, Refuse, Start, Session, LockAndCheck, Ends, SyncBegins, SyncStep,
           Works
<1>t. /\ pc \in [Handlers -> Positions] /\ wpc \in [Ids -> WorkerPositions]
      /\ req \in [Handlers -> Requests \cup {NoRequest}] /\ gated \in [Handlers -> BOOLEAN]
  BY DEF IInv, TypeOK, Positions, WorkerPositions
<1>r. \A h \in Handlers : pc[h] \in Gated \cup {"claimed"} => req[h].id \in Ids /\ req[h].kind \in Posts
  BY DEF IInv, HandlerInv, Requesting, Requests
<1>i. HandlerInv /\ GateInv /\ LockInv /\ LeaseInv
  BY DEF IInv
<1>1. CASE SessionTries
  BY <1>1, <1>t, <1>i DEF SessionTries
<1>2. CASE SessionReady
  BY <1>2, <1>t, <1>i DEF SessionReady
<1>3. CASE SessionLost
  BY <1>3, <1>t, <1>i DEF SessionLost
<1>4. ASSUME NEW h \in Handlers, NEW kind \in Posts, NEW id \in Ids, Post(h, kind, id)
      PROVE  LeaseInv'
  BY <1>4, <1>t, <1>i DEF Post
<1>5. ASSUME NEW h \in Handlers, NEW through \in BOOLEAN, Read(h, through) PROVE LeaseInv'
  BY <1>5, <1>t, <1>i DEF Read
<1>6. ASSUME NEW h \in Handlers, Admit(h) PROVE LeaseInv'
  BY <1>6, <1>t, <1>i DEF Admit
<1>7. ASSUME NEW h \in Handlers, Turned(h) PROVE LeaseInv'
  BY <1>7, <1>t, <1>i DEF Turned
<1>8. ASSUME NEW h \in Handlers, Outdated(h) PROVE LeaseInv'
  BY <1>8, <1>t, <1>i DEF Outdated
<1>9. ASSUME NEW h \in Handlers, ReadLease(h) PROVE LeaseInv'
  BY <1>9, <1>t, <1>i DEF ReadLease
<1>10. ASSUME NEW h \in Handlers, ReadEnds(h) PROVE LeaseInv'
  BY <1>10, <1>t, <1>i DEF ReadEnds
<1>11. ASSUME NEW h \in Handlers, Check(h) PROVE LeaseInv'
  BY <1>11, <1>t, <1>i DEF Check
<1>12. ASSUME NEW h \in Handlers, Call(h) PROVE LeaseInv'
  BY <1>12, <1>t, <1>i DEF Call
<1>13. ASSUME NEW h \in Handlers, Disconnect(h) PROVE LeaseInv'
  BY <1>13, <1>t, <1>i DEF Disconnect
<1>14. ASSUME NEW h \in Handlers, Configure(h) PROVE LeaseInv'
  BY <1>14, <1>t, <1>i DEF Configure
<1>15. ASSUME NEW h \in Handlers, OldExits(h) PROVE LeaseInv'
  BY <1>15, <1>t, <1>i DEF OldExits
<1>16. ASSUME NEW h \in Handlers, Swap(h) PROVE LeaseInv'
  BY <1>16, <1>t, <1>i DEF Swap
<1>17. ASSUME NEW h \in Handlers, Reconfigured(h) PROVE LeaseInv'
  BY <1>17, <1>t, <1>i DEF Reconfigured
<1>18. ASSUME NEW h \in Handlers, reserve(h) PROVE LeaseInv'
  BY <1>18, <1>t, <1>i DEF reserve
<1>19. ASSUME NEW h \in Handlers, Staged(h) PROVE LeaseInv'
  BY <1>19, <1>t, <1>i DEF Staged
<1>20. ASSUME NEW h \in Handlers, StagingFails(h) PROVE LeaseInv'
  BY <1>20, <1>t, <1>i DEF StagingFails
<1>21. ASSUME NEW h \in Handlers, ScanStarts(h) PROVE LeaseInv'
  BY <1>21, <1>t, <1>i DEF ScanStarts
<1>22. ASSUME NEW h \in Handlers, ScanFailsToStart(h) PROVE LeaseInv'
  BY <1>22, <1>t, <1>i DEF ScanFailsToStart
<1>23. ASSUME NEW h \in Handlers, SyncStart(h) PROVE LeaseInv'
  BY <1>23, <1>t, <1>i DEF SyncStart
<1>24. ASSUME NEW h \in Handlers, SyncFailsToStart(h) PROVE LeaseInv'
  BY <1>24, <1>t, <1>i DEF SyncFailsToStart
<1>25. ASSUME NEW i \in Ids, Recheck(i) PROVE LeaseInv'
  BY <1>25, <1>t, <1>i DEF Recheck
<1>26. ASSUME NEW i \in Ids, Dispatch(i) PROVE LeaseInv'
  BY <1>26, <1>t, <1>i DEF Dispatch
<1>27. ASSUME NEW i \in Ids, NotDispatched(i) PROVE LeaseInv'
  BY <1>27, <1>t, <1>i DEF NotDispatched, Dies
<1>28. ASSUME NEW i \in Ids, Finish(i) PROVE LeaseInv'
  BY <1>28, <1>t, <1>i DEF Finish
<1>29. ASSUME NEW i \in Ids, Fails(i) PROVE LeaseInv'
  BY <1>29, <1>t, <1>i DEF Fails
<1>30. ASSUME NEW i \in Ids, Report(i) PROVE LeaseInv'
  BY <1>30, <1>t, <1>i DEF Report, Dies
<1>31. ASSUME NEW i \in Ids, SyncLease(i) PROVE LeaseInv'
  BY <1>31, <1>t, <1>i DEF SyncLease
<1>32. ASSUME NEW i \in Ids, Publish(i) PROVE LeaseInv'
  BY <1>32, <1>t, <1>i DEF Publish
<1>33. ASSUME NEW i \in Ids, Verify(i) PROVE LeaseInv'
  BY <1>33, <1>t, <1>i DEF Verify
<1>34. ASSUME NEW i \in Ids, Clear(i) PROVE LeaseInv'
  BY <1>34, <1>t, <1>i DEF Clear
<1>35. ASSUME NEW i \in Ids, SyncFails(i) PROVE LeaseInv'
  <2>1. ASSUME wpc[i] = "sync", UNCHANGED lease PROVE LeaseInv'
    BY <1>35, <2>1, <1>t, <1>i DEF SyncFails
  <2>2. ASSUME wpc[i] = "collect", lease' = FALSE PROVE LeaseInv'
    BY <1>35, <2>2, <1>t, <1>i DEF SyncFails
  <2> QED
    BY <1>35, <1>t, <1>i, <2>1, <2>2 DEF SyncFails, IInv, TypeOK
<1>36. CASE UNCHANGED vars
  BY <1>36, <1>t, <1>i DEF vars
<1> QED
  BY <1>1, <1>2, <1>3, <1>4, <1>5, <1>6, <1>7, <1>8, <1>9, <1>10, <1>11, <1>12,
     <1>13, <1>14, <1>15, <1>16, <1>17, <1>18, <1>19, <1>20, <1>21, <1>22, <1>23,
     <1>24, <1>25, <1>26, <1>27, <1>28, <1>29, <1>30, <1>31, <1>32, <1>33, <1>34,
     <1>35, <1>36 DEF Next

----------------------------------------------------------------------------
(* Request ids                                                             *)

\* A command that leaves is added to what was sent.
LEMMA AppendFacts ==
  ASSUME NEW S, NEW s \in Seq(S), NEW x \in S
  PROVE  /\ Append(s, x) \in Seq(S) /\ Len(s) \in Nat /\ Len(Append(s, x)) = Len(s) + 1
         /\ \A n \in 1 .. Len(s) : Append(s, x)[n] = s[n]
         /\ Append(s, x)[Len(s) + 1] = x
  OBVIOUS

\* A handler's call sends its own request, or nothing.
LEMMA CallSends ==
  ASSUME IInv, NEW h \in Handlers, Call(h)
  PROVE  /\ \A j \in Ids : /\ WasSent(j)' => WasSent(j) \/ j = req[h].id
                           /\ WasSent(j) => WasSent(j)'
         /\ \A n \in 1 .. Len(sent') : sent'[n].id \in requests \/ sent'[n].id = req[h].id
         /\ pc[h] = "checked" /\ UNCHANGED <<requests, wpc, job>>
<1> DEFINE C == [kind : Posts, id : Ids, seen : Connections, at : Connections]
           c == [kind |-> req[h].kind, id |-> req[h].id, seen |-> req[h].at, at |-> Here]
<1>1. sent \in Seq(C) /\ IdInv /\ pc[h] = "checked"
  BY DEF IInv, TypeOK, Call
<1>2. c \in C /\ c.id = req[h].id
  BY <1>1 DEF IInv, TypeOK, HandlerInv, Requesting, Gated, Requests, Connections, Here
<1>3. UNCHANGED <<requests, wpc, job>>
  BY DEF Call, Leave, Goto, deviceVars, jobVars
<1>4. sent' = Append(sent, c) \/ sent' = sent
  BY DEF Call, Leaves
<1> HIDE DEF c, C
<1>5. CASE sent' = sent
  BY <1>1, <1>3, <1>5 DEF IdInv, WasSent
<1>6. CASE sent' = Append(sent, c)
  BY <1>1, <1>2, <1>3, <1>6, AppendFacts DEF IdInv, WasSent
<1> QED
  BY <1>4, <1>5, <1>6

\* A worker sends the import that started it.
LEMMA DispatchSends ==
  ASSUME IInv, NEW i \in Ids, Dispatch(i)
  PROVE  /\ \A j \in Ids : WasSent(j)' <=> WasSent(j) \/ j = i
         /\ \A n \in 1 .. Len(sent') : sent'[n].id \in requests \/ sent'[n].id = i
         /\ wpc[i] = "dispatch" /\ UNCHANGED <<requests, pc, req, job>>
<1> DEFINE C == [kind : Posts, id : Ids, seen : Connections, at : Connections]
           c == [kind |-> job.kind, id |-> i, seen |-> job.at, at |-> Here]
<1>1. sent \in Seq(C) /\ IdInv
  BY DEF IInv, TypeOK
<1>2. c \in C /\ c.id = i
  BY DEF Dispatch, Works, IInv, TypeOK, Jobs, NoJob, Connections, Here, Posts
<1>3. wpc[i] = "dispatch" /\ UNCHANGED <<requests, pc, req, job>>
  BY DEF Dispatch, Works, handlerVars, jobVars
<1>4. sent' = Append(sent, c)
  BY DEF Dispatch, Leaves
<1> HIDE DEF c, C
<1> QED
  BY <1>1, <1>2, <1>3, <1>4, AppendFacts DEF IdInv, WasSent

\* The ids and the job after a handler's call.
LEMMA CallKeeps ==
  ASSUME IInv, NEW h \in Handlers, Call(h)
  PROVE  IdInv' /\ JobInv'
<1> DEFINE After(j) == \E n \in 1 .. Len(sent') : sent'[n].id = j
<1>1. /\ pc[h] = "checked" /\ UNCHANGED <<requests, wpc, job, attempted, overlapped>>
      /\ \A j \in Ids : /\ After(j) => WasSent(j) \/ j = req[h].id
                        /\ WasSent(j) => After(j)
      /\ \A n \in 1 .. Len(sent') : sent'[n].id \in requests \/ sent'[n].id = req[h].id
  BY CallSends DEF WasSent, Call
<1> HIDE DEF After
<1>2. IdInv /\ JobInv /\ (job # NoJob => job.id \in Ids) /\ requests \subseteq Ids
  BY DEF IInv, TypeOK, NoJob, Jobs
<1>3. \A k \in Handlers : pc'[k] \in Requesting =>
        /\ req'[k] = req[k] /\ pc'[k] = pc[k]
        /\ req[k].id \in Ids /\ req[k].id # req[h].id
  <2>1. pc' = [pc EXCEPT ![h] = "idle"] /\ req' = [req EXCEPT ![h] = NoRequest]
    BY DEF Call, Leave, Goto
  <2>2. DOMAIN pc = Handlers /\ DOMAIN req = Handlers
    BY DEF IInv, TypeOK
  <2>3. \A k \in Handlers : pc'[k] \in Requesting => k # h /\ req'[k] = req[k] /\ pc'[k] = pc[k]
    BY <2>1, <2>2 DEF Requesting, Gated
  <2>4. pc[h] \in Requesting
    BY <1>1 DEF Requesting, Gated
  <2> QED
    BY <1>2, <2>3, <2>4 DEF IdInv
<1>4. req[h].id \in requests /\ wpc[req[h].id] = "none"
  BY <1>1, <1>2 DEF IdInv, Requesting, Gated
<1>5. job # NoJob => job.id # req[h].id
  BY <1>1, <1>2 DEF JobInv, Requesting, Gated
<1>6. IdInv'
  <2>1. \A k \in Handlers : pc'[k] \in Requesting =>
          /\ req'[k].id \in requests' /\ wpc'[req'[k].id] = "none" /\ ~WasSent(req[k].id)
          /\ \A l \in Handlers : pc'[l] \in Requesting /\ req'[k].id = req'[l].id => k = l
    BY <1>1, <1>2, <1>3 DEF IdInv
  <2>2. ASSUME NEW k \in Handlers, pc'[k] \in Requesting
        PROVE  ~After(req'[k].id)
    <3>1. /\ req'[k].id = req[k].id /\ req[k].id \in Ids /\ req[k].id # req[h].id
          /\ ~WasSent(req[k].id)
      BY <1>3, <2>1, <2>2
    <3>2. After(req[k].id)
            => WasSent(req[k].id) \/ req[k].id = req[h].id
      BY <1>1, <3>1
    <3> QED
      BY <3>1, <3>2
  <2>3. \A n \in 1 .. Len(sent') : sent'[n].id \in requests'
    BY <1>1, <1>2, <1>4 DEF IdInv, WasSent
  <2>4. \A i \in Ids :
          /\ wpc'[i] # "none" => i \in requests'
          /\ wpc'[i] \in {"start", "dispatch"} => ~After(i)
          /\ wpc'[i] \in {"sent", "failed"} => After(i)
    <3>1. ASSUME NEW i \in Ids, wpc[i] \in {"start", "dispatch"}
          PROVE  ~After(i)
      <4>1. ~WasSent(i) /\ i # req[h].id
        BY <1>2, <1>4, <3>1 DEF IdInv
      <4>2. After(i) => WasSent(i) \/ i = req[h].id
        BY <1>1
      <4> QED
        BY <4>1, <4>2
    <3>2. ASSUME NEW i \in Ids, wpc[i] \in {"sent", "failed"} PROVE After(i)
      <4>1. WasSent(i)
        BY <1>2, <3>2 DEF IdInv
      <4> QED
        BY <1>1, <4>1
    <3>3. \A i \in Ids : wpc[i] # "none" => i \in requests
      BY <1>2 DEF IdInv
    <3> QED
      BY <1>1, <3>1, <3>2, <3>3
  <2> QED
    BY <2>1, <2>2, <2>3, <2>4 DEF IdInv, WasSent, After
<1>7. JobInv'
  <2>1. \A k \in Handlers :
          /\ pc'[k] = "staging" => job # NoJob /\ job.id = req'[k].id /\ job.phase = "receiving"
          /\ pc'[k] = "starting" => job # NoJob /\ job.id = req'[k].id /\ job.phase = "scanning"
          /\ job # NoJob /\ pc'[k] \in Requesting /\ req'[k].id = job.id
             => pc'[k] \in {"staging", "starting"}
    BY <1>2, <1>3 DEF JobInv, Requesting, Gated
  <2>2. /\ job # NoJob /\ job.phase = "not_sent" => ~After(job.id) \/ overlapped
        /\ job # NoJob /\ job.phase = "done" => After(job.id)
    <3>1. ASSUME job # NoJob
          PROVE  /\ After(job.id) => WasSent(job.id)
                 /\ WasSent(job.id) => After(job.id)
      <4>1. job.id \in Ids /\ job.id # req[h].id
        BY <1>2, <1>5, <3>1
      <4> QED
        BY <1>1, <4>1
    <3> QED
      BY <1>2, <3>1 DEF JobInv
  <2> QED
    BY <1>1, <1>2, <2>1, <2>2 DEF JobInv, WasSent, After
<1> QED
  BY <1>6, <1>7

\* An id is in one place: it is claimed once, handed from thread to thread, and sent.
LEMMA IdStep == IInv /\ [Next]_vars => IdInv'
<1> SUFFICES ASSUME IInv, [Next]_vars PROVE IdInv'
  OBVIOUS
<1> USE DEF HandlerInv, GateInv, IdInv, Gated, Requesting, deviceVars, lockVars, jobVars,
           handlerVars, historyVars, sentVars, Goto, WorkerGoto, Leave, ReleaseGate, Refuse, Start,
           Session, LockAndCheck, Ends, SyncBegins, SyncStep, Works
<1>t. /\ pc \in [Handlers -> Positions] /\ wpc \in [Ids -> WorkerPositions]
      /\ req \in [Handlers -> Requests \cup {NoRequest}] /\ gated \in [Handlers -> BOOLEAN]
  BY DEF IInv, TypeOK, Positions, WorkerPositions
<1>r. \A h \in Handlers : pc[h] \in Gated \cup {"claimed"} => req[h].id \in Ids /\ req[h].kind \in Posts
  BY DEF IInv, HandlerInv, Requesting, Requests
<1>i. HandlerInv /\ GateInv /\ IdInv
  BY DEF IInv
<1>1. CASE SessionTries
  BY <1>1, <1>t, <1>i, <1>r DEF SessionTries, WasSent
<1>2. CASE SessionReady
  BY <1>2, <1>t, <1>i, <1>r DEF SessionReady, WasSent
<1>3. CASE SessionLost
  BY <1>3, <1>t, <1>i, <1>r DEF SessionLost, WasSent
<1>4. ASSUME NEW h \in Handlers, NEW kind \in Posts, NEW id \in Ids, Post(h, kind, id)
      PROVE  IdInv'
  BY <1>4, <1>t, <1>i, <1>r DEF Post, claim, WasSent
<1>5. ASSUME NEW h \in Handlers, NEW through \in BOOLEAN, Read(h, through) PROVE IdInv'
  BY <1>5, <1>t, <1>i, <1>r DEF Read, WasSent
<1>6. ASSUME NEW h \in Handlers, Admit(h) PROVE IdInv'
  BY <1>6, <1>t, <1>i, <1>r DEF Admit, WasSent
<1>7. ASSUME NEW h \in Handlers, Turned(h) PROVE IdInv'
  BY <1>7, <1>t, <1>i, <1>r DEF Turned, WasSent
<1>8. ASSUME NEW h \in Handlers, Outdated(h) PROVE IdInv'
  BY <1>8, <1>t, <1>i, <1>r DEF Outdated, WasSent
<1>9. ASSUME NEW h \in Handlers, ReadLease(h) PROVE IdInv'
  BY <1>9, <1>t, <1>i, <1>r DEF ReadLease, WasSent
<1>10. ASSUME NEW h \in Handlers, ReadEnds(h) PROVE IdInv'
  BY <1>10, <1>t, <1>i, <1>r DEF ReadEnds, WasSent
<1>11. ASSUME NEW h \in Handlers, Check(h) PROVE IdInv'
  BY <1>11, <1>t, <1>i, <1>r DEF Check, WasSent
<1>12. ASSUME NEW h \in Handlers, Call(h) PROVE IdInv'
  BY <1>12, CallKeeps
<1>13. ASSUME NEW h \in Handlers, Disconnect(h) PROVE IdInv'
  BY <1>13, <1>t, <1>i, <1>r DEF Disconnect, WasSent
<1>14. ASSUME NEW h \in Handlers, Configure(h) PROVE IdInv'
  BY <1>14, <1>t, <1>i, <1>r DEF Configure, WasSent
<1>15. ASSUME NEW h \in Handlers, OldExits(h) PROVE IdInv'
  BY <1>15, <1>t, <1>i, <1>r DEF OldExits, WasSent
<1>16. ASSUME NEW h \in Handlers, Swap(h) PROVE IdInv'
  BY <1>16, <1>t, <1>i, <1>r DEF Swap, WasSent
<1>17. ASSUME NEW h \in Handlers, Reconfigured(h) PROVE IdInv'
  BY <1>17, <1>t, <1>i, <1>r DEF Reconfigured, WasSent
<1>18. ASSUME NEW h \in Handlers, reserve(h) PROVE IdInv'
  BY <1>18, <1>t, <1>i, <1>r DEF reserve, WasSent
<1>19. ASSUME NEW h \in Handlers, Staged(h) PROVE IdInv'
  BY <1>19, <1>t, <1>i, <1>r DEF Staged, WasSent
<1>20. ASSUME NEW h \in Handlers, StagingFails(h) PROVE IdInv'
  BY <1>20, <1>t, <1>i, <1>r DEF StagingFails, WasSent
<1>21. ASSUME NEW h \in Handlers, ScanStarts(h) PROVE IdInv'
  BY <1>21, <1>t, <1>i, <1>r DEF ScanStarts, WasSent
<1>22. ASSUME NEW h \in Handlers, ScanFailsToStart(h) PROVE IdInv'
  BY <1>22, <1>t, <1>i, <1>r DEF ScanFailsToStart, WasSent
<1>23. ASSUME NEW h \in Handlers, SyncStart(h) PROVE IdInv'
  BY <1>23, <1>t, <1>i, <1>r DEF SyncStart, WasSent
<1>24. ASSUME NEW h \in Handlers, SyncFailsToStart(h) PROVE IdInv'
  BY <1>24, <1>t, <1>i, <1>r DEF SyncFailsToStart, WasSent
<1>25. ASSUME NEW i \in Ids, Recheck(i) PROVE IdInv'
  BY <1>25, <1>t, <1>i, <1>r DEF Recheck, WasSent
<1>26. ASSUME NEW i \in Ids, Dispatch(i) PROVE IdInv'
  <2>1. /\ wpc[i] = "dispatch" /\ UNCHANGED <<requests, pc, req, job>>
        /\ \A j \in Ids : WasSent(j)' <=> WasSent(j) \/ j = i
        /\ \A n \in 1 .. Len(sent') : sent'[n].id \in requests \/ sent'[n].id = i
    BY <1>26, DispatchSends
  <2> QED
    BY <1>26, <1>t, <1>i, <1>r, <2>1 DEF Dispatch
<1>27. ASSUME NEW i \in Ids, NotDispatched(i) PROVE IdInv'
  BY <1>27, <1>t, <1>i, <1>r DEF NotDispatched, Dies, WasSent
<1>28. ASSUME NEW i \in Ids, Finish(i) PROVE IdInv'
  BY <1>28, <1>t, <1>i, <1>r DEF Finish, WasSent
<1>29. ASSUME NEW i \in Ids, Fails(i) PROVE IdInv'
  BY <1>29, <1>t, <1>i, <1>r DEF Fails, WasSent
<1>30. ASSUME NEW i \in Ids, Report(i) PROVE IdInv'
  BY <1>30, <1>t, <1>i, <1>r DEF Report, Dies, WasSent
<1>31. ASSUME NEW i \in Ids, SyncLease(i) PROVE IdInv'
  BY <1>31, <1>t, <1>i, <1>r DEF SyncLease, WasSent
<1>32. ASSUME NEW i \in Ids, Publish(i) PROVE IdInv'
  BY <1>32, <1>t, <1>i, <1>r DEF Publish, WasSent
<1>33. ASSUME NEW i \in Ids, Verify(i) PROVE IdInv'
  BY <1>33, <1>t, <1>i, <1>r DEF Verify, WasSent
<1>34. ASSUME NEW i \in Ids, Clear(i) PROVE IdInv'
  BY <1>34, <1>t, <1>i, <1>r DEF Clear, WasSent
<1>35. ASSUME NEW i \in Ids, SyncFails(i) PROVE IdInv'
  BY <1>35, <1>t, <1>i, <1>r DEF SyncFails, WasSent
<1>36. CASE UNCHANGED vars
  BY <1>36, <1>t, <1>i, <1>r DEF vars, WasSent
<1> QED
  BY <1>1, <1>2, <1>3, <1>4, <1>5, <1>6, <1>7, <1>8, <1>9, <1>10, <1>11, <1>12,
     <1>13, <1>14, <1>15, <1>16, <1>17, <1>18, <1>19, <1>20, <1>21, <1>22, <1>23,
     <1>24, <1>25, <1>26, <1>27, <1>28, <1>29, <1>30, <1>31, <1>32, <1>33, <1>34,
     <1>35, <1>36 DEF Next

\* Nothing that was sent is sent again.
LEMMA OnceStep == IInv /\ [Next]_vars => SentAtMostOnce'
<1> SUFFICES ASSUME IInv, [Next]_vars PROVE SentAtMostOnce'
  OBVIOUS
<1> USE DEF SentAtMostOnce, deviceVars, lockVars, jobVars, handlerVars, historyVars, sentVars, Goto,
           WorkerGoto, Leave, ReleaseGate, Refuse, Start, Session, LockAndCheck, Ends,
           SyncBegins, SyncStep, Works
<1>t. /\ pc \in [Handlers -> Positions] /\ wpc \in [Ids -> WorkerPositions]
      /\ req \in [Handlers -> Requests \cup {NoRequest}] /\ gated \in [Handlers -> BOOLEAN]
  BY DEF IInv, TypeOK, Positions, WorkerPositions
<1>r. \A h \in Handlers : pc[h] \in Gated \cup {"claimed"} => req[h].id \in Ids /\ req[h].kind \in Posts
  BY DEF IInv, HandlerInv, Requesting, Requests
<1>i. SentAtMostOnce
  BY DEF IInv
<1>1. CASE SessionTries
  BY <1>1, <1>i DEF SessionTries
<1>2. CASE SessionReady
  BY <1>2, <1>i DEF SessionReady
<1>3. CASE SessionLost
  BY <1>3, <1>i DEF SessionLost
<1>4. ASSUME NEW h \in Handlers, NEW kind \in Posts, NEW id \in Ids, Post(h, kind, id)
      PROVE  SentAtMostOnce'
  BY <1>4, <1>i DEF Post
<1>5. ASSUME NEW h \in Handlers, NEW through \in BOOLEAN, Read(h, through) PROVE SentAtMostOnce'
  BY <1>5, <1>i DEF Read
<1>6. ASSUME NEW h \in Handlers, Admit(h) PROVE SentAtMostOnce'
  BY <1>6, <1>i DEF Admit
<1>7. ASSUME NEW h \in Handlers, Turned(h) PROVE SentAtMostOnce'
  BY <1>7, <1>i DEF Turned
<1>8. ASSUME NEW h \in Handlers, Outdated(h) PROVE SentAtMostOnce'
  BY <1>8, <1>i DEF Outdated
<1>9. ASSUME NEW h \in Handlers, ReadLease(h) PROVE SentAtMostOnce'
  BY <1>9, <1>i DEF ReadLease
<1>10. ASSUME NEW h \in Handlers, ReadEnds(h) PROVE SentAtMostOnce'
  BY <1>10, <1>i DEF ReadEnds
<1>11. ASSUME NEW h \in Handlers, Check(h) PROVE SentAtMostOnce'
  BY <1>11, <1>i DEF Check
<1>12. ASSUME NEW h \in Handlers, Call(h) PROVE SentAtMostOnce'
  <2> DEFINE C == [kind : Posts, id : Ids, seen : Connections, at : Connections]
             c == [kind |-> req[h].kind, id |-> req[h].id, seen |-> req[h].at, at |-> Here]
  <2>1. sent \in Seq(C) /\ c \in C /\ c.id = req[h].id /\ ~WasSent(c.id)
    BY <1>12, <1>i DEF Call, IInv, TypeOK, HandlerInv, IdInv, Requesting, Gated, Requests, Connections, Here
  <2>2. sent' = Append(sent, c) \/ sent' = sent
    BY <1>12 DEF Call, Leaves
  <2> HIDE DEF c, C
  <2> QED
    BY <1>i, <2>1, <2>2, AppendFacts DEF WasSent
<1>13. ASSUME NEW h \in Handlers, Disconnect(h) PROVE SentAtMostOnce'
  BY <1>13, <1>i DEF Disconnect
<1>14. ASSUME NEW h \in Handlers, Configure(h) PROVE SentAtMostOnce'
  BY <1>14, <1>i DEF Configure
<1>15. ASSUME NEW h \in Handlers, OldExits(h) PROVE SentAtMostOnce'
  BY <1>15, <1>i DEF OldExits
<1>16. ASSUME NEW h \in Handlers, Swap(h) PROVE SentAtMostOnce'
  BY <1>16, <1>i DEF Swap
<1>17. ASSUME NEW h \in Handlers, Reconfigured(h) PROVE SentAtMostOnce'
  BY <1>17, <1>i DEF Reconfigured
<1>18. ASSUME NEW h \in Handlers, reserve(h) PROVE SentAtMostOnce'
  BY <1>18, <1>i DEF reserve
<1>19. ASSUME NEW h \in Handlers, Staged(h) PROVE SentAtMostOnce'
  BY <1>19, <1>i DEF Staged
<1>20. ASSUME NEW h \in Handlers, StagingFails(h) PROVE SentAtMostOnce'
  BY <1>20, <1>i DEF StagingFails
<1>21. ASSUME NEW h \in Handlers, ScanStarts(h) PROVE SentAtMostOnce'
  BY <1>21, <1>i DEF ScanStarts
<1>22. ASSUME NEW h \in Handlers, ScanFailsToStart(h) PROVE SentAtMostOnce'
  BY <1>22, <1>i DEF ScanFailsToStart
<1>23. ASSUME NEW h \in Handlers, SyncStart(h) PROVE SentAtMostOnce'
  BY <1>23, <1>i DEF SyncStart
<1>24. ASSUME NEW h \in Handlers, SyncFailsToStart(h) PROVE SentAtMostOnce'
  BY <1>24, <1>i DEF SyncFailsToStart
<1>25. ASSUME NEW i \in Ids, Recheck(i) PROVE SentAtMostOnce'
  BY <1>25, <1>i DEF Recheck
<1>26. ASSUME NEW i \in Ids, Dispatch(i) PROVE SentAtMostOnce'
  <2> DEFINE C == [kind : Posts, id : Ids, seen : Connections, at : Connections]
             c == [kind |-> job.kind, id |-> i, seen |-> job.at, at |-> Here]
  <2>1. sent \in Seq(C) /\ c \in C /\ c.id = i /\ ~WasSent(c.id)
    BY <1>26, <1>i DEF Dispatch, IInv, TypeOK, IdInv, Jobs, NoJob, Connections, Here, Posts
  <2>2. sent' = Append(sent, c)
    BY <1>26 DEF Dispatch, Leaves
  <2> HIDE DEF c, C
  <2> QED
    BY <1>i, <2>1, <2>2, AppendFacts DEF WasSent
<1>27. ASSUME NEW i \in Ids, NotDispatched(i) PROVE SentAtMostOnce'
  BY <1>27, <1>i DEF NotDispatched, Dies
<1>28. ASSUME NEW i \in Ids, Finish(i) PROVE SentAtMostOnce'
  BY <1>28, <1>i DEF Finish
<1>29. ASSUME NEW i \in Ids, Fails(i) PROVE SentAtMostOnce'
  BY <1>29, <1>i DEF Fails
<1>30. ASSUME NEW i \in Ids, Report(i) PROVE SentAtMostOnce'
  BY <1>30, <1>i DEF Report, Dies
<1>31. ASSUME NEW i \in Ids, SyncLease(i) PROVE SentAtMostOnce'
  BY <1>31, <1>i DEF SyncLease
<1>32. ASSUME NEW i \in Ids, Publish(i) PROVE SentAtMostOnce'
  BY <1>32, <1>i DEF Publish
<1>33. ASSUME NEW i \in Ids, Verify(i) PROVE SentAtMostOnce'
  BY <1>33, <1>i DEF Verify
<1>34. ASSUME NEW i \in Ids, Clear(i) PROVE SentAtMostOnce'
  BY <1>34, <1>i DEF Clear
<1>35. ASSUME NEW i \in Ids, SyncFails(i) PROVE SentAtMostOnce'
  BY <1>35, <1>i DEF SyncFails
<1>36. CASE UNCHANGED vars
  BY <1>36, <1>i DEF vars
<1> QED
  BY <1>1, <1>2, <1>3, <1>4, <1>5, <1>6, <1>7, <1>8, <1>9, <1>10, <1>11, <1>12,
     <1>13, <1>14, <1>15, <1>16, <1>17, <1>18, <1>19, <1>20, <1>21, <1>22, <1>23,
     <1>24, <1>25, <1>26, <1>27, <1>28, <1>29, <1>30, <1>31, <1>32, <1>33, <1>34,
     <1>35, <1>36 DEF Next

\* The job is that of the request that holds the gate, until it has ended.
LEMMA JobStep == IInv /\ [Next]_vars => JobInv'
<1> SUFFICES ASSUME IInv, [Next]_vars PROVE JobInv'
  OBVIOUS
<1> USE DEF HandlerInv, GateInv, IdInv, JobInv, Gated, Requesting, deviceVars, lockVars,
           jobVars, handlerVars, historyVars, sentVars, Goto, WorkerGoto, Leave, ReleaseGate, Refuse,
           Start, Session, LockAndCheck, Ends, SyncBegins, SyncStep, Works
<1>t. /\ pc \in [Handlers -> Positions] /\ wpc \in [Ids -> WorkerPositions]
      /\ req \in [Handlers -> Requests \cup {NoRequest}] /\ gated \in [Handlers -> BOOLEAN]
  BY DEF IInv, TypeOK, Positions, WorkerPositions
<1>r. \A h \in Handlers : pc[h] \in Gated \cup {"claimed"} => req[h].id \in Ids /\ req[h].kind \in Posts
  BY DEF IInv, HandlerInv, Requesting, Requests
<1>i. HandlerInv /\ GateInv /\ IdInv /\ JobInv
  BY DEF IInv
<1>n. /\ base \in Nat /\ raw \in Nat /\ owner \in Nat
      /\ displays \subseteq [gen : Nat, at : Connections] /\ job \in Jobs \cup {NoJob}
  BY DEF IInv, TypeOK
<1>1. CASE SessionTries
  BY <1>1, <1>t, <1>i, <1>r DEF SessionTries, WasSent
<1>2. CASE SessionReady
  BY <1>2, <1>t, <1>i, <1>r DEF SessionReady, WasSent
<1>3. CASE SessionLost
  BY <1>3, <1>t, <1>i, <1>r DEF SessionLost, WasSent
<1>4. ASSUME NEW h \in Handlers, NEW kind \in Posts, NEW id \in Ids, Post(h, kind, id)
      PROVE  JobInv'
  BY <1>4, <1>t, <1>i, <1>r DEF Post, claim, WasSent
<1>5. ASSUME NEW h \in Handlers, NEW through \in BOOLEAN, Read(h, through) PROVE JobInv'
  BY <1>5, <1>t, <1>i, <1>r DEF Read, WasSent
<1>6. ASSUME NEW h \in Handlers, Admit(h) PROVE JobInv'
  BY <1>6, <1>t, <1>i, <1>r DEF Admit, WasSent
<1>7. ASSUME NEW h \in Handlers, Turned(h) PROVE JobInv'
  BY <1>7, <1>t, <1>i, <1>r DEF Turned, WasSent
<1>8. ASSUME NEW h \in Handlers, Outdated(h) PROVE JobInv'
  BY <1>8, <1>t, <1>i, <1>r DEF Outdated, WasSent
<1>9. ASSUME NEW h \in Handlers, ReadLease(h) PROVE JobInv'
  BY <1>9, <1>t, <1>i, <1>r DEF ReadLease, WasSent
<1>10. ASSUME NEW h \in Handlers, ReadEnds(h) PROVE JobInv'
  BY <1>10, <1>t, <1>i, <1>r DEF ReadEnds, WasSent
<1>11. ASSUME NEW h \in Handlers, Check(h) PROVE JobInv'
  BY <1>11, <1>t, <1>i, <1>r DEF Check, WasSent
<1>12. ASSUME NEW h \in Handlers, Call(h) PROVE JobInv'
  BY <1>12, CallKeeps
<1>13. ASSUME NEW h \in Handlers, Disconnect(h) PROVE JobInv'
  BY <1>13, <1>t, <1>i, <1>r DEF Disconnect, WasSent
<1>14. ASSUME NEW h \in Handlers, Configure(h) PROVE JobInv'
  BY <1>14, <1>t, <1>i, <1>r DEF Configure, WasSent
<1>15. ASSUME NEW h \in Handlers, OldExits(h) PROVE JobInv'
  BY <1>15, <1>t, <1>i, <1>r DEF OldExits, WasSent
<1>16. ASSUME NEW h \in Handlers, Swap(h) PROVE JobInv'
  BY <1>16, <1>t, <1>i, <1>r DEF Swap, WasSent
<1>17. ASSUME NEW h \in Handlers, Reconfigured(h) PROVE JobInv'
  BY <1>17, <1>t, <1>i, <1>r DEF Reconfigured, WasSent
<1>18. ASSUME NEW h \in Handlers, reserve(h) PROVE JobInv'
  BY <1>18, <1>t, <1>i, <1>r DEF reserve, WasSent, NoJob, Imports
<1>19. ASSUME NEW h \in Handlers, Staged(h) PROVE JobInv'
  <2>1. job \in Jobs
    BY <1>19, <1>n DEF Staged, IInv, JobInv
  <2>2. job' # NoJob /\ job'.id = job.id /\ job'.gen = job.gen /\ job'.at = job.at /\ job'.phase = "sending"
    BY <1>19, <2>1, JobPhase DEF Staged
  <2> QED
    BY <1>19, <1>t, <1>i, <1>r, <2>1, <2>2 DEF Staged, WasSent
<1>20. ASSUME NEW h \in Handlers, StagingFails(h) PROVE JobInv'
  <2>1. job \in Jobs
    BY <1>20, <1>n DEF StagingFails, IInv, JobInv
  <2>2. job' # NoJob /\ job'.id = job.id /\ job'.gen = job.gen /\ job'.at = job.at /\ job'.phase = "not_sent"
    BY <1>20, <2>1, JobPhase DEF StagingFails
  <2> QED
    BY <1>20, <1>t, <1>i, <1>r, <2>1, <2>2 DEF StagingFails, WasSent
<1>21. ASSUME NEW h \in Handlers, ScanStarts(h) PROVE JobInv'
  BY <1>21, <1>t, <1>i, <1>r DEF ScanStarts, WasSent
<1>22. ASSUME NEW h \in Handlers, ScanFailsToStart(h) PROVE JobInv'
  BY <1>22, <1>t, <1>i, <1>r DEF ScanFailsToStart, WasSent
<1>23. ASSUME NEW h \in Handlers, SyncStart(h) PROVE JobInv'
  BY <1>23, <1>t, <1>i, <1>r DEF SyncStart, WasSent
<1>24. ASSUME NEW h \in Handlers, SyncFailsToStart(h) PROVE JobInv'
  BY <1>24, <1>t, <1>i, <1>r DEF SyncFailsToStart, WasSent
<1>25. ASSUME NEW i \in Ids, Recheck(i) PROVE JobInv'
  <2>1. job \in Jobs
    BY <1>25, <1>n DEF Recheck
  <2>2. CASE Current(job.gen) /\ Ready /\ UNCHANGED job
    <3>1. /\ UNCHANGED <<owner, base, raw, displays, requests, handlerVars, sent>>
          /\ wpc[i] = "start" /\ wpc' = [wpc EXCEPT ![i] = "dispatch"]
      BY <1>25, <2>2 DEF Recheck
    <3> QED
      BY <1>t, <1>i, <1>r, <2>1, <2>2, <3>1 DEF WasSent
  <2>3. CASE job' = [job EXCEPT !.phase = "not_sent"]
    <3>1. job' # NoJob /\ job'.id = job.id /\ job'.gen = job.gen /\ job'.at = job.at /\ job'.phase = "not_sent"
      BY <2>1, <2>3, JobPhase
    <3>2. UNCHANGED <<owner, base, raw, displays, requests, handlerVars, sent>> /\ wpc[i] = "start"
      BY <1>25 DEF Recheck
    <3>3. wpc' = [wpc EXCEPT ![i] = "none"] \/ wpc' = [wpc EXCEPT ![i] = "dispatch"]
      BY <1>25 DEF Recheck
    <3>4. job.phase \in {"sending", "scanning"}
      BY <1>25 DEF IInv, JobInv, Recheck
    <3>5. wpc' = [wpc EXCEPT ![i] = "none"]
      BY <1>25, <3>1, <3>4 DEF Recheck
    <3> QED
      BY <1>t, <1>i, <1>r, <2>1, <3>1, <3>2, <3>5 DEF WasSent
  <2> QED
    BY <1>25, <2>2, <2>3 DEF Recheck
<1>26. ASSUME NEW i \in Ids, Dispatch(i) PROVE JobInv'
  <2>1. /\ wpc[i] = "dispatch" /\ UNCHANGED <<requests, pc, req, job>>
        /\ \A j \in Ids : WasSent(j)' <=> WasSent(j) \/ j = i
        /\ \A n \in 1 .. Len(sent') : sent'[n].id \in requests \/ sent'[n].id = i
    BY <1>26, DispatchSends
  <2> QED
    BY <1>26, <1>t, <1>i, <1>r, <2>1 DEF Dispatch
<1>27. ASSUME NEW i \in Ids, NotDispatched(i) PROVE JobInv'
  <2>1. job \in Jobs /\ ~WasSent(i) /\ job.id = i /\ job.phase \in {"sending", "scanning"}
    BY <1>27, <1>t, <1>i, <1>n DEF NotDispatched
  <2>2. PICK phase \in {"sending", "scanning", "not_sent", "uncertain"} :
          job' = [job EXCEPT !.phase = phase]
    BY <1>27, <2>1 DEF NotDispatched, Dies
  <2>3. job' # NoJob /\ job'.id = job.id /\ job'.phase = phase
    BY <2>1, <2>2, JobPhase
  <2>4. /\ UNCHANGED <<requests, handlerVars, sentVars>>
        /\ wpc' = [wpc EXCEPT ![i] = "none"]
    BY <1>27 DEF NotDispatched, Dies
  <2> QED
    BY <1>27, <1>t, <1>i, <1>r, <2>1, <2>3, <2>4 DEF WasSent, NotDispatched
<1>28. ASSUME NEW i \in Ids, Finish(i) PROVE JobInv'
  BY <1>28, <1>t, <1>i, <1>r, <1>n, JobPhase DEF Finish, WasSent
<1>29. ASSUME NEW i \in Ids, Fails(i) PROVE JobInv'
  BY <1>29, <1>t, <1>i, <1>r, <1>n, JobPhase DEF Fails, WasSent
<1>30. ASSUME NEW i \in Ids, Report(i) PROVE JobInv'
  <2>1. /\ job \in Jobs /\ WasSent(i) /\ job.id = i /\ job.phase \in {"sending", "scanning"}
        /\ attempted \/ overlapped
    BY <1>30, <1>t, <1>i, <1>n DEF Report
  <2>2. PICK phase \in {"sending", "scanning", "not_sent", "uncertain"} :
          /\ job' = [job EXCEPT !.phase = phase]
          /\ phase = "not_sent" => ~attempted
    BY <1>30, <2>1 DEF Report, Dies
  <2>3. job' # NoJob /\ job'.id = job.id /\ job'.phase = phase
    BY <2>1, <2>2, JobPhase
  <2>4. /\ UNCHANGED <<requests, handlerVars, sent, overlapped>>
        /\ wpc' = [wpc EXCEPT ![i] = "none"]
    BY <1>30 DEF Report, Dies
  <2> QED
    BY <1>30, <1>t, <1>i, <1>r, <2>1, <2>2, <2>3, <2>4 DEF WasSent, Report
<1>31. ASSUME NEW i \in Ids, SyncLease(i) PROVE JobInv'
  BY <1>31, <1>t, <1>i, <1>r DEF SyncLease, WasSent
<1>32. ASSUME NEW i \in Ids, Publish(i) PROVE JobInv'
  BY <1>32, <1>t, <1>i, <1>r DEF Publish, WasSent
<1>33. ASSUME NEW i \in Ids, Verify(i) PROVE JobInv'
  BY <1>33, <1>t, <1>i, <1>r DEF Verify, WasSent
<1>34. ASSUME NEW i \in Ids, Clear(i) PROVE JobInv'
  BY <1>34, <1>t, <1>i, <1>r DEF Clear, WasSent
<1>35. ASSUME NEW i \in Ids, SyncFails(i) PROVE JobInv'
  BY <1>35, <1>t, <1>i, <1>r DEF SyncFails, WasSent
<1>36. CASE UNCHANGED vars
  BY <1>36, <1>t, <1>i, <1>r DEF vars, WasSent
<1> QED
  BY <1>1, <1>2, <1>3, <1>4, <1>5, <1>6, <1>7, <1>8, <1>9, <1>10, <1>11, <1>12,
     <1>13, <1>14, <1>15, <1>16, <1>17, <1>18, <1>19, <1>20, <1>21, <1>22, <1>23,
     <1>24, <1>25, <1>26, <1>27, <1>28, <1>29, <1>30, <1>31, <1>32, <1>33, <1>34,
     <1>35, <1>36 DEF Next

----------------------------------------------------------------------------
(* Generations and freshness                                               *)

\* A connection with the next generation is shown.
LEMMA NextShown ==
  ASSUME IInv, Shown' = Shown + 1, Display
  PROVE  ShownInv'
<1> DEFINE d == [gen |-> Shown', at |-> Here']
<1>1. ShownInv /\ Shown \in Nat /\ \A e \in displays : e.gen \in Nat
  BY DEF IInv, TypeOK, Shown
<1>2. displays' = displays \cup {d}
  BY DEF Display
<1>3. \A e \in displays : e.gen < d.gen
  BY <1>1 DEF ShownInv
<1>4. GenerationsNeverReused'
  BY <1>1, <1>2, <1>3 DEF ShownInv, GenerationsNeverReused
<1> QED
  BY <1>1, <1>2, <1>3, <1>4 DEF ShownInv

\* The same connection is shown again.
LEMMA SameShown ==
  ASSUME IInv, UNCHANGED <<owner, base, raw>>, Display \/ UNCHANGED displays
  PROVE  ShownInv' /\ displays' = displays
<1>1. ShownInv /\ Shown' = Shown /\ Here' = Here
  BY DEF IInv, Shown, Here
<1>2. displays' = displays
  BY <1>1 DEF Display, ShownInv
<1> QED
  BY <1>1, <1>2 DEF ShownInv, GenerationsNeverReused

\* No generation is shown for two connections.
LEMMA ShownStep == IInv /\ [Next]_vars => ShownInv'
<1> SUFFICES ASSUME IInv, [Next]_vars PROVE ShownInv'
  OBVIOUS
<1> USE DEF deviceVars, lockVars, jobVars, handlerVars, historyVars, sentVars, Goto,
           WorkerGoto, Leave, ReleaseGate, Refuse, Start, Session, LockAndCheck, Ends,
           SyncBegins, SyncStep, Works
<1>t. /\ pc \in [Handlers -> Positions] /\ wpc \in [Ids -> WorkerPositions]
      /\ req \in [Handlers -> Requests \cup {NoRequest}] /\ gated \in [Handlers -> BOOLEAN]
  BY DEF IInv, TypeOK, Positions, WorkerPositions
<1>r. \A h \in Handlers : pc[h] \in Gated \cup {"claimed"} => req[h].id \in Ids /\ req[h].kind \in Posts
  BY DEF IInv, HandlerInv, Requesting, Requests
<1>i. ShownInv
  BY DEF IInv
<1>n. /\ base \in Nat /\ raw \in Nat /\ owner \in Nat
      /\ displays \subseteq [gen : Nat, at : Connections] /\ job \in Jobs \cup {NoJob}
  BY DEF IInv, TypeOK
<1>1. CASE SessionTries
  <2>1. Shown' = Shown + 1 /\ Display
    BY <1>1, <1>n DEF SessionTries, Shown
  <2> QED
    BY <1>i, <2>1, NextShown
<1>2. CASE SessionReady
  BY <1>2, SameShown DEF SessionReady
<1>3. CASE SessionLost
  BY <1>3, SameShown DEF SessionLost
<1>4. ASSUME NEW h \in Handlers, NEW kind \in Posts, NEW id \in Ids, Post(h, kind, id)
      PROVE  ShownInv'
  BY <1>4, SameShown DEF Post
<1>5. ASSUME NEW h \in Handlers, NEW through \in BOOLEAN, Read(h, through) PROVE ShownInv'
  BY <1>5, SameShown DEF Read
<1>6. ASSUME NEW h \in Handlers, Admit(h) PROVE ShownInv'
  BY <1>6, SameShown DEF Admit
<1>7. ASSUME NEW h \in Handlers, Turned(h) PROVE ShownInv'
  BY <1>7, SameShown DEF Turned
<1>8. ASSUME NEW h \in Handlers, Outdated(h) PROVE ShownInv'
  BY <1>8, SameShown DEF Outdated
<1>9. ASSUME NEW h \in Handlers, ReadLease(h) PROVE ShownInv'
  BY <1>9, SameShown DEF ReadLease
<1>10. ASSUME NEW h \in Handlers, ReadEnds(h) PROVE ShownInv'
  BY <1>10, SameShown DEF ReadEnds
<1>11. ASSUME NEW h \in Handlers, Check(h) PROVE ShownInv'
  BY <1>11, SameShown DEF Check
<1>12. ASSUME NEW h \in Handlers, Call(h) PROVE ShownInv'
  BY <1>12, SameShown DEF Call
<1>13. ASSUME NEW h \in Handlers, Disconnect(h) PROVE ShownInv'
  <2>1. Shown' = Shown + 1 /\ Display
    BY <1>13, <1>n DEF Disconnect, Shown
  <2> QED
    BY <1>i, <2>1, NextShown
<1>14. ASSUME NEW h \in Handlers, Configure(h) PROVE ShownInv'
  BY <1>14, SameShown DEF Configure
<1>15. ASSUME NEW h \in Handlers, OldExits(h) PROVE ShownInv'
  <2>1. Shown' = Shown + 1 /\ Display
    BY <1>15, <1>n DEF OldExits, Shown
  <2> QED
    BY <1>i, <2>1, NextShown
<1>16. ASSUME NEW h \in Handlers, Swap(h) PROVE ShownInv'
  <2>1. Shown' = Shown + 1 /\ Display
    BY <1>16, <1>n DEF Swap, Shown, NextBase
  <2> QED
    BY <1>i, <2>1, NextShown
<1>17. ASSUME NEW h \in Handlers, Reconfigured(h) PROVE ShownInv'
  BY <1>17, SameShown DEF Reconfigured
<1>18. ASSUME NEW h \in Handlers, reserve(h) PROVE ShownInv'
  BY <1>18, SameShown DEF reserve
<1>19. ASSUME NEW h \in Handlers, Staged(h) PROVE ShownInv'
  BY <1>19, SameShown DEF Staged
<1>20. ASSUME NEW h \in Handlers, StagingFails(h) PROVE ShownInv'
  BY <1>20, SameShown DEF StagingFails
<1>21. ASSUME NEW h \in Handlers, ScanStarts(h) PROVE ShownInv'
  BY <1>21, SameShown DEF ScanStarts
<1>22. ASSUME NEW h \in Handlers, ScanFailsToStart(h) PROVE ShownInv'
  BY <1>22, SameShown DEF ScanFailsToStart
<1>23. ASSUME NEW h \in Handlers, SyncStart(h) PROVE ShownInv'
  BY <1>23, SameShown DEF SyncStart
<1>24. ASSUME NEW h \in Handlers, SyncFailsToStart(h) PROVE ShownInv'
  BY <1>24, SameShown DEF SyncFailsToStart
<1>25. ASSUME NEW i \in Ids, Recheck(i) PROVE ShownInv'
  BY <1>25, SameShown DEF Recheck
<1>26. ASSUME NEW i \in Ids, Dispatch(i) PROVE ShownInv'
  BY <1>26, SameShown DEF Dispatch
<1>27. ASSUME NEW i \in Ids, NotDispatched(i) PROVE ShownInv'
  BY <1>27, SameShown DEF NotDispatched, Dies
<1>28. ASSUME NEW i \in Ids, Finish(i) PROVE ShownInv'
  BY <1>28, SameShown DEF Finish
<1>29. ASSUME NEW i \in Ids, Fails(i) PROVE ShownInv'
  BY <1>29, SameShown DEF Fails
<1>30. ASSUME NEW i \in Ids, Report(i) PROVE ShownInv'
  BY <1>30, SameShown DEF Report, Dies
<1>31. ASSUME NEW i \in Ids, SyncLease(i) PROVE ShownInv'
  BY <1>31, SameShown DEF SyncLease
<1>32. ASSUME NEW i \in Ids, Publish(i) PROVE ShownInv'
  BY <1>32, SameShown DEF Publish
<1>33. ASSUME NEW i \in Ids, Verify(i) PROVE ShownInv'
  BY <1>33, SameShown DEF Verify
<1>34. ASSUME NEW i \in Ids, Clear(i) PROVE ShownInv'
  BY <1>34, SameShown DEF Clear
<1>35. ASSUME NEW i \in Ids, SyncFails(i) PROVE ShownInv'
  BY <1>35, SameShown DEF SyncFails
<1>36. CASE UNCHANGED vars
  BY <1>36, SameShown DEF vars
<1> QED
  BY <1>1, <1>2, <1>3, <1>4, <1>5, <1>6, <1>7, <1>8, <1>9, <1>10, <1>11, <1>12,
     <1>13, <1>14, <1>15, <1>16, <1>17, <1>18, <1>19, <1>20, <1>21, <1>22, <1>23,
     <1>24, <1>25, <1>26, <1>27, <1>28, <1>29, <1>30, <1>31, <1>32, <1>33, <1>34,
     <1>35, <1>36 DEF Next

\* What a request or a job names was shown, and a checked request is for the present player.
LEMMA NamedStep == IInv /\ [Next]_vars => NamedInv'
<1> SUFFICES ASSUME IInv, [Next]_vars PROVE NamedInv'
  OBVIOUS
<1> USE DEF HandlerInv, GateInv, LockInv, ShownInv, NamedInv, Gated, Requesting, Locking,
           deviceVars, lockVars, jobVars, handlerVars, historyVars, sentVars, Goto, WorkerGoto, Leave,
           ReleaseGate, Refuse, Start, Session, LockAndCheck, Ends, SyncBegins, SyncStep,
           Works
<1>t. /\ pc \in [Handlers -> Positions] /\ wpc \in [Ids -> WorkerPositions]
      /\ req \in [Handlers -> Requests \cup {NoRequest}] /\ gated \in [Handlers -> BOOLEAN]
  BY DEF IInv, TypeOK, Positions, WorkerPositions
<1>r. \A h \in Handlers : pc[h] \in Gated \cup {"claimed"} => req[h].id \in Ids /\ req[h].kind \in Posts
  BY DEF IInv, HandlerInv, Requesting, Requests
<1>i. HandlerInv /\ GateInv /\ LockInv /\ ShownInv /\ NamedInv
  BY DEF IInv
<1>n. /\ base \in Nat /\ raw \in Nat /\ owner \in Nat
      /\ displays \subseteq [gen : Nat, at : Connections] /\ job \in Jobs \cup {NoJob}
  BY DEF IInv, TypeOK
<1>1. CASE SessionTries
  BY <1>1, <1>t, <1>i, <1>r, <1>n DEF SessionTries, Display
<1>2. CASE SessionReady
  BY <1>2, <1>t, <1>i, <1>r, <1>n DEF SessionReady, Display
<1>3. CASE SessionLost
  BY <1>3, <1>t, <1>i, <1>r, <1>n DEF SessionLost, Display
<1>4. ASSUME NEW h \in Handlers, NEW kind \in Posts, NEW id \in Ids, Post(h, kind, id)
      PROVE  NamedInv'
  <2>1. PICK r \in Requests :
         req' = [req EXCEPT ![h] = r] /\ [gen |-> r.gen, at |-> r.at] \in displays
    BY <1>4, PostRequest
  <2> QED
    BY <1>4, <1>t, <1>i, <2>1 DEF Post
<1>5. ASSUME NEW h \in Handlers, NEW through \in BOOLEAN, Read(h, through) PROVE NamedInv'
  BY <1>5, <1>t, <1>i, <1>r, <1>n DEF Read
<1>6. ASSUME NEW h \in Handlers, Admit(h) PROVE NamedInv'
  BY <1>6, <1>t, <1>i, <1>r, <1>n DEF Admit
<1>7. ASSUME NEW h \in Handlers, Turned(h) PROVE NamedInv'
  BY <1>7, <1>t, <1>i, <1>r, <1>n DEF Turned
<1>8. ASSUME NEW h \in Handlers, Outdated(h) PROVE NamedInv'
  BY <1>8, <1>t, <1>i, <1>r, <1>n DEF Outdated
<1>9. ASSUME NEW h \in Handlers, ReadLease(h) PROVE NamedInv'
  BY <1>9, <1>t, <1>i, <1>r, <1>n DEF ReadLease
<1>10. ASSUME NEW h \in Handlers, ReadEnds(h) PROVE NamedInv'
  BY <1>10, <1>t, <1>i, <1>r, <1>n DEF ReadEnds
<1>11. ASSUME NEW h \in Handlers, Check(h) PROVE NamedInv'
  BY <1>11, <1>t, <1>i, <1>r, <1>n DEF Check, Current, Shown, Here
<1>12. ASSUME NEW h \in Handlers, Call(h) PROVE NamedInv'
  BY <1>12, <1>t, <1>i, <1>r, <1>n DEF Call
<1>13. ASSUME NEW h \in Handlers, Disconnect(h) PROVE NamedInv'
  BY <1>13, <1>t, <1>i, <1>r, <1>n DEF Disconnect, Display
<1>14. ASSUME NEW h \in Handlers, Configure(h) PROVE NamedInv'
  BY <1>14, <1>t, <1>i, <1>r, <1>n DEF Configure, Current, Shown, Here, Commands
<1>15. ASSUME NEW h \in Handlers, OldExits(h) PROVE NamedInv'
  BY <1>15, <1>t, <1>i, <1>r, <1>n DEF OldExits, Display
<1>16. ASSUME NEW h \in Handlers, Swap(h) PROVE NamedInv'
  BY <1>16, <1>t, <1>i, <1>r, <1>n DEF Swap, Display
<1>17. ASSUME NEW h \in Handlers, Reconfigured(h) PROVE NamedInv'
  BY <1>17, <1>t, <1>i, <1>r, <1>n DEF Reconfigured
<1>18. ASSUME NEW h \in Handlers, reserve(h) PROVE NamedInv'
  BY <1>18, <1>t, <1>i, <1>r, <1>n DEF reserve
<1>19. ASSUME NEW h \in Handlers, Staged(h) PROVE NamedInv'
  <2>1. job \in Jobs
    BY <1>19, <1>n DEF Staged, IInv, JobInv
  <2>2. job' # NoJob /\ job'.gen = job.gen /\ job'.at = job.at
    BY <1>19, <2>1, JobPhase DEF Staged
  <2>3. /\ UNCHANGED <<displays, owner>>
        /\ \A k \in Handlers : pc'[k] \in Requesting => req'[k] = req[k] /\ pc'[k] = pc[k]
    BY <1>19, <1>t DEF Staged
  <2> QED
    BY <2>1, <2>2, <2>3, <1>i DEF NoJob, Jobs, Imports
<1>20. ASSUME NEW h \in Handlers, StagingFails(h) PROVE NamedInv'
  <2>1. job \in Jobs
    BY <1>20, <1>n DEF StagingFails, IInv, JobInv
  <2>2. job' # NoJob /\ job'.gen = job.gen /\ job'.at = job.at
    BY <1>20, <2>1, JobPhase DEF StagingFails
  <2>3. /\ UNCHANGED <<displays, owner>>
        /\ \A k \in Handlers : pc'[k] \in Requesting => req'[k] = req[k] /\ pc'[k] = pc[k]
    BY <1>20, <1>t DEF StagingFails
  <2> QED
    BY <2>1, <2>2, <2>3, <1>i DEF NoJob, Jobs, Imports
<1>21. ASSUME NEW h \in Handlers, ScanStarts(h) PROVE NamedInv'
  BY <1>21, <1>t, <1>i, <1>r, <1>n DEF ScanStarts
<1>22. ASSUME NEW h \in Handlers, ScanFailsToStart(h) PROVE NamedInv'
  BY <1>22, <1>t, <1>i, <1>r, <1>n DEF ScanFailsToStart
<1>23. ASSUME NEW h \in Handlers, SyncStart(h) PROVE NamedInv'
  BY <1>23, <1>t, <1>i, <1>r, <1>n DEF SyncStart
<1>24. ASSUME NEW h \in Handlers, SyncFailsToStart(h) PROVE NamedInv'
  BY <1>24, <1>t, <1>i, <1>r, <1>n DEF SyncFailsToStart
<1>25. ASSUME NEW i \in Ids, Recheck(i) PROVE NamedInv'
  <2>1. job \in Jobs
    BY <1>25, <1>n DEF Recheck
  <2>2. CASE Current(job.gen) /\ Ready /\ UNCHANGED job
    <3>1. /\ UNCHANGED <<owner, base, raw, displays, requests, handlerVars, sent>>
          /\ wpc[i] = "start" /\ wpc' = [wpc EXCEPT ![i] = "dispatch"]
      BY <1>25, <2>2 DEF Recheck
    <3> QED
      BY <1>t, <1>i, <1>r, <2>1, <2>2, <3>1
  <2>3. CASE job' = [job EXCEPT !.phase = "not_sent"]
    <3>1. job' # NoJob /\ job'.id = job.id /\ job'.gen = job.gen /\ job'.at = job.at /\ job'.phase = "not_sent"
      BY <2>1, <2>3, JobPhase
    <3>2. UNCHANGED <<owner, base, raw, displays, requests, handlerVars, sent>> /\ wpc[i] = "start"
      BY <1>25 DEF Recheck
    <3>3. wpc' = [wpc EXCEPT ![i] = "none"] \/ wpc' = [wpc EXCEPT ![i] = "dispatch"]
      BY <1>25 DEF Recheck
    <3>4. job.phase \in {"sending", "scanning"}
      BY <1>25 DEF IInv, JobInv, Recheck
    <3>5. wpc' = [wpc EXCEPT ![i] = "none"]
      BY <1>25, <3>1, <3>4 DEF Recheck
    <3>6. job # NoJob /\ pc' = pc /\ req' = req /\ displays' = displays /\ owner' = owner
      BY <2>1, <3>2 DEF NoJob, Jobs, Imports
    <3> QED
      BY <3>1, <3>6, <1>i
  <2> QED
    BY <1>25, <2>2, <2>3 DEF Recheck
<1>26. ASSUME NEW i \in Ids, Dispatch(i) PROVE NamedInv'
  BY <1>26, <1>t, <1>i, <1>r, <1>n DEF Dispatch
<1>27. ASSUME NEW i \in Ids, NotDispatched(i) PROVE NamedInv'
  <2>1. job \in Jobs /\ job # NoJob /\ UNCHANGED <<displays, owner, pc, req>>
    BY <1>27, <1>n DEF NotDispatched, Dies
  <2>2. PICK phase : job' = [job EXCEPT !.phase = phase]
    BY <1>27 DEF NotDispatched, Dies
  <2>3. job' # NoJob /\ job'.gen = job.gen /\ job'.at = job.at
    BY <2>1, <2>2, JobPhase
  <2> QED
    BY <1>t, <1>i, <1>r, <1>n, <2>1, <2>3
<1>28. ASSUME NEW i \in Ids, Finish(i) PROVE NamedInv'
  BY <1>28, <1>t, <1>i, <1>r, <1>n, JobPhase DEF Finish
<1>29. ASSUME NEW i \in Ids, Fails(i) PROVE NamedInv'
  BY <1>29, <1>t, <1>i, <1>r, <1>n, JobPhase DEF Fails
<1>30. ASSUME NEW i \in Ids, Report(i) PROVE NamedInv'
  <2>1. job \in Jobs /\ job # NoJob /\ UNCHANGED <<displays, owner, pc, req>>
    BY <1>30, <1>n DEF Report, Dies
  <2>2. PICK phase : job' = [job EXCEPT !.phase = phase]
    BY <1>30 DEF Report, Dies
  <2>3. job' # NoJob /\ job'.gen = job.gen /\ job'.at = job.at
    BY <2>1, <2>2, JobPhase
  <2> QED
    BY <1>t, <1>i, <1>r, <1>n, <2>1, <2>3
<1>31. ASSUME NEW i \in Ids, SyncLease(i) PROVE NamedInv'
  BY <1>31, <1>t, <1>i, <1>r, <1>n DEF SyncLease
<1>32. ASSUME NEW i \in Ids, Publish(i) PROVE NamedInv'
  BY <1>32, <1>t, <1>i, <1>r, <1>n DEF Publish
<1>33. ASSUME NEW i \in Ids, Verify(i) PROVE NamedInv'
  BY <1>33, <1>t, <1>i, <1>r, <1>n DEF Verify
<1>34. ASSUME NEW i \in Ids, Clear(i) PROVE NamedInv'
  BY <1>34, <1>t, <1>i, <1>r, <1>n DEF Clear
<1>35. ASSUME NEW i \in Ids, SyncFails(i) PROVE NamedInv'
  BY <1>35, <1>t, <1>i, <1>r, <1>n DEF SyncFails
<1>36. CASE UNCHANGED vars
  BY <1>36, <1>t, <1>i, <1>r, <1>n DEF vars
<1> QED
  BY <1>1, <1>2, <1>3, <1>4, <1>5, <1>6, <1>7, <1>8, <1>9, <1>10, <1>11, <1>12,
     <1>13, <1>14, <1>15, <1>16, <1>17, <1>18, <1>19, <1>20, <1>21, <1>22, <1>23,
     <1>24, <1>25, <1>26, <1>27, <1>28, <1>29, <1>30, <1>31, <1>32, <1>33, <1>34,
     <1>35, <1>36 DEF Next

\* A command leaves over a connection to the player it was shown for.
LEMMA SentStep == IInv /\ [Next]_vars => SentInv'
<1> SUFFICES ASSUME IInv, [Next]_vars PROVE SentInv'
  OBVIOUS
<1> USE DEF SentInv, deviceVars, lockVars, jobVars, handlerVars, historyVars, sentVars, Goto,
           WorkerGoto, Leave, ReleaseGate, Refuse, Start, Session, LockAndCheck, Ends,
           SyncBegins, SyncStep, Works
<1>t. /\ pc \in [Handlers -> Positions] /\ wpc \in [Ids -> WorkerPositions]
      /\ req \in [Handlers -> Requests \cup {NoRequest}] /\ gated \in [Handlers -> BOOLEAN]
  BY DEF IInv, TypeOK, Positions, WorkerPositions
<1>r. \A h \in Handlers : pc[h] \in Gated \cup {"claimed"} => req[h].id \in Ids /\ req[h].kind \in Posts
  BY DEF IInv, HandlerInv, Requesting, Requests
<1>i. SentInv
  BY DEF IInv
<1>1. CASE SessionTries
  BY <1>1, <1>i DEF SessionTries
<1>2. CASE SessionReady
  BY <1>2, <1>i DEF SessionReady
<1>3. CASE SessionLost
  BY <1>3, <1>i DEF SessionLost
<1>4. ASSUME NEW h \in Handlers, NEW kind \in Posts, NEW id \in Ids, Post(h, kind, id)
      PROVE  SentInv'
  BY <1>4, <1>i DEF Post
<1>5. ASSUME NEW h \in Handlers, NEW through \in BOOLEAN, Read(h, through) PROVE SentInv'
  BY <1>5, <1>i DEF Read
<1>6. ASSUME NEW h \in Handlers, Admit(h) PROVE SentInv'
  BY <1>6, <1>i DEF Admit
<1>7. ASSUME NEW h \in Handlers, Turned(h) PROVE SentInv'
  BY <1>7, <1>i DEF Turned
<1>8. ASSUME NEW h \in Handlers, Outdated(h) PROVE SentInv'
  BY <1>8, <1>i DEF Outdated
<1>9. ASSUME NEW h \in Handlers, ReadLease(h) PROVE SentInv'
  BY <1>9, <1>i DEF ReadLease
<1>10. ASSUME NEW h \in Handlers, ReadEnds(h) PROVE SentInv'
  BY <1>10, <1>i DEF ReadEnds
<1>11. ASSUME NEW h \in Handlers, Check(h) PROVE SentInv'
  BY <1>11, <1>i DEF Check
<1>12. ASSUME NEW h \in Handlers, Call(h) PROVE SentInv'
  <2> DEFINE C == [kind : Posts, id : Ids, seen : Connections, at : Connections]
             c == [kind |-> req[h].kind, id |-> req[h].id, seen |-> req[h].at, at |-> Here]
  <2>1. sent \in Seq(C) /\ c \in C
    BY <1>12, <1>i DEF Call, IInv, TypeOK, HandlerInv, Requesting, Gated, Requests, Connections, Here
  <2>2. c.seen.owner = c.at.owner
    BY <1>12, <1>i DEF Call, IInv, NamedInv, Here
  <2>3. sent' = sent \/ (sent' = Append(sent, c) /\ Admits(req[h].kind, req[h].gen))
    BY <1>12 DEF Call, Leaves
  <2>4. Admits(req[h].kind, req[h].gen) /\ c.kind \in Pinned => c.at = c.seen
    <3>1. [gen |-> req[h].gen, at |-> req[h].at] \in displays
      BY <1>12 DEF Call, IInv, NamedInv, Requesting, Gated
    <3> QED
      BY <3>1 DEF Admits, Current, IInv, ShownInv
  <2> HIDE DEF c, C
  <2> QED
    BY <1>i, <2>1, <2>2, <2>3, <2>4, AppendFacts
<1>13. ASSUME NEW h \in Handlers, Disconnect(h) PROVE SentInv'
  BY <1>13, <1>i DEF Disconnect
<1>14. ASSUME NEW h \in Handlers, Configure(h) PROVE SentInv'
  BY <1>14, <1>i DEF Configure
<1>15. ASSUME NEW h \in Handlers, OldExits(h) PROVE SentInv'
  BY <1>15, <1>i DEF OldExits
<1>16. ASSUME NEW h \in Handlers, Swap(h) PROVE SentInv'
  BY <1>16, <1>i DEF Swap
<1>17. ASSUME NEW h \in Handlers, Reconfigured(h) PROVE SentInv'
  BY <1>17, <1>i DEF Reconfigured
<1>18. ASSUME NEW h \in Handlers, reserve(h) PROVE SentInv'
  BY <1>18, <1>i DEF reserve
<1>19. ASSUME NEW h \in Handlers, Staged(h) PROVE SentInv'
  BY <1>19, <1>i DEF Staged
<1>20. ASSUME NEW h \in Handlers, StagingFails(h) PROVE SentInv'
  BY <1>20, <1>i DEF StagingFails
<1>21. ASSUME NEW h \in Handlers, ScanStarts(h) PROVE SentInv'
  BY <1>21, <1>i DEF ScanStarts
<1>22. ASSUME NEW h \in Handlers, ScanFailsToStart(h) PROVE SentInv'
  BY <1>22, <1>i DEF ScanFailsToStart
<1>23. ASSUME NEW h \in Handlers, SyncStart(h) PROVE SentInv'
  BY <1>23, <1>i DEF SyncStart
<1>24. ASSUME NEW h \in Handlers, SyncFailsToStart(h) PROVE SentInv'
  BY <1>24, <1>i DEF SyncFailsToStart
<1>25. ASSUME NEW i \in Ids, Recheck(i) PROVE SentInv'
  BY <1>25, <1>i DEF Recheck
<1>26. ASSUME NEW i \in Ids, Dispatch(i) PROVE SentInv'
  <2> DEFINE C == [kind : Posts, id : Ids, seen : Connections, at : Connections]
             c == [kind |-> job.kind, id |-> i, seen |-> job.at, at |-> Here]
  <2>1. sent \in Seq(C) /\ c \in C /\ job # NoJob /\ job.kind \in Imports
    BY <1>26, <1>i DEF Dispatch, IInv, TypeOK, Jobs, NoJob, Connections, Here, Posts
  <2>2. sent' = Append(sent, c)
    BY <1>26 DEF Dispatch, Leaves
  <2>3. c.at = c.seen
    <3>1. [gen |-> job.gen, at |-> job.at] \in displays
      BY <1>26, <2>1 DEF IInv, NamedInv
    <3>2. Current(job.gen)
      BY <1>26, <2>1 DEF Dispatch, Admits, Pinned
    <3> QED
      BY <3>1, <3>2 DEF Current, IInv, ShownInv
  <2> HIDE DEF c, C
  <2> QED
    BY <1>i, <2>1, <2>2, <2>3, AppendFacts
<1>27. ASSUME NEW i \in Ids, NotDispatched(i) PROVE SentInv'
  BY <1>27, <1>i DEF NotDispatched, Dies
<1>28. ASSUME NEW i \in Ids, Finish(i) PROVE SentInv'
  BY <1>28, <1>i DEF Finish
<1>29. ASSUME NEW i \in Ids, Fails(i) PROVE SentInv'
  BY <1>29, <1>i DEF Fails
<1>30. ASSUME NEW i \in Ids, Report(i) PROVE SentInv'
  BY <1>30, <1>i DEF Report, Dies
<1>31. ASSUME NEW i \in Ids, SyncLease(i) PROVE SentInv'
  BY <1>31, <1>i DEF SyncLease
<1>32. ASSUME NEW i \in Ids, Publish(i) PROVE SentInv'
  BY <1>32, <1>i DEF Publish
<1>33. ASSUME NEW i \in Ids, Verify(i) PROVE SentInv'
  BY <1>33, <1>i DEF Verify
<1>34. ASSUME NEW i \in Ids, Clear(i) PROVE SentInv'
  BY <1>34, <1>i DEF Clear
<1>35. ASSUME NEW i \in Ids, SyncFails(i) PROVE SentInv'
  BY <1>35, <1>i DEF SyncFails
<1>36. CASE UNCHANGED vars
  BY <1>36, <1>i DEF vars
<1> QED
  BY <1>1, <1>2, <1>3, <1>4, <1>5, <1>6, <1>7, <1>8, <1>9, <1>10, <1>11, <1>12,
     <1>13, <1>14, <1>15, <1>16, <1>17, <1>18, <1>19, <1>20, <1>21, <1>22, <1>23,
     <1>24, <1>25, <1>26, <1>27, <1>28, <1>29, <1>30, <1>31, <1>32, <1>33, <1>34,
     <1>35, <1>36 DEF Next

\* The library is declared unverified before anything is sent to it.
LEMMA FreshStep == IInv /\ [Next]_vars => FreshInv'
<1> SUFFICES ASSUME IInv, [Next]_vars PROVE FreshInv'
  OBVIOUS
<1> USE DEF HandlerInv, GateInv, FreshInv, Gated, Requesting, deviceVars, lockVars, jobVars,
           handlerVars, historyVars, sentVars, Goto, WorkerGoto, Leave, ReleaseGate, Refuse, Start,
           Session, LockAndCheck, Ends, SyncBegins, SyncStep, Works
<1>t. /\ pc \in [Handlers -> Positions] /\ wpc \in [Ids -> WorkerPositions]
      /\ req \in [Handlers -> Requests \cup {NoRequest}] /\ gated \in [Handlers -> BOOLEAN]
  BY DEF IInv, TypeOK, Positions, WorkerPositions
<1>r. \A h \in Handlers : pc[h] \in Gated \cup {"claimed"} => req[h].id \in Ids /\ req[h].kind \in Posts
  BY DEF IInv, HandlerInv, Requesting, Requests
<1>i. HandlerInv /\ GateInv /\ FreshInv
  BY DEF IInv
<1>1. CASE SessionTries
  BY <1>1, <1>t, <1>i, <1>r DEF SessionTries
<1>2. CASE SessionReady
  BY <1>2, <1>t, <1>i, <1>r DEF SessionReady
<1>3. CASE SessionLost
  BY <1>3, <1>t, <1>i, <1>r DEF SessionLost
<1>4. ASSUME NEW h \in Handlers, NEW kind \in Posts, NEW id \in Ids, Post(h, kind, id)
      PROVE  FreshInv'
  BY <1>4, <1>t, <1>i, <1>r DEF Post
<1>5. ASSUME NEW h \in Handlers, NEW through \in BOOLEAN, Read(h, through) PROVE FreshInv'
  BY <1>5, <1>t, <1>i, <1>r DEF Read
<1>6. ASSUME NEW h \in Handlers, Admit(h) PROVE FreshInv'
  BY <1>6, <1>t, <1>i, <1>r DEF Admit
<1>7. ASSUME NEW h \in Handlers, Turned(h) PROVE FreshInv'
  BY <1>7, <1>t, <1>i, <1>r DEF Turned
<1>8. ASSUME NEW h \in Handlers, Outdated(h) PROVE FreshInv'
  BY <1>8, <1>t, <1>i, <1>r DEF Outdated
<1>9. ASSUME NEW h \in Handlers, ReadLease(h) PROVE FreshInv'
  BY <1>9, <1>t, <1>i, <1>r DEF ReadLease
<1>10. ASSUME NEW h \in Handlers, ReadEnds(h) PROVE FreshInv'
  BY <1>10, <1>t, <1>i, <1>r DEF ReadEnds
<1>11. ASSUME NEW h \in Handlers, Check(h) PROVE FreshInv'
  BY <1>11, <1>t, <1>i, <1>r DEF Check
<1>12. ASSUME NEW h \in Handlers, Call(h) PROVE FreshInv'
  BY <1>12, <1>t, <1>i, <1>r DEF Call
<1>13. ASSUME NEW h \in Handlers, Disconnect(h) PROVE FreshInv'
  BY <1>13, <1>t, <1>i, <1>r DEF Disconnect
<1>14. ASSUME NEW h \in Handlers, Configure(h) PROVE FreshInv'
  BY <1>14, <1>t, <1>i, <1>r DEF Configure
<1>15. ASSUME NEW h \in Handlers, OldExits(h) PROVE FreshInv'
  BY <1>15, <1>t, <1>i, <1>r DEF OldExits
<1>16. ASSUME NEW h \in Handlers, Swap(h) PROVE FreshInv'
  BY <1>16, <1>t, <1>i, <1>r DEF Swap
<1>17. ASSUME NEW h \in Handlers, Reconfigured(h) PROVE FreshInv'
  BY <1>17, <1>t, <1>i, <1>r DEF Reconfigured
<1>18. ASSUME NEW h \in Handlers, reserve(h) PROVE FreshInv'
  BY <1>18, <1>t, <1>i, <1>r DEF reserve
<1>19. ASSUME NEW h \in Handlers, Staged(h) PROVE FreshInv'
  BY <1>19, <1>t, <1>i, <1>r DEF Staged
<1>20. ASSUME NEW h \in Handlers, StagingFails(h) PROVE FreshInv'
  BY <1>20, <1>t, <1>i, <1>r DEF StagingFails
<1>21. ASSUME NEW h \in Handlers, ScanStarts(h) PROVE FreshInv'
  BY <1>21, <1>t, <1>i, <1>r DEF ScanStarts
<1>22. ASSUME NEW h \in Handlers, ScanFailsToStart(h) PROVE FreshInv'
  BY <1>22, <1>t, <1>i, <1>r DEF ScanFailsToStart
<1>23. ASSUME NEW h \in Handlers, SyncStart(h) PROVE FreshInv'
  BY <1>23, <1>t, <1>i, <1>r DEF SyncStart
<1>24. ASSUME NEW h \in Handlers, SyncFailsToStart(h) PROVE FreshInv'
  BY <1>24, <1>t, <1>i, <1>r DEF SyncFailsToStart
<1>25. ASSUME NEW i \in Ids, Recheck(i) PROVE FreshInv'
  BY <1>25, <1>t, <1>i, <1>r DEF Recheck
<1>26. ASSUME NEW i \in Ids, Dispatch(i) PROVE FreshInv'
  BY <1>26, <1>t, <1>i, <1>r DEF Dispatch
<1>27. ASSUME NEW i \in Ids, NotDispatched(i) PROVE FreshInv'
  BY <1>27, <1>t, <1>i, <1>r DEF NotDispatched, Dies
<1>28. ASSUME NEW i \in Ids, Finish(i) PROVE FreshInv'
  BY <1>28, <1>t, <1>i, <1>r DEF Finish
<1>29. ASSUME NEW i \in Ids, Fails(i) PROVE FreshInv'
  BY <1>29, <1>t, <1>i, <1>r DEF Fails
<1>30. ASSUME NEW i \in Ids, Report(i) PROVE FreshInv'
  BY <1>30, <1>t, <1>i, <1>r DEF Report, Dies
<1>31. ASSUME NEW i \in Ids, SyncLease(i) PROVE FreshInv'
  BY <1>31, <1>t, <1>i, <1>r DEF SyncLease
<1>32. ASSUME NEW i \in Ids, Publish(i) PROVE FreshInv'
  BY <1>32, <1>t, <1>i, <1>r DEF Publish
<1>33. ASSUME NEW i \in Ids, Verify(i) PROVE FreshInv'
  BY <1>33, <1>t, <1>i, <1>r DEF Verify
<1>34. ASSUME NEW i \in Ids, Clear(i) PROVE FreshInv'
  BY <1>34, <1>t, <1>i, <1>r DEF Clear
<1>35. ASSUME NEW i \in Ids, SyncFails(i) PROVE FreshInv'
  BY <1>35, <1>t, <1>i, <1>r DEF SyncFails
<1>36. CASE UNCHANGED vars
  BY <1>36, <1>t, <1>i, <1>r DEF vars
<1> QED
  BY <1>1, <1>2, <1>3, <1>4, <1>5, <1>6, <1>7, <1>8, <1>9, <1>10, <1>11, <1>12,
     <1>13, <1>14, <1>15, <1>16, <1>17, <1>18, <1>19, <1>20, <1>21, <1>22, <1>23,
     <1>24, <1>25, <1>26, <1>27, <1>28, <1>29, <1>30, <1>31, <1>32, <1>33, <1>34,
     <1>35, <1>36 DEF Next

----------------------------------------------------------------------------
(* Types                                                                   *)

\* Another id is claimed within the budget.
LEMMA ClaimFits ==
  ASSUME IInv, NEW id \in Ids, claim(id)
  PROVE  requests' \subseteq Ids /\ Cardinality(requests') <= RequestBudget
<1>1. requests \subseteq Ids /\ IsFiniteSet(requests) /\ RequestBudget \in Nat
  BY WebConstants, FS_Subset DEF IInv, TypeOK
<1>2. Cardinality(requests') = Cardinality(requests) + 1 /\ Cardinality(requests) \in Nat
  BY <1>1, FS_AddElement, FS_CardinalityType DEF claim
<1> QED
  BY <1>1, <1>2 DEF claim

\* What is shown has a generation and a connection.
LEMMA DisplayType ==
  ASSUME NEW b \in Nat, NEW r \in Nat, NEW o \in Nat
  PROVE  [gen |-> b + r, at |-> [owner |-> o, raw |-> r]] \in [gen : Nat, at : Connections]
BY DEF Connections

\* A job keeps its type whatever its new phase.
LEMMA JobType ==
  ASSUME NEW j \in Jobs, NEW phase \in {"receiving", "scanning", "sending", "done", "not_sent",
                                        "uncertain"}
  PROVE  [j EXCEPT !.phase = phase] \in Jobs
BY DEF Jobs

DeviceOK == /\ target \in Targets /\ owner \in Nat /\ base \in Nat /\ raw \in Nat
            /\ conn \in {"down", "connecting", "ready", "over"}
            /\ gate \in BOOLEAN /\ lock \in BOOLEAN /\ lease \in BOOLEAN
            /\ displays \subseteq [gen : Nat, at : Connections] /\ touched \in BOOLEAN
            /\ attempted \in BOOLEAN /\ overlapped \in BOOLEAN

ThreadsOK == /\ requests \subseteq Ids /\ Cardinality(requests) <= RequestBudget
             /\ pc \in [Handlers -> Positions] /\ wpc \in [Ids -> WorkerPositions]
             /\ req \in [Handlers -> Requests \cup {NoRequest}] /\ gated \in [Handlers -> BOOLEAN]

WorkOK == /\ job \in Jobs \cup {NoJob}
          /\ syncing \in [key : Targets \cup {NoTarget}, gen : Nat]
          /\ verified \in [key : Targets \cup {NoTarget}, gen : Nat]
          /\ sent \in Seq([kind : Posts, id : Ids, seen : Connections, at : Connections])

\* The device, the locks and what was shown keep their types.
LEMMA DeviceStep == IInv /\ [Next]_vars => DeviceOK'
<1> SUFFICES ASSUME IInv, [Next]_vars PROVE DeviceOK'
  OBVIOUS
<1> USE DEF DeviceOK, deviceVars, lockVars, jobVars, handlerVars, historyVars, sentVars, Goto,
           WorkerGoto, Leave, ReleaseGate, Refuse, Start, Session, LockAndCheck, Ends,
           SyncBegins, SyncStep, Works, Display, Shown, Here, Connections
<1>t. DeviceOK
  BY DEF IInv, TypeOK
<1>r. \A h \in Handlers : pc[h] \in Gated => req[h] \in Requests
  BY DEF IInv, HandlerInv, Requesting
<1>1. CASE SessionTries
  BY <1>1, <1>t DEF SessionTries
<1>2. CASE SessionReady
  BY <1>2, <1>t DEF SessionReady
<1>3. CASE SessionLost
  BY <1>3, <1>t DEF SessionLost
<1>4. ASSUME NEW h \in Handlers, NEW kind \in Posts, NEW id \in Ids, Post(h, kind, id)
      PROVE  DeviceOK'
  BY <1>4, <1>t DEF Post
<1>5. ASSUME NEW h \in Handlers, NEW through \in BOOLEAN, Read(h, through) PROVE DeviceOK'
  BY <1>5, <1>t DEF Read
<1>6. ASSUME NEW h \in Handlers, Admit(h) PROVE DeviceOK'
  BY <1>6, <1>t DEF Admit
<1>7. ASSUME NEW h \in Handlers, Turned(h) PROVE DeviceOK'
  BY <1>7, <1>t DEF Turned
<1>8. ASSUME NEW h \in Handlers, Outdated(h) PROVE DeviceOK'
  BY <1>8, <1>t DEF Outdated
<1>9. ASSUME NEW h \in Handlers, ReadLease(h) PROVE DeviceOK'
  BY <1>9, <1>t DEF ReadLease
<1>10. ASSUME NEW h \in Handlers, ReadEnds(h) PROVE DeviceOK'
  BY <1>10, <1>t DEF ReadEnds
<1>11. ASSUME NEW h \in Handlers, Check(h) PROVE DeviceOK'
  BY <1>11, <1>t DEF Check
<1>12. ASSUME NEW h \in Handlers, Call(h) PROVE DeviceOK'
  BY <1>12, <1>t DEF Call
<1>13. ASSUME NEW h \in Handlers, Disconnect(h) PROVE DeviceOK'
  <2>2. base' \in Nat /\ raw' \in Nat /\ owner' \in Nat
    BY <1>13, <1>t DEF Disconnect
  <2>3. displays' \subseteq [gen : Nat, at : Connections]
    <3>1. [gen |-> base' + raw', at |-> [owner |-> owner', raw |-> raw']] \in [gen : Nat, at : Connections]
      BY <2>2, DisplayType
    <3> QED
      BY <1>13, <1>t, <3>1 DEF Disconnect
  <2>4. gate' \in BOOLEAN /\ lock' \in BOOLEAN
    BY <1>13, <1>t DEF Disconnect, IInv, TypeOK
  <2> QED
    BY <1>13, <1>t, <2>2, <2>3, <2>4 DEF Disconnect
<1>14. ASSUME NEW h \in Handlers, Configure(h) PROVE DeviceOK'
  BY <1>14, <1>t DEF Configure
<1>15. ASSUME NEW h \in Handlers, OldExits(h) PROVE DeviceOK'
  BY <1>15, <1>t DEF OldExits
<1>16. ASSUME NEW h \in Handlers, Swap(h) PROVE DeviceOK'
  <2>1. req[h].to \in Targets
    BY <1>16, <1>r DEF Swap, Gated, Requests
  <2>2. base' \in Nat /\ raw' \in Nat /\ owner' \in Nat
    BY <1>16, <1>t DEF Swap, NextBase
  <2>3. displays' \subseteq [gen : Nat, at : Connections]
    <3>1. [gen |-> base' + raw', at |-> [owner |-> owner', raw |-> raw']] \in [gen : Nat, at : Connections]
      BY <2>2, DisplayType
    <3> QED
      BY <1>16, <1>t, <3>1 DEF Swap
  <2>4. gate' \in BOOLEAN /\ lock' \in BOOLEAN
    BY <1>16, <1>t DEF Swap, IInv, TypeOK
  <2> QED
    BY <1>16, <1>t, <2>1, <2>2, <2>3, <2>4 DEF Swap
<1>17. ASSUME NEW h \in Handlers, Reconfigured(h) PROVE DeviceOK'
  BY <1>17, <1>t DEF Reconfigured
<1>18. ASSUME NEW h \in Handlers, reserve(h) PROVE DeviceOK'
  BY <1>18, <1>t DEF reserve
<1>19. ASSUME NEW h \in Handlers, Staged(h) PROVE DeviceOK'
  BY <1>19, <1>t DEF Staged
<1>20. ASSUME NEW h \in Handlers, StagingFails(h) PROVE DeviceOK'
  BY <1>20, <1>t DEF StagingFails
<1>21. ASSUME NEW h \in Handlers, ScanStarts(h) PROVE DeviceOK'
  BY <1>21, <1>t DEF ScanStarts
<1>22. ASSUME NEW h \in Handlers, ScanFailsToStart(h) PROVE DeviceOK'
  BY <1>22, <1>t DEF ScanFailsToStart
<1>23. ASSUME NEW h \in Handlers, SyncStart(h) PROVE DeviceOK'
  BY <1>23, <1>t DEF SyncStart
<1>24. ASSUME NEW h \in Handlers, SyncFailsToStart(h) PROVE DeviceOK'
  BY <1>24, <1>t DEF SyncFailsToStart
<1>25. ASSUME NEW i \in Ids, Recheck(i) PROVE DeviceOK'
  BY <1>25, <1>t DEF Recheck
<1>26. ASSUME NEW i \in Ids, Dispatch(i) PROVE DeviceOK'
  BY <1>26, <1>t DEF Dispatch
<1>27. ASSUME NEW i \in Ids, NotDispatched(i) PROVE DeviceOK'
  BY <1>27, <1>t DEF NotDispatched, Dies
<1>28. ASSUME NEW i \in Ids, Finish(i) PROVE DeviceOK'
  BY <1>28, <1>t DEF Finish
<1>29. ASSUME NEW i \in Ids, Fails(i) PROVE DeviceOK'
  BY <1>29, <1>t DEF Fails
<1>30. ASSUME NEW i \in Ids, Report(i) PROVE DeviceOK'
  BY <1>30, <1>t DEF Report, Dies
<1>31. ASSUME NEW i \in Ids, SyncLease(i) PROVE DeviceOK'
  BY <1>31, <1>t DEF SyncLease
<1>32. ASSUME NEW i \in Ids, Publish(i) PROVE DeviceOK'
  BY <1>32, <1>t DEF Publish
<1>33. ASSUME NEW i \in Ids, Verify(i) PROVE DeviceOK'
  BY <1>33, <1>t DEF Verify
<1>34. ASSUME NEW i \in Ids, Clear(i) PROVE DeviceOK'
  BY <1>34, <1>t DEF Clear
<1>35. ASSUME NEW i \in Ids, SyncFails(i) PROVE DeviceOK'
  BY <1>35, <1>t DEF SyncFails
<1>36. CASE UNCHANGED vars
  BY <1>36, <1>t DEF vars
<1> QED
  BY <1>1, <1>2, <1>3, <1>4, <1>5, <1>6, <1>7, <1>8, <1>9, <1>10, <1>11, <1>12,
     <1>13, <1>14, <1>15, <1>16, <1>17, <1>18, <1>19, <1>20, <1>21, <1>22, <1>23,
     <1>24, <1>25, <1>26, <1>27, <1>28, <1>29, <1>30, <1>31, <1>32, <1>33, <1>34,
     <1>35, <1>36 DEF Next

\* The threads keep their types.
LEMMA ThreadsStep == IInv /\ [Next]_vars => ThreadsOK'
<1> SUFFICES ASSUME IInv, [Next]_vars PROVE ThreadsOK'
  OBVIOUS
<1> USE DEF ThreadsOK, deviceVars, lockVars, jobVars, handlerVars, historyVars, sentVars, Goto,
           WorkerGoto, Leave, ReleaseGate, Refuse, Start, Session, LockAndCheck, Ends,
           SyncBegins, SyncStep, Works, Positions, WorkerPositions
<1>t. ThreadsOK
  BY DEF IInv, TypeOK
<1>r. \A h \in Handlers : pc[h] \in Gated => req[h] \in Requests
  BY DEF IInv, HandlerInv, Requesting
<1>1. CASE SessionTries
  BY <1>1, <1>t DEF SessionTries
<1>2. CASE SessionReady
  BY <1>2, <1>t DEF SessionReady
<1>3. CASE SessionLost
  BY <1>3, <1>t DEF SessionLost
<1>4. ASSUME NEW h \in Handlers, NEW kind \in Posts, NEW id \in Ids, Post(h, kind, id)
      PROVE  ThreadsOK'
  <2>1. PICK r \in Requests : req' = [req EXCEPT ![h] = r]
    BY <1>4, PostRequest
  <2>2. requests' \subseteq Ids /\ Cardinality(requests') <= RequestBudget
    BY <1>4, ClaimFits DEF Post
  <2> QED
    BY <1>4, <1>t, <2>1, <2>2 DEF Post
<1>5. ASSUME NEW h \in Handlers, NEW through \in BOOLEAN, Read(h, through) PROVE ThreadsOK'
  BY <1>5, <1>t DEF Read
<1>6. ASSUME NEW h \in Handlers, Admit(h) PROVE ThreadsOK'
  BY <1>6, <1>t DEF Admit
<1>7. ASSUME NEW h \in Handlers, Turned(h) PROVE ThreadsOK'
  BY <1>7, <1>t DEF Turned
<1>8. ASSUME NEW h \in Handlers, Outdated(h) PROVE ThreadsOK'
  BY <1>8, <1>t DEF Outdated
<1>9. ASSUME NEW h \in Handlers, ReadLease(h) PROVE ThreadsOK'
  BY <1>9, <1>t DEF ReadLease
<1>10. ASSUME NEW h \in Handlers, ReadEnds(h) PROVE ThreadsOK'
  BY <1>10, <1>t DEF ReadEnds
<1>11. ASSUME NEW h \in Handlers, Check(h) PROVE ThreadsOK'
  BY <1>11, <1>t DEF Check
<1>12. ASSUME NEW h \in Handlers, Call(h) PROVE ThreadsOK'
  BY <1>12, <1>t DEF Call
<1>13. ASSUME NEW h \in Handlers, Disconnect(h) PROVE ThreadsOK'
  BY <1>13, <1>t DEF Disconnect
<1>14. ASSUME NEW h \in Handlers, Configure(h) PROVE ThreadsOK'
  BY <1>14, <1>t DEF Configure
<1>15. ASSUME NEW h \in Handlers, OldExits(h) PROVE ThreadsOK'
  BY <1>15, <1>t DEF OldExits
<1>16. ASSUME NEW h \in Handlers, Swap(h) PROVE ThreadsOK'
  BY <1>16, <1>t DEF Swap
<1>17. ASSUME NEW h \in Handlers, Reconfigured(h) PROVE ThreadsOK'
  BY <1>17, <1>t DEF Reconfigured
<1>18. ASSUME NEW h \in Handlers, reserve(h) PROVE ThreadsOK'
  BY <1>18, <1>t DEF reserve
<1>19. ASSUME NEW h \in Handlers, Staged(h) PROVE ThreadsOK'
  <2>1. req[h] \in Requests
    BY <1>19, <1>r DEF Staged, Gated
  <2> QED
    BY <1>19, <1>t, <2>1 DEF Staged, Requests
<1>20. ASSUME NEW h \in Handlers, StagingFails(h) PROVE ThreadsOK'
  BY <1>20, <1>t DEF StagingFails
<1>21. ASSUME NEW h \in Handlers, ScanStarts(h) PROVE ThreadsOK'
  <2>1. req[h] \in Requests
    BY <1>21, <1>r DEF ScanStarts, Gated
  <2> QED
    BY <1>21, <1>t, <2>1 DEF ScanStarts, Requests
<1>22. ASSUME NEW h \in Handlers, ScanFailsToStart(h) PROVE ThreadsOK'
  BY <1>22, <1>t DEF ScanFailsToStart
<1>23. ASSUME NEW h \in Handlers, SyncStart(h) PROVE ThreadsOK'
  <2>1. req[h] \in Requests
    BY <1>23, <1>r DEF SyncStart, Gated
  <2> QED
    BY <1>23, <1>t, <2>1 DEF SyncStart, Requests
<1>24. ASSUME NEW h \in Handlers, SyncFailsToStart(h) PROVE ThreadsOK'
  BY <1>24, <1>t DEF SyncFailsToStart
<1>25. ASSUME NEW i \in Ids, Recheck(i) PROVE ThreadsOK'
  BY <1>25, <1>t DEF Recheck
<1>26. ASSUME NEW i \in Ids, Dispatch(i) PROVE ThreadsOK'
  BY <1>26, <1>t DEF Dispatch
<1>27. ASSUME NEW i \in Ids, NotDispatched(i) PROVE ThreadsOK'
  BY <1>27, <1>t DEF NotDispatched, Dies
<1>28. ASSUME NEW i \in Ids, Finish(i) PROVE ThreadsOK'
  BY <1>28, <1>t DEF Finish
<1>29. ASSUME NEW i \in Ids, Fails(i) PROVE ThreadsOK'
  BY <1>29, <1>t DEF Fails
<1>30. ASSUME NEW i \in Ids, Report(i) PROVE ThreadsOK'
  BY <1>30, <1>t DEF Report, Dies
<1>31. ASSUME NEW i \in Ids, SyncLease(i) PROVE ThreadsOK'
  BY <1>31, <1>t DEF SyncLease
<1>32. ASSUME NEW i \in Ids, Publish(i) PROVE ThreadsOK'
  BY <1>32, <1>t DEF Publish
<1>33. ASSUME NEW i \in Ids, Verify(i) PROVE ThreadsOK'
  BY <1>33, <1>t DEF Verify
<1>34. ASSUME NEW i \in Ids, Clear(i) PROVE ThreadsOK'
  BY <1>34, <1>t DEF Clear
<1>35. ASSUME NEW i \in Ids, SyncFails(i) PROVE ThreadsOK'
  BY <1>35, <1>t DEF SyncFails
<1>36. CASE UNCHANGED vars
  BY <1>36, <1>t DEF vars
<1> QED
  BY <1>1, <1>2, <1>3, <1>4, <1>5, <1>6, <1>7, <1>8, <1>9, <1>10, <1>11, <1>12,
     <1>13, <1>14, <1>15, <1>16, <1>17, <1>18, <1>19, <1>20, <1>21, <1>22, <1>23,
     <1>24, <1>25, <1>26, <1>27, <1>28, <1>29, <1>30, <1>31, <1>32, <1>33, <1>34,
     <1>35, <1>36 DEF Next

\* The jobs, the synchronisation and what was sent keep their types.
LEMMA WorkStep == IInv /\ [Next]_vars => WorkOK'
<1> SUFFICES ASSUME IInv, [Next]_vars PROVE WorkOK'
  OBVIOUS
<1> USE DEF WorkOK, deviceVars, lockVars, jobVars, handlerVars, historyVars, sentVars, Goto,
           WorkerGoto, Leave, ReleaseGate, Refuse, Start, Session, LockAndCheck, Ends,
           SyncBegins, SyncStep, Works, NoSync
<1>t. WorkOK
  BY DEF IInv, TypeOK
<1>r. \A h \in Handlers : pc[h] \in Gated => req[h] \in Requests
  BY DEF IInv, HandlerInv, Requesting
<1>1. CASE SessionTries
  BY <1>1, <1>t DEF SessionTries
<1>2. CASE SessionReady
  BY <1>2, <1>t DEF SessionReady
<1>3. CASE SessionLost
  BY <1>3, <1>t DEF SessionLost
<1>4. ASSUME NEW h \in Handlers, NEW kind \in Posts, NEW id \in Ids, Post(h, kind, id)
      PROVE  WorkOK'
  BY <1>4, <1>t DEF Post
<1>5. ASSUME NEW h \in Handlers, NEW through \in BOOLEAN, Read(h, through) PROVE WorkOK'
  BY <1>5, <1>t DEF Read
<1>6. ASSUME NEW h \in Handlers, Admit(h) PROVE WorkOK'
  BY <1>6, <1>t DEF Admit
<1>7. ASSUME NEW h \in Handlers, Turned(h) PROVE WorkOK'
  BY <1>7, <1>t DEF Turned
<1>8. ASSUME NEW h \in Handlers, Outdated(h) PROVE WorkOK'
  BY <1>8, <1>t DEF Outdated
<1>9. ASSUME NEW h \in Handlers, ReadLease(h) PROVE WorkOK'
  BY <1>9, <1>t DEF ReadLease
<1>10. ASSUME NEW h \in Handlers, ReadEnds(h) PROVE WorkOK'
  BY <1>10, <1>t DEF ReadEnds
<1>11. ASSUME NEW h \in Handlers, Check(h) PROVE WorkOK'
  BY <1>11, <1>t DEF Check
<1>12. ASSUME NEW h \in Handlers, Call(h) PROVE WorkOK'
  <2> DEFINE C == [kind : Posts, id : Ids, seen : Connections, at : Connections]
             c == [kind |-> req[h].kind, id |-> req[h].id, seen |-> req[h].at, at |-> Here]
  <2>1. sent \in Seq(C) /\ c \in C
    BY <1>12, <1>t DEF Call, IInv, TypeOK, HandlerInv, Requesting, Gated, Requests, Jobs, NoJob, Connections, Here, Posts
  <2>2. sent' = Append(sent, c) \/ sent' = sent
    BY <1>12 DEF Call, Leaves
  <2>3. UNCHANGED jobVars
    BY <1>12 DEF Call
  <2> HIDE DEF c, C
  <2>4. sent' \in Seq(C)
    BY <2>1, <2>2, AppendFacts
  <2> QED
    BY <1>t, <2>3, <2>4 DEF C
<1>13. ASSUME NEW h \in Handlers, Disconnect(h) PROVE WorkOK'
  BY <1>13, <1>t DEF Disconnect
<1>14. ASSUME NEW h \in Handlers, Configure(h) PROVE WorkOK'
  BY <1>14, <1>t DEF Configure
<1>15. ASSUME NEW h \in Handlers, OldExits(h) PROVE WorkOK'
  BY <1>15, <1>t DEF OldExits
<1>16. ASSUME NEW h \in Handlers, Swap(h) PROVE WorkOK'
  BY <1>16, <1>t DEF Swap
<1>17. ASSUME NEW h \in Handlers, Reconfigured(h) PROVE WorkOK'
  BY <1>17, <1>t DEF Reconfigured
<1>18. ASSUME NEW h \in Handlers, reserve(h) PROVE WorkOK'
  <2>1. req[h] \in Requests
    BY <1>18, <1>r DEF reserve, Gated
  <2> QED
    BY <1>18, <1>t, <2>1 DEF reserve, Requests, Jobs, Imports
<1>19. ASSUME NEW h \in Handlers, Staged(h) PROVE WorkOK'
  <2>1. job \in Jobs
    BY <1>19, <1>t DEF Staged, IInv, JobInv
  <2>2. PICK phase \in {"receiving", "scanning", "sending", "done", "not_sent", "uncertain"} :
         job' = [job EXCEPT !.phase = phase]
    BY <1>19 DEF Staged
  <2>3. UNCHANGED <<sent, syncing>> /\ verified' \in {verified, NoSync}
    BY <1>19 DEF Staged
  <2>4. job' \in Jobs
    BY <2>1, <2>2, JobType
  <2> QED
    BY <1>t, <2>3, <2>4 DEF NoSync
<1>20. ASSUME NEW h \in Handlers, StagingFails(h) PROVE WorkOK'
  <2>1. job \in Jobs
    BY <1>20, <1>t DEF StagingFails, IInv, JobInv
  <2>2. PICK phase \in {"receiving", "scanning", "sending", "done", "not_sent", "uncertain"} :
         job' = [job EXCEPT !.phase = phase]
    BY <1>20 DEF StagingFails
  <2>3. UNCHANGED <<sent, syncing>> /\ verified' \in {verified, NoSync}
    BY <1>20 DEF StagingFails
  <2>4. job' \in Jobs
    BY <2>1, <2>2, JobType
  <2> QED
    BY <1>t, <2>3, <2>4 DEF NoSync
<1>21. ASSUME NEW h \in Handlers, ScanStarts(h) PROVE WorkOK'
  BY <1>21, <1>t DEF ScanStarts
<1>22. ASSUME NEW h \in Handlers, ScanFailsToStart(h) PROVE WorkOK'
  BY <1>22, <1>t DEF ScanFailsToStart
<1>23. ASSUME NEW h \in Handlers, SyncStart(h) PROVE WorkOK'
  <2>1. req[h] \in Requests
    BY <1>23, <1>r DEF SyncStart, Gated
  <2> QED
    BY <1>23, <1>t, <2>1 DEF SyncStart, Requests, DeviceOK, IInv, TypeOK
<1>24. ASSUME NEW h \in Handlers, SyncFailsToStart(h) PROVE WorkOK'
  <2>1. req[h] \in Requests
    BY <1>24, <1>r DEF SyncFailsToStart, Gated
  <2> QED
    BY <1>24, <1>t, <2>1 DEF SyncFailsToStart, Requests, IInv, TypeOK
<1>25. ASSUME NEW i \in Ids, Recheck(i) PROVE WorkOK'
  <2>1. job \in Jobs
    BY <1>25, <1>t DEF Recheck
  <2>2. UNCHANGED <<sent, syncing>> /\ verified' \in {verified, NoSync}
    BY <1>25 DEF Recheck
  <2>3. job' \in Jobs
    <3>1. [job EXCEPT !.phase = "not_sent"] \in Jobs
      BY <2>1, JobType
    <3> QED
      BY <1>25, <2>1, <3>1 DEF Recheck
  <2> QED
    BY <1>t, <2>2, <2>3 DEF NoSync
<1>26. ASSUME NEW i \in Ids, Dispatch(i) PROVE WorkOK'
  <2> DEFINE C == [kind : Posts, id : Ids, seen : Connections, at : Connections]
             c == [kind |-> job.kind, id |-> i, seen |-> job.at, at |-> Here]
  <2>1. sent \in Seq(C) /\ c \in C
    BY <1>26, <1>t DEF Dispatch, IInv, TypeOK, HandlerInv, Requesting, Gated, Requests, Jobs, NoJob, Connections, Here, Posts
  <2>2. sent' = Append(sent, c)
    BY <1>26 DEF Dispatch, Leaves
  <2>3. UNCHANGED jobVars
    BY <1>26 DEF Dispatch
  <2> HIDE DEF c, C
  <2>4. sent' \in Seq(C)
    BY <2>1, <2>2, AppendFacts
  <2> QED
    BY <1>t, <2>3, <2>4 DEF C
<1>27. ASSUME NEW i \in Ids, NotDispatched(i) PROVE WorkOK'
  <2>1. job \in Jobs
    BY <1>27, <1>t DEF NotDispatched, Dies, IInv, JobInv
  <2>2. PICK phase \in {"receiving", "scanning", "sending", "done", "not_sent", "uncertain"} :
         job' = [job EXCEPT !.phase = phase]
    BY <1>27, <2>1 DEF NotDispatched, Dies, Jobs
  <2>3. UNCHANGED <<sent, syncing>> /\ verified' \in {verified, NoSync}
    BY <1>27 DEF NotDispatched, Dies
  <2>4. job' \in Jobs
    BY <2>1, <2>2, JobType
  <2> QED
    BY <1>t, <2>3, <2>4 DEF NoSync
<1>28. ASSUME NEW i \in Ids, Finish(i) PROVE WorkOK'
  <2>1. job \in Jobs
    BY <1>28, <1>t DEF Finish, IInv, JobInv
  <2>2. PICK phase \in {"receiving", "scanning", "sending", "done", "not_sent", "uncertain"} :
         job' = [job EXCEPT !.phase = phase]
    BY <1>28 DEF Finish
  <2>3. UNCHANGED <<sent, syncing>> /\ verified' \in {verified, NoSync}
    BY <1>28 DEF Finish
  <2>4. job' \in Jobs
    BY <2>1, <2>2, JobType
  <2> QED
    BY <1>t, <2>3, <2>4 DEF NoSync
<1>29. ASSUME NEW i \in Ids, Fails(i) PROVE WorkOK'
  BY <1>29, <1>t DEF Fails
<1>30. ASSUME NEW i \in Ids, Report(i) PROVE WorkOK'
  <2>1. job \in Jobs
    BY <1>30, <1>t DEF Report, Dies, IInv, JobInv
  <2>2. PICK phase \in {"receiving", "scanning", "sending", "done", "not_sent", "uncertain"} :
         job' = [job EXCEPT !.phase = phase]
    BY <1>30, <2>1 DEF Report, Dies, Jobs
  <2>3. UNCHANGED <<sent, syncing>> /\ verified' \in {verified, NoSync}
    BY <1>30 DEF Report, Dies
  <2>4. job' \in Jobs
    BY <2>1, <2>2, JobType
  <2> QED
    BY <1>t, <2>3, <2>4 DEF NoSync
<1>31. ASSUME NEW i \in Ids, SyncLease(i) PROVE WorkOK'
  BY <1>31, <1>t DEF SyncLease
<1>32. ASSUME NEW i \in Ids, Publish(i) PROVE WorkOK'
  BY <1>32, <1>t DEF Publish
<1>33. ASSUME NEW i \in Ids, Verify(i) PROVE WorkOK'
  BY <1>33, <1>t DEF Verify
<1>34. ASSUME NEW i \in Ids, Clear(i) PROVE WorkOK'
  BY <1>34, <1>t DEF Clear
<1>35. ASSUME NEW i \in Ids, SyncFails(i) PROVE WorkOK'
  BY <1>35, <1>t DEF SyncFails
<1>36. CASE UNCHANGED vars
  BY <1>36, <1>t DEF vars
<1> QED
  BY <1>1, <1>2, <1>3, <1>4, <1>5, <1>6, <1>7, <1>8, <1>9, <1>10, <1>11, <1>12,
     <1>13, <1>14, <1>15, <1>16, <1>17, <1>18, <1>19, <1>20, <1>21, <1>22, <1>23,
     <1>24, <1>25, <1>26, <1>27, <1>28, <1>29, <1>30, <1>31, <1>32, <1>33, <1>34,
     <1>35, <1>36 DEF Next

----------------------------------------------------------------------------
(* The inductive invariant, and what follows from it                       *)

LEMMA InitOK == Init => IInv
<1> SUFFICES ASSUME Init PROVE IInv
  OBVIOUS
<1> USE DEF Init, NoJob, NoSync, NoRequest
<1>1. TypeOK
  <2>1. Cardinality({}) = 0 /\ 0 <= RequestBudget
    BY FS_EmptySet, WebConstants
  <2>2. FALSE \in BOOLEAN /\ Here \in Connections
    BY DEF Here, Connections
  <2>3. displays \subseteq [gen : Nat, at : Connections]
    BY <2>2
  <2>4. <<>> \in Seq([kind : Posts, id : Ids, seen : Connections, at : Connections])
    OBVIOUS
  <2> QED
    BY <2>1, <2>2, <2>3, <2>4 DEF TypeOK
<1>2. HandlerInv /\ GateInv /\ LockInv /\ LeaseInv
  BY DEF HandlerInv, GateInv, LockInv, LeaseInv, Gated, Requesting, Locking, Leasing
<1>3. IdInv /\ SentAtMostOnce /\ JobInv /\ SentInv
  BY DEF IdInv, SentAtMostOnce, JobInv, SentInv, Requesting, Gated, WasSent
<1>4. ShownInv /\ NamedInv
  BY DEF ShownInv, NamedInv, GenerationsNeverReused, Shown, Here, Requesting, Gated
<1>5. FreshInv
  BY DEF FreshInv
<1> QED
  BY <1>1, <1>2, <1>3, <1>4, <1>5 DEF IInv

LEMMA StepOK == IInv /\ [Next]_vars => IInv'
<1> SUFFICES ASSUME IInv, [Next]_vars PROVE IInv'
  OBVIOUS
<1>1. HandlerInv' /\ GateInv' /\ LockInv' /\ LeaseInv'
  BY HandlerStep, GateStep, LockStep, LeaseStep
<1>2. IdInv' /\ SentAtMostOnce' /\ JobInv'
  BY IdStep, OnceStep, JobStep
<1>3. ShownInv' /\ NamedInv' /\ SentInv' /\ FreshInv'
  BY ShownStep, NamedStep, SentStep, FreshStep
<1>4. TypeOK'
  <2>1. DeviceOK' /\ ThreadsOK' /\ WorkOK'
    BY DeviceStep, ThreadsStep, WorkStep
  <2> QED
    BY <2>1 DEF TypeOK, DeviceOK, ThreadsOK, WorkOK, Positions, WorkerPositions
<1> QED
  BY <1>1, <1>2, <1>3, <1>4 DEF IInv

\* The strengthened invariant: where an id, the gate, the locks and the
\* freshness mark are at every position of every thread.
THEOREM Invariance == Spec => []IInv
<1>1. Init => IInv
  BY InitOK
<1>2. IInv /\ [Next]_vars => IInv'
  BY StepOK
<1> QED
  BY <1>1, <1>2, PTL DEF Spec

\* The server's variables keep their types, and at most RequestBudget ids are
\* ever claimed (server.py, claim).
THEOREM TypeCorrect == Spec => []TypeOK
<1>1. IInv => TypeOK
  BY DEF IInv
<1> QED
  BY <1>1, Invariance, PTL

\* A request leaves as a command at most once, for any number of threads,
\* ids and repetitions (server.py, claim).
THEOREM SentOnce == Spec => []SentAtMostOnce
<1>1. IInv => SentAtMostOnce
  BY DEF IInv
<1> QED
  BY <1>1, Invariance, PTL

\* A command leaves only to the player, and if it is pinned only over the
\* connection, that its browser was shown (device.py, protocol_generation).
THEOREM SentRight == Spec => []SentWhereShown
<1>1. IInv => SentWhereShown
  BY DEF IInv, ShownInv, SentInv, SentWhereShown
<1> QED
  BY <1>1, Invariance, PTL

\* What the page says of the latest job and of the library is true (imports.py,
\* run; catalogue.py, state): a job is "not_sent" after it may have left only
\* where a read on its connection cleared the flag of its failed call first.
THEOREM PageTrue == Spec => []PageIsHonest
<1>1. ASSUME IInv PROVE PageIsHonest
  <2>1. target # NoTarget
    BY <1>1, WebConstants DEF IInv, TypeOK
  <2>2. FreshIsUntouched
    BY <1>1, <2>1 DEF IInv, FreshInv, FreshIsUntouched, NoSync
  <2> QED
    BY <1>1, <2>2 DEF IInv, JobInv, PageIsHonest
<1> QED
  BY <1>1, Invariance, PTL

\* Two members of a set are the same: it is empty or has one.
LEMMA AtMostOne ==
  ASSUME NEW S, NEW locked \in BOOLEAN, \A x, y \in S : x = y, locked <=> S # {}
  PROVE  HeldByOne(locked, S)
<1>1. CASE S = {}
  BY <1>1, FS_EmptySet DEF HeldByOne
<1>2. CASE S # {}
  <2>1. PICK x : S = {x}
    BY <1>2
  <2> QED
    BY <1>2, <2>1, FS_Singleton DEF HeldByOne
<1> QED
  BY <1>1, <1>2

\* The gate, the lock and the lease each have one holder when they are
\* locked and none when they are open, after every early return and failure
\* (imports.py, gate; device.py, lock), except as Stranded says.
THEOREM OneHolder == Spec => []LocksHaveOneHolder
<1>1. ASSUME IInv PROVE LocksHaveOneHolder
  <2> USE DEF GateHolders, LockHolders, LeaseHolders
  <2>1. /\ GateInv /\ LockInv /\ LeaseInv /\ HandlerInv
        /\ gate \in BOOLEAN /\ lock \in BOOLEAN /\ lease \in BOOLEAN
    BY <1>1 DEF IInv, TypeOK
  <2>2. \A x, y \in GateHolders : x = y
    BY <2>1 DEF GateInv
  <2>3. \A x, y \in LockHolders : x = y
    BY <2>1 DEF LockInv, Locking
  <2>4. \A x, y \in LeaseHolders : x = y
    BY <2>1 DEF LeaseInv, LockInv, GateInv, Leasing, Locking
  <2>5. HeldByOne(lock, LockHolders)
    <3>1. lock <=> LockHolders # {}
      BY <2>1 DEF LockInv, Locking
    <3> QED
      BY <2>1, <2>3, <3>1, AtMostOne
  <2>6. HeldByOne(lease, LeaseHolders)
    <3>1. lease <=> LeaseHolders # {}
      BY <2>1 DEF LeaseInv, Leasing
    <3> QED
      BY <2>1, <2>4, <3>1, AtMostOne
  <2>7. HeldByOne(gate, GateHolders) \/ Stranded
    <3>1. GateHolders # {} => gate
      BY <2>1 DEF GateInv
    <3>2. CASE gate <=> GateHolders # {}
      BY <2>1, <2>2, <3>2, AtMostOne
    <3>3. CASE gate /\ GateHolders = {}
      BY <2>1, <3>3 DEF GateInv, Stranded
    <3> QED
      BY <2>1, <3>1, <3>2, <3>3
  <2> QED
    BY <2>5, <2>6, <2>7 DEF LocksHaveOneHolder
<1> QED
  BY <1>1, Invariance, PTL

=============================================================================
