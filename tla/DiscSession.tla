---------------------------- MODULE DiscSession ----------------------------
(***************************************************************************)
(* The persistent foreground session of controller/session.py: the         *)
(* connection worker (_run), explicit connect / disconnect / exit, callers *)
(* that lease the connection for one guarded operation, and the mutation   *)
(* guard of controller/device.py on the leased LiveClient.                 *)
(*                                                                         *)
(* A LiveClient is named by the generation of the worker attempt that      *)
(* created it; 0 stands for None.  A region under `guard` is one step,     *)
(* except disconnect(), which shuts a socket while it holds the lock.      *)
(***************************************************************************)
EXTENDS Naturals
LOCAL INSTANCE TLC

CONSTANTS Callers,        \* threads that call _perform
          Worker,         \* the "disc-session" thread
          Nobody,         \* value of a free lock
          Phases,         \* mutation phases of one operation
          MaxGeneration   \* bound on attempts and explicit disconnects

ASSUME ThreadAssumption == /\ Worker \notin Callers
                           /\ Nobody \notin Callers \cup {Worker}
ASSUME PhaseAssumption == {"mode", "selection"} \subseteq Phases
ASSUME BoundAssumption == MaxGeneration \in Nat

VARIABLES
  enabled,            \* the owner wants a connection
  exiting,            \* __exit__: "no", "set" (shutdown set), "left"
  generation,         \* counter every lease is pinned to
  connection,         \* the published connection status
  client,             \* self.client
  closing,            \* disconnect() holds `guard` and is closing the socket
  operations,         \* owner of the operations lock
  wpc, wgen, wclient, \* the worker: position, local generation and client
  skip,               \* the attempt ended in `continue`: no backoff
  fresh,              \* delay == self.backoff
  life,               \* life[g]: LiveClient g is none, open, closing or shut
  hot,                \* clients whose mutation interval is still running
  active,             \* clients recording events for an operation
  mutation_phase, attempted_phases, mutation_attempted,
  pc, requested, lease, result,   \* the callers
  written             \* history: mutations of the call put on the wire

workerVars == <<wpc, wgen, wclient, skip, fresh>>
guardVars  == <<enabled, exiting, generation, connection, client, closing>>
phaseVars  == <<active, mutation_phase, attempted_phases, mutation_attempted>>
callVars   == <<pc, requested, lease, result, written>>
vars == <<guardVars, operations, workerVars, life, hot, phaseVars, callVars>>

Gens == 1 .. MaxGeneration

Connections == {"disconnected", "connecting", "reconnecting", "ready"}
WorkerPcs == {"top", "lock", "create", "publish", "handshake", "announce",
              "monitor", "due", "health", "finally", "settle", "backoff", "stopped"}
CallerPcs == {"idle", "waiting", "leased", "body", "sending",
              "returned", "raised", "report"}
Results == {"none", "not_sent", "uncertain", "confirmed"}

\* Callers that hold the operations lock, and those of them inside the lease.
InLease == {"body", "sending", "returned", "raised"}
Holding == InLease \cup {"leased"}

TypeOK ==
  /\ enabled \in BOOLEAN /\ closing \in BOOLEAN
  /\ exiting \in {"no", "set", "left"}
  /\ generation \in Nat
  /\ connection \in Connections
  /\ client \in Gens \cup {0}
  /\ operations \in Callers \cup {Worker, Nobody}
  /\ wpc \in WorkerPcs
  /\ wgen \in Gens \cup {0} /\ wclient \in {0, wgen}
  /\ skip \in BOOLEAN /\ fresh \in BOOLEAN
  /\ life \in [Gens -> {"none", "open", "closing", "shut"}]
  /\ hot \in SUBSET Gens
  /\ active \in [Gens -> BOOLEAN]
  /\ mutation_phase \in [Gens -> Phases]
  /\ attempted_phases \in [Gens -> SUBSET Phases]
  /\ mutation_attempted \in [Gens -> BOOLEAN]
  /\ pc \in [Callers -> CallerPcs]
  /\ requested \in [Callers -> Nat]
  /\ lease \in [Callers -> Gens \cup {0}]
  /\ result \in [Callers -> Results]
  /\ written \in [Callers -> [Phases -> Nat]]

Init ==
  /\ enabled = FALSE /\ exiting = "no" /\ generation = 0
  /\ connection = "disconnected" /\ client = 0 /\ closing = FALSE
  /\ operations = Nobody
  /\ wpc = "top" /\ wgen = 0 /\ wclient = 0 /\ skip = FALSE /\ fresh = TRUE
  /\ life = [g \in Gens |-> "none"] /\ hot = {}
  /\ active = [g \in Gens |-> FALSE]
  /\ mutation_phase = [g \in Gens |-> "selection"]
  /\ attempted_phases = [g \in Gens |-> {}]
  /\ mutation_attempted = [g \in Gens |-> FALSE]
  /\ pc = [c \in Callers |-> "idle"]
  /\ requested = [c \in Callers |-> 0] /\ lease = [c \in Callers |-> 0]
  /\ result = [c \in Callers |-> "none"]
  /\ written = [c \in Callers |-> [p \in Phases |-> 0]]

----------------------------------------------------------------------------
(* LiveClient                                                              *)

Closed(g) == life[g] \in {"closing", "shut"}    \* closed.is_set()

\* close() ran to its end: the socket is shut down.
Shut(g) == life' = IF g \in Gens THEN [life EXCEPT ![g] = "shut"] ELSE life

\* The reader met EOF, an error or a full event budget and called close():
\* the flag is set first, the socket is shut down after it.
ReaderClose(g) ==
  /\ life[g] = "open"
  /\ life' = [life EXCEPT ![g] = "closing"]
  /\ UNCHANGED <<guardVars, operations, workerVars, hot, phaseVars, callVars>>

ReaderShut(g) ==
  /\ life[g] = "closing"
  /\ Shut(g)
  /\ UNCHANGED <<guardVars, operations, workerVars, hot, phaseVars, callVars>>

\* The 2.1 seconds since the last attempt on this connection have passed.
IntervalPasses(g) ==
  /\ g \in hot /\ ~Closed(g)
  /\ hot' = hot \ {g}
  /\ UNCHANGED <<guardVars, operations, workerVars, life, phaseVars, callVars>>

----------------------------------------------------------------------------
(* The owner: connect, disconnect and the context's exit                   *)

connect ==
  /\ ~closing /\ ~enabled
  /\ enabled' = TRUE
  /\ UNCHANGED <<exiting, generation, connection, client, closing, operations,
                 workerVars, life, hot, phaseVars, callVars>>

\* disconnect() takes `guard`, retires the generation and sets the flag of
\* the client; it keeps the lock until the socket is shut down.
BeginDisconnect ==
  /\ ~closing
  /\ closing' = TRUE
  /\ enabled' = FALSE
  /\ generation' = generation + 1
  /\ life' = IF client # 0 /\ life[client] = "open"
               THEN [life EXCEPT ![client] = "closing"] ELSE life
  /\ UNCHANGED <<connection, client, operations, workerVars, hot, phaseVars,
                 callVars>>

disconnect ==
  /\ generation < MaxGeneration
  /\ BeginDisconnect
  /\ UNCHANGED exiting

\* Mutant: forgets the client without shutting its socket.
Bug_EndDisconnect ==
  /\ closing
  /\ closing' = FALSE /\ client' = 0 /\ connection' = "disconnected"
  /\ UNCHANGED <<enabled, exiting, generation, operations, workerVars, life, hot,
                 phaseVars, callVars>>

EndDisconnect ==
  /\ closing
  /\ closing' = FALSE
  /\ Shut(client)
  /\ client' = 0
  /\ connection' = "disconnected"
  /\ UNCHANGED <<enabled, exiting, generation, operations, workerVars, hot,
                 phaseVars, callVars>>

\* __exit__ sets shutdown, then disconnects.
SetShutdown ==
  /\ exiting = "no"
  /\ exiting' = "set"
  /\ UNCHANGED <<enabled, generation, connection, client, closing, operations,
                 workerVars, life, hot, phaseVars, callVars>>

ExitDisconnect ==
  /\ exiting = "set"
  /\ exiting' = "left"
  /\ BeginDisconnect

shutdown == exiting # "no"

----------------------------------------------------------------------------
(* The worker thread, _run                                                 *)

\* The attempt no longer belongs to the owner's current wish.
Superseded == ~enabled \/ wgen # generation

\* Mutant: shutdown is looked at only while a connection is wanted.
Bug_WorkerStops ==
  /\ wpc = "top" /\ shutdown /\ enabled
  /\ wpc' = "stopped"
  /\ UNCHANGED <<guardVars, operations, wgen, wclient, skip, fresh, life, hot,
                 phaseVars, callVars>>

WorkerStops ==
  /\ wpc = "top" /\ shutdown
  /\ wpc' = "stopped"
  /\ UNCHANGED <<guardVars, operations, wgen, wclient, skip, fresh, life, hot,
                 phaseVars, callVars>>

StartAttempt ==
  /\ wpc = "top" /\ ~closing /\ enabled /\ ~shutdown
  /\ generation < MaxGeneration
  /\ generation' = generation + 1
  /\ wgen' = generation + 1 /\ wclient' = 0
  /\ connection' = IF fresh THEN "connecting" ELSE "reconnecting"
  /\ wpc' = "lock"
  /\ UNCHANGED <<enabled, exiting, client, closing, operations, skip, fresh,
                 life, hot, phaseVars, callVars>>

\* Mutant: connects without waiting for the operations lock.
Bug_LockOperations ==
  /\ wpc = "lock"
  /\ operations' = Worker
  /\ wpc' = "create"
  /\ UNCHANGED <<guardVars, wgen, wclient, skip, fresh, life, hot, phaseVars,
                 callVars>>

\* A fresh connection is never swapped in while an old operation unwinds.
LockOperations ==
  /\ wpc = "lock" /\ operations = Nobody
  /\ operations' = Worker
  /\ wpc' = "create"
  /\ UNCHANGED <<guardVars, wgen, wclient, skip, fresh, life, hot, phaseVars,
                 callVars>>

\* Mutant: names the client after the shared counter, not the local one.
Bug_CreateClient ==
  /\ wpc = "create"
  /\ life' = [life EXCEPT ![wgen] = "open"]
  /\ hot' = hot \cup {wgen}
  /\ wclient' = generation
  /\ wpc' = "publish"
  /\ UNCHANGED <<guardVars, operations, wgen, skip, fresh, phaseVars, callVars>>

CreateClient ==
  /\ wpc = "create"
  /\ life' = [life EXCEPT ![wgen] = "open"]
  /\ hot' = hot \cup {wgen}
  /\ wclient' = wgen
  /\ wpc' = "publish"
  /\ UNCHANGED <<guardVars, operations, wgen, skip, fresh, phaseVars, callVars>>

\* An exception leaves the `with self.operations` block; an unanswered
\* request has closed the client before.
AttemptFails ==
  /\ \/ wpc = "create" /\ UNCHANGED life
     \/ wpc = "handshake" /\ (Shut(wgen) \/ UNCHANGED life)
  /\ operations' = Nobody
  /\ wpc' = "finally"
  /\ UNCHANGED <<guardVars, wgen, wclient, skip, fresh, hot, phaseVars, callVars>>

Publish ==
  /\ wpc = "publish" /\ ~closing
  /\ \/ /\ Superseded
        /\ Shut(wgen)
        /\ operations' = Nobody /\ skip' = TRUE
        /\ wpc' = "finally"
        /\ UNCHANGED client
     \/ /\ ~Superseded
        /\ client' = wgen
        /\ wpc' = "handshake"
        /\ UNCHANGED <<life, operations, skip>>
  /\ UNCHANGED <<enabled, exiting, generation, connection, closing, wgen,
                 wclient, fresh, hot, phaseVars, callVars>>

\* require_client, play_mode and now_playing were answered.
Handshake ==
  /\ wpc = "handshake" /\ ~Closed(wgen)
  /\ wpc' = "announce"
  /\ UNCHANGED <<guardVars, operations, wgen, wclient, skip, fresh, life, hot,
                 phaseVars, callVars>>

\* Mutant: publishes ready without looking at the generation again.
Bug_Announce ==
  /\ wpc = "announce" /\ ~closing
  /\ operations' = Nobody
  /\ connection' = "ready" /\ wpc' = "monitor"
  /\ UNCHANGED <<enabled, exiting, generation, client, closing, wgen, wclient,
                 skip, fresh, life, hot, phaseVars, callVars>>

Announce ==
  /\ wpc = "announce" /\ ~closing
  /\ operations' = Nobody
  /\ \/ /\ Superseded \/ Closed(wgen)
        /\ skip' = TRUE /\ wpc' = "finally"
        /\ UNCHANGED connection
     \/ /\ ~Superseded /\ ~Closed(wgen)
        /\ connection' = "ready" /\ wpc' = "monitor"
        /\ UNCHANGED skip
  /\ UNCHANGED <<enabled, exiting, generation, client, closing, wgen, wclient,
                 fresh, life, hot, phaseVars, callVars>>

LeaveMonitor ==
  /\ wpc = "monitor"
  /\ shutdown \/ Closed(wgen) \/ (~closing /\ Superseded)
  /\ wpc' = "finally"
  /\ UNCHANGED <<guardVars, operations, wgen, wclient, skip, fresh, life, hot,
                 phaseVars, callVars>>

\* The checks passed and `guard` is free again before the lock is tried.
StayReady ==
  /\ wpc = "monitor" /\ ~shutdown /\ ~Closed(wgen) /\ ~closing /\ ~Superseded
  /\ wpc' = "due"
  /\ UNCHANGED <<guardVars, operations, wgen, wclient, skip, fresh, life, hot,
                 phaseVars, callVars>>

\* It is not time yet, or operations.acquire(False) finds the lock taken.
SkipHealth ==
  /\ wpc = "due"
  /\ wpc' = "monitor"
  /\ UNCHANGED <<guardVars, operations, wgen, wclient, skip, fresh, life, hot,
                 phaseVars, callVars>>

BeginHealth ==
  /\ wpc = "due" /\ operations = Nobody
  /\ operations' = Worker
  /\ wpc' = "health"
  /\ UNCHANGED <<guardVars, wgen, wclient, skip, fresh, life, hot, phaseVars,
                 callVars>>

\* A timeout closes the connection; a malformed reply only raises.
EndHealth ==
  /\ wpc = "health"
  /\ operations' = Nobody
  /\ \/ ~Closed(wgen) /\ wpc' = "monitor" /\ UNCHANGED life
     \/ wpc' = "finally" /\ (Shut(wgen) \/ UNCHANGED life)
  /\ UNCHANGED <<guardVars, wgen, wclient, skip, fresh, hot, phaseVars,
                 callVars>>

CloseClient ==
  /\ wpc = "finally"
  /\ Shut(wclient)
  /\ wpc' = "settle"
  /\ UNCHANGED <<guardVars, operations, wgen, wclient, skip, fresh, hot,
                 phaseVars, callVars>>

\* Mutant: the status of the ended attempt is left as it is.
Bug_Settle ==
  /\ wpc = "settle" /\ ~closing
  /\ client' = IF wgen = generation THEN 0 ELSE client
  /\ wpc' = IF skip THEN "top" ELSE "backoff"
  /\ skip' = FALSE
  /\ UNCHANGED <<enabled, exiting, generation, connection, closing, operations,
                 wgen, wclient, fresh, life, hot, phaseVars, callVars>>

Settle ==
  /\ wpc = "settle" /\ ~closing
  /\ IF wgen = generation
       THEN /\ client' = 0
            /\ connection' = IF enabled THEN "reconnecting" ELSE "disconnected"
       ELSE UNCHANGED <<client, connection>>
  /\ wpc' = IF skip THEN "top" ELSE "backoff"
  /\ skip' = FALSE
  /\ UNCHANGED <<enabled, exiting, generation, closing, operations, wgen,
                 wclient, fresh, life, hot, phaseVars, callVars>>

\* The wait ends by time or by a notification.  The doubled delay is never
\* the initial one again, even after a reset.
Backoff ==
  /\ wpc = "backoff" /\ ~closing
  /\ fresh' = FALSE
  /\ wpc' = "top"
  /\ UNCHANGED <<guardVars, operations, wgen, wclient, skip, life, hot,
                 phaseVars, callVars>>

WorkerStep ==
  \/ WorkerStops \/ StartAttempt \/ LockOperations \/ CreateClient
  \/ AttemptFails \/ Publish \/ Handshake \/ Announce \/ LeaveMonitor
  \/ StayReady \/ SkipHealth \/ BeginHealth \/ EndHealth \/ CloseClient \/ Settle \/ Backoff

----------------------------------------------------------------------------
(* Callers: _perform around operation() and a callback                     *)

\* The connection can be leased: checked before and after the wait.
Leasable == connection = "ready" /\ client # 0 /\ ~Closed(client)

\* expected is the generation the application displayed, 0 for none.
Call(c, expected) ==
  /\ pc[c] = "idle" /\ ~closing
  /\ written' = [written EXCEPT ![c] = [p \in Phases |-> 0]]
  /\ \/ /\ Leasable /\ expected \in {0, generation}
        /\ requested' = [requested EXCEPT ![c] = generation]
        /\ pc' = [pc EXCEPT ![c] = "waiting"]
        /\ result' = [result EXCEPT ![c] = "none"]
     \/ /\ ~Leasable \/ expected \notin {0, generation}
        /\ result' = [result EXCEPT ![c] = "not_sent"]
        /\ UNCHANGED <<pc, requested>>
  /\ UNCHANGED <<guardVars, operations, workerVars, life, hot, phaseVars, lease>>

Acquire(c) ==
  /\ pc[c] = "waiting" /\ operations = Nobody
  /\ operations' = c
  /\ pc' = [pc EXCEPT ![c] = "leased"]
  /\ UNCHANGED <<guardVars, workerVars, life, hot, phaseVars, requested, lease,
                 result, written>>

\* Mutant: the generation is not checked again after the wait.
Bug_Begin(c) ==
  /\ pc[c] = "leased" /\ ~closing
  /\ Leasable
  /\ active' = [active EXCEPT ![client] = TRUE]
  /\ mutation_attempted' = [mutation_attempted EXCEPT ![client] = FALSE]
  /\ mutation_phase' = [mutation_phase EXCEPT ![client] = "selection"]
  /\ attempted_phases' = [attempted_phases EXCEPT ![client] = {}]
  /\ lease' = [lease EXCEPT ![c] = client]
  /\ pc' = [pc EXCEPT ![c] = "body"]
  /\ UNCHANGED <<guardVars, operations, workerVars, life, hot, requested,
                 result, written>>

\* The second check under `guard`, and begin_operation.
Begin(c) ==
  /\ pc[c] = "leased" /\ ~closing
  /\ Leasable /\ requested[c] = generation
  /\ active' = [active EXCEPT ![client] = TRUE]
  /\ mutation_attempted' = [mutation_attempted EXCEPT ![client] = FALSE]
  /\ mutation_phase' = [mutation_phase EXCEPT ![client] = "selection"]
  /\ attempted_phases' = [attempted_phases EXCEPT ![client] = {}]
  /\ lease' = [lease EXCEPT ![c] = client]
  /\ pc' = [pc EXCEPT ![c] = "body"]
  /\ UNCHANGED <<guardVars, operations, workerVars, life, hot, requested,
                 result, written>>

Refuse(c) ==
  /\ pc[c] = "leased" /\ ~closing
  /\ ~Leasable \/ requested[c] # generation
  /\ operations' = Nobody
  /\ pc' = [pc EXCEPT ![c] = "idle"]
  /\ requested' = [requested EXCEPT ![c] = 0]
  /\ result' = [result EXCEPT ![c] = "not_sent"]
  /\ UNCHANGED <<guardVars, workerVars, life, hot, phaseVars, lease, written>>

\* Mutant: a mode change may follow another mutation.
Bug_begin_phase(c, name) ==
  /\ pc[c] = "body"
  /\ name \notin attempted_phases[lease[c]]
  /\ mutation_phase' = [mutation_phase EXCEPT ![lease[c]] = name]
  /\ UNCHANGED <<guardVars, operations, workerVars, life, hot, active,
                 attempted_phases, mutation_attempted, callVars>>

begin_phase(c, name) ==
  /\ pc[c] = "body"
  /\ name \notin attempted_phases[lease[c]]
  /\ name = "mode" => attempted_phases[lease[c]] = {}
  /\ mutation_phase' = [mutation_phase EXCEPT ![lease[c]] = name]
  /\ UNCHANGED <<guardVars, operations, workerVars, life, hot, active,
                 attempted_phases, mutation_attempted, callVars>>

\* Mutants: a replay is not refused; the attempt is not recorded.
Bug_Replay(c) ==
  LET g == lease[c] IN
  /\ pc[c] = "body" /\ ~Closed(g) /\ g \notin hot
  /\ hot' = hot \cup {g}
  /\ attempted_phases' = [attempted_phases EXCEPT ![g] = @ \cup {mutation_phase[g]}]
  /\ mutation_attempted' = [mutation_attempted EXCEPT ![g] = TRUE]
  /\ pc' = [pc EXCEPT ![c] = "sending"]
  /\ UNCHANGED <<guardVars, operations, workerVars, life, active,
                 mutation_phase, requested, lease, result, written>>

Bug_Unrecorded(c) ==
  LET g == lease[c] IN
  /\ pc[c] = "body" /\ ~Closed(g) /\ g \notin hot
  /\ mutation_phase[g] \notin attempted_phases[g]
  /\ hot' = hot \cup {g}
  /\ attempted_phases' = [attempted_phases EXCEPT ![g] = @ \cup {mutation_phase[g]}]
  /\ pc' = [pc EXCEPT ![c] = "sending"]
  /\ UNCHANGED <<guardVars, operations, workerVars, life, active, mutation_phase,
                 mutation_attempted, requested, lease, result, written>>

\* sendall of a mutation up to the write: the checks, the wait for the
\* interval, and the records made before any byte can leave.
Attempt(c) ==
  LET g == lease[c] IN
  /\ pc[c] = "body"
  /\ ~Closed(g)
  /\ mutation_phase[g] \notin attempted_phases[g]
  /\ g \notin hot
  /\ hot' = hot \cup {g}
  /\ attempted_phases' = [attempted_phases EXCEPT ![g] = @ \cup {mutation_phase[g]}]
  /\ mutation_attempted' = [mutation_attempted EXCEPT ![g] = TRUE]
  /\ pc' = [pc EXCEPT ![c] = "sending"]
  /\ UNCHANGED <<guardVars, operations, workerVars, life, active,
                 mutation_phase, requested, lease, result, written>>

\* The bytes leave as long as the socket is not shut down, even when the
\* closed flag is already set.
PutOnWire(c) ==
  /\ life[lease[c]] # "shut"
  /\ written' = [written EXCEPT ![c][mutation_phase[lease[c]]] = @ + 1]

Write(c) ==
  /\ pc[c] = "sending"
  /\ PutOnWire(c)
  /\ pc' = [pc EXCEPT ![c] = "body"]
  /\ UNCHANGED <<guardVars, operations, workerVars, life, hot, phaseVars,
                 requested, lease, result>>

\* OSError: LiveSocket closes the session and raises; the bytes may have left.
WriteFails(c) ==
  /\ pc[c] = "sending"
  /\ PutOnWire(c) \/ UNCHANGED written
  /\ Shut(lease[c])
  /\ pc' = [pc EXCEPT ![c] = "raised"]
  /\ UNCHANGED <<guardVars, operations, workerVars, hot, phaseVars, requested,
                 lease, result>>

\* The callback raises: a refused mutation, a failed check, a lost or
\* timed-out query (which closes the connection).
Raise(c) ==
  /\ pc[c] = "body"
  /\ Shut(lease[c]) \/ UNCHANGED life
  /\ pc' = [pc EXCEPT ![c] = "raised"]
  /\ UNCHANGED <<guardVars, operations, workerVars, hot, phaseVars, requested,
                 lease, result, written>>

\* The callback returns and _perform corrects its claim inside the lease.
Return(c) ==
  /\ pc[c] = "body"
  /\ \E status \in (IF ~mutation_attempted[lease[c]] THEN {"not_sent"}
                    ELSE IF Closed(lease[c]) THEN {"uncertain"}
                    ELSE {"confirmed", "uncertain"}) :
       result' = [result EXCEPT ![c] = status]
  /\ pc' = [pc EXCEPT ![c] = "returned"]
  /\ UNCHANGED <<guardVars, operations, workerVars, life, hot, phaseVars,
                 requested, lease, written>>

\* end_operation, then the operations lock is released.  The locals of a
\* call that is over are forgotten.
EndLease(c) ==
  /\ active' = [active EXCEPT ![lease[c]] = FALSE]
  /\ operations' = Nobody
  /\ requested' = [requested EXCEPT ![c] = 0]
  /\ UNCHANGED <<guardVars, workerVars, life, hot, mutation_phase,
                 attempted_phases, mutation_attempted, result, written>>

EndReturned(c) ==
  /\ pc[c] = "returned"
  /\ EndLease(c)
  /\ pc' = [pc EXCEPT ![c] = "idle"]
  /\ lease' = [lease EXCEPT ![c] = 0]

\* Mutant: an exception does not release the operations lock.
Bug_EndRaised(c) ==
  /\ pc[c] = "raised"
  /\ active' = [active EXCEPT ![lease[c]] = FALSE]
  /\ pc' = [pc EXCEPT ![c] = "report"]
  /\ UNCHANGED <<guardVars, operations, workerVars, life, hot, mutation_phase,
                 attempted_phases, mutation_attempted, requested, lease, result,
                 written>>

EndRaised(c) ==
  /\ pc[c] = "raised"
  /\ EndLease(c)
  /\ pc' = [pc EXCEPT ![c] = "report"]
  /\ UNCHANGED lease

\* _perform's handler reads the client's flag after the lease has ended.
Report(c) ==
  /\ pc[c] = "report"
  /\ result' = [result EXCEPT ![c] = IF mutation_attempted[lease[c]]
                                       THEN "uncertain" ELSE "not_sent"]
  /\ pc' = [pc EXCEPT ![c] = "idle"]
  /\ lease' = [lease EXCEPT ![c] = 0]
  /\ UNCHANGED <<guardVars, operations, workerVars, life, hot, phaseVars,
                 requested, written>>

CallerStep(c) ==
  \/ Acquire(c) \/ Begin(c) \/ Refuse(c)
  \/ \E p \in Phases : begin_phase(c, p)
  \/ Attempt(c) \/ Write(c) \/ WriteFails(c) \/ Raise(c) \/ Return(c)
  \/ EndReturned(c) \/ EndRaised(c) \/ Report(c)

----------------------------------------------------------------------------
OwnerStep == connect \/ disconnect \/ EndDisconnect \/ SetShutdown \/ ExitDisconnect
ClientStep(g) == ReaderClose(g) \/ ReaderShut(g) \/ IntervalPasses(g)

Next ==
  \/ OwnerStep
  \/ WorkerStep
  \/ \E g \in Gens : ClientStep(g)
  \/ \E c \in Callers : CallerStep(c)
  \/ \E c \in Callers, e \in 0 .. generation : Call(c, e)

Spec == Init /\ [][Next]_vars

\* The steps that bring a running call nearer to its end.
Progress(c) ==
  \/ Acquire(c) \/ Begin(c) \/ Refuse(c) \/ Write(c) \/ WriteFails(c)
  \/ Raise(c) \/ Return(c) \/ EndReturned(c) \/ EndRaised(c) \/ Report(c)

(***************************************************************************)
(* Threads run: the worker's steps end by deadlines, a disconnect in       *)
(* progress ends, a callback is a bounded sequence of bounded queries and  *)
(* returns or raises, and a thread blocked on a lock gets it when it is    *)
(* released again and again.  Nothing is assumed of the owner's wishes, of *)
(* the device or of a new call.                                            *)
(***************************************************************************)
Fairness ==
  /\ WF_vars(EndDisconnect) /\ SF_vars(ExitDisconnect)
  /\ SF_vars(WorkerStep)
  /\ \A c \in Callers : SF_vars(Progress(c))

FairSpec == Spec /\ Fairness

----------------------------------------------------------------------------
(* Safety                                                                  *)

\* The generation a thread can read: while disconnect() holds the guard it is
\* still the old one.
Epoch == IF closing THEN generation - 1 ELSE generation

\* A ready status always names a client of the displayed generation, except
\* while disconnect() holds the guard; nobody can read the status then.
ReadyIsCurrent ==
  connection = "ready" /\ ~closing => client # 0 /\ client = generation

\* "Don't swap in a fresh connection while an old operation unwinds": a
\* leased client is the session's client or the session has none.
NoSwapUnderLease ==
  \A c \in Callers : pc[c] \in InLease => client \in {0, lease[c]}

\* Once the guard is free, a client that is not the current generation's can
\* no longer be written to, unless the worker has yet to discard it unused.
OldClientsAreShut ==
  ~closing => \A g \in Gens :
    life[g] \in {"open", "closing"} =>
      g = generation \/ (g = wclient /\ wpc = "publish")

\* Whoever reads the status, or writes, meets the client of the generation
\* that is displayed: a ready status names it and every older socket is shut.
ClientsAreCurrent == ReadyIsCurrent /\ OldClientsAreShut

\* One operation puts each phase on the wire at most once, whatever the
\* callback does and whatever fails.
AtMostOncePerPhase ==
  \A c \in Callers, p \in Phases : written[c][p] <= 1

\* An error after a possible write is uncertain (controller/docs/api.md):
\* a call that reports not_sent put nothing on the wire.
NotSentIsHonest ==
  \A c \in Callers : pc[c] = "idle" /\ result[c] = "not_sent" =>
    \A p \in Phases : written[c][p] = 0

\* A mutation leaves only on the client of the generation the caller was
\* pinned to, and only while that generation is the one threads can read.
PinnedWrite ==
  \A c \in Callers : written'[c] # written[c] /\ pc[c] = "sending" =>
    /\ lease[c] = requested[c]
    /\ requested[c] = Epoch
NoStaleWrite == [][PinnedWrite]_vars

\* A mode change never follows another mutation of the same operation.
ModeFirst ==
  [][\A c \in Callers :
       pc[c] = "sending" /\ written'[c]["mode"] # written[c]["mode"] =>
         \A p \in Phases : written[c][p] = 0]_vars

----------------------------------------------------------------------------
(* Liveness, under FairSpec                                                *)

\* Every accepted call comes back: nobody waits for a connection to recover.
CallsReturn ==
  \A c \in Callers : pc[c] # "idle" ~> pc[c] = "idle"

\* A connection whose client has died does not stay published as ready.
DeadClientIsRetired ==
  (connection = "ready" /\ client # 0 /\ Closed(client)) ~> connection # "ready"

\* Leaving the context ends the worker thread.
ExitStopsWorker == shutdown ~> wpc = "stopped"

\* The worker does both, although callers hold its lock meanwhile and retries
\* may be waiting.
WorkerKeepsUp == DeadClientIsRetired /\ ExitStopsWorker

----------------------------------------------------------------------------
(* Refinement of CommandLedger                                             *)

Held == operations \in Callers /\ pc[operations] \in InLease
Holder == IF Held THEN operations ELSE Nobody
Pinned == IF Held THEN requested[operations] ELSE 0
Sent == IF Held THEN written[operations] ELSE [p \in Phases |-> 0]

Ledger == INSTANCE CommandLedger
            WITH epoch <- Epoch, holder <- Holder, pinned <- Pinned, sent <- Sent

\* Whatever the connection goes through, commands leave as the ledger allows.
ImplementsLedger == Ledger!Spec

\* Callers are interchangeable.
Symmetry == Permutations(Callers)
============================================================================
