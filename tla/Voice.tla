--------------------------------- MODULE Voice ---------------------------------
(* The speech runtime of the assistant (voice/runtime.py) with one provider: requests   *)
(* on their own event loops submit work to the runtime's loop, where an adapter talks    *)
(* to its resident process, through asyncio (json_worker.py) or a thread (sherpa_onnx).   *)
(* A process can be slow or die; requests are cancelled and time out; the runtime closes.  *)
EXTENDS Naturals, FiniteSets

CONSTANTS Requests,     \* speech requests
          MaxProcesses  \* bound: processes started

VARIABLES
  adapter,  \* "json" or "sherpa"
  runtime,  \* SpeechRuntime: closed, its loop, position of close()
  lock,     \* Handle.lock: the request that holds it
  req,      \* each request: position, answer; submitted after close() began; cancelled twice
  task,     \* its task on the loop
  thread,   \* its thread (sherpa)
  event,    \* its cancellation event (sherpa)
  process,  \* the adapter's process, 0 without one
  alive,    \* processes that run
  pipe,     \* each process: the request it has been asked, and whose answer can be read
  started   \* history: processes started

vars == <<adapter, runtime, lock, req, task, thread, event, process, alive, pipe, started>>
worker == <<thread, event, process, alive, pipe, started>>
calls == <<adapter, runtime, lock, req>>

Processes == 1..MaxProcesses
Nobody == "nobody"
NoPipe == [asked |-> Nobody, answer |-> Nobody]

Init ==
  /\ adapter \in {"json", "sherpa"} /\ runtime = [closed |-> FALSE, loop |-> "none", close |-> "idle"]
  /\ lock = Nobody /\ req = [r \in Requests |-> [pc |-> "idle", late |-> FALSE, twice |-> FALSE, answer |-> Nobody]]
  /\ task = [r \in Requests |-> "none"] /\ thread = [r \in Requests |-> "none"]
  /\ event = [r \in Requests |-> FALSE] /\ process = 0 /\ alive = {}
  /\ pipe = [p \in Processes |-> NoPipe] /\ started = 0

At(r, pc) == req[r].pc = pc
Req(r, pc) == req' = [req EXCEPT ![r].pc = pc]
Task(r, pc) == task' = [task EXCEPT ![r] = pc]
Thread(r, pc) == thread' = [thread EXCEPT ![r] = pc]
Running(r) == task[r] \notin {"none", "ended"}

\* A cancellation ends what a task waits for; the second one ends its cleanup.
Cancelled(r) == CASE ~Running(r) -> task[r]
                  [] task[r] = "gather" -> "aclose"
                  [] task[r] \in {"raise", "kill"} -> task[r]
                  [] OTHER -> "raise"

(* -------------------------------- the requests -------------------------------- *)

\* Refused when the runtime is closed or the provider busy.
invoke(r) ==
  /\ At(r, "idle")
  /\ IF runtime.closed \/ lock # Nobody THEN Req(r, "over") /\ UNCHANGED lock ELSE Req(r, "locked") /\ lock' = r
  /\ UNCHANGED <<adapter, runtime, task, worker>>

ensure_loop(r) ==
  /\ At(r, "locked")
  /\ IF runtime.closed THEN Req(r, "release") /\ UNCHANGED runtime
     ELSE Req(r, "submit") /\ runtime' = [runtime EXCEPT !.loop = "running"]
  /\ UNCHANGED <<adapter, lock, task, worker>>

\* A loop that has stopped takes the task and never runs it; a closed one raises.
submit(r) ==
  /\ At(r, "submit") /\ Task(r, IF runtime.loop = "running" THEN "queued" ELSE "none")
  /\ req' = [req EXCEPT ![r].pc = IF runtime.loop = "closed" THEN "release" ELSE "wait", ![r].late = runtime.closed]
  /\ UNCHANGED <<adapter, runtime, lock, worker>>

waited(r) == At(r, "wait") /\ task[r] = "ended" /\ Req(r, "release") /\ UNCHANGED <<adapter, runtime, lock, task, worker>>

\* Mutant: the coroutine's cleanup is not waited for.
Bug_drain(r) ==
  /\ At(r, "wait") /\ Running(r) /\ task' = [task EXCEPT ![r] = Cancelled(r)]
  /\ Req(r, "release")
  /\ UNCHANGED <<adapter, runtime, lock, worker>>

\* A request that is cancelled cancels its task, and waits for it.
drain(r) ==
  /\ \/ /\ At(r, "wait") /\ Running(r) /\ task' = [task EXCEPT ![r] = Cancelled(r)]
        /\ req' = [req EXCEPT ![r].pc = "drain", ![r].twice = @ \/ (task'[r] = "aclose")]
     \/ At(r, "drain") /\ task[r] = "ended" /\ Req(r, "release") /\ UNCHANGED task
  /\ UNCHANGED <<adapter, runtime, lock, worker>>

release(r) == At(r, "release") /\ Req(r, "over") /\ lock' = Nobody /\ UNCHANGED <<adapter, runtime, task, worker>>

(* --------------------------------- the process --------------------------------- *)

Spawns == started < MaxProcesses /\ started' = started + 1 /\ alive' = alive \union {started + 1}
Written(r, p) == pipe' = [pipe EXCEPT ![p].asked = r]

\* It answers what it was asked, or dies.
Answers(p) ==
  /\ p \in alive /\ pipe[p].asked # Nobody
  /\ pipe' = [pipe EXCEPT ![p] = [asked |-> Nobody, answer |-> pipe[p].asked]]
  /\ UNCHANGED <<calls, task, thread, event, process, alive, started>>

Dies(p) == p \in alive /\ alive' = alive \ {p} /\ UNCHANGED <<calls, task, thread, event, process, pipe, started>>

Takes(r, p) ==
  /\ req' = [req EXCEPT ![r].answer = pipe[p].answer] /\ pipe' = [pipe EXCEPT ![p] = NoPipe]

(* ------------------------------- asyncio's adapter ------------------------------- *)

loop(r) == runtime.loop = "running" /\ Running(r)

Exchange(r) ==
  /\ adapter = "json" /\ loop(r)
  /\ \/ /\ task[r] = "queued" /\ process = 0 /\ Spawns /\ process' = started' /\ Task(r, "ready") /\ UNCHANGED <<pipe, req>>
     \/ /\ task[r] \in {"queued", "ready"} /\ process # 0 /\ process \in alive /\ Written(r, process) /\ Task(r, "asked")
        /\ UNCHANGED <<process, alive, started, req>>
     \/ /\ task[r] = "asked" /\ process # 0 /\ pipe[process].answer # Nobody /\ Takes(r, process) /\ Task(r, "ended")
        /\ UNCHANGED <<process, alive, started>>
  /\ UNCHANGED <<adapter, runtime, lock, thread, event>>

\* A timeout, a dead process or an invalid answer.
Raises(r) ==
  /\ adapter = "json" /\ loop(r) /\ task[r] \in {"queued", "ready", "asked"} /\ Task(r, "raise")
  /\ UNCHANGED <<calls, worker>>

\* Mutant: a failed exchange keeps its process for the next.
Bug_aclose(r) == task[r] = "raise" /\ loop(r) /\ adapter = "json" /\ Task(r, "ended") /\ UNCHANGED <<calls, worker>>

\* Failed or cancelled work kills the process; a spawn in progress is waited for first.
aclose(r) ==
  /\ adapter = "json" /\ loop(r) /\ task[r] = "raise" /\ Task(r, "ended")
  /\ process' = 0 /\ alive' = alive \ {process} /\ UNCHANGED <<calls, thread, event, pipe, started>>

(* ------------------------------- the threaded adapter ------------------------------ *)

transcribe(r) ==
  /\ adapter = "sherpa" /\ loop(r)
  /\ \/ task[r] = "queued" /\ Task(r, "shield") /\ Thread(r, "check")
     \/ task[r] = "shield" /\ thread[r] = "ended" /\ Task(r, "ended") /\ UNCHANGED thread
     \/ task[r] = "shield" /\ Task(r, "raise") /\ UNCHANGED thread
  /\ UNCHANGED <<calls, event, process, alive, pipe, started>>

\* Mutant: nothing unblocks the thread.
Bug_kill(r) ==
  /\ adapter = "sherpa" /\ loop(r)
  /\ \/ task[r] = "raise" /\ thread[r] = "none" /\ Task(r, "ended") /\ UNCHANGED <<event, process, alive>>
     \/ task[r] = "raise" /\ thread[r] # "none" /\ event' = [event EXCEPT ![r] = TRUE] /\ Task(r, "gather") /\ UNCHANGED <<process, alive>>
     \/ task[r] = "gather" /\ thread[r] = "ended" /\ Task(r, "aclose") /\ UNCHANGED <<event, process, alive>>
     \/ task[r] = "aclose" /\ process' = 0 /\ alive' = alive \ {process} /\ Task(r, "ended") /\ UNCHANGED event
  /\ UNCHANGED <<calls, thread, pipe, started>>

\* The event, then a kill of the process there is, unblock the thread, which is waited for.
kill(r) ==
  /\ adapter = "sherpa" /\ loop(r)
  /\ \/ task[r] = "raise" /\ thread[r] = "none" /\ Task(r, "ended") /\ UNCHANGED <<event, process, alive>>
     \/ task[r] = "raise" /\ thread[r] # "none" /\ event' = [event EXCEPT ![r] = TRUE] /\ Task(r, "kill") /\ UNCHANGED <<process, alive>>
     \/ task[r] = "kill" /\ alive' = alive \ {process} /\ Task(r, "gather") /\ UNCHANGED <<event, process>>
     \/ task[r] = "gather" /\ thread[r] = "ended" /\ Task(r, "aclose") /\ UNCHANGED <<event, process, alive>>
     \/ task[r] = "aclose" /\ process' = 0 /\ alive' = alive \ {process} /\ Task(r, "ended") /\ UNCHANGED event
  /\ UNCHANGED <<calls, thread, pipe, started>>

\* The thread looks at its event before it starts a process, before the handshake and
\* before it asks; an end of the process ends its reads, and a failed start all of it.
exchange(r) ==
  /\ \/ /\ thread[r] \in {"check", "check2", "check3"}
        /\ Thread(r, IF event[r] THEN "close" ELSE CASE thread[r] = "check" -> IF process = 0 THEN "popen" ELSE "check3"
                                                     [] thread[r] = "check2" -> "handshake" [] OTHER -> "write")
        /\ UNCHANGED <<req, event, process, alive, pipe, started>>
     \/ thread[r] = "popen" /\ Spawns /\ Thread(r, "assign") /\ UNCHANGED <<req, event, process, pipe>>
     \/ thread[r] = "popen" /\ Thread(r, "close") /\ UNCHANGED <<req, event, process, alive, pipe, started>>
     \/ thread[r] = "assign" /\ process' = started /\ Thread(r, "check2") /\ UNCHANGED <<req, event, alive, pipe, started>>
     \/ thread[r] = "handshake" /\ process \in alive /\ Thread(r, "check3") /\ UNCHANGED <<req, event, process, alive, pipe, started>>
     \/ thread[r] = "write" /\ process \in alive /\ Written(r, process) /\ Thread(r, "read") /\ UNCHANGED <<req, event, process, alive, started>>
     \/ /\ thread[r] = "read" /\ process # 0 /\ pipe[process].answer # Nobody /\ Takes(r, process) /\ Thread(r, "ended")
        /\ UNCHANGED <<event, process, alive, started>>
     \/ /\ thread[r] \in {"handshake", "write", "read"} /\ process \notin alive /\ Thread(r, "close")
        /\ UNCHANGED <<req, event, process, alive, pipe, started>>
     \/ /\ thread[r] = "close" /\ process' = 0 /\ alive' = alive \ {process} /\ Thread(r, "ended")
        /\ UNCHANGED <<req, event, pipe, started>>
  /\ UNCHANGED <<adapter, runtime, lock, task>>

(* ----------------------------------- closing ----------------------------------- *)

close ==
  /\ runtime.close = "idle"
  /\ runtime' = [runtime EXCEPT !.closed = TRUE, !.close = IF runtime.loop = "none" THEN "returned" ELSE "shutdown"]
  /\ UNCHANGED <<adapter, lock, req, task, worker>>

\* What runs, the drains too, is cancelled and waited for; then the provider is closed, the
\* loop stopped and closed.
shutdown ==
  /\ \/ /\ runtime.close = "shutdown" /\ runtime' = [runtime EXCEPT !.close = "gather"]
        /\ task' = [r \in Requests |-> Cancelled(r)]
        /\ req' = [r \in Requests |-> [req[r] EXCEPT !.pc = IF @ = "drain" THEN "release" ELSE @,
                                                       !.twice = @ \/ (task[r] = "gather")]]
        /\ UNCHANGED <<process, alive>>
     \/ /\ runtime.close = "gather" /\ \A r \in Requests : Running(r) => req[r].late
        /\ runtime' = [runtime EXCEPT !.close = "stop"] /\ process' = 0 /\ alive' = alive \ {process} /\ UNCHANGED <<req, task>>
     \/ /\ runtime.close = "stop" /\ runtime' = [runtime EXCEPT !.close = "join", !.loop = "stopped"] /\ UNCHANGED <<req, task, process, alive>>
     \/ /\ runtime.close = "join" /\ runtime' = [runtime EXCEPT !.close = "returned", !.loop = "closed"] /\ UNCHANGED <<req, task, process, alive>>
  /\ UNCHANGED <<adapter, lock, thread, event, pipe, started>>

(* -------------------------------- specification -------------------------------- *)

Call(r) == invoke(r) \/ ensure_loop(r) \/ submit(r) \/ waited(r) \/ (drain(r) /\ At(r, "drain")) \/ release(r)
Loop(r) == Exchange(r) \/ Raises(r) \/ aclose(r) \/ transcribe(r) \/ kill(r)
Next ==
  \/ close \/ shutdown
  \/ \E r \in Requests : Call(r) \/ drain(r) \/ Loop(r) \/ exchange(r)
  \/ \E p \in Processes : Answers(p) \/ Dies(p)

\* Threads and loops run; what a process does is up to it.  A timeout is a step of its task.
Fairness == WF_vars(shutdown) /\ \A r \in Requests : WF_vars(Call(r)) /\ WF_vars(Loop(r)) /\ WF_vars(exchange(r))
Spec == Init /\ [][Next]_vars /\ Fairness

(* --------------------------------- properties --------------------------------- *)

TypeOK ==
  /\ lock \in Requests \union {Nobody} /\ process \in 0..MaxProcesses /\ alive \subseteq Processes
  /\ runtime.loop \in {"none", "running", "stopped", "closed"} /\ runtime.close \in {"idle", "shutdown", "gather", "stop", "join", "returned"}
  /\ \A r \in Requests : /\ req[r].pc \in {"idle", "locked", "submit", "wait", "drain", "release", "over"}
                         /\ task[r] \in {"none", "queued", "ready", "asked", "shield", "raise", "kill", "gather", "aclose", "ended"}

\* Two exceptions to what follows: a request that passed ensure_loop() before close() and
\* submits its work after it, and one whose cleanup, which waits for its thread, is cancelled.
Undisturbed == \A r \in Requests : ~req[r].late /\ ~req[r].twice

\* A request never receives the answer to another, one that was cancelled or timed out
\* before it was read (json_worker.py:69, sherpa_onnx.py:118).
AnswersAreOwn == Undisturbed => \A r \in Requests : req[r].answer \in {Nobody, r}

\* The provider is free only when no task, thread or process of an earlier request is
\* left, other than the adapter's own; a closed runtime leaves none at all.
NothingRunsUnowned ==
  Undisturbed =>
    /\ lock = Nobody /\ ~runtime.closed =>
         alive \subseteq {process} /\ \A r \in Requests : ~Running(r) /\ thread[r] \in {"none", "ended"}
    /\ runtime.close = "returned" => alive = {}

\* What must end, whatever the process does: a request, a close().
Pending ==
  \/ \E r \in Requests : (At(r, "wait") \/ At(r, "drain")) /\ ~req[r].late
  \/ runtime.close \notin {"idle", "returned"}

(* --------------------------------- the invariant --------------------------------- *)

Pcs == {"idle", "locked", "submit", "wait", "drain", "release", "over"}
TaskPcs == {"none", "queued", "ready", "asked", "shield", "raise", "kill", "gather", "aclose", "ended"}
ThreadPcs == {"none", "check", "popen", "assign", "check2", "handshake", "check3", "write", "read", "close", "ended"}
Owners == Requests \union {Nobody}

CallTypes ==
  /\ adapter \in {"json", "sherpa"} /\ lock \in Owners
  /\ runtime \in [closed : BOOLEAN, loop : {"none", "running", "stopped", "closed"},
                  close : {"idle", "shutdown", "gather", "stop", "join", "returned"}]
RequestTypes == req \in [Requests -> [pc : Pcs, late : BOOLEAN, twice : BOOLEAN, answer : Owners]]
TaskTypes == task \in [Requests -> TaskPcs] /\ thread \in [Requests -> ThreadPcs] /\ event \in [Requests -> BOOLEAN]
ProcessTypes == process \in 0..started /\ started \in 0..MaxProcesses /\ alive \subseteq 1..started
PipeTypes == pipe \in [Processes -> [asked : Owners, answer : Owners]]
Types == CallTypes /\ RequestTypes /\ TaskTypes /\ ProcessTypes /\ PipeTypes

\* The lock is its owner's from invoke() to the end of its finally block.
LockInv ==
  /\ \A r \in Requests : lock = r <=> req[r].pc \in {"locked", "submit", "wait", "drain", "release"}
  /\ \A r \in Requests : req[r].pc \in {"idle", "locked", "submit"} => ~req[r].late

\* Where close() stands says what the loop does; a loop that was never started has no work.
CloseInv ==
  /\ runtime.closed <=> runtime.close # "idle"
  /\ runtime.close = "idle" => runtime.loop \in {"none", "running"}
  /\ runtime.close \in {"shutdown", "gather", "stop"} => runtime.loop = "running"
  /\ runtime.close = "returned" => runtime.loop \in {"none", "closed"}
  /\ runtime.loop = "none" =>
       /\ process = 0 /\ alive = {}
       /\ \A r \in Requests : task[r] = "none" /\ thread[r] = "none" /\ req[r].pc \notin {"submit", "wait", "drain"}

Live(r) == thread[r] \notin {"none", "ended"}
Assigning == \E r \in Requests : thread[r] = "assign"

\* One task runs, that of the lock's owner, or of a request whose drain close() has cancelled.
TaskInv ==
  /\ \A r, s \in Requests : Running(r) /\ Running(s) => r = s
  /\ \A r \in Requests : Running(r) =>
       /\ runtime.close \in {"idle", "shutdown", "gather"}
       /\ \/ lock = r /\ req[r].pc \in {"wait", "drain"}
          \/ runtime.close = "gather" /\ lock = r /\ req[r].pc = "release"
          \/ runtime.close = "gather" /\ lock = Nobody /\ req[r].pc = "over"

\* A thread is waited for by its task; json's adapter has none.
ThreadInv ==
  /\ \A r \in Requests : Live(r) => task[r] \in {"shield", "raise", "kill", "gather"}
  /\ adapter = "json" => \A r \in Requests :
       thread[r] = "none" /\ task[r] \in {"none", "queued", "ready", "asked", "raise", "ended"}
  /\ adapter = "sherpa" => \A r \in Requests : task[r] \notin {"ready", "asked"}

\* A process is the adapter's own, or its thread is about to make it so.
ProcessInv ==
  /\ alive \subseteq {process} \union (IF Assigning THEN {started} ELSE {})
  /\ \A r \in Requests : /\ thread[r] \in {"popen", "assign"} => process = 0
                         /\ thread[r] = "assign" => started # 0
                         /\ thread[r] \in {"check2", "handshake", "check3", "write", "read"} => process # 0
                         /\ task[r] \in {"ready", "asked"} => process # 0
  /\ runtime.close \in {"stop", "join", "returned"} => process = 0 /\ alive = {}

Asking(r) == IF adapter = "json" THEN task[r] \in {"asked", "raise"} ELSE thread[r] \in {"read", "close"}

\* What is in a pipe is of the request that waits for it.
PipeInv ==
  /\ \A p \in Processes : p > started => pipe[p] = NoPipe
  /\ Assigning => pipe[started] = NoPipe
  /\ process # 0 /\ pipe[process] # NoPipe =>
       \E r \in Requests : /\ Asking(r)
                           /\ pipe[process].asked \in {Nobody, r} /\ pipe[process].answer \in {Nobody, r}
  /\ \A r \in Requests : req[r].answer \in {Nobody, r}

QuietInv == TaskInv /\ ThreadInv /\ ProcessInv /\ PipeInv
IInv == Types /\ LockInv /\ CloseInv /\ (Undisturbed => QuietInv)
=================================================================================
