------------------------------- MODULE PowerWatch -------------------------------
(* The headless server of power-off requests (runtime/power_watch.py): watchers that  *)
(* are started, replaced and stopped by one operator at a time, a guest that asks to    *)
(* be powered off, and the stop that a watcher's thread carries out meanwhile.          *)
EXTENDS Naturals

CONSTANTS Watchers,  \* processes of the watcher
          MaxCalls,  \* bound: calls of start and stop
          MaxAsks    \* bound: power-offs the guest asks for

VARIABLES
  watch,    \* each watcher: position, SIGTERM seen, its thread, whether it noted a stop
  file,     \* power-watch.json: the watcher's PID ("none") and requests served
  guest,    \* the stock pair: "on", "asking", "half" (terminated, not killed) or "off"
  marker,   \* power-request
  call,     \* the operator's call: position and what it waits for
  count     \* history: calls, requests served to the end

vars == <<watch, file, guest, marker, call, count>>

Never == [pc |-> "none", term |-> FALSE, thread |-> "none", noted |-> FALSE]
Init ==
  /\ watch = [w \in Watchers |-> Never] /\ file = [pid |-> "none", served |-> 0]
  /\ guest = "on" /\ marker = FALSE /\ call = [pc |-> "idle", start |-> FALSE, of |-> "none"]
  /\ count = [calls |-> 0, asks |-> 0, served |-> 0]

Alive(w) == watch[w].pc \in {"born", "loop", "drain"}
\* The PID in the file when it is one of a watcher.
running_pid == IF \E w \in Watchers : w = file.pid /\ Alive(w) THEN file.pid ELSE "none"

(* --------------------------------- the guest --------------------------------- *)

\* Stock's idle power-off; the shim turns it into a request.
Ask ==
  /\ guest = "on" /\ count.asks < MaxAsks /\ guest' = "asking" /\ marker' = TRUE
  /\ count' = [count EXCEPT !.asks = @ + 1] /\ UNCHANGED <<watch, file, call>>

Boot == guest = "off" /\ guest' = "on" /\ marker' = FALSE /\ UNCHANGED <<watch, file, call, count>>

(* -------------------------------- the watchers -------------------------------- *)

Watch(w, pc) == watch' = [watch EXCEPT ![w].pc = pc]

Begin(w) ==
  /\ watch[w].pc = "born" /\ Watch(w, "loop") /\ file' = [file EXCEPT !.pid = w]
  /\ UNCHANGED <<guest, marker, call, count>>

\* One request at a time; its stop runs in a thread.
service_requests(w) ==
  /\ watch[w].pc = "loop" /\ ~watch[w].term /\ watch[w].thread = "none" /\ ~watch[w].noted /\ marker
  /\ marker' = FALSE
  /\ watch' = [watch EXCEPT ![w].thread = IF guest \in {"on", "asking"} THEN "term" ELSE "none"]
  /\ UNCHANGED <<file, guest, call, count>>

Power(w) ==
  /\ Alive(w)
  /\ \/ /\ watch[w].thread = "term" /\ guest' = "half" /\ watch' = [watch EXCEPT ![w].thread = "kill"]
        /\ UNCHANGED count
     \/ /\ watch[w].thread = "kill" /\ guest' = "off" /\ count' = [count EXCEPT !.served = @ + 1]
        /\ watch' = [watch EXCEPT ![w].thread = "none", ![w].noted = TRUE]
  /\ UNCHANGED <<file, marker, call>>

\* The loop sees its thread end and counts.
Note(w) ==
  /\ watch[w].pc = "loop" /\ watch[w].noted /\ watch' = [watch EXCEPT ![w].noted = FALSE]
  /\ file' = [file EXCEPT !.served = @ + 1] /\ UNCHANGED <<guest, marker, call, count>>

\* Mutant: a watcher that is stopped does not wait for its thread.
Bug_Drain(w) ==
  /\ \/ watch[w].pc = "loop" /\ watch[w].term /\ Watch(w, "drain")
     \/ watch[w].pc = "drain" /\ Watch(w, "gone")
  /\ UNCHANGED <<file, guest, marker, call, count>>

\* A stop in progress is let finish: it takes less than the five seconds granted.
Drain(w) ==
  /\ \/ watch[w].pc = "loop" /\ watch[w].term /\ Watch(w, "drain")
     \/ watch[w].pc = "drain" /\ watch[w].thread = "none" /\ Watch(w, "gone")
  /\ UNCHANGED <<file, guest, marker, call, count>>

(* -------------------------------- the operator -------------------------------- *)

Calls(start) ==
  /\ call.pc = "idle" /\ count.calls < MaxCalls /\ count' = [count EXCEPT !.calls = @ + 1]
  /\ call' = [pc |-> "stop", start |-> start, of |-> running_pid]
  /\ watch' = IF running_pid = "none" THEN watch ELSE [watch EXCEPT ![running_pid].term = TRUE]
  /\ UNCHANGED <<file, guest, marker>>

\* Mutant: start() does not wait for the one it has stopped.
Bug_stop ==
  /\ call.pc = "stop" /\ call' = [call EXCEPT !.pc = IF call.start THEN "start" ELSE "idle"]
  /\ UNCHANGED <<watch, file, guest, marker, count>>

stop ==
  /\ call.pc = "stop" /\ (call.of = "none" \/ running_pid = "none")
  /\ call' = [call EXCEPT !.pc = IF call.start THEN "start" ELSE "idle"]
  /\ UNCHANGED <<watch, file, guest, marker, count>>

start ==
  /\ call.pc = "start"
  /\ \E w \in Watchers : watch[w] = Never /\ Watch(w, "born") /\ call' = [call EXCEPT !.pc = "wait", !.of = w]
  /\ UNCHANGED <<file, guest, marker, count>>

Started ==
  /\ call.pc = "wait" /\ running_pid # "none" /\ call' = [call EXCEPT !.pc = "idle"]
  /\ UNCHANGED <<watch, file, guest, marker, count>>

Step(w) == Begin(w) \/ service_requests(w) \/ Power(w) \/ Note(w) \/ Drain(w)
Next ==
  \/ Ask \/ Boot \/ stop \/ start \/ Started
  \/ \E b \in BOOLEAN : Calls(b)
  \/ \E w \in Watchers : Step(w)

\* The loop goes round, its thread runs, and a SIGTERM is handled between two rounds.
Fairness == \A w \in Watchers :
  WF_vars(Begin(w)) /\ WF_vars(service_requests(w)) /\ WF_vars(Power(w)) /\ WF_vars(Note(w)) /\ WF_vars(Drain(w))
Spec == Init /\ [][Next]_vars /\ Fairness

(* --------------------------------- properties --------------------------------- *)

TypeOK ==
  /\ watch \in [Watchers -> [pc : {"none", "born", "loop", "drain", "gone"}, term : BOOLEAN,
                             thread : {"none", "term", "kill"}, noted : BOOLEAN]]
  /\ file.pid \in Watchers \union {"none"} /\ guest \in {"on", "asking", "half", "off"} /\ marker \in BOOLEAN

\* At most one watcher serves requests once a call has returned, and what it has counted is
\* what was served, apart from the one a watcher had no time to count (start(), run()).
OneWatcher ==
  /\ call.pc = "idle" => \A v, w \in Watchers : Alive(v) /\ Alive(w) => v = w
  /\ file.served <= count.served

\* What must come to an end: a guest is never left half shut down, also when its watcher is
\* stopped or replaced during the stop; and its request is served while a watcher stays (run()).
Pending == guest = "half" \/ \E w \in Watchers : marker /\ watch[w].pc = "loop" /\ ~watch[w].term

(* ------------------------------ inductive invariant ------------------------------ *)

Types ==
  /\ TypeOK /\ file \in [pid : Watchers \union {"none"}, served : Nat]
  /\ call \in [pc : {"idle", "stop", "start", "wait"}, start : BOOLEAN, of : Watchers \union {"none"}]
  /\ count \in [calls : Nat, asks : Nat, served : Nat]

\* One watcher is alive, and the file names it, unless it was started just now.
AliveInv ==
  /\ \A v, w \in Watchers : Alive(v) /\ Alive(w) => v = w
  /\ \A w \in Watchers : Alive(w) => file.pid = w \/ (call.pc = "wait" /\ call.of = w)
  /\ call.pc = "start" \/ (call.pc = "stop" /\ call.of = "none") => \A w \in Watchers : ~Alive(w)

\* What is noted, or still being stopped, is not counted yet.
CountInv ==
  /\ \A w \in Watchers : watch[w].pc = "born" => ~watch[w].noted /\ watch[w].thread = "none"
  /\ \A w \in Watchers : watch[w].pc = "loop" /\ watch[w].noted => file.served < count.served
  /\ file.served <= count.served

IInv == Types /\ AliveInv /\ CountInv
================================================================================
