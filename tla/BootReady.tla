------------------------------- MODULE BootReady -------------------------------
(* The readiness of one emulated player after a power-on (runtime/boot_ready.py): a   *)
(* poll of the processes that hold their input devices and of the marker of the last   *)
(* framebuffer flush, while the guest's programs start, crash, are replaced and draw.   *)
EXTENDS Naturals, FiniteSets

CONSTANTS Processes,  \* PIDs of the container
          Pids,       \* PIDs of a guest's own namespace, reused from one boot to the next
          MaxBoots    \* bound: power-ons

VARIABLES
  proc,   \* each process: program, the PID it has in the guest, whether it holds its device
  flush,  \* fb-flush: the PID in it (0: empty), and which program of which boot wrote it
  boot,   \* power-ons so far
  wait    \* wait_ready: position, the holders and the flusher it has read

vars == <<proc, flush, boot, wait>>

Programs == {"mq_ui", "mq_player", "probe"}
Dead == [program |-> "none", pid |-> 0, holds |-> FALSE]
NoFlush == [pid |-> 0, program |-> "none", boot |-> 0]
NoWait == [pc |-> "idle", holders |-> {}, flusher |-> 0]

Init == proc = [p \in Processes |-> Dead] /\ flush = NoFlush /\ boot = 0 /\ wait = NoWait

\* The last guest is stopped and the marker emptied before the programs start.
PowerOn ==
  /\ wait.pc \in {"idle", "ready"} /\ boot < MaxBoots /\ boot' = boot + 1
  /\ proc' = [p \in Processes |-> Dead] /\ wait' = [NoWait EXCEPT !.pc = "holders"] /\ flush' = NoFlush

\* PIDs are not reused within a boot.
Start(p) ==
  /\ boot > 0 /\ proc[p].program = "none"
  /\ \E program \in Programs, pid \in Pids :
       /\ \A q \in Processes : proc[q].pid # pid
       /\ proc' = [proc EXCEPT ![p] = [program |-> program, pid |-> pid, holds |-> FALSE]]
  /\ UNCHANGED <<flush, boot, wait>>

Opens(p) ==
  /\ proc[p].program \in {"mq_ui", "mq_player"} /\ ~proc[p].holds /\ proc' = [proc EXCEPT ![p].holds = TRUE]
  /\ UNCHANGED <<flush, boot, wait>>

Crash(p) ==
  /\ proc[p].program \in Programs /\ proc' = [proc EXCEPT ![p].program = "gone", ![p].holds = FALSE]
  /\ UNCHANGED <<flush, boot, wait>>

\* A program draws, a probe too: the shim names it.
Flushes(p) ==
  /\ proc[p].program \in {"mq_ui", "probe"}
  /\ flush' = [pid |-> proc[p].pid, program |-> proc[p].program, boot |-> boot]
  /\ UNCHANGED <<proc, boot, wait>>

Holding(program) == {p \in Processes : proc[p].program = program /\ proc[p].holds}

holders ==
  /\ wait.pc = "holders"
  /\ IF Holding("mq_ui") # {} /\ Holding("mq_player") # {}
       THEN wait' = [wait EXCEPT !.pc = "flusher", !.holders = Holding("mq_ui")]
       ELSE UNCHANGED wait
  /\ UNCHANGED <<proc, flush, boot>>

flusher ==
  /\ wait.pc = "flusher"
  /\ wait' = IF flush.pid = 0 THEN [NoWait EXCEPT !.pc = "holders"]
             ELSE [wait EXCEPT !.pc = "compare", !.flusher = flush.pid]
  /\ UNCHANGED <<proc, flush, boot>>

\* Mutant: any flush counts.
Bug_ready == wait.holders # {}

\* The flush is one of a UI that holds the touch device, by its PID in the guest.
ready == \E p \in wait.holders : proc[p].program \in Programs /\ proc[p].pid = wait.flusher

wait_ready ==
  /\ wait.pc = "compare" /\ wait' = IF ready THEN [wait EXCEPT !.pc = "ready"] ELSE [NoWait EXCEPT !.pc = "holders"]
  /\ UNCHANGED <<proc, flush, boot>>

Next ==
  \/ PowerOn \/ holders \/ flusher \/ wait_ready
  \/ \E p \in Processes : Start(p) \/ Opens(p) \/ Crash(p) \/ Flushes(p)
Spec == Init /\ [][Next]_vars

(* --------------------------------- properties --------------------------------- *)

TypeOK ==
  /\ proc \in [Processes -> [program : Programs \union {"none", "gone"}, pid : Pids \union {0}, holds : BOOLEAN]]
  /\ flush.pid \in Pids \union {0} /\ boot \in 0..MaxBoots
  /\ wait.pc \in {"idle", "holders", "flusher", "compare", "ready"} /\ wait.holders \subseteq Processes

\* A player is called ready only after the stock UI has drawn in this boot: the picture a
\* predecessor, a probe or the last boot left does not count, although processes come and
\* go between the reads and their PIDs come again in the next boot (ready()).
DrawnBefore ==
  wait'.pc = "ready" /\ wait.pc = "compare" =>
    /\ \E p \in wait.holders : proc[p].pid = wait.flusher
    /\ flush.boot = boot /\ (flush.pid = wait.flusher => flush.program = "mq_ui")

(* ------------------------------ inductive invariant ------------------------------ *)

Types ==
  /\ TypeOK
  /\ flush \in [pid : Pids \union {0}, program : Programs \union {"none"}, boot : 0..MaxBoots]
  /\ wait \in [pc : {"idle", "holders", "flusher", "compare", "ready"}, holders : SUBSET Processes,
               flusher : Pids \union {0}]

\* A PID of the guest is one process in this boot, and a marker that is not empty is of this boot
\* and of the program that has, or had, its PID.
FlushInv ==
  /\ \A p \in Processes : proc[p].program = "none" <=> proc[p].pid = 0
  /\ \A p, q \in Processes : proc[p].pid = proc[q].pid /\ proc[p].pid # 0 => p = q
  /\ flush.pid # 0 =>
       /\ flush.boot = boot
       /\ \E p \in Processes : proc[p].pid = flush.pid /\ proc[p].program \in {flush.program, "gone"}

\* What held the touch device is still the UI, unless it is gone; and the marker is not emptied
\* before the comparison.
WaitInv ==
  /\ wait.pc \in {"flusher", "compare"} => \A p \in wait.holders : proc[p].program \in {"mq_ui", "gone"}
  /\ wait.pc = "compare" => flush.pid # 0

IInv == Types /\ FlushInv /\ WaitInv
================================================================================
