------------------------------- MODULE Machine -------------------------------
(* The power life of one emulated player: the supervisor (machine.py run), the *)
(* guest's PID 1 (guest_init.py), the command-line clients of a supervisor     *)
(* (machine.py start, cut, reboot, poweroff) and the viewer's Device (keys.py), *)
(* which talk through four files: the state, a cut request, the PID of the      *)
(* guest's init and the power-off marker of the guest.                          *)
EXTENDS Naturals

CONSTANTS Clients,   \* processes that call start, cut, reboot or poweroff
          Viewer,    \* the one of them that is the viewer's power thread
          MaxBoots,  \* bound: power-ons of all supervisors together
          MaxCalls,  \* bound: calls of all clients together
          MaxDeaths  \* bound: supervisors killed from outside

VARIABLES
  sup,         \* the supervisor: its run, position, cut reason, boots, what it will lose
  init,        \* the guest's PID 1: its boot, position and the request it has accepted
  child,       \* exit status of the process the supervisor started
  programs,    \* who runs programs of the guest: "none", "direct" or "init"
  state,       \* machine.json: state, boots, pid
  request,     \* machine-request: "none", "plain" or "unsynced"
  initPid,     \* init.pid: 0 or a boot
  marker,      \* power-request holds '1'
  view,        \* whose mounts the rootfs has: "container" or "guest"
  transition,  \* the viewer's Device.transition
  client,      \* the clients: position, call, what they have read
  mode,        \* BOOT_MODE of this installation: "direct" or "init"
  total,       \* history: boots, calls, deaths so far
  asked        \* history: this run was asked to lose unsynced data

files == <<state, request, initPid, marker, view>>
history == <<mode, total, asked>>
vars == <<sup, init, child, programs, state, request, initPid, marker, view,
          transition, client, mode, total, asked>>

Calls == {"on", "cut", "cut --unsynced", "reboot", "poweroff"}
Cuts == {"cut", "cut --unsynced"}

Gone(run) == [run |-> run, pc |-> "none", cut |-> "no", boots |-> 0, drop |-> FALSE]
Dead(boot) == [boot |-> boot, pc |-> "none", request |-> "none"]
Idle == [pc |-> "idle", call |-> "on", boots |-> 0, boot |-> 0]

Init ==
  /\ sup = Gone(0)
  /\ init = Dead(0)
  /\ child = "none" /\ programs = "none"
  /\ state = [state |-> "off", boots |-> 0, pid |-> 0]
  /\ request = "none" /\ initPid = 0 /\ marker = FALSE /\ view = "container"
  /\ transition = "none"
  /\ client = [c \in Clients |-> Idle]
  /\ mode \in {"direct", "init"}
  /\ total = [boots |-> 0, calls |-> 0, deaths |-> 0] /\ asked = FALSE

supervisor_pid == sup.pc # "none" /\ state.pid = sup.run
init_pid == init.pc # "none" /\ initPid = init.boot

\* Mutant: a start asks for the supervisor only.
Bug_active == supervisor_pid

active == supervisor_pid \/ init_pid

(* ------------------------------ the supervisor ------------------------------ *)

publish(name) == state' = [state |-> name, boots |-> sup.boots, pid |-> sup.run]

Starting ==
  /\ sup.pc = "starting"
  /\ publish("starting") /\ sup' = [sup EXCEPT !.pc = "power_on"]
  /\ UNCHANGED <<init, child, programs, request, initPid, marker, view, transition,
                 client, history>>

power_on ==
  /\ sup.pc = "power_on" /\ total.boots < MaxBoots
  /\ sup' = [sup EXCEPT !.pc = "watch", !.boots = @ + 1]
  /\ total' = [total EXCEPT !.boots = @ + 1]
  /\ marker' = FALSE /\ initPid' = 0
  /\ init' = [boot |-> total.boots + 1, pc |-> "new", request |-> "none"]
  /\ child' = "running"
  /\ UNCHANGED <<programs, state, request, view, transition, client, mode, asked>>

\* Any exception of the loop: the guest is killed and the machine is switched off.  A power-on
\* past MaxBoots ends this way too.
PowerOnFails ==
  /\ sup.pc \in {"power_on", "watch"}
  /\ sup' = [sup EXCEPT !.pc = "restore"]
  /\ init' = Dead(init.boot) /\ child' = "killed" /\ programs' = "none"
  /\ UNCHANGED <<files, transition, client, history>>

WatchPublishes ==
  /\ sup.pc = "watch" /\ init_pid /\ child = "running"
  /\ state.state # "running"
  /\ publish("running")
  /\ UNCHANGED <<sup, init, child, programs, request, initPid, marker, view, transition,
                 client, history>>

WatchExpires ==
  /\ sup.pc = "watch" /\ child = "running" /\ sup.cut = "no"
  /\ sup' = [sup EXCEPT !.cut = "lifetime limit", !.pc = "ended"]
  /\ UNCHANGED <<init, child, programs, files, transition, client, history>>

\* Mutant: the watch loop looks at the guest only.
Bug_WatchEnds ==
  /\ sup.pc = "watch" /\ child # "running"
  /\ sup' = [sup EXCEPT !.pc = "ended"]
  /\ UNCHANGED <<init, child, programs, files, transition, client, history>>

WatchEnds ==
  /\ sup.pc = "watch" /\ (sup.cut # "no" \/ child # "running")
  /\ sup' = [sup EXCEPT !.pc = "ended"]
  /\ UNCHANGED <<init, child, programs, files, transition, client, history>>

cut_request ==
  /\ sup.pc = "ended" /\ sup.cut # "no"
  /\ sup' = [sup EXCEPT !.pc = "cutting", !.drop = request = "unsynced"]
  /\ request' = "none"
  /\ UNCHANGED <<init, child, programs, state, initPid, marker, view, transition,
                 client, history>>

\* Mutant: PID 1 is killed, the rest of the guest's tree is not.
Bug_power_cut ==
  /\ sup.pc = "cutting"
  /\ sup' = [sup EXCEPT !.pc = "restore"]
  /\ init' = Dead(init.boot) /\ child' = "killed"
  /\ UNCHANGED <<programs, files, transition, client, history>>

power_cut ==
  /\ sup.pc = "cutting"
  /\ sup' = [sup EXCEPT !.pc = "restore"]
  /\ init' = Dead(init.boot) /\ child' = "killed" /\ programs' = "none"
  /\ UNCHANGED <<files, transition, client, history>>

BootIsOver ==
  /\ sup.pc = "ended" /\ sup.cut = "no"
  /\ IF child = "REBOOT"
       THEN publish("rebooting") /\ sup' = [sup EXCEPT !.pc = "starting"]
       ELSE UNCHANGED state /\ sup' = [sup EXCEPT !.pc = "restore"]
  /\ UNCHANGED <<init, child, programs, request, initPid, marker, view, transition,
                 client, history>>

restore_view == view' = "container" /\ initPid' = 0

Restore ==
  /\ sup.pc = "restore" /\ restore_view
  /\ sup' = [sup EXCEPT !.pc = "publish"]
  /\ UNCHANGED <<init, child, programs, state, request, marker, transition, client, history>>

PublishOff ==
  /\ sup.pc = "publish" /\ publish("off")
  /\ sup' = [sup EXCEPT !.pc = "leaving"]
  /\ UNCHANGED <<init, child, programs, request, initPid, marker, view, transition,
                 client, history>>

Leave ==
  /\ sup.pc = "leaving" /\ sup' = Gone(sup.run) /\ child' = "none"
  /\ UNCHANGED <<init, programs, files, transition, client, history>>

\* SIGTERM, when the container stops.
on_cut(reason) == sup' = [sup EXCEPT !.cut = IF @ = "no" THEN reason ELSE @]

Stopped ==
  /\ sup.pc # "none" /\ state.pid = sup.run /\ sup.cut = "no" /\ on_cut("stopped")
  /\ UNCHANGED <<init, child, programs, files, transition, client, history>>

\* The supervisor is killed while a guest it can be asked about lives on.
SupervisorDies ==
  /\ supervisor_pid /\ init_pid /\ total.deaths < MaxDeaths
  /\ sup' = Gone(sup.run) /\ child' = "none"
  /\ total' = [total EXCEPT !.deaths = @ + 1]
  /\ UNCHANGED <<init, programs, files, transition, client, mode, asked>>

(* ----------------------------- the guest's PID 1 ----------------------------- *)

InitNames ==
  /\ init.pc = "new" /\ init' = [init EXCEPT !.pc = "deaf"] /\ initPid' = init.boot
  /\ UNCHANGED <<sup, child, programs, state, request, marker, view, transition, client,
                 history>>

\* Until its handlers are installed PID 1 ignores every signal but KILL.
InitListens ==
  /\ init.pc = "deaf" /\ init' = [init EXCEPT !.pc = "sysinit"]
  /\ UNCHANGED <<sup, child, programs, files, transition, client, history>>

sysinit ==
  /\ init.pc = "sysinit" /\ init' = [init EXCEPT !.pc = "boot"]
  /\ view' = "guest" /\ programs' = "init"
  /\ UNCHANGED <<sup, child, state, request, initPid, marker, transition, client, history>>

\* rcS has finished, or did not in its 300 s.
InitBooted ==
  /\ init.pc = "boot" /\ init' = [init EXCEPT !.pc = "supervise"]
  /\ UNCHANGED <<sup, child, programs, files, transition, client, history>>

\* Mutant: the marker of `poweroff -f` is not polled.
Bug_supervise ==
  /\ init.pc = "supervise" /\ init.request # "none"
  /\ init' = [init EXCEPT !.pc = "shutdown"]
  /\ UNCHANGED <<sup, child, programs, files, transition, client, history>>

supervise ==
  /\ init.pc = "supervise" /\ (init.request # "none" \/ marker)
  /\ init' = [init EXCEPT !.pc = "shutdown",
                          !.request = IF @ = "none" THEN "forced" ELSE @]
  /\ marker' = (marker /\ init.request # "none")
  /\ UNCHANGED <<sup, child, programs, state, request, initPid, view, transition, client,
                 history>>

\* Mutant: PID 1 exits with the name of the request.
Bug_ExitStatus == [none |-> "failed", forced |-> "forced", reboot |-> "reboot", poweroff |-> "0"]

ExitStatus == [none |-> "failed", forced |-> "FORCED", reboot |-> "REBOOT", poweroff |-> "0"]

\* shutdown() has ended every process; a failed sysinit ends PID 1 at once.
InitExits ==
  /\ init.pc \in {"sysinit", "shutdown"}
  /\ init' = Dead(init.boot)
  /\ child' = IF child = "none" THEN child
              ELSE IF init.pc = "sysinit" THEN "failed" ELSE ExitStatus[init.request]
  /\ programs' = "none"
  /\ UNCHANGED <<sup, files, transition, client, history>>

\* A program of the guest runs BusyBox `reboot` or `poweroff`.
GuestSignals ==
  /\ programs = "init" /\ init.pc \in {"boot", "supervise"} /\ init.request = "none"
  /\ \E action \in {"reboot", "poweroff"} : init' = [init EXCEPT !.request = action]
  /\ UNCHANGED <<sup, child, programs, files, transition, client, history>>

\* The guest's own `poweroff -f` (stock idle power-off).
GuestPowersOff ==
  /\ programs # "none" /\ ~marker /\ marker' = TRUE
  /\ UNCHANGED <<sup, init, child, programs, state, request, initPid, view, transition,
                 client, history>>

(* -------------------------------- the clients -------------------------------- *)

Goto(c, pc) == client' = [client EXCEPT ![c].pc = pc]
Return(c) == client' = [client EXCEPT ![c] = Idle]

\* supervisor_pid() decides what is left to do.
cut(c) ==
  /\ client[c].pc = "called" /\ client[c].call \in Cuts \union {"on"}
  /\ Goto(c, IF supervisor_pid THEN "ask" ELSE IF initPid # 0 THEN "finish" ELSE "kill")
  /\ UNCHANGED <<sup, init, child, programs, files, transition, history>>

CutAsks(c) ==
  /\ client[c].pc = "ask"
  /\ request' = (IF client[c].call = "cut --unsynced" THEN "unsynced" ELSE "plain")
  /\ asked' = (asked \/ client[c].call = "cut --unsynced")
  /\ Goto(c, "signal")
  /\ UNCHANGED <<sup, init, child, programs, state, initPid, marker, view, transition, mode, total>>

CutSignals(c) ==
  /\ client[c].pc = "signal"
  /\ IF sup.pc = "none" THEN Return(c) /\ UNCHANGED sup
                        ELSE Goto(c, "cut") /\ on_cut("power cut")
  /\ UNCHANGED <<init, child, programs, files, transition, history>>

CutWaited(c) ==
  /\ client[c].pc = "cut" /\ ~supervisor_pid
  /\ Goto(c, "kill")
  /\ UNCHANGED <<sup, init, child, programs, files, transition, history>>

\* The supervisor died first: finish its job.
CutFinishes(c) ==
  /\ client[c].pc = "finish"
  /\ init' = IF init_pid THEN Dead(init.boot) ELSE init
  /\ programs' = "none" /\ child' = IF init_pid /\ child # "none" THEN "killed" ELSE child
  /\ Goto(c, "restore")
  /\ UNCHANGED <<sup, files, transition, history>>

CutRestores(c) ==
  /\ client[c].pc = "restore" /\ restore_view
  /\ Goto(c, "kill")
  /\ UNCHANGED <<sup, init, child, programs, state, request, marker, transition, history>>

\* After machine.cut() every program left in the chroot is killed; a boot goes on to start.
_power(c) ==
  /\ client[c].pc = "kill" /\ programs' = "none"
  /\ IF client[c].call = "on" THEN Goto(c, "start") ELSE Return(c)
  /\ UNCHANGED <<sup, init, child, files, transition, history>>

\* Assumed: no two starts at a time, which would both find the machine inactive.
start(c) ==
  /\ client[c].pc = "start" /\ mode = "init"
  /\ \/ /\ ~active /\ sup.pc = "none"
        /\ state' = [state |-> "starting", boots |-> 0, pid |-> 0]
        /\ sup' = [run |-> sup.run + 1, pc |-> "starting", cut |-> "no", boots |-> 0, drop |-> FALSE]
        /\ asked' = FALSE /\ Goto(c, "started")
        /\ UNCHANGED <<request, initPid, marker, view>>
     \/ active /\ Return(c) /\ UNCHANGED <<sup, files, asked>>
  /\ UNCHANGED <<init, child, programs, transition, mode, total>>

StartReturns(c) ==
  /\ client[c].pc = "started" /\ state.state \in {"running", "off"}
  /\ Return(c)
  /\ UNCHANGED <<sup, init, child, programs, files, transition, history>>

\* The direct boot of 20_boot.sh runs the programs without a supervisor.
BootDirect(c) ==
  /\ client[c].pc = "start" /\ mode = "direct"
  /\ programs' = "direct" /\ marker' = FALSE
  /\ Return(c)
  /\ UNCHANGED <<sup, init, child, state, request, initPid, view, transition, history>>

\* reboot and poweroff look at the guest and at the state before they signal.
signal_init(c) ==
  /\ client[c].pc = "called" /\ client[c].call \in {"reboot", "poweroff"}
  /\ client' = [client EXCEPT ![c] = IF init_pid
                  THEN [@ EXCEPT !.pc = "send", !.boot = init.boot, !.boots = state.boots] ELSE Idle]
  /\ UNCHANGED <<sup, init, child, programs, files, transition, history>>

SignalSent(c) ==
  /\ client[c].pc = "send"
  /\ IF init.pc # "none" /\ init.boot = client[c].boot
       THEN /\ Goto(c, "wait")
            /\ init' = IF init.pc \in {"sysinit", "boot", "supervise"}
                         THEN [init EXCEPT !.request = client[c].call] ELSE init
       ELSE Return(c) /\ UNCHANGED init
  /\ UNCHANGED <<sup, child, programs, files, transition, history>>

reboot(c) ==
  /\ client[c].pc = "wait" /\ client[c].call = "reboot"
  /\ state.boots > client[c].boots /\ state.state = "running"
  /\ Return(c)
  /\ UNCHANGED <<sup, init, child, programs, files, transition, history>>

poweroff(c) ==
  /\ client[c].pc = "wait" /\ client[c].call = "poweroff"
  /\ state.state = "off" /\ ~supervisor_pid
  /\ Return(c)
  /\ UNCHANGED <<sup, init, child, programs, files, transition, history>>

\* wait_for: 10 to 180 s without the expected state.
TimesOut(c) ==
  /\ client[c].pc \in {"started", "cut", "wait"}
  /\ Return(c)
  /\ UNCHANGED <<sup, init, child, programs, files, transition, history>>

Begin(c, call) ==
  /\ client[c] = Idle
  /\ total.calls < MaxCalls /\ total' = [total EXCEPT !.calls = @ + 1]
  /\ client' = [client EXCEPT ![c] = [Idle EXCEPT !.pc = "called", !.call = call]]

Call(c) ==
  /\ c # Viewer /\ \E call \in Calls : Begin(c, call)
  /\ UNCHANGED <<sup, init, child, programs, files, mode, transition, asked>>

(* ---------------------------- the viewer's Device ---------------------------- *)

toggle_power ==
  /\ transition = "none"
  /\ LET kind == IF programs # "none" THEN "stopping" ELSE "starting"
     IN transition' = kind /\ Begin(Viewer, IF kind = "stopping" THEN "cut" ELSE "on")
  /\ UNCHANGED <<sup, init, child, programs, files, mode, asked>>

\* A stock-init guest's own PID 1 serves the request.
service_requests ==
  /\ transition = "none" /\ ~active /\ marker /\ marker' = FALSE
  /\ IF programs # "none" THEN transition' = "stopping" /\ Begin(Viewer, "cut")
                          ELSE UNCHANGED <<transition, client, total>>
  /\ UNCHANGED <<sup, init, child, programs, state, request, initPid, view, mode, asked>>

PowerDone ==
  /\ transition # "none" /\ client[Viewer] = Idle
  /\ transition' = "none"
  /\ UNCHANGED <<sup, init, child, programs, files, client, history>>

(* ------------------------------- specification ------------------------------- *)

Supervise == Starting \/ power_on \/ WatchPublishes \/ WatchEnds \/ cut_request \/ power_cut
             \/ BootIsOver \/ Restore \/ PublishOff \/ Leave
             \/ (total.boots = MaxBoots /\ sup.pc = "power_on" /\ PowerOnFails)
Guest == InitNames \/ InitListens \/ sysinit \/ InitBooted \/ supervise
         \/ (init.pc = "shutdown" /\ InitExits)
ClientStep(c) ==
  cut(c) \/ CutAsks(c) \/ CutSignals(c) \/ CutWaited(c) \/ CutFinishes(c) \/ CutRestores(c)
  \/ _power(c) \/ start(c) \/ StartReturns(c) \/ BootDirect(c) \/ signal_init(c)
  \/ SignalSent(c) \/ reboot(c) \/ poweroff(c)

Next ==
  \/ Supervise \/ PowerOnFails \/ WatchExpires \/ Stopped \/ SupervisorDies
  \/ Guest \/ InitExits \/ GuestSignals \/ GuestPowersOff
  \/ \E c \in Clients : ClientStep(c) \/ TimesOut(c) \/ Call(c)
  \/ toggle_power \/ service_requests \/ PowerDone

Spec == Init /\ [][Next]_vars

\* Processes that are not killed run on.
FairSpec == Spec /\ WF_vars(Supervise) /\ WF_vars(Guest)
                 /\ \A c \in Clients : WF_vars(ClientStep(c))

(* -------------------------------- properties -------------------------------- *)

\* The positions of the processes and what the four files may hold.
TypeOK ==
  /\ sup \in [run : Nat, pc : {"none", "starting", "power_on", "watch", "ended", "cutting",
                              "restore", "publish", "leaving"},
              cut : {"no", "power cut", "stopped", "lifetime limit"}, boots : Nat, drop : BOOLEAN]
  /\ init \in [boot : Nat, pc : {"none", "new", "deaf", "sysinit", "boot", "supervise", "shutdown"},
               request : {"none", "forced", "reboot", "poweroff"}]
  /\ child \in {"none", "running", "killed", "failed", "REBOOT", "FORCED", "0"}
  /\ programs \in {"none", "direct", "init"}
  /\ state \in [state : {"off", "starting", "running", "rebooting"}, boots : Nat, pid : Nat]
  /\ request \in {"none", "plain", "unsynced"} /\ initPid \in Nat /\ marker \in BOOLEAN
  /\ view \in {"container", "guest"} /\ transition \in {"none", "starting", "stopping"}

\* Off is off: once the published state says "off", nothing of a supervised guest runs and the
\* container has its own view of the rootfs back (run's finally, whatever ended the machine).
OffMeansOff ==
  state.state = "off" => init.pc = "none" /\ programs # "init" /\ view = "container"

\* No power-on finds programs or the PID 1 of an earlier boot: start's check of active(), the
\* supervisor's loop and the viewer's machine.cut() together keep boots apart.
BootsAlone == init'.boot # init.boot => programs = "none" /\ init.pc = "none"

\* "never leave a guest running without its supervisor": unless it was killed from outside, a
\* supervisor that is gone has taken the guest, its programs and its mounts with it.
NoOrphan == total.deaths = 0 /\ sup.pc = "none" =>
              init.pc = "none" /\ programs # "init" /\ view = "container"

\* What must come to an end: a cut, a SIGTERM or the lifetime limit, wherever the supervisor
\* stands in a reboot; the guest's own `poweroff -f`; a request that PID 1 has accepted, also
\* during rcS.
Pending ==
  \/ sup.cut # "no" /\ sup.pc # "none"
  \/ init.pc = "supervise" /\ marker
  \/ init.request # "none" /\ init.pc # "none"

(* ---------------------------- the inductive invariant ---------------------------- *)

ClientPcs ==
  {"idle", "called", "ask", "signal", "cut", "finish", "restore", "kill", "start", "started", "send", "wait"}
ClientRecord == [pc : ClientPcs, call : Calls, boots : Nat, boot : Nat]

\* The positions of the clients: one that is about to signal PID 1 was called for that.
ClientType ==
  /\ client \in [Clients -> ClientRecord]
  /\ \A c \in Clients : client[c].pc = "send" => client[c].call \in {"reboot", "poweroff"}

CountType ==
  /\ mode \in {"direct", "init"}
  /\ total \in [boots : Nat, calls : Nat, deaths : Nat] /\ total.deaths <= MaxDeaths

\* Who may run programs: PID 1 from sysinit on, or the direct boot of its own mode.
GuestInv ==
  /\ programs = "init" => init.pc \in {"boot", "supervise", "shutdown"}
  /\ programs = "direct" => mode = "direct"
  /\ mode = "direct" => sup.pc = "none" /\ init.pc = "none"

\* A supervisor that has not powered on yet, or has ended the boot, has no guest.
SupInv ==
  /\ sup.pc \in {"starting", "power_on", "restore", "publish", "leaving"} => init.pc = "none"
  /\ sup.pc \in {"watch", "ended", "cutting"} /\ child # "running" => init.pc = "none"
  /\ sup.pc = "ended" /\ sup.cut = "no" => child # "running"
  /\ sup.pc \in {"publish", "leaving"} => view = "container"
  /\ sup.pc \notin {"none", "starting"} => state.pid = sup.run

\* A guest without a supervisor can still be found by its PID file, and there is none as long
\* as no supervisor was killed.
OrphanInv ==
  /\ sup.pc = "none" /\ init.pc # "none" => initPid = init.boot
  /\ total.deaths = 0 /\ sup.pc = "none" => init.pc = "none" /\ view = "container"
  /\ total.deaths = 0 /\ ~supervisor_pid => initPid = 0
  /\ total.deaths = 0 /\ sup.pc \in {"publish", "leaving"} => initPid = 0

\* A client that finishes a dead supervisor's job has no living guest to forget.
CutInv ==
  \A c \in Clients :
    /\ client[c].pc \in {"finish", "restore"} => total.deaths > 0
    /\ client[c].pc = "restore" /\ sup.pc = "none" => init.pc = "none"

\* The published state says "off" only at the end of a supervisor and after it.
OffInv ==
  state.state = "off" => sup.pc \in {"none", "leaving"} /\ init.pc = "none" /\ view = "container"

StateInv == GuestInv /\ SupInv /\ OrphanInv /\ OffInv
IInv == TypeOK /\ ClientType /\ CountType /\ StateInv /\ CutInv
==============================================================================
