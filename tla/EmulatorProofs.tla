--------------------------- MODULE EmulatorProofs ---------------------------
(* The components of the emulator and the viewer for every value of the constants: each  *)
(* one's inductive invariant, which its module states, over the variables of the         *)
(* composition, and at the end the invariants and the step property of MCEmulator.       *)
EXTENDS MCEmulator, Integers, Sequences, TLAPS

(* ---------------- the machine: supervisor, guest and clients ---------------- *)
\* Its variables: r1 is sup, r2 is init, r3 is child, r4 is programs, r5 is state, r6 is
\* request, r7 is initPid, r8 is marker, r9 is view, r10 is transition, r11 is client, r12 is
\* mode, r13 is total, r14 is asked.
LEMMA MachineInitInv == ASSUME MaxDeaths \in Nat PROVE Machine!Init => Machine!IInv
<1> SUFFICES ASSUME Machine!Init PROVE Machine!IInv
  OBVIOUS
<1>1. Machine!TypeOK
  BY DEF Machine!Init, Machine!TypeOK, Machine!Gone, Machine!Dead
<1>2. Machine!ClientType /\ Machine!CountType
  BY DEF Machine!Init, Machine!ClientType, Machine!CountType, Machine!ClientRecord, Machine!ClientPcs,
       Machine!Idle, Machine!Calls, Machine!Cuts
<1>3. Machine!GuestInv /\ Machine!SupInv /\ Machine!OrphanInv /\ Machine!OffInv
  BY DEF Machine!Init, Machine!GuestInv, Machine!SupInv, Machine!OrphanInv, Machine!OffInv, Machine!Gone,
       Machine!Dead, Machine!supervisor_pid
<1>4. Machine!CutInv
  BY DEF Machine!Init, Machine!CutInv, Machine!Idle
<1> QED
  BY <1>1, <1>2, <1>3, <1>4 DEF Machine!IInv, Machine!StateInv

(* --------------------------------- type correctness --------------------------------- *)

MachineSupPcs == {"none", "starting", "power_on", "watch", "ended", "cutting", "restore", "publish",
                  "leaving"}
MachineCutReasons == {"no", "power cut", "stopped", "lifetime limit"}
MachineSupervisors == [run : Nat, pc : MachineSupPcs, cut : MachineCutReasons, boots : Nat, drop : BOOLEAN]
MachineInitPcs == {"none", "new", "deaf", "sysinit", "boot", "supervise", "shutdown"}
MachineInits == [boot : Nat, pc : MachineInitPcs, request : {"none", "forced", "reboot", "poweroff"}]
MachineStates == [state : {"off", "starting", "running", "rebooting"}, boots : Nat, pid : Nat]

\* Everything but the three records.
MachineSmall ==
  /\ r3 \in {"none", "running", "killed", "failed", "REBOOT", "FORCED", "0"}
  /\ r4 \in {"none", "direct", "init"}
  /\ r6 \in {"none", "plain", "unsynced"} /\ r7 \in Nat /\ r8 \in BOOLEAN
  /\ r9 \in {"container", "guest"} /\ r10 \in {"none", "starting", "stopping"}

\* The machine's types, record by record.
LEMMA MachineTypeParts == Machine!TypeOK <=> r1 \in MachineSupervisors /\ r2 \in MachineInits
                            /\ r5 \in MachineStates /\ MachineSmall
BY DEF Machine!TypeOK, MachineSmall, MachineSupervisors, MachineSupPcs, MachineCutReasons, MachineInits,
     MachineInitPcs, MachineStates

\* The same in the next state.
LEMMA MachineTypePartsNext == Machine!TypeOK' <=> r1' \in MachineSupervisors /\ r2' \in MachineInits
                                /\ r5' \in MachineStates /\ MachineSmall'
BY DEF Machine!TypeOK, MachineSmall, MachineSupervisors, MachineSupPcs, MachineCutReasons, MachineInits,
     MachineInitPcs, MachineStates

\* Every step of the supervisor keeps the types.
LEMMA MachineSupervisorTypes ==
  ASSUME Machine!TypeOK, Machine!CountType,
       Machine!Supervise \/ Machine!PowerOnFails \/ Machine!WatchExpires \/ Machine!Stopped
         \/ Machine!SupervisorDies
  PROVE  Machine!TypeOK'
<1>1. r1 \in MachineSupervisors /\ r2 \in MachineInits /\ r5 \in MachineStates /\ MachineSmall
  BY MachineTypeParts
<1>2. r1.boots \in Nat /\ r1.run \in Nat /\ r1.boots + 1 \in Nat /\ r2.boot \in Nat /\ r13.boots + 1 \in Nat
  BY <1>1 DEF MachineSupervisors, MachineInits, Machine!CountType
<1>3. \A name \in {"off", "starting", "running", "rebooting"} : Machine!publish(name)
        => r5' \in MachineStates
  BY <1>2 DEF Machine!publish, MachineStates
<1>4. \A pc \in MachineSupPcs : r1' = [r1 EXCEPT !.pc = pc] => r1' \in MachineSupervisors
  BY <1>1 DEF MachineSupervisors
<1>5. CASE Machine!Starting
  BY <1>1, <1>3, <1>4, <1>5, MachineTypePartsNext DEF Machine!Starting, MachineSmall, MachineSupPcs
<1>6. CASE Machine!power_on
  <2>1. r1' \in MachineSupervisors
    BY <1>1, <1>2, <1>6 DEF Machine!power_on, MachineSupervisors, MachineSupPcs
  <2>2. r2' \in MachineInits
    BY <1>1, <1>2, <1>6 DEF Machine!power_on, MachineInits, MachineInitPcs
  <2> QED
    BY <1>1, <1>6, <2>1, <2>2, MachineTypePartsNext DEF Machine!power_on, MachineSmall
<1>7. CASE Machine!WatchPublishes
  BY <1>1, <1>3, <1>7, MachineTypePartsNext DEF Machine!WatchPublishes, MachineSmall
<1>8. CASE Machine!WatchEnds
  BY <1>1, <1>4, <1>8, MachineTypePartsNext DEF Machine!WatchEnds, MachineSmall, MachineSupPcs,
       Machine!files
<1>9. CASE Machine!cut_request
  <2>1. r1' \in MachineSupervisors
    BY <1>1, <1>9 DEF Machine!cut_request, MachineSupervisors, MachineSupPcs
  <2> QED
    BY <1>1, <1>9, <2>1, MachineTypePartsNext DEF Machine!cut_request, MachineSmall
<1>10. CASE Machine!power_cut
  <2>1. r2' \in MachineInits
    BY <1>1, <1>2, <1>10 DEF Machine!power_cut, Machine!Dead, MachineInits, MachineInitPcs
  <2> QED
    BY <1>1, <1>4, <1>10, <2>1, MachineTypePartsNext DEF Machine!power_cut, MachineSmall, MachineSupPcs,
         Machine!files
<1>11. CASE Machine!BootIsOver
  BY <1>1, <1>3, <1>4, <1>11, MachineTypePartsNext DEF Machine!BootIsOver, MachineSmall, MachineSupPcs
<1>12. CASE Machine!Restore
  BY <1>1, <1>4, <1>12, MachineTypePartsNext DEF Machine!Restore, Machine!restore_view, MachineSmall,
       MachineSupPcs
<1>13. CASE Machine!PublishOff
  BY <1>1, <1>3, <1>4, <1>13, MachineTypePartsNext DEF Machine!PublishOff, MachineSmall, MachineSupPcs
<1>14. ASSUME r1' = Machine!Gone(r1.run) PROVE r1' \in MachineSupervisors
  BY <1>2, <1>14 DEF Machine!Gone, MachineSupervisors, MachineSupPcs, MachineCutReasons
<1>15. CASE Machine!Leave
  BY <1>1, <1>14, <1>15, MachineTypePartsNext DEF Machine!Leave, MachineSmall, Machine!files
<1>16. CASE Machine!PowerOnFails
  <2>1. r2' \in MachineInits
    BY <1>1, <1>2, <1>16 DEF Machine!PowerOnFails, Machine!Dead, MachineInits, MachineInitPcs
  <2> QED
    BY <1>1, <1>4, <1>16, <2>1, MachineTypePartsNext DEF Machine!PowerOnFails, MachineSmall, MachineSupPcs,
         Machine!files
<1>17. CASE Machine!WatchExpires
  <2>1. r1' \in MachineSupervisors
    BY <1>1, <1>17 DEF Machine!WatchExpires, MachineSupervisors, MachineSupPcs, MachineCutReasons
  <2> QED
    BY <1>1, <1>17, <2>1, MachineTypePartsNext DEF Machine!WatchExpires, MachineSmall, Machine!files
<1>18. CASE Machine!Stopped
  <2>1. r1' \in MachineSupervisors
    BY <1>1, <1>18 DEF Machine!Stopped, Machine!on_cut, MachineSupervisors, MachineCutReasons
  <2> QED
    BY <1>1, <1>18, <2>1, MachineTypePartsNext DEF Machine!Stopped, MachineSmall, Machine!files
<1>19. CASE Machine!SupervisorDies
  BY <1>1, <1>14, <1>19, MachineTypePartsNext DEF Machine!SupervisorDies, MachineSmall, Machine!files
<1> QED
  BY <1>5, <1>6, <1>7, <1>8, <1>9, <1>10, <1>11, <1>12, <1>13, <1>15, <1>16, <1>17, <1>18, <1>19
       DEF Machine!Supervise

\* So does every step of the guest,
LEMMA MachineGuestTypes ==
  ASSUME Machine!TypeOK,
       Machine!Guest \/ Machine!InitExits \/ Machine!GuestSignals \/ Machine!GuestPowersOff
  PROVE  Machine!TypeOK'
<1>1. r1 \in MachineSupervisors /\ r2 \in MachineInits /\ r5 \in MachineStates /\ MachineSmall
  BY MachineTypeParts
<1>2. r2.boot \in Nat /\ r2.request \in {"none", "forced", "reboot", "poweroff"}
  BY <1>1 DEF MachineInits
<1>3. \A pc \in MachineInitPcs : r2' = [r2 EXCEPT !.pc = pc] => r2' \in MachineInits
  BY <1>1 DEF MachineInits
<1>4. CASE Machine!InitNames
  BY <1>1, <1>2, <1>3, <1>4, MachineTypePartsNext DEF Machine!InitNames, MachineSmall, MachineInitPcs,
       Machine!history
<1>5. CASE Machine!InitListens
  BY <1>1, <1>3, <1>5, MachineTypePartsNext DEF Machine!InitListens, MachineSmall, MachineInitPcs,
       Machine!files, Machine!history
<1>6. CASE Machine!sysinit
  BY <1>1, <1>3, <1>6, MachineTypePartsNext DEF Machine!sysinit, MachineSmall, MachineInitPcs,
       Machine!history
<1>7. CASE Machine!InitBooted
  BY <1>1, <1>3, <1>7, MachineTypePartsNext DEF Machine!InitBooted, MachineSmall, MachineInitPcs,
       Machine!files, Machine!history
<1>8. CASE Machine!supervise
  <2>1. r2' \in MachineInits
    BY <1>1, <1>8 DEF Machine!supervise, MachineInits, MachineInitPcs
  <2> QED
    BY <1>1, <1>8, <2>1, MachineTypePartsNext DEF Machine!supervise, MachineSmall
<1>9. CASE Machine!InitExits
  <2>1. r2' \in MachineInits
    BY <1>2, <1>9 DEF Machine!InitExits, Machine!Dead, MachineInits, MachineInitPcs
  <2>2. Machine!ExitStatus[r2.request] \in {"failed", "FORCED", "REBOOT", "0"}
    BY <1>2 DEF Machine!ExitStatus
  <2> QED
    BY <1>1, <1>9, <2>1, <2>2, MachineTypePartsNext DEF Machine!InitExits, MachineSmall, Machine!files
<1>10. CASE Machine!GuestSignals
  <2>1. r2' \in MachineInits
    BY <1>1, <1>10 DEF Machine!GuestSignals, MachineInits
  <2> QED
    BY <1>1, <1>10, <2>1, MachineTypePartsNext DEF Machine!GuestSignals, MachineSmall, Machine!files
<1>11. CASE Machine!GuestPowersOff
  BY <1>1, <1>11, MachineTypePartsNext DEF Machine!GuestPowersOff, MachineSmall
<1> QED
  BY <1>4, <1>5, <1>6, <1>7, <1>8, <1>9, <1>10, <1>11 DEF Machine!Guest

\* What the clients do to the machine.
LEMMA MachineClientTypes ==
  ASSUME Machine!TypeOK, Machine!ClientType, NEW c \in Clients,
         Machine!CutAsks(c) \/ Machine!CutSignals(c) \/ Machine!CutFinishes(c) \/ Machine!CutRestores(c)
           \/ Machine!_power(c) \/ Machine!start(c)
                   \/ Machine!BootDirect(c) \/ Machine!SignalSent(c)
  PROVE  Machine!TypeOK'
<1>1. r1 \in MachineSupervisors /\ r2 \in MachineInits /\ r5 \in MachineStates /\ MachineSmall
  BY MachineTypeParts
<1>2. r2.boot \in Nat /\ r1.run \in Nat
  BY <1>1 DEF MachineInits, MachineSupervisors
<1>3. CASE Machine!CutAsks(c)
  BY <1>1, <1>3, MachineTypePartsNext DEF Machine!CutAsks, MachineSmall
<1>4. CASE Machine!CutSignals(c)
  <2>1. r1' \in MachineSupervisors
    BY <1>1, <1>4 DEF Machine!CutSignals, Machine!on_cut, MachineSupervisors, MachineCutReasons
  <2> QED
    BY <1>1, <1>4, <2>1, MachineTypePartsNext DEF Machine!CutSignals, MachineSmall, Machine!files
<1>5. CASE Machine!CutFinishes(c)
  <2>1. r2' \in MachineInits
    BY <1>1, <1>2, <1>5 DEF Machine!CutFinishes, Machine!Dead, MachineInits, MachineInitPcs
  <2> QED
    BY <1>1, <1>5, <2>1, MachineTypePartsNext DEF Machine!CutFinishes, MachineSmall, Machine!files
<1>6. CASE Machine!CutRestores(c)
  BY <1>1, <1>6, MachineTypePartsNext DEF Machine!CutRestores, Machine!restore_view, MachineSmall
<1>7. CASE Machine!_power(c)
  BY <1>1, <1>7, MachineTypePartsNext DEF Machine!_power, MachineSmall, Machine!files
<1>8. CASE Machine!start(c)
  <2>1. r5' \in MachineStates
    BY <1>1, <1>8 DEF Machine!start, Machine!files, MachineStates
  <2>2. [run |-> r1.run + 1, pc |-> "starting", cut |-> "no", boots |-> 0,
         drop |-> FALSE] \in MachineSupervisors
    BY <1>2 DEF MachineSupervisors, MachineSupPcs, MachineCutReasons
  <2> QED
    BY <1>1, <1>8, <2>1, <2>2, MachineTypePartsNext DEF Machine!start, Machine!files, MachineSmall
<1>9. CASE Machine!BootDirect(c)
  BY <1>1, <1>9, MachineTypePartsNext DEF Machine!BootDirect, MachineSmall
<1>10. CASE Machine!SignalSent(c)
  <2>1. r11[c].pc = "send" => r11[c].call \in {"reboot", "poweroff"}
    BY DEF Machine!ClientType
  <2>2. r2' \in MachineInits
    BY <1>1, <1>10, <2>1 DEF Machine!SignalSent, MachineInits
  <2> QED
    BY <1>1, <1>10, <2>2, MachineTypePartsNext DEF Machine!SignalSent, MachineSmall, Machine!files
<1> QED
  BY <1>3, <1>4, <1>5, <1>6, <1>7, <1>8, <1>9, <1>10


(* ---------------------------------- the clients ---------------------------------- *)

\* Every client stays at a position it can be at, and asks PID 1 only for what it was called
\* for.
LEMMA MachineClientStepType ==
  ASSUME Machine!TypeOK, Machine!ClientType, Viewer \in Clients, [Machine!Next]_Machine!vars
  PROVE  Machine!ClientType'
<1>1. ASSUME NEW c \in Clients, NEW p \in Machine!ClientPcs \ {"send"}, r11' = [r11 EXCEPT ![c].pc = p]
      PROVE  Machine!ClientType'
  BY <1>1 DEF Machine!ClientType, Machine!ClientRecord
<1>2. ASSUME NEW c \in Clients, Machine!Return(c) PROVE Machine!ClientType'
  <2>1. Machine!Idle \in Machine!ClientRecord /\ Machine!Idle.pc = "idle"
    BY DEF Machine!Idle, Machine!ClientRecord, Machine!ClientPcs, Machine!Calls, Machine!Cuts
  <2> QED
    BY <1>2, <2>1 DEF Machine!Return, Machine!ClientType
<1>3. CASE UNCHANGED r11
  BY <1>3 DEF Machine!ClientType
<1>4. ASSUME NEW c \in Clients, NEW p \in Machine!ClientPcs \ {"send"}, Machine!Goto(c, p)
     PROVE Machine!ClientType'
  BY <1>1, <1>4 DEF Machine!Goto
<1>5. ASSUME NEW c \in Clients, NEW call \in Machine!Calls, Machine!Begin(c, call) PROVE Machine!ClientType'
  <2>1. [Machine!Idle EXCEPT !.pc = "called", !.call = call] \in Machine!ClientRecord
    BY DEF Machine!Idle, Machine!ClientRecord, Machine!ClientPcs
  <2>2. [Machine!Idle EXCEPT !.pc = "called", !.call = call].pc = "called"
    BY DEF Machine!Idle
  <2> QED
    BY <1>5, <2>1, <2>2 DEF Machine!Begin, Machine!ClientType
<1>6. ASSUME NEW c \in Clients,
     Machine!cut(c) \/ Machine!CutAsks(c) \/ Machine!CutSignals(c) \/ Machine!CutWaited(c)
       \/ Machine!CutFinishes(c)
                \/ Machine!CutRestores(c) \/ Machine!_power(c) \/ Machine!start(c)
                     \/ Machine!StartReturns(c)
      PROVE  Machine!ClientType'
  BY <1>2, <1>4, <1>6 DEF Machine!cut, Machine!CutAsks, Machine!CutSignals, Machine!CutWaited,
       Machine!CutFinishes, Machine!CutRestores, Machine!_power, Machine!start, Machine!StartReturns,
                          Machine!ClientPcs
<1>7. ASSUME NEW c \in Clients,
     Machine!BootDirect(c) \/ Machine!SignalSent(c) \/ Machine!reboot(c) \/ Machine!poweroff(c)
       \/ Machine!TimesOut(c)
      PROVE  Machine!ClientType'
  BY <1>2, <1>4, <1>7 DEF Machine!BootDirect, Machine!SignalSent, Machine!reboot, Machine!poweroff,
       Machine!TimesOut, Machine!ClientPcs
<1>8. ASSUME NEW c \in Clients, Machine!signal_init(c) PROVE Machine!ClientType'
  <2>1. r2.boot \in Nat /\ r5.boots \in Nat
    BY MachineTypeParts DEF MachineInits, MachineStates
  <2>2. r11[c] \in Machine!ClientRecord /\ r11[c].call \in {"reboot", "poweroff"}
    BY <1>8 DEF Machine!signal_init, Machine!ClientType
  <2>3. [r11[c] EXCEPT !.pc = "send", !.boot = r2.boot, !.boots = r5.boots] \in Machine!ClientRecord
    BY <2>1, <2>2 DEF Machine!ClientRecord, Machine!ClientPcs
  <2>4. [r11[c] EXCEPT !.pc = "send", !.boot = r2.boot, !.boots = r5.boots].call = r11[c].call
    BY <2>2 DEF Machine!ClientRecord
  <2>5. CASE Machine!init_pid
    BY <1>8, <2>2, <2>3, <2>4, <2>5 DEF Machine!signal_init, Machine!ClientType
  <2>6. CASE ~Machine!init_pid
    BY <1>2, <1>8, <2>6 DEF Machine!signal_init, Machine!Return
  <2> QED
    BY <2>5, <2>6
<1>9. ASSUME NEW c \in Clients, Machine!Call(c) PROVE Machine!ClientType'
  BY <1>5, <1>9 DEF Machine!Call
<1>10. CASE Machine!toggle_power \/ Machine!service_requests
  BY <1>3, <1>5, <1>10 DEF Machine!toggle_power, Machine!service_requests, Machine!Calls, Machine!Cuts
<1>11. CASE Machine!Supervise \/ Machine!PowerOnFails \/ Machine!WatchExpires \/ Machine!Stopped
              \/ Machine!SupervisorDies
  BY <1>3, <1>11 DEF Machine!Supervise, Machine!PowerOnFails, Machine!WatchExpires, Machine!Stopped,
       Machine!SupervisorDies, Machine!Starting, Machine!power_on, Machine!WatchPublishes,
                     Machine!WatchEnds, Machine!cut_request, Machine!power_cut, Machine!BootIsOver,
                     Machine!Restore, Machine!PublishOff, Machine!Leave
<1>12. CASE Machine!Guest \/ Machine!InitExits \/ Machine!GuestSignals \/ Machine!GuestPowersOff
              \/ Machine!PowerDone
  BY <1>3, <1>12 DEF Machine!Guest, Machine!InitExits, Machine!GuestSignals, Machine!GuestPowersOff,
       Machine!PowerDone, Machine!InitNames, Machine!InitListens, Machine!sysinit,
                     Machine!InitBooted, Machine!supervise
<1>13. CASE UNCHANGED Machine!vars
  BY <1>3, <1>13 DEF Machine!vars
<1> QED
  BY <1>6, <1>7, <1>8, <1>9, <1>10, <1>11, <1>12, <1>13 DEF Machine!Next, Machine!ClientStep

\* A step counts at most one more death, and none past the bound.
LEMMA MachineCountStepType ==
  ASSUME Machine!CountType, MaxDeaths \in Nat, [Machine!Next]_Machine!vars
  PROVE  Machine!CountType' /\ r12' = r12 /\ r13'.deaths \in {r13.deaths, r13.deaths + 1}
<1>1. CASE UNCHANGED <<r12, r13>>
  BY <1>1 DEF Machine!CountType
<1>2. CASE r12' = r12 /\ r13' = [r13 EXCEPT !.boots = @ + 1]
  BY <1>2 DEF Machine!CountType
<1>3. CASE r12' = r12 /\ r13' = [r13 EXCEPT !.calls = @ + 1]
  BY <1>3 DEF Machine!CountType
<1>4. CASE r12' = r12 /\ r13.deaths < MaxDeaths /\ r13' = [r13 EXCEPT !.deaths = @ + 1]
  BY <1>4 DEF Machine!CountType
<1>5. CASE Machine!Supervise \/ Machine!PowerOnFails \/ Machine!WatchExpires \/ Machine!Stopped
             \/ Machine!SupervisorDies
  BY <1>1, <1>2, <1>4, <1>5 DEF Machine!Supervise, Machine!PowerOnFails, Machine!WatchExpires,
       Machine!Stopped, Machine!SupervisorDies, Machine!Starting, Machine!power_on,
       Machine!WatchPublishes, Machine!WatchEnds, Machine!cut_request, Machine!power_cut, Machine!BootIsOver,
       Machine!Restore, Machine!PublishOff, Machine!Leave, Machine!history
<1>6. CASE Machine!Guest \/ Machine!InitExits \/ Machine!GuestSignals \/ Machine!GuestPowersOff
             \/ Machine!PowerDone
  BY <1>1, <1>6 DEF Machine!Guest, Machine!InitExits, Machine!GuestSignals, Machine!GuestPowersOff,
       Machine!PowerDone, Machine!InitNames, Machine!InitListens, Machine!sysinit,
       Machine!InitBooted, Machine!supervise, Machine!history
<1>7. ASSUME NEW c \in Clients, Machine!ClientStep(c) \/ Machine!TimesOut(c) PROVE UNCHANGED <<r12, r13>>
  BY <1>7 DEF Machine!ClientStep, Machine!TimesOut, Machine!cut, Machine!CutAsks, Machine!CutSignals,
       Machine!CutWaited, Machine!CutFinishes, Machine!CutRestores, Machine!_power, Machine!start,
       Machine!StartReturns, Machine!BootDirect, Machine!signal_init, Machine!SignalSent, Machine!reboot,
       Machine!poweroff, Machine!history
<1>8. ASSUME NEW c \in Clients, Machine!Call(c) PROVE r12' = r12 /\ r13' = [r13 EXCEPT !.calls = @ + 1]
  BY <1>8 DEF Machine!Call, Machine!Begin
<1>9. CASE Machine!toggle_power \/ Machine!service_requests
  BY <1>1, <1>3, <1>9 DEF Machine!toggle_power, Machine!service_requests, Machine!Begin
<1>10. CASE UNCHANGED Machine!vars
  BY <1>1, <1>10 DEF Machine!vars
<1> QED
  BY <1>1, <1>3, <1>5, <1>6, <1>7, <1>8, <1>9, <1>10 DEF Machine!Next


(* ------------------------- the machine, step by step ------------------------- *)

\* The invariant does not see the requests, the marker and the viewer's transition.
LEMMA MachineUnseen ==
  ASSUME Machine!StateInv, UNCHANGED <<r1, r2, r3, r4, r5, r7, r9, r12>>,
         r13'.deaths = r13.deaths
  PROVE  Machine!StateInv'
BY DEF Machine!StateInv, Machine!GuestInv, Machine!SupInv, Machine!OrphanInv, Machine!OffInv,
     Machine!supervisor_pid

\* The relations between supervisor, guest and published state survive a step of the
\* supervisor,
LEMMA MachineSupervisorStep ==
  ASSUME Machine!IInv, MaxDeaths \in Nat,
       Machine!Supervise \/ Machine!PowerOnFails \/ Machine!WatchExpires \/ Machine!Stopped
         \/ Machine!SupervisorDies
  PROVE  Machine!StateInv'
<1> USE DEF Machine!StateInv, Machine!GuestInv, Machine!SupInv, Machine!OrphanInv, Machine!OffInv
<1>1. r1 \in MachineSupervisors /\ r2 \in MachineInits /\ r5 \in MachineStates /\ MachineSmall
        /\ Machine!CountType /\ Machine!StateInv
  BY MachineTypeParts DEF Machine!IInv
<1>2. \A p \in MachineSupPcs : r1' = [r1 EXCEPT !.pc = p]
        => r1'.pc = p /\ r1'.cut = r1.cut /\ r1'.run = r1.run
  BY <1>1 DEF MachineSupervisors
<1>3. \A n \in {"off", "starting", "running", "rebooting"} : Machine!publish(n)
        => r5'.state = n /\ r5'.pid = r1.run
  BY DEF Machine!publish
<1>4. Machine!Dead(r2.boot).pc = "none" /\ Machine!Gone(r1.run).pc = "none"
  BY DEF Machine!Dead, Machine!Gone
<1>5. CASE Machine!Starting
  BY <1>1, <1>2, <1>3, <1>5 DEF Machine!Starting, Machine!supervisor_pid, Machine!history, MachineSupPcs
<1>6. CASE Machine!power_on
  <2>1. r1'.pc = "watch" /\ r1'.run = r1.run
    BY <1>1, <1>6 DEF Machine!power_on, MachineSupervisors
  <2>2. r13'.deaths = r13.deaths /\ r2'.pc = "new" /\ r7' = 0
    BY <1>1, <1>6 DEF Machine!power_on, Machine!CountType
  <2> QED
    BY <1>1, <1>6, <2>1, <2>2 DEF Machine!power_on, Machine!supervisor_pid
<1>7. CASE Machine!WatchPublishes
  BY <1>1, <1>3, <1>7 DEF Machine!WatchPublishes, Machine!supervisor_pid, Machine!history
<1>8. CASE Machine!WatchEnds
  BY <1>1, <1>2, <1>8 DEF Machine!WatchEnds, Machine!supervisor_pid, Machine!files, Machine!history,
       MachineSupPcs
<1>9. CASE Machine!cut_request
  <2>1. r1'.pc = "cutting" /\ r1'.cut = r1.cut /\ r1'.run = r1.run
    BY <1>1, <1>9 DEF Machine!cut_request, MachineSupervisors
  <2> QED
    BY <1>1, <1>9, <2>1 DEF Machine!cut_request, Machine!supervisor_pid, Machine!history
<1>10. CASE Machine!power_cut
  BY <1>1, <1>2, <1>4, <1>10 DEF Machine!power_cut, Machine!supervisor_pid, Machine!files, Machine!history,
       MachineSupPcs
<1>11. CASE Machine!BootIsOver
  BY <1>1, <1>2, <1>3, <1>11 DEF Machine!BootIsOver, Machine!supervisor_pid, Machine!history, MachineSupPcs
<1>12. CASE Machine!Restore
  BY <1>1, <1>2, <1>12 DEF Machine!Restore, Machine!restore_view, Machine!supervisor_pid, Machine!history,
       MachineSupPcs
<1>13. CASE Machine!PublishOff
  BY <1>1, <1>2, <1>3, <1>13 DEF Machine!PublishOff, Machine!supervisor_pid, Machine!history, MachineSupPcs
<1>14. CASE Machine!Leave
  BY <1>1, <1>4, <1>14 DEF Machine!Leave, Machine!supervisor_pid, Machine!files, Machine!history
<1>15. CASE Machine!PowerOnFails
  BY <1>1, <1>2, <1>4, <1>15 DEF Machine!PowerOnFails, Machine!supervisor_pid, Machine!files,
       Machine!history, MachineSupPcs
<1>16. CASE Machine!WatchExpires
  <2>1. r1'.pc = "ended" /\ r1'.cut = "lifetime limit" /\ r1'.run = r1.run
    BY <1>1, <1>16 DEF Machine!WatchExpires, MachineSupervisors
  <2> QED
    BY <1>1, <1>16, <2>1 DEF Machine!WatchExpires, Machine!supervisor_pid, Machine!files, Machine!history
<1>17. CASE Machine!Stopped
  <2>1. r1'.pc = r1.pc /\ r1'.run = r1.run /\ r1'.cut = "stopped"
    BY <1>1, <1>17 DEF Machine!Stopped, Machine!on_cut, MachineSupervisors
  <2> QED
    BY <1>1, <1>17, <2>1 DEF Machine!Stopped, Machine!supervisor_pid, Machine!files, Machine!history
<1>18. CASE Machine!SupervisorDies
  <2>1. r13'.deaths = r13.deaths + 1 /\ r13'.deaths > 0
    BY <1>1, <1>18 DEF Machine!SupervisorDies, Machine!CountType
  <2>2. r1'.pc = "none" /\ r2.pc # "none" /\ r7 = r2.boot
    BY <1>4, <1>18 DEF Machine!SupervisorDies, Machine!init_pid
  <2>3. r5.state # "off" /\ r12 # "direct"
    BY <1>1, <2>2
  <2> QED
    BY <1>1, <1>18, <2>1, <2>2, <2>3 DEF Machine!SupervisorDies, Machine!supervisor_pid, Machine!files
<1> QED
  BY <1>5, <1>6, <1>7, <1>8, <1>9, <1>10, <1>11, <1>12, <1>13, <1>14, <1>15, <1>16, <1>17, <1>18
       DEF Machine!Supervise

\* of the guest,
LEMMA MachineGuestStep ==
  ASSUME Machine!IInv, Machine!Guest \/ Machine!InitExits \/ Machine!GuestSignals \/ Machine!GuestPowersOff
  PROVE  Machine!StateInv'
<1> USE DEF Machine!StateInv, Machine!GuestInv, Machine!SupInv, Machine!OrphanInv, Machine!OffInv,
            Machine!supervisor_pid, Machine!files, Machine!history
<1>1. r1 \in MachineSupervisors /\ r2 \in MachineInits /\ Machine!CountType /\ Machine!StateInv
  BY MachineTypeParts DEF Machine!IInv
<1>2. \A p \in MachineInitPcs : r2' = [r2 EXCEPT !.pc = p] => r2'.pc = p /\ r2'.boot = r2.boot
  BY <1>1 DEF MachineInits
<1>3. Machine!Dead(r2.boot).pc = "none"
  BY DEF Machine!Dead
<1>4. CASE Machine!InitNames
  BY <1>1, <1>2, <1>4 DEF Machine!InitNames, MachineInitPcs
<1>5. CASE Machine!InitListens
  BY <1>1, <1>2, <1>5 DEF Machine!InitListens, MachineInitPcs
<1>6. CASE Machine!sysinit
  BY <1>1, <1>2, <1>6 DEF Machine!sysinit, MachineInitPcs
<1>7. CASE Machine!InitBooted
  BY <1>1, <1>2, <1>7 DEF Machine!InitBooted, MachineInitPcs
<1>8. CASE Machine!supervise
  <2>1. r2'.pc = "shutdown" /\ r2'.boot = r2.boot
    BY <1>1, <1>8 DEF Machine!supervise, MachineInits
  <2> QED
    BY <1>1, <1>8, <2>1 DEF Machine!supervise
<1>9. CASE Machine!InitExits
  <2>1. r3' # "running" \/ r3' = r3
    BY <1>1, <1>9 DEF Machine!InitExits, Machine!ExitStatus, MachineInits
  <2> QED
    BY <1>1, <1>3, <1>9, <2>1 DEF Machine!InitExits
<1>10. CASE Machine!GuestSignals
  <2>1. r2'.pc = r2.pc /\ r2'.boot = r2.boot
    BY <1>1, <1>10 DEF Machine!GuestSignals, MachineInits
  <2> QED
    BY <1>1, <1>10, <2>1 DEF Machine!GuestSignals
<1>11. CASE Machine!GuestPowersOff
  BY <1>1, <1>11, MachineUnseen DEF Machine!GuestPowersOff
<1> QED
  BY <1>4, <1>5, <1>6, <1>7, <1>8, <1>9, <1>10, <1>11 DEF Machine!Guest

\* A start finds no guest, because a guest without a supervisor is found by its PID file.
LEMMA MachineClientStateStep ==
  ASSUME Machine!IInv, MaxDeaths \in {0, 1}, NEW c \in Clients,
         Machine!CutAsks(c) \/ Machine!CutSignals(c) \/ Machine!CutFinishes(c) \/ Machine!CutRestores(c)
           \/ Machine!_power(c) \/ Machine!start(c)
                   \/ Machine!BootDirect(c) \/ Machine!SignalSent(c)
  PROVE  Machine!StateInv'
<1> USE DEF Machine!StateInv, Machine!GuestInv, Machine!SupInv, Machine!OrphanInv, Machine!OffInv,
            Machine!supervisor_pid, Machine!files, Machine!history
<1>1. r1 \in MachineSupervisors /\ r2 \in MachineInits /\ r5 \in MachineStates /\ Machine!CountType
        /\ Machine!StateInv
  BY MachineTypeParts DEF Machine!IInv
<1>2. CASE Machine!CutAsks(c)
  BY <1>1, <1>2, MachineUnseen DEF Machine!CutAsks
<1>3. CASE Machine!CutSignals(c)
  <2>1. CASE r1.pc = "none"
    BY <1>1, <1>3, <2>1, MachineUnseen DEF Machine!CutSignals
  <2>2. CASE r1.pc # "none"
    <3>1. r1'.pc = r1.pc /\ r1'.run = r1.run /\ r1'.cut # "no"
      BY <1>1, <1>3, <2>2 DEF Machine!CutSignals, Machine!on_cut, MachineSupervisors
    <3> QED
      BY <1>1, <1>3, <2>2, <3>1 DEF Machine!CutSignals
  <2> QED
    BY <2>1, <2>2
<1>4. CASE Machine!CutFinishes(c)
  <2>1. r2' = r2 \/ r2'.pc = "none"
    BY <1>4 DEF Machine!CutFinishes, Machine!Dead
  <2>2. r3' = r3 \/ (r3' = "killed" /\ r2'.pc = "none")
    BY <1>4 DEF Machine!CutFinishes, Machine!Dead
  <2> QED
    BY <1>1, <1>4, <2>1, <2>2 DEF Machine!CutFinishes
<1>5. CASE Machine!CutRestores(c)
  <2>1. r13.deaths > 0 /\ (r1.pc = "none" => r2.pc = "none")
    BY <1>5 DEF Machine!CutRestores, Machine!CutInv, Machine!IInv
  <2> QED
    BY <1>1, <1>5, <2>1 DEF Machine!CutRestores, Machine!restore_view
<1>6. CASE Machine!_power(c)
  BY <1>1, <1>6 DEF Machine!_power
<1>7. CASE Machine!start(c)
  <2>1. CASE Machine!active
    BY <1>1, <1>7, <2>1, MachineUnseen DEF Machine!start
  <2>2. CASE ~Machine!active
    <3>1. r1.pc = "none" /\ r2.pc = "none"
      BY <1>1, <1>7, <2>2 DEF Machine!start, Machine!active, Machine!init_pid
    <3>2. r1'.pc = "starting" /\ r5'.state = "starting" /\ r12 = "init"
      BY <1>7, <2>2 DEF Machine!start
    <3>3. UNCHANGED <<r2, r3, r4, r7, r9, r12, r13>>
      BY <1>7, <2>2 DEF Machine!start
    <3> QED
      BY <1>1, <3>1, <3>2, <3>3
  <2> QED
    BY <2>1, <2>2
<1>8. CASE Machine!BootDirect(c)
  BY <1>1, <1>8 DEF Machine!BootDirect
<1>9. CASE Machine!SignalSent(c)
  <2>1. r2'.pc = r2.pc /\ r2'.boot = r2.boot
    BY <1>1, <1>9 DEF Machine!SignalSent, MachineInits
  <2> QED
    BY <1>1, <1>9, <2>1 DEF Machine!SignalSent
<1> QED
  BY <1>2, <1>3, <1>4, <1>5, <1>6, <1>7, <1>8, <1>9


\* While no client moves, a guest that is gone stays gone unless there is a supervisor.
LEMMA MachineCutKept ==
  ASSUME Machine!IInv, MaxDeaths \in {0, 1}, r13'.deaths \in {r13.deaths, r13.deaths + 1},
         UNCHANGED r11,
         r1'.pc = "none" => r1.pc = "none" \/ r2'.pc = "none" \/ r13.deaths = 0,
         r1.pc = "none" /\ r2.pc = "none" => r2'.pc = "none"
  PROVE  Machine!CutInv'
<1>1. r13.deaths \in Nat
  BY DEF Machine!IInv, Machine!CountType
<1> QED
  BY <1>1 DEF Machine!IInv, Machine!CutInv

\* What a client in the middle of a cut relies on survives the machine's own steps,
LEMMA MachineCutInvMachine ==
  ASSUME Machine!IInv, MaxDeaths \in {0, 1}, r13'.deaths \in {r13.deaths, r13.deaths + 1},
         \/ Machine!Supervise \/ Machine!PowerOnFails \/ Machine!WatchExpires \/ Machine!Stopped
              \/ Machine!SupervisorDies
         \/ Machine!Guest \/ Machine!InitExits \/ Machine!GuestSignals \/ Machine!GuestPowersOff
              \/ Machine!PowerDone
  PROVE  Machine!CutInv'
<1>1. r1 \in MachineSupervisors /\ r2 \in MachineInits /\ Machine!CountType /\ Machine!StateInv
  BY MachineTypeParts DEF Machine!IInv
<1>2. \A p \in MachineSupPcs : r1' = [r1 EXCEPT !.pc = p] => r1'.pc = p
  BY <1>1 DEF MachineSupervisors
<1>3. Machine!Dead(r2.boot).pc = "none"
  BY DEF Machine!Dead
<1>4. CASE Machine!Starting \/ Machine!WatchPublishes \/ Machine!WatchEnds \/ Machine!BootIsOver
             \/ Machine!Restore \/ Machine!PublishOff
  BY <1>1, <1>2, <1>4, MachineCutKept
     DEF Machine!Starting, Machine!WatchPublishes, Machine!WatchEnds, Machine!BootIsOver, Machine!Restore,
         Machine!PublishOff, MachineSupPcs
<1>5. CASE Machine!power_on
  <2>1. r1'.pc = "watch"
    BY <1>1, <1>5 DEF Machine!power_on, MachineSupervisors
  <2> QED
    BY <1>5, <2>1, MachineCutKept DEF Machine!power_on
<1>6. CASE Machine!cut_request
  <2>1. r1'.pc = "cutting"
    BY <1>1, <1>6 DEF Machine!cut_request, MachineSupervisors
  <2> QED
    BY <1>6, <2>1, MachineCutKept DEF Machine!cut_request
<1>7. CASE Machine!power_cut \/ Machine!PowerOnFails
  BY <1>3, <1>7, MachineCutKept DEF Machine!power_cut, Machine!PowerOnFails
<1>8. CASE Machine!Leave
  BY <1>1, <1>8, MachineCutKept DEF Machine!Leave, Machine!StateInv, Machine!SupInv
<1>9. CASE Machine!WatchExpires \/ Machine!Stopped
  <2>1. r1'.pc # "none"
    BY <1>1, <1>9 DEF Machine!WatchExpires, Machine!Stopped, Machine!on_cut, MachineSupervisors
  <2> QED
    BY <1>9, <2>1, MachineCutKept DEF Machine!WatchExpires, Machine!Stopped
<1>10. CASE Machine!SupervisorDies
  <2>1. r13.deaths = 0
    BY <1>1, <1>10 DEF Machine!SupervisorDies, Machine!CountType
  <2> QED
    BY <1>10, <2>1, MachineCutKept DEF Machine!SupervisorDies
<1>11. CASE Machine!Guest \/ Machine!InitExits \/ Machine!GuestSignals \/ Machine!GuestPowersOff
              \/ Machine!PowerDone
  <2>1. r1' = r1 /\ r11' = r11
    BY <1>11 DEF Machine!Guest, Machine!InitNames, Machine!InitListens, Machine!sysinit,
         Machine!InitBooted, Machine!supervise, Machine!InitExits, Machine!GuestSignals,
         Machine!GuestPowersOff,
                 Machine!PowerDone
  <2>2. r2.pc = "none" => r2'.pc = "none"
    BY <1>3, <1>11 DEF Machine!Guest, Machine!InitNames, Machine!InitListens, Machine!sysinit,
         Machine!InitBooted, Machine!supervise, Machine!InitExits, Machine!GuestSignals,
                       Machine!GuestPowersOff, Machine!PowerDone
  <2> QED
    BY <2>1, <2>2, MachineCutKept
<1> QED
  BY <1>4, <1>5, <1>6, <1>7, <1>8, <1>9, <1>10, <1>11 DEF Machine!Supervise

\* A client's step to a position where it finishes nobody's job.
LEMMA MachineCutMoves ==
  ASSUME Machine!IInv, NEW c \in Clients, r13'.deaths = r13.deaths,
         r11'[c].pc \notin {"finish", "restore"}, \A d \in Clients \ {c} : r11'[d] = r11[d],
         r1'.pc = "none" => r1.pc = "none", r1.pc = "none" /\ r2.pc = "none" => r2'.pc = "none"
  PROVE  Machine!CutInv'
BY DEF Machine!IInv, Machine!CutInv

\* the steps of all clients,
LEMMA MachineCutInvClients ==
  ASSUME Machine!IInv, NEW c \in Clients, Machine!ClientStep(c) \/ Machine!TimesOut(c) \/ Machine!Call(c)
  PROVE  Machine!CutInv'
<1>1. r1 \in MachineSupervisors /\ r2 \in MachineInits /\ Machine!CountType /\ Machine!StateInv
        /\ Machine!ClientType
  BY MachineTypeParts DEF Machine!IInv
<1>2. ASSUME NEW p \in Machine!ClientPcs, Machine!Goto(c, p)
      PROVE  r11'[c].pc = p /\ \A d \in Clients \ {c} : r11'[d] = r11[d]
  BY <1>1, <1>2 DEF Machine!Goto, Machine!ClientType, Machine!ClientRecord
<1>3. ASSUME Machine!Return(c)
      PROVE  r11'[c].pc = "idle" /\ \A d \in Clients \ {c} : r11'[d] = r11[d]
  BY <1>1, <1>3 DEF Machine!Return, Machine!Idle, Machine!ClientType
<1>4. r13'.deaths = r13.deaths
  BY <1>1 DEF Machine!ClientStep, Machine!TimesOut, Machine!Call, Machine!Begin, Machine!cut,
       Machine!CutAsks, Machine!CutSignals, Machine!CutWaited, Machine!CutFinishes, Machine!CutRestores,
       Machine!_power,
       Machine!start, Machine!StartReturns, Machine!BootDirect, Machine!signal_init, Machine!SignalSent,
       Machine!reboot, Machine!poweroff, Machine!history, Machine!CountType
<1>5. CASE Machine!cut(c)
  <2>1. CASE Machine!Goto(c, "finish") /\ ~Machine!supervisor_pid /\ r7 # 0
    <3>1. r13.deaths > 0
      BY <1>1, <2>1 DEF Machine!StateInv, Machine!OrphanInv, Machine!CountType
    <3>2. r11'[c].pc = "finish" /\ \A d \in Clients \ {c} : r11'[d] = r11[d]
      BY <1>2, <2>1 DEF Machine!ClientPcs
    <3> QED
      BY <1>4, <1>5, <3>1, <3>2 DEF Machine!cut, Machine!IInv, Machine!CutInv
  <2>2. CASE Machine!Goto(c, "ask") \/ Machine!Goto(c, "kill")
    BY <1>2, <1>4, <1>5, <2>2, MachineCutMoves DEF Machine!cut, Machine!ClientPcs
  <2> QED
    BY <1>5, <2>1, <2>2 DEF Machine!cut
<1>6. CASE Machine!CutAsks(c) \/ Machine!CutWaited(c) \/ Machine!CutRestores(c) \/ Machine!_power(c)
             \/ Machine!StartReturns(c) \/ Machine!BootDirect(c)
                     \/ Machine!reboot(c) \/ Machine!poweroff(c) \/ Machine!TimesOut(c)
  BY <1>2, <1>3, <1>4, <1>6, MachineCutMoves DEF Machine!CutAsks, Machine!CutWaited, Machine!CutRestores,
       Machine!_power, Machine!StartReturns, Machine!BootDirect, Machine!reboot,
       Machine!poweroff, Machine!TimesOut, Machine!ClientPcs
<1>7. CASE Machine!CutSignals(c)
  <2>1. r1'.pc = r1.pc
    BY <1>1, <1>7 DEF Machine!CutSignals, Machine!on_cut, MachineSupervisors
  <2> QED
    BY <1>2, <1>3, <1>4, <1>7, <2>1, MachineCutMoves DEF Machine!CutSignals, Machine!ClientPcs
<1>8. CASE Machine!CutFinishes(c)
  <2>1. r11'[c].pc = "restore" /\ \A d \in Clients \ {c} : r11'[d] = r11[d]
    BY <1>2, <1>8 DEF Machine!CutFinishes, Machine!ClientPcs
  <2>2. r13.deaths > 0
    BY <1>8 DEF Machine!CutFinishes, Machine!IInv, Machine!CutInv
  <2>3. r1.pc = "none" => r2'.pc = "none"
    BY <1>1, <1>8 DEF Machine!CutFinishes, Machine!init_pid, Machine!Dead, Machine!StateInv,
         Machine!OrphanInv
  <2>4. r1' = r1
    BY <1>8 DEF Machine!CutFinishes
  <2> QED
    BY <1>4, <2>1, <2>2, <2>3, <2>4 DEF Machine!IInv, Machine!CutInv
<1>9. CASE Machine!start(c)
  <2>1. r1'.pc = "none" => r1.pc = "none"
    BY <1>9 DEF Machine!start, Machine!files
  <2> QED
    BY <1>2, <1>3, <1>4, <1>9, <2>1, MachineCutMoves DEF Machine!start, Machine!ClientPcs
<1>10. CASE Machine!signal_init(c)
  <2>1. r11'[c].pc \in {"send", "idle"} /\ \A d \in Clients \ {c} : r11'[d] = r11[d]
    BY <1>1, <1>10 DEF Machine!signal_init, Machine!ClientType, Machine!ClientRecord, Machine!Idle
  <2> QED
    BY <1>4, <1>10, <2>1, MachineCutMoves DEF Machine!signal_init
<1>11. CASE Machine!SignalSent(c)
  <2>1. r2'.pc = r2.pc
    BY <1>1, <1>11 DEF Machine!SignalSent, MachineInits
  <2> QED
    BY <1>2, <1>3, <1>4, <1>11, <2>1, MachineCutMoves DEF Machine!SignalSent, Machine!ClientPcs
<1>12. CASE Machine!Call(c)
  <2>1. r11'[c].pc = "called" /\ \A d \in Clients \ {c} : r11'[d] = r11[d]
    BY <1>1, <1>12 DEF Machine!Call, Machine!Begin, Machine!ClientType, Machine!Idle
  <2> QED
    BY <1>4, <1>12, <2>1, MachineCutMoves DEF Machine!Call
<1> QED
  BY <1>5, <1>6, <1>7, <1>8, <1>9, <1>10, <1>11, <1>12 DEF Machine!ClientStep

\* and those of the viewer.
LEMMA MachineCutInvViewer ==
  ASSUME Machine!IInv, Viewer \in Clients, Machine!toggle_power \/ Machine!service_requests
  PROVE  Machine!CutInv'
<1>1. CASE UNCHANGED <<r1, r2, r11, r13>>
  BY <1>1 DEF Machine!IInv, Machine!CutInv
<1>2. ASSUME NEW call \in Machine!Calls, Machine!Begin(Viewer, call), UNCHANGED <<r1, r2>>
      PROVE  Machine!CutInv'
  <2>1. r11'[Viewer].pc = "called" /\ \A d \in Clients \ {Viewer} : r11'[d] = r11[d]
    BY <1>2 DEF Machine!Begin, Machine!IInv, Machine!ClientType, Machine!Idle
  <2>2. r13'.deaths = r13.deaths
    BY <1>2 DEF Machine!Begin, Machine!IInv, Machine!CountType
  <2> QED
    BY <1>2, <2>1, <2>2, MachineCutMoves
<1> QED
  BY <1>1, <1>2 DEF Machine!toggle_power, Machine!service_requests, Machine!Calls, Machine!Cuts

\* The steps of clients and viewer that leave the machine alone.
LEMMA MachineQuietStep ==
  ASSUME Machine!IInv,
         \/ Machine!toggle_power \/ Machine!service_requests \/ Machine!PowerDone \/ UNCHANGED Machine!vars
         \/ \E c \in Clients : \/ Machine!cut(c) \/ Machine!CutWaited(c) \/ Machine!StartReturns(c)
              \/ Machine!signal_init(c) \/ Machine!reboot(c)
                               \/ Machine!poweroff(c) \/ Machine!TimesOut(c) \/ Machine!Call(c)
  PROVE  Machine!TypeOK' /\ Machine!StateInv'
<1>1. UNCHANGED <<r1, r2, r3, r4, r5, r6, r7, r9>> /\ r8' \in BOOLEAN
        /\ r10' \in {"none", "starting", "stopping"}
  BY DEF Machine!toggle_power, Machine!service_requests, Machine!PowerDone, Machine!vars, Machine!cut,
       Machine!CutWaited, Machine!StartReturns, Machine!signal_init, Machine!reboot, Machine!poweroff,
         Machine!TimesOut, Machine!Call, Machine!IInv, Machine!TypeOK, Machine!files
<1>2. r12' = r12 /\ r13'.deaths = r13.deaths
  BY DEF Machine!toggle_power, Machine!service_requests, Machine!PowerDone, Machine!vars, Machine!cut,
       Machine!CutWaited, Machine!StartReturns, Machine!signal_init, Machine!reboot, Machine!poweroff,
         Machine!TimesOut, Machine!Call, Machine!Begin, Machine!IInv, Machine!CountType, Machine!history
<1>3. Machine!TypeOK'
  BY <1>1, MachineTypeParts, MachineTypePartsNext DEF Machine!IInv, MachineSmall
<1> QED
  BY <1>1, <1>2, <1>3, MachineUnseen DEF Machine!IInv

(* ------------------------- every step of the machine ------------------------- *)

\* Every step of the machine keeps the invariant.
LEMMA MachineStepInv ==
  ASSUME MaxDeaths \in {0, 1}, Viewer \in Clients, Machine!IInv, [Machine!Next]_Machine!vars
  PROVE  Machine!IInv'
<1>1. Machine!TypeOK /\ Machine!ClientType /\ Machine!CountType /\ Machine!CutInv
  BY DEF Machine!IInv
<1>2. Machine!ClientType'
  BY <1>1, MachineClientStepType
<1>3. Machine!CountType' /\ r13'.deaths \in {r13.deaths, r13.deaths + 1}
  BY <1>1, MachineCountStepType
<1>4. CASE Machine!Supervise \/ Machine!PowerOnFails \/ Machine!WatchExpires \/ Machine!Stopped
             \/ Machine!SupervisorDies
  BY <1>1, <1>2, <1>3, <1>4, MachineSupervisorTypes, MachineSupervisorStep, MachineCutInvMachine
       DEF Machine!IInv
<1>5. CASE Machine!Guest \/ Machine!InitExits \/ Machine!GuestSignals \/ Machine!GuestPowersOff
  BY <1>1, <1>2, <1>3, <1>5, MachineGuestTypes, MachineGuestStep, MachineCutInvMachine DEF Machine!IInv
<1>6. ASSUME NEW c \in Clients, Machine!ClientStep(c) \/ Machine!TimesOut(c) \/ Machine!Call(c)
     PROVE Machine!IInv'
  <2>1. Machine!CutInv'
    BY <1>6, MachineCutInvClients
  <2>2. CASE Machine!CutAsks(c) \/ Machine!CutSignals(c) \/ Machine!CutFinishes(c) \/ Machine!CutRestores(c)
               \/ Machine!_power(c) \/ Machine!start(c)
                       \/ Machine!BootDirect(c) \/ Machine!SignalSent(c)
    BY <1>1, <1>2, <1>3, <2>1, <2>2, MachineClientTypes, MachineClientStateStep DEF Machine!IInv
  <2>3. CASE Machine!cut(c) \/ Machine!CutWaited(c) \/ Machine!StartReturns(c) \/ Machine!signal_init(c)
               \/ Machine!reboot(c) \/ Machine!poweroff(c) \/ Machine!TimesOut(c)
                       \/ Machine!Call(c)
    BY <1>2, <1>3, <2>1, <2>3, MachineQuietStep DEF Machine!IInv
  <2> QED
    BY <1>6, <2>2, <2>3 DEF Machine!ClientStep
<1>7. CASE Machine!toggle_power \/ Machine!service_requests
  BY <1>2, <1>3, <1>7, MachineQuietStep, MachineCutInvViewer DEF Machine!IInv
<1>8. CASE Machine!PowerDone
  BY <1>2, <1>3, <1>8, MachineQuietStep, MachineCutInvMachine DEF Machine!IInv
<1>9. CASE UNCHANGED Machine!vars
  <2>1. Machine!CutInv'
    BY <1>1, <1>9 DEF Machine!vars, Machine!CutInv
  <2> QED
    BY <1>2, <1>3, <1>9, <2>1, MachineQuietStep DEF Machine!IInv
<1> QED
  BY <1>4, <1>5, <1>6, <1>7, <1>8, <1>9 DEF Machine!Next

\* Once the state says "off" nothing of a supervised guest runs; a supervisor that was not killed
\* leaves no guest, programs or mounts behind.
LEMMA MachineOff == ASSUME Machine!IInv PROVE Machine!OffMeansOff
BY DEF Machine!IInv, Machine!StateInv, Machine!GuestInv, Machine!OffInv, Machine!OffMeansOff

\* A supervisor that was not killed leaves no guest, programs or mounts behind.
LEMMA MachineOrphans == ASSUME Machine!IInv PROVE Machine!NoOrphan
BY DEF Machine!IInv, Machine!StateInv, Machine!GuestInv, Machine!OrphanInv, Machine!NoOrphan

\* No power-on meets the programs or the PID 1 of an earlier boot.
LEMMA MachineBoots == ASSUME Machine!IInv, [Machine!Next]_Machine!vars PROVE Machine!BootsAlone
<1>1. r2 \in MachineInits /\ MachineSmall /\ Machine!StateInv
  BY MachineTypeParts DEF Machine!IInv
<1>2. Machine!Dead(r2.boot).boot = r2.boot
  BY DEF Machine!Dead
<1>3. CASE Machine!power_on
  BY <1>1, <1>3 DEF Machine!power_on, MachineSmall, Machine!StateInv, Machine!GuestInv, Machine!SupInv,
       Machine!BootsAlone
<1>4. CASE Machine!Starting \/ Machine!WatchPublishes \/ Machine!WatchEnds \/ Machine!cut_request
             \/ Machine!power_cut \/ Machine!BootIsOver \/ Machine!Restore
                     \/ Machine!PublishOff \/ Machine!Leave \/ Machine!PowerOnFails \/ Machine!WatchExpires
                          \/ Machine!Stopped \/ Machine!SupervisorDies
  BY <1>2, <1>4 DEF Machine!Starting, Machine!WatchPublishes, Machine!WatchEnds, Machine!cut_request,
       Machine!power_cut, Machine!BootIsOver, Machine!Restore, Machine!PublishOff,
       Machine!Leave, Machine!PowerOnFails, Machine!WatchExpires, Machine!Stopped, Machine!SupervisorDies,
       Machine!BootsAlone
<1>5. CASE Machine!Guest \/ Machine!InitExits \/ Machine!GuestSignals \/ Machine!GuestPowersOff
             \/ Machine!PowerDone
  <2>1. \A p \in MachineInitPcs : [r2 EXCEPT !.pc = p].boot = r2.boot
    BY <1>1 DEF MachineInits
  <2>2. \A r : [r2 EXCEPT !.request = r].boot = r2.boot
          /\ \A p : [r2 EXCEPT !.pc = p, !.request = r].boot = r2.boot
    BY <1>1 DEF MachineInits
  <2>3. CASE Machine!Guest \/ Machine!InitExits
    <3>1. CASE Machine!InitNames \/ Machine!InitListens \/ Machine!sysinit \/ Machine!InitBooted
      BY <2>1, <3>1 DEF Machine!InitNames, Machine!InitListens, Machine!sysinit, Machine!InitBooted,
           MachineInitPcs, Machine!BootsAlone
    <3>2. CASE Machine!supervise
      BY <2>2, <3>2 DEF Machine!supervise, Machine!BootsAlone
    <3>3. CASE Machine!InitExits
      BY <1>2, <3>3 DEF Machine!InitExits, Machine!BootsAlone
    <3> QED
      BY <2>3, <3>1, <3>2, <3>3 DEF Machine!Guest
  <2>4. CASE Machine!GuestSignals \/ Machine!GuestPowersOff \/ Machine!PowerDone
    BY <2>2, <2>4 DEF Machine!GuestSignals, Machine!GuestPowersOff, Machine!PowerDone, Machine!BootsAlone
  <2> QED
    BY <1>5, <2>3, <2>4
<1>6. ASSUME NEW c \in Clients, Machine!ClientStep(c) \/ Machine!TimesOut(c) \/ Machine!Call(c)
     PROVE r2'.boot = r2.boot
  <2>1. \A r : [r2 EXCEPT !.request = r].boot = r2.boot
    BY <1>1 DEF MachineInits
  <2>2. r2' \in {r2, Machine!Dead(r2.boot), [r2 EXCEPT !.request = r11[c].call]}
    BY <1>6 DEF Machine!ClientStep, Machine!TimesOut, Machine!Call, Machine!cut, Machine!CutAsks,
         Machine!CutSignals, Machine!CutWaited, Machine!CutFinishes, Machine!CutRestores, Machine!_power,
         Machine!start, Machine!StartReturns, Machine!BootDirect, Machine!signal_init, Machine!SignalSent,
         Machine!reboot, Machine!poweroff
  <2> QED
    BY <1>2, <2>1, <2>2
<1>7. CASE Machine!toggle_power \/ Machine!service_requests \/ UNCHANGED Machine!vars
  BY <1>7 DEF Machine!toggle_power, Machine!service_requests, Machine!vars, Machine!BootsAlone
<1> QED
  BY <1>3, <1>4, <1>5, <1>6, <1>7 DEF Machine!Next, Machine!Supervise, Machine!BootsAlone

(* ------------------------- the hands on the player -------------------------- *)
\* Its variables: r1 is running, r2 is transition, r3 is lock, r4 is operation, r5 is error, r6
\* is sd, r7 is card, r8 is mount, r9 is uevents, r10 is wiped, r11 is settled, r12 is holds,
\* r13 is repeated, r14 is level, r15 is held, r16 is armed, r17 is pressed, r18 is admitted,
\* r19 is count, r20 is supervised, r21 is disturbed.

\* The keys' half of the invariant, and the card's.
PeriphKeySide ==
  /\ r1 \in BOOLEAN /\ r2 \in {"none", "stopping", "starting", "booting"}
  /\ r12 \in [Keys -> {"no", "held", "due"}]
  /\ r14 \subseteq Keys /\ r15 \subseteq Keys /\ r16 \subseteq Keys /\ r17 \subseteq Keys
  /\ r13 \subseteq Keys /\ Peripherals!KeyInv /\ Peripherals!LowHasAnOwner
       /\ Peripherals!RepeatsFollowAPress

PeriphWorks == [pc : Peripherals!SdPcs, insert : BOOLEAN, force : BOOLEAN]
PeriphCardSide ==
  /\ r1 \in BOOLEAN /\ r3 \in {"none", "sd"} /\ r4 \in BOOLEAN /\ r5 \in BOOLEAN
  /\ r7 \in {"dev", "saved"} /\ r8 \in {"none", "card", "open"} /\ r6 \in PeriphWorks
  /\ r9 \in Seq(Peripherals!Events) /\ r10 \in BOOLEAN /\ r21 \in BOOLEAN
  /\ Peripherals!SdInv /\ Peripherals!CardInv /\ Peripherals!OnlyDisturbedIsWiped

PeriphOtherTypes ==
        r11 \in BOOLEAN /\ r20 \in BOOLEAN /\ r18 \in {"none", "hold", "power"} /\ r19 \in Nat

\* The invariant is its two halves and the types of the rest.
LEMMA PeriphSides == Peripherals!IInv <=> PeriphKeySide /\ PeriphCardSide /\ PeriphOtherTypes
BY DEF Peripherals!IInv, Peripherals!Types, Peripherals!TypeOK, PeriphKeySide, PeriphCardSide,
     PeriphOtherTypes, PeriphWorks

\* The same in the next state.
LEMMA PeriphSidesNext == Peripherals!IInv' <=> PeriphKeySide' /\ PeriphCardSide' /\ PeriphOtherTypes'
BY PeriphSides, PTL

\* A step that touches no key keeps the keys' half,
LEMMA PeriphKeysStay == ASSUME PeriphKeySide, UNCHANGED <<r1, r2, Peripherals!keys>> PROVE PeriphKeySide'
BY DEF PeriphKeySide, Peripherals!keys, Peripherals!KeyInv, Peripherals!LowHasAnOwner,
     Peripherals!RepeatsFollowAPress, Peripherals!live

\* one that touches neither card nor lock, the card's,
LEMMA PeriphCardStays == ASSUME PeriphCardSide, UNCHANGED <<r1, r3, r4, Peripherals!sdcard, r21>>
     PROVE PeriphCardSide'
BY DEF PeriphCardSide, Peripherals!sdcard, Peripherals!SdInv, Peripherals!CardInv,
     Peripherals!OnlyDisturbedIsWiped, Peripherals!Removing

\* and one that touches none of the rest, the rest.
LEMMA PeriphOthersStay ==
  ASSUME PeriphOtherTypes, UNCHANGED r11, UNCHANGED r20, UNCHANGED r18, UNCHANGED r19
  PROVE  PeriphOtherTypes'
BY DEF PeriphOtherTypes

\* -------------------------------- the keys --------------------------------

\* The end of some holds: their levels go with them, and what repeats is still held.
LEMMA PeriphReleased ==
  ASSUME PeriphKeySide, NEW ks, Peripherals!Ended(ks), UNCHANGED r1, UNCHANGED r15, UNCHANGED r16
  PROVE  /\ r12' \in [Keys -> {"no", "held", "due"}] /\ Peripherals!live' = Peripherals!live \ ks
         /\ r14' \subseteq Keys /\ r17' \subseteq Keys /\ r13' \subseteq Keys
              /\ r13' \subseteq Peripherals!live'
         /\ r13' \cap ks = {} /\ (r13 = {} => r13' = {})
         /\ Peripherals!LowHasAnOwner' /\ Peripherals!RepeatsFollowAPress'
<1>1. /\ r12' = [k \in Keys |-> IF k \in ks THEN "no" ELSE r12[k]]
      /\ r13' = r13 \ ks /\ r17' = r17 \ ks /\ r14' = r15 \union (Peripherals!live \ ks)
  BY DEF Peripherals!Ended, Peripherals!apply
<1>2. /\ r12 \in [Keys -> {"no", "held", "due"}] /\ r15 \subseteq Keys /\ r17 \subseteq Keys
      /\ r13 \subseteq Keys /\ r13 \subseteq Peripherals!live /\ (r1 => r13 \subseteq r17)
      /\ Peripherals!live \subseteq Keys
  BY DEF PeriphKeySide, Peripherals!KeyInv, Peripherals!RepeatsFollowAPress, Peripherals!live
<1>3. r12' \in [Keys -> {"no", "held", "due"}] /\ Peripherals!live' = Peripherals!live \ ks
  BY <1>1, <1>2 DEF Peripherals!live
<1>4. Peripherals!LowHasAnOwner' /\ Peripherals!RepeatsFollowAPress'
  BY <1>1, <1>2, <1>3 DEF Peripherals!LowHasAnOwner, Peripherals!RepeatsFollowAPress
<1> QED
  BY <1>1, <1>2, <1>3, <1>4

\* So an end, an expiry and a cancellation keep the keys' half.
LEMMA PeriphKeysReleased ==
  ASSUME PeriphKeySide, NEW ks, Peripherals!Ended(ks), UNCHANGED <<r1, r2, r15, r16>>
  PROVE  PeriphKeySide'
BY PeriphReleased DEF PeriphKeySide, Peripherals!KeyInv

\* A hold adds its level, and the press that its repetitions follow.
LEMMA PeriphKeyHeld ==
  ASSUME PeriphKeySide, NEW k \in Keys, Peripherals!Hold(k) PROVE PeriphKeySide'
<1>1. CASE UNCHANGED <<r12, r13, r14, r17>>
  BY <1>1, PeriphKeysStay DEF Peripherals!Hold, Peripherals!keys
<1>2. CASE ~UNCHANGED <<r12, r13, r14, r17>>
  <2>1. /\ r2 = "none" /\ r1
        /\ r12' = [r12 EXCEPT ![k] = "held"] /\ r13' = r13 \union {k}
        /\ r17' = (IF k \in r13 THEN r17 ELSE r17 \union {k})
        /\ r14' = r15 \union (Peripherals!live \union {k})
        /\ UNCHANGED <<r1, r2, r15, r16>>
    BY <1>2 DEF Peripherals!Hold, Peripherals!apply
  <2>2. r12' \in [Keys -> {"no", "held", "due"}] /\ Peripherals!live' = Peripherals!live \union {k}
          /\ Peripherals!live \subseteq Keys
    BY <2>1 DEF PeriphKeySide, Peripherals!live
  <2> QED
    BY <2>1, <2>2 DEF PeriphKeySide, Peripherals!KeyInv, Peripherals!LowHasAnOwner,
         Peripherals!RepeatsFollowAPress
<1> QED
  BY <1>1, <1>2

\* A new viewer starts without holds.
LEMMA PeriphKeysReset == ASSUME PeriphKeySide, Peripherals!reset PROVE PeriphKeySide'
<1>1. /\ r2 = "none" /\ UNCHANGED <<r1, r2, r15, r16, r17>>
      /\ r12' = [k \in Keys |-> "no"] /\ r13' = {} /\ r14' = r15
  BY DEF Peripherals!reset, Peripherals!apply
<1>2. r12' \in [Keys -> {"no", "held", "due"}] /\ Peripherals!live' = {}
  BY <1>1 DEF Peripherals!live
<1> QED
  BY <1>1, <1>2 DEF PeriphKeySide, Peripherals!KeyInv, Peripherals!LowHasAnOwner,
       Peripherals!RepeatsFollowAPress

\* A hold whose time is over is still held.
LEMMA PeriphKeysDue == ASSUME PeriphKeySide, NEW k \in Keys, Peripherals!Due(k) PROVE PeriphKeySide'
<1>1. r12' \in [Keys -> {"no", "held", "due"}] /\ Peripherals!live' = Peripherals!live
  BY DEF PeriphKeySide, Peripherals!live, Peripherals!Due
<1> QED
  BY <1>1 DEF PeriphKeySide, Peripherals!KeyInv, Peripherals!LowHasAnOwner,
       Peripherals!RepeatsFollowAPress, Peripherals!Due

\* A power transition: every hold is cancelled before it starts.
LEMMA PeriphKeysPower == ASSUME PeriphKeySide, Peripherals!Power PROVE PeriphKeySide'
<1>1. CASE UNCHANGED <<r2, r12, r13, r14, r17>>
  BY <1>1, PeriphKeysStay DEF Peripherals!Power, Peripherals!keys
<1>2. CASE Peripherals!Ended(Peripherals!live) /\ r2' = IF r1 THEN "stopping" ELSE "starting"
  <2>1. UNCHANGED <<r1, r15, r16>>
    BY DEF Peripherals!Power
  <2>2. r13' = {}
    BY <1>2, <2>1, PeriphReleased DEF PeriphKeySide, Peripherals!KeyInv
  <2>3. r2' \in {"stopping", "starting"}
    BY <1>2
  <2> QED
    BY <1>2, <2>1, <2>2, <2>3, PeriphReleased DEF PeriphKeySide, Peripherals!KeyInv
<1> QED
  BY <1>1, <1>2 DEF Peripherals!Power

\* No key repeats during a power transition, so none is left to a run that has not seen its
\* press.
LEMMA PeriphKeysTransition == ASSUME PeriphKeySide,
     Peripherals!PowerStops \/ Peripherals!PowerStarts \/ Peripherals!PowerBooted PROVE PeriphKeySide'
<1>1. Peripherals!live' = Peripherals!live
  BY DEF Peripherals!PowerStops, Peripherals!PowerStarts, Peripherals!PowerBooted, Peripherals!live
<1>2. CASE Peripherals!PowerStops
  <2>1. /\ r2 = "stopping" /\ r2' = "none" /\ UNCHANGED <<r12, r13, r16, r15, r14>>
        /\ \/ r1' = FALSE /\ r17' = {}
           \/ UNCHANGED <<r1, r17>>
    BY <1>2 DEF Peripherals!PowerStops
  <2>2. r1' \in BOOLEAN /\ r17' \subseteq Keys
    BY <2>1 DEF PeriphKeySide
  <2>3. Peripherals!RepeatsFollowAPress'
    <3>1. CASE r1' = FALSE
      BY <3>1 DEF Peripherals!RepeatsFollowAPress
    <3>2. CASE UNCHANGED <<r1, r17>>
      BY <2>1, <3>2 DEF Peripherals!RepeatsFollowAPress, PeriphKeySide
    <3> QED
      BY <2>1, <3>1, <3>2
  <2>4. Peripherals!LowHasAnOwner' /\ Peripherals!KeyInv'
    BY <1>1, <2>1 DEF PeriphKeySide, Peripherals!KeyInv, Peripherals!LowHasAnOwner
  <2> QED
    BY <2>1, <2>2, <2>3, <2>4 DEF PeriphKeySide
<1>3. CASE Peripherals!PowerStarts
  BY <1>1, <1>3 DEF Peripherals!PowerStarts, Peripherals!apply, PeriphKeySide, Peripherals!KeyInv,
       Peripherals!LowHasAnOwner, Peripherals!RepeatsFollowAPress
<1>4. CASE Peripherals!PowerBooted
  <2>1. r2 = "booting" /\ r2' = "none" /\ UNCHANGED <<r12, r13, r16>>
    BY <1>4 DEF Peripherals!PowerBooted
  <2>2. /\ r1' \in BOOLEAN /\ r17' \subseteq Keys
        /\ \/ r15' = {} /\ r14' = {}
           \/ UNCHANGED <<r15, r14>>
    BY <1>4 DEF Peripherals!PowerBooted, Peripherals!apply, PeriphKeySide
  <2> QED
    BY <1>1, <2>1, <2>2 DEF PeriphKeySide, Peripherals!KeyInv, Peripherals!LowHasAnOwner,
         Peripherals!RepeatsFollowAPress
<1> QED
  BY <1>2, <1>3, <1>4

\* -------------------------------- the card --------------------------------

\* An event that is sent is the last of the queue,
LEMMA PeriphEvents1 ==
  ASSUME NEW u \in Seq(Peripherals!Events), NEW e \in Peripherals!Events
  PROVE  /\ Append(u, e) \in Seq(Peripherals!Events)
         /\ \A i \in DOMAIN Append(u, e) : Append(u, e)[i] = e \/ (i \in DOMAIN u /\ Append(u, e)[i] = u[i])
<1> HIDE DEF Peripherals!Events
<1> QED
  OBVIOUS

\* and the one that is handled was its first.
LEMMA PeriphEvents2 ==
  ASSUME NEW u \in Seq(Peripherals!Events), u # <<>>
  PROVE  /\ Tail(u) \in Seq(Peripherals!Events) /\ Head(u) = u[1] /\ 1 \in DOMAIN u
         /\ \A i \in DOMAIN Tail(u) : Tail(u)[i] = u[i + 1] /\ i + 1 \in DOMAIN u
<1> HIDE DEF Peripherals!Events
<1>1. Tail(u) \in Seq(Peripherals!Events) /\ Len(Tail(u)) = Len(u) - 1 /\ Len(u) \in Nat \ {0}
  OBVIOUS
<1>2. \A i \in 1..Len(Tail(u)) : Tail(u)[i] = u[i + 1] /\ i + 1 \in 1..Len(u)
  BY <1>1
<1>3. DOMAIN u = 1..Len(u) /\ DOMAIN Tail(u) = 1..Len(Tail(u))
  BY <1>1
<1> QED
  BY <1>1, <1>2, <1>3

\* Handling an event adds no removal to those the player has not seen.
LEMMA PeriphEventsHandled ==
  ASSUME r9 \in Seq(Peripherals!Events), r9 # <<>>, r9' = Tail(r9)
  PROVE  /\ r9' \in Seq(Peripherals!Events) /\ (Peripherals!Removing' => Peripherals!Removing)
         /\ Head(r9) = "remove" => Peripherals!Removing
BY PeriphEvents2 DEF Peripherals!Removing

\* Sending one adds a removal only if it is one.
LEMMA PeriphEventSent ==
  ASSUME r9 \in Seq(Peripherals!Events), NEW e \in Peripherals!Events, r9' = Append(r9, e)
  PROVE  r9' \in Seq(Peripherals!Events) /\ (Peripherals!Removing' => Peripherals!Removing \/ e = "remove")
BY PeriphEvents1 DEF Peripherals!Removing

\* An empty queue holds no removal.
LEMMA PeriphNoEvents == r9 = <<>> => ~Peripherals!Removing
BY DEF Peripherals!Removing

\* The same in the next state.
LEMMA PeriphNoEventsNext == r9' = <<>> => ~Peripherals!Removing'
BY DEF Peripherals!Removing

\* The empty queue is one of events.
LEMMA PeriphNoSuch == <<>> \in Seq(Peripherals!Events)
OBVIOUS

\* A mount that counts as none met no removal that is pending or under way.
LEMMA PeriphDisturbed ==
  ASSUME PeriphCardSide, Peripherals!Disturbs
  PROVE  /\ r21' \in BOOLEAN /\ (r21 => r21')
         /\ ~r21' => ~Peripherals!Removing /\ r6.pc \notin {"unmount", "remove", "moveback"}
<1>1. r21' = (r21 \/ (r6.pc # "none" /\ ~r6.insert) \/ Peripherals!Removing)
  BY DEF Peripherals!Disturbs, Peripherals!Removing
<1>2. r21' \in BOOLEAN
  BY <1>1
<1>3. r6.pc \in {"unmount", "remove", "moveback"} => r6.pc # "none" /\ ~r6.insert
  BY DEF PeriphCardSide, Peripherals!SdInv
<1> QED
  BY <1>1, <1>2, <1>3

\* A mount by somebody else counts as a disturbance; what unmounts, never.
LEMMA PeriphMounts ==
  ASSUME PeriphCardSide, r8' \in {"none", "card", "open"}, r8' # "none" => r7 = "dev" \/ r8 # "none",
         Peripherals!Disturbs, UNCHANGED <<r3, r4, r5, r6, r7, r10>>, r1' \in BOOLEAN,
         r9' \in Seq(Peripherals!Events), Peripherals!Removing' => Peripherals!Removing, ~r1' => r9' = <<>>
  PROVE  PeriphCardSide'
<1>1. /\ r21' \in BOOLEAN /\ (r21 => r21')
      /\ ~r21' => ~Peripherals!Removing /\ r6.pc \notin {"unmount", "remove", "moveback"}
  BY PeriphDisturbed
<1>2. Peripherals!CardInv'
  BY <1>1 DEF Peripherals!CardInv, PeriphCardSide
<1> QED
  BY <1>1, <1>2 DEF PeriphCardSide, Peripherals!SdInv, Peripherals!OnlyDisturbedIsWiped

\* What only unmounts, and wipes only what was disturbed, keeps the card's half.
LEMMA PeriphUnmounts ==
  ASSUME PeriphCardSide, r8' \in {"none", "card", "open"}, r8 = "none" => r8' = "none",
         r10' \in BOOLEAN, r10' => r21,
         UNCHANGED <<r3, r4, r5, r6, r7, r21>>, r1' \in BOOLEAN,
         r9' \in Seq(Peripherals!Events), Peripherals!Removing' => Peripherals!Removing, ~r1' => r9' = <<>>
  PROVE  PeriphCardSide'
BY DEF PeriphCardSide, Peripherals!SdInv, Peripherals!CardInv, Peripherals!OnlyDisturbedIsWiped

\* So does every phase of a power transition,
LEMMA PeriphCardTransition == ASSUME PeriphCardSide,
     Peripherals!PowerStops \/ Peripherals!PowerStarts \/ Peripherals!PowerBooted PROVE PeriphCardSide'
<1>1. PeriphCardSide => /\ r1 \in BOOLEAN /\ r9 \in Seq(Peripherals!Events) /\ r10 \in BOOLEAN
        /\ (r10 => r21)
                        /\ r8 \in {"none", "card", "open"} /\ (~r1 => r9 = <<>>)
  BY DEF PeriphCardSide, Peripherals!CardInv, Peripherals!OnlyDisturbedIsWiped
<1>2. r9' = r9 => r9' \in Seq(Peripherals!Events) /\ (Peripherals!Removing' => Peripherals!Removing)
  BY <1>1 DEF Peripherals!Removing
<1>3. r9' = <<>> => r9' \in Seq(Peripherals!Events) /\ ~Peripherals!Removing'
  BY PeriphNoEventsNext, PeriphNoSuch
<1>4. CASE Peripherals!PowerStops
  <2>1. /\ UNCHANGED <<r3, r4, r5, r6, r7, r10, r21>> /\ r1' \in BOOLEAN
        /\ r9' = <<>> \/ UNCHANGED <<r1, r9>>
        /\ r8' \in {"none", "card", "open"} /\ (r8 = "none" => r8' = "none")
    BY <1>1, <1>4 DEF Peripherals!PowerStops, Peripherals!Unplayed, Peripherals!history
  <2> QED
    BY <1>1, <1>2, <1>3, <2>1, PeriphUnmounts
<1>5. CASE Peripherals!PowerStarts
  BY <1>1, <1>2, <1>5, PeriphUnmounts DEF Peripherals!PowerStarts, Peripherals!history
<1>6. CASE Peripherals!PowerBooted
  <2>0. UNCHANGED <<r3, r4, r5, r6, r7, r10>>
    BY <1>6 DEF Peripherals!PowerBooted
  <2>1. CASE /\ Peripherals!Disturbs /\ UNCHANGED <<r1, r9>>
             /\ r8' = IF r8 = "none" /\ r7 = "dev" THEN "card" ELSE r8
    BY <1>1, <1>2, <2>0, <2>1, PeriphMounts
  <2>2. CASE /\ r1' \in BOOLEAN /\ UNCHANGED r21
             /\ r8' = IF r1' THEN r8 ELSE Peripherals!Unplayed
             /\ r9' = IF r1' THEN r9 ELSE <<>>
    <3>1. /\ r8' \in {"none", "card", "open"} /\ (r8 = "none" => r8' = "none")
          /\ r9' \in Seq(Peripherals!Events) /\ (Peripherals!Removing' => Peripherals!Removing)
      BY <1>1, <1>2, <1>3, <2>2 DEF Peripherals!Unplayed
    <3>2. ~r1' => r9' = <<>>
      BY <2>2
    <3> QED
      BY <1>1, <2>0, <2>2, <3>1, <3>2, PeriphUnmounts
  <2> QED
    BY <1>6, <2>1, <2>2 DEF Peripherals!PowerBooted
<1> QED
  BY <1>4, <1>5, <1>6

\* the supervisor's mount during the start-up,
LEMMA PeriphCardWatched == ASSUME PeriphCardSide, Peripherals!WatchMounts PROVE PeriphCardSide'
<1>1. r9' \in Seq(Peripherals!Events) /\ (Peripherals!Removing' => Peripherals!Removing)
        /\ (~r1' => r9' = <<>>) /\ r1' \in BOOLEAN
  BY DEF Peripherals!WatchMounts, PeriphCardSide, Peripherals!CardInv, Peripherals!Removing
<1> QED
  BY <1>1, PeriphMounts DEF Peripherals!WatchMounts

\* and whatever the player does with the card and its events.
LEMMA PeriphCardPlayed == ASSUME PeriphCardSide,
     Peripherals!PlayerOpens \/ Peripherals!PlayerCloses \/ Peripherals!PlayerHandles
       \/ Peripherals!PlayerMisses PROVE PeriphCardSide'
<1>1. r1 /\ r1' = r1
  BY DEF Peripherals!PlayerOpens, Peripherals!PlayerCloses, Peripherals!Plays, Peripherals!PlayerHandles,
       Peripherals!PlayerMisses
<1>2. r10 \in BOOLEAN /\ (r10 => r21) /\ r8 \in {"none", "card", "open"} /\ r9 \in Seq(Peripherals!Events)
  BY DEF PeriphCardSide, Peripherals!OnlyDisturbedIsWiped
<1>3. CASE Peripherals!PlayerOpens \/ Peripherals!PlayerCloses
  <2>1. r9' \in Seq(Peripherals!Events) /\ (Peripherals!Removing' => Peripherals!Removing)
    BY <1>2, <1>3 DEF Peripherals!PlayerOpens, Peripherals!PlayerCloses, Peripherals!Plays,
         Peripherals!Removing
  <2> QED
    BY <1>1, <1>2, <1>3, <2>1, PeriphUnmounts DEF Peripherals!PlayerOpens, Peripherals!PlayerCloses,
         Peripherals!Plays, Peripherals!history
<1>4. CASE Peripherals!PlayerMisses
  <2>1. r9' \in Seq(Peripherals!Events) /\ (Peripherals!Removing' => Peripherals!Removing)
    BY <1>2, <1>4, PeriphEventsHandled DEF Peripherals!PlayerMisses
  <2> QED
    BY <1>1, <1>2, <1>4, <2>1, PeriphUnmounts DEF Peripherals!PlayerMisses, Peripherals!history
<1>5. CASE Peripherals!PlayerHandles
  <2>1. /\ r9' \in Seq(Peripherals!Events) /\ (Peripherals!Removing' => Peripherals!Removing)
             /\ (Head(r9) = "remove" => Peripherals!Removing)
        /\ Head(r9) \in Peripherals!Events
    BY <1>2, <1>5, PeriphEventsHandled, PeriphEvents2 DEF Peripherals!PlayerHandles
  <2>2. UNCHANGED <<r3, r4, r5, r6, r7>>
    BY <1>5 DEF Peripherals!PlayerHandles
  <2>3. CASE Head(r9) = "add"
    BY <1>1, <1>2, <1>5, <2>1, <2>2, <2>3, PeriphMounts DEF Peripherals!PlayerHandles
  <2>4. CASE Head(r9) # "add"
    <3>1. /\ r10' = (r10 \/ r8 = "open") /\ UNCHANGED r21
          /\ r8' = IF r8 = "card" THEN "none" ELSE r8
      BY <1>5, <2>4 DEF Peripherals!PlayerHandles
    <3>2. Peripherals!Removing
      BY <2>1, <2>4 DEF Peripherals!Events
    <3>3. r10' \in BOOLEAN
      BY <3>1
    <3>4. r10' => r21
      BY <1>2, <3>1, <3>2 DEF PeriphCardSide, Peripherals!CardInv
    <3> QED
      BY <1>1, <1>2, <2>1, <2>2, <3>1, <3>3, <3>4, PeriphUnmounts
  <2> QED
    BY <2>3, <2>4
<1> QED
  BY <1>3, <1>4, <1>5

\* A step of the SD thread changes its position and not its direction.
LEMMA PeriphStepped ==
  ASSUME PeriphCardSide, NEW pc \in Peripherals!SdPcs, Peripherals!Step(pc)
  PROVE  r6' \in PeriphWorks /\ r6'.pc = pc /\ r6'.insert = r6.insert
<1> HIDE DEF Peripherals!SdPcs
<1> QED
  BY DEF PeriphCardSide, PeriphWorks, Peripherals!Step

\* A request for an insertion or an ejection moves nothing yet.
LEMMA PeriphCardBegun == ASSUME PeriphCardSide, NEW insert \in BOOLEAN, NEW force \in BOOLEAN,
     Peripherals!set_sd(insert, force) PROVE PeriphCardSide'
<1>1. r6' \in PeriphWorks /\ r6'.pc = "check"
  BY DEF Peripherals!set_sd, PeriphWorks, Peripherals!SdPcs
<1> QED
  BY <1>1 DEF Peripherals!set_sd, PeriphCardSide, Peripherals!SdInv, Peripherals!CardInv,
       Peripherals!OnlyDisturbedIsWiped, Peripherals!Removing

\* No step of the SD thread, and no failure of one, exposes a mounted card to the cleanup.
LEMMA PeriphCardWorks == ASSUME PeriphCardSide, Peripherals!SdWorks \/ Peripherals!SdFails
     PROVE PeriphCardSide'
<1>0. /\ r1 \in BOOLEAN /\ r3 \in {"none", "sd"} /\ r4 \in BOOLEAN /\ r5 \in BOOLEAN
      /\ r7 \in {"dev", "saved"} /\ r8 \in {"none", "card", "open"} /\ r6 \in PeriphWorks
      /\ r9 \in Seq(Peripherals!Events) /\ r10 \in BOOLEAN /\ r21 \in BOOLEAN
      /\ Peripherals!SdInv /\ Peripherals!CardInv /\ Peripherals!OnlyDisturbedIsWiped
  BY DEF PeriphCardSide
<1>1. CASE Peripherals!SdChecks
  <2>1. r6' \in PeriphWorks /\ r6'.pc = (IF r6.insert THEN "move" ELSE "unmount") /\ r6'.insert = r6.insert
    BY <1>1, PeriphStepped DEF Peripherals!SdChecks, Peripherals!SdPcs
  <2> QED
    BY <1>0, <1>1, <2>1 DEF Peripherals!SdChecks, Peripherals!rest, Peripherals!history, PeriphCardSide,
         Peripherals!SdInv, Peripherals!CardInv, Peripherals!OnlyDisturbedIsWiped, Peripherals!Removing
<1>2. CASE Peripherals!SdFails
  <2>1. r6' \in PeriphWorks /\ r6'.pc = "done" /\ r6'.insert = r6.insert
    BY <1>2, PeriphStepped DEF Peripherals!SdFails, Peripherals!SdPcs
  <2> QED
    BY <1>0, <1>2, <2>1 DEF Peripherals!SdFails, Peripherals!rest, Peripherals!history, PeriphCardSide,
         Peripherals!SdInv, Peripherals!CardInv, Peripherals!OnlyDisturbedIsWiped, Peripherals!Removing
<1>3. CASE Peripherals!_move_nodes
  <2>1. r6' \in PeriphWorks /\ r6'.pc = (IF r6.insert THEN "probe" ELSE "done") /\ r6'.insert = r6.insert
    BY <1>3, PeriphStepped DEF Peripherals!_move_nodes, Peripherals!SdPcs
  <2>2. (r6.pc = "move" /\ r6.insert) \/ (r6.pc = "moveback" /\ ~r6.insert)
    <3>1. r6.pc \in {"move", "moveback"}
      BY <1>3 DEF Peripherals!_move_nodes
    <3>2. r6.pc = "move" => r6.insert
      BY <1>0 DEF Peripherals!SdInv
    <3>3. r6.pc = "moveback" => ~r6.insert
      BY <1>0 DEF Peripherals!SdInv
    <3> QED
      BY <3>1, <3>2, <3>3
  <2> QED
    BY <1>0, <1>3, <2>1, <2>2 DEF Peripherals!_move_nodes, Peripherals!rest, Peripherals!history,
         PeriphCardSide, Peripherals!SdInv, Peripherals!CardInv, Peripherals!OnlyDisturbedIsWiped,
         Peripherals!Removing
<1>4. CASE Peripherals!_event
  <2>1. /\ r6' \in PeriphWorks /\ r6'.insert = r6.insert
        /\ r6'.pc = (IF ~r6.insert THEN "moveback" ELSE IF r1 THEN "wait" ELSE "mount")
    BY <1>4, PeriphStepped DEF Peripherals!_event, Peripherals!SdPcs
  <2>2. (r6.pc = "probe" /\ r6.insert) \/ (r6.pc = "remove" /\ ~r6.insert)
    <3>1. r6.pc \in {"probe", "remove"}
      BY <1>4 DEF Peripherals!_event
    <3>2. r6.pc = "probe" => r6.insert
      BY <1>0 DEF Peripherals!SdInv
    <3>3. r6.pc = "remove" => ~r6.insert
      BY <1>0 DEF Peripherals!SdInv
    <3> QED
      BY <3>1, <3>2, <3>3
  <2>3. CASE r1
    <3>1. r9' = Append(r9, IF r6.insert THEN "add" ELSE "remove")
      BY <1>4, <2>3 DEF Peripherals!_event
    <3>2. r9' \in Seq(Peripherals!Events) /\ (Peripherals!Removing' => Peripherals!Removing \/ ~r6.insert)
      BY <1>0, <3>1, PeriphEventSent DEF Peripherals!Events
    <3> QED
      BY <1>0, <1>4, <2>1, <2>2, <2>3, <3>2 DEF Peripherals!_event, Peripherals!rest, Peripherals!history,
           PeriphCardSide, Peripherals!SdInv, Peripherals!CardInv, Peripherals!OnlyDisturbedIsWiped
  <2>4. CASE ~r1
    <3>1. r9' = r9 /\ ~Peripherals!Removing /\ ~Peripherals!Removing'
      BY <1>0, <1>4, <2>4, PeriphNoEvents, PeriphNoEventsNext DEF Peripherals!_event, Peripherals!CardInv
    <3> QED
      BY <1>0, <1>4, <2>1, <2>2, <2>4, <3>1 DEF Peripherals!_event, Peripherals!rest, Peripherals!history,
           PeriphCardSide, Peripherals!SdInv, Peripherals!CardInv, Peripherals!OnlyDisturbedIsWiped
  <2> QED
    BY <2>3, <2>4
<1>5. CASE Peripherals!_wait_mount
  <2>1. r6' \in PeriphWorks /\ r6'.pc = "mount" /\ r6'.insert = r6.insert
    BY <1>5, PeriphStepped DEF Peripherals!_wait_mount, Peripherals!SdPcs
  <2> QED
    BY <1>0, <1>5, <2>1 DEF Peripherals!_wait_mount, Peripherals!rest, Peripherals!history, PeriphCardSide,
         Peripherals!SdInv, Peripherals!CardInv, Peripherals!OnlyDisturbedIsWiped, Peripherals!Removing
<1>6. CASE Peripherals!_mount_sd
  <2>1. r6' \in PeriphWorks /\ r6'.pc = "done" /\ r6'.insert = r6.insert
    BY <1>6, PeriphStepped DEF Peripherals!_mount_sd, Peripherals!SdPcs
  <2> QED
    BY <1>0, <1>6, <2>1 DEF Peripherals!_mount_sd, Peripherals!rest, Peripherals!history, PeriphCardSide,
         Peripherals!SdInv, Peripherals!CardInv, Peripherals!OnlyDisturbedIsWiped, Peripherals!Removing
<1>7. CASE Peripherals!_unmount_sd
  <2>1. r6' \in PeriphWorks /\ r6'.pc = "remove" /\ r6'.insert = r6.insert
    BY <1>7, PeriphStepped DEF Peripherals!_unmount_sd, Peripherals!SdPcs
  <2> QED
    BY <1>0, <1>7, <2>1 DEF Peripherals!_unmount_sd, Peripherals!rest, Peripherals!history, PeriphCardSide,
         Peripherals!SdInv, Peripherals!CardInv, Peripherals!OnlyDisturbedIsWiped, Peripherals!Removing
<1>8. CASE Peripherals!SdEnds
  <2>1. r6' \in PeriphWorks /\ r6'.pc = "none"
    BY <1>8 DEF Peripherals!SdEnds, Peripherals!NoWork, PeriphWorks, Peripherals!SdPcs
  <2> QED
    BY <1>0, <1>8, <2>1 DEF Peripherals!SdEnds, Peripherals!history, PeriphCardSide, Peripherals!SdInv,
         Peripherals!CardInv, Peripherals!OnlyDisturbedIsWiped, Peripherals!Removing
<1> QED
  BY <1>1, <1>2, <1>3, <1>4, <1>5, <1>6, <1>7, <1>8 DEF Peripherals!SdWorks

\* A new viewer forgets the SD thread where it was.
LEMMA PeriphCardReset == ASSUME PeriphCardSide, Peripherals!reset PROVE PeriphCardSide'
<1>1. r6' \in PeriphWorks /\ r6'.pc = "none"
  BY DEF Peripherals!reset, Peripherals!NoWork, PeriphWorks, Peripherals!SdPcs
<1> QED
  BY <1>1 DEF Peripherals!reset, Peripherals!history, PeriphCardSide, Peripherals!SdInv,
       Peripherals!CardInv, Peripherals!OnlyDisturbedIsWiped, Peripherals!Removing

\* -------------------------------- together --------------------------------

\* The invariant holds initially,
LEMMA PeriphInitInv == Peripherals!Init => Peripherals!IInv
<1> SUFFICES ASSUME Peripherals!Init PROVE Peripherals!IInv
  OBVIOUS
<1>1. r12 \in [Keys -> {"no", "held", "due"}] /\ Peripherals!live = {}
  BY DEF Peripherals!Init, Peripherals!live
<1>2. PeriphKeySide
  BY <1>1 DEF Peripherals!Init, PeriphKeySide, Peripherals!KeyInv, Peripherals!LowHasAnOwner,
       Peripherals!RepeatsFollowAPress
<1>3. r6 \in PeriphWorks /\ r6.pc = "none" /\ ~Peripherals!Removing /\ r9 \in Seq(Peripherals!Events)
  BY PeriphNoEvents, PeriphNoSuch DEF Peripherals!Init, Peripherals!NoWork, PeriphWorks, Peripherals!SdPcs
<1>4. PeriphCardSide
  BY <1>3 DEF Peripherals!Init, PeriphCardSide, Peripherals!SdInv, Peripherals!CardInv,
       Peripherals!OnlyDisturbedIsWiped
<1> QED
  BY <1>2, <1>4, PeriphSides DEF Peripherals!Init, PeriphOtherTypes

\* Each action disturbs the keys' half or the card's; a power transition and a reset, both.
LEMMA PeriphSteps == ASSUME Peripherals!IInv, Peripherals!Next PROVE Peripherals!IInv'
<1>0. PeriphKeySide /\ PeriphCardSide /\ PeriphOtherTypes
  BY PeriphSides
<1>1. PeriphOtherTypes'
  <2> USE DEF Peripherals!Next, Peripherals!reset, Peripherals!Admit, Peripherals!Power, Peripherals!expire,
  Peripherals!service_requests, Peripherals!set_boot_keys, Peripherals!Hold, Peripherals!End,
  Peripherals!Due, Peripherals!Refused, Peripherals!Request,
              Peripherals!PowerStops, Peripherals!PowerStarts, Peripherals!PowerBooted,
              Peripherals!WatchMounts, Peripherals!WatchSettles, Peripherals!PlayerOpens,
              Peripherals!PlayerCloses, Peripherals!Plays,
              Peripherals!PlayerHandles, Peripherals!PlayerMisses, Peripherals!set_sd, Peripherals!SdWorks,
              Peripherals!SdChecks, Peripherals!_move_nodes, Peripherals!_event, Peripherals!_wait_mount,
              Peripherals!_mount_sd,
              Peripherals!_unmount_sd, Peripherals!SdEnds, Peripherals!SdFails, Peripherals!rest,
              Peripherals!history
  <2>1. r11' \in BOOLEAN
    BY <1>0 DEF PeriphOtherTypes
  <2>2. r20' = r20
    OBVIOUS
  <2>3. r18' \in {r18, "none", "hold", "power"}
    OBVIOUS
  <2>4. r19' \in {r19, r19 + 1}
    OBVIOUS
  <2> QED
    BY <1>0, <2>1, <2>2, <2>3, <2>4 DEF PeriphOtherTypes
<1>2. PeriphKeySide' /\ PeriphCardSide'
  <2>1. CASE Peripherals!reset
    BY <1>0, <2>1, PeriphKeysReset, PeriphCardReset
  <2>2. CASE Peripherals!PowerStops \/ Peripherals!PowerStarts \/ Peripherals!PowerBooted
    BY <1>0, <2>2, PeriphKeysTransition, PeriphCardTransition
  <2>3. CASE Peripherals!Admit \/ Peripherals!service_requests \/ Peripherals!set_boot_keys
               \/ Peripherals!WatchSettles
    <3>1. PeriphCardSide'
      BY <1>0, <2>3, PeriphCardStays DEF Peripherals!Admit, Peripherals!service_requests,
           Peripherals!set_boot_keys, Peripherals!WatchSettles, Peripherals!history
    <3>2. CASE Peripherals!Admit \/ Peripherals!WatchSettles
      BY <1>0, <3>1, <3>2, PeriphKeysStay DEF Peripherals!Admit, Peripherals!WatchSettles
    <3>3. CASE Peripherals!service_requests \/ Peripherals!set_boot_keys
      BY <1>0, <3>1, <3>3 DEF Peripherals!service_requests, Peripherals!set_boot_keys, PeriphKeySide,
           Peripherals!KeyInv, Peripherals!LowHasAnOwner, Peripherals!RepeatsFollowAPress,
                              Peripherals!keys, Peripherals!live
    <3> QED
      BY <2>3, <3>2, <3>3
  <2>4. CASE Peripherals!Power \/ Peripherals!expire
    <3>1. PeriphCardSide'
      BY <1>0, <2>4, PeriphCardStays DEF Peripherals!Power, Peripherals!expire, Peripherals!history
    <3> QED
      BY <1>0, <2>4, <3>1, PeriphKeysPower, PeriphKeysReleased DEF Peripherals!expire
  <2>5. CASE \E k \in Keys : Peripherals!Hold(k) \/ Peripherals!End(k) \/ Peripherals!Due(k)
    <3>1. PICK k \in Keys : Peripherals!Hold(k) \/ Peripherals!End(k) \/ Peripherals!Due(k)
      BY <2>5
    <3>2. PeriphCardSide'
      BY <1>0, <3>1, PeriphCardStays DEF Peripherals!Hold, Peripherals!End, Peripherals!Due,
           Peripherals!history
    <3> QED
      BY <1>0, <3>1, <3>2, PeriphKeyHeld, PeriphKeysReleased, PeriphKeysDue DEF Peripherals!End
  <2>6. CASE Peripherals!WatchMounts
    BY <1>0, <2>6, PeriphKeysStay, PeriphCardWatched DEF Peripherals!WatchMounts
  <2>7. CASE Peripherals!PlayerOpens \/ Peripherals!PlayerCloses \/ Peripherals!PlayerHandles
               \/ Peripherals!PlayerMisses
    BY <1>0, <2>7, PeriphKeysStay, PeriphCardPlayed DEF Peripherals!PlayerOpens, Peripherals!PlayerCloses,
         Peripherals!Plays, Peripherals!PlayerHandles, Peripherals!PlayerMisses
  <2>8. CASE \E insert, force \in BOOLEAN : Peripherals!set_sd(insert, force)
    BY <1>0, <2>8, PeriphKeysStay, PeriphCardBegun DEF Peripherals!set_sd
  <2>9. CASE Peripherals!SdWorks \/ Peripherals!SdFails
    <3>1. UNCHANGED <<r1, r2, Peripherals!keys>>
      BY <2>9 DEF Peripherals!SdWorks, Peripherals!SdChecks, Peripherals!_move_nodes, Peripherals!_event,
           Peripherals!_wait_mount, Peripherals!_mount_sd, Peripherals!_unmount_sd, Peripherals!SdEnds,
           Peripherals!SdFails, Peripherals!rest
    <3> QED
      BY <1>0, <2>9, <3>1, PeriphKeysStay, PeriphCardWorks
  <2> QED
    BY <2>1, <2>2, <2>3, <2>4, <2>5, <2>6, <2>7, <2>8, <2>9 DEF Peripherals!Next
<1> QED
  BY <1>1, <1>2, PeriphSidesNext

\* and after every step and stutter.
LEMMA PeriphStepInv == ASSUME Peripherals!IInv, [Peripherals!Next]_Peripherals!vars PROVE Peripherals!IInv'
<1>1. CASE UNCHANGED Peripherals!vars
  <2>1. UNCHANGED <<r1, r2, Peripherals!keys, r3, r4, Peripherals!sdcard, r21>>
    BY <1>1 DEF Peripherals!vars, Peripherals!keys, Peripherals!sdcard
  <2> QED
    BY <1>1, <2>1, PeriphSides, PeriphSidesNext, PeriphKeysStay, PeriphCardStays, PeriphOthersStay
         DEF Peripherals!vars
<1> QED
  BY <1>1, PeriphSteps

\* An ejected card that nobody disturbed is unmounted.
LEMMA PeriphEjected == Peripherals!IInv => Peripherals!EjectedIsUnmounted
BY DEF Peripherals!IInv, Peripherals!CardInv, Peripherals!EjectedIsUnmounted

(* ------------------------------- the picture -------------------------------- *)
\* Its variables: r1 is fb, r2 is marker, r3 is drawing, r4 is lit, r5 is grab, r6 is frame, r7
\* is device, r8 is pub, r9 is tab, r10 is count.

ScreenGrabRecord == [pc : {"before", "read", "after"}, marker : 0..2,
                     raw : [Screen!Buffers -> Screen!Pictures]]
ScreenFrameRecord == [live : Screen!Buffers, first : BOOLEAN, prev : [Screen!Buffers -> Screen!Pictures],
                      visible : Screen!Pictures, on : BOOLEAN,
                      rgb : Screen!Pictures]
ScreenTabRecord == [frame : {"next", "sent"}, png : Screen!Pictures, shown : Screen!Pictures,
                    device : {"next", "sent"}, on : BOOLEAN]
ScreenCounts == [pictures : 0..MaxDraws, events : Nat]
ScreenReads == {"none", "on", "off"}

ScreenGuestTyping == r1 \in [Screen!Buffers -> Screen!Pictures] /\ r2 \in 0..2 /\ r3 \in 0..2
                       /\ r4 \in BOOLEAN /\ r10 \in ScreenCounts
ScreenViewTyping == /\ r5 \in ScreenGrabRecord /\ r6 \in ScreenFrameRecord /\ r7 \in BOOLEAN
                         /\ r8 \in [Screen!Publishers -> ScreenReads]
                    /\ r9 \in [Viewers -> ScreenTabRecord]

\* The types, of the guest and of the viewer.
LEMMA ScreenTyped == Screen!Types => ScreenGuestTyping /\ ScreenViewTyping
BY DEF Screen!Types, Screen!TypeOK, ScreenGuestTyping, ScreenViewTyping, ScreenGrabRecord,
     ScreenFrameRecord, ScreenTabRecord, ScreenCounts, ScreenReads

\* They are the module's.
LEMMA ScreenConversely == ScreenGuestTyping /\ ScreenViewTyping => Screen!Types
<1> SUFFICES ASSUME ScreenGuestTyping, ScreenViewTyping PROVE Screen!Types
  OBVIOUS
<1>1. r5.pc \in {"before", "read", "after"} /\ r5.raw \in [Screen!Buffers -> Screen!Pictures]
        /\ r5.marker \in 0..2
  BY DEF ScreenViewTyping, ScreenGrabRecord
<1>2. r6.live \in Screen!Buffers /\ {r6.rgb, r6.visible} \subseteq Screen!Pictures
  BY DEF ScreenViewTyping, ScreenFrameRecord
<1>3. \A v \in Viewers : {r9[v].frame, r9[v].device} \subseteq {"next", "sent"}
  BY DEF ScreenViewTyping, ScreenTabRecord
<1> QED
  BY <1>1, <1>2, <1>3 DEF Screen!Types, Screen!TypeOK, ScreenGuestTyping, ScreenViewTyping,
       ScreenGrabRecord, ScreenFrameRecord, ScreenTabRecord, ScreenCounts, ScreenReads

\* The same in the next state.
LEMMA ScreenConverselyNext == ScreenGuestTyping' /\ ScreenViewTyping' => Screen!Types'
BY ScreenConversely, PTL

\* Pictures and sub-buffers are numbers.
LEMMA ScreenNumbers == ASSUME MaxDraws \in Nat
     PROVE Screen!Pictures \subseteq Int /\ Screen!Buffers = {0,
     1} /\ Screen!Torn \in Screen!Pictures /\ Screen!Black \in Screen!Pictures
BY DEF Screen!Pictures, Screen!Buffers, Screen!Torn, Screen!Black

\* The invariant holds initially.
LEMMA ScreenInitInv == ASSUME MaxDraws \in Nat, Screen!Init PROVE Screen!IInv
<1>1. Screen!NoSample \in [Screen!Buffers -> Screen!Pictures] /\ r1 = Screen!NoSample
        /\ \A b \in Screen!Buffers : Screen!NoSample[b] = Screen!Black
  BY ScreenNumbers DEF Screen!NoSample, Screen!Init
<1>2. Screen!Idle \in ScreenGrabRecord /\ Screen!Idle.pc = "before"
  BY <1>1 DEF Screen!Idle, ScreenGrabRecord, Screen!Unknown
<1>3. r6 \in ScreenFrameRecord /\ r6.visible = Screen!Torn /\ r6.prev = Screen!NoSample
  BY <1>1, ScreenNumbers DEF Screen!Init, ScreenFrameRecord
<1>4. r9 \in [Viewers -> ScreenTabRecord]
  BY ScreenNumbers DEF Screen!Init, ScreenTabRecord
<1>5. r10 \in ScreenCounts /\ r10.pictures = 0
  BY DEF Screen!Init, ScreenCounts
<1>a. r2 \in 0..2 /\ r3 \in 0..2
  BY DEF Screen!Init, Screen!Unknown
<1>b. r8 \in [Screen!Publishers -> ScreenReads] /\ r4 \in BOOLEAN /\ r7 \in BOOLEAN /\ r5 = Screen!Idle
  BY DEF Screen!Init, ScreenReads
<1>6. Screen!Types
  BY <1>1, <1>2, <1>3, <1>4, <1>5, <1>a, <1>b, ScreenConversely DEF ScreenGuestTyping, ScreenViewTyping
<1>7. Screen!DrawInv
  BY <1>1, <1>5 DEF Screen!Init, Screen!DrawInv, Screen!Unknown, Screen!Black, Screen!Torn
<1>8. Screen!SampleInv /\ Screen!FirstInv
  BY <1>1, <1>2, <1>3, <1>5 DEF Screen!Init, Screen!SampleInv, Screen!FirstInv, Screen!Unknown, Screen!Torn
<1> QED
  BY <1>6, <1>7, <1>8 DEF Screen!IInv

\* What the guest does to its framebuffer.
LEMMA ScreenDraws == ASSUME MaxDraws \in Nat, Screen!IInv, NEW b \in Screen!Buffers, Screen!Draw(b)
     PROVE Screen!IInv'
<1>1. ScreenGuestTyping /\ ScreenViewTyping
  BY ScreenTyped DEF Screen!IInv
<1>2. /\ r3 = Screen!Unknown /\ r3' = b /\ UNCHANGED <<r2, r4, r5, r6, r7, r8, r9>>
      /\ r1' = [r1 EXCEPT ![b] = Screen!Torn]
  BY DEF Screen!Draw
<1>3. r10' \in ScreenCounts /\ r10'.pictures = r10.pictures + 1 /\ r10.pictures \in Nat
  BY <1>1 DEF Screen!Draw, ScreenGuestTyping, ScreenCounts
<1>4. r1' \in [Screen!Buffers -> Screen!Pictures] /\ r1'[b] = Screen!Torn
        /\ \A x \in Screen!Buffers \ {b} : r1'[x] = r1[x]
  BY <1>1, <1>2, ScreenNumbers DEF ScreenGuestTyping
<1>5. Screen!Types'
  BY <1>1, <1>2, <1>3, <1>4, ScreenConverselyNext, ScreenNumbers DEF ScreenGuestTyping, ScreenViewTyping,
       Screen!Unknown
<1>a. \A x \in Screen!Buffers : r1[x] \in Int
  BY <1>1, ScreenNumbers DEF ScreenGuestTyping
<1>6. Screen!DrawInv'
  BY <1>2, <1>3, <1>4, <1>a, ScreenNumbers DEF Screen!IInv, Screen!DrawInv, Screen!Unknown, Screen!Black,
       Screen!Torn
<1>7. Screen!SampleInv'
  <2>1. r6.visible \in Int /\ \A x \in Screen!Buffers : r5.raw[x] \in Int
    BY <1>1, ScreenNumbers DEF ScreenViewTyping, ScreenFrameRecord, ScreenGrabRecord
  <2>2. r5.marker \in 0..2 /\ r2 \in 0..2
    BY <1>1 DEF ScreenViewTyping, ScreenGrabRecord, ScreenGuestTyping
  <2> QED
    BY <1>2, <1>3, <1>4, <1>a, <2>1, <2>2, ScreenNumbers DEF Screen!IInv, Screen!SampleInv,
         Screen!NotOlder, Screen!Unknown, Screen!Torn
<1>8. Screen!FirstInv'
  <2>1. r2 = Screen!Unknown => r10.pictures = 0
    BY <1>2 DEF Screen!IInv, Screen!DrawInv
  <2>2. r6.visible \in Int /\ r6.live \in Screen!Buffers
    BY <1>1, ScreenNumbers DEF ScreenViewTyping, ScreenFrameRecord
  <2> QED
    BY <1>2, <1>3, <1>4, <2>1, <2>2, ScreenNumbers DEF Screen!IInv, Screen!FirstInv, Screen!SampleInv,
         Screen!Unknown, Screen!Black
<1> QED
  BY <1>5, <1>6, <1>7, <1>8 DEF Screen!IInv

\* A drawing that ends leaves a whole picture, the newest.
LEMMA ScreenFinishes == ASSUME MaxDraws \in Nat, Screen!IInv, Screen!Copied \/ Screen!Marked
     PROVE Screen!IInv'
<1>1. ScreenGuestTyping /\ ScreenViewTyping
  BY ScreenTyped DEF Screen!IInv
<1>2. UNCHANGED <<r4, r5, r6, r7, r8, r9, r10>> /\ r3 # Screen!Unknown /\ r3 \in Screen!Buffers
  BY <1>1, ScreenNumbers DEF Screen!Copied, Screen!Marked, ScreenGuestTyping, Screen!Unknown
<1>3. /\ r10.pictures \in Nat /\ r10.pictures \in Screen!Pictures /\ r10.pictures # Screen!Torn
           /\ r6.visible \in Int
      /\ r5.marker \in 0..2 /\ r2 \in 0..2 /\ \A x \in Screen!Buffers : r5.raw[x] \in Int /\ r1[x] \in Int
  BY <1>1, ScreenNumbers DEF ScreenViewTyping, ScreenFrameRecord, ScreenGrabRecord, ScreenGuestTyping,
       ScreenCounts, Screen!Pictures, Screen!Torn
<1>4. CASE Screen!Copied
  <2>1. r1[r3] = Screen!Torn /\ UNCHANGED <<r2, r3>> /\ r1' = [r1 EXCEPT ![r3] = r10.pictures]
    BY <1>4 DEF Screen!Copied
  <2>2. /\ r1' \in [Screen!Buffers -> Screen!Pictures] /\ r1'[r3] = r10.pictures
        /\ \A x \in Screen!Buffers \ {r3} : r1'[x] = r1[x]
    BY <1>1, <1>2, <1>3, <2>1 DEF ScreenGuestTyping
  <2>3. Screen!Types'
    BY <1>1, <1>2, <2>1, <2>2, ScreenConverselyNext DEF ScreenGuestTyping, ScreenViewTyping
  <2>4. Screen!DrawInv'
    BY <1>2, <1>3, <2>1, <2>2, ScreenNumbers DEF Screen!IInv, Screen!DrawInv
  <2>5. Screen!SampleInv'
    BY <1>2, <1>3, <2>1, <2>2, ScreenNumbers DEF Screen!IInv, Screen!SampleInv, Screen!NotOlder,
         Screen!Unknown
  <2>6. Screen!FirstInv'
    BY <1>2, <1>3, <2>1, <2>2, ScreenNumbers DEF Screen!IInv, Screen!FirstInv, Screen!Torn
  <2> QED
    BY <2>3, <2>4, <2>5, <2>6 DEF Screen!IInv
<1>5. CASE Screen!Marked
  <2>1. r1[r3] # Screen!Torn /\ UNCHANGED r1 /\ r2' = r3 /\ r3' = Screen!Unknown /\ r2' # Screen!Unknown
    BY <1>2, <1>5 DEF Screen!Marked
  <2>2. Screen!Types'
    BY <1>1, <1>2, <2>1, ScreenConverselyNext, ScreenNumbers DEF ScreenGuestTyping, ScreenViewTyping,
         Screen!Unknown
  <2>3. Screen!DrawInv' /\ Screen!FirstInv'
    BY <1>2, <2>1 DEF Screen!IInv, Screen!DrawInv, Screen!FirstInv
  <2>4. r1[r3] = r10.pictures
    BY <1>2, <2>1 DEF Screen!IInv, Screen!DrawInv
  <2>5. Screen!SampleInv'
    BY <1>2, <1>3, <2>1, <2>4 DEF Screen!IInv, Screen!SampleInv, Screen!NotOlder
  <2> QED
    BY <2>2, <2>3, <2>5 DEF Screen!IInv
<1> QED
  BY <1>4, <1>5

\* What the grabber reads.
LEMMA ScreenGrabs == ASSUME MaxDraws \in Nat, Screen!IInv, Screen!active_buffer \/ Screen!read
     PROVE Screen!IInv'
<1>1. ScreenGuestTyping /\ ScreenViewTyping
  BY ScreenTyped DEF Screen!IInv
<1>2. UNCHANGED <<r1, r2, r3, r4, r6, r7, r8, r9, r10>>
  BY DEF Screen!active_buffer, Screen!read, Screen!guest
<1>3. \A x \in Screen!Buffers : r1[x] \in Int
  BY <1>1, ScreenNumbers DEF ScreenGuestTyping
<1>4. Screen!DrawInv'
  BY <1>2 DEF Screen!IInv, Screen!DrawInv
<1>5. CASE Screen!active_buffer
  <2>1. r5' = [r5 EXCEPT !.pc = "read", !.marker = r2]
    BY <1>5 DEF Screen!active_buffer
  <2>2. r5' \in ScreenGrabRecord /\ r5'.pc = "read" /\ r5'.marker = r2
    <3>1. r2 \in 0..2 /\ r5 \in ScreenGrabRecord
      BY <1>1 DEF ScreenGuestTyping, ScreenViewTyping
    <3> QED
      BY <2>1, <3>1 DEF ScreenGrabRecord
  <2>3. Screen!Types'
    BY <1>1, <1>2, <2>2, ScreenConverselyNext DEF ScreenGuestTyping, ScreenViewTyping
  <2>4. Screen!SampleInv' /\ Screen!FirstInv'
    BY <1>2, <2>2 DEF Screen!IInv, Screen!SampleInv, Screen!FirstInv, Screen!NotOlder
  <2> QED
    BY <1>4, <2>3, <2>4 DEF Screen!IInv
<1>6. CASE Screen!read
  <2>1. r5' = [r5 EXCEPT !.pc = "after", !.raw = r1] /\ r5.pc = "read"
    BY <1>6 DEF Screen!read
  <2>2. r5' \in ScreenGrabRecord /\ r5'.pc = "after" /\ r5'.marker = r5.marker /\ r5'.raw = r1
    <3>1. r1 \in [Screen!Buffers -> Screen!Pictures] /\ r5 \in ScreenGrabRecord
      BY <1>1 DEF ScreenGuestTyping, ScreenViewTyping
    <3> QED
      BY <2>1, <3>1 DEF ScreenGrabRecord
  <2>3. Screen!Types'
    BY <1>1, <1>2, <2>2, ScreenConverselyNext DEF ScreenGuestTyping, ScreenViewTyping
  <2>4. Screen!SampleInv'
    BY <1>2, <1>3, <2>1, <2>2 DEF Screen!IInv, Screen!SampleInv, Screen!NotOlder, Screen!DrawInv
  <2>5. Screen!FirstInv'
    BY <1>2, <2>1, <2>2 DEF Screen!IInv, Screen!FirstInv, Screen!DrawInv
  <2> QED
    BY <1>4, <2>3, <2>4, <2>5 DEF Screen!IInv
<1> QED
  BY <1>5, <1>6

\* The sub-buffer that is taken: before the first marker, once its picture was seen, the same again.
LEMMA ScreenPicked ==
  ASSUME MaxDraws \in Nat, Screen!IInv, NEW live \in Screen!pick, r5.pc = "after"
  PROVE  /\ live \in Screen!Buffers /\ (r2 # Screen!Unknown => live = r2)
         /\ r2 = Screen!Unknown /\ r6.visible = 1 => r5.raw[live] = 1
<1>1. ScreenGuestTyping /\ ScreenViewTyping
  BY ScreenTyped DEF Screen!IInv
<1>2. r6.live \in Screen!Buffers /\ r2 \in 0..2
  BY <1>1 DEF ScreenGuestTyping, ScreenViewTyping, ScreenFrameRecord
<1> DEFINE P(b) == IF r5.raw[0] # r6.prev[0] THEN b = 0
                   ELSE IF r5.raw[1] # r6.prev[1] THEN b = 1 ELSE b = r6.live
<1>3. \E b \in Screen!Buffers : P(b)
  BY <1>2, ScreenNumbers
<1>4. CASE r2 # Screen!Unknown
  BY <1>2, <1>4, ScreenNumbers DEF Screen!pick, Screen!Unknown
<1>5. CASE r2 = Screen!Unknown /\ r6.first
  BY <1>5, ScreenNumbers DEF Screen!pick, Screen!IInv, Screen!FirstInv
<1>6. CASE r2 = Screen!Unknown /\ ~r6.first
  <2>1. live = CHOOSE b \in Screen!Buffers : P(b)
    BY <1>6 DEF Screen!pick
  <2>2. live \in Screen!Buffers /\ P(live)
    BY <1>3, <2>1
  <2>3. ASSUME r6.visible = 1 PROVE r5.raw[live] = 1
    <3>1. r6.prev[r6.live] = 1 /\ r5.raw[r6.live] = 1
      BY <1>2, <1>6, <2>3 DEF Screen!IInv, Screen!FirstInv
    <3>2. r3 = r6.live
      BY <1>2, <1>6, <3>1 DEF Screen!IInv, Screen!FirstInv, Screen!Black
    <3>3. \A b \in Screen!Buffers : r5.raw[b] = r6.prev[b]
      BY <1>6, <3>1, <3>2 DEF Screen!IInv, Screen!FirstInv
    <3>4. live = r6.live
      BY <2>2, <3>3, ScreenNumbers
    <3> QED
      BY <3>1, <3>4
  <2> QED
    BY <1>6, <2>2, <2>3
<1> QED
  BY <1>4, <1>5, <1>6

\* What becomes visible is whole and no older than what was, or torn.
LEMMA ScreenUpdates == ASSUME MaxDraws \in Nat, Screen!IInv, Screen!update_frame
     PROVE Screen!IInv' /\ Screen!Advances
<1>1. ScreenGuestTyping /\ ScreenViewTyping
  BY ScreenTyped DEF Screen!IInv
<1>2. /\ UNCHANGED <<r1, r2, r3, r4, r7, r8, r10>> /\ r5' = Screen!Idle /\ r5.pc = "after"
      /\ r6.visible \in Int /\ \A b \in Screen!Buffers : r5.raw[b] \in Screen!Pictures /\ r5.raw[b] \in Int
           /\ r1[b] \in Int
  BY <1>1, ScreenNumbers DEF Screen!update_frame, Screen!guest, ScreenViewTyping, ScreenFrameRecord,
       ScreenGrabRecord, ScreenGuestTyping
<1>3. Screen!NoSample \in [Screen!Buffers -> Screen!Pictures] /\ Screen!Idle \in ScreenGrabRecord
        /\ Screen!Idle.pc = "before"
  BY ScreenNumbers DEF Screen!NoSample, Screen!Idle, ScreenGrabRecord, Screen!Unknown
<1> DEFINE P == IF r2 = Screen!Unknown THEN r5.raw ELSE Screen!NoSample
<1>4. PICK live \in Screen!pick :
        LET visible == r5.raw[live]
            rgb == IF r7 THEN visible ELSE Screen!Black
            seen == [r6 EXCEPT !.live = live, !.first = FALSE, !.prev = P]
        IN  IF ~Screen!Consistent THEN UNCHANGED <<r6, r9>>
            ELSE IF r7 /\ r6.on /\ visible = r6.visible THEN r6' = seen /\ UNCHANGED r9
            ELSE /\ r6' = [seen EXCEPT !.visible = visible, !.on = r7, !.rgb = rgb]
                 /\ r9' = IF rgb = r6.rgb THEN r9 ELSE Screen!Behind("frame")
  BY DEF Screen!update_frame
<1> DEFINE visible == r5.raw[live]
           rgb == IF r7 THEN visible ELSE Screen!Black
           seen == [r6 EXCEPT !.live = live, !.first = FALSE, !.prev = P]
<1>5. live \in Screen!Buffers /\ (r2 # Screen!Unknown => live = r2)
        /\ (r2 = Screen!Unknown /\ r6.visible = 1 => visible = 1)
  BY <1>2, ScreenPicked
<1>6. P \in [Screen!Buffers -> Screen!Pictures]
  BY <1>1, <1>3 DEF ScreenViewTyping, ScreenGrabRecord
<1>7. /\ seen \in ScreenFrameRecord /\ seen.live = live /\ ~seen.first /\ seen.prev = P
           /\ seen.visible = r6.visible
  <2>1. r6 \in ScreenFrameRecord
    BY <1>1 DEF ScreenViewTyping
  <2> HIDE DEF P
  <2> QED
    BY <1>5, <1>6, <2>1 DEF ScreenFrameRecord
<1>8. r9' \in [Viewers -> ScreenTabRecord]
  <2>1. r9 \in [Viewers -> ScreenTabRecord]
    BY <1>1 DEF ScreenViewTyping
  <2>2. Screen!Behind("frame") \in [Viewers -> ScreenTabRecord]
    <3>1. \A v \in Viewers : [r9[v] EXCEPT !.frame = "next"] \in ScreenTabRecord
      BY <2>1 DEF ScreenTabRecord
    <3> QED
      BY <3>1 DEF Screen!Behind
  <2> QED
    BY <1>4, <2>1, <2>2
<1>9. ASSUME r6' \in ScreenFrameRecord PROVE Screen!Types'
  BY <1>1, <1>2, <1>3, <1>8, <1>9, ScreenConverselyNext DEF ScreenGuestTyping, ScreenViewTyping
<1>10. Screen!DrawInv'
  BY <1>2 DEF Screen!IInv, Screen!DrawInv
<1>11. CASE UNCHANGED r6
  <2>1. Screen!SampleInv' /\ Screen!FirstInv' /\ Screen!Types'
    BY <1>1, <1>2, <1>3, <1>9, <1>11 DEF Screen!IInv, Screen!SampleInv, Screen!FirstInv, Screen!NotOlder,
         ScreenViewTyping
  <2> QED
    BY <1>2, <1>10, <1>11, <2>1 DEF Screen!IInv, Screen!Advances
<1>12. CASE Screen!Consistent /\ r6' = seen /\ visible = r6.visible
  <2> HIDE DEF seen
  <2>1. r6' \in ScreenFrameRecord /\ r6'.live = live /\ ~r6'.first /\ r6'.prev = P
          /\ r6'.visible = r6.visible
    BY <1>7, <1>12
  <2>2. Screen!SampleInv'
    BY <1>2, <1>3, <2>1 DEF Screen!IInv, Screen!SampleInv, Screen!NotOlder
  <2>3. Screen!FirstInv'
    BY <1>2, <1>3, <1>5, <1>12, <2>1 DEF Screen!IInv, Screen!FirstInv
  <2> QED
    BY <1>2, <1>9, <1>10, <2>1, <2>2, <2>3 DEF Screen!IInv, Screen!Advances
<1>13. CASE Screen!Consistent /\ r6' = [seen EXCEPT !.visible = visible, !.on = r7, !.rgb = rgb]
  <2>1. visible \in Screen!Pictures /\ rgb \in Screen!Pictures /\ r7 \in BOOLEAN
    BY <1>1, <1>2, <1>5, ScreenNumbers DEF ScreenViewTyping
  <2> HIDE DEF seen, rgb, P
  <2>2. r6' \in ScreenFrameRecord /\ r6'.live = live /\ ~r6'.first /\ r6'.prev = P /\ r6'.visible = visible
    BY <1>7, <1>13, <2>1 DEF ScreenFrameRecord
  <2>3. visible <= r10.pictures /\ (r2 # Screen!Unknown => visible <= r1[r2] \/ r1[r2] = Screen!Torn)
    BY <1>2, <1>5 DEF Screen!IInv, Screen!SampleInv
  <2>4. Screen!SampleInv'
    BY <1>2, <1>3, <2>2, <2>3 DEF Screen!SampleInv, Screen!NotOlder
  <2>5. Screen!FirstInv'
    BY <1>2, <1>3, <1>5, <2>2 DEF Screen!IInv, Screen!FirstInv, P
  <2>6. visible # Screen!Torn => visible >= r6.visible
    <3>1. CASE r2 # Screen!Unknown
      <4>1. r5.marker # Screen!Unknown /\ live = r5.marker
        BY <1>5, <1>13, <3>1 DEF Screen!Consistent
      <4> QED
        BY <1>2, <4>1 DEF Screen!IInv, Screen!SampleInv, Screen!NotOlder
    <3>2. CASE r2 = Screen!Unknown
      <4>1. r6.visible <= 1
        <5>1. r6.visible <= r10.pictures /\ r10.pictures <= 1 /\ r10.pictures \in Int
          BY <1>1, <3>2 DEF Screen!IInv, Screen!SampleInv, Screen!DrawInv, ScreenGuestTyping, ScreenCounts
        <5> QED
          BY <1>2, <5>1
      <4>2. visible \in Int /\ visible >= -1
        BY <2>1, ScreenNumbers DEF Screen!Pictures, Screen!Torn
      <4> QED
        BY <1>2, <1>5, <3>2, <4>1, <4>2 DEF Screen!Torn
    <3> QED
      BY <3>1, <3>2
  <2> QED
    BY <1>9, <1>10, <2>2, <2>4, <2>5, <2>6 DEF Screen!IInv, Screen!Advances
<1> QED
  BY <1>4, <1>11, <1>12, <1>13

\* What leaves the guest, the grabber and the frame as they are.
LEMMA ScreenOthers ==
  ASSUME MaxDraws \in Nat, Screen!IInv, UNCHANGED <<r1, r2, r3, r5, r6>>, r4' \in BOOLEAN, r7' \in BOOLEAN,
         r8' \in [Screen!Publishers -> ScreenReads], r9' \in [Viewers -> ScreenTabRecord],
         r10' \in ScreenCounts,
         r10'.pictures = r10.pictures
  PROVE  Screen!IInv' /\ Screen!Advances
<1>1. ScreenGuestTyping /\ ScreenViewTyping
  BY ScreenTyped DEF Screen!IInv
<1>2. Screen!Types'
  BY <1>1, ScreenConverselyNext DEF ScreenGuestTyping, ScreenViewTyping
<1>3. Screen!DrawInv' /\ Screen!SampleInv' /\ Screen!FirstInv'
  BY DEF Screen!IInv, Screen!DrawInv, Screen!SampleInv, Screen!FirstInv, Screen!NotOlder
<1>4. r6.visible \in Int
  BY <1>1, ScreenNumbers DEF ScreenViewTyping, ScreenFrameRecord
<1> QED
  BY <1>2, <1>3, <1>4 DEF Screen!IInv, Screen!Advances

\* Every step keeps the invariant and never goes back to an older picture.
LEMMA ScreenStepInv == ASSUME MaxDraws \in Nat, Screen!IInv, [Screen!Next]_Screen!vars
     PROVE Screen!IInv' /\ Screen!Advances
<1>1. ScreenGuestTyping /\ ScreenViewTyping
  BY ScreenTyped DEF Screen!IInv
<1>2. /\ r4 \in BOOLEAN /\ r7 \in BOOLEAN /\ r8 \in [Screen!Publishers -> ScreenReads]
           /\ r9 \in [Viewers -> ScreenTabRecord]
      /\ r10 \in ScreenCounts
  BY <1>1 DEF ScreenGuestTyping, ScreenViewTyping
<1>3. r6.visible \in Int /\ r6.rgb \in Screen!Pictures
  BY <1>1, ScreenNumbers DEF ScreenViewTyping, ScreenFrameRecord
<1>4. ASSUME NEW b \in Screen!Buffers, Screen!Draw(b) PROVE Screen!IInv' /\ Screen!Advances
  <2>1. UNCHANGED r6
    BY <1>4 DEF Screen!Draw
  <2> QED
    BY <1>3, <1>4, <2>1, ScreenDraws DEF Screen!Advances
<1>5. CASE Screen!Copied \/ Screen!Marked
  BY <1>3, <1>5, ScreenFinishes DEF Screen!Copied, Screen!Marked, Screen!Advances
<1>6. CASE Screen!active_buffer \/ Screen!read
  BY <1>3, <1>6, ScreenGrabs DEF Screen!active_buffer, Screen!read, Screen!Advances
<1>7. CASE Screen!update_frame
  BY <1>7, ScreenUpdates
<1>8. CASE Screen!Switch
  <2>1. r10' \in ScreenCounts /\ r10'.pictures = r10.pictures
    BY <1>2, <1>8 DEF Screen!Switch, ScreenCounts
  <2> QED
    BY <1>2, <1>8, <2>1, ScreenOthers DEF Screen!Switch
<1>9. ASSUME NEW p \in Screen!Publishers, Screen!status(p) \/ Screen!publish_device(p)
     PROVE Screen!IInv' /\ Screen!Advances
  <2>1. r8' \in [Screen!Publishers -> ScreenReads] /\ r7' \in BOOLEAN
    BY <1>2, <1>9 DEF Screen!status, Screen!publish_device, ScreenReads
  <2>2. Screen!Behind("device") \in [Viewers -> ScreenTabRecord]
    <3>1. \A v \in Viewers : [r9[v] EXCEPT !.device = "next"] \in ScreenTabRecord
      BY <1>2 DEF ScreenTabRecord
    <3> QED
      BY <3>1 DEF Screen!Behind
  <2>3. r9' \in [Viewers -> ScreenTabRecord]
    BY <1>2, <1>9, <2>2 DEF Screen!status, Screen!publish_device
  <2>4. UNCHANGED <<r1, r2, r3, r4, r5, r6, r10>>
    BY <1>9 DEF Screen!status, Screen!publish_device, Screen!guest
  <2> QED
    BY <1>2, <2>1, <2>3, <2>4, ScreenOthers
<1>10. ASSUME NEW v \in Viewers, Screen!Serve(v) \/ Screen!frame_stream(v) \/ Screen!Reconnect(v)
     PROVE Screen!IInv' /\ Screen!Advances
  <2>1. r9[v] \in ScreenTabRecord
    BY <1>2
  <2>2. UNCHANGED <<r1, r2, r3, r4, r5, r6, r7, r8>>
    BY <1>10 DEF Screen!Serve, Screen!wait_frame, Screen!device_events, Screen!frame_stream,
         Screen!Reconnect, Screen!still, Screen!guest
  <2>3. r10' \in ScreenCounts /\ r10'.pictures = r10.pictures
    BY <1>2, <1>10 DEF Screen!Serve, Screen!wait_frame, Screen!device_events, Screen!frame_stream,
         Screen!Reconnect, ScreenCounts
  <2>4. \E r \in ScreenTabRecord : r9' = [r9 EXCEPT ![v] = r]
    <3>1. CASE Screen!wait_frame(v)
      <4> DEFINE r == [r9[v] EXCEPT !.frame = "sent", !.png = r6.rgb]
      <4>1. r9' = [r9 EXCEPT ![v] = r]
        BY <1>2, <3>1 DEF Screen!wait_frame
      <4>2. r \in ScreenTabRecord
        BY <1>3, <2>1 DEF ScreenTabRecord
      <4> QED
        BY <4>1, <4>2
    <3>2. CASE Screen!device_events(v)
      <4> DEFINE r == [r9[v] EXCEPT !.device = "sent", !.on = r7]
      <4>1. r9' = [r9 EXCEPT ![v] = r]
        BY <1>2, <3>2 DEF Screen!device_events
      <4>2. r \in ScreenTabRecord
        BY <1>2, <2>1 DEF ScreenTabRecord
      <4> QED
        BY <4>1, <4>2
    <3>3. CASE Screen!frame_stream(v)
      <4> DEFINE r == [r9[v] EXCEPT !.shown = r9[v].png]
      <4>1. r9' = [r9 EXCEPT ![v] = r]
        BY <1>2, <3>3 DEF Screen!frame_stream
      <4>2. r \in ScreenTabRecord
        BY <2>1 DEF ScreenTabRecord
      <4> QED
        BY <4>1, <4>2
    <3>4. CASE Screen!Reconnect(v)
      <4> DEFINE r == [r9[v] EXCEPT !.frame = "next", !.device = "next", !.png = r9[v].shown]
      <4>1. r9' = [r9 EXCEPT ![v] = r]
        BY <1>2, <3>4 DEF Screen!Reconnect
      <4>2. r \in ScreenTabRecord
        BY <2>1 DEF ScreenTabRecord
      <4> QED
        BY <4>1, <4>2
    <3> QED
      BY <1>10, <3>1, <3>2, <3>3, <3>4 DEF Screen!Serve
  <2>5. r9' \in [Viewers -> ScreenTabRecord]
    BY <1>2, <2>4
  <2> QED
    BY <1>2, <2>2, <2>3, <2>5, ScreenOthers
<1>11. CASE UNCHANGED Screen!vars
  BY <1>2, <1>11, ScreenOthers DEF Screen!vars
<1> QED
  BY <1>4, <1>5, <1>6, <1>7, <1>8, <1>9, <1>10, <1>11 DEF Screen!Next, Screen!GrabLoop, Screen!ControlLoop,
       Screen!Publishers

(* ----------------------------- the touch panel ------------------------------ *)
\* Its variables: r1 is screen, r2 is gesture, r3 is events, r4 is contact, r5 is presses.

\* The types of the touch panel hold initially,
LEMMA TouchInit == ASSUME MaxTouches \in Nat PROVE Touch!Init => Touch!TypeOK
BY DEF Touch!Init, Touch!TypeOK, Touch!Done

\* and after every step.
LEMMA TouchStep == ASSUME MaxTouches \in Nat, Touch!TypeOK, [Touch!Next]_Touch!vars PROVE Touch!TypeOK'
<1> DEFINE E == {"gesture", "drag", "move", "release"}
<1> USE DEF Touch!TypeOK, Touch!Done
<1>1. ASSUME NEW b \in Browsers, Touch!press(b) PROVE Touch!TypeOK'
  BY <1>1 DEF Touch!press, Touch!append
<1>2. ASSUME NEW b \in Browsers, Touch!Step(b) PROVE Touch!TypeOK'
  <2>1. CASE Touch!move(b)
    BY <2>1 DEF Touch!move, Touch!append
  <2>2. CASE Touch!release(b)
    BY <2>2 DEF Touch!release, Touch!append
  <2> QED
    BY <1>2, <2>1, <2>2 DEF Touch!Step
<1>3. CASE Touch!drag
  BY <1>3 DEF Touch!drag, Touch!append
<1>4. CASE Touch!Drain
  <2>1. Head(r3) \in E /\ Tail(r3) \in Seq(E)
    BY <1>4 DEF Touch!Drain
  <2>2. r4' \in {"none", "gesture", "drag"}
    BY <1>4, <2>1 DEF Touch!Drain
  <2> QED
    BY <1>4, <2>1, <2>2 DEF Touch!Drain
<1>5. CASE Touch!Switch
  BY <1>5 DEF Touch!Switch
<1>6. CASE UNCHANGED Touch!vars
  BY <1>6 DEF Touch!vars
<1> QED
  BY <1>1, <1>2, <1>3, <1>4, <1>5, <1>6 DEF Touch!Next

(* -------------------------------- the sound --------------------------------- *)
\* Its variables: r1 is player, r2 is todo, r3 is pcm, r4 is fmt, r5 is out, r6 is export, r7
\* is look, r8 is quiet.

CapturePlayers == [state : {"dead", "closed", "open"}, capture : Capture!Captures]
CaptureFrames == [of : Capture!Captures, frames : 0..MaxFrames]
CaptureFormats == [text : Capture!Captures, mtime : Capture!Captures]
CaptureOutputs == [status : {"closed", "RUNNING"}, params : Capture!Captures,
                   activity : {"closed", "samples"}]
CaptureBounds == MaxCaptures \in Nat /\ MaxFrames \in Nat \ {0}

CaptureFileTyping == r1 \in CapturePlayers /\ r3 \in CaptureFrames /\ r4 \in CaptureFormats
                       /\ r5 \in CaptureOutputs
CaptureReaderTyping == r6 \in Capture!Exports /\ r6.offset <= r6.size /\ r7 \in Capture!Looks
                         /\ r8 \in BOOLEAN

\* The types, of the files and of their readers.
LEMMA CaptureTyped == Capture!Types => CaptureFileTyping /\ CaptureReaderTyping
BY DEF Capture!Types, Capture!TypeOK, CaptureFileTyping, CaptureReaderTyping, CapturePlayers,
     CaptureFrames, CaptureFormats, CaptureOutputs

\* They are the module's.
LEMMA CaptureConversely == CaptureFileTyping /\ CaptureReaderTyping => Capture!Types
<1> SUFFICES ASSUME CaptureFileTyping, CaptureReaderTyping PROVE Capture!Types
  OBVIOUS
<1>1. r6.taken \subseteq Capture!Captures
  BY DEF CaptureReaderTyping, Capture!Exports
<1>2. r7.tries \in 1..3
  BY DEF CaptureReaderTyping, Capture!Looks
<1> QED
  BY <1>1, <1>2 DEF Capture!Types, Capture!TypeOK, CaptureFileTyping, CaptureReaderTyping, CapturePlayers,
       CaptureFrames, CaptureFormats, CaptureOutputs

\* The same in the next state.
LEMMA CaptureConverselyNext == CaptureFileTyping' /\ CaptureReaderTyping' => Capture!Types'
BY CaptureConversely, PTL

\* Captures are numbers, and there is none at first.
LEMMA CaptureNumbers == ASSUME CaptureBounds
     PROVE Capture!Captures \subseteq Nat /\ 0 \in Capture!Captures /\ 0 \in 0..MaxFrames
BY DEF CaptureBounds, Capture!Captures

\* The invariant holds initially.
LEMMA CaptureInitInv == ASSUME CaptureBounds, Capture!Init PROVE Capture!IInv
<1>1. r1 \in CapturePlayers /\ r1.state = "closed" /\ r1.capture = 0
  BY CaptureNumbers DEF Capture!Init, CapturePlayers
<1>2. r3 \in CaptureFrames /\ r3.frames = 0 /\ r4 \in CaptureFormats /\ r4.mtime = 0
  BY CaptureNumbers DEF Capture!Init, CaptureFrames, CaptureFormats
<1>3. r5 \in CaptureOutputs /\ r5.status = "closed" /\ r5.params = 0
  BY CaptureNumbers DEF Capture!Init, Capture!Closed, CaptureOutputs
<1>4. r6 \in Capture!Exports /\ r6.pc = "idle" /\ r6.offset = 0 /\ r6.size = 0 /\ r6.taken = {}
  BY CaptureNumbers DEF Capture!Init, Capture!NoExport, Capture!Exports
<1>5. r7 \in Capture!Looks /\ r7.pc = "idle"
  <2>1. 3 \in 1..3
    OBVIOUS
  <2> QED
    BY <2>1, CaptureNumbers DEF Capture!Init, Capture!NoLook, Capture!Looks
<1>6. Capture!Types
  <2>1. r6.offset <= r6.size
    BY <1>4
  <2>2. r8 \in BOOLEAN
    BY DEF Capture!Init
  <2> QED
    BY <1>1, <1>2, <1>3, <1>4, <1>5, <2>1, <2>2, CaptureConversely DEF CaptureFileTyping,
         CaptureReaderTyping
<1>7. Capture!TodoInv
  BY <1>1, <1>3 DEF Capture!Init, Capture!TodoInv, Capture!Ended
<1>8. Capture!FileInv /\ Capture!ExportInv /\ Capture!LookInv
  BY <1>1, <1>2, <1>3, <1>4, <1>5 DEF Capture!Init, Capture!FileInv, Capture!ExportInv, Capture!LookInv
<1> QED
  BY <1>6, <1>7, <1>8 DEF Capture!IInv

\* Plans of the shim and of the supervisor, operation by operation.
LEMMA CaptureTail1 == \A a : Head(<<a>>) = a /\ Tail(<<a>>) = <<>>
OBVIOUS
\* The rest of a plan of two operations,
LEMMA CaptureTail2 == \A a, b : Head(<<a, b>>) = a /\ Tail(<<a, b>>) = <<b>>
OBVIOUS
\* of three,
LEMMA CaptureTail3 == \A a, b, c : Head(<<a, b, c>>) = a /\ Tail(<<a, b, c>>) = <<b, c>>
OBVIOUS
\* of four,
LEMMA CaptureTail4 == \A a, b, c, d : Head(<<a, b, c, d>>) = a /\ Tail(<<a, b, c, d>>) = <<b, c, d>>
OBVIOUS
\* of five,
LEMMA CaptureTail5 == \A a, b, c, d, e : Head(<<a, b, c, d, e>>) = a /\ Tail(<<a, b, c, d, e>>) = <<b, c,
     d, e>>
OBVIOUS
\* and of six.
LEMMA CaptureTail6 == \A a, b, c, d, e, f : Head(<<a, b, c, d, e, f>>) = a /\ Tail(<<a, b, c, d, e,
     f>>) = <<b, c, d, e, f>>
OBVIOUS

\* Between two plans the output is running, or closed.
LEMMA CaptureRests ==
  ASSUME Capture!IInv, r2 = <<>>
  PROVE  \/ Capture!Writes /\ Capture!Formatted
         \/ Capture!Ended /\ r5.status = "closed" /\ r5.params = 0
<1>1. \A a, b, c, d, e, f : /\ <<a>> # <<>> /\ <<a, b>> # <<>> /\ <<a, b, c>> # <<>>
        /\ <<a, b, c, d>> # <<>>
                            /\ <<a, b, c, d, e>> # <<>> /\ <<a, b, c, d, e, f>> # <<>>
  OBVIOUS
<1> QED
  BY <1>1 DEF Capture!IInv, Capture!TodoInv

\* What the player decides: a plan for its files.
LEMMA CapturePlans ==
  ASSUME CaptureBounds, Capture!IInv,
       Capture!pcm_open \/ Capture!pcm_write \/ Capture!pcm_close \/ Capture!Killed \/ Capture!Restarted
  PROVE  Capture!IInv'
<1>1. CaptureFileTyping /\ CaptureReaderTyping
  BY CaptureTyped DEF Capture!IInv
<1>2. UNCHANGED <<r3, r4, r5, r6, r7, r8>>
  BY DEF Capture!pcm_open, Capture!pcm_write, Capture!pcm_close, Capture!Killed, Capture!Restarted,
       Capture!files, Capture!readers
<1>3. r1.capture \in Nat /\ r4.mtime \in Nat /\ r3.frames \in Nat
  BY <1>1, CaptureNumbers DEF CaptureFileTyping, CapturePlayers, CaptureFormats, CaptureFrames
<1>4. ASSUME r1' \in CapturePlayers, r1'.capture >= r1.capture,
             r1'.state = "open" => r1'.capture # 0, Capture!TodoInv'
      PROVE  Capture!IInv'
  <2>1. Capture!Types'
    BY <1>1, <1>2, <1>4, CaptureConverselyNext DEF CaptureFileTyping, CaptureReaderTyping
  <2>2. Capture!FileInv'
    <3>1. r4.mtime <= r1'.capture
      <4>1. r1'.capture \in Nat
        BY <1>4, CaptureNumbers DEF CapturePlayers
      <4> QED
        BY <1>3, <1>4, <4>1 DEF Capture!IInv, Capture!FileInv
    <3> QED
      BY <1>2, <1>4, <3>1 DEF Capture!IInv, Capture!FileInv
  <2>3. Capture!ExportInv' /\ Capture!LookInv'
    BY <1>2 DEF Capture!IInv, Capture!ExportInv, Capture!LookInv
  <2> QED
    BY <1>4, <2>1, <2>2, <2>3 DEF Capture!IInv
<1>5. r1 \in CapturePlayers /\ r1.capture \in Capture!Captures /\ r1.state \in {"dead", "closed", "open"}
  BY <1>1 DEF CaptureFileTyping, CapturePlayers
<1>6. CASE Capture!pcm_open
  <2>a. r1.capture + 1 \in Capture!Captures
    <3>1. r1.capture < MaxCaptures
      BY <1>6 DEF Capture!pcm_open
    <3> QED
      BY <1>3, <3>1 DEF Capture!Captures, CaptureBounds
  <2>1. /\ r1.capture + 1 \in Capture!Captures /\ r1.state = "closed" /\ r2 = <<>>
        /\ r1' = [state |-> "open", capture |-> r1.capture + 1]
        /\ r2' = <<"empty", "no format", "format", "params", "RUNNING", "samples">>
    BY <1>6, <2>a DEF Capture!pcm_open
  <2>2. r1' \in CapturePlayers /\ r1'.state = "open" /\ r1'.capture = r1.capture + 1
    BY <2>1 DEF CapturePlayers
  <2>3. r5.status = "closed"
    BY <2>1, CaptureRests DEF Capture!Writes
  <2>4. Capture!TodoInv'
    BY <1>2, <2>1, <2>2, <2>3 DEF Capture!TodoInv, Capture!Opened
  <2> QED
    BY <1>3, <1>4, <2>2, <2>4
<1>7. CASE Capture!pcm_write
  <2>0. r1.state = "open" /\ r2 = <<>> /\ Capture!Writes /\ Capture!Formatted
    BY <1>7, CaptureRests DEF Capture!pcm_write, Capture!Ended
  <2>1. CASE r3.frames < MaxFrames
    <3>1. r2' = <<"frame">> /\ UNCHANGED r1
      BY <1>7, <2>1 DEF Capture!pcm_write
    <3>2. Capture!TodoInv'
      BY <1>2, <2>0, <2>1, <3>1 DEF Capture!TodoInv, Capture!Writes, Capture!Running, Capture!Formatted
    <3> QED
      BY <1>3, <1>4, <1>5, <3>1, <3>2 DEF Capture!IInv, Capture!FileInv
  <2>2. CASE ~(r3.frames < MaxFrames)
    <3>a. r1.capture + 1 \in Capture!Captures
      <4>1. r1.capture < MaxCaptures
        BY <1>7, <2>2 DEF Capture!pcm_write
      <4> QED
        BY <1>3, <4>1 DEF Capture!Captures, CaptureBounds
    <3>1. /\ r1.capture + 1 \in Capture!Captures /\ r1' = [r1 EXCEPT !.capture = r1.capture + 1]
          /\ r2' = <<"empty", "no format", "format", "frame">>
      BY <1>7, <2>2, <3>a DEF Capture!pcm_write
    <3>2. r1' \in CapturePlayers /\ r1'.state = "open" /\ r1'.capture = r1.capture + 1
      BY <1>5, <2>0, <3>1 DEF CapturePlayers
    <3>3. Capture!TodoInv'
      BY <1>2, <2>0, <3>1, <3>2 DEF Capture!TodoInv, Capture!Writes, Capture!Running
    <3> QED
      BY <1>3, <1>4, <3>2, <3>3
  <2> QED
    BY <2>1, <2>2
<1>8. CASE Capture!pcm_close
  <2>1. r1' = [r1 EXCEPT !.state = "closed"] /\ r2' = <<"closed", "no params", "silent">>
    BY <1>8 DEF Capture!pcm_close
  <2>2. r1' \in CapturePlayers /\ r1'.state = "closed" /\ r1'.capture = r1.capture
    BY <1>5, <2>1 DEF CapturePlayers
  <2>3. Capture!TodoInv'
    BY <2>1, <2>2 DEF Capture!TodoInv, Capture!Ended
  <2> QED
    BY <1>3, <1>4, <2>2, <2>3
<1>9. CASE Capture!Killed
  <2>1. r1' = [r1 EXCEPT !.state = "dead"] /\ r2' = <<"closed", "no params", "silent">>
    BY <1>9 DEF Capture!Killed, Capture!reset_output
  <2>2. r1' \in CapturePlayers /\ r1'.state = "dead" /\ r1'.capture = r1.capture
    BY <1>5, <2>1 DEF CapturePlayers
  <2>3. Capture!TodoInv'
    BY <2>1, <2>2 DEF Capture!TodoInv, Capture!Ended
  <2> QED
    BY <1>3, <1>4, <2>2, <2>3
<1>10. CASE Capture!Restarted
  <2>1. r1' = [r1 EXCEPT !.state = "closed"] /\ r2' = <<>> /\ r2 = <<>> /\ r1.state = "dead"
    BY <1>10 DEF Capture!Restarted
  <2>2. r1' \in CapturePlayers /\ r1'.state = "closed" /\ r1'.capture = r1.capture
    BY <1>5, <2>1 DEF CapturePlayers
  <2>3. r5.status = "closed" /\ r5.params = 0
    BY <2>1, CaptureRests DEF Capture!Writes
  <2>4. Capture!TodoInv'
    BY <1>2, <2>1, <2>2, <2>3 DEF Capture!TodoInv, Capture!Ended
  <2> QED
    BY <1>3, <1>4, <2>2, <2>4
<1> QED
  BY <1>6, <1>7, <1>8, <1>9, <1>10

\* One operation on a file: what was stamped for a capture is never stamped for an older one.
LEMMA CaptureOperated ==
  ASSUME CaptureBounds, Capture!IInv, UNCHANGED <<r1, r6, r7>>, r8' = FALSE, r3' \in CaptureFrames,
       r4' \in CaptureFormats,
         r5' \in CaptureOutputs, r4'.mtime >= r4.mtime, r4'.mtime <= r1.capture,
         r3'.frames > 0 => r3'.of = r4'.mtime, r5'.status = "RUNNING" => r5'.params # 0, Capture!TodoInv'
  PROVE  Capture!IInv'
<1>1. CaptureFileTyping /\ CaptureReaderTyping
  BY CaptureTyped DEF Capture!IInv
<1>2. Capture!Types'
  BY <1>1, CaptureConverselyNext DEF CaptureFileTyping, CaptureReaderTyping
<1>3. r4.mtime \in Nat /\ r4'.mtime \in Nat /\ r6.head \in Nat
  BY <1>1, CaptureNumbers DEF CaptureFileTyping, CaptureFormats, CaptureReaderTyping, Capture!Exports
<1>4. Capture!FileInv' /\ Capture!LookInv'
  BY DEF Capture!IInv, Capture!FileInv, Capture!LookInv
<1>5. Capture!ExportInv'
  <2>1. r6.head <= r4.mtime => r6.head <= r4'.mtime
    BY <1>3
  <2>2. r6.head <= r4.mtime /\ r4'.mtime = r6.head => r4.mtime = r6.head
    BY <1>3
  <2> QED
    BY <2>1, <2>2 DEF Capture!IInv, Capture!ExportInv
<1> QED
  BY <1>2, <1>4, <1>5 DEF Capture!IInv

\* Every operation on the files leaves them as far as the rest of its plan says.
LEMMA CaptureOperates == ASSUME CaptureBounds, Capture!IInv, Capture!FileOperation PROVE Capture!IInv'
<1>1. CaptureFileTyping /\ CaptureReaderTyping /\ UNCHANGED <<r1, r6, r7>> /\ r8' = FALSE
  BY CaptureTyped DEF Capture!IInv, Capture!FileOperation, Capture!readers
<1>2. /\ r1.capture \in Capture!Captures /\ r1.capture \in Nat /\ r4.mtime \in Nat /\ r3.frames \in Nat
           /\ 0 \in Capture!Captures
      /\ r3 \in CaptureFrames /\ r4 \in CaptureFormats /\ r5 \in CaptureOutputs /\ 0 \in 0..MaxFrames
           /\ r4.mtime <= r1.capture
  BY <1>1, CaptureNumbers DEF CaptureFileTyping, CapturePlayers, CaptureFormats, CaptureFrames,
       Capture!IInv, Capture!FileInv
<1> DEFINE op == Head(r2)
<1>3. /\ r3' = CASE op = "empty" -> [of |-> r1.capture, frames |-> 0]
                 [] op = "frame" -> [r3 EXCEPT !.frames = @ + 1]
                 [] OTHER -> r3
      /\ r4' = CASE op = "no format" -> [text |-> 0, mtime |-> r1.capture]
                 [] op = "format" -> [r4 EXCEPT !.text = r1.capture]
                 [] OTHER -> r4
      /\ r5' = CASE op \in {"closed", "RUNNING"} -> [r5 EXCEPT !.status = op]
                 [] op = "params" -> [r5 EXCEPT !.params = r1.capture]
                 [] op = "no params" -> [r5 EXCEPT !.params = 0]
                 [] op = "samples" -> [r5 EXCEPT !.activity = "samples"]
                 [] op = "silent" -> [r5 EXCEPT !.activity = "closed"]
                 [] OTHER -> r5
      /\ r2 # <<>> /\ r2' = Tail(r2)
  BY DEF Capture!FileOperation
<1> HIDE DEF op
<1>4. ASSUME op = "empty"
      PROVE  /\ r3' \in CaptureFrames /\ r3' = [of |-> r1.capture, frames |-> 0] /\ UNCHANGED <<r4, r5>>
             /\ ~(r3'.frames > 0)
  <2>1. r3' = [of |-> r1.capture, frames |-> 0] /\ UNCHANGED <<r4, r5>>
    BY <1>3, <1>4
  <2> QED
    BY <1>2, <2>1 DEF CaptureFrames
<1>5. ASSUME op = "no format"
      PROVE  r4' \in CaptureFormats /\ r4'.mtime = r1.capture /\ UNCHANGED <<r3, r5>>
  <2>1. r4' = [text |-> 0, mtime |-> r1.capture] /\ UNCHANGED <<r3, r5>>
    BY <1>3, <1>5
  <2> QED
    BY <1>2, <2>1 DEF CaptureFormats
<1>6. ASSUME op = "format", r4.mtime = r1.capture
      PROVE  r4' \in CaptureFormats /\ r4' = [text |-> r1.capture, mtime |-> r1.capture]
               /\ UNCHANGED <<r3, r5>>
  <2>1. r4' = [r4 EXCEPT !.text = r1.capture] /\ UNCHANGED <<r3, r5>>
    BY <1>3, <1>6
  <2> QED
    BY <1>2, <1>6, <2>1 DEF CaptureFormats
<1>7. ASSUME op = "frame", r3.frames < MaxFrames
      PROVE  r3' \in CaptureFrames /\ r3'.of = r3.of /\ UNCHANGED <<r4, r5>>
  <2>1. r3' = [r3 EXCEPT !.frames = r3.frames + 1] /\ UNCHANGED <<r4, r5>>
    BY <1>3, <1>7
  <2>2. r3.frames + 1 \in 0..MaxFrames
    BY <1>2, <1>7 DEF CaptureBounds
  <2> QED
    BY <1>2, <2>1, <2>2 DEF CaptureFrames
<1>8. ASSUME op \in {"closed", "RUNNING"}
      PROVE  r5' \in CaptureOutputs /\ r5'.status = op /\ r5'.params = r5.params /\ UNCHANGED <<r3, r4>>
  <2>1. r5' = [r5 EXCEPT !.status = op] /\ UNCHANGED <<r3, r4>>
    BY <1>3, <1>8
  <2> QED
    BY <1>2, <1>8, <2>1 DEF CaptureOutputs
<1>9. ASSUME NEW c \in Capture!Captures, (op = "params" /\ c = r1.capture) \/ (op = "no params" /\ c = 0)
      PROVE  r5' \in CaptureOutputs /\ r5'.params = c /\ r5'.status = r5.status /\ UNCHANGED <<r3, r4>>
  <2>1. r5' = [r5 EXCEPT !.params = c] /\ UNCHANGED <<r3, r4>>
    BY <1>3, <1>9
  <2> QED
    BY <1>2, <2>1 DEF CaptureOutputs
<1>10. ASSUME op \in {"samples", "silent"}
       PROVE  r5' \in CaptureOutputs /\ r5'.params = r5.params /\ r5'.status = r5.status
                /\ UNCHANGED <<r3, r4>>
  <2>1. PICK a \in {"samples", "closed"} : r5' = [r5 EXCEPT !.activity = a] /\ UNCHANGED <<r3, r4>>
    BY <1>3, <1>10
  <2> QED
    BY <1>2, <2>1 DEF CaptureOutputs
<1>f. ASSUME r3' \in CaptureFrames, r4' \in CaptureFormats, r5' \in CaptureOutputs,
     r4'.mtime \in {r4.mtime, r1.capture},
             r3'.frames > 0 => r3'.of = r4'.mtime, r5'.status = "RUNNING"
               => r5'.params # 0, Capture!TodoInv'
      PROVE  Capture!IInv'
  <2>1. r4'.mtime >= r4.mtime /\ r4'.mtime <= r1.capture
    BY <1>2, <1>f
  <2> QED
    BY <1>1, <1>f, <2>1, CaptureOperated
<1>g. /\ r3.frames > 0 => r3.of = r4.mtime
      /\ r5.status = "RUNNING" => r5.params # 0
      /\ r1.state = "open" => r1.capture # 0
  BY DEF Capture!IInv, Capture!FileInv
<1>11. CASE r2 = <<"empty", "no format", "format", "params", "RUNNING", "samples">> /\ Capture!Opened
  <2>b. /\ Head(<<"empty", "no format", "format", "params", "RUNNING", "samples">>) = "empty"
        /\ Tail(<<"empty", "no format", "format", "params", "RUNNING", "samples">>)
            = <<"no format", "format", "params", "RUNNING", "samples">>
    <3> DEFINE a == "empty" b == "no format" c == "format" d == "params" e == "RUNNING" f == "samples"
    <3> HIDE DEF a, b, c, d, e, f
    <3>1. Head(<<a, b, c, d, e, f>>) = a /\ Tail(<<a, b, c, d, e, f>>) = <<b, c, d, e, f>>
      BY CaptureTail6
    <3> QED
      BY <3>1 DEF a, b, c, d, e, f
  <2>0. op = Head(r2) /\ r2' = Tail(r2)
    BY <1>3 DEF op
  <2>1. op = "empty" /\ r2' = <<"no format", "format", "params", "RUNNING", "samples">>
    BY <2>0, <2>b, <1>11
  <2>2. Capture!TodoInv'
    BY <1>1, <1>2, <1>4, <1>g, <1>11, <2>1 DEF Capture!TodoInv, Capture!Opened, Capture!Emptied
  <2> QED
    BY <1>2, <1>4, <1>f, <1>g, <1>11, <2>1, <2>2 DEF Capture!Opened, Capture!Emptied
<1>12. CASE r2 = <<"no format", "format", "params", "RUNNING", "samples">> /\ Capture!Opened
              /\ Capture!Emptied
  <2>b. /\ Head(<<"no format", "format", "params", "RUNNING", "samples">>) = "no format"
        /\ Tail(<<"no format", "format", "params", "RUNNING", "samples">>)
            = <<"format", "params", "RUNNING", "samples">>
    OBVIOUS
  <2>0. op = Head(r2) /\ r2' = Tail(r2)
    BY <1>3 DEF op
  <2>1. op = "no format" /\ r2' = <<"format", "params", "RUNNING", "samples">>
    BY <2>0, <2>b, <1>12
  <2>2. Capture!TodoInv'
    BY <1>1, <1>2, <1>5, <1>g, <1>12, <2>1 DEF Capture!TodoInv, Capture!Opened, Capture!Emptied,
         Capture!Stamped
  <2> QED
    BY <1>2, <1>5, <1>f, <1>g, <1>12, <2>1, <2>2 DEF Capture!Opened, Capture!Emptied, Capture!Stamped
<1>13. CASE r2 = <<"format", "params", "RUNNING", "samples">> /\ Capture!Opened /\ Capture!Stamped
  <2>b. /\ Head(<<"format", "params", "RUNNING", "samples">>) = "format"
        /\ Tail(<<"format", "params", "RUNNING", "samples">>)
            = <<"params", "RUNNING", "samples">>
    BY CaptureTail4, Zenon
  <2>0. op = Head(r2) /\ r2' = Tail(r2)
    BY <1>3 DEF op
  <2>1. op = "format" /\ r2' = <<"params", "RUNNING", "samples">>
    BY <2>0, <2>b, <1>13
  <2>2. Capture!TodoInv'
    BY <1>1, <1>2, <1>6, <1>g, <1>13, <2>1 DEF Capture!TodoInv, Capture!Opened, Capture!Emptied,
         Capture!Stamped, Capture!Formatted
  <2> QED
    BY <1>2, <1>6, <1>f, <1>g, <1>13, <2>1, <2>2 DEF Capture!Opened, Capture!Emptied, Capture!Stamped,
         Capture!Formatted
<1>14. CASE r2 = <<"params", "RUNNING", "samples">> /\ Capture!Opened /\ Capture!Formatted
  <2>b. /\ Head(<<"params", "RUNNING", "samples">>) = "params"
        /\ Tail(<<"params", "RUNNING", "samples">>)
            = <<"RUNNING", "samples">>
    BY CaptureTail3, Zenon
  <2>0. op = Head(r2) /\ r2' = Tail(r2)
    BY <1>3 DEF op
  <2>1. op = "params" /\ r2' = <<"RUNNING", "samples">>
    BY <2>0, <2>b, <1>14
  <2>a. r5' \in CaptureOutputs /\ r5'.params = r1.capture /\ r5'.status = r5.status /\ UNCHANGED <<r3, r4>>
    BY <1>2, <1>9, <2>1
  <2>2. Capture!TodoInv'
    BY <1>1, <1>2, <1>g, <1>14, <2>1, <2>a DEF Capture!TodoInv, Capture!Opened, Capture!Formatted
  <2> QED
    BY <1>2, <1>f, <1>g, <1>14, <2>1, <2>2, <2>a DEF Capture!Opened, Capture!Formatted
<1>15. CASE r2 = <<"RUNNING", "samples">> /\ Capture!Opened /\ Capture!Formatted /\ r5.params # 0
  <2>b. /\ Head(<<"RUNNING", "samples">>) = "RUNNING"
        /\ Tail(<<"RUNNING", "samples">>)
            = <<"samples">>
    BY CaptureTail2, Zenon
  <2>0. op = Head(r2) /\ r2' = Tail(r2)
    BY <1>3 DEF op
  <2>1. op = "RUNNING" /\ r2' = <<"samples">>
    BY <2>0, <2>b, <1>15
  <2>2. Capture!TodoInv'
    BY <1>1, <1>2, <1>8, <1>g, <1>15, <2>1 DEF Capture!TodoInv, Capture!Opened, Capture!Writes,
         Capture!Running, Capture!Formatted
  <2> QED
    BY <1>2, <1>8, <1>f, <1>g, <1>15, <2>1, <2>2 DEF Capture!Opened, Capture!Writes, Capture!Running,
         Capture!Formatted
<1>16. CASE r2 = <<"samples">> /\ Capture!Writes /\ Capture!Formatted
  <2>b. /\ Head(<<"samples">>) = "samples"
        /\ Tail(<<"samples">>)
            = <<>>
    BY CaptureTail1, Zenon
  <2>0. op = Head(r2) /\ r2' = Tail(r2)
    BY <1>3 DEF op
  <2>1. op = "samples" /\ r2' = <<>>
    BY <2>0, <2>b, <1>16
  <2>2. Capture!TodoInv'
    BY <1>1, <1>2, <1>10, <1>g, <1>16, <2>1 DEF Capture!TodoInv, Capture!Writes, Capture!Running,
         Capture!Formatted
  <2> QED
    BY <1>2, <1>10, <1>f, <1>g, <1>16, <2>1, <2>2 DEF Capture!Writes, Capture!Running, Capture!Formatted
<1>17. CASE r2 = <<"empty", "no format", "format", "frame">> /\ Capture!Writes
  <2>b. /\ Head(<<"empty", "no format", "format", "frame">>) = "empty"
        /\ Tail(<<"empty", "no format", "format", "frame">>)
            = <<"no format", "format", "frame">>
    BY CaptureTail4, Zenon
  <2>0. op = Head(r2) /\ r2' = Tail(r2)
    BY <1>3 DEF op
  <2>1. op = "empty" /\ r2' = <<"no format", "format", "frame">>
    BY <2>0, <2>b, <1>17
  <2>2. Capture!TodoInv'
    BY <1>1, <1>2, <1>4, <1>g, <1>17, <2>1 DEF Capture!TodoInv, Capture!Writes, Capture!Running,
         Capture!Emptied
  <2> QED
    BY <1>2, <1>4, <1>f, <1>g, <1>17, <2>1, <2>2 DEF Capture!Writes, Capture!Running, Capture!Emptied
<1>18. CASE r2 = <<"no format", "format", "frame">> /\ Capture!Writes /\ Capture!Emptied
  <2>b. /\ Head(<<"no format", "format", "frame">>) = "no format"
        /\ Tail(<<"no format", "format", "frame">>)
            = <<"format", "frame">>
    BY CaptureTail3, Zenon
  <2>0. op = Head(r2) /\ r2' = Tail(r2)
    BY <1>3 DEF op
  <2>1. op = "no format" /\ r2' = <<"format", "frame">>
    BY <2>0, <2>b, <1>18
  <2>2. Capture!TodoInv'
    BY <1>1, <1>2, <1>5, <1>g, <1>18, <2>1 DEF Capture!TodoInv, Capture!Writes, Capture!Running,
         Capture!Emptied, Capture!Stamped
  <2> QED
    BY <1>2, <1>5, <1>f, <1>g, <1>18, <2>1, <2>2 DEF Capture!Writes, Capture!Running, Capture!Emptied,
         Capture!Stamped
<1>19. CASE r2 = <<"format", "frame">> /\ Capture!Writes /\ Capture!Stamped
  <2>b. /\ Head(<<"format", "frame">>) = "format"
        /\ Tail(<<"format", "frame">>)
            = <<"frame">>
    BY CaptureTail2, Zenon
  <2>0. op = Head(r2) /\ r2' = Tail(r2)
    BY <1>3 DEF op
  <2>1. op = "format" /\ r2' = <<"frame">>
    BY <2>0, <2>b, <1>19
  <2>2. Capture!TodoInv'
    BY <1>1, <1>2, <1>6, <1>g, <1>19, <2>1 DEF Capture!TodoInv, Capture!Writes, Capture!Running,
         Capture!Emptied, Capture!Stamped, Capture!Formatted, CaptureBounds
  <2> QED
    BY <1>2, <1>6, <1>f, <1>g, <1>19, <2>1, <2>2 DEF Capture!Writes, Capture!Running, Capture!Emptied,
         Capture!Stamped, Capture!Formatted, CaptureBounds
<1>20. CASE r2 = <<"frame">> /\ Capture!Writes /\ Capture!Formatted /\ r3.frames < MaxFrames
  <2>b. /\ Head(<<"frame">>) = "frame"
        /\ Tail(<<"frame">>)
            = <<>>
    BY CaptureTail1, Zenon
  <2>0. op = Head(r2) /\ r2' = Tail(r2)
    BY <1>3 DEF op
  <2>1. op = "frame" /\ r2' = <<>>
    BY <2>0, <2>b, <1>20
  <2>2. Capture!TodoInv'
    BY <1>1, <1>2, <1>7, <1>g, <1>20, <2>1 DEF Capture!TodoInv, Capture!Writes, Capture!Running,
         Capture!Formatted
  <2> QED
    BY <1>2, <1>7, <1>f, <1>g, <1>20, <2>1, <2>2 DEF Capture!Writes, Capture!Running, Capture!Formatted
<1>21. CASE r2 = <<"closed", "no params", "silent">> /\ Capture!Ended
  <2>b. /\ Head(<<"closed", "no params", "silent">>) = "closed"
        /\ Tail(<<"closed", "no params", "silent">>)
            = <<"no params", "silent">>
    BY CaptureTail3, Zenon
  <2>0. op = Head(r2) /\ r2' = Tail(r2)
    BY <1>3 DEF op
  <2>1. op = "closed" /\ r2' = <<"no params", "silent">>
    BY <2>0, <2>b, <1>21
  <2>2. Capture!TodoInv'
    BY <1>1, <1>2, <1>8, <1>g, <1>21, <2>1 DEF Capture!TodoInv, Capture!Ended
  <2> QED
    BY <1>2, <1>8, <1>f, <1>g, <1>21, <2>1, <2>2 DEF Capture!Ended
<1>22. CASE r2 = <<"no params", "silent">> /\ Capture!Ended /\ r5.status = "closed"
  <2>b. /\ Head(<<"no params", "silent">>) = "no params"
        /\ Tail(<<"no params", "silent">>)
            = <<"silent">>
    BY CaptureTail2, Zenon
  <2>0. op = Head(r2) /\ r2' = Tail(r2)
    BY <1>3 DEF op
  <2>1. op = "no params" /\ r2' = <<"silent">>
    BY <2>0, <2>b, <1>22
  <2>2. Capture!TodoInv'
    BY <1>1, <1>2, <1>9, <1>g, <1>22, <2>1 DEF Capture!TodoInv, Capture!Ended
  <2> QED
    BY <1>2, <1>9, <1>f, <1>g, <1>22, <2>1, <2>2 DEF Capture!Ended
<1>23. CASE r2 = <<"silent">> /\ Capture!Ended /\ r5.status = "closed" /\ r5.params = 0
  <2>b. /\ Head(<<"silent">>) = "silent"
        /\ Tail(<<"silent">>)
            = <<>>
    BY CaptureTail1, Zenon
  <2>0. op = Head(r2) /\ r2' = Tail(r2)
    BY <1>3 DEF op
  <2>1. op = "silent" /\ r2' = <<>>
    BY <2>0, <2>b, <1>23
  <2>2. Capture!TodoInv'
    BY <1>1, <1>2, <1>10, <1>g, <1>23, <2>1 DEF Capture!TodoInv, Capture!Ended
  <2> QED
    BY <1>2, <1>10, <1>f, <1>g, <1>23, <2>1, <2>2 DEF Capture!Ended
<1> QED
  BY <1>3, <1>11, <1>12, <1>13, <1>14, <1>15, <1>16, <1>17, <1>18, <1>19, <1>20, <1>21, <1>22, <1>23
       DEF Capture!IInv, Capture!TodoInv

\* What an export reads.
LEMMA CaptureRead ==
  ASSUME Capture!IInv, UNCHANGED Capture!unread, r6' \in Capture!Exports, r6'.offset <= r6'.size,
       Capture!ExportInv' PROVE Capture!IInv'
<1>1. UNCHANGED <<r1, r2, r3, r4, r5, r7, r8>> /\ CaptureFileTyping /\ CaptureReaderTyping
  BY CaptureTyped DEF Capture!unread, Capture!files, Capture!IInv
<1>2. Capture!Types'
  BY <1>1, CaptureConverselyNext DEF CaptureFileTyping, CaptureReaderTyping
<1>3. Capture!TodoInv' /\ Capture!FileInv' /\ Capture!LookInv'
  BY <1>1 DEF Capture!IInv, Capture!TodoInv, Capture!FileInv, Capture!LookInv, Capture!Writes,
       Capture!Running, Capture!Formatted, Capture!Ended, Capture!Opened, Capture!Emptied, Capture!Stamped
<1> QED
  BY <1>2, <1>3 DEF Capture!IInv

\* Every step of an export takes samples of the capture that its header names, or gives up.
LEMMA CaptureExported ==
  ASSUME CaptureBounds, Capture!IInv,
       \/ Capture!ReadFormat \/ Capture!ReadStamp \/ Capture!capture_info \/ Capture!Chunk
            \/ Capture!ReadFrames \/ Capture!read_chunk \/ Capture!export_wav
  PROVE  Capture!IInv'
<1>1. CaptureFileTyping /\ CaptureReaderTyping /\ UNCHANGED Capture!unread
  BY CaptureTyped DEF Capture!IInv, Capture!ReadFormat, Capture!ReadStamp, Capture!capture_info,
       Capture!Chunk, Capture!ReadFrames, Capture!read_chunk, Capture!export_wav
<1>2. UNCHANGED <<r1, r2, r3, r4, r5, r7, r8>>
  BY <1>1 DEF Capture!unread, Capture!files
<1>3. /\ r6 \in Capture!Exports /\ r4.text \in Capture!Captures /\ r4.mtime \in Capture!Captures
           /\ r3.of \in Capture!Captures /\ Capture!Captures \subseteq Nat
      /\ r3.frames \in 0..MaxFrames /\ r6.offset <= r6.size
  BY <1>1, CaptureNumbers DEF CaptureFileTyping, CaptureReaderTyping, CaptureFormats, CaptureFrames
<1>4. r6.head \in Capture!Captures /\ r6.offset \in Nat /\ r6.size \in 0..MaxFrames
        /\ r6.taken \in SUBSET Capture!Captures
  BY <1>3 DEF Capture!Exports
<1>5. ASSUME NEW pc \in {"done", "failed", "read", "chunk"}, Capture!Export(pc), r6.pc \in {"chunk",
     "check"},
             pc = "read" => r6.pc = "chunk" /\ r6.offset < r6.size,
             pc = "done" => r6.pc = "chunk",
             pc = "chunk" => r4.mtime = r6.head
      PROVE  Capture!IInv'
  <2>1. r6' = [r6 EXCEPT !.pc = pc]
    BY <1>5 DEF Capture!Export
  <2>2. /\ r6' \in Capture!Exports /\ r6'.pc = pc /\ r6'.head = r6.head /\ r6'.size = r6.size
        /\ r6'.offset = r6.offset /\ r6'.taken = r6.taken
    BY <1>3, <2>1 DEF Capture!Exports
  <2>3. Capture!ExportInv'
    BY <1>2, <1>5, <2>2 DEF Capture!IInv, Capture!ExportInv
  <2> QED
    BY <1>1, <1>3, <2>2, <2>3, CaptureRead
<1>6. CASE Capture!ReadFormat
  <2>1. r6' = [r6 EXCEPT !.pc = "stamp", !.text = r4.text] /\ r6.pc = "idle"
    BY <1>6 DEF Capture!ReadFormat
  <2>2. /\ r6' \in Capture!Exports /\ r6'.pc = "stamp" /\ r6'.head = r6.head /\ r6'.size = r6.size
        /\ r6'.offset = r6.offset /\ r6'.taken = r6.taken
    BY <1>3, <2>1 DEF Capture!Exports
  <2>3. Capture!ExportInv'
    BY <2>1, <2>2 DEF Capture!IInv, Capture!ExportInv
  <2> QED
    BY <1>1, <1>3, <2>2, <2>3, CaptureRead
<1>7. CASE Capture!ReadStamp
  <2>1. r6' = [r6 EXCEPT !.pc = "size", !.head = r4.mtime] /\ r6.pc = "stamp"
    BY <1>7 DEF Capture!ReadStamp
  <2>2. /\ r6' \in Capture!Exports /\ r6'.pc = "size" /\ r6'.head = r4.mtime /\ r6'.size = r6.size
        /\ r6'.offset = r6.offset /\ r6'.taken = r6.taken
    BY <1>3, <2>1 DEF Capture!Exports
  <2>3. Capture!ExportInv'
    BY <1>2, <1>3, <2>1, <2>2 DEF Capture!IInv, Capture!ExportInv
  <2> QED
    BY <1>1, <1>3, <2>2, <2>3, CaptureRead
<1>8. CASE Capture!capture_info
  <2>1. r6' = [r6 EXCEPT !.pc = "chunk", !.size = r3.frames] /\ r6.pc = "size"
    BY <1>8 DEF Capture!capture_info
  <2>2. /\ r6' \in Capture!Exports /\ r6'.pc = "chunk" /\ r6'.head = r6.head /\ r6'.size = r3.frames
        /\ r6'.offset = r6.offset /\ r6'.taken = r6.taken
    BY <1>3, <2>1 DEF Capture!Exports
  <2>3. r6.offset = 0 /\ r6.taken = {}
    BY <2>1 DEF Capture!IInv, Capture!ExportInv
  <2>4. Capture!ExportInv'
    BY <1>2, <2>1, <2>2, <2>3 DEF Capture!IInv, Capture!ExportInv
  <2>5. r6'.offset <= r6'.size
    BY <1>3, <2>2, <2>3 DEF CaptureBounds
  <2> QED
    BY <1>1, <2>2, <2>4, <2>5, CaptureRead
<1>9. CASE Capture!Chunk
  <2>1. r6.pc = "chunk" /\ r6.size \in Nat /\ r6.offset \in Nat
    BY <1>4, <1>9 DEF Capture!Chunk, CaptureBounds
  <2>2. CASE r6.offset >= r6.size
    BY <1>5, <1>9, <2>1, <2>2 DEF Capture!Chunk
  <2>3. CASE ~(r6.offset >= r6.size)
    <3>1. r6.offset < r6.size
      BY <2>1, <2>3
    <3>2. Capture!Export("failed") \/ Capture!Export("read")
      BY <1>9, <2>3 DEF Capture!Chunk
    <3> QED
      BY <1>5, <2>1, <3>1, <3>2
  <2> QED
    BY <2>2, <2>3
<1>10. CASE Capture!ReadFrames
  <2>1. r6.pc = "read" /\ r6.offset < r6.size /\ r6.taken \subseteq {r6.head} /\ r6.head <= r4.mtime
    BY <1>10 DEF Capture!ReadFrames, Capture!IInv, Capture!ExportInv
  <2>2. CASE r3.frames <= r6.offset
    <3>1. r6' = [r6 EXCEPT !.pc = "failed"]
      BY <1>10, <2>2 DEF Capture!ReadFrames, Capture!Export
    <3>2. /\ r6' \in Capture!Exports /\ r6'.pc = "failed" /\ r6'.head = r6.head /\ r6'.size = r6.size
          /\ r6'.offset = r6.offset /\ r6'.taken = r6.taken
      BY <1>3, <3>1 DEF Capture!Exports
    <3>3. Capture!ExportInv'
      BY <3>2 DEF Capture!ExportInv
    <3> QED
      BY <1>1, <1>3, <3>2, <3>3, CaptureRead
  <2>3. CASE ~(r3.frames <= r6.offset)
    <3> DEFINE taken == r6.taken \union {r3.of}
    <3>1. r6' = [r6 EXCEPT !.pc = "check", !.offset = r6.offset + 1, !.taken = taken]
      BY <1>10, <2>3 DEF Capture!ReadFrames
    <3>2. r6.offset + 1 \in 0..MaxFrames /\ r6.offset + 1 <= r6.size
      BY <1>4, <2>1 DEF CaptureBounds
    <3>3. taken \in SUBSET Capture!Captures
      BY <1>3, <1>4
    <3>4. r3.of = r4.mtime
      <4>1. r3.frames > 0
        BY <1>3, <1>4, <2>3 DEF CaptureBounds
      <4> QED
        BY <4>1 DEF Capture!IInv, Capture!FileInv
    <3>5. r4.mtime = r6.head => taken \subseteq {r6.head}
      BY <2>1, <3>4
    <3> HIDE DEF taken
    <3>6. /\ r6' \in Capture!Exports /\ r6'.pc = "check" /\ r6'.head = r6.head /\ r6'.size = r6.size
          /\ r6'.offset = r6.offset + 1 /\ r6'.taken = taken
      BY <1>3, <3>1, <3>2, <3>3 DEF Capture!Exports
    <3>7. Capture!ExportInv'
      BY <1>2, <2>1, <3>5, <3>6 DEF Capture!ExportInv
    <3> QED
      BY <1>1, <3>2, <3>6, <3>7, CaptureRead
  <2> QED
    BY <2>2, <2>3
<1>11. CASE Capture!read_chunk
  BY <1>5, <1>11 DEF Capture!read_chunk
<1>12. CASE Capture!export_wav
  <2>1. r6' = Capture!NoExport
    BY <1>12 DEF Capture!export_wav
  <2>2. /\ Capture!NoExport \in Capture!Exports /\ Capture!NoExport.pc = "idle"
             /\ Capture!NoExport.offset = 0 /\ Capture!NoExport.size = 0 /\ Capture!NoExport.taken = {}
    BY CaptureNumbers DEF Capture!NoExport, Capture!Exports
  <2>3. Capture!ExportInv' /\ r6'.offset <= r6'.size
    BY <2>1, <2>2 DEF Capture!ExportInv
  <2> QED
    BY <1>1, <2>1, <2>2, <2>3, CaptureRead
<1> QED
  BY <1>6, <1>7, <1>8, <1>9, <1>10, <1>11, <1>12

\* What output_state reads.
LEMMA CaptureLooked ==
  ASSUME Capture!IInv, UNCHANGED Capture!unlooked, r7' \in Capture!Looks, r8' \in BOOLEAN,
       Capture!LookInv' PROVE Capture!IInv'
<1>1. UNCHANGED <<r1, r2, r3, r4, r5, r6>> /\ CaptureFileTyping /\ CaptureReaderTyping
  BY CaptureTyped DEF Capture!unlooked, Capture!files, Capture!IInv
<1>2. Capture!Types'
  BY <1>1, CaptureConverselyNext DEF CaptureFileTyping, CaptureReaderTyping
<1>3. Capture!TodoInv' /\ Capture!FileInv' /\ Capture!ExportInv'
  BY <1>1 DEF Capture!IInv, Capture!TodoInv, Capture!FileInv, Capture!ExportInv, Capture!Writes,
       Capture!Running, Capture!Formatted, Capture!Ended, Capture!Opened, Capture!Emptied, Capture!Stamped
<1> QED
  BY <1>2, <1>3 DEF Capture!IInv

\* Every step of a look at the output keeps what it has read consistent with what it will say.
LEMMA CaptureLooking ==
  ASSUME CaptureBounds, Capture!IInv,
       Capture!ReadStatus \/ Capture!ReadParameters \/ Capture!ReadActivity \/ Capture!output_state
         \/ Capture!Report
  PROVE  Capture!IInv'
<1>1. CaptureFileTyping /\ CaptureReaderTyping /\ UNCHANGED Capture!unlooked
  BY CaptureTyped DEF Capture!IInv, Capture!ReadStatus, Capture!ReadParameters, Capture!ReadActivity,
       Capture!output_state, Capture!Report
<1>2. UNCHANGED r5
  BY <1>1 DEF Capture!unlooked, Capture!files
<1>3. /\ r7 \in Capture!Looks /\ r5.status \in {"closed", "RUNNING"} /\ r5.params \in Capture!Captures
           /\ r5.activity \in {"closed", "samples"}
      /\ r8 \in BOOLEAN
  BY <1>1 DEF CaptureFileTyping, CaptureReaderTyping, CaptureOutputs
<1>a. Capture!NoLook \in Capture!Looks /\ Capture!NoLook.pc = "idle"
  <2>1. 3 \in 1..3
    OBVIOUS
  <2> QED
    BY <2>1, CaptureNumbers DEF Capture!NoLook, Capture!Looks
<1>4. CASE Capture!ReadStatus
  <2>1. r7' = [r7 EXCEPT !.pc = "status", !.status = r5.status] /\ r8' = (r7.tries = 3 \/ r8)
    BY <1>4 DEF Capture!ReadStatus
  <2>2. r7' \in Capture!Looks /\ r7'.pc = "status" /\ r7'.status = r5.status
    BY <1>3, <2>1 DEF Capture!Looks
  <2>3. r8' \in BOOLEAN
    BY <2>1
  <2>4. Capture!LookInv'
    BY <1>2, <2>2 DEF Capture!LookInv
  <2> QED
    BY <1>1, <2>2, <2>3, <2>4, CaptureLooked
<1>5. CASE Capture!ReadParameters
  <2>1. r7.pc = "status" /\ r7' = [r7 EXCEPT !.pc = "params", !.params = r5.params] /\ UNCHANGED r8
    BY <1>5 DEF Capture!ReadParameters, Capture!Look
  <2>2. r7' \in Capture!Looks /\ r7'.pc = "params" /\ r7'.status = r7.status /\ r7'.params = r5.params
    BY <1>3, <2>1 DEF Capture!Looks
  <2>3. Capture!LookInv'
    BY <1>2, <2>1, <2>2 DEF Capture!IInv, Capture!LookInv
  <2> QED
    BY <1>1, <1>3, <2>1, <2>2, <2>3, CaptureLooked
<1>6. CASE Capture!ReadActivity
  <2>1. r7.pc = "params" /\ r7' = [r7 EXCEPT !.pc = "activity", !.activity = r5.activity] /\ UNCHANGED r8
    BY <1>6 DEF Capture!ReadActivity, Capture!Look
  <2>2. r7' \in Capture!Looks /\ r7'.pc = "activity" /\ r7'.status = r7.status /\ r7'.params = r7.params
    BY <1>3, <2>1 DEF Capture!Looks
  <2>3. Capture!LookInv'
    BY <1>2, <2>1, <2>2 DEF Capture!IInv, Capture!LookInv
  <2> QED
    BY <1>1, <1>3, <2>1, <2>2, <2>3, CaptureLooked
<1>7. CASE Capture!output_state
  <2> DEFINE again == [Capture!NoLook EXCEPT !.tries = r7.tries - 1]
             closed == [r7 EXCEPT !.pc = "report", !.status = "closed", !.params = 0, !.activity = "closed"]
             report == [r7 EXCEPT !.pc = "report"]
             changed == r5.status # r7.status \/ (r7.status # "closed" /\ r7.params = 0)
  <2>1. /\ r7.pc = "activity" /\ UNCHANGED r8
        /\ r7' = IF changed THEN IF r7.tries = 1 THEN closed ELSE again
                  ELSE IF r7.status = "closed" THEN closed ELSE report
    BY <1>7 DEF Capture!output_state
  <2>2. closed \in Capture!Looks /\ closed.pc = "report" /\ closed.status = "closed" /\ closed.params = 0
    BY <1>3, CaptureNumbers DEF Capture!Looks
  <2>3. report \in Capture!Looks /\ report.pc = "report" /\ report.status = r7.status
          /\ report.params = r7.params
    BY <1>3 DEF Capture!Looks
  <2>4. r7.tries # 1 => again \in Capture!Looks /\ again.pc = "idle"
    <3>1. r7.tries # 1 => r7.tries - 1 \in 1..3
      BY <1>3 DEF Capture!Looks
    <3> QED
      BY <1>a, <3>1 DEF Capture!Looks
  <2>5. r8 => /\ r7.status = r5.status /\ r7.params = r5.params
              /\ (r5.status = "RUNNING" => r5.params # 0)
    BY <2>1 DEF Capture!IInv, Capture!LookInv, Capture!FileInv
  <2>6. r8 => ~changed
    BY <1>3, <2>5
  <2> HIDE DEF again, closed, report, changed
  <2>7. r7' \in Capture!Looks
    BY <2>1, <2>2, <2>3, <2>4
  <2>8. Capture!LookInv'
    BY <1>2, <2>1, <2>2, <2>3, <2>5, <2>6 DEF Capture!LookInv
  <2> QED
    BY <1>1, <1>3, <2>1, <2>7, <2>8, CaptureLooked
<1>8. CASE Capture!Report
  <2>1. r7' = Capture!NoLook /\ UNCHANGED r8
    BY <1>8 DEF Capture!Report
  <2>2. Capture!LookInv'
    BY <1>a, <2>1 DEF Capture!LookInv
  <2> QED
    BY <1>1, <1>3, <1>a, <2>1, <2>2, CaptureLooked
<1> QED
  BY <1>4, <1>5, <1>6, <1>7, <1>8

\* Every step keeps the invariant.
LEMMA CaptureStepInv == ASSUME CaptureBounds, Capture!IInv, [Capture!Next]_Capture!vars PROVE Capture!IInv'
<1>1. CASE UNCHANGED Capture!vars
  <2>1. UNCHANGED Capture!unread /\ UNCHANGED r6
    BY <1>1 DEF Capture!vars, Capture!unread, Capture!files
  <2> QED
    BY <2>1, CaptureTyped, CaptureRead DEF Capture!IInv, CaptureReaderTyping, Capture!ExportInv,
         Capture!unread, Capture!files
<1> QED
  BY <1>1, CapturePlans, CaptureOperates, CaptureExported, CaptureLooking DEF Capture!Next

\* An export's frames are of the capture that it took its header for; what is reported is so.
LEMMA CaptureTold == ASSUME CaptureBounds, Capture!IInv
     PROVE Capture!ExportIsOneCapture /\ Capture!OutputIsTrue
<1>1. Capture!ExportIsOneCapture
  BY DEF Capture!IInv, Capture!ExportInv, Capture!ExportIsOneCapture
<1>2. ASSUME r7.pc = "report", r8, r2 = <<>>
      PROVE  /\ r7.status = Capture!stream /\ (r7.params = 0 <=> Capture!stream = "closed")
             /\ Capture!stream # "closed" => r7.params = r5.params
  BY <1>2, CaptureRests DEF Capture!IInv, Capture!LookInv, Capture!Writes, Capture!Running, Capture!Ended,
       Capture!stream
<1> QED
  BY <1>1, <1>2 DEF Capture!OutputIsTrue

(* ----------------------- the setup of the user's data ----------------------- *)
\* Its variables: r1 is db, r2 is locked, r3 is player, r4 is setup, r5 is chosen, r6 is count.

\* The invariant holds initially.
LEMMA SetupInitInv == ASSUME Setup!Init PROVE Setup!IInv
<1>a. r4 \in [pc : Setup!Pcs, fresh : BOOLEAN, tries : 0..2, named : BOOLEAN]
  BY DEF Setup!Init, Setup!Idle, Setup!Pcs
<1>b. r6 \in [setups : Nat, choices : Nat] /\ r5 \in [Setup!Columns -> Menu \union {0}]
  BY DEF Setup!Init
<1>c. /\ r1 \in [state : {"none", "file", "table", "primed"},
                 row : [Setup!Columns -> Menu \union {0, Setup!Wizard}]]
      /\ r2 \in BOOLEAN /\ r3 \in {"off", "priming", "running"}
  BY DEF Setup!Init, Setup!None
<1>1. Setup!Types
  BY <1>a, <1>b, <1>c DEF Setup!Types, Setup!TypeOK, Setup!Pcs
<1>2. Setup!PlaceInv /\ Setup!ChoiceInv /\ Setup!NoWizard
  BY DEF Setup!Init, Setup!PlaceInv, Setup!ChoiceInv, Setup!NoWizard, Setup!Idle
<1> QED
  BY <1>1, <1>2 DEF Setup!IInv

SetupStates == {"none", "file", "table", "primed"}
SetupRows == [Setup!Columns -> Menu \union {0, Setup!Wizard}]

\* Every step keeps it: no step of a setup leaves the wizard where the player starts.
LEMMA SetupStepInv ==
  ASSUME Preset \in Menu, Menu # {Preset}, 0 \notin Menu, Setup!Wizard \notin Menu, Setup!IInv,
       [Setup!Next]_Setup!vars
  PROVE  Setup!IInv'
<1>a. /\ r1 \in [state : SetupStates, row : SetupRows] /\ r1.row \in SetupRows /\ r1.state \in SetupStates
      /\ r2 \in BOOLEAN /\ r3 \in {"off", "priming", "running"} /\ r5 \in [Setup!Columns -> Menu \union {0}]
      /\ r4 \in [pc : Setup!Pcs, fresh : BOOLEAN, tries : 0..2, named : BOOLEAN]
           /\ r6 \in [setups : Nat, choices : Nat]
  BY DEF Setup!IInv, Setup!Types, Setup!TypeOK, SetupStates, SetupRows
<1>b. ASSUME r1' \in [state : SetupStates, row : SetupRows], r2' \in BOOLEAN, r3' \in {"off", "priming",
     "running"},
             r5' \in [Setup!Columns -> Menu \union {0}], r6' \in [setups : Nat, choices : Nat],
             r4' \in [pc : Setup!Pcs, fresh : BOOLEAN, tries : 0..2, named : BOOLEAN]
      PROVE  Setup!Types'
  BY <1>b DEF Setup!Types, Setup!TypeOK, SetupStates, SetupRows, Setup!Pcs
<1>c. ASSUME NEW pc \in Setup!Pcs, Setup!Setup(pc)
      PROVE  /\ r4' \in [pc : Setup!Pcs, fresh : BOOLEAN, tries : 0..2, named : BOOLEAN]
             /\ r4'.pc = pc /\ r4'.fresh = r4.fresh /\ r4'.tries = r4.tries
  BY <1>a, <1>c DEF Setup!Setup
<1>1. CASE Setup!Creates
  <2>1. UNCHANGED <<r2, r3, r4, r5, r6>> /\ r4.pc = "wait"
    BY <1>1 DEF Setup!Creates, Setup!IInv, Setup!PlaceInv
  <2>2. r1' \in [state : SetupStates, row : SetupRows]
    <3>1. r1.state \in {"none", "file", "table"}
      BY <1>1, <1>a DEF Setup!Creates, SetupStates
    <3>2. CASE r1.state = "none"
      BY <1>1, <1>a, <3>2 DEF Setup!Creates, SetupStates
    <3>3. CASE r1.state = "file"
      BY <1>1, <1>a, <3>3 DEF Setup!Creates, SetupStates
    <3>4. CASE r1.state = "table"
      <4> DEFINE R == [c \in Setup!Columns |->
                      IF c = "LANGUAGE" THEN Setup!Wizard ELSE CHOOSE m \in Menu : m # Preset]
      <4>1. (CHOOSE m \in Menu : m # Preset) \in Menu
        OBVIOUS
      <4>2. R \in SetupRows
        BY <4>1 DEF SetupRows
      <4>3. r1' = [state |-> "primed", row |-> R]
        BY <1>1, <3>4 DEF Setup!Creates
      <4> HIDE DEF R
      <4> QED
        BY <4>2, <4>3 DEF SetupStates
    <3> QED
      BY <3>1, <3>2, <3>3, <3>4
  <2>3. \A c \in Setup!Columns : r5[c] = 0
    BY <2>1 DEF Setup!IInv, Setup!ChoiceInv
  <2> QED
    BY <1>a, <1>b, <2>1, <2>2, <2>3 DEF Setup!IInv, Setup!PlaceInv, Setup!ChoiceInv, Setup!NoWizard
<1>2. CASE Setup!Boot
  BY <1>2, <1>a, <1>b DEF Setup!Boot, Setup!IInv, Setup!PlaceInv, Setup!ChoiceInv, Setup!NoWizard
<1>3. ASSUME NEW c \in Setup!Columns, Setup!Choose(c) PROVE Setup!IInv'
  <2>1. PICK value \in Menu : /\ r1' = [r1 EXCEPT !.row = [r1.row EXCEPT ![c] = value]]
                              /\ r5' = [r5 EXCEPT ![c] = value]
    BY <1>3 DEF Setup!Choose
  <2>2. UNCHANGED <<r2, r3, r4>> /\ r3 = "running" /\ r6' = [r6 EXCEPT !.choices = @ + 1]
    BY <1>3 DEF Setup!Choose
  <2>3. [r1.row EXCEPT ![c] = value] \in SetupRows /\ r5' \in [Setup!Columns -> Menu \union {0}]
    BY <1>a, <2>1 DEF SetupRows
  <2>4. /\ r1' \in [state : SetupStates, row : SetupRows] /\ r1'.state = "primed" /\ r1'.row[c] = value
        /\ \A d \in Setup!Columns \ {c} : r1'.row[d] = r1.row[d]
    BY <1>a, <2>1, <2>2, <2>3 DEF SetupRows, Setup!IInv, Setup!PlaceInv
  <2>5. r6' \in [setups : Nat, choices : Nat]
    BY <1>a, <2>2
  <2>6. Setup!Types'
    BY <1>a, <1>b, <2>2, <2>3, <2>4, <2>5
  <2>7. Setup!PlaceInv'
    BY <2>2, <2>4 DEF Setup!IInv, Setup!PlaceInv
  <2>8. Setup!ChoiceInv'
    BY <1>a, <2>1, <2>2, <2>4 DEF Setup!IInv, Setup!PlaceInv, Setup!ChoiceInv
  <2>9. Setup!NoWizard'
    <3>1. CASE c = "LANGUAGE"
      BY <2>1, <2>2, <2>4, <3>1 DEF Setup!IInv, Setup!NoWizard
    <3>2. CASE c # "LANGUAGE"
      <4>1. "LANGUAGE" \in Setup!Columns
        BY DEF Setup!Columns
      <4> QED
        BY <2>2, <2>4, <3>2, <4>1 DEF Setup!IInv, Setup!NoWizard
    <3> QED
      BY <3>1, <3>2
  <2> QED
    BY <2>6, <2>7, <2>8, <2>9 DEF Setup!IInv
<1>4. CASE Setup!Off \/ Setup!Lock
  BY <1>4, <1>a, <1>b DEF Setup!Off, Setup!Lock, Setup!IInv, Setup!PlaceInv, Setup!ChoiceInv, Setup!NoWizard
<1>5. CASE Setup!Starts
  <2>1. PICK named \in BOOLEAN : r4' = [Setup!Idle EXCEPT !.pc = "look", !.named = named]
    BY <1>5 DEF Setup!Starts
  <2>2. /\ r4' \in [pc : Setup!Pcs, fresh : BOOLEAN, tries : 0..2, named : BOOLEAN]
        /\ r4'.pc = "look" /\ ~r4'.fresh /\ r4'.tries = 0
    <3>1. r4' = [pc |-> "look", fresh |-> FALSE, tries |-> 0, named |-> named]
      BY <2>1 DEF Setup!Idle
    <3>2. "look" \in Setup!Pcs
      BY DEF Setup!Pcs
    <3> QED
      BY <3>1, <3>2
  <2>3. UNCHANGED <<r1, r2, r3, r5>> /\ r6' \in [setups : Nat, choices : Nat]
    BY <1>5, <1>a DEF Setup!Starts
  <2> QED
    BY <1>5, <1>a, <1>b, <2>2, <2>3 DEF Setup!Starts, Setup!IInv, Setup!PlaceInv, Setup!ChoiceInv,
         Setup!NoWizard
<1>6. CASE Setup!Look
  <2>1. UNCHANGED <<r1, r2, r3, r5, r6>>
    BY <1>6 DEF Setup!Look
  <2>2. CASE Setup!priming = "primed"
    <3>1. /\ r4' \in [pc : Setup!Pcs, fresh : BOOLEAN, tries : 0..2, named : BOOLEAN]
          /\ r4'.pc = "apply" /\ ~r4'.fresh
      BY <1>6, <1>a, <2>2 DEF Setup!Look, Setup!IInv, Setup!PlaceInv, Setup!Pcs
    <3> QED
      BY <1>6, <1>a, <1>b, <2>1, <3>1 DEF Setup!Look, Setup!IInv, Setup!PlaceInv, Setup!ChoiceInv,
           Setup!NoWizard
  <2>3. CASE Setup!priming = "unprimed"
    <3>1. /\ r4' \in [pc : Setup!Pcs, fresh : BOOLEAN, tries : 0..2, named : BOOLEAN]
          /\ r4'.pc = "prime" /\ r4'.tries = 0
      BY <1>6, <1>a, <2>3 DEF Setup!Look, Setup!IInv, Setup!PlaceInv, Setup!Pcs
    <3>2. r1.state # "primed"
      BY <2>3 DEF Setup!priming
    <3> QED
      BY <1>6, <1>a, <1>b, <2>1, <3>1, <3>2 DEF Setup!Look, Setup!IInv, Setup!PlaceInv, Setup!ChoiceInv,
           Setup!NoWizard
  <2>4. CASE Setup!priming = "error"
    <3>1. r4' \in [pc : Setup!Pcs, fresh : BOOLEAN, tries : 0..2, named : BOOLEAN] /\ r4'.pc = "stopped"
      BY <1>6, <1>a, <2>4 DEF Setup!Look, Setup!IInv, Setup!PlaceInv, Setup!Pcs
    <3> QED
      BY <1>6, <1>a, <1>b, <2>1, <3>1 DEF Setup!Look, Setup!IInv, Setup!PlaceInv, Setup!ChoiceInv,
           Setup!NoWizard
  <2> QED
    BY <1>a, <2>2, <2>3, <2>4 DEF Setup!priming
<1>7. CASE Setup!prime_db
  <2>1. /\ r4' \in [pc : Setup!Pcs, fresh : BOOLEAN, tries : 0..2, named : BOOLEAN] /\ r4'.pc = "wait"
    <3>1. r4.tries + 1 \in 0..2 /\ r4' = [r4 EXCEPT !.pc = "wait", !.tries = r4.tries + 1]
      BY <1>7, <1>a DEF Setup!prime_db, Setup!IInv, Setup!PlaceInv
    <3>2. "wait" \in Setup!Pcs
      BY DEF Setup!Pcs
    <3> QED
      BY <1>a, <3>1, <3>2
  <2>2. r1' \in [state : SetupStates, row : SetupRows]
    BY <1>7 DEF Setup!prime_db, Setup!None, SetupStates, SetupRows
  <2>3. r3' = "priming" /\ UNCHANGED <<r2, r6>> /\ r5' = [c \in Setup!Columns |-> 0]
    BY <1>7 DEF Setup!prime_db
  <2> QED
    BY <1>a, <1>b, <2>1, <2>2, <2>3 DEF Setup!IInv, Setup!PlaceInv, Setup!ChoiceInv, Setup!NoWizard
<1>8. CASE Setup!kill_guest
  <2>1. UNCHANGED <<r1, r2, r5, r6>> /\ r3' = "off" /\ r4.pc = "wait"
    BY <1>8 DEF Setup!kill_guest
  <2>2. PICK pc \in {"apply", "prime", "stopped"} : Setup!Setup(pc) /\ (pc = "prime" => r4.tries < 2)
    BY <1>8 DEF Setup!kill_guest
  <2>3. pc \in Setup!Pcs
    BY DEF Setup!Pcs
  <2>4. /\ r4' \in [pc : Setup!Pcs, fresh : BOOLEAN, tries : 0..2, named : BOOLEAN] /\ r4'.pc = pc
        /\ r4'.tries = r4.tries
    BY <1>c, <2>2, <2>3
  <2> QED
    BY <1>a, <1>b, <2>1, <2>2, <2>4 DEF Setup!IInv, Setup!PlaceInv, Setup!ChoiceInv, Setup!NoWizard
<1>9. CASE Setup!apply
  <2>1. UNCHANGED <<r2, r3, r6>> /\ r3 = "off" /\ r4.pc = "apply"
    BY <1>9 DEF Setup!apply
  <2>2. CASE Setup!priming # "primed"
    <3>1. Setup!Setup("stopped") /\ UNCHANGED <<r1, r5>>
      BY <1>9, <2>2 DEF Setup!apply
    <3>2. "stopped" \in Setup!Pcs
      BY DEF Setup!Pcs
    <3> QED
      BY <1>a, <1>b, <1>c, <2>1, <3>1, <3>2 DEF Setup!IInv, Setup!PlaceInv, Setup!ChoiceInv, Setup!NoWizard
  <2>3. CASE Setup!priming = "primed"
    <3> DEFINE written == Setup!profile_values \union (IF r4.named THEN Setup!Columns ELSE {})
               row == [c \in Setup!Columns |-> IF c \in written THEN Preset ELSE r1.row[c]]
    <3>1. /\ r1' = [r1 EXCEPT !.row = row]
          /\ r5' = [c \in Setup!Columns |-> IF r4.named THEN 0 ELSE r5[c]]
          /\ Setup!Setup("done")
      BY <1>9, <2>3 DEF Setup!apply
    <3>2. row \in SetupRows
      BY <1>a DEF SetupRows
    <3>3. r5' \in [Setup!Columns -> Menu \union {0}]
      BY <1>a, <3>1
    <3>4. "done" \in Setup!Pcs /\ r1.state = "primed"
      BY <2>3 DEF Setup!Pcs, Setup!priming
    <3>5. row["LANGUAGE"] # Setup!Wizard
      <4>1. "LANGUAGE" \in Setup!Columns /\ Preset # Setup!Wizard
        BY DEF Setup!Columns
      <4>2. CASE "LANGUAGE" \in written
        BY <4>1, <4>2
      <4>3. CASE "LANGUAGE" \notin written
        <5>1. r1.row["LANGUAGE"] \in Menu
          BY <4>1, <4>3 DEF Setup!profile_values
        <5> QED
          BY <4>1, <4>3, <5>1
      <4> QED
        BY <4>2, <4>3
    <3>6. ASSUME NEW c \in Setup!Columns, ~r4.named, r5[c] # 0 PROVE row[c] = r5[c]
      <4>1. r5[c] \in Menu /\ r1.row[c] = r5[c] /\ ~r4.fresh
        BY <1>a, <2>1, <3>6 DEF Setup!IInv, Setup!ChoiceInv
      <4>2. c \notin written
        BY <3>6, <4>1 DEF Setup!profile_values
      <4> QED
        BY <4>1, <4>2
    <3> HIDE DEF row, written
    <3>7. r1' \in [state : SetupStates, row : SetupRows] /\ r1'.state = "primed" /\ r1'.row = row
      BY <1>a, <3>1, <3>2, <3>4
    <3>8. r4' \in [pc : Setup!Pcs, fresh : BOOLEAN, tries : 0..2, named : BOOLEAN] /\ r4'.pc = "done"
      BY <1>c, <3>1, <3>4
    <3>9. Setup!Types'
      BY <1>a, <1>b, <2>1, <3>3, <3>7, <3>8
    <3>10. \A c \in Setup!Columns : r5'[c] # 0 => r1'.row[c] = r5'[c]
      BY <3>1, <3>6, <3>7
    <3> QED
      BY <2>1, <3>5, <3>7, <3>8, <3>9, <3>10 DEF Setup!IInv, Setup!PlaceInv, Setup!ChoiceInv, Setup!NoWizard
  <2> QED
    BY <2>2, <2>3
<1>10. CASE Setup!Killed
  <2>1. UNCHANGED <<r1, r2, r5, r6>> /\ r3' = "off" /\ r4' = Setup!Idle
    BY <1>10 DEF Setup!Killed
  <2>2. r4' \in [pc : Setup!Pcs, fresh : BOOLEAN, tries : 0..2, named : BOOLEAN] /\ r4'.pc = "idle"
    BY <2>1 DEF Setup!Idle, Setup!Pcs
  <2> QED
    BY <1>a, <1>b, <2>1, <2>2 DEF Setup!IInv, Setup!PlaceInv, Setup!ChoiceInv, Setup!NoWizard
<1>11. CASE UNCHANGED Setup!vars
  BY <1>11, <1>a, <1>b DEF Setup!vars, Setup!IInv, Setup!PlaceInv, Setup!ChoiceInv, Setup!NoWizard
<1> QED
  BY <1>1, <1>2, <1>3, <1>4, <1>5, <1>6, <1>7, <1>8, <1>9, <1>10, <1>11 DEF Setup!Next

\* No step of a setup that does not name a column touches what the user has saved in it.
LEMMA SetupKept ==
  ASSUME Preset \in Menu, Menu # {Preset}, 0 \notin Menu, Setup!Wizard \notin Menu, Setup!IInv,
       [Setup!Next]_Setup!vars
  PROVE  Setup!Keeps
<1> SUFFICES ASSUME NEW c \in Setup!Columns, r5[c] # 0, ~r4.named, r3 # "running"
             PROVE  r1'.row[c] = r5[c] /\ r1'.state = "primed"
  BY DEF Setup!Keeps
<1>1. Setup!IInv'
  BY SetupStepInv
<1>2. r5'[c] = r5[c]
  <2>1. ~Setup!prime_db
    BY DEF Setup!prime_db, Setup!IInv, Setup!ChoiceInv
  <2>2. \A d \in Setup!Columns : ~Setup!Choose(d)
    BY DEF Setup!Choose
  <2>3. CASE Setup!apply
    BY <2>3 DEF Setup!apply
  <2> QED
    BY <2>1, <2>2, <2>3 DEF Setup!Next, Setup!vars, Setup!Creates, Setup!Boot, Setup!Off, Setup!Lock,
         Setup!Starts, Setup!Look, Setup!kill_guest, Setup!Killed
<1> QED
  BY <1>1, <1>2 DEF Setup!IInv, Setup!ChoiceInv

(* ------------------------- the readiness of a boot -------------------------- *)
\* Its variables: r1 is proc, r2 is flush, r3 is boot, r4 is wait.

\* The invariant holds initially.
LEMMA ReadyInitInv == ASSUME MaxBoots \in Nat, BootReady!Init PROVE BootReady!IInv
BY DEF BootReady!Init, BootReady!IInv, BootReady!Types, BootReady!TypeOK, BootReady!FlushInv,
     BootReady!WaitInv, BootReady!Dead, BootReady!NoFlush, BootReady!NoWait

\* A process that starts has a PID of its own.
LEMMA ReadyStarted ==
  ASSUME 0 \notin Pids, BootReady!IInv, NEW p \in Processes, BootReady!Start(p) PROVE BootReady!IInv'
<1>1. PICK program \in BootReady!Programs, pid \in Pids :
        /\ \A q \in Processes : r1[q].pid # pid
        /\ r1' = [r1 EXCEPT ![p] = [program |-> program, pid |-> pid, holds |-> FALSE]]
  BY DEF BootReady!Start
<1>2. BootReady!Types' /\ UNCHANGED <<r2, r3, r4>> /\ program # "none" /\ pid # 0 /\ program # "gone"
  BY <1>1 DEF BootReady!Start, BootReady!IInv, BootReady!Types, BootReady!TypeOK, BootReady!Programs
<1>3. /\ r1'[p].pid = pid /\ r1'[p].program = program /\ r1[p].program = "none" /\ r1[p].pid = 0
      /\ \A q \in Processes \ {p} : r1'[q] = r1[q]
  BY <1>1 DEF BootReady!Start, BootReady!IInv, BootReady!Types, BootReady!TypeOK, BootReady!FlushInv
<1>4. BootReady!FlushInv'
  BY <1>1, <1>2, <1>3 DEF BootReady!IInv, BootReady!FlushInv
<1>5. BootReady!WaitInv'
  BY <1>2, <1>3 DEF BootReady!IInv, BootReady!Types, BootReady!WaitInv
<1> QED
  BY <1>2, <1>4, <1>5 DEF BootReady!IInv

\* One that opens its device or dies keeps its PID, and is what it was or gone.
LEMMA ReadyChanged ==
  ASSUME BootReady!IInv, NEW p \in Processes, BootReady!Opens(p) \/ BootReady!Crash(p) PROVE BootReady!IInv'
<1> DEFINE R == [program : BootReady!Programs \union {"none", "gone"}, pid : Pids \union {0},
                 holds : BOOLEAN]
<1>a. r1 \in [Processes -> R] /\ UNCHANGED <<r2, r3, r4>>
  BY DEF BootReady!Opens, BootReady!Crash, BootReady!IInv, BootReady!Types, BootReady!TypeOK
<1>c. r1' \in [Processes -> R]
  <2>1. r1[p] \in R
    BY <1>a
  <2>2. CASE BootReady!Opens(p)
    <3>1. r1' = [r1 EXCEPT ![p] = [r1[p] EXCEPT !.holds = TRUE]]
      BY <2>2 DEF BootReady!Opens
    <3>2. [r1[p] EXCEPT !.holds = TRUE] \in R
      BY <2>1
    <3> QED
      BY <1>a, <3>1, <3>2
  <2>3. CASE BootReady!Crash(p)
    <3>1. r1' = [r1 EXCEPT ![p] = [r1[p] EXCEPT !.program = "gone", !.holds = FALSE]]
      BY <2>3 DEF BootReady!Crash
    <3>2. [r1[p] EXCEPT !.program = "gone", !.holds = FALSE] \in R
      BY <2>1
    <3> QED
      BY <1>a, <3>1, <3>2
  <2> QED
    BY <2>2, <2>3
<1>1. BootReady!Types' /\ UNCHANGED <<r2, r3, r4>>
  BY <1>a, <1>c DEF BootReady!IInv, BootReady!Types, BootReady!TypeOK
<1>2. /\ r1'[p].pid = r1[p].pid /\ r1'[p].program \in {r1[p].program, "gone"} /\ r1[p].program # "none"
      /\ \A q \in Processes \ {p} : r1'[q] = r1[q]
  BY DEF BootReady!Opens, BootReady!Crash, BootReady!IInv, BootReady!Types, BootReady!TypeOK,
       BootReady!Programs
<1>3. BootReady!FlushInv'
  BY <1>1, <1>2 DEF BootReady!IInv, BootReady!FlushInv
<1>4. BootReady!WaitInv'
  BY <1>1, <1>2 DEF BootReady!IInv, BootReady!WaitInv, BootReady!Types
<1> QED
  BY <1>1, <1>3, <1>4 DEF BootReady!IInv

\* Every step keeps it: who holds the framebuffer, and what the flush says of it, agree.
LEMMA ReadyStepInv == ASSUME 0 \notin Pids, MaxBoots \in Nat, BootReady!IInv,
     [BootReady!Next]_BootReady!vars PROVE BootReady!IInv'
<1>1. CASE BootReady!PowerOn
  BY <1>1 DEF BootReady!PowerOn, BootReady!IInv, BootReady!Types, BootReady!TypeOK, BootReady!FlushInv,
       BootReady!WaitInv, BootReady!Dead, BootReady!NoFlush, BootReady!NoWait
<1>2. ASSUME NEW p \in Processes, BootReady!Start(p) \/ BootReady!Opens(p) \/ BootReady!Crash(p)
     PROVE BootReady!IInv'
  BY <1>2, ReadyStarted, ReadyChanged
<1>3. ASSUME NEW p \in Processes, BootReady!Flushes(p) PROVE BootReady!IInv'
  <2>1. BootReady!Types' /\ UNCHANGED <<r1, r3, r4>>
    BY <1>3 DEF BootReady!Flushes, BootReady!IInv, BootReady!Types, BootReady!TypeOK, BootReady!Programs
  <2>2. r1[p].pid # 0 /\ r1[p].pid \in Pids \union {0} /\ r2'.boot = r3 /\ r2'.pid = r1[p].pid
          /\ r2'.program = r1[p].program
    BY <1>3 DEF BootReady!Flushes, BootReady!IInv, BootReady!Types, BootReady!TypeOK, BootReady!FlushInv,
         BootReady!Programs
  <2>3. BootReady!FlushInv'
    BY <2>1, <2>2 DEF BootReady!IInv, BootReady!FlushInv
  <2> QED
    BY <2>1, <2>2, <2>3 DEF BootReady!IInv, BootReady!WaitInv
<1>4. CASE BootReady!holders
  <2>1. BootReady!Types' /\ UNCHANGED <<r1, r2, r3>>
    BY <1>4 DEF BootReady!holders, BootReady!IInv, BootReady!Types, BootReady!TypeOK, BootReady!Holding
  <2>2. BootReady!FlushInv'
    BY <2>1 DEF BootReady!IInv, BootReady!FlushInv
  <2>a. ASSUME UNCHANGED r4 PROVE BootReady!WaitInv'
    BY <2>1, <2>a DEF BootReady!IInv, BootReady!WaitInv
  <2>b. ASSUME r4' = [r4 EXCEPT !.pc = "flusher", !.holders = BootReady!Holding("mq_ui")]
       PROVE BootReady!WaitInv'
    <3>1. r4'.pc = "flusher" /\ r4'.holders = BootReady!Holding("mq_ui")
      BY <2>b DEF BootReady!IInv, BootReady!Types
    <3> QED
      BY <2>1, <3>1 DEF BootReady!WaitInv, BootReady!Holding
  <2>3. BootReady!WaitInv'
    BY <1>4, <2>a, <2>b DEF BootReady!holders
  <2> QED
    BY <2>1, <2>2, <2>3 DEF BootReady!IInv
<1>5. CASE BootReady!flusher \/ BootReady!wait_ready
  <2>1. BootReady!Types' /\ UNCHANGED <<r1, r2, r3>>
    BY <1>5 DEF BootReady!flusher, BootReady!wait_ready, BootReady!IInv, BootReady!Types, BootReady!TypeOK,
         BootReady!NoWait
  <2>2. BootReady!FlushInv'
    BY <2>1 DEF BootReady!IInv, BootReady!FlushInv
  <2>3. BootReady!WaitInv'
    BY <1>5, <2>1 DEF BootReady!flusher, BootReady!wait_ready, BootReady!IInv, BootReady!WaitInv,
         BootReady!Types, BootReady!NoWait
  <2> QED
    BY <2>1, <2>2, <2>3 DEF BootReady!IInv
<1>6. CASE UNCHANGED BootReady!vars
  BY <1>6 DEF BootReady!vars, BootReady!IInv, BootReady!Types, BootReady!TypeOK, BootReady!FlushInv,
       BootReady!WaitInv
<1> QED
  BY <1>1, <1>2, <1>3, <1>4, <1>5, <1>6 DEF BootReady!Next

\* The UI that holds its device has drawn: the process with the marker's PID is one of those.
LEMMA ReadyDrawn == ASSUME 0 \notin Pids, BootReady!IInv, [BootReady!Next]_BootReady!vars
     PROVE BootReady!DrawnBefore
<1> SUFFICES ASSUME r4'.pc = "ready", r4.pc = "compare"
     PROVE /\ \E p \in r4.holders : r1[p].pid = r4.flusher
    /\ r2.boot = r3 /\ (r2.pid = r4.flusher => r2.program = "mq_ui")
  BY DEF BootReady!DrawnBefore
<1>1. BootReady!wait_ready /\ BootReady!ready
  BY DEF BootReady!Next, BootReady!vars, BootReady!PowerOn, BootReady!holders, BootReady!flusher,
       BootReady!wait_ready, BootReady!Start, BootReady!Opens, BootReady!Crash, BootReady!Flushes,
       BootReady!NoWait
<1>2. PICK p \in r4.holders : r1[p].program \in BootReady!Programs /\ r1[p].pid = r4.flusher
  BY <1>1 DEF BootReady!ready
<1>3. p \in Processes /\ r1[p].program = "mq_ui" /\ r2.pid # 0 /\ r2.boot = r3
  BY <1>2 DEF BootReady!IInv, BootReady!Types, BootReady!FlushInv, BootReady!WaitInv, BootReady!Programs
<1>4. ASSUME r2.pid = r4.flusher PROVE r2.program = "mq_ui"
  <2>1. PICK q \in Processes : r1[q].pid = r2.pid /\ r1[q].program \in {r2.program, "gone"}
    BY <1>3 DEF BootReady!IInv, BootReady!FlushInv
  <2>2. q = p
    BY <1>2, <1>3, <1>4, <2>1 DEF BootReady!IInv, BootReady!FlushInv
  <2> QED
    BY <1>3, <2>1, <2>2
<1> QED
  BY <1>2, <1>3, <1>4

(* ---------------------------- the power watcher ----------------------------- *)
\* Its variables: r1 is watch, r2 is file, r3 is guest, r4 is marker, r5 is call, r6 is count.

WatcherRecord == [pc : {"none", "born", "loop", "drain", "gone"}, term : BOOLEAN,
                  thread : {"none", "term", "kill"}, noted : BOOLEAN]

\* The invariant holds initially.
LEMMA WatchInitInv == ASSUME PowerWatch!Init PROVE PowerWatch!IInv
<1>1. \A w \in Watchers : r1[w] = PowerWatch!Never /\ ~PowerWatch!Alive(w)
  BY DEF PowerWatch!Init, PowerWatch!Never, PowerWatch!Alive
<1>2. PowerWatch!Types
  BY DEF PowerWatch!Init, PowerWatch!Types, PowerWatch!TypeOK, PowerWatch!Never
<1>3. PowerWatch!AliveInv
  BY <1>1 DEF PowerWatch!Init, PowerWatch!AliveInv
<1>4. PowerWatch!CountInv
  BY <1>1 DEF PowerWatch!Init, PowerWatch!CountInv, PowerWatch!Never
<1> QED
  BY <1>2, <1>3, <1>4 DEF PowerWatch!IInv

\* The operator knows of a watcher that is alive, unless it waits for one to begin.
LEMMA WatchKnown ==
  ASSUME "none" \notin Watchers, PowerWatch!IInv, r5.pc # "wait"
  PROVE  /\ PowerWatch!running_pid = "none" => \A w \in Watchers : ~PowerWatch!Alive(w)
         /\ PowerWatch!running_pid # "none" => PowerWatch!running_pid \in Watchers
              /\ PowerWatch!Alive(PowerWatch!running_pid)
BY DEF PowerWatch!running_pid, PowerWatch!IInv, PowerWatch!AliveInv

\* A step that makes nobody alive.
LEMMA WatchFewer ==
  ASSUME PowerWatch!IInv, \A w \in Watchers : PowerWatch!Alive(w)' => PowerWatch!Alive(w), UNCHANGED <<r2,
       r5>>
  PROVE  PowerWatch!AliveInv'
BY DEF PowerWatch!IInv, PowerWatch!AliveInv

\* What a step of a watcher changes in its record.
LEMMA WatchChanges ==
  ASSUME PowerWatch!IInv, NEW w \in Watchers, NEW r \in WatcherRecord, r1' = [r1 EXCEPT ![w] = r]
  PROVE  /\ r1' \in [Watchers -> WatcherRecord] /\ r1'[w] = r
         /\ \A v \in Watchers \ {w} : r1'[v] = r1[v]
BY DEF PowerWatch!IInv, PowerWatch!Types, PowerWatch!TypeOK, WatcherRecord

\* Every step of a watcher keeps the invariant,
LEMMA WatchStepsInv == ASSUME "none" \notin Watchers, PowerWatch!IInv, NEW w \in Watchers,
     PowerWatch!Step(w) PROVE PowerWatch!IInv'
<1>a. r1 \in [Watchers -> WatcherRecord] /\ r1[w] \in WatcherRecord
  BY DEF PowerWatch!IInv, PowerWatch!Types, PowerWatch!TypeOK, WatcherRecord
<1>1. CASE PowerWatch!Begin(w)
  <2>1. PICK r \in WatcherRecord : r1' = [r1 EXCEPT ![w] = r] /\ r = [r1[w] EXCEPT !.pc = "loop"]
    BY <1>1, <1>a DEF PowerWatch!Begin, PowerWatch!Watch, WatcherRecord
  <2>2. r.pc = "loop" /\ ~r.noted /\ PowerWatch!Alive(w)
    BY <1>1, <1>a, <2>1 DEF PowerWatch!Begin, PowerWatch!IInv, PowerWatch!CountInv, WatcherRecord,
         PowerWatch!Alive
  <2>3. PowerWatch!Types' /\ r2'.pid = w /\ r2'.served = r2.served /\ UNCHANGED <<r5, r6>>
    BY <1>1, <2>1, WatchChanges DEF PowerWatch!Begin, PowerWatch!IInv, PowerWatch!Types, PowerWatch!TypeOK,
         WatcherRecord
  <2>4. \A v \in Watchers : PowerWatch!Alive(v)' => PowerWatch!Alive(v)
    BY <2>1, <2>2, WatchChanges DEF PowerWatch!Alive
  <2>5. PowerWatch!AliveInv'
    BY <2>2, <2>3, <2>4 DEF PowerWatch!IInv, PowerWatch!AliveInv
  <2>6. PowerWatch!CountInv'
    BY <2>1, <2>2, <2>3, WatchChanges DEF PowerWatch!IInv, PowerWatch!CountInv
  <2> QED
    BY <2>3, <2>5, <2>6 DEF PowerWatch!IInv
<1>2. CASE PowerWatch!service_requests(w)
  <2>1. PICK t \in {"none", "term"} : r1' = [r1 EXCEPT ![w] = [r1[w] EXCEPT !.thread = t]]
    BY <1>2 DEF PowerWatch!service_requests
  <2>2. PICK r \in WatcherRecord : r1' = [r1 EXCEPT ![w] = r] /\ r = [r1[w] EXCEPT !.thread = t]
    BY <1>a, <2>1 DEF WatcherRecord
  <2>3. r.pc = "loop" /\ r1[w].pc = "loop" /\ ~r.noted
    BY <1>2, <1>a, <2>2 DEF PowerWatch!service_requests, WatcherRecord
  <2>a. UNCHANGED <<r2, r3, r5, r6>> /\ r4' = FALSE
    BY <1>2 DEF PowerWatch!service_requests
  <2>4. PowerWatch!Types' /\ UNCHANGED <<r2, r5, r6>>
    BY <2>a, <2>2, WatchChanges DEF PowerWatch!IInv, PowerWatch!Types, PowerWatch!TypeOK, WatcherRecord
  <2>5. PowerWatch!AliveInv'
    BY <2>2, <2>3, <2>4, WatchChanges, WatchFewer DEF PowerWatch!Alive
  <2>6. PowerWatch!CountInv'
    BY <2>2, <2>3, <2>4, WatchChanges DEF PowerWatch!IInv, PowerWatch!CountInv
  <2> QED
    BY <2>4, <2>5, <2>6 DEF PowerWatch!IInv
<1>3. CASE PowerWatch!Power(w)
  <2>1. PICK r \in WatcherRecord : r1' = [r1 EXCEPT ![w] = r] /\ r.pc = r1[w].pc
    <3>1. CASE r1' = [r1 EXCEPT ![w] = [r1[w] EXCEPT !.thread = "kill"]]
      <4>1. [r1[w] EXCEPT !.thread = "kill"] \in WatcherRecord
              /\ [r1[w] EXCEPT !.thread = "kill"].pc = r1[w].pc
        BY <1>a DEF WatcherRecord
      <4> QED
        BY <3>1, <4>1
    <3>2. CASE r1' = [r1 EXCEPT ![w] = [r1[w] EXCEPT !.thread = "none", !.noted = TRUE]]
      <4>1. /\ [r1[w] EXCEPT !.thread = "none", !.noted = TRUE] \in WatcherRecord
            /\ [r1[w] EXCEPT !.thread = "none", !.noted = TRUE].pc = r1[w].pc
        BY <1>a DEF WatcherRecord
      <4> QED
        BY <3>2, <4>1
    <3>3. \/ r1' = [r1 EXCEPT ![w] = [r1[w] EXCEPT !.thread = "kill"]]
          \/ r1' = [r1 EXCEPT ![w] = [r1[w] EXCEPT !.thread = "none", !.noted = TRUE]]
      BY <1>3, <1>a DEF PowerWatch!Power, WatcherRecord
    <3> QED
      BY <3>1, <3>2, <3>3
  <2>2. r1[w].pc # "born"
    BY <1>3 DEF PowerWatch!Power, PowerWatch!IInv, PowerWatch!CountInv
  <2>3. r6' \in [calls : Nat, asks : Nat, served : Nat] /\ r3' \in {"half", "off"}
          /\ UNCHANGED <<r2, r5, r4>>
    BY <1>3 DEF PowerWatch!Power, PowerWatch!IInv, PowerWatch!Types
  <2>4. PowerWatch!Types'
    BY <2>1, <2>3, WatchChanges DEF PowerWatch!IInv, PowerWatch!Types, PowerWatch!TypeOK, WatcherRecord
  <2>5. PowerWatch!AliveInv'
    BY <2>1, <2>3, WatchChanges, WatchFewer DEF PowerWatch!Alive
  <2>6. CASE r1[w].thread = "term"
    <3>1. r6' = r6 /\ r1' = [r1 EXCEPT ![w] = [r1[w] EXCEPT !.thread = "kill"]]
      BY <1>3, <2>6 DEF PowerWatch!Power
    <3>2. r1'[w].noted = r1[w].noted
      BY <1>a, <3>1 DEF WatcherRecord
    <3>3. PowerWatch!CountInv'
      BY <2>1, <2>2, <2>3, <3>1, <3>2, WatchChanges DEF PowerWatch!IInv, PowerWatch!CountInv
    <3> QED
      BY <2>4, <2>5, <3>3 DEF PowerWatch!IInv
  <2>7. CASE r1[w].thread = "kill"
    <3>1. r6'.served = r6.served + 1 /\ r6.served \in Nat /\ r2.served \in Nat
      BY <1>3, <2>7 DEF PowerWatch!Power, PowerWatch!IInv, PowerWatch!Types
    <3>2. PowerWatch!CountInv'
      BY <2>1, <2>2, <2>3, <3>1, WatchChanges DEF PowerWatch!IInv, PowerWatch!CountInv
    <3> QED
      BY <2>4, <2>5, <3>2 DEF PowerWatch!IInv
  <2> QED
    BY <1>3, <2>6, <2>7 DEF PowerWatch!Power
<1>4. CASE PowerWatch!Note(w)
  <2>1. PICK r \in WatcherRecord : r1' = [r1 EXCEPT ![w] = r] /\ r = [r1[w] EXCEPT !.noted = FALSE]
    BY <1>4, <1>a DEF PowerWatch!Note, WatcherRecord
  <2>2. r.pc = "loop" /\ r1[w].pc = "loop" /\ ~r.noted /\ PowerWatch!Alive(w)
    BY <1>4, <1>a, <2>1 DEF PowerWatch!Note, WatcherRecord, PowerWatch!Alive
  <2>3. PowerWatch!Types' /\ r2'.pid = r2.pid /\ r2'.served = r2.served + 1 /\ UNCHANGED <<r5, r6>>
    BY <1>4, <2>1, WatchChanges DEF PowerWatch!Note, PowerWatch!IInv, PowerWatch!Types, PowerWatch!TypeOK,
         WatcherRecord
  <2>4. \A v \in Watchers : PowerWatch!Alive(v)' <=> PowerWatch!Alive(v)
    BY <2>1, <2>2, WatchChanges DEF PowerWatch!Alive
  <2>5. PowerWatch!AliveInv'
    BY <2>3, <2>4 DEF PowerWatch!IInv, PowerWatch!AliveInv
  <2>6. r2.served < r6.served /\ r2.served \in Nat /\ r6.served \in Nat
    BY <1>4 DEF PowerWatch!Note, PowerWatch!IInv, PowerWatch!CountInv, PowerWatch!Types
  <2>7. \A v \in Watchers : r1'[v].pc = "loop" => ~r1'[v].noted
    BY <2>1, <2>2, WatchChanges DEF PowerWatch!IInv, PowerWatch!AliveInv, PowerWatch!Alive
  <2>8. PowerWatch!CountInv'
    BY <2>1, <2>2, <2>3, <2>6, <2>7, WatchChanges DEF PowerWatch!IInv, PowerWatch!CountInv
  <2> QED
    BY <2>3, <2>5, <2>8 DEF PowerWatch!IInv
<1>5. CASE PowerWatch!Drain(w)
  <2>1. PICK p \in {"drain", "gone"} : r1' = [r1 EXCEPT ![w] = [r1[w] EXCEPT !.pc = p]]
    BY <1>5 DEF PowerWatch!Drain, PowerWatch!Watch
  <2>2. PICK r \in WatcherRecord : r1' = [r1 EXCEPT ![w] = r] /\ r = [r1[w] EXCEPT !.pc = p]
    BY <1>a, <2>1 DEF WatcherRecord
  <2>3. r.pc = p /\ PowerWatch!Alive(w) /\ PowerWatch!Types' /\ UNCHANGED <<r2, r5, r6>>
    BY <1>5, <1>a, <2>2, WatchChanges DEF PowerWatch!Drain, PowerWatch!IInv, PowerWatch!Types,
         PowerWatch!TypeOK, WatcherRecord, PowerWatch!Alive
  <2>4. PowerWatch!AliveInv'
    BY <2>2, <2>3, WatchChanges, WatchFewer DEF PowerWatch!Alive
  <2>5. PowerWatch!CountInv'
    BY <2>2, <2>3, WatchChanges DEF PowerWatch!IInv, PowerWatch!CountInv
  <2> QED
    BY <2>3, <2>4, <2>5 DEF PowerWatch!IInv
<1> QED
  BY <1>1, <1>2, <1>3, <1>4, <1>5 DEF PowerWatch!Step

\* and so does every step of a call.
LEMMA WatchStepInv == ASSUME "none" \notin Watchers, PowerWatch!IInv,
     [PowerWatch!Next]_PowerWatch!vars PROVE PowerWatch!IInv'
<1>1. CASE PowerWatch!Ask
  BY <1>1 DEF PowerWatch!Ask, PowerWatch!IInv, PowerWatch!Types, PowerWatch!TypeOK, PowerWatch!AliveInv,
       PowerWatch!CountInv, PowerWatch!Alive
<1>2. CASE PowerWatch!Boot
  BY <1>2 DEF PowerWatch!Boot, PowerWatch!IInv, PowerWatch!Types, PowerWatch!TypeOK, PowerWatch!AliveInv,
       PowerWatch!CountInv, PowerWatch!Alive
<1>3. ASSUME NEW b \in BOOLEAN, PowerWatch!Calls(b) PROVE PowerWatch!IInv'
  <2>0. /\ PowerWatch!running_pid = "none" => \A w \in Watchers : ~PowerWatch!Alive(w)
        /\ PowerWatch!running_pid # "none" => PowerWatch!running_pid \in Watchers
    BY <1>3, WatchKnown DEF PowerWatch!Calls
  <2>1. /\ r5' = [pc |-> "stop", start |-> b, of |-> PowerWatch!running_pid]
        /\ PowerWatch!running_pid \in Watchers \union {"none"} /\ r5.pc = "idle"
             /\ r5' \in [pc : {"idle", "stop", "start", "wait"}, start : BOOLEAN,
                         of : Watchers \union {"none"}]
        /\ UNCHANGED <<r2, r3, r4>>
    BY <1>3, <2>0 DEF PowerWatch!Calls
  <2>2. /\ r1' \in [Watchers -> WatcherRecord]
        /\ \A w \in Watchers : r1'[w].pc = r1[w].pc /\ r1'[w].noted = r1[w].noted
             /\ r1'[w].thread = r1[w].thread
    <3>1. r1 \in [Watchers -> WatcherRecord]
      BY DEF PowerWatch!IInv, PowerWatch!Types, PowerWatch!TypeOK, WatcherRecord
    <3>2. CASE PowerWatch!running_pid = "none"
      BY <1>3, <3>1, <3>2 DEF PowerWatch!Calls
    <3>3. CASE PowerWatch!running_pid # "none"
      <4> DEFINE t == [r1[PowerWatch!running_pid] EXCEPT !.term = TRUE]
      <4>1. r1' = [r1 EXCEPT ![PowerWatch!running_pid] = t] /\ PowerWatch!running_pid \in Watchers
        BY <1>3, <2>0, <3>3 DEF PowerWatch!Calls
      <4>2. t \in WatcherRecord /\ t.pc = r1[PowerWatch!running_pid].pc
              /\ t.noted = r1[PowerWatch!running_pid].noted
              /\ t.thread = r1[PowerWatch!running_pid].thread
        BY <3>1, <4>1 DEF WatcherRecord
      <4> QED
        BY <3>1, <4>1, <4>2
    <3> QED
      BY <3>2, <3>3
  <2>3. r6'.served = r6.served /\ r6' \in [calls : Nat, asks : Nat, served : Nat]
    BY <1>3 DEF PowerWatch!Calls, PowerWatch!IInv, PowerWatch!Types
  <2>4. PowerWatch!Types'
    BY <2>1, <2>2, <2>3 DEF PowerWatch!IInv, PowerWatch!Types, PowerWatch!TypeOK, WatcherRecord
  <2>5. PowerWatch!AliveInv'
    BY <2>0, <2>1, <2>2 DEF PowerWatch!IInv, PowerWatch!AliveInv, PowerWatch!Alive
  <2>6. PowerWatch!CountInv'
    BY <2>1, <2>2, <2>3 DEF PowerWatch!IInv, PowerWatch!CountInv
  <2> QED
    BY <2>4, <2>5, <2>6 DEF PowerWatch!IInv
<1>4. CASE PowerWatch!stop
  <2>1. /\ r5'.pc \in {"start", "idle"} /\ r5.pc = "stop" /\ UNCHANGED <<r1, r2, r3, r4, r6>>
        /\ r5' \in [pc : {"idle", "stop", "start", "wait"}, start : BOOLEAN, of : Watchers \union {"none"}]
    BY <1>4 DEF PowerWatch!stop, PowerWatch!IInv, PowerWatch!Types
  <2>2. \A w \in Watchers : ~PowerWatch!Alive(w)
    BY <1>4, WatchKnown DEF PowerWatch!stop, PowerWatch!IInv, PowerWatch!AliveInv
  <2>3. PowerWatch!Types' /\ PowerWatch!CountInv'
    BY <2>1 DEF PowerWatch!IInv, PowerWatch!Types, PowerWatch!TypeOK, PowerWatch!CountInv
  <2>4. PowerWatch!AliveInv'
    BY <2>1, <2>2 DEF PowerWatch!AliveInv, PowerWatch!Alive
  <2> QED
    BY <2>3, <2>4 DEF PowerWatch!IInv
<1>5. CASE PowerWatch!start
  <2>1. PICK w \in Watchers : /\ r1[w] = PowerWatch!Never
               /\ r1' = [r1 EXCEPT ![w] = [r1[w] EXCEPT !.pc = "born"]]
                              /\ r5' = [r5 EXCEPT !.pc = "wait", !.of = w]
    BY <1>5 DEF PowerWatch!start, PowerWatch!Watch
  <2> DEFINE r == [PowerWatch!Never EXCEPT !.pc = "born"]
  <2>2. r \in WatcherRecord /\ r1' = [r1 EXCEPT ![w] = r] /\ r.pc = "born" /\ ~r.noted /\ r.thread = "none"
    BY <2>1 DEF PowerWatch!Never, WatcherRecord
  <2>3. /\ r5'.pc = "wait" /\ r5'.of = w /\ UNCHANGED <<r2, r3, r4, r6>>
        /\ r5' \in [pc : {"idle", "stop", "start", "wait"}, start : BOOLEAN, of : Watchers \union {"none"}]
    BY <1>5, <2>1 DEF PowerWatch!start, PowerWatch!IInv, PowerWatch!Types
  <2> HIDE DEF r
  <2>4. PowerWatch!Types'
    BY <2>2, <2>3, WatchChanges DEF PowerWatch!IInv, PowerWatch!Types, PowerWatch!TypeOK, WatcherRecord
  <2>5. \A v \in Watchers : ~PowerWatch!Alive(v)
    BY <1>5 DEF PowerWatch!start, PowerWatch!IInv, PowerWatch!AliveInv
  <2>6. PowerWatch!AliveInv'
    BY <2>2, <2>3, <2>5, WatchChanges DEF PowerWatch!AliveInv, PowerWatch!Alive
  <2>7. PowerWatch!CountInv'
    BY <2>2, <2>3, WatchChanges DEF PowerWatch!IInv, PowerWatch!CountInv
  <2> QED
    BY <2>4, <2>6, <2>7 DEF PowerWatch!IInv
<1>6. CASE PowerWatch!Started
  <2>1. /\ r5'.pc = "idle" /\ UNCHANGED <<r1, r2, r3, r4, r6>>
        /\ r5' \in [pc : {"idle", "stop", "start", "wait"}, start : BOOLEAN, of : Watchers \union {"none"}]
    BY <1>6 DEF PowerWatch!Started, PowerWatch!IInv, PowerWatch!Types
  <2>2. r2.pid \in Watchers /\ PowerWatch!Alive(r2.pid)
    BY <1>6 DEF PowerWatch!Started, PowerWatch!running_pid
  <2>3. PowerWatch!AliveInv'
    BY <2>1, <2>2 DEF PowerWatch!IInv, PowerWatch!AliveInv, PowerWatch!Alive
  <2>4. PowerWatch!Types' /\ PowerWatch!CountInv'
    BY <2>1 DEF PowerWatch!IInv, PowerWatch!Types, PowerWatch!TypeOK, PowerWatch!CountInv
  <2> QED
    BY <2>3, <2>4 DEF PowerWatch!IInv
<1>7. CASE UNCHANGED PowerWatch!vars
  BY <1>7 DEF PowerWatch!vars, PowerWatch!IInv, PowerWatch!Types, PowerWatch!TypeOK, PowerWatch!AliveInv,
       PowerWatch!CountInv, PowerWatch!Alive
<1> QED
  BY <1>1, <1>2, <1>3, <1>4, <1>5, <1>6, <1>7, WatchStepsInv DEF PowerWatch!Next

\* Once a call has returned at most one watcher is left.
LEMMA WatchServed == ASSUME PowerWatch!IInv PROVE PowerWatch!OneWatcher
BY DEF PowerWatch!IInv, PowerWatch!AliveInv, PowerWatch!CountInv, PowerWatch!OneWatcher

(* ------------------------------ the card image ------------------------------ *)
\* Its variables: r1 is image, r2 is loop, r3 is node, r4 is user, r5 is calls.

CardImages == [state : {"none", "raw", "card"}, split : BOOLEAN]
CardLoopRecord == [attached : BOOLEAN, scanned : BOOLEAN, held : BOOLEAN, going : BOOLEAN, given : BOOLEAN]
CardUserRecord == [call : {"none", "insert", "build", "detach"}, pc : Card!Pcs, loop : Loops \union {"none"},
                   mine : BOOLEAN]

\* The types, variable by variable.
LEMMA CardTyped ==
  Card!Types <=> /\ r1 \in CardImages /\ r2 \in [Loops -> CardLoopRecord] /\ r3 \in Loops \union {"none"}
                 /\ r4 \in [Users -> CardUserRecord] /\ r5 \in Nat
BY DEF Card!Types, Card!TypeOK, CardImages, CardLoopRecord, CardUserRecord

\* The same in the next state.
LEMMA CardTypedNext ==
  Card!Types' <=> /\ r1' \in CardImages /\ r2' \in [Loops -> CardLoopRecord]
    /\ r3' \in Loops \union {"none"}
                  /\ r4' \in [Users -> CardUserRecord] /\ r5' \in Nat
BY DEF Card!Types, Card!TypeOK, CardImages, CardLoopRecord, CardUserRecord

\* The invariant holds initially.
LEMMA CardInitInv == ASSUME Card!Init PROVE Card!IInv
<1>1. Card!Idle \in CardUserRecord /\ Card!Detached \in CardLoopRecord
  BY DEF Card!Idle, Card!Detached, CardUserRecord, CardLoopRecord, Card!Pcs
<1>2. Card!Types
  BY <1>1, CardTyped DEF Card!Init, CardImages
<1>3. Card!CallInv
  BY DEF Card!Init, Card!CallInv, Card!Idle, Card!Works
<1>4. Card!LoopInv /\ Card!RawInv
  BY DEF Card!Init, Card!LoopInv, Card!RawInv, Card!Detached
<1> QED
  BY <1>2, <1>3, <1>4 DEF Card!IInv

\* What a step of a process changes in its own record.
LEMMA CardMoves ==
  ASSUME Card!IInv, NEW u \in Users, NEW r \in CardUserRecord, r4' = [r4 EXCEPT ![u] = r]
  PROVE  /\ r4' \in [Users -> CardUserRecord] /\ r4'[u] = r
         /\ \A v \in Users \ {u} : r4'[v] = r4[v]
BY CardTyped DEF Card!IInv

\* What a process has in hand, apart from its position.
LEMMA CardDoing ==
  ASSUME Card!IInv, NEW u \in Users, NEW pc \in Card!Pcs, Card!Do(u, pc)
  PROVE  \E r \in CardUserRecord : /\ r4' = [r4 EXCEPT ![u] = r] /\ r.pc = pc
                                   /\ r.call = r4[u].call /\ r.loop = r4[u].loop /\ r.mine = r4[u].mine
<1>1. r4[u] \in CardUserRecord
  BY CardTyped DEF Card!IInv
<1>2. [r4[u] EXCEPT !.pc = pc] \in CardUserRecord
  BY <1>1 DEF CardUserRecord
<1> QED
  BY <1>1, <1>2 DEF Card!Do, CardUserRecord

\* The owners that a step of one process leaves.
LEMMA CardOwners ==
  ASSUME Card!IInv, NEW u \in Users, \A v \in Users \ {u} : r4'[v] = r4[v], NEW l \in Loops, Card!Owned(l),
         \/ ~r4[u].mine \/ r4[u].loop # l \/ r4[u].pc \notin Card!Works
         \/ r4'[u].mine /\ r4'[u].loop = l /\ r4'[u].pc \in Card!Works
  PROVE  Card!Owned(l)'
<1>1. PICK v \in Users : r4[v].mine /\ r4[v].loop = l /\ r4[v].pc \in Card!Works
  BY DEF Card!Owned
<1>2. CASE v = u
  BY <1>1, <1>2 DEF Card!Owned
<1>3. CASE v # u
  BY <1>1, <1>3 DEF Card!Owned
<1> QED
  BY <1>2, <1>3

\* A loop device that is dropped stays only for its mount.
LEMMA CardDropping ==
  ASSUME Card!IInv, NEW l \in Loops
  PROVE  /\ Card!Dropped(l) \in CardLoopRecord /\ (Card!Dropped(l).held => Card!Dropped(l).attached)
         /\ (Card!Dropped(l).attached => Card!Dropped(l).held /\ Card!Dropped(l).going)
<1>1. r2[l] \in CardLoopRecord /\ (r2[l].held => r2[l].attached)
  BY CardTyped DEF Card!IInv, Card!LoopInv
<1> DEFINE a == r2[l].attached /\ r2[l].held
           h == r2[l].held
<1>2. a \in BOOLEAN /\ h \in BOOLEAN
  BY <1>1 DEF CardLoopRecord
<1>3. Card!Dropped(l) = [r2[l] EXCEPT !.attached = a, !.going = h]
  BY DEF Card!Dropped
<1>4. (a <=> h) /\ h = r2[l].held
  BY <1>1
<1> HIDE DEF a, h
<1>5. Card!Dropped(l) \in CardLoopRecord /\ Card!Dropped(l).attached = a /\ Card!Dropped(l).going = h
        /\ Card!Dropped(l).held = h
  BY <1>1, <1>2, <1>3, <1>4 DEF CardLoopRecord
<1> QED
  BY <1>2, <1>4, <1>5

\* A process that releases its device, or never attached one, may end.
LEMMA CardReleases ==
  ASSUME Card!IInv, NEW u \in Users, \A v \in Users \ {u} : r4'[v] = r4[v],
         \/ r4[u].loop \in Loops /\ Card!Release(r4[u].loop)
         \/ UNCHANGED r2 /\ (~r4[u].mine \/ r4[u].loop = "none" \/ r4[u].pc \notin Card!Works)
            /\ "none" \notin Loops
  PROVE  r2' \in [Loops -> CardLoopRecord] /\ Card!LoopInv'
<1>1. r2 \in [Loops -> CardLoopRecord]
  BY CardTyped DEF Card!IInv
<1>2. CASE r4[u].loop \in Loops /\ Card!Release(r4[u].loop)
  <2> DEFINE k == r4[u].loop
             d == Card!Dropped(k)
  <2>1. d \in CardLoopRecord /\ (d.held => d.attached) /\ (d.attached => d.held /\ d.going)
    BY <1>2, CardDropping
  <2>2. r2' = [r2 EXCEPT ![k] = d]
    BY <1>2 DEF Card!Release
  <2> HIDE DEF d
  <2>3. r2' \in [Loops -> CardLoopRecord] /\ r2'[k] = d /\ \A l \in Loops \ {k} : r2'[l] = r2[l]
    BY <1>1, <1>2, <2>1, <2>2
  <2>4. ASSUME NEW l \in Loops
        PROVE  /\ r2'[l].held => r2'[l].attached
               /\ r2'[l].attached => r2'[l].given \/ (r2'[l].held /\ r2'[l].going) \/ Card!Owned(l)'
    <3>1. CASE l = k
      BY <2>1, <2>3, <3>1
    <3>2. CASE l # k
      BY <2>3, <3>2, CardOwners DEF Card!IInv, Card!LoopInv
    <3> QED
      BY <3>1, <3>2
  <2> QED
    BY <2>3, <2>4 DEF Card!LoopInv
<1>3. CASE UNCHANGED r2 /\ (~r4[u].mine \/ r4[u].loop = "none" \/ r4[u].pc \notin Card!Works)
             /\ "none" \notin Loops
  BY <1>1, <1>3, CardOwners DEF Card!IInv, Card!LoopInv
<1> QED
  BY <1>2, <1>3

\* Positions at which a call has nothing of its own.
CardFree(r) == \/ r.pc = "loops" /\ r.call \in {"insert", "build"}
               \/ r.pc = "detach" /\ r.call = "detach"

\* A call begins: with nothing of its own.
LEMMA CardBeginStep == ASSUME "none" \notin Loops, Card!IInv, NEW u \in Users, Card!Begin(u)
     PROVE Card!IInv'
<1>1. PICK r \in CardUserRecord : /\ r4' = [r4 EXCEPT ![u] = r] /\ CardFree(r)
                                  /\ \/ UNCHANGED r1
                                     \/ r1' \in CardImages /\ r.call = "build" /\ r.pc = "loops"
  <2>1. Card!Idle \in CardUserRecord
    BY DEF Card!Idle, CardUserRecord, Card!Pcs
  <2>2. CASE r4' = [r4 EXCEPT ![u] = [Card!Idle EXCEPT !.call = "insert", !.pc = "loops"]] /\ UNCHANGED r1
    <3> DEFINE r == [Card!Idle EXCEPT !.call = "insert", !.pc = "loops"]
    <3>1. r4' = [r4 EXCEPT ![u] = r]
      BY <2>2
    <3>2. r \in CardUserRecord /\ r.call = "insert" /\ r.pc = "loops" /\ CardFree(r)
      BY <2>1 DEF CardUserRecord, Card!Pcs, CardFree
    <3> HIDE DEF r
    <3> QED
      BY <2>2, <3>1, <3>2
  <2>3. CASE /\ \E split \in BOOLEAN : r1' = [state |-> "raw", split |-> split]
             /\ r4' = [r4 EXCEPT ![u] = [Card!Idle EXCEPT !.call = "build", !.pc = "loops"]]
    <3> DEFINE r == [Card!Idle EXCEPT !.call = "build", !.pc = "loops"]
    <3>1. r4' = [r4 EXCEPT ![u] = r]
      BY <2>3
    <3>2. r \in CardUserRecord /\ r.call = "build" /\ r.pc = "loops" /\ CardFree(r)
      BY <2>1 DEF CardUserRecord, Card!Pcs, CardFree
    <3>3. r1' \in CardImages
      BY <2>3 DEF CardImages
    <3> HIDE DEF r
    <3> QED
      BY <2>3, <3>1, <3>2, <3>3
  <2>4. CASE r4' = [r4 EXCEPT ![u] = [Card!Idle EXCEPT !.call = "detach", !.pc = "detach"]] /\ UNCHANGED r1
    <3> DEFINE r == [Card!Idle EXCEPT !.call = "detach", !.pc = "detach"]
    <3>1. r4' = [r4 EXCEPT ![u] = r]
      BY <2>4
    <3>2. r \in CardUserRecord /\ r.call = "detach" /\ r.pc = "detach" /\ CardFree(r)
      BY <2>1 DEF CardUserRecord, Card!Pcs, CardFree
    <3> HIDE DEF r
    <3> QED
      BY <2>4, <3>1, <3>2
  <2> QED
    BY <2>2, <2>3, <2>4 DEF Card!Begin
<1>2. r4[u].pc = "idle" /\ r4[u].call = "none" /\ r5' = r5 + 1 /\ UNCHANGED <<r2, r3>>
  BY DEF Card!Begin, Card!IInv, Card!CallInv
<1>3. Card!Types'
  BY <1>1, <1>2, CardMoves, CardTyped, CardTypedNext DEF Card!IInv
<1>4. Card!CallInv'
  BY <1>1, CardMoves DEF Card!IInv, Card!CallInv, CardFree, Card!Works
<1>5. Card!LoopInv'
  BY <1>1, <1>2, CardMoves, CardReleases DEF Card!Works
<1>6. Card!RawInv'
  BY <1>1, <1>2, CardMoves DEF Card!IInv, Card!RawInv
<1> QED
  BY <1>3, <1>4, <1>5, <1>6 DEF Card!IInv

\* It attaches the image to a device of its own, or finds one, and works on it.
LEMMA CardAttachStep ==
  ASSUME "none" \notin Loops, Card!IInv, NEW u \in Users,
       Card!loops(u) \/ Card!losetup(u) \/ Card!attach(u) PROVE Card!IInv'
<1>a. r4[u] \in CardUserRecord /\ r2 \in [Loops -> CardLoopRecord]
  BY CardTyped DEF Card!IInv
<1>b. UNCHANGED <<r1, r3, r5>>
  BY DEF Card!loops, Card!losetup, Card!attach
<1>c. ASSUME NEW r \in CardUserRecord, r4' = [r4 EXCEPT ![u] = r], r.call = r4[u].call,
             r4[u].pc \in {"loops", "attach", "scan"},
             r.pc \in {"scan", "attach", "fill", "nodes", "failed"}, r.pc # "failed" => r.loop # "none",
             r.pc = "nodes" => r.call = "insert", r2' \in [Loops -> CardLoopRecord], Card!LoopInv'
      PROVE  Card!IInv'
  <2>1. Card!Types'
    BY <1>b, <1>c, CardMoves, CardTyped, CardTypedNext DEF Card!IInv
  <2>2. Card!CallInv'
    BY <1>c, CardMoves DEF Card!IInv, Card!CallInv, Card!Works
  <2>3. Card!RawInv'
    BY <1>b, <1>c, CardMoves DEF Card!IInv, Card!RawInv
  <2> QED
    BY <1>c, <2>1, <2>2, <2>3 DEF Card!IInv
<1>1. CASE Card!loops(u)
  <2>1. PICK l \in Loops, pc \in {"scan", "attach"} :
          r4' = [r4 EXCEPT ![u] = [r4[u] EXCEPT !.pc = pc, !.loop = l]]
    <3>1. CASE Card!attached # {}
      <4>1. PICK l \in Card!attached : r4' = [r4 EXCEPT ![u].pc = "scan", ![u].loop = l]
        BY <1>1, <3>1 DEF Card!loops
      <4>2. r4' = [r4 EXCEPT ![u] = [r4[u] EXCEPT !.pc = "scan", !.loop = l]] /\ l \in Loops
        BY <1>a, <4>1, CardTyped DEF Card!attached, Card!IInv
      <4> QED
        BY <4>2
    <3>2. CASE Card!attached = {}
      <4>1. PICK l \in Loops : r4' = [r4 EXCEPT ![u].pc = "attach", ![u].loop = l]
        BY <1>1, <3>2 DEF Card!loops
      <4>2. r4' = [r4 EXCEPT ![u] = [r4[u] EXCEPT !.pc = "attach", !.loop = l]]
        BY <1>a, <4>1, CardTyped DEF Card!IInv
      <4> QED
        BY <4>2
    <3> QED
      BY <3>1, <3>2
  <2> DEFINE r == [r4[u] EXCEPT !.pc = pc, !.loop = l]
  <2>2. r \in CardUserRecord /\ r.pc = pc /\ r.loop = l /\ r.call = r4[u].call
    BY <1>a DEF CardUserRecord, Card!Pcs
  <2> HIDE DEF r
  <2>3. r4' = [r4 EXCEPT ![u] = r] /\ r4[u].pc = "loops" /\ UNCHANGED r2
    BY <1>1, <2>1 DEF Card!loops, r
  <2>4. r2' \in [Loops -> CardLoopRecord] /\ Card!LoopInv'
    BY <1>a, <2>2, <2>3, CardMoves, CardReleases DEF Card!Works
  <2> QED
    BY <1>c, <2>2, <2>3, <2>4
<1>2. CASE Card!losetup(u)
  <2>a. r4[u].pc = "attach" /\ r4[u].loop \in Loops
    BY <1>2, <1>a DEF Card!losetup, Card!IInv, Card!CallInv, CardUserRecord
  <2>0. PICK k \in Loops : k = r4[u].loop /\ r4[u].pc = "attach"
    BY <2>a
  <2>1. CASE r2[k].attached
    <3> DEFINE r == [r4[u] EXCEPT !.pc = "failed", !.loop = "none"]
    <3>1. r4' = [r4 EXCEPT ![u].pc = "failed", ![u].loop = "none"] /\ UNCHANGED r2
      BY <1>2, <2>0, <2>1 DEF Card!losetup
    <3>2. r4' = [r4 EXCEPT ![u] = r]
      BY <1>a, <3>1, CardTyped DEF Card!IInv
    <3>3. r \in CardUserRecord /\ r.pc = "failed" /\ r.call = r4[u].call
      BY <1>a DEF CardUserRecord, Card!Pcs
    <3> HIDE DEF r
    <3>4. r2' \in [Loops -> CardLoopRecord] /\ Card!LoopInv'
      BY <1>a, <2>0, <3>1, <3>2, <3>3, CardMoves, CardReleases DEF Card!Works
    <3> QED
      BY <1>c, <2>0, <3>2, <3>3, <3>4
  <2>2. CASE ~r2[k].attached
    <3> DEFINE r == [r4[u] EXCEPT !.pc = "scan", !.mine = TRUE]
               d == [Card!Detached EXCEPT !.attached = TRUE]
    <3>1. r4' = [r4 EXCEPT ![u].pc = "scan", ![u].mine = TRUE] /\ r2' = [r2 EXCEPT ![k] = d]
      BY <1>2, <2>0, <2>2 DEF Card!losetup
    <3>2. r4' = [r4 EXCEPT ![u] = r]
      BY <1>a, <3>1, CardTyped DEF Card!IInv
    <3>3. r \in CardUserRecord /\ r.pc = "scan" /\ r.mine /\ r.loop = k /\ r.call = r4[u].call
      BY <1>a, <2>0 DEF CardUserRecord, Card!Pcs
    <3>4. d \in CardLoopRecord /\ ~d.held
      BY DEF Card!Detached, CardLoopRecord
    <3> HIDE DEF r, d
    <3>5. r2' \in [Loops -> CardLoopRecord] /\ r2'[k] = d /\ \A l \in Loops \ {k} : r2'[l] = r2[l]
      BY <1>a, <2>0, <3>1, <3>4
    <3>6. r4'[u] = r /\ \A v \in Users \ {u} : r4'[v] = r4[v]
      BY <3>2, <3>3, CardMoves
    <3>7. Card!Owned(k)' /\ r2'[k].attached \in BOOLEAN /\ ~r2'[k].held
      BY <3>3, <3>4, <3>5, <3>6 DEF Card!Owned, Card!Works, CardLoopRecord
    <3>8. \A l \in Loops \ {k} : Card!Owned(l) => Card!Owned(l)'
      BY <2>0, <3>6, CardOwners DEF Card!Works
    <3>9. Card!LoopInv'
      <4>1. ASSUME NEW l \in Loops
            PROVE  /\ r2'[l].held => r2'[l].attached
                   /\ r2'[l].attached => r2'[l].given \/ (r2'[l].held /\ r2'[l].going) \/ Card!Owned(l)'
        BY <3>5, <3>7, <3>8 DEF Card!IInv, Card!LoopInv
      <4> QED
        BY <4>1 DEF Card!LoopInv
    <3> QED
      BY <1>c, <2>0, <3>2, <3>3, <3>5, <3>9, CardTyped
  <2> QED
    BY <2>1, <2>2
<1>3. CASE Card!attach(u)
  <2>0. r4[u].pc = "scan" /\ r4[u].loop \in Loops /\ r4[u].loop # "none"
    BY <1>3, <1>a DEF Card!attach, Card!IInv, Card!CallInv, CardUserRecord, Card!Works
  <2>1. CASE \E pc \in {"fill", "nodes"} : Card!Do(u, pc) /\ UNCHANGED r2
               /\ (pc = "nodes" => r4[u].call # "build")
    <3>1. PICK pc \in {"fill", "nodes"} : Card!Do(u, pc) /\ UNCHANGED r2
                 /\ (pc = "nodes" => r4[u].call # "build")
      BY <2>1
    <3>2. PICK r \in CardUserRecord : /\ r4' = [r4 EXCEPT ![u] = r] /\ r.pc = pc
                                      /\ r.call = r4[u].call /\ r.loop = r4[u].loop /\ r.mine = r4[u].mine
      BY <3>1, CardDoing DEF Card!Pcs
    <3>3. r4'[u] = r /\ \A v \in Users \ {u} : r4'[v] = r4[v]
      BY <3>2, CardMoves
    <3>4. \A l \in Loops : Card!Owned(l) => Card!Owned(l)'
      BY <3>2, <3>3, CardOwners DEF Card!Works
    <3>5. Card!LoopInv'
      BY <3>1, <3>4 DEF Card!IInv, Card!LoopInv
    <3>6. pc = "nodes" => r4[u].call = "insert"
      BY <2>0, <3>1 DEF Card!IInv, Card!CallInv
    <3> QED
      BY <1>a, <1>c, <2>0, <3>1, <3>2, <3>5, <3>6
  <2>2. CASE Card!Do(u, "failed") /\ (IF r4[u].mine THEN Card!Release(r4[u].loop) ELSE UNCHANGED r2)
    <3>1. PICK r \in CardUserRecord : /\ r4' = [r4 EXCEPT ![u] = r] /\ r.pc = "failed"
                                      /\ r.call = r4[u].call /\ r.loop = r4[u].loop /\ r.mine = r4[u].mine
      BY <2>2, CardDoing DEF Card!Pcs
    <3>2. \A v \in Users \ {u} : r4'[v] = r4[v]
      BY <3>1, CardMoves
    <3>3. r2' \in [Loops -> CardLoopRecord] /\ Card!LoopInv'
      BY <2>0, <2>2, <3>2, CardReleases
    <3> QED
      BY <1>c, <2>0, <3>1, <3>3
  <2> QED
    BY <1>3, <2>1, <2>2 DEF Card!attach
<1> QED
  BY <1>1, <1>2, <1>3

\* A call that ends.
LEMMA CardEnds ==
  ASSUME Card!IInv, NEW u \in Users, r4' = [r4 EXCEPT ![u] = Card!Idle], r1' \in CardImages,
         r3' \in Loops \union {"none"}, UNCHANGED r5, r2' \in [Loops -> CardLoopRecord], Card!LoopInv',
         r1'.state # "raw" \/ (UNCHANGED r1 /\ r4[u].call # "build")
  PROVE  Card!IInv'
<1>1. Card!Idle \in CardUserRecord /\ Card!Idle.pc = "idle" /\ Card!Idle.call = "none"
  BY DEF Card!Idle, CardUserRecord, Card!Pcs
<1>2. Card!Types'
  BY <1>1, CardMoves, CardTyped, CardTypedNext DEF Card!IInv
<1>3. Card!CallInv'
  BY <1>1, CardMoves DEF Card!IInv, Card!CallInv, Card!Works
<1>4. Card!RawInv'
  BY CardMoves, <1>1 DEF Card!IInv, Card!RawInv
<1> QED
  BY <1>2, <1>3, <1>4 DEF Card!IInv

\* It ends, in success or not, and what it has attached goes with it, unless it was asked for.
LEMMA CardEndStep ==
  ASSUME "none" \notin Loops, Card!IInv, NEW u \in Users,
       Card!insert(u) \/ Card!build(u) \/ Card!Fails(u) \/ Card!detach(u) PROVE Card!IInv'
<1>a. r4[u] \in CardUserRecord /\ r2 \in [Loops -> CardLoopRecord] /\ r1 \in CardImages
        /\ r3 \in Loops \union {"none"}
  BY CardTyped DEF Card!IInv
<1>b. Card!Idle \in CardUserRecord
  BY DEF Card!Idle, CardUserRecord, Card!Pcs
<1>1. CASE Card!insert(u)
  <2> DEFINE k == r4[u].loop
             d == [r2[k] EXCEPT !.given = r2[k].attached]
  <2>1. r4[u].pc = "nodes" /\ r4[u].call = "insert" /\ k \in Loops /\ r3' = k
          /\ r4' = [r4 EXCEPT ![u] = Card!Idle]
    BY <1>1, <1>a DEF Card!insert, Card!IInv, Card!CallInv, CardUserRecord, Card!Works
  <2>2. r2' = [r2 EXCEPT ![k] = d]
    BY <1>1, <2>1 DEF Card!insert
  <2>3. r2[k] \in CardLoopRecord /\ d \in CardLoopRecord /\ (d.attached => d.given)
          /\ (d.held => d.attached)
    BY <1>a, <2>1 DEF CardLoopRecord, Card!IInv, Card!LoopInv
  <2> HIDE DEF d
  <2>4. r2' \in [Loops -> CardLoopRecord] /\ r2'[k] = d /\ \A l \in Loops \ {k} : r2'[l] = r2[l]
    BY <1>a, <2>1, <2>2, <2>3
  <2>5. \A v \in Users \ {u} : r4'[v] = r4[v]
    BY <1>b, <2>1, CardMoves
  <2>6. \A l \in Loops \ {k} : Card!Owned(l) => Card!Owned(l)'
    BY <2>5, CardOwners
  <2>7. Card!LoopInv'
    BY <2>3, <2>4, <2>6 DEF Card!IInv, Card!LoopInv
  <2> QED
    BY <1>1, <1>a, <2>1, <2>4, <2>7, CardEnds DEF Card!insert
<1>2. CASE Card!build(u)
  <2>1. CASE r4[u].pc = "fill" /\ Card!Do(u, "copied") /\ UNCHANGED <<r1, r2>>
    <3>1. PICK r \in CardUserRecord : /\ r4' = [r4 EXCEPT ![u] = r] /\ r.pc = "copied"
                                      /\ r.call = r4[u].call /\ r.loop = r4[u].loop /\ r.mine = r4[u].mine
      BY <2>1, CardDoing DEF Card!Pcs
    <3>2. r4'[u] = r /\ \A v \in Users \ {u} : r4'[v] = r4[v]
      BY <3>1, CardMoves
    <3>3. \A l \in Loops : Card!Owned(l) => Card!Owned(l)'
      BY <3>1, <3>2, CardOwners DEF Card!Works
    <3>4. Card!LoopInv' /\ Card!RawInv'
      BY <2>1, <3>1, <3>2, <3>3 DEF Card!IInv, Card!LoopInv, Card!RawInv
    <3>5. UNCHANGED <<r1, r2, r3, r5>>
      BY <1>2, <2>1 DEF Card!build
    <3>6. Card!Types'
      BY <3>1, <3>5, CardMoves, CardTyped, CardTypedNext DEF Card!IInv
    <3>7. r4[u].loop # "none"
      BY <2>1 DEF Card!IInv, Card!CallInv, Card!Works
    <3>8. Card!CallInv'
      BY <3>1, <3>2, <3>7 DEF Card!IInv, Card!CallInv, Card!Works
    <3> QED
      BY <3>4, <3>6, <3>8 DEF Card!IInv
  <2>2. CASE r4[u].pc = "copied" /\ r1' = [r1 EXCEPT !.state = "card"] /\ Card!Release(r4[u].loop)
               /\ r4' = [r4 EXCEPT ![u] = Card!Idle]
    <3>1. r4[u].loop \in Loops
      BY <2>2, <1>a DEF Card!IInv, Card!CallInv, CardUserRecord, Card!Works
    <3>2. r2' \in [Loops -> CardLoopRecord] /\ Card!LoopInv'
      BY <1>b, <2>2, <3>1, CardMoves, CardReleases
    <3>3. r1' \in CardImages /\ r1'.state # "raw"
      BY <1>a, <2>2 DEF CardImages
    <3> QED
      BY <1>2, <1>a, <2>2, <3>2, <3>3, CardEnds DEF Card!build
  <2>3. CASE /\ r4[u].call = "build" /\ r4[u].pc \in {"fill", "failed"}
             /\ r1' = [r1 EXCEPT !.state = "none"] /\ r4' = [r4 EXCEPT ![u] = Card!Idle]
             /\ IF r4[u].loop = "none" THEN UNCHANGED r2 ELSE Card!Release(r4[u].loop)
    <3>1. r4[u].loop = "none" \/ r4[u].loop \in Loops
      BY <1>a DEF CardUserRecord
    <3>2. r2' \in [Loops -> CardLoopRecord] /\ Card!LoopInv'
      BY <1>b, <2>3, <3>1, CardMoves, CardReleases
    <3>3. r1' \in CardImages /\ r1'.state # "raw"
      BY <1>a, <2>3 DEF CardImages
    <3> QED
      BY <1>2, <1>a, <2>3, <3>2, <3>3, CardEnds DEF Card!build
  <2> QED
    BY <1>2, <2>1, <2>2, <2>3 DEF Card!build
<1>3. CASE Card!Fails(u)
  <2>1. r4' = [r4 EXCEPT ![u] = Card!Idle] /\ UNCHANGED <<r1, r2, r3, r5>> /\ r4[u].pc \notin Card!Works
          /\ r4[u].call = "insert"
    BY <1>3 DEF Card!Fails, Card!Works
  <2>2. r2' \in [Loops -> CardLoopRecord] /\ Card!LoopInv'
    BY <1>b, <2>1, CardMoves, CardReleases
  <2> QED
    BY <1>a, <2>1, <2>2, CardEnds
<1>4. CASE Card!detach(u)
  <2>1. r4' = [r4 EXCEPT ![u] = Card!Idle] /\ UNCHANGED <<r1, r3, r5>> /\ r4[u].call = "detach"
          /\ r2' = [l \in Loops |-> Card!Dropped(l)]
    BY <1>4 DEF Card!detach, Card!IInv, Card!CallInv
  <2>2. r2' \in [Loops -> CardLoopRecord] /\ Card!LoopInv'
    BY <2>1, CardDropping DEF Card!LoopInv
  <2> QED
    BY <1>a, <2>1, <2>2, CardEnds
<1> QED
  BY <1>1, <1>2, <1>3, <1>4

\* The kernel finds a partition; a mount holds the device.
LEMMA CardLoopStep == ASSUME "none" \notin Loops, Card!IInv,
     Card!Mount \/ \E l \in Loops : Card!Scanned(l) PROVE Card!IInv'
<1>a. r2 \in [Loops -> CardLoopRecord] /\ UNCHANGED <<r1, r3, r4, r5>>
  BY CardTyped DEF Card!IInv, Card!Mount, Card!Scanned
<1>b. ASSUME NEW k \in Loops, NEW d \in CardLoopRecord, r2' = [r2 EXCEPT ![k] = d], d.held => d.attached,
             d.attached => r2[k].attached /\ (r2[k].held /\ r2[k].going => d.held /\ d.going)
               /\ d.given = r2[k].given
      PROVE  Card!IInv'
  <2>1. r2' \in [Loops -> CardLoopRecord] /\ r2'[k] = d /\ \A l \in Loops \ {k} : r2'[l] = r2[l]
    BY <1>a, <1>b
  <2>2. \A l \in Loops : Card!Owned(l)' <=> Card!Owned(l)
    BY <1>a DEF Card!Owned
  <2>3. Card!LoopInv'
    BY <1>b, <2>1, <2>2 DEF Card!IInv, Card!LoopInv
  <2>4. Card!Types' /\ Card!CallInv' /\ Card!RawInv'
    BY <1>a, <2>1, CardTyped, CardTypedNext DEF Card!IInv, Card!CallInv, Card!RawInv
  <2> QED
    BY <2>3, <2>4 DEF Card!IInv
<1>1. ASSUME NEW l \in Loops, Card!Scanned(l) PROVE Card!IInv'
  <2> DEFINE d == [r2[l] EXCEPT !.scanned = TRUE]
  <2>1. r2' = [r2 EXCEPT ![l] = d]
    BY <1>1 DEF Card!Scanned
  <2>2. /\ d \in CardLoopRecord /\ d.held = r2[l].held /\ d.attached = r2[l].attached
             /\ d.given = r2[l].given
        /\ d.going = r2[l].going
    BY <1>a DEF CardLoopRecord
  <2> HIDE DEF d
  <2>3. d.held => d.attached
    BY <2>2 DEF Card!IInv, Card!LoopInv
  <2> QED
    BY <1>b, <2>1, <2>2, <2>3
<1>2. CASE Card!Mount
  <2>1. CASE r2[r3].attached /\ ~r2[r3].held /\ r2' = [r2 EXCEPT ![r3].held = TRUE] /\ r3 # "none"
    <3> DEFINE d == [r2[r3] EXCEPT !.held = TRUE]
    <3>1. r2' = [r2 EXCEPT ![r3] = d] /\ r3 \in Loops
      BY <2>1, CardTyped DEF Card!IInv
    <3>2. d \in CardLoopRecord /\ d.held /\ d.attached /\ d.given = r2[r3].given /\ d.going = r2[r3].going
      BY <1>a, <2>1, <3>1 DEF CardLoopRecord
    <3> HIDE DEF d
    <3> QED
      BY <1>b, <2>1, <3>1, <3>2
  <2>2. ASSUME NEW l \in Loops, r2[l].held, r2' = [r2 EXCEPT ![l].held = FALSE,
       ![l].attached = ~r2[l].going]
        PROVE  Card!IInv'
    <3> DEFINE d == [r2[l] EXCEPT !.held = FALSE, !.attached = ~r2[l].going]
    <3>1. r2' = [r2 EXCEPT ![l] = d]
      BY <1>a, <2>2
    <3>2. d \in CardLoopRecord /\ ~d.held /\ d.attached = ~r2[l].going /\ d.given = r2[l].given
      BY <1>a DEF CardLoopRecord
    <3> HIDE DEF d
    <3>3. r2[l].attached
      BY <2>2 DEF Card!IInv, Card!LoopInv
    <3> QED
      BY <1>b, <3>1, <3>2, <3>3
  <2> QED
    BY <1>2, <2>1, <2>2 DEF Card!Mount
<1> QED
  BY <1>1, <1>2

\* Every step keeps the invariant.
LEMMA CardStepInv == ASSUME "none" \notin Loops, Card!IInv, [Card!Next]_Card!vars PROVE Card!IInv'
<1>1. CASE UNCHANGED Card!vars
  BY <1>1 DEF Card!vars, Card!IInv, Card!Types, Card!TypeOK, Card!CallInv, Card!LoopInv, Card!RawInv,
       Card!Owned
<1> QED
  BY <1>1, CardBeginStep, CardAttachStep, CardEndStep, CardLoopStep DEF Card!Next

\* When no call is under way, nothing is owned and nothing is being built.
LEMMA CardLeft == ASSUME Card!IInv PROVE Card!NothingLeftBehind
BY DEF Card!IInv, Card!CallInv, Card!LoopInv, Card!RawInv, Card!Owned, Card!Works, Card!attached,
     Card!NothingLeftBehind

(* ---------------------------- the guest's links ----------------------------- *)
\* Its variables: r1 is links, r2 is netns, r3 is marker, r4 is stub, r5 is qdisc, r6 is cmd,
\* r7 is trusted, r8 is count.

LinksScopes == {"container", "guest"}
LinksLinkRecord == [kind : {"none", "dummy", "real"}, up : BOOLEAN]
LinksInterfaces == [Names -> LinksLinkRecord]
LinksStates == {"none", "up", "down"}
LinksCommands == [name : {"none", "link", "unlink", "isolate", "share", "shape"}, pc : Links!Pcs, on : Names,
                  state : {"up", "down", "none"}]

LinksTyping ==
  /\ r1 \in [LinksScopes -> LinksInterfaces] /\ r2 \in BOOLEAN /\ r3 \in BOOLEAN
       /\ r4 \in [Names -> LinksStates]
  /\ r5 \subseteq {"netem", "tbf"} /\ r6 \in LinksCommands /\ r7 \in BOOLEAN /\ r8 \in Nat

\* The types, variable by variable,
LEMMA LinksTyped == Links!Types => LinksTyping
BY DEF Links!Types, Links!TypeOK, LinksTyping, LinksScopes, LinksLinkRecord, LinksInterfaces, LinksStates,
     LinksCommands

\* in the next state,
LEMMA LinksTypedNext == LinksTyping' => Links!Types'
<1>1. ASSUME LinksTyping' PROVE r6'.pc \in Links!Pcs
  BY <1>1 DEF LinksTyping, LinksCommands
<1> QED
  BY <1>1 DEF Links!Types, Links!TypeOK, LinksTyping, LinksScopes, LinksLinkRecord, LinksInterfaces,
       LinksStates, LinksCommands, Links!Pcs

\* and initially.
LEMMA LinksTypedInit == LinksTyping => Links!Types
<1>1. ASSUME LinksTyping PROVE r6.pc \in Links!Pcs
  BY <1>1 DEF LinksTyping, LinksCommands
<1> QED
  BY <1>1 DEF Links!Types, Links!TypeOK, LinksTyping, LinksScopes, LinksLinkRecord, LinksInterfaces,
       LinksStates, LinksCommands, Links!Pcs

\* A namespace without links.
LEMMA LinksAbsences == Links!Empty \in LinksInterfaces /\ \A n \in Names : Links!Empty[n].kind = "none"
BY DEF Links!Empty, Links!Absent, LinksInterfaces, LinksLinkRecord

\* A command that does nothing.
LEMMA LinksNoCommands == "eth1" \in Names => Links!NoCommand \in LinksCommands
                           /\ Links!NoCommand.pc = "idle"
BY DEF Links!NoCommand, LinksCommands, Links!Pcs, Links!REAL

\* What a link is read as.
LEMMA LinksReads == \A l \in LinksLinkRecord : Links!State(l) \in LinksStates
BY DEF Links!State, LinksStates

\* The invariant holds initially.
LEMMA LinksInitInv == ASSUME "eth1" \in Names, Links!Init PROVE Links!IInv
<1> DEFINE up == [kind |-> "real", up |-> TRUE]
           c == [Links!Empty EXCEPT ![Links!REAL] = up]
<1>1. up \in LinksLinkRecord /\ Links!REAL \in Names
  BY DEF LinksLinkRecord, Links!REAL
<1>2. c \in LinksInterfaces /\ c[Links!REAL] = up
  BY <1>1, LinksAbsences DEF LinksInterfaces
<1>3. r1 = [container |-> c, guest |-> Links!Empty]
  BY DEF Links!Init
<1> HIDE DEF c
<1>4. r1 \in [LinksScopes -> LinksInterfaces] /\ r1.container = c /\ r1["container"] = c
  BY <1>2, <1>3, LinksAbsences DEF LinksScopes
<1>5. r4 = [n \in Names |-> Links!State(r1["container"][n])]
  BY DEF Links!Init, Links!Mirrored
<1>6. r4 \in [Names -> LinksStates]
  <2>1. \A n \in Names : r1["container"][n] \in LinksLinkRecord
    BY <1>2, <1>4 DEF LinksInterfaces
  <2> QED
    BY <1>5, <2>1, LinksReads
<1>7. Links!Types
  BY <1>4, <1>6, LinksNoCommands, LinksTypedInit DEF Links!Init, LinksTyping
<1>8. Links!CommandInv
  BY LinksNoCommands DEF Links!Init, Links!CommandInv, Links!NoCommand
<1>9. Links!RealInv
  BY <1>1, <1>2, <1>4 DEF Links!RealInv
<1>10. Links!StubInv
  BY <1>5 DEF Links!Init, Links!StubInv, Links!namespace
<1> QED
  BY <1>7, <1>8, <1>9, <1>10 DEF Links!IInv

\* What ip does to one interface of the current namespace.
LEMMA LinksIp ==
  ASSUME Links!IInv, NEW n \in Names, NEW r \in LinksLinkRecord, Links!ip(n, r)
  PROVE  /\ r1' \in [LinksScopes -> LinksInterfaces] /\ r1'[Links!namespace][n] = r
         /\ \A m \in Names \ {n} : r1'[Links!namespace][m] = r1[Links!namespace][m]
         /\ \A s \in LinksScopes \ {Links!namespace} : r1'[s] = r1[s]
<1>1. r1 \in [LinksScopes -> LinksInterfaces] /\ Links!namespace \in LinksScopes
  BY LinksTyped DEF Links!IInv, LinksTyping, Links!namespace, LinksScopes
<1> DEFINE f == [r1[Links!namespace] EXCEPT ![n] = r]
<1>2. f \in LinksInterfaces /\ f[n] = r /\ \A m \in Names \ {n} : f[m] = r1[Links!namespace][m]
  BY <1>1 DEF LinksInterfaces
<1>3. r1' = [r1 EXCEPT ![Links!namespace] = f]
  BY DEF Links!ip
<1> HIDE DEF f
<1> QED
  BY <1>1, <1>2, <1>3

\* A command moves on.
LEMMA LinksWent ==
  ASSUME Links!IInv, NEW pc \in Links!Pcs, Links!Goto(pc)
  PROVE  r6' \in LinksCommands /\ r6'.pc = pc /\ r6'.name = r6.name /\ r6'.on = r6.on
BY LinksTyped DEF Links!Goto, Links!IInv, LinksTyping, LinksCommands

\* A change of one interface that is not a real one, by a command that works on it.
LEMMA LinksChanged ==
  ASSUME "eth1" \in Names, Links!IInv, r1[Links!namespace][r6.on].kind # "real", NEW r \in LinksLinkRecord,
       r.kind # "real",
         UNCHANGED <<r2, r3, r4, r5, r7, r8>>, r6.pc \in {"begin", "set"},
         \/ UNCHANGED r1 /\ r = r1[Links!namespace][r6.on]
         \/ Links!ip(r6.on, r),
         \/ Links!Goto("set") /\ r6.name = "link" /\ r.kind = "dummy"
         \/ Links!Goto("mirror") /\ r6.name \in {"link", "unlink"}
  PROVE  Links!IInv' /\ Links!RealStays
<1>a. /\ r1 \in [LinksScopes -> LinksInterfaces] /\ Links!namespace \in LinksScopes /\ r6.on \in Names
           /\ Links!REAL \in Names
      /\ "set" \in Links!Pcs /\ "mirror" \in Links!Pcs
  BY LinksTyped DEF Links!IInv, LinksTyping, Links!namespace, LinksScopes, LinksCommands, Links!REAL,
       Links!Pcs
<1>1. /\ r1' \in [LinksScopes -> LinksInterfaces] /\ r1'[Links!namespace][r6.on] = r
      /\ \A m \in Names \ {r6.on} : r1'[Links!namespace][m] = r1[Links!namespace][m]
      /\ \A s \in LinksScopes \ {Links!namespace} : r1'[s] = r1[s]
  BY <1>a, LinksIp
<1>2. /\ r6' \in LinksCommands /\ r6'.pc \in {"set", "mirror"} /\ r6'.name = r6.name /\ r6'.on = r6.on
      /\ (r6'.pc = "set" => r6.name = "link" /\ r.kind = "dummy")
      /\ (r6'.pc = "mirror" => r6.name \in {"link", "unlink"})
  BY <1>a, LinksWent
<1>3. Links!namespace' = Links!namespace
  BY DEF Links!namespace
<1>4. Links!Types'
  BY <1>1, <1>2, LinksTyped, LinksTypedNext DEF Links!IInv, LinksTyping
<1>5. Links!CommandInv'
  BY <1>1, <1>2, <1>3 DEF Links!CommandInv
<1>6. r1'["container"][Links!REAL] = r1["container"][Links!REAL]
  <2>1. CASE Links!namespace = "container"
    <3>1. r6.on # Links!REAL
      BY <2>1 DEF Links!IInv, Links!RealInv
    <3> QED
      BY <1>1, <1>a, <2>1, <3>1
  <2>2. CASE Links!namespace # "container"
    BY <1>1, <2>2 DEF LinksScopes
  <2> QED
    BY <2>1, <2>2
<1>7. Links!RealInv' /\ Links!RealStays
  BY <1>6 DEF Links!IInv, Links!RealInv, Links!RealStays
<1>8. Links!StubInv'
  <2>1. \A n \in Names \ {r6.on} : r7 => r4[n] = Links!State(r1[Links!namespace][n])
    BY DEF Links!IInv, Links!StubInv, Links!Unmirrored
  <2>2. \A n \in Names \ {r6.on} : r7' => r4'[n] = Links!State(r1'[Links!namespace'][n])
    BY <1>1, <1>3, <2>1
  <2> QED
    BY <1>2, <2>2 DEF Links!StubInv, Links!Unmirrored
<1> QED
  BY <1>4, <1>5, <1>7, <1>8 DEF Links!IInv

\* A step that leaves the links and the stubs alone, and trusts them no more than before.
LEMMA LinksQuiet ==
  ASSUME Links!IInv, UNCHANGED <<r1, r2, r3, r4>>, r6' \in LinksCommands, r7' \in BOOLEAN, r8' \in Nat,
         r5' \subseteq {"netem", "tbf"},
         \/ r6'.pc \in {"idle", "begin"} \/ (r6'.pc \in {"netem", "tbf"} /\ r6'.name = "shape"),
         r7' => r7 /\ r6.pc \in {"idle", "begin", "netem", "tbf"}
  PROVE  Links!IInv' /\ Links!RealStays
<1>1. Links!Types'
  BY LinksTyped, LinksTypedNext DEF Links!IInv, LinksTyping
<1>2. Links!CommandInv'
  BY DEF Links!CommandInv
<1>3. Links!namespace' = Links!namespace
  BY DEF Links!namespace
<1>4. Links!StubInv'
  BY <1>3 DEF Links!IInv, Links!StubInv, Links!Unmirrored
<1> QED
  BY <1>1, <1>2, <1>4 DEF Links!IInv, Links!RealInv, Links!RealStays

\* A step of a command on the namespace itself, which touches no link of the container.
LEMMA LinksMoved ==
  ASSUME Links!IInv, r1' \in [LinksScopes -> LinksInterfaces], r1'["container"] = r1["container"],
       r2' \in BOOLEAN,
         r3' \in BOOLEAN, r4' \in [Names -> LinksStates], r6' \in LinksCommands, r7' \in BOOLEAN,
         UNCHANGED <<r5, r8>>, Links!CommandInv', Links!StubInv'
  PROVE  Links!IInv' /\ Links!RealStays
<1>1. Links!Types'
  BY LinksTyped, LinksTypedNext DEF Links!IInv, LinksTyping
<1> QED
  BY <1>1 DEF Links!IInv, Links!RealInv, Links!RealStays

\* Every step of isolate() keeps the invariant, and the container's own link,
LEMMA LinksIsolates == ASSUME "eth1" \in Names, Links!IInv, Links!isolate
     PROVE Links!IInv' /\ Links!RealStays
<1>a. LinksTyping /\ {"add", "lo", "clear"} \subseteq Links!Pcs /\ UNCHANGED <<r5, r8>>
  BY LinksTyped DEF Links!IInv, Links!Pcs, Links!isolate
<1>1. CASE /\ Links!At("isolate", "begin") /\ r2' = FALSE /\ r1' = [r1 EXCEPT !.guest = Links!Empty]
                /\ Links!Goto("add")
           /\ r7' = (r7 /\ Links!namespace = "container") /\ UNCHANGED <<r3, r4>>
  <2>1. r1' \in [LinksScopes -> LinksInterfaces] /\ r1'["container"] = r1["container"]
          /\ r1'["guest"] = Links!Empty
    BY <1>1, <1>a, LinksAbsences DEF LinksTyping, LinksScopes
  <2>2. r6' \in LinksCommands /\ r6'.pc = "add" /\ r6'.name = "isolate"
    BY <1>1, <1>a, LinksWent DEF Links!At
  <2>3. Links!CommandInv' /\ Links!StubInv'
    BY <2>1, <2>2 DEF Links!CommandInv, Links!StubInv
  <2>4. r7' \in BOOLEAN
    BY <1>1
  <2> QED
    BY <1>1, <1>a, <2>1, <2>2, <2>3, <2>4, LinksMoved DEF LinksTyping
<1>2. CASE Links!At("isolate", "add") /\ r2' = TRUE /\ Links!Goto("lo") /\ UNCHANGED <<r1, r3, r4, r7>>
  <2>1. r6' \in LinksCommands /\ r6'.pc = "lo" /\ r6'.name = "isolate" /\ r1["guest"] = Links!Empty
    BY <1>2, <1>a, LinksWent DEF Links!At, Links!IInv, Links!CommandInv
  <2>2. Links!CommandInv' /\ Links!StubInv'
    BY <1>2, <2>1 DEF Links!CommandInv, Links!StubInv
  <2> QED
    BY <1>2, <1>a, <2>1, <2>2, LinksMoved DEF LinksTyping
<1>3. CASE Links!At("isolate", "lo") /\ r3' = TRUE /\ Links!Goto("clear") /\ r7' = FALSE
             /\ UNCHANGED <<r1, r2, r4>>
  <2>1. r6' \in LinksCommands /\ r6'.pc = "clear" /\ r6'.name = "isolate" /\ r1["guest"] = Links!Empty /\ r2
    BY <1>3, <1>a, LinksWent DEF Links!At, Links!IInv, Links!CommandInv
  <2>2. Links!CommandInv' /\ Links!StubInv'
    BY <1>3, <2>1 DEF Links!CommandInv, Links!StubInv
  <2> QED
    BY <1>3, <1>a, <2>1, <2>2, LinksMoved DEF LinksTyping
<1>4. CASE /\ Links!At("isolate", "clear") /\ r4' = [n \in Names |-> "none"] /\ Links!Done /\ r7' = TRUE
           /\ UNCHANGED <<r1, r2, r3>>
  <2>1. r6' \in LinksCommands /\ r6'.pc = "idle" /\ r6' = Links!NoCommand
    BY <1>4, LinksNoCommands DEF Links!Done
  <2>2. r1["guest"] = Links!Empty /\ r2 /\ r3
    BY <1>4 DEF Links!At, Links!IInv, Links!CommandInv
  <2>3. Links!namespace' = "guest"
    BY <1>4, <2>2 DEF Links!namespace
  <2>4. \A n \in Names : r4'[n] = Links!State(r1'[Links!namespace'][n])
    BY <1>4, <2>2, <2>3, LinksAbsences DEF Links!State
  <2>5. Links!CommandInv' /\ Links!StubInv'
    BY <2>1, <2>4 DEF Links!CommandInv, Links!StubInv
  <2>6. r4' \in [Names -> LinksStates]
    BY <1>4 DEF LinksStates
  <2> QED
    BY <1>4, <1>a, <2>1, <2>5, <2>6, LinksMoved DEF LinksTyping
<1> QED
  BY <1>1, <1>2, <1>3, <1>4 DEF Links!isolate

\* and so does every step of share().
LEMMA LinksShares == ASSUME "eth1" \in Names, Links!IInv, Links!share PROVE Links!IInv' /\ Links!RealStays
<1>a. LinksTyping /\ {"clear", "rebuild"} \subseteq Links!Pcs /\ UNCHANGED <<r5, r8>>
  BY LinksTyped DEF Links!IInv, Links!Pcs, Links!share
<1>1. CASE /\ Links!At("share", "begin") /\ r3' = FALSE /\ r2' = (r2 /\ Links!namespace = "container")
           /\ r1' = [r1 EXCEPT !.guest = IF r2' THEN @ ELSE Links!Empty]
           /\ r7' = FALSE /\ Links!Goto("clear") /\ UNCHANGED r4
  <2>1. r1' \in [LinksScopes -> LinksInterfaces] /\ r1'["container"] = r1["container"]
    BY <1>1, <1>a, LinksAbsences DEF LinksTyping, LinksScopes
  <2>2. r6' \in LinksCommands /\ r6'.pc = "clear" /\ r6'.name = "share"
    BY <1>1, <1>a, LinksWent DEF Links!At
  <2>3. Links!CommandInv' /\ Links!StubInv'
    BY <1>1, <2>2 DEF Links!CommandInv, Links!StubInv
  <2>4. r2' \in BOOLEAN
    BY <1>1
  <2> QED
    BY <1>1, <1>a, <2>1, <2>2, <2>3, <2>4, LinksMoved DEF LinksTyping
<1>2. CASE /\ Links!At("share", "clear") /\ r4' = Links!clear_stubs /\ Links!Goto("rebuild")
                /\ UNCHANGED <<r1, r2, r3, r7>>
  <2>1. r6' \in LinksCommands /\ r6'.pc = "rebuild" /\ r6'.name = "share" /\ ~r3
    BY <1>2, <1>a, LinksWent DEF Links!At, Links!IInv, Links!CommandInv
  <2>2. r4' \in [Names -> LinksStates] /\ \A n \in Names : r4'[n] = "none"
    BY <1>2 DEF Links!clear_stubs, LinksStates
  <2>3. Links!CommandInv' /\ Links!StubInv'
    BY <1>2, <2>1, <2>2 DEF Links!CommandInv, Links!StubInv
  <2> QED
    BY <1>2, <1>a, <2>1, <2>2, <2>3, LinksMoved DEF LinksTyping
<1>3. CASE /\ Links!At("share", "rebuild") /\ Links!Done /\ r7' = TRUE
           /\ r4' = [n \in Names |-> IF r1.container[n].kind = "none" THEN r4[n] ELSE Links!State(r1.container[n])]
           /\ UNCHANGED <<r1, r2, r3>>
  <2>1. r6' \in LinksCommands /\ r6'.pc = "idle" /\ r6' = Links!NoCommand
    BY <1>3, LinksNoCommands DEF Links!Done
  <2>2. ~r3 /\ \A n \in Names : r4[n] = "none"
    BY <1>3 DEF Links!At, Links!IInv, Links!CommandInv
  <2>3. Links!namespace' = "container" /\ \A n \in Names : r1["container"][n] \in LinksLinkRecord
    BY <1>3, <1>a, <2>2 DEF Links!namespace, LinksTyping, LinksScopes, LinksInterfaces
  <2>4. \A n \in Names : r4'[n] = Links!State(r1["container"][n])
    BY <1>3, <2>2 DEF Links!State
  <2>5. r4' \in [Names -> LinksStates]
    <3>1. \A n \in Names : Links!State(r1["container"][n]) \in LinksStates
      BY <2>3, LinksReads
    <3> QED
      BY <1>3, <1>a, <3>1 DEF LinksTyping
  <2>6. Links!CommandInv' /\ Links!StubInv'
    BY <1>3, <2>1, <2>3, <2>4 DEF Links!CommandInv, Links!StubInv
  <2> QED
    BY <1>3, <1>a, <2>1, <2>5, <2>6, LinksMoved DEF LinksTyping
<1> QED
  BY <1>1, <1>2, <1>3 DEF Links!share

\* Every step keeps both.
LEMMA LinksStepInv == ASSUME "eth1" \in Names, Links!IInv, [Links!Next]_Links!vars
     PROVE Links!IInv' /\ Links!RealStays
<1>a. LinksTyping /\ Links!NoCommand \in LinksCommands /\ Links!NoCommand.pc = "idle"
  BY LinksTyped, LinksNoCommands DEF Links!IInv
<1>b. r1 \in [LinksScopes -> LinksInterfaces] /\ Links!namespace \in LinksScopes /\ r6.on \in Names
        /\ r1[Links!namespace][r6.on] \in LinksLinkRecord
  BY <1>a DEF LinksTyping, Links!namespace, LinksScopes, LinksCommands, LinksInterfaces
<1>1. CASE Links!main
  <2>1. PICK name \in {"link", "unlink", "isolate", "share", "shape"}, n \in Names,
             s \in {"up", "down", "none"} :
          r6' = [name |-> name, pc |-> "begin", on |-> n, state |-> s]
    BY <1>1 DEF Links!main
  <2>2. r6' \in LinksCommands /\ r6'.pc = "begin"
    BY <2>1 DEF LinksCommands, Links!Pcs
  <2> QED
    BY <1>1, <1>a, <2>2, LinksQuiet DEF Links!main, LinksTyping
<1>2. CASE Links!Fails
  BY <1>2, <1>a, LinksQuiet DEF Links!Fails, Links!Done, LinksTyping
<1>3. CASE Links!Refused
  BY <1>3, <1>a, LinksQuiet DEF Links!Refused, Links!Done, LinksTyping
<1>4. CASE Links!link
  <2>1. CASE /\ Links!At("link", "begin") /\ r1[Links!namespace][r6.on].kind # "real"
             /\ IF Links!is_dummy(r6.on) THEN UNCHANGED r1 ELSE Links!ip(r6.on,
                                                                         [kind |-> "dummy", up |-> FALSE])
             /\ Links!Goto("set")
    <3> DEFINE r == [kind |-> "dummy", up |-> FALSE]
    <3>1. r \in LinksLinkRecord /\ r.kind = "dummy"
      BY DEF LinksLinkRecord
    <3> HIDE DEF r
    <3>2. CASE Links!is_dummy(r6.on)
      BY <1>4, <1>b, <2>1, <3>2, LinksChanged DEF Links!link, Links!At, Links!is_dummy
    <3>3. CASE ~Links!is_dummy(r6.on)
      <4>1. Links!ip(r6.on, r)
        BY <2>1, <3>3 DEF r
      <4> QED
        BY <1>4, <1>b, <2>1, <3>1, <4>1, LinksChanged DEF Links!link, Links!At
    <3> QED
      BY <3>2, <3>3
  <2>2. CASE /\ Links!At("link", "set") /\ Links!Goto("mirror")
             /\ Links!ip(r6.on,
                         [r1[Links!namespace][r6.on] EXCEPT !.up = IF r6.state = "none" THEN @ ELSE r6.state = "up"])
    <3> DEFINE u == IF r6.state = "none" THEN r1[Links!namespace][r6.on].up ELSE r6.state = "up"
               r == [r1[Links!namespace][r6.on] EXCEPT !.up = u]
    <3>1. r1[Links!namespace][r6.on].kind = "dummy"
      BY <2>2 DEF Links!At, Links!IInv, Links!CommandInv
    <3>2. u \in BOOLEAN
      BY <1>b DEF LinksLinkRecord
    <3>3. Links!ip(r6.on, r)
      BY <2>2
    <3> HIDE DEF u
    <3>4. r \in LinksLinkRecord /\ r.kind = "dummy"
      BY <1>b, <3>1, <3>2 DEF LinksLinkRecord
    <3> HIDE DEF r
    <3> QED
      BY <1>4, <2>2, <3>1, <3>3, <3>4, LinksChanged DEF Links!link, Links!At
  <2> QED
    BY <1>4, <2>1, <2>2 DEF Links!link
<1>5. CASE Links!unlink
  <2>1. Links!Absent \in LinksLinkRecord /\ Links!Absent.kind = "none"
    BY DEF Links!Absent, LinksLinkRecord
  <2> QED
    BY <1>5, <2>1, LinksChanged DEF Links!unlink, Links!At
<1>6. CASE Links!mirror
  <2>1. r6' \in LinksCommands /\ r6'.pc = "idle" /\ r6' = Links!NoCommand
    BY <1>6, <1>a DEF Links!mirror, Links!Done
  <2>2. Links!State(r1[Links!namespace][r6.on]) \in LinksStates
    BY <1>b, LinksReads
  <2>3. UNCHANGED <<r1, r2, r3, r5, r7, r8>> /\ r6.pc = "mirror"
    BY <1>6 DEF Links!mirror
  <2>4. /\ r4' \in [Names -> LinksStates] /\ r4'[r6.on] = Links!State(r1[Links!namespace][r6.on])
        /\ \A n \in Names \ {r6.on} : r4'[n] = r4[n]
    BY <1>6, <1>a, <1>b, <2>2 DEF Links!mirror, LinksTyping
  <2>5. Links!namespace' = Links!namespace
    BY <2>3 DEF Links!namespace
  <2>6. r7 => \A n \in Names : r4'[n] = Links!State(r1[Links!namespace][n])
    BY <2>3, <2>4 DEF Links!IInv, Links!StubInv, Links!Unmirrored
  <2>7. Links!CommandInv' /\ Links!StubInv'
    BY <2>1, <2>3, <2>5, <2>6 DEF Links!CommandInv, Links!StubInv
  <2> QED
    BY <1>a, <2>1, <2>3, <2>4, <2>7, LinksMoved DEF LinksTyping
<1>7. CASE Links!isolate \/ Links!share
  BY <1>7, LinksIsolates, LinksShares
<1>8. CASE Links!shape
  <2>1. r6.pc \in {"begin", "netem", "tbf"} /\ UNCHANGED <<r1, r2, r3, r4, r7, r8>>
          /\ r5' \subseteq {"netem", "tbf"}
    BY <1>8, <1>a DEF Links!shape, Links!At, LinksTyping
  <2>2. r6' = Links!NoCommand \/ (r6.name = "shape" /\ \E pc \in {"netem", "tbf"} : Links!Goto(pc))
    BY <1>8 DEF Links!shape, Links!At, Links!Done
  <2>3. r6' \in LinksCommands /\ (r6'.pc = "idle" \/ (r6'.pc \in {"netem", "tbf"} /\ r6'.name = "shape"))
    BY <1>a, <2>2, LinksWent DEF Links!Pcs
  <2> QED
    BY <1>a, <2>1, <2>3, LinksQuiet DEF LinksTyping
<1>9. CASE UNCHANGED Links!vars
  <2>1. Links!IInv'
    BY <1>9 DEF Links!vars, Links!IInv, Links!Types, Links!TypeOK, Links!CommandInv, Links!RealInv,
         Links!StubInv, Links!Unmirrored, Links!namespace
  <2> QED
    BY <1>9, <2>1 DEF Links!vars, Links!RealStays
<1> QED
  BY <1>1, <1>2, <1>3, <1>4, <1>5, <1>6, <1>7, <1>8, <1>9 DEF Links!Next

\* Between commands a trusted stub is the link's.
LEMMA LinksStubs == ASSUME Links!IInv PROVE Links!StubsMirror
<1> SUFFICES ASSUME r7, r6.pc = "idle" PROVE r4 = Links!Mirrored(Links!namespace)
  BY DEF Links!StubsMirror
<1>1. \A n \in Names : r4[n] = Links!State(r1[Links!namespace][n])
  BY DEF Links!IInv, Links!StubInv, Links!Unmirrored
<1> QED
  BY <1>1, LinksTyped DEF Links!IInv, LinksTyping, Links!Mirrored

(* ------------------------------- the composition ------------------------------- *)

Components == {"machine", "peripherals", "screen", "touch", "capture",
               "setup", "ready", "watch", "card", "links"}
IInv ==
  /\ part \in Components
  /\ part = "machine" => Machine!IInv
  /\ part = "peripherals" => Peripherals!IInv
  /\ part = "screen" => Screen!IInv
  /\ part = "touch" => Touch!TypeOK
  /\ part = "capture" => Capture!IInv
  /\ part = "setup" => Setup!IInv
  /\ part = "ready" => BootReady!IInv
  /\ part = "watch" => PowerWatch!IInv
  /\ part = "card" => Card!IInv
  /\ part = "links" => Links!IInv

\* What the components assume of the constants.
LEMMA Assumptions ==
  /\ MaxDeaths \in Nat /\ MaxDeaths \in {0, 1} /\ Viewer \in Clients
  /\ MaxBoots \in Nat /\ MaxDraws \in Nat /\ MaxTouches \in Nat /\ MaxCaptures \in Nat
  /\ CaptureBounds /\ Preset \in Menu /\ Menu # {Preset} /\ 0 \notin Menu /\ Setup!Wizard \notin Menu
  /\ 0 \notin Pids /\ "none" \notin Watchers /\ "none" \notin Loops /\ "eth1" \in Names
BY EmulatorConstants DEF CaptureBounds, Setup!Wizard

\* The invariant holds initially,
LEMMA InitIInv == Init => IInv
<1> SUFFICES ASSUME Init PROVE IInv
  OBVIOUS
<1>0. part \in Components
  BY DEF Init, Components
<1>1. part = "machine" => Machine!IInv
  BY Assumptions, MachineInitInv DEF Init
<1>2. part = "peripherals" => Peripherals!IInv
  BY Assumptions, PeriphInitInv DEF Init
<1>3. part = "screen" => Screen!IInv
  BY Assumptions, ScreenInitInv DEF Init
<1>4. part = "touch" => Touch!TypeOK
  BY Assumptions, TouchInit DEF Init
<1>5. part = "capture" => Capture!IInv
  BY Assumptions, CaptureInitInv DEF Init
<1>6. part = "setup" => Setup!IInv
  BY Assumptions, SetupInitInv DEF Init
<1>7. part = "ready" => BootReady!IInv
  BY Assumptions, ReadyInitInv DEF Init
<1>8. part = "watch" => PowerWatch!IInv
  BY Assumptions, WatchInitInv DEF Init
<1>9. part = "card" => Card!IInv
  BY Assumptions, CardInitInv DEF Init
<1>10. part = "links" => Links!IInv
  BY Assumptions, LinksInitInv DEF Init
<1> QED
  BY <1>0, <1>1, <1>2, <1>3, <1>4, <1>5, <1>6, <1>7, <1>8, <1>9, <1>10 DEF IInv

\* and after every step, whichever component takes it.
LEMMA StepIInv == IInv /\ [Next]_vars => IInv'
<1> SUFFICES ASSUME IInv, [Next]_vars PROVE IInv'
  OBVIOUS
<1>0. part' = part /\ part \in Components
  BY DEF IInv, Next, vars
<1>1. ASSUME part = "machine" PROVE Machine!IInv'
  <2>1. [Machine!Next]_(Machine!vars)
    BY <1>1 DEF Next, vars, Machine!vars
  <2> QED
    BY <1>1, <2>1, Assumptions, MachineStepInv DEF IInv
<1>2. ASSUME part = "peripherals" PROVE Peripherals!IInv'
  <2>1. [Peripherals!Next]_(Peripherals!vars)
    BY <1>2 DEF Next, vars, Peripherals!vars, Peripherals!keys, Peripherals!sdcard, Peripherals!history
  <2> QED
    BY <1>2, <2>1, Assumptions, PeriphStepInv DEF IInv
<1>3. ASSUME part = "screen" PROVE Screen!IInv'
  <2>1. [Screen!Next]_(Screen!vars)
    BY <1>3 DEF Next, vars, Screen!vars
  <2> QED
    BY <1>3, <2>1, Assumptions, ScreenStepInv DEF IInv
<1>4. ASSUME part = "touch" PROVE Touch!TypeOK'
  <2>1. [Touch!Next]_(Touch!vars)
    BY <1>4 DEF Next, vars, Touch!vars
  <2> QED
    BY <1>4, <2>1, Assumptions, TouchStep DEF IInv
<1>5. ASSUME part = "capture" PROVE Capture!IInv'
  <2>1. [Capture!Next]_(Capture!vars)
    BY <1>5 DEF Next, vars, Capture!vars
  <2> QED
    BY <1>5, <2>1, Assumptions, CaptureStepInv DEF IInv
<1>6. ASSUME part = "setup" PROVE Setup!IInv'
  <2>1. [Setup!Next]_(Setup!vars)
    BY <1>6 DEF Next, vars, Setup!vars
  <2> QED
    BY <1>6, <2>1, Assumptions, SetupStepInv DEF IInv
<1>7. ASSUME part = "ready" PROVE BootReady!IInv'
  <2>1. [BootReady!Next]_(BootReady!vars)
    BY <1>7 DEF Next, vars, BootReady!vars
  <2> QED
    BY <1>7, <2>1, Assumptions, ReadyStepInv DEF IInv
<1>8. ASSUME part = "watch" PROVE PowerWatch!IInv'
  <2>1. [PowerWatch!Next]_(PowerWatch!vars)
    BY <1>8 DEF Next, vars, PowerWatch!vars
  <2> QED
    BY <1>8, <2>1, Assumptions, WatchStepInv DEF IInv
<1>9. ASSUME part = "card" PROVE Card!IInv'
  <2>1. [Card!Next]_(Card!vars)
    BY <1>9 DEF Next, vars, Card!vars
  <2> QED
    BY <1>9, <2>1, Assumptions, CardStepInv DEF IInv
<1>10. ASSUME part = "links" PROVE Links!IInv'
  <2>1. [Links!Next]_(Links!vars)
    BY <1>10 DEF Next, vars, Links!vars
  <2> QED
    BY <1>10, <2>1, Assumptions, LinksStepInv DEF IInv
<1> QED
  BY <1>0, <1>1, <1>2, <1>3, <1>4, <1>5, <1>6, <1>7, <1>8, <1>9, <1>10 DEF IInv

\* The invariant of every component, for every value of the constants: however many clients,
\* viewers, browsers, watchers and users, whatever the bounds on boots, draws, touches and captures.
THEOREM EmulatorInvariance == Spec => []IInv
BY InitIInv, StepIInv, PTL DEF Spec

\* The types of the components' variables.
THEOREM EmulatorTypes == Spec => []TypeOK
<1>1. ASSUME IInv PROVE TypeOK
  <2>0. part \in Components
    BY <1>1 DEF IInv
  <2>1. part = "machine" => Machine!TypeOK
    BY <1>1 DEF IInv, Machine!IInv
  <2>2. part = "peripherals" => Peripherals!TypeOK
    BY <1>1 DEF IInv, Peripherals!IInv, Peripherals!Types
  <2>3. part = "screen" => Screen!TypeOK
    BY <1>1 DEF IInv, Screen!IInv, Screen!Types
  <2>4. part = "touch" => Touch!TypeOK
    BY <1>1 DEF IInv
  <2>5. part = "capture" => Capture!TypeOK
    BY <1>1 DEF IInv, Capture!IInv, Capture!Types
  <2>6. part = "setup" => Setup!TypeOK
    BY <1>1 DEF IInv, Setup!IInv, Setup!Types
  <2>7. part = "ready" => BootReady!TypeOK
    BY <1>1 DEF IInv, BootReady!IInv, BootReady!Types
  <2>8. part = "watch" => PowerWatch!TypeOK
    BY <1>1 DEF IInv, PowerWatch!IInv, PowerWatch!Types
  <2>9. part = "card" => Card!TypeOK
    BY <1>1 DEF IInv, Card!IInv, Card!Types
  <2>10. part = "links" => Links!TypeOK
    BY <1>1 DEF IInv, Links!IInv, Links!Types
  <2> QED
    BY <2>0, <2>1, <2>2, <2>3, <2>4, <2>5, <2>6, <2>7, <2>8, <2>9, <2>10 DEF TypeOK, Components
<1> QED
  BY <1>1, EmulatorInvariance, PTL

\* Once the state says "off" nothing of a guest runs, and a supervisor that was not killed leaves no
\* guest; a call that ends leaves no loop device of the card image; a released key is up
\* (machine.py run(), card/build.py, buttons.py).
THEOREM NothingLeft == Spec => []NothingIsLeft
<1>1. ASSUME IInv PROVE NothingIsLeft
  <2>1. part = "machine" => Machine!OffMeansOff /\ Machine!NoOrphan
    BY <1>1, MachineOff, MachineOrphans DEF IInv
  <2>2. part = "card" => Card!NothingLeftBehind
    BY <1>1, CardLeft DEF IInv
  <2>3. part = "peripherals" => Peripherals!LowHasAnOwner /\ Peripherals!RepeatsFollowAPress
    BY <1>1 DEF IInv, Peripherals!IInv
  <2> QED
    BY <2>1, <2>2, <2>3 DEF NothingIsLeft
<1> QED
  BY <1>1, EmulatorInvariance, PTL

\* An ejected card is unmounted and the player's cleanup finds nothing to delete, whichever step of
\* the ejection failed; no setup leaves a first boot with the wizard (peripherals.py, setup).
THEOREM DataKept == Spec => []DataSurvives
<1>1. ASSUME IInv PROVE DataSurvives
  <2>1. part = "peripherals" => Peripherals!EjectedIsUnmounted /\ Peripherals!OnlyDisturbedIsWiped
    BY <1>1, PeriphEjected DEF IInv, Peripherals!IInv
  <2>2. part = "setup" => Setup!NoWizard
    BY <1>1 DEF IInv, Setup!IInv
  <2> QED
    BY <2>1, <2>2 DEF DataSurvives
<1> QED
  BY <1>1, EmulatorInvariance, PTL

\* A reader that looks at several files while they change is told what was true of them: the sound
\* of one capture, the output's own state, the guest's links, one power watcher.
THEOREM ReadersTold == Spec => []ReadersAreTold
<1>1. ASSUME IInv PROVE ReadersAreTold
  <2>1. part = "capture" => Capture!ExportIsOneCapture /\ Capture!OutputIsTrue
    BY <1>1, Assumptions, CaptureTold DEF IInv
  <2>2. part = "links" => Links!StubsMirror
    BY <1>1, LinksStubs DEF IInv
  <2>3. part = "watch" => PowerWatch!OneWatcher
    BY <1>1, WatchServed DEF IInv
  <2> QED
    BY <2>1, <2>2, <2>3 DEF ReadersAreTold
<1> QED
  BY <1>1, EmulatorInvariance, PTL

\* No step powers on over a living boot, answers a start before this boot's player has drawn, shows
\* an older picture again, undoes a setting of the user or touches the container's own link.
THEOREM SoundSteps == Spec => StepsAreSound
<1>1. ASSUME IInv, [Next]_vars
      PROVE  [/\ part = "machine" => Machine!BootsAlone
              /\ part = "ready" => BootReady!DrawnBefore
              /\ part = "screen" => Screen!Advances
              /\ part = "setup" => Setup!Keeps
              /\ part = "links" => Links!RealStays]_vars
  <2>1. ASSUME part = "machine" PROVE Machine!BootsAlone
    <3>1. [Machine!Next]_(Machine!vars)
      BY <1>1, <2>1 DEF Next, vars, Machine!vars
    <3> QED
      BY <1>1, <2>1, <3>1, MachineBoots DEF IInv
  <2>2. ASSUME part = "ready" PROVE BootReady!DrawnBefore
    <3>1. [BootReady!Next]_(BootReady!vars)
      BY <1>1, <2>2 DEF Next, vars, BootReady!vars
    <3> QED
      BY <1>1, <2>2, <3>1, Assumptions, ReadyDrawn DEF IInv
  <2>3. ASSUME part = "screen" PROVE Screen!Advances
    <3>1. [Screen!Next]_(Screen!vars)
      BY <1>1, <2>3 DEF Next, vars, Screen!vars
    <3> QED
      BY <1>1, <2>3, <3>1, Assumptions, ScreenStepInv DEF IInv
  <2>4. ASSUME part = "setup" PROVE Setup!Keeps
    <3>1. [Setup!Next]_(Setup!vars)
      BY <1>1, <2>4 DEF Next, vars, Setup!vars
    <3> QED
      BY <1>1, <2>4, <3>1, Assumptions, SetupKept DEF IInv
  <2>5. ASSUME part = "links" PROVE Links!RealStays
    <3>1. [Links!Next]_(Links!vars)
      BY <1>1, <2>5 DEF Next, vars, Links!vars
    <3> QED
      BY <1>1, <2>5, <3>1, Assumptions, LinksStepInv DEF IInv
  <2> QED
    BY <2>1, <2>2, <2>3, <2>4, <2>5
<1> QED
  BY <1>1, EmulatorInvariance, PTL DEF Spec, StepsAreSound
=============================================================================
