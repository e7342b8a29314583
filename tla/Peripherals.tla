----------------------------- MODULE Peripherals -----------------------------
(* The hands on one emulated player: the viewer's HTTP handlers, its control   *)
(* loop, its SD-card and power threads, and the supervisor of a stock-init      *)
(* boot, who share the device lock, the GPIO levels, the card's nodes and mount. *)
EXTENDS Naturals, FiniteSets, Sequences

CONSTANTS Keys,        \* the keys that can be held
          MaxRequests  \* bound: requests of browsers

VARIABLES
  running,     \* the player's process runs
  transition,  \* Device.transition
  lock,        \* who has the device lock
  operation,   \* Peripherals.operation
  error,       \* the last SD operation failed
  sd,          \* the SD thread: position, direction, force
  card,        \* where the card's nodes are: "dev" or "saved"
  mount,       \* what /tmp/sdcard shows: "none", "card", "open" (a file is in use)
  uevents,     \* events the player has not handled
  wiped,       \* stock's cleanup has run over a mounted card
  settled,     \* the supervisor still watches the card after this start
  holds,       \* Buttons.holds: "no", "held" or "due"
  repeated,    \* Buttons._repeated
  level,       \* the keys whose GPIO level is low
  held,        \* keys-held: the persistent holds
  armed,       \* boot-keys: keys for the next power-on
  pressed,     \* the keys the player has last read a press of
  admitted,    \* a request that has passed the viewer's check of the operation
  count,       \* history: requests so far
  supervised,  \* the boot mode: a stock-init one has a supervisor outside the viewer
  disturbed    \* history: somebody else has mounted the card during an SD operation

sdcard == <<sd, card, mount, uevents, wiped, error>>
keys == <<holds, repeated, level, held, armed, pressed>>
vars == <<running, transition, lock, operation, error, sd, card, mount, uevents,
          wiped, settled, holds, repeated, level, held, armed, pressed, admitted, count, supervised,
          disturbed>>

history == <<count, supervised, disturbed>>

NoWork == [pc |-> "none", insert |-> FALSE, force |-> FALSE]

Init ==
  /\ running = TRUE /\ transition = "none" /\ lock = "none" /\ operation = FALSE
  /\ error = FALSE /\ sd = NoWork /\ card = "dev" /\ mount = "card" /\ uevents = <<>>
  /\ wiped = FALSE /\ settled = FALSE
  /\ holds = [k \in Keys |-> "no"] /\ repeated = {} /\ level = {} /\ held = {} /\ armed = {}
  /\ pressed = {} /\ admitted = "none" /\ count = 0 /\ disturbed = FALSE /\ supervised \in BOOLEAN

(* --------------------------------- the keys --------------------------------- *)

live == {k \in Keys : holds[k] # "no"}

\* gpio.apply: the persistent holds and the viewer's live ones.
apply(persistent, gestures) == level' = persistent \union gestures

\* Mutant: the level is not published when a hold ends.
Bug_Unpublished(ks) ==
  /\ holds' = [k \in Keys |-> IF k \in ks THEN "no" ELSE holds[k]]
  /\ repeated' = repeated \ ks /\ pressed' = pressed \ ks /\ UNCHANGED level

\* Mutant: the next hold of the key is a repetition.
Bug_Repeating(ks) ==
  /\ holds' = [k \in Keys |-> IF k \in ks THEN "no" ELSE holds[k]]
  /\ pressed' = pressed \ ks /\ apply(held, live \ ks) /\ UNCHANGED repeated

\* Buttons._end of keys that are held: a release, then their levels.
Ended(ks) ==
  /\ holds' = [k \in Keys |-> IF k \in ks THEN "no" ELSE holds[k]]
  /\ repeated' = repeated \ ks /\ pressed' = pressed \ ks /\ apply(held, live \ ks)

\* The viewer starts again: its threads and what it remembers are gone.
reset ==
  /\ transition = "none" /\ (operation \/ live # {} \/ admitted # "none")
  /\ holds' = [k \in Keys |-> "no"] /\ repeated' = {} /\ apply(held, {})
  /\ sd' = NoWork /\ lock' = "none" /\ operation' = FALSE /\ error' = FALSE /\ admitted' = "none"
  /\ UNCHANGED <<running, transition, card, mount, uevents, wiped, settled, held, armed, pressed, history>>

Request == count < MaxRequests /\ count' = count + 1

\* do_POST looks at the operation before it calls gesture().
Admit ==
  /\ admitted = "none" /\ ~operation /\ Request /\ \E gesture \in {"hold", "power"} : admitted' = gesture
  /\ UNCHANGED <<running, transition, lock, operation, sdcard, settled, keys, supervised, disturbed>>

Refused == admitted' = "none"

\* A hold of a volume key; holding on sends it again.
Hold(k) ==
  /\ admitted = "hold" /\ Refused
  /\ IF transition # "none" \/ ~running THEN UNCHANGED <<holds, repeated, level, pressed>>
     ELSE /\ holds' = [holds EXCEPT ![k] = "held"] /\ repeated' = repeated \union {k}
          /\ pressed' = IF k \in repeated THEN pressed ELSE pressed \union {k}
          /\ apply(held, live \union {k})
  /\ UNCHANGED <<running, transition, lock, operation, sdcard, settled, held, armed, history>>

\* "end" and "cancel" are accepted at any time.
End(k) ==
  /\ k \in live /\ Ended({k})
  /\ UNCHANGED <<running, transition, lock, operation, sdcard, settled, held, armed, admitted, history>>

\* Power: every hold is cancelled, then toggle_power waits for the device lock.
Power ==
  /\ admitted = "power" /\ lock = "none" /\ Refused
  /\ IF transition # "none" THEN UNCHANGED <<transition, holds, repeated, level, pressed>>
     ELSE Ended(live) /\ transition' = IF running THEN "stopping" ELSE "starting"
  /\ UNCHANGED <<running, lock, operation, sdcard, settled, held, armed, history>>

Due(k) ==
  /\ holds[k] = "held" /\ holds' = [holds EXCEPT ![k] = "due"]
  /\ UNCHANGED <<running, transition, lock, operation, sdcard, settled, repeated, level, held,
                 armed, pressed, admitted, history>>

due == {k \in Keys : holds[k] = "due"}

\* Mutant: like a gesture, only while the player runs.
Bug_expire ==
  /\ running /\ due # {} /\ Ended(due)
  /\ UNCHANGED <<running, transition, lock, operation, sdcard, settled, held, armed, admitted, history>>

expire ==
  /\ due # {} /\ Ended(due)
  /\ UNCHANGED <<running, transition, lock, operation, sdcard, settled, held, armed, admitted, history>>

\* The guest's own power-off; a stock-init guest's is served by its PID 1.
service_requests ==
  /\ lock = "none" /\ transition = "none" /\ ~supervised /\ running /\ transition' = "stopping"
  /\ UNCHANGED <<running, lock, operation, sdcard, settled, keys, admitted, history>>

set_boot_keys ==
  /\ Request /\ \E ks \in SUBSET Keys : armed' = ks
  /\ UNCHANGED <<running, transition, lock, operation, sdcard, settled, holds, repeated, level,
                 held, pressed, admitted, supervised, disturbed>>

(* ----------------------------- power transitions ----------------------------- *)

Unplayed == IF mount = "open" THEN "card" ELSE mount

\* Somebody mounts a card that an ejection has unmounted, and the player may not know of.
Disturbs == disturbed' = (disturbed \/ (sd.pc # "none" /\ ~sd.insert) \/ \E i \in DOMAIN uevents : uevents[i] = "remove")

\* A power loss takes the mounts of a stock-init guest with it; some process may survive.
PowerStops ==
  /\ transition = "stopping" /\ transition' = "none"
  /\ \/ /\ running' = FALSE /\ pressed' = {} /\ uevents' = <<>> /\ settled' = FALSE
        /\ mount' = IF supervised THEN "none" ELSE Unplayed
     \/ UNCHANGED <<running, pressed, uevents, settled, mount>>
  /\ UNCHANGED <<lock, operation, sd, card, wiped, error, holds, repeated, level, held, armed,
                 admitted, history>>

\* gpio.power_on, the programs, and the umount of mq_ui's start-up.
PowerStarts ==
  /\ transition = "starting" /\ transition' = "booting"
  /\ held' = armed /\ armed' = {} /\ apply(armed, {})
  /\ running' = TRUE /\ mount' = "none" /\ settled' = supervised
  /\ UNCHANGED <<lock, operation, sd, card, uevents, wiped, error, holds, repeated, pressed,
                 admitted, history>>

\* The card is mounted and the keys of the power-on are let go, unless the boot fails.
PowerBooted ==
  /\ transition = "booting" /\ transition' = "none"
  /\ \/ /\ held' = {} /\ apply({}, {}) /\ Disturbs /\ UNCHANGED <<running, uevents, pressed>>
        /\ mount' = IF mount = "none" /\ card = "dev" THEN "card" ELSE mount
     \/ /\ running' \in BOOLEAN /\ UNCHANGED <<held, level, disturbed>>
        /\ mount' = IF running' THEN mount ELSE Unplayed
        /\ uevents' = IF running' THEN uevents ELSE <<>>
        /\ pressed' = IF running' THEN pressed ELSE {}
  /\ UNCHANGED <<lock, operation, sd, card, wiped, error, settled, holds, repeated, armed, admitted,
                 count, supervised>>

\* The supervisor keeps the card mounted until the start-up has settled.
WatchMounts ==
  /\ settled /\ running /\ card = "dev" /\ mount = "none" /\ mount' = "card" /\ Disturbs
  /\ UNCHANGED <<running, transition, lock, operation, sd, card, uevents, wiped, error, settled,
                 keys, admitted, count, supervised>>

WatchSettles ==
  /\ settled /\ settled' = FALSE
  /\ UNCHANGED <<running, transition, lock, operation, sdcard, keys, admitted, history>>

(* -------------------------------- the player -------------------------------- *)

Plays(from, to) ==
  /\ running /\ mount = from /\ mount' = to
  /\ UNCHANGED <<running, transition, lock, operation, sd, card, uevents, wiped, error, settled,
                 keys, admitted, history>>

PlayerOpens == Plays("card", "open")
PlayerCloses == Plays("open", "card")

\* Stock mounts an added card; a removed one's mount point is unmounted and deleted.
PlayerHandles ==
  /\ running /\ uevents # <<>> /\ uevents' = Tail(uevents)
  /\ IF Head(uevents) = "add"
       THEN /\ mount' = IF mount = "none" /\ card = "dev" THEN "card" ELSE mount
            /\ Disturbs /\ UNCHANGED wiped
       ELSE /\ wiped' = (wiped \/ mount = "open") /\ UNCHANGED disturbed
            /\ mount' = IF mount = "card" THEN "none" ELSE mount
  /\ UNCHANGED <<running, transition, lock, operation, sd, card, error, settled, keys, admitted,
                 count, supervised>>

PlayerMisses ==
  /\ running /\ uevents # <<>> /\ uevents' = Tail(uevents)
  /\ UNCHANGED <<running, transition, lock, operation, sd, card, mount, wiped, error, settled,
                 keys, admitted, history>>

(* -------------------------------- the SD card -------------------------------- *)

set_sd(insert, force) ==
  /\ lock = "none" /\ transition = "none" /\ ~operation /\ Request
  /\ card = (IF insert THEN "saved" ELSE "dev") /\ (insert => ~force)
  /\ sd' = [pc |-> "check", insert |-> insert, force |-> force]
  /\ operation' = TRUE /\ error' = FALSE
  /\ UNCHANGED <<running, transition, lock, card, mount, uevents, wiped, settled, keys, admitted,
                 supervised, disturbed>>

Step(pc) == sd' = [sd EXCEPT !.pc = pc]
rest == <<running, transition, operation, settled, keys, admitted, history>>

\* The thread takes the device lock, which a power transition may have taken first.
SdChecks ==
  /\ sd.pc = "check" /\ lock = "none" /\ lock' = "sd" /\ Step(IF sd.insert THEN "move" ELSE "unmount")
  /\ UNCHANGED <<card, mount, uevents, wiped, error, rest>>

\* A check, a tool or a wait fails: what is done stays done.
SdFails ==
  /\ lock = "sd" /\ sd.pc # "done" /\ Step("done") /\ error' = TRUE
  /\ UNCHANGED <<lock, card, mount, uevents, wiped, rest>>

_move_nodes ==
  /\ sd.pc \in {"move", "moveback"}
  /\ card' = (IF sd.insert THEN "dev" ELSE "saved")
  /\ Step(IF sd.insert THEN "probe" ELSE "done")
  /\ UNCHANGED <<lock, mount, uevents, wiped, error, rest>>

_event ==
  /\ sd.pc \in {"probe", "remove"}
  /\ uevents' = IF running THEN Append(uevents, IF sd.insert THEN "add" ELSE "remove") ELSE uevents
  /\ Step(IF ~sd.insert THEN "moveback" ELSE IF running THEN "wait" ELSE "mount")
  /\ UNCHANGED <<lock, card, mount, wiped, error, rest>>

_wait_mount ==
  /\ sd.pc = "wait" /\ mount # "none" /\ Step("mount")
  /\ UNCHANGED <<lock, card, mount, uevents, wiped, error, rest>>

_mount_sd ==
  /\ sd.pc = "mount" /\ Step("done")
  /\ mount' = IF mount = "none" /\ card = "dev" THEN "card" ELSE mount
  /\ UNCHANGED <<lock, card, uevents, wiped, error, rest>>

\* Mutant: only a mount in use is unmounted.
Bug_KeepsMount ==
  /\ sd.pc = "unmount" /\ (mount # "open" \/ sd.force)
  /\ mount' = (IF mount = "open" THEN "none" ELSE mount) /\ Step("remove")
  /\ UNCHANGED <<lock, card, uevents, wiped, error, rest>>

\* Mutant: a busy card is left mounted and the stock cleanup is called nevertheless.
Bug_Busy ==
  /\ sd.pc = "unmount"
  /\ mount' = (IF mount = "open" /\ ~sd.force THEN mount ELSE "none") /\ Step("remove")
  /\ UNCHANGED <<lock, card, uevents, wiped, error, rest>>

_unmount_sd ==
  /\ sd.pc = "unmount" /\ (mount # "open" \/ sd.force)
  /\ mount' = "none" /\ Step("remove")
  /\ UNCHANGED <<lock, card, uevents, wiped, error, rest>>

SdEnds ==
  /\ sd.pc = "done" /\ sd' = NoWork /\ lock' = "none" /\ operation' = FALSE
  /\ UNCHANGED <<running, transition, card, mount, uevents, wiped, error, settled,
                 keys, admitted, history>>

(* ------------------------------- specification ------------------------------- *)

SdWorks == SdChecks \/ _move_nodes \/ _event \/ _wait_mount \/ _mount_sd \/ _unmount_sd \/ SdEnds
Next ==
  \/ reset \/ Admit \/ Power \/ expire \/ service_requests \/ set_boot_keys
  \/ \E k \in Keys : Hold(k) \/ End(k) \/ Due(k)
  \/ PowerStops \/ PowerStarts \/ PowerBooted \/ WatchMounts \/ WatchSettles
  \/ PlayerOpens \/ PlayerCloses \/ PlayerHandles \/ PlayerMisses
  \/ \E insert, force \in BOOLEAN : set_sd(insert, force)
  \/ SdWorks \/ SdFails

Spec == Init /\ [][Next]_vars
FairSpec == Spec /\ WF_vars(SdWorks \/ SdFails) /\ WF_vars(PlayerHandles \/ PlayerMisses) /\ WF_vars(expire) /\ WF_vars(Power)
                 /\ WF_vars(PowerStops \/ PowerStarts \/ PowerBooted)
                 /\ \A k \in Keys : WF_vars(Due(k))

(* -------------------------------- properties -------------------------------- *)

\* The range of every variable.
TypeOK ==
  /\ running \in BOOLEAN /\ transition \in {"none", "stopping", "starting", "booting"}
  /\ lock \in {"none", "sd"} /\ operation \in BOOLEAN /\ error \in BOOLEAN
  /\ card \in {"dev", "saved"} /\ mount \in {"none", "card", "open"}
  /\ holds \in [Keys -> {"no", "held", "due"}]
  /\ level \subseteq Keys /\ held \subseteq Keys /\ armed \subseteq Keys /\ pressed \subseteq Keys

\* "Never expose mounted media to that cleanup path": stock's removal, which deletes what it finds
\* under its mount point, runs over a mounted card only if somebody else has mounted the card again
\* between set_sd's unmount and the player's handling of the event.
OnlyDisturbedIsWiped == wiped => disturbed

\* An ejected card is not mounted, whichever step of the ejection failed.
EjectedIsUnmounted == ~disturbed /\ card = "saved" => mount = "none"

\* A low GPIO level belongs to a persistent hold or to a gesture that is still held: concurrent
\* gestures, expiry, resets and power-ons do not leave one behind.
LowHasAnOwner == level \subseteq held \union live

\* A gesture repeats only after the player has seen the press of this run.
RepeatsFollowAPress == running => repeated \subseteq pressed

\* What must come to an end: a hold whose release is lost, and an operation of the card, failed
\* or not, although it waits for the lock of a power transition.
Pending == live # {} \/ operation

(* ------------------------------ inductive invariant ------------------------------ *)

Events == {"add", "remove"}
SdPcs == {"none", "check", "move", "probe", "wait", "mount", "unmount", "remove", "moveback", "done"}
Types ==
  /\ TypeOK /\ sd \in [pc : SdPcs, insert : BOOLEAN, force : BOOLEAN] /\ uevents \in Seq(Events)
  /\ wiped \in BOOLEAN /\ settled \in BOOLEAN /\ supervised \in BOOLEAN /\ disturbed \in BOOLEAN
  /\ repeated \subseteq Keys /\ admitted \in {"none", "hold", "power"} /\ count \in Nat

\* A gesture that repeats is held; none is while a power-on is under way.
KeyInv ==
  /\ repeated \subseteq live
  /\ transition \in {"starting", "booting"} => repeated = {}

\* The SD thread's position says in which direction it works.
SdInv ==
  /\ sd.pc \in {"move", "probe", "wait", "mount"} => sd.insert
  /\ sd.pc \in {"unmount", "remove", "moveback"} => ~sd.insert

\* A player that has not seen a removal yet has nothing mounted that its cleanup could meet, and
\* an insertion mounts the card only after earlier removals were handled.
Removing == \E i \in DOMAIN uevents : uevents[i] = "remove"
CardInv ==
  /\ ~running => uevents = <<>>
  /\ ~disturbed => /\ sd.pc \in {"remove", "moveback"} \/ card = "saved" \/ Removing => mount = "none"
                   /\ sd.pc = "mount" => ~Removing

IInv == Types /\ KeyInv /\ SdInv /\ CardInv /\ LowHasAnOwner /\ RepeatsFollowAPress /\ OnlyDisturbedIsWiped
==============================================================================
