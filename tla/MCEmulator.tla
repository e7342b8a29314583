----------------------------- MODULE MCEmulator -----------------------------
(* The components of the emulator and the viewer, each checked by itself: a behaviour
   is one of the component that `part` names. *)
EXTENDS Naturals

CONSTANTS
  Parts,  \* the components of a run
  Clients, Viewer, MaxPowerCalls, MaxDeaths,  \* Machine; with BootReady, MaxBoots
  MaxBoots, Keys, MaxRequests,                \* Peripherals
  Viewers, MaxDraws, MaxEvents,               \* Screen
  Browsers, MaxTouches,                       \* Touch
  MaxCaptures, MaxFrames,                     \* Capture
  Menu, Preset, MaxSetups, MaxChoices,        \* Setup
  Processes, Pids,                            \* BootReady
  Watchers, MaxCalls, MaxAsks,                \* PowerWatch; with Card, MaxCalls
  Users, Loops,                               \* Card
  Names, MaxCommands                          \* Links

\* What the components assume of them.
ASSUME EmulatorConstants ==
  /\ Viewer \in Clients /\ MaxDeaths \in {0, 1}
  /\ {MaxBoots, MaxDraws, MaxTouches, MaxCaptures} \subseteq Nat /\ MaxFrames \in Nat \ {0}
  /\ Preset \in Menu /\ Menu # {Preset} /\ 0 \notin Menu /\ 100 \notin Menu
  /\ 0 \notin Pids /\ "none" \notin Watchers \union Loops /\ "eth1" \in Names

VARIABLES
  part,  \* the component of this behaviour
  r1, r2, r3, r4, r5, r6, r7, r8, r9, r10, r11, r12, r13, r14, r15, r16, r17, r18, r19, r20, r21  \* its state, in the order of its VARIABLES

vars == <<part, r1, r2, r3, r4, r5, r6, r7, r8, r9, r10, r11, r12, r13, r14, r15, r16, r17, r18, r19, r20, r21>>

Machine == INSTANCE Machine WITH MaxCalls <- MaxPowerCalls, sup <- r1, init <- r2, child <- r3, programs <- r4,
    state <- r5, request <- r6, initPid <- r7, marker <- r8, view <- r9, transition <- r10, client <- r11,
    mode <- r12, total <- r13, asked <- r14
Peripherals == INSTANCE Peripherals WITH running <- r1, transition <- r2, lock <- r3, operation <- r4, error <- r5,
    sd <- r6, card <- r7, mount <- r8, uevents <- r9, wiped <- r10, settled <- r11, holds <- r12, repeated <- r13,
    level <- r14, held <- r15, armed <- r16, pressed <- r17, admitted <- r18, count <- r19, supervised <- r20,
    disturbed <- r21
Screen == INSTANCE Screen WITH fb <- r1, marker <- r2, drawing <- r3, lit <- r4, grab <- r5, frame <- r6,
    device <- r7, pub <- r8, tab <- r9, count <- r10
Touch == INSTANCE Touch WITH screen <- r1, gesture <- r2, events <- r3, contact <- r4, presses <- r5
Capture == INSTANCE Capture WITH player <- r1, todo <- r2, pcm <- r3, fmt <- r4, out <- r5, export <- r6,
    look <- r7, quiet <- r8
Setup == INSTANCE Setup WITH db <- r1, locked <- r2, player <- r3, setup <- r4, chosen <- r5, count <- r6
BootReady == INSTANCE BootReady WITH proc <- r1, flush <- r2, boot <- r3, wait <- r4
PowerWatch == INSTANCE PowerWatch WITH watch <- r1, file <- r2, guest <- r3, marker <- r4, call <- r5, count <- r6
Card == INSTANCE Card WITH image <- r1, loop <- r2, node <- r3, user <- r4, calls <- r5
Links == INSTANCE Links WITH links <- r1, netns <- r2, marker <- r3, stub <- r4, qdisc <- r5, cmd <- r6,
    trusted <- r7, count <- r8

Unused15 == r15 = 0 /\ r16 = 0 /\ r17 = 0 /\ r18 = 0 /\ r19 = 0 /\ r20 = 0 /\ r21 = 0
Rest15 == <<r15, r16, r17, r18, r19, r20, r21>>
Unused11 == r11 = 0 /\ r12 = 0 /\ r13 = 0 /\ r14 = 0 /\ Unused15
Rest11 == <<r11, r12, r13, r14, Rest15>>
Unused9 == r9 = 0 /\ r10 = 0 /\ Unused11
Rest9 == <<r9, r10, Rest11>>
Unused7 == r7 = 0 /\ r8 = 0 /\ Unused9
Rest7 == <<r7, r8, Rest9>>
Unused6 == r6 = 0 /\ Unused7
Rest6 == <<r6, Rest7>>
Unused5 == r5 = 0 /\ Unused6
Rest5 == <<r5, Rest6>>

Init ==
  /\ part \in Parts
  /\ \/ part = "machine" /\ Machine!Init /\ Unused15
     \/ part = "peripherals" /\ Peripherals!Init
     \/ part = "screen" /\ Screen!Init /\ Unused11
     \/ part = "touch" /\ Touch!Init /\ Unused6
     \/ part = "capture" /\ Capture!Init /\ Unused9
     \/ part = "setup" /\ Setup!Init /\ Unused7
     \/ part = "ready" /\ BootReady!Init /\ Unused5
     \/ part = "watch" /\ PowerWatch!Init /\ Unused7
     \/ part = "card" /\ Card!Init /\ Unused6
     \/ part = "links" /\ Links!Init /\ Unused9

Next ==
  /\ UNCHANGED part
  /\ \/ part = "machine" /\ Machine!Next /\ UNCHANGED Rest15
     \/ part = "peripherals" /\ Peripherals!Next
     \/ part = "screen" /\ Screen!Next /\ UNCHANGED Rest11
     \/ part = "touch" /\ Touch!Next /\ UNCHANGED Rest6
     \/ part = "capture" /\ Capture!Next /\ UNCHANGED Rest9
     \/ part = "setup" /\ Setup!Next /\ UNCHANGED Rest7
     \/ part = "ready" /\ BootReady!Next /\ UNCHANGED Rest5
     \/ part = "watch" /\ PowerWatch!Next /\ UNCHANGED Rest7
     \/ part = "card" /\ Card!Next /\ UNCHANGED Rest6
     \/ part = "links" /\ Links!Next /\ UNCHANGED Rest9

\* The fairness of each component, as its module states it.
Fairness ==
  /\ WF_(Machine!vars)(part = "machine" /\ Machine!Supervise) /\ WF_(Machine!vars)(part = "machine" /\ Machine!Guest)
  /\ \A c \in Clients : WF_(Machine!vars)(part = "machine" /\ Machine!ClientStep(c))
  /\ WF_(Peripherals!vars)(part = "peripherals" /\ (Peripherals!SdWorks \/ Peripherals!SdFails))
  /\ WF_(Peripherals!vars)(part = "peripherals" /\ (Peripherals!PlayerHandles \/ Peripherals!PlayerMisses))
  /\ WF_(Peripherals!vars)(part = "peripherals" /\ Peripherals!expire) /\ WF_(Peripherals!vars)(part = "peripherals" /\ Peripherals!Power)
  /\ WF_(Peripherals!vars)(part = "peripherals" /\ (Peripherals!PowerStops \/ Peripherals!PowerStarts \/ Peripherals!PowerBooted))
  /\ \A k \in Keys : WF_(Peripherals!vars)(part = "peripherals" /\ Peripherals!Due(k))
  /\ WF_(Screen!vars)(part = "screen" /\ (Screen!Copied \/ Screen!Marked))
  /\ WF_(Screen!vars)(part = "screen" /\ Screen!GrabLoop) /\ WF_(Screen!vars)(part = "screen" /\ Screen!ControlLoop)
  /\ \A v \in Viewers : /\ WF_(Screen!vars)(part = "screen" /\ Screen!wait_frame(v))
                       /\ WF_(Screen!vars)(part = "screen" /\ Screen!device_events(v))
                       /\ WF_(Screen!vars)(part = "screen" /\ Screen!frame_stream(v))
  /\ WF_(Touch!vars)(part = "touch" /\ Touch!Drain)
  /\ \A b \in Browsers : WF_(Touch!vars)(part = "touch" /\ Touch!Step(b))
  /\ \A w \in Watchers :
       /\ WF_(PowerWatch!vars)(part = "watch" /\ PowerWatch!Begin(w)) /\ WF_(PowerWatch!vars)(part = "watch" /\ PowerWatch!service_requests(w))
       /\ WF_(PowerWatch!vars)(part = "watch" /\ PowerWatch!Power(w)) /\ WF_(PowerWatch!vars)(part = "watch" /\ PowerWatch!Note(w))
       /\ WF_(PowerWatch!vars)(part = "watch" /\ PowerWatch!Drain(w))
Spec == Init /\ [][Next]_vars /\ Fairness

(* --------------------------------- properties --------------------------------- *)

\* The variables of the component keep their types.
TypeOK ==
  CASE part = "machine" -> Machine!TypeOK [] part = "peripherals" -> Peripherals!TypeOK
    [] part = "screen" -> Screen!TypeOK [] part = "touch" -> Touch!TypeOK [] part = "capture" -> Capture!TypeOK
    [] part = "setup" -> Setup!TypeOK [] part = "ready" -> BootReady!TypeOK [] part = "watch" -> PowerWatch!TypeOK
    [] part = "card" -> Card!TypeOK [] part = "links" -> Links!TypeOK

\* What ends takes everything of its own with it: a machine that is off or whose supervisor is
\* gone, the calls that attach a card image, a gesture that lowers a key's level.
NothingIsLeft ==
  /\ part = "machine" => Machine!OffMeansOff /\ Machine!NoOrphan
  /\ part = "card" => Card!NothingLeftBehind
  /\ part = "peripherals" => Peripherals!LowHasAnOwner /\ Peripherals!RepeatsFollowAPress

\* The card's files survive an ejection and the user's settings a setup, whichever step fails.
DataSurvives ==
  /\ part = "peripherals" => Peripherals!EjectedIsUnmounted /\ Peripherals!OnlyDisturbedIsWiped
  /\ part = "setup" => Setup!NoWizard

\* What a reader is told is so although the files change while it reads: the sound that is
\* exported, the output's state, the guest's links, the power watcher's file.
ReadersAreTold ==
  /\ part = "capture" => Capture!ExportIsOneCapture /\ Capture!OutputIsTrue
  /\ part = "links" => Links!StubsMirror
  /\ part = "watch" => PowerWatch!OneWatcher

\* A step never mixes two boots, goes back to an older picture, or undoes what the user chose
\* or what belongs to the container.
StepsAreSound ==
  [][/\ part = "machine" => Machine!BootsAlone
     /\ part = "ready" => BootReady!DrawnBefore
     /\ part = "screen" => Screen!Advances
     /\ part = "setup" => Setup!Keeps
     /\ part = "links" => Links!RealStays]_vars

\* Once the guest rests, every browser shows its last picture (Screen).
ViewSettles == <>[](part = "screen" => \A v \in Viewers : Screen!Settled(v))

Pending ==
  CASE part = "machine" -> Machine!Pending [] part = "peripherals" -> Peripherals!Pending
    [] part = "touch" -> Touch!Pending [] part = "watch" -> PowerWatch!Pending [] OTHER -> FALSE

\* Every request ends: a cut, a power-off, a signal to PID 1, the operation of the card, the
\* hold of a key, the contact of a gesture, a shutdown that a watcher has begun.
RequestsEnd == Pending ~> ~Pending
=============================================================================
