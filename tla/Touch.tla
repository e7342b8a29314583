--------------------------------- MODULE Touch ---------------------------------
(* Touches on one emulated panel (touch.py, viewer/server.py do_GET): the viewer's  *)
(* handlers hold and drag on behalf of several browsers, and append their events to *)
(* one file that the guest drains.                                                   *)
EXTENDS Naturals, Sequences

CONSTANTS Browsers,   \* handlers of the viewer that can run at the same time
          MaxTouches  \* bound: presses

VARIABLES
  screen,   \* what the viewer takes the screen to be: on or not
  gesture,  \* each handler: moves left of its tap or swipe, Done when it has none
  events,   \* events the guest has not read
  contact,  \* what the guest takes for the contact, and the gesture it belongs to
  presses   \* history: presses so far

vars == <<screen, gesture, events, contact, presses>>

Done == 3
Init ==
  /\ screen \in BOOLEAN /\ gesture = [b \in Browsers |-> Done] /\ events = <<>>
  /\ contact = "none" /\ presses = 0

append(event) == events' = Append(events, event)

\* A press is refused while the screen is off; a tap has no moves, a swipe has.
press(b) ==
  /\ screen /\ gesture[b] = Done /\ presses < MaxTouches /\ presses' = presses + 1
  /\ append("gesture") /\ \E moves \in {0, 1} : gesture' = [gesture EXCEPT ![b] = moves]
  /\ UNCHANGED <<screen, contact>>

move(b) ==
  /\ gesture[b] \in 1..2 /\ gesture' = [gesture EXCEPT ![b] = @ - 1] /\ append("move")
  /\ UNCHANGED <<screen, contact, presses>>

\* Mutant: a gesture gives up when the screen has gone off.
Bug_release(b) ==
  /\ gesture[b] = 0 /\ gesture' = [gesture EXCEPT ![b] = Done]
  /\ IF screen THEN append("release") ELSE UNCHANGED events
  /\ UNCHANGED <<screen, contact, presses>>

release(b) ==
  /\ gesture[b] = 0 /\ gesture' = [gesture EXCEPT ![b] = Done] /\ append("release")
  /\ UNCHANGED <<screen, contact, presses>>

\* A browser's own drag: its requests are handled as they come, an /up even when the
\* screen is off.
drag ==
  /\ \/ /\ screen /\ presses < MaxTouches /\ presses' = presses + 1 /\ append("drag")
     \/ contact = "drag" /\ append("release") /\ UNCHANGED presses
  /\ Len(events) < 4 /\ UNCHANGED <<screen, gesture, contact>>

\* The guest drains the file; a move belongs to the contact there is.
Drain ==
  /\ events # <<>> /\ events' = Tail(events)
  /\ contact' = CASE Head(events) = "release" -> "none"
                  [] Head(events) = "move" -> contact
                  [] OTHER -> Head(events)
  /\ UNCHANGED <<screen, gesture, presses>>

Switch == screen' = ~screen /\ UNCHANGED <<gesture, events, contact, presses>>

Step(b) == move(b) \/ release(b)
Next == drag \/ Drain \/ Switch \/ \E b \in Browsers : press(b) \/ Step(b)

\* The waits of a gesture end, and the guest polls its panel.
Fairness == WF_vars(Drain) /\ \A b \in Browsers : WF_vars(Step(b))
Spec == Init /\ [][Next]_vars /\ Fairness

(* --------------------------------- properties --------------------------------- *)

TypeOK ==
  /\ screen \in BOOLEAN /\ gesture \in [Browsers -> 0..Done] /\ presses \in 0..MaxTouches
  /\ events \in Seq({"gesture", "drag", "move", "release"}) /\ contact \in {"none", "gesture", "drag"}

\* What must come to an end: a tap or a swipe leaves no contact behind, whatever else touches
\* the panel and even if the screen goes off meanwhile (Touch.tap, Touch.swipe).
Pending == contact = "gesture"
================================================================================
