-------------------------------- MODULE Screen --------------------------------
(* The live view of one emulated player: the guest that draws (fbshim.c), the     *)
(* grabber that samples its framebuffer (framebuffer.py), the viewer's threads     *)
(* that publish frames and device snapshots and stream them to browsers            *)
(* (viewer/server.py).                                                              *)
EXTENDS Integers

CONSTANTS Viewers,    \* browsers
          MaxDraws,   \* bound: pictures the guest draws
          MaxEvents   \* bound: switches of the screen and broken streams

VARIABLES
  fb,       \* what the two sub-buffers hold: a picture's number, Torn while it is drawn
  marker,   \* fb-live: the sub-buffer drawn last, Unknown before the first
  drawing,  \* the sub-buffer being drawn, Unknown when none is
  lit,      \* the guest's screen is on
  grab,     \* the grabber: position, marker read before, sample, tries
  frame,    \* FrameState: live, prev, visible, was_screen_on, rgb
  device,   \* State.device: whether the screen is said to be on
  pub,      \* what each publisher of device snapshots has read
  tab,      \* each browser: whether its streams are at the latest revision, what it shows
  count     \* history: pictures drawn, other events

vars == <<fb, marker, drawing, lit, grab, frame, device, pub, tab, count>>
guest == <<fb, marker, drawing, lit>>

Buffers == 0..1
Unknown == 2
Black == 0
Torn == -1
Pictures == Torn..MaxDraws
Publishers == {"control_loop", "do_POST"}
NoSample == [b \in Buffers |-> Black]
Idle == [pc |-> "before", marker |-> Unknown, raw |-> NoSample]

Init ==
  /\ fb = [b \in Buffers |-> Black] /\ marker = Unknown /\ drawing = Unknown /\ lit \in BOOLEAN
  /\ grab = Idle
  /\ frame = [live |-> 0, first |-> TRUE, prev |-> NoSample, visible |-> Torn, on |-> FALSE,
              rgb |-> Black]
  /\ device = FALSE /\ pub = [p \in Publishers |-> "none"]
  /\ tab = [v \in Viewers |-> [frame |-> "next", png |-> Black, shown |-> Black, device |-> "next", on |-> FALSE]]
  /\ count = [pictures |-> 0, events |-> 0]

(* --------------------------------- the guest --------------------------------- *)

\* memcpy(): the copy, then the marker when another sub-buffer than before was written.
Draw(b) ==
  /\ drawing = Unknown /\ count.pictures < MaxDraws
  /\ drawing' = b /\ fb' = [fb EXCEPT ![b] = Torn] /\ count' = [count EXCEPT !.pictures = @ + 1]
  /\ UNCHANGED <<marker, lit, grab, frame, device, pub, tab>>

Copied ==
  /\ drawing # Unknown /\ fb[drawing] = Torn
  /\ fb' = [fb EXCEPT ![drawing] = count.pictures]
  /\ UNCHANGED <<marker, drawing, lit, grab, frame, device, pub, tab, count>>

Marked ==
  /\ drawing # Unknown /\ fb[drawing] # Torn
  /\ marker' = drawing /\ drawing' = Unknown
  /\ UNCHANGED <<fb, lit, grab, frame, device, pub, tab, count>>

Switch ==
  /\ count.events < MaxEvents /\ count' = [count EXCEPT !.events = @ + 1] /\ lit' = ~lit
  /\ UNCHANGED <<fb, marker, drawing, grab, frame, device, pub, tab>>

(* -------------------------------- the grabber -------------------------------- *)

active_buffer ==
  /\ grab.pc = "before" /\ grab' = [grab EXCEPT !.pc = "read", !.marker = marker]
  /\ UNCHANGED <<guest, frame, device, pub, tab, count>>

read ==
  /\ grab.pc = "read" /\ grab' = [grab EXCEPT !.pc = "after", !.raw = fb]
  /\ UNCHANGED <<guest, frame, device, pub, tab, count>>

\* Mutant: whatever was read meanwhile.
Bug_Consistent == TRUE

\* A sample counts when the marker is the same before and after it.
Consistent == marker = grab.marker

\* The marker names the live sub-buffer; without one the brighter, then the changed one.
pick == IF marker # Unknown THEN {marker}
        ELSE IF frame.first THEN (IF grab.raw[0] = Black /\ grab.raw[1] # Black THEN {1}
                                  ELSE IF grab.raw[0] # Black /\ grab.raw[1] # Black THEN {0, 1} ELSE {0})
        ELSE {CHOOSE b \in Buffers :
                IF grab.raw[0] # frame.prev[0] THEN b = 0
                ELSE IF grab.raw[1] # frame.prev[1] THEN b = 1 ELSE b = frame.live}

\* A new revision: every stream has something to send.
Behind(stream) == [v \in Viewers |-> IF stream = "frame" THEN [tab[v] EXCEPT !.frame = "next"]
                                     ELSE [tab[v] EXCEPT !.device = "next"]]

\* Mutant: a frame that repeats the last visible one is skipped even after the screen was off.
Bug_update_frame ==
  /\ grab.pc = "after" /\ grab' = Idle
  /\ \E live \in pick :
       LET visible == grab.raw[live]
           rgb == IF device THEN visible ELSE Black
           seen == [frame EXCEPT !.live = live, !.first = FALSE, 
                               !.prev = IF marker = Unknown THEN grab.raw ELSE NoSample]
       IN  IF ~Consistent THEN UNCHANGED <<frame, tab>>
           ELSE IF device /\ visible = frame.visible THEN frame' = seen /\ UNCHANGED tab
           ELSE /\ frame' = [seen EXCEPT !.visible = visible, !.on = device, !.rgb = rgb]
                /\ tab' = IF rgb = frame.rgb THEN tab ELSE Behind("frame")
  /\ UNCHANGED <<guest, device, pub, count>>

\* Publishes a complete frame only when what is to be seen has changed.
update_frame ==
  /\ grab.pc = "after" /\ grab' = Idle
  /\ \E live \in pick :
       LET visible == grab.raw[live]
           rgb == IF device THEN visible ELSE Black
           seen == [frame EXCEPT !.live = live, !.first = FALSE, 
                               !.prev = IF marker = Unknown THEN grab.raw ELSE NoSample]
       IN  IF ~Consistent THEN UNCHANGED <<frame, tab>>
           ELSE IF device /\ frame.on /\ visible = frame.visible THEN frame' = seen /\ UNCHANGED tab
           ELSE /\ frame' = [seen EXCEPT !.visible = visible, !.on = device, !.rgb = rgb]
                /\ tab' = IF rgb = frame.rgb THEN tab ELSE Behind("frame")
  /\ UNCHANGED <<guest, device, pub, count>>

(* ------------------------------ device snapshots ------------------------------ *)

\* The control loop and the handlers of POST /peripheral look first, then publish.
status(p) ==
  /\ pub[p] = "none" /\ pub' = [pub EXCEPT ![p] = IF lit THEN "on" ELSE "off"]
  /\ UNCHANGED <<guest, grab, frame, device, tab, count>>

publish_device(p) ==
  /\ pub[p] # "none" /\ pub' = [pub EXCEPT ![p] = "none"] /\ device' = (pub[p] = "on")
  /\ tab' = IF device' = device THEN tab ELSE Behind("device")
  /\ UNCHANGED <<guest, grab, frame, count>>

(* ---------------------------------- browsers ---------------------------------- *)

still == <<guest, grab, frame, device, pub>>

\* The latest frame at once when the stream is behind, else at a heartbeat.
wait_frame(v) ==
  /\ tab[v].frame = "next" /\ tab' = [tab EXCEPT ![v].frame = "sent", ![v].png = frame.rgb]
  /\ UNCHANGED <<still, count>>

\* The write takes its time: frames published meanwhile replace one another.
frame_stream(v) ==
  /\ tab[v].shown # tab[v].png /\ tab' = [tab EXCEPT ![v].shown = tab[v].png]
  /\ UNCHANGED <<still, count>>

device_events(v) ==
  /\ tab[v].device = "next" /\ tab' = [tab EXCEPT ![v].device = "sent", ![v].on = device]
  /\ UNCHANGED <<still, count>>

\* A stream breaks and the browser opens another; what it shows stays.
Reconnect(v) ==
  /\ count.events < MaxEvents /\ count' = [count EXCEPT !.events = @ + 1]
  /\ tab' = [tab EXCEPT ![v].frame = "next", ![v].device = "next", ![v].png = tab[v].shown]
  /\ UNCHANGED still

(* -------------------------------- specification -------------------------------- *)

GrabLoop == active_buffer \/ read \/ update_frame
ControlLoop == status("control_loop") \/ publish_device("control_loop")
Serve(v) == wait_frame(v) \/ device_events(v)
Next ==
  \/ \E b \in Buffers : Draw(b)
  \/ Copied \/ Marked \/ Switch \/ GrabLoop \/ ControlLoop
  \/ status("do_POST") \/ publish_device("do_POST")
  \/ \E v \in Viewers : Serve(v) \/ frame_stream(v) \/ Reconnect(v)

\* The guest's copy ends, both loops go round for ever, a stream's handler sleeps on a
\* condition and its writes are bounded, and a browser does not reconnect for ever.
Fairness ==
  /\ WF_vars(Copied \/ Marked) /\ WF_vars(GrabLoop) /\ WF_vars(ControlLoop)
  /\ \A v \in Viewers : /\ WF_vars(wait_frame(v)) /\ WF_vars(device_events(v))
                       /\ WF_vars(frame_stream(v))

Spec == Init /\ [][Next]_vars /\ Fairness

(* --------------------------------- properties --------------------------------- *)

TypeOK ==
  /\ fb \in [Buffers -> Pictures] /\ marker \in 0..2 /\ drawing \in 0..2 /\ lit \in BOOLEAN
  /\ grab.pc \in {"before", "read", "after"} /\ grab.raw \in [Buffers -> Pictures]
  /\ grab.marker \in 0..2 /\ frame.live \in Buffers /\ {frame.rgb, frame.visible} \subseteq Pictures
  /\ pub \in [Publishers -> {"none", "on", "off"}]
  /\ \A v \in Viewers : {tab[v].frame, tab[v].device} \subseteq {"next", "sent"}

\* The view never goes back to an older picture, although a sample can come from the
\* middle of a swap of the sub-buffers (Framebuffer.read).
Advances == frame'.visible # Torn => frame'.visible >= frame.visible

\* Once the guest rests, every browser shows its last picture, or black when its screen
\* is off, and knows which: no change is lost between the samples, the snapshots and the
\* streams (FrameState, State, Handler).
Settled(v) == tab[v].on = lit /\ tab[v].shown = IF lit /\ marker # Unknown THEN fb[marker] ELSE Black

(* ------------------------------ inductive invariant ------------------------------ *)

Types ==
  /\ TypeOK /\ grab \in [pc : {"before", "read", "after"}, marker : 0..2, raw : [Buffers -> Pictures]]
  /\ frame \in [live : Buffers, first : BOOLEAN, prev : [Buffers -> Pictures], visible : Pictures, on : BOOLEAN,
                rgb : Pictures]
  /\ tab \in [Viewers -> [frame : {"next", "sent"}, png : Pictures, shown : Pictures, device : {"next", "sent"},
                          on : BOOLEAN]]
  /\ device \in BOOLEAN /\ count \in [pictures : 0..MaxDraws, events : Nat]

\* The picture that is drawn is the latest; before the first marker there is no other.
DrawInv ==
  /\ \A b \in Buffers : fb[b] <= count.pictures /\ (fb[b] = Torn => drawing = b)
  /\ drawing # Unknown /\ fb[drawing] # Torn => fb[drawing] = count.pictures
  /\ marker = Unknown => /\ count.pictures <= 1 /\ (drawing = Unknown => count.pictures = 0)
                         /\ \A b \in Buffers : b # drawing => fb[b] = Black

\* A sample is not newer than its sub-buffer, and where the marker stood when it was begun, not
\* older than what is seen.
NotOlder(picture) == picture = Torn \/ frame.visible <= picture
SampleInv ==
  /\ frame.visible <= count.pictures
  /\ marker # Unknown => NotOlder(fb[marker])
  /\ grab.pc = "read" /\ grab.marker # Unknown => NotOlder(fb[grab.marker])
  /\ grab.pc = "after" /\ grab.marker # Unknown => NotOlder(grab.raw[grab.marker])
  /\ grab.pc = "after" => \A b \in Buffers : /\ grab.raw[b] <= count.pictures
                                             /\ grab.raw[b] <= fb[b] \/ fb[b] = Torn

\* Before the first marker only the sub-buffer that is drawn changes, from black to the first
\* picture: once this was seen, no sample differs from it.
FirstInv ==
  marker = Unknown =>
    /\ frame.visible = 1 => ~frame.first /\ frame.prev[frame.live] = 1
    /\ \A b \in Buffers :
         /\ b # drawing => frame.prev[b] = Black /\ (grab.pc = "after" => grab.raw[b] = Black)
         /\ frame.prev[b] = 1 => fb[b] = 1 /\ (grab.pc = "after" => grab.raw[b] = 1)
         /\ grab.pc = "after" /\ grab.raw[b] = 1 => fb[b] = 1

IInv == Types /\ DrawInv /\ SampleInv /\ FirstInv
===============================================================================
