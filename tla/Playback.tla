------------------------------- MODULE Playback -------------------------------
(* One operation of the controller on the player, step by step, while a hand on *)
(* the player, other programs and the player itself go on: the controls and     *)
(* settings (controls.py, current.py, sound.py), the selection of a catalogue    *)
(* row (playback.py, source_playback.py, genre_playback.py, session.py), of a   *)
(* queue row (queue.py) and the removal of a playlist row                       *)
(* (playlist_operations.py).  The player and its two channels are external: a    *)
(* TCP stream, where answers and notifications of the playback state look alike  *)
(* and keep their order, and HTTP pages of one row.                             *)
EXTENDS Integers, Sequences, FiniteSets

CONSTANTS Lists,    \* what the source list and the queue can hold: sequences of songs
          Requests, \* the kinds of operation
          MaxHands, \* bound: changes that do not come from the operation
          MaxWire   \* bound: playback states asked for or on their way to the client

VARIABLES
  player,    \* external: play, queue, pos, late (past the start of the track), love, set, list
  stream,    \* external: TCP messages on their way to the client
  queries,   \* external: playback queries the player has not answered
  waiting,   \* LiveClient.waiting = "a202"
  scan,      \* the client holds an event of a library scan
  op,        \* the operation: request, position and what it has read
  result,    \* its status
  past,      \* history: what the player has shown, with whether the command had left
  was,       \* history: what the list and the queue have held
  count,     \* history: changes by hands, and changes of the list or of the queue
  hit,       \* history: the row the command met
  disturbed  \* history: something but the operation acted, or an exchange failed

vars == <<player, stream, queries, waiting, scan, op, result, past, was, count, hit, disturbed>>
history == <<past, was, count, hit>>

Controls == {"pause", "resume", "next", "previous"}
Settings == {"mode", "volume", "sound"}
QueueRows == {"index", "predecessor"}

View(p) == [play |-> p.play, song |-> p.queue[p.pos], pos |-> p.pos, late |-> p.late, love |-> p.love]
Blank == [play |-> "loading"]
identity(v) == <<v.song, v.pos>>
Unread == [round |-> 1, first |-> <<>>, rows |-> <<>>, total |-> -1, marks |-> {}]
Count(rows) == [s \in {rows[i] : i \in DOMAIN rows} |->
                  Cardinality({i \in DOMAIN rows : rows[i] = s})]
Without(rows, k) == SubSeq(rows, 1, k - 1) \o SubSeq(rows, k + 1, Len(rows))

Start(kind) == IF kind \in Controls \union {"favorite"} THEN "ask"
               ELSE IF kind \in Settings THEN "read"
               ELSE IF kind \in QueueRows THEN "mode" ELSE "list"

\* Only a row of the catalogue, a playlist or the queue is compared with what was displayed.
Init ==
  /\ \E kind \in Requests, index \in 1..2, shown, l \in Lists, play \in {"playing", "paused"} :
       /\ kind \notin {"source", "remove", "index"} => shown = l
       /\ op = [kind |-> kind, index |-> index, shown |-> shown, pc |-> Start(kind), sent |-> FALSE,
                before |-> Blank, looks |-> 0, read |-> Unread, base |-> Unread, mode |-> 0]
       /\ player = [play |-> play, queue |-> l, pos |-> 1, late |-> TRUE, love |-> kind = "favorite" /\ index = 2,
                    set |-> 0, list |-> l]
  /\ stream = <<>> /\ queries = 0 /\ waiting = FALSE /\ scan = FALSE
  /\ result = "none" /\ hit = "none" /\ disturbed = FALSE
  /\ past = {<<View(player), FALSE>>}
  /\ was = [list |-> {player.list}, queue |-> {player.queue}]
  /\ count = [hands |-> 0, moves |-> 0]

(* ------------------------------- the player -------------------------------- *)

\* What happens once the operation has returned concerns nobody here.
Room == Len(stream) + queries < MaxWire

\* A change of the playback state may be notified.
Notify(p) == stream' \in {stream} \union
               (IF Room /\ View(p) # View(player) THEN {Append(stream, View(p))} ELSE {})

Becomes(p, hands) ==
  /\ player' = p
  /\ past' = past \union {<<View(p), op.sent \/ hands = 0>>}
  /\ was' = [list |-> was.list \union {p.list}, queue |-> was.queue \union {p.queue}]
  /\ count' = [hands |-> count.hands + hands,
               moves |-> count.moves + (IF p.list # player.list THEN 1 ELSE 0)
                                     + (IF p.queue # player.queue THEN 1 ELSE 0)]

\* A song that comes up is liked or not: one mark stands for the song that plays, and only
\* favorite looks at it.
Skips(p, i) == {[p EXCEPT !.pos = i, !.late = FALSE, !.love = l] : l \in {FALSE, op.kind = "favorite"}}

\* Hands make the changes the operation can tell.
Touches ==
  (IF op.kind \in Settings \union QueueRows \union {"source"}
     THEN {[player EXCEPT !.set = 1 - @]} ELSE {})
  \union (IF op.kind \in {"source", "remove"}
     THEN {[player EXCEPT !.list = l] : l \in Lists} ELSE {})
  \union (IF op.kind \in Settings \union {"remove"} THEN {} ELSE
     {[player EXCEPT !.play = x] : x \in {"playing", "paused"}}
     \union UNION {Skips(player, i) : i \in DOMAIN player.queue})
  \union (IF op.kind \in Controls THEN {[player EXCEPT !.late = TRUE]} ELSE {})
  \union (IF op.kind = "favorite" THEN {[player EXCEPT !.love = ~@]} ELSE {})
  \union (IF op.kind \in QueueRows \union {"source"}
     THEN {[player EXCEPT !.queue = l, !.pos = 1, !.late = FALSE] : l \in Lists} ELSE {})

Hand ==
  /\ op.pc # "done" /\ count.hands < MaxHands
  /\ \E p \in Touches \ {player} : Becomes(p, 1) /\ Notify(p)
  /\ disturbed' = TRUE
  /\ UNCHANGED <<queries, waiting, scan, op, result, hit>>

ScanStarts ==
  /\ op.pc # "done" /\ count.hands < MaxHands /\ count' = [count EXCEPT !.hands = MaxHands]
  /\ stream' = Append(stream, [play |-> "scan", sent |-> op.sent]) /\ disturbed' = TRUE
  /\ UNCHANGED <<player, queries, waiting, scan, op, result, past, was, hit>>

PlayerAnswers ==
  /\ op.pc # "done" /\ queries > 0 /\ queries' = queries - 1
  /\ \E v \in {View(player), Blank} :
       stream' = Append(stream, v) /\ disturbed' = (disturbed \/ v = Blank)
  /\ UNCHANGED <<player, waiting, scan, op, result, history>>

(* ------------------------------ the operation ------------------------------- *)

Goto(pc) == op' = [op EXCEPT !.pc = pc] /\ UNCHANGED result
Ends(status) == op' = [op EXCEPT !.pc = "done"] /\ result' = status
Fails == Ends(IF op.sent THEN "uncertain" ELSE "not_sent")

\* A command leaves, and the player obeys it at once or, within its 2 s gate, not at all.
Send(p, row) ==
  /\ op.pc = "send"
  /\ op' = [op EXCEPT !.sent = TRUE, !.looks = 2, !.read = Unread,
                      !.pc = CASE op.kind \in Settings -> "read" [] op.kind \in QueueRows -> "mode"
                               [] op.kind = "remove" -> "list" [] OTHER -> "ask"]
  /\ \/ Becomes(p, 0) /\ Notify(p) /\ hit' = row /\ UNCHANGED disturbed
     \/ disturbed' = TRUE /\ Becomes(player, 0) /\ UNCHANGED <<stream, hit>>
  /\ UNCHANGED <<queries, waiting, scan, result>>

\* An exchange fails, or the connection ends.
Breaks ==
  /\ op.pc # "done" /\ Fails /\ waiting' = FALSE /\ disturbed' = TRUE
  /\ UNCHANGED <<player, stream, queries, scan, history>>

\* The verification's deadline: the command is not repeated.
Deadline ==
  /\ op.sent /\ op.pc \in {"ask", "read", "mode"} /\ ~waiting
  /\ Ends("uncertain") /\ disturbed' = TRUE
  /\ UNCHANGED <<player, stream, queries, waiting, scan, history>>

local == <<player, stream, queries, waiting, scan, history, disturbed>>

(* ---------------- controls and favourites: observe, send, verify ------------- *)

Ask ==
  /\ op.pc \in {"ask", "fresh", "now"} /\ ~waiting /\ Room
  /\ waiting' = TRUE /\ queries' = queries + 1
  /\ UNCHANGED <<player, stream, scan, op, result, history, disturbed>>

wanted == CASE op.kind = "pause" -> "paused" [] op.kind = "resume" -> "playing" [] OTHER -> "none"
like == op.index = 1

\* What verify() and the loops of current() and verify_playing() take for the effect.
Shows(v) ==
  CASE op.kind \in {"pause", "resume"} -> v.play = wanted /\ identity(v) = identity(op.before)
    [] op.kind \in {"next", "previous"} ->
         identity(v) # identity(op.before) \/ (op.before.late /\ ~v.late)
    [] op.kind = "favorite" -> identity(v) = identity(op.before) /\ v.love = like
    [] op.kind = "source" -> v.play = "playing" /\ v.song = op.base.rows[op.index]

ObservedBefore(v) ==
  IF scan \/ v = Blank THEN Fails
  ELSE IF v.play = wanted \/ (op.kind = "favorite" /\ v.love = like)
    THEN Ends("already_satisfied")
    ELSE /\ op' = [op EXCEPT !.before = v, !.pc = IF op.kind = "favorite" THEN "fresh" ELSE "send"]
         /\ UNCHANGED result

\* A favourite is looked at once more, after the scan guard.
ObservedFresh(v) ==
  IF scan \/ v = Blank \/ identity(v) # identity(op.before) \/ v.love # op.before.love
    THEN Fails ELSE Goto("send")

\* Mutant: a favourite is confirmed on the mark alone.
Bug_ObservedAfter(v) ==
  IF scan \/ v = Blank THEN Fails
  ELSE IF Shows(v) \/ (op.kind = "favorite" /\ v.love = like)
    THEN IF op.kind = "source" THEN Goto("mode") ELSE Ends("confirmed")
  ELSE UNCHANGED <<op, result>>

ObservedAfter(v) ==
  IF scan THEN Fails
  ELSE IF v = Blank THEN IF op.kind = "favorite" THEN Fails ELSE UNCHANGED <<op, result>>
  ELSE IF Shows(v)
    THEN IF op.kind = "source" THEN Goto("mode") ELSE Ends("confirmed")
  ELSE IF op.kind = "favorite" /\ identity(v) # identity(op.before) THEN Fails
  ELSE UNCHANGED <<op, result>>

Looked(v) == op' = [op EXCEPT !.before = v, !.pc = "mode again"] /\ UNCHANGED result

Receive ==
  /\ op.pc # "done" /\ stream # <<>> /\ stream' = Tail(stream)
  /\ LET m == Head(stream) IN
       IF m.play = "scan" THEN scan' = TRUE /\ UNCHANGED <<waiting, op, result>>
       ELSE IF ~waiting THEN UNCHANGED <<scan, waiting, op, result>>
       ELSE /\ waiting' = FALSE /\ UNCHANGED scan
            /\ CASE op.pc = "now" -> Looked(m)
                 [] op.pc = "fresh" -> ObservedFresh(m)
                 [] op.pc = "ask" /\ ~op.sent -> ObservedBefore(m)
                 [] op.pc = "ask" /\ op.sent -> ObservedAfter(m)
  /\ UNCHANGED <<player, queries, history, disturbed>>

\* The playback state alone may stay unanswered without ending the connection.
TimesOut ==
  /\ waiting /\ waiting' = FALSE /\ disturbed' = TRUE
  /\ IF op.pc = "now" THEN Looked(Blank)
     ELSE IF op.sent /\ op.kind # "favorite" THEN UNCHANGED <<op, result>> ELSE Fails
  /\ UNCHANGED <<player, stream, queries, scan, history>>

control ==
  /\ op.kind \in Controls
  /\ LET n == Len(player.queue) IN
     \E p \in CASE op.kind \in {"pause", "resume"} ->
                     {[player EXCEPT !.play = IF @ = "playing" THEN "paused" ELSE "playing"]}
                [] op.kind = "next" -> Skips(player, (player.pos % n) + 1)
                [] op.kind = "previous" ->
                     IF player.late THEN {[player EXCEPT !.late = FALSE]}
                                    ELSE Skips(player, ((player.pos + n - 2) % n) + 1) :
       Send(p, player.queue[player.pos])

set_favorite ==
  /\ op.kind = "favorite"
  /\ Send([player EXCEPT !.love = like], player.queue[player.pos])

(* --------------------- settings: read, send, read back ---------------------- *)

value == op.index % 2
Flushed == stream = <<>> /\ queries = 0   \* TCP keeps its order: what was sent before has come

ReadSetting ==
  /\ op.pc = "read" /\ ~op.sent /\ Flushed
  /\ IF op.kind = "sound" /\ (scan \/ player.set # 0) THEN Fails
     ELSE IF player.set = value THEN Ends("already_satisfied")
     ELSE IF scan THEN Fails ELSE Goto("send")
  /\ UNCHANGED local

set_setting == op.kind \in Settings /\ Send([player EXCEPT !.set = value], "none")

ReadBack ==
  /\ op.pc = "read" /\ op.sent /\ Flushed
  /\ IF player.set = value
       THEN IF scan /\ op.kind # "mode" THEN Fails ELSE Ends("confirmed")
       ELSE IF op.kind = "mode" \/ (scan /\ op.kind = "sound") THEN Fails ELSE UNCHANGED <<op, result>>
  /\ UNCHANGED local

(* ------------------- reading rows twice, page by page ----------------------- *)

rows(reading) == IF reading = "queue" THEN player.queue ELSE player.list

\* A page of one row; a total that changes ends the read.
Page ==
  /\ op.pc \in {"list", "queue", "reread"} /\ op.read.total # Len(op.read.rows)
  /\ LET now == rows(op.pc)  r == op.read IN
     IF r.total \notin {-1, Len(now)} THEN Fails
     ELSE /\ op' = [op EXCEPT !.read =
                     [r EXCEPT !.total = Len(now), !.marks = @ \union {player.pos},
                               !.rows = IF now = <<>> THEN @ ELSE Append(@, now[Len(@) + 1])]]
          /\ UNCHANGED result
  /\ UNCHANGED local

Complete == op.pc \in {"list", "queue", "reread"} /\ op.read.total = Len(op.read.rows)

Again ==
  /\ Complete /\ op.read.round = 1 /\ op.pc # "reread"
  /\ op' = [op EXCEPT !.read = [Unread EXCEPT !.round = 2, !.first = op.read.rows,
                                              !.marks = op.read.marks]]
  /\ UNCHANGED <<result, local>>

Stable == Complete /\ op.read.round = 2
\* Mutant: the second read is not compared with the first.
Bug_Accepted == op.pc = "queue" => Cardinality(op.read.marks) = 1

Accepted == op.read.rows = op.read.first /\ (op.pc = "queue" => Cardinality(op.read.marks) = 1)

Unstable ==
  /\ Stable /\ ~Accepted /\ Fails
  /\ UNCHANGED local

(* ------------------------- a row of the catalogue --------------------------- *)

\* Mutant: the rows are not compared with the display.
Bug_ChooseRow ==
  /\ op.pc = "list" /\ Stable /\ Accepted /\ ~op.sent
  /\ IF op.index > Len(op.read.rows) THEN Fails
     ELSE /\ op' = [op EXCEPT !.base = op.read, !.read = Unread,
                              !.pc = IF op.kind = "source" THEN "settings" ELSE "reread"]
          /\ UNCHANGED result
  /\ UNCHANGED local

ChooseRow ==
  /\ op.pc = "list" /\ Stable /\ Accepted /\ ~op.sent
  /\ IF op.read.rows # op.shown \/ op.index > Len(op.shown) THEN Fails
     ELSE /\ op' = [op EXCEPT !.base = op.read, !.read = Unread,
                              !.pc = IF op.kind = "source" THEN "settings" ELSE "reread"]
          /\ UNCHANGED result
  /\ UNCHANGED local

PreflightSettings == op.pc = "settings" /\ Flushed /\ Goto("guard") /\ UNCHANGED local

\* GuardedHTTP: the row and the total once more, then the scan guard.
GuardedHTTP ==
  /\ op.pc = "guard"
  /\ IF Len(player.list) = Len(op.base.rows) /\ player.list[op.index] = op.base.rows[op.index] /\ ~scan
       THEN Goto("send") ELSE Fails
  /\ UNCHANGED local

play_source ==
  /\ op.kind = "source" /\ op.index \in DOMAIN player.list
  /\ \E p \in Skips([player EXCEPT !.queue = player.list, !.play = "playing"], op.index) :
       Send(p, player.list[op.index])

(* ---------------------- a snapshot, a row of the queue ---------------------- *)

SnapshotMode ==
  /\ op.pc = "mode" /\ Flushed
  /\ op' = [op EXCEPT !.mode = player.set, !.read = Unread, !.pc = "queue"]
  /\ UNCHANGED <<result, local>>

SnapshotQueue == op.pc = "queue" /\ Stable /\ Accepted /\ Goto("now") /\ UNCHANGED local

mark == CHOOSE i \in op.read.marks : TRUE
Playing(v) == v.play = "playing"
\* Mutant: the player's positions are taken to start at 0.
Bug_row_matches(v, i) == v # Blank /\ v.pos = i - 1 /\ v.song = op.read.rows[i]

_row_matches(v, i) == v # Blank /\ v.pos = i /\ v.song = op.read.rows[i]
target == IF op.kind = "predecessor" THEN op.base.total ELSE op.index

\* What the snapshot of a selection is compared with.
Verified ==
  /\ Count(op.read.rows) = Count(op.base.rows)
  /\ mark \in DOMAIN op.read.rows /\ _row_matches(op.before, mark) /\ Playing(op.before)
  /\ mark = op.index /\ op.before.song = op.base.rows[op.index]

ChooseQueueRow ==
  IF ~(mark \in DOMAIN op.read.rows /\ _row_matches(op.before, mark))
     \/ (op.kind = "index" /\ op.read.rows # op.shown) THEN Fails
  ELSE IF op.kind = "predecessor" /\ mark = 1 THEN Ends("already_satisfied")
  ELSE IF op.kind = "index" /\ op.index > Len(op.read.rows) THEN Fails
  ELSE /\ op' = [op EXCEPT !.looks = 1, !.pc = "mode",
                   !.base = [op.read EXCEPT !.first = <<op.before, op.mode>>, !.total = mark - 1]]
       /\ UNCHANGED result

\* Guard.catalog: the second snapshot has to equal the first.
GuardQueueRow ==
  LET b == op.base.first[1] IN
  IF op.read.rows = op.base.rows /\ op.read.marks = op.base.marks /\ op.mode = op.base.first[2]
     /\ op.before # Blank /\ identity(op.before) = identity(b) /\ op.before.play = b.play
  THEN Goto("send") ELSE Fails

VerifyQueueRow ==
  IF op.read.rows # op.base.rows \/ op.mode # op.base.first[2] THEN Fails
  ELSE IF mark = target /\ _row_matches(op.before, target) /\ Playing(op.before) THEN Ends("confirmed")
  ELSE Goto("mode")

\* The scan guard and the mode once more end a snapshot.
SnapshotEnds ==
  /\ op.pc = "mode again" /\ Flushed
  /\ IF scan \/ player.set # op.mode THEN Fails
     ELSE IF op.kind = "source" THEN IF Verified THEN Ends("confirmed") ELSE Fails
     ELSE CASE op.looks = 0 -> ChooseQueueRow [] op.looks = 1 -> GuardQueueRow
            [] op.looks = 2 -> VerifyQueueRow
  /\ UNCHANGED local

play_queue_index ==
  /\ op.kind \in QueueRows /\ target \in DOMAIN player.queue
  /\ \E p \in Skips([player EXCEPT !.play = "playing"], target) : Send(p, player.queue[target])

(* ------------------------- a row of a playlist ------------------------------ *)

Reread ==
  /\ op.pc = "reread" /\ Complete
  /\ IF op.read.rows = op.base.rows /\ ~scan THEN Goto("send") ELSE Fails
  /\ UNCHANGED local

remove_from_playlist ==
  /\ op.kind = "remove" /\ op.index \in DOMAIN player.list
  /\ Send([player EXCEPT !.list = Without(@, op.index)], player.list[op.index])

\* Mutant: the row counts are compared, not the rows.
Bug_Removed ==
  /\ op.pc = "list" /\ Stable /\ Accepted /\ op.sent
  /\ IF Len(op.read.rows) = Len(op.shown) - 1 THEN Ends("confirmed") ELSE Fails
  /\ UNCHANGED local

Removed ==
  /\ op.pc = "list" /\ Stable /\ Accepted /\ op.sent
  /\ IF Count(op.read.rows) = Count(Without(op.shown, op.index)) /\ ~scan
       THEN Ends("confirmed") ELSE Fails
  /\ UNCHANGED local

\* The player refuses a position that is no longer there.
Refused ==
  /\ \/ op.kind \in QueueRows /\ target \notin DOMAIN player.queue
     \/ op.kind \in {"source", "remove"} /\ op.index \notin DOMAIN player.list
  /\ Send(player, "none")

(* ------------------------------- specification ------------------------------- *)

Works ==
  \/ Ask \/ ReadSetting \/ ReadBack \/ Page \/ Again \/ Unstable \/ ChooseRow \/ PreflightSettings
  \/ GuardedHTTP \/ SnapshotMode \/ SnapshotQueue \/ SnapshotEnds \/ Reread \/ Removed
Sends == control \/ set_favorite \/ set_setting \/ play_source \/ play_queue_index
         \/ remove_from_playlist \/ Refused
Next == Hand \/ ScanStarts \/ PlayerAnswers \/ Receive \/ TimesOut \/ Works \/ Sends \/ Breaks \/ Deadline

Spec == Init /\ [][Next]_vars

(* -------------------------------- properties -------------------------------- *)

\* Types; and a position that is sent lies within the queue that was read (the row
\* before the first would be Python's last row).
TypeOK ==
  /\ player.play \in {"playing", "paused"} /\ player.pos \in DOMAIN player.queue
  /\ op.kind \in Requests /\ op.sent \in BOOLEAN /\ waiting \in BOOLEAN
  /\ Len(stream) + queries <= MaxWire + 1
  /\ result \in {"none", "not_sent", "uncertain", "confirmed", "already_satisfied"}
  /\ op.kind \in QueueRows /\ op.pc = "send" => target \in DOMAIN op.base.rows

Pasts(since) == {x[1] : x \in {y \in past : y[2] \/ ~since}}

\* A control or a favourite is reported as confirmed only if the player has really
\* been in the state asked for, whatever hands did and whichever answer was taken
\* for the query's (controls.py verify(), current.py set_favorite()).
ConfirmedWasSo ==
  result = "confirmed" /\ op.kind \in Controls \union {"favorite"} => \E v \in Pasts(FALSE) : Shows(v)

\* controls.py:48, "Only the query's response establishes a current playing/paused
\* state": a confirmed control was so after its command had left.
ConfirmedSinceSent ==
  result = "confirmed" /\ op.kind \in Controls => \E v \in Pasts(TRUE) : Shows(v)

\* A confirmed selection: after the command had left, the player played the row the
\* caller chose, at its position (playback.py verify_playing(), queue.py snapshot()).
SelectionTookEffect ==
  result = "confirmed" /\ op.kind \in QueueRows \union {"source"} =>
    \E v \in Pasts(TRUE) : Playing(v) /\ v.song = op.base.rows[target] /\ v.pos = target

\* What two equal page-by-page reads accept has been the whole list at one moment, unless
\* it changed more than once since the operation began: with two changes the pages may be of
\* three lists, none of which had all of them (catalog.py, queue.py read_queue()).
SnapshotExisted ==
  Stable /\ Accepted /\ count.moves < 2 =>
    op.read.rows \in (IF op.pc = "queue" THEN was.queue ELSE was.list)

\* A position chosen on a display is sent only if the player has held the displayed rows
\* since the operation began, unless they changed more than once (catalog.py verify_expected()).
StaleRowsNeverSent ==
  op.sent /\ op.kind \in {"source", "index", "remove"} /\ count.moves < 2 =>
    op.shown \in (IF op.kind = "index" THEN was.queue ELSE was.list)

\* A removal is reported as confirmed only if the command met nothing, or a row whose list was
\* but for it the displayed one: the displayed row, or one that replaced it since the last check
\* (playlist_operations.py).
RightRowRemoved ==
  result = "confirmed" /\ op.kind = "remove" /\ count.moves < 3 /\ hit # "none" =>
    \E l \in was.list : /\ op.index \in DOMAIN l /\ l[op.index] = hit
                        /\ Count(Without(l, op.index)) = Count(Without(op.shown, op.index))

\* A selection is not confirmed over a library scan that began before its command
\* left: TCP brings the event before the last answer (session.py scan_guard()).
ScanIsNoticed ==
  result = "confirmed" /\ op.kind \in QueueRows \union {"source"} =>
    ~scan /\ \A i \in DOMAIN stream : stream[i].play = "scan" => stream[i].sent

\* Where nobody else acts and no exchange fails, an operation on rows that are still
\* displayed truly does what it says: the guards never refuse their own work.
UndisturbedSucceeds ==
  result \in {"not_sent", "uncertain"} =>
    disturbed \/ op.shown # player.list \/ op.index > Len(op.shown)
==============================================================================
