----------------------------- MODULE LiveClient -----------------------------
(***************************************************************************)
(* One LiveClient of controller/session.py: the reader thread, one caller  *)
(* inside an operation, and the thread that owns the connection and may    *)
(* close it.  The player and the TCP stream between are external.          *)
(*                                                                         *)
(* A region under `condition` that does not block is one step.  request()  *)
(* keeps the condition while it sends and gives it up while it waits.      *)
(***************************************************************************)
EXTENDS Naturals, Sequences

CONSTANTS Songs, NoSong,
          MaxQueries,     \* bound on the queries ever asked
          MaxPushes,      \* bound on unsolicited messages of the player
          Budget          \* events one operation may hold (10000 in the code)

ASSUME SongAssumption == NoSong \notin Songs
ASSUME LimitAssumption == MaxQueries \in Nat /\ MaxPushes \in Nat /\ Budget \in Nat \ {0}

VARIABLES
  device,       \* external: what the player plays
  scanning,     \* external: the player scans its library
  pushes,       \* external: unsolicited messages sent so far
  inbox,        \* external: queries on their way to the player
  wire,         \* external: frames on their way to the reader
  life,         \* "open", "closing" (closed is set), "shut" (socket shut down)
  waiting, reply, events, active, scan_active, state,
  reading, chunk,   \* the reader: its position and the frames it still holds
  owner,        \* the owner's close(): "no", "flag", "shut", "done"
  pc, update,   \* the caller: its position and what now_playing returned
  asked,        \* number of the last query
  verdict,      \* history: the last scan check, unless a scan frame came later
  heard         \* history: a scan was active at, or reported since, the start

deviceVars == <<device, scanning, pushes>>
requestVars == <<waiting, reply, asked>>
readerVars == <<reading, chunk>>
historyVars == <<verdict, heard>>
vars == <<deviceVars, inbox, wire, life, requestVars, events, active,
          scan_active, state, readerVars, owner, pc, update, historyVars>>

\* A playback payload; a field that is absent on the wire is absent here.
Playback == [song : Songs \cup {NoSong},
             state : {"playing", "paused", "stopped", "absent"}]
Blank == [song |-> NoSong, state |-> "absent"]

\* What the player can be doing; at the end of a queue it has no song.
Plays == [song : Songs, state : {"playing", "paused", "stopped"}]
           \cup {[song |-> NoSong, state |-> "stopped"]}

\* Frames carry the number of the query they answer, 0 for a notification.
Tags == {"a202", "other", "scan_on", "scan_off"}
Frame(tag, load, query) == [tag |-> tag, load |-> load, query |-> query]
None == Frame("none", Blank, 0)
Frames == [tag : Tags, load : Playback, query : 0 .. MaxQueries]

TypeOK ==
  /\ device \in Playback /\ scanning \in BOOLEAN /\ pushes \in 0 .. MaxPushes
  /\ inbox \in Seq([tag : {"a202", "other"}, query : 1 .. MaxQueries])
  /\ wire \in Seq(Frames) /\ chunk \in Seq(Frames) /\ events \in Seq(Frames)
  /\ life \in {"open", "closing", "shut"}
  /\ waiting \in {"none", "a202", "other"} /\ reply \in Frames \cup {None}
  /\ active \in BOOLEAN /\ scan_active \in BOOLEAN /\ state \in Playback
  /\ reading \in {"loop", "recv", "flag", "shut", "clear", "done"}
  /\ owner \in {"no", "flag", "shut", "done"}
  /\ pc \in {"idle", "body", "sending", "awaiting", "copy", "ending"}
  /\ update \in Playback /\ asked \in 0 .. MaxQueries
  /\ verdict \in {"none", "clear"} /\ heard \in BOOLEAN

Closed == life # "open"                      \* closed.is_set()
ConditionFree == pc # "sending"              \* no thread blocks while it holds it
ScanTags == {"scan_on", "scan_off"}

\* merge_snapshot: a new song, or a stop without one, forgets what was known.
merge_snapshot(known, news) ==
  LET other == news.song \notin {NoSong, known.song}
      ends  == news.song = NoSong /\ news.state = "stopped"
      kept  == IF other \/ ends THEN Blank ELSE known
  IN [song  |-> IF news.song = NoSong THEN kept.song ELSE news.song,
      state |-> IF news.state = "absent" THEN kept.state ELSE news.state]

Init ==
  /\ device \in Plays
  /\ scanning = FALSE /\ pushes = 0 /\ inbox = <<>> /\ wire = <<>>
  /\ life = "open" /\ waiting = "none" /\ reply = None /\ events = <<>>
  /\ active = FALSE /\ scan_active = FALSE /\ state = Blank
  /\ reading = "loop" /\ chunk = <<>> /\ owner = "no"
  /\ pc = "idle" /\ update = Blank /\ asked = 0
  /\ verdict = "none" /\ heard = FALSE

----------------------------------------------------------------------------
(* The player (external)                                                   *)

\* Every change of playback, a key press included, is notified; the
\* notification may omit the song.
DevicePlays(now) ==
  /\ pushes < MaxPushes /\ now # device /\ device' = now /\ pushes' = pushes + 1
  /\ \E load \in {now, [now EXCEPT !.song = NoSong]} :
       /\ merge_snapshot(device, load) = now
       /\ wire' = Append(wire, Frame("a202", load, 0))
  /\ UNCHANGED <<scanning, inbox, life, requestVars, events, active, scan_active,
                 state, readerVars, owner, pc, update, historyVars>>

DeviceScans ==
  /\ pushes < MaxPushes
  /\ scanning' = ~scanning /\ pushes' = pushes + 1
  /\ wire' = Append(wire, Frame(IF scanning THEN "scan_off" ELSE "scan_on", Blank, 0))
  /\ UNCHANGED <<device, inbox, life, requestVars, events, active, scan_active,
                 state, readerVars, owner, pc, update, historyVars>>

\* A query is answered with the present state, with an empty payload while
\* the player loads a song, or not at all.
DeviceAnswers ==
  /\ inbox # <<>>
  /\ inbox' = Tail(inbox)
  /\ LET asks == Head(inbox) IN
       \/ \E load \in (IF asks.tag = "a202" THEN {device, Blank} ELSE {Blank}) :
            wire' = Append(wire, Frame(asks.tag, load, asks.query))
       \/ UNCHANGED wire
  /\ UNCHANGED <<deviceVars, life, requestVars, events, active, scan_active,
                 state, readerVars, owner, pc, update, historyVars>>

----------------------------------------------------------------------------
(* close(): the flag, the socket, then the state under the condition       *)

Flag == life' = IF life = "open" THEN "closing" ELSE life
Shut == life' = "shut"
Forget == state' = Blank

\* close() by a thread that already holds the condition.
CloseHere == Shut /\ Forget

OwnerFlags ==
  /\ owner = "no" /\ Flag /\ owner' = "flag"
  /\ UNCHANGED <<deviceVars, inbox, wire, requestVars, events, active,
                 scan_active, state, readerVars, pc, update, historyVars>>

OwnerShuts ==
  /\ owner = "flag" /\ Shut /\ owner' = "shut"
  /\ UNCHANGED <<deviceVars, inbox, wire, requestVars, events, active,
                 scan_active, state, readerVars, pc, update, historyVars>>

OwnerForgets ==
  /\ owner = "shut" /\ ConditionFree /\ Forget /\ owner' = "done"
  /\ UNCHANGED <<deviceVars, inbox, wire, life, requestVars, events, active,
                 scan_active, readerVars, pc, update, historyVars>>

----------------------------------------------------------------------------
(* _receive, the reader thread                                             *)

ReaderLooks ==
  /\ reading = "loop"
  /\ reading' = IF Closed THEN "flag" ELSE "recv"
  /\ UNCHANGED <<deviceVars, inbox, wire, life, requestVars, events, active,
                 scan_active, state, chunk, owner, pc, update, historyVars>>

\* recv returns some of the bytes that have arrived, even if the client is
\* closed meanwhile.
Recv ==
  /\ reading = "recv" /\ chunk = <<>> /\ wire # <<>>
  /\ \E n \in 1 .. Len(wire) :
       /\ chunk' = SubSeq(wire, 1, n)
       /\ wire' = SubSeq(wire, n + 1, Len(wire))
  /\ UNCHANGED <<deviceVars, inbox, life, requestVars, events, active,
                 scan_active, state, reading, owner, pc, update, historyVars>>

\* _update of the reduced state.
Reduce(frame) ==
  /\ state' = IF frame.tag = "a202" THEN merge_snapshot(state, frame.load) ELSE state
  /\ scan_active' = IF frame.tag \in ScanTags THEN frame.tag = "scan_on" ELSE scan_active

IsReply(frame) == waiting = frame.tag /\ reply = None

\* What the history notes about a scan frame met during an operation.
Note(frame) ==
  /\ heard' = (heard \/ (active /\ frame.tag \in ScanTags))
  /\ verdict' = IF frame.tag \in ScanTags THEN "none" ELSE verdict

\* One frame of the chunk, with no look at the closed flag: the reply that is
\* waited for by tag, or an event of the operation within its budget.
Handle ==
  /\ reading = "recv" /\ chunk # <<>> /\ ConditionFree
  /\ LET frame == Head(chunk)
         full  == ~IsReply(frame) /\ active /\ Len(events) >= Budget
     IN /\ Reduce(frame) /\ Note(frame)
        /\ reply' = IF IsReply(frame) THEN frame ELSE reply
        /\ events' = IF IsReply(frame) \/ ~active \/ full THEN events
                     ELSE Append(events, frame)
        /\ chunk' = IF full THEN <<>> ELSE Tail(chunk)
        /\ reading' = IF full THEN "flag"
                      ELSE IF Tail(chunk) = <<>> THEN "loop" ELSE "recv"
  /\ UNCHANGED <<deviceVars, inbox, wire, life, waiting, asked, active, owner,
                 pc, update>>

\* The stream ends, or a frame cannot be parsed; the rest of it is lost.
ReaderStops ==
  /\ reading = "recv"
  /\ reading' = "flag" /\ chunk' = <<>>
  /\ UNCHANGED <<deviceVars, inbox, wire, life, requestVars, events, active,
                 scan_active, state, owner, pc, update, historyVars>>

\* Mutant: close() returns at once when the client is closed already.
Bug_ReaderFlags ==
  /\ reading = "flag" /\ Flag
  /\ reading' = IF Closed THEN "done" ELSE "shut"
  /\ UNCHANGED <<deviceVars, inbox, wire, requestVars, events, active,
                 scan_active, state, chunk, owner, pc, update, historyVars>>

ReaderFlags ==
  /\ reading = "flag" /\ Flag /\ reading' = "shut"
  /\ UNCHANGED <<deviceVars, inbox, wire, requestVars, events, active,
                 scan_active, state, chunk, owner, pc, update, historyVars>>

ReaderShuts ==
  /\ reading = "shut" /\ Shut /\ reading' = "clear"
  /\ UNCHANGED <<deviceVars, inbox, wire, requestVars, events, active,
                 scan_active, state, chunk, owner, pc, update, historyVars>>

ReaderForgets ==
  /\ reading = "clear" /\ ConditionFree /\ Forget /\ reading' = "done"
  /\ UNCHANGED <<deviceVars, inbox, wire, life, requestVars, events, active,
                 scan_active, chunk, owner, pc, update, historyVars>>

----------------------------------------------------------------------------
(* The caller: one operation and its queries                               *)

\* Mutant: a scan met between two operations is not reported to the next.
Bug_begin_operation ==
  /\ pc = "idle" /\ ~Closed
  /\ active' = TRUE /\ pc' = "body"
  /\ events' = <<>>
  /\ heard' = scan_active /\ verdict' = "none"
  /\ UNCHANGED <<deviceVars, inbox, wire, life, requestVars, scan_active, state,
                 readerVars, owner, update>>

begin_operation ==
  /\ pc = "idle" /\ ~Closed
  /\ active' = TRUE /\ pc' = "body"
  /\ events' = IF scan_active THEN <<Frame("scan_on", Blank, 0)>> ELSE <<>>
  /\ heard' = scan_active /\ verdict' = "none"
  /\ UNCHANGED <<deviceVars, inbox, wire, life, requestVars, scan_active, state,
                 readerVars, owner, update>>

end_operation ==
  /\ pc \in {"body", "ending"}
  /\ active' = FALSE /\ events' = <<>> /\ pc' = "idle" /\ verdict' = "none"
  /\ UNCHANGED <<deviceVars, inbox, wire, life, requestVars, scan_active, state,
                 readerVars, owner, update, heard>>

\* Mutant: the query is sent before the reply it waits for is named.
Bug_Ask(tag) ==
  /\ pc = "body" /\ ~Closed /\ asked < MaxQueries
  /\ asked' = asked + 1
  /\ pc' = "sending"
  /\ UNCHANGED <<deviceVars, inbox, wire, life, waiting, reply, events, active,
                 scan_active, state, readerVars, owner, update, historyVars>>

\* request(): from here to the end of sendall the condition is kept.
Ask(tag) ==
  /\ pc = "body" /\ ~Closed /\ asked < MaxQueries
  /\ waiting' = tag /\ reply' = None /\ asked' = asked + 1
  /\ pc' = "sending"
  /\ UNCHANGED <<deviceVars, inbox, wire, life, events, active, scan_active,
                 state, readerVars, owner, update, historyVars>>

\* request() raises; the callback goes on without the answer or ends.
GiveUp == waiting' = "none" /\ reply' = None /\ pc' = "body"

Send ==
  /\ pc = "sending" /\ life # "shut"
  /\ inbox' = Append(inbox, [tag |-> waiting, query |-> asked])
  /\ pc' = "awaiting"
  /\ UNCHANGED <<deviceVars, wire, life, requestVars, events, active,
                 scan_active, state, readerVars, owner, update, historyVars>>

\* The flag is set before the write, or the write fails and closes.
SendFails ==
  /\ pc = "sending"
  /\ \/ Closed /\ UNCHANGED <<life, state>>
     \/ CloseHere
  /\ GiveUp
  /\ UNCHANGED <<deviceVars, inbox, wire, asked, events, active, scan_active,
                 readerVars, owner, update, historyVars>>

Answered ==
  /\ pc = "awaiting" /\ reply # None /\ ~Closed
  /\ waiting' = "none" /\ reply' = None
  /\ update' = Blank
  /\ pc' = IF waiting = "a202" /\ reply.load # Blank THEN "copy" ELSE "body"
  /\ UNCHANGED <<deviceVars, inbox, wire, life, asked, events, active,
                 scan_active, state, readerVars, owner, historyVars>>

Cut ==
  /\ pc = "awaiting" /\ Closed /\ GiveUp
  /\ UNCHANGED <<deviceVars, inbox, wire, life, asked, events, active,
                 scan_active, state, readerVars, owner, update, historyVars>>

\* Mutant: a timeout never retires the connection.
Bug_TimesOut ==
  /\ pc = "awaiting" /\ reply = None /\ ~Closed /\ GiveUp
  /\ UNCHANGED <<deviceVars, inbox, wire, life, asked, events, active,
                 scan_active, state, readerVars, owner, update, historyVars>>

\* Only a now-playing query, silent at the end of a queue, may time out
\* without retiring the connection.
TimesOut ==
  /\ pc = "awaiting" /\ reply = None /\ ~Closed /\ GiveUp
  /\ IF waiting = "a202" THEN UNCHANGED <<life, state>> ELSE CloseHere
  /\ UNCHANGED <<deviceVars, inbox, wire, asked, events, active, scan_active,
                 readerVars, owner, update, historyVars>>

\* now_playing returns the reduced state, read under the condition again.
Copy ==
  /\ pc = "copy"
  /\ update' = state /\ pc' = "body"
  /\ UNCHANGED <<deviceVars, inbox, wire, life, requestVars, events, active,
                 scan_active, state, readerVars, owner, historyVars>>

HoldsScan == \E i \in DOMAIN events : events[i].tag \in ScanTags

\* A check that finds a scan frame raises and ends the operation.
Judge(passes) ==
  /\ events' = <<>>
  /\ IF passes THEN verdict' = "clear" /\ pc' = "body"
               ELSE verdict' = "none" /\ pc' = "ending"

\* observe() and verify_playing() take the events and validate them.
Observe ==
  /\ pc = "body" /\ Judge(~HoldsScan)
  /\ UNCHANGED <<deviceVars, inbox, wire, life, requestVars, active, scan_active,
                 state, readerVars, owner, update, heard>>

scan_guard ==
  /\ pc = "body" /\ ~Closed /\ Judge(~HoldsScan /\ ~scan_active)
  /\ UNCHANGED <<deviceVars, inbox, wire, life, requestVars, active, scan_active,
                 state, readerVars, owner, update, heard>>

----------------------------------------------------------------------------
Device == (\E now \in Plays : DevicePlays(now)) \/ DeviceScans \/ DeviceAnswers
Owner == OwnerFlags \/ OwnerShuts \/ OwnerForgets
Reader == ReaderLooks \/ Recv \/ Handle \/ ReaderStops \/ ReaderFlags \/ ReaderShuts \/ ReaderForgets
Request == Send \/ SendFails \/ Answered \/ Cut \/ TimesOut
Caller == \/ begin_operation \/ end_operation \/ scan_guard
          \/ \E tag \in {"a202", "other"} : Ask(tag)
          \/ Request \/ Copy \/ Observe

Next == Device \/ Owner \/ Reader \/ Caller
Spec == Init /\ [][Next]_vars

(***************************************************************************)
(* The reader runs and notices a closed socket; a request ends by its      *)
(* deadline; a close() that began goes on.  The player owes nothing.       *)
(***************************************************************************)
Fairness ==
  /\ WF_vars(ReaderLooks) /\ SF_vars(Handle) /\ WF_vars(life = "shut" /\ chunk = <<>> /\ ReaderStops)
  /\ WF_vars(ReaderFlags) /\ WF_vars(ReaderShuts) /\ SF_vars(ReaderForgets)
  /\ WF_vars(OwnerShuts) /\ SF_vars(OwnerForgets)
  /\ WF_vars(Request)
FairSpec == Spec /\ Fairness

----------------------------------------------------------------------------
\* "Other late replies cannot be safely reused": except for now-playing, a
\* reply that reaches the caller answers the caller's own query.
RepliesMatch ==
  pc = "awaiting" /\ waiting = "other" /\ reply # None => reply.query = asked

\* "A scan observed while idle must also block": a check passes only if no
\* scan was active when the operation began and none was reported since.
\* A reader that met a full event queue has lost a frame; it is closing.
ScanBlocks == verdict = "clear" /\ reading \in {"loop", "recv"} => ~heard

\* A client whose reader has ended shows no playback any more, although the reader may
\* handle frames after another thread's close() has cleared it (session.py:80).
NothingShownAfterEnd == reading = "done" => state = Blank

\* Once a client is closed, by whomever, its reader ends and what it showed is forgotten; that
\* it stays so is NothingShownAfterEnd.
CloseForgets == Closed ~> (reading = "done" /\ state = Blank)
============================================================================
