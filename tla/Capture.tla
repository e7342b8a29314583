-------------------------------- MODULE Capture --------------------------------
(* The captured sound of one emulated player (audio.py): a player that opens,      *)
(* writes, empties and closes its output through the audio shim, a supervisor that *)
(* kills it and resets what it left, and readers of the same files: an export to   *)
(* WAV or a page that fetches chunks, and a reader of the output's state.           *)
EXTENDS Naturals, Sequences, SequencesExt

CONSTANTS MaxCaptures,  \* bound: times the shim starts a capture
          MaxFrames     \* bound: frames of one capture (CAPTURE_MAX)

VARIABLES
  player,  \* the player: "dead", "closed" or "open"; its capture and its stream's state
  todo,    \* file operations the shim (or the supervisor) still has to do, in order
  pcm,     \* audio.pcm: the capture its frames belong to and how many there are
  fmt,     \* audio.fmt: the capture whose format it holds (0: empty), its mtime
  out,     \* the stream's status, hw_params (0: closed) and audio-state
  export,  \* export_wav: position, what it took for the header, offset, captures read
  look,    \* output_state: position, what it has read, its report
  quiet    \* history: no file has changed since output_state was called

vars == <<player, todo, pcm, fmt, out, export, look, quiet>>
files == <<pcm, fmt, out>>
Captures == 0..MaxCaptures

NoExport == [pc |-> "idle", head |-> 0, text |-> 0, size |-> 0, offset |-> 0, taken |-> {}]
Closed == [status |-> "closed", params |-> 0, activity |-> "closed"]
NoLook == [pc |-> "idle", status |-> "closed", params |-> 0, activity |-> "closed", tries |-> 3]

Init ==
  /\ player = [state |-> "closed", capture |-> 0] /\ todo = <<>>
  /\ pcm = [of |-> 0, frames |-> 0] /\ fmt = [text |-> 0, mtime |-> 0] /\ out = Closed
  /\ export = NoExport /\ look = NoLook /\ quiet = FALSE

readers == <<export, look>>
stream == IF player.state = "open" THEN "RUNNING" ELSE "closed"

(* --------------------------------- the player --------------------------------- *)

\* pcm_open and the first write: the capture is emptied before its format changes.
pcm_open ==
  /\ player.state = "closed" /\ todo = <<>> /\ player.capture < MaxCaptures
  /\ player' = [state |-> "open", capture |-> player.capture + 1]
  /\ todo' = <<"empty", "no format", "format", "params", "RUNNING", "samples">>
  /\ UNCHANGED <<files, readers, quiet>>

\* A write that would exceed the limit starts a new capture.
pcm_write ==
  /\ player.state = "open" /\ todo = <<>>
  /\ IF pcm.frames < MaxFrames THEN todo' = <<"frame">> /\ UNCHANGED player
     ELSE /\ player.capture < MaxCaptures /\ player' = [player EXCEPT !.capture = @ + 1]
          /\ todo' = <<"empty", "no format", "format", "frame">>
  /\ UNCHANGED <<files, readers, quiet>>

pcm_close ==
  /\ player.state = "open" /\ todo = <<>>
  /\ player' = [player EXCEPT !.state = "closed"] /\ todo' = <<"closed", "no params", "silent">>
  /\ UNCHANGED <<files, readers, quiet>>

\* The player is killed between two operations; the supervisor resets the output.
reset_output == <<"closed", "no params", "silent">>

Killed ==
  /\ player.state # "dead"
  /\ player' = [player EXCEPT !.state = "dead"] /\ todo' = reset_output
  /\ UNCHANGED <<files, readers, quiet>>

Restarted ==
  /\ player.state = "dead" /\ todo = <<>> /\ player' = [player EXCEPT !.state = "closed"]
  /\ UNCHANGED <<todo, files, readers, quiet>>

FileOperation ==
  /\ todo # <<>> /\ todo' = Tail(todo) /\ quiet' = FALSE
  /\ LET op == Head(todo) IN
       /\ pcm' = CASE op = "empty" -> [of |-> player.capture, frames |-> 0]
                   [] op = "frame" -> [pcm EXCEPT !.frames = @ + 1]
                   [] OTHER -> pcm
       /\ fmt' = CASE op = "no format" -> [text |-> 0, mtime |-> player.capture]
                   [] op = "format" -> [fmt EXCEPT !.text = player.capture]
                   [] OTHER -> fmt
       /\ out' = CASE op \in {"closed", "RUNNING"} -> [out EXCEPT !.status = op]
                   [] op = "params" -> [out EXCEPT !.params = player.capture]
                   [] op = "no params" -> [out EXCEPT !.params = 0]
                   [] op = "samples" -> [out EXCEPT !.activity = "samples"]
                   [] op = "silent" -> [out EXCEPT !.activity = "closed"]
                   [] OTHER -> out
  /\ UNCHANGED <<player, readers>>

(* --------------------------------- the export --------------------------------- *)

Export(pc) == export' = [export EXCEPT !.pc = pc]
unread == <<player, todo, files, look, quiet>>

\* capture_info: the format, then the mtime of the file it came from, then the size.
ReadFormat ==
  /\ export.pc = "idle" /\ fmt.text # 0
  /\ export' = [export EXCEPT !.pc = "stamp", !.text = fmt.text] /\ UNCHANGED unread

ReadStamp == export.pc = "stamp" /\ export' = [export EXCEPT !.pc = "size", !.head = fmt.mtime] /\ UNCHANGED unread

capture_info ==
  /\ export.pc = "size" /\ export' = [export EXCEPT !.pc = "chunk", !.size = pcm.frames]
  /\ UNCHANGED unread

\* read_chunk: one capture_info, the frames, and another one.
Chunk ==
  /\ export.pc = "chunk"
  /\ IF export.offset >= export.size THEN Export("done")
     ELSE IF fmt.text = 0 \/ fmt.mtime # export.head \/ pcm.frames <= export.offset THEN Export("failed")
     ELSE Export("read")
  /\ UNCHANGED unread

ReadFrames ==
  /\ export.pc = "read"
  /\ IF pcm.frames <= export.offset THEN Export("failed")
     ELSE export' = [export EXCEPT !.pc = "check", !.offset = @ + 1, !.taken = @ \union {pcm.of}]
  /\ UNCHANGED unread

\* Mutant: the generation is not compared again after the frames were read.
Bug_read_chunk == export.pc = "check" /\ Export("chunk") /\ UNCHANGED unread

read_chunk ==
  /\ export.pc = "check"
  /\ Export(IF fmt.text # 0 /\ fmt.mtime = export.head THEN "chunk" ELSE "failed")
  /\ UNCHANGED unread

export_wav == export.pc \in {"done", "failed"} /\ export' = NoExport /\ UNCHANGED unread

(* ------------------------------ the output's state ------------------------------ *)

unlooked == <<player, todo, files, export>>

Look(pc, field, value) == look.pc = pc /\ look' = [look EXCEPT !.pc = field, ![field] = value]

ReadStatus ==
  /\ look.pc = "idle" /\ look' = [look EXCEPT !.pc = "status", !.status = out.status]
  /\ quiet' = (look.tries = 3 \/ quiet) /\ UNCHANGED unlooked

ReadParameters == Look("status", "params", out.params) /\ UNCHANGED <<unlooked, quiet>>
ReadActivity == Look("params", "activity", out.activity) /\ UNCHANGED <<unlooked, quiet>>

\* A pair that changed meanwhile is read again, three times in all, and then called closed.
output_state ==
  /\ look.pc = "activity"
  /\ LET again == [NoLook EXCEPT !.tries = look.tries - 1]
         closed == [look EXCEPT !.pc = "report", !.status = "closed", !.params = 0, !.activity = "closed"]
     IN  look' = IF out.status # look.status \/ (look.status # "closed" /\ look.params = 0)
                   THEN IF look.tries = 1 THEN closed ELSE again
                 ELSE IF look.status = "closed" THEN closed ELSE [look EXCEPT !.pc = "report"]
  /\ UNCHANGED <<unlooked, quiet>>

Report == look.pc = "report" /\ look' = NoLook /\ UNCHANGED <<unlooked, quiet>>

Next ==
  \/ pcm_open \/ pcm_write \/ pcm_close \/ Killed \/ Restarted \/ FileOperation
  \/ ReadFormat \/ ReadStamp \/ capture_info \/ Chunk \/ ReadFrames \/ read_chunk \/ export_wav
  \/ ReadStatus \/ ReadParameters \/ ReadActivity \/ output_state \/ Report

Spec == Init /\ [][Next]_vars

(* --------------------------------- properties --------------------------------- *)

TypeOK ==
  /\ player \in [state : {"dead", "closed", "open"}, capture : Captures]
  /\ pcm \in [of : Captures, frames : 0..MaxFrames] /\ fmt \in [text : Captures, mtime : Captures]
  /\ out \in [status : {"closed", "RUNNING"}, params : Captures, activity : {"closed", "samples"}]
  /\ export.taken \subseteq Captures /\ export.offset <= export.size /\ look.tries \in 1..3

\* All the frames of an export, or of the chunks a page has fetched, belong to the capture
\* whose generation they were asked for, although the shim may empty the file and start
\* another at any step (read_chunk).
ExportIsOneCapture == export.pc \in {"chunk", "done"} => export.taken \subseteq {export.head}

\* What output_state reports of an output that has not changed meanwhile is so, also after
\* a player was killed without closing it.
OutputIsTrue ==
  look.pc = "report" /\ quiet /\ todo = <<>> =>
    /\ look.status = stream /\ (look.params = 0) = (stream = "closed")
    /\ stream # "closed" => look.params = out.params

(* ------------------------------ inductive invariant ------------------------------ *)

Exports == [pc : {"idle", "stamp", "size", "chunk", "read", "check", "done", "failed"}, head : Captures,
            text : Captures, size : 0..MaxFrames, offset : 0..MaxFrames, taken : SUBSET Captures]
Looks == [pc : {"idle", "status", "params", "activity", "report"}, status : {"closed", "RUNNING"},
          params : Captures, activity : {"closed", "samples"}, tries : 1..3]
Types == TypeOK /\ export \in Exports /\ look \in Looks /\ quiet \in BOOLEAN

\* How far the files of a capture that is being started are.
Emptied == pcm = [of |-> player.capture, frames |-> 0]
Stamped == Emptied /\ fmt.mtime = player.capture
Formatted == pcm.of = player.capture /\ fmt = [text |-> player.capture, mtime |-> player.capture]
Running == out.status = "RUNNING" /\ out.params # 0
Opened == player.state = "open" /\ out.status = "closed"
Writes == player.state = "open" /\ Running
Ended == player.state # "open"

\* What the shim, or the supervisor, still has to do says what the files hold.
TodoInv ==
  \/ todo = <<>> /\ Writes /\ Formatted
  \/ todo = <<>> /\ Ended /\ out.status = "closed" /\ out.params = 0
  \/ todo = <<"empty", "no format", "format", "params", "RUNNING", "samples">> /\ Opened
  \/ todo = <<"no format", "format", "params", "RUNNING", "samples">> /\ Opened /\ Emptied
  \/ todo = <<"format", "params", "RUNNING", "samples">> /\ Opened /\ Stamped
  \/ todo = <<"params", "RUNNING", "samples">> /\ Opened /\ Formatted
  \/ todo = <<"RUNNING", "samples">> /\ Opened /\ Formatted /\ out.params # 0
  \/ todo = <<"samples">> /\ Writes /\ Formatted
  \/ todo = <<"empty", "no format", "format", "frame">> /\ Writes
  \/ todo = <<"no format", "format", "frame">> /\ Writes /\ Emptied
  \/ todo = <<"format", "frame">> /\ Writes /\ Stamped
  \/ todo = <<"frame">> /\ Writes /\ Formatted /\ pcm.frames < MaxFrames
  \/ todo = <<"closed", "no params", "silent">> /\ Ended
  \/ todo = <<"no params", "silent">> /\ Ended /\ out.status = "closed"
  \/ todo = <<"silent">> /\ Ended /\ out.status = "closed" /\ out.params = 0

\* Frames that can be read belong to the capture that the format's file was stamped for.
FileInv ==
  /\ player.state = "open" => player.capture # 0
  /\ pcm.frames > 0 => pcm.of = fmt.mtime
  /\ fmt.mtime <= player.capture
  /\ out.status = "RUNNING" => out.params # 0

\* Stamps only grow: frames that were read between two equal ones are of that capture.
ExportInv ==
  /\ export.pc \in {"size", "chunk", "read", "check", "done"} => export.head <= fmt.mtime
  /\ export.pc \in {"idle", "stamp", "size"} => export.taken = {} /\ export.offset = 0
  /\ export.pc = "read" => export.offset < export.size
  /\ export.pc \in {"chunk", "read", "done"} => export.taken \subseteq {export.head}
  /\ export.pc = "check" /\ fmt.mtime = export.head => export.taken \subseteq {export.head}

\* What was read of an output that has stayed as it was is what it is.
LookInv ==
  quiet =>
    /\ look.pc \in {"status", "params", "activity", "report"} => look.status = out.status
    /\ look.pc \in {"params", "activity"} => look.params = out.params
    /\ look.pc = "report" => look.params = IF look.status = "closed" THEN 0 ELSE out.params

IInv == Types /\ TodoInv /\ FileInv /\ ExportInv /\ LookInv
================================================================================
