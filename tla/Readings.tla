--------------------------------- MODULE Readings --------------------------------
(* From the player's words to the typed models of the public interface (wire.py,             *)
(* models.py): firmware omits fields, adds codes of its own and sends other types, Python     *)
(* takes a Boolean for an integer, and nothing of it may become a state, a source, a row or   *)
(* a mode that the player is not in.  A field is a pair of a type and a value.               *)
EXTENDS Integers

VARIABLES
  truth,    \* external: what the player does, from where, and which row of its queue
  raw,      \* its message
  status,   \* what the session keeps besides: the label it worked out, the mode's number
  snapshot, \* what the interface shows of it
  pc

vars == <<truth, raw, status, snapshot, pc>>

Absent == <<"absent", 0>>
Number(n) == <<"int", n>>
Flag(b) == <<"bool", b>>
Kind(f) == f[1]
None == -1
Reviewed == (0..8) \union {10}    \* PlaybackSource
MODES == <<"list_once", "random", "repeat_one", "repeat_list", "single_once">>
Code == [playing |-> 0, paused |-> 1, stopped |-> 2, loading |-> 2]

\* A field as it is, left out, as a Boolean, or as a code the interface does not know.
Field(value, new) == {Number(value), Absent, Flag(TRUE), Number(new)}
Song == [title : {<<"str", "t">>, <<"str", "">>, Number(1)}, pos : {Number(0), Number(1), Number(2), Number(-1), Flag(TRUE)},
         rate : {Number(44100), Number(0), Flag(TRUE)}]

Init ==
  /\ truth \in [play : DOMAIN Code, source : {0, 7}, row : {0, 1}]
  /\ \E state \in Field(Code[truth.play], 3), flag \in Field(truth.source, 9),
        love \in {Absent, Flag(TRUE), Number(1)}, song \in Song :
       /\ Kind(song.pos) = "int" /\ song.pos[2] > 0 => song.pos[2] = truth.row + 1
       /\ raw = [state |-> state, playerflag |-> flag, love |-> love, song |-> song]
  /\ status \in [label : {"unknown", truth.play}, mode : {Absent, Number(4), Number(5)}]
  /\ snapshot = [state |-> "none", track |-> "none", position |-> None, source |-> None, favorite |-> Absent, rate |-> None, mode |-> "none"]
  /\ pc = "raw"

\* Mutant: a Boolean passes for an integer.
Bug_valid(f, type) == f = Absent \/ Kind(f) = type \/ (type = "int" /\ Kind(f) = "bool")

valid(f, type) == f = Absent \/ Kind(f) = type

\* The whole message is refused if a known field has another type; a song may be text.
validate_playback ==
  /\ valid(raw.state, "int") /\ valid(raw.playerflag, "int") /\ valid(raw.love, "bool")
  /\ valid(raw.song.title, "str") /\ valid(raw.song.pos, "int") /\ (Kind(raw.song.pos) = "int" => raw.song.pos[2] >= 0)

\* Python's equality: True is 1.
Equals(f, n) == f = Number(n) \/ (f = Flag(TRUE) /\ n = 1)

Track == raw.song.title \notin {Absent, <<"str", "">>}
Position == IF Track /\ Kind(raw.song.pos) = "int" /\ raw.song.pos[2] > 0 THEN raw.song.pos[2] - 1 ELSE None
source_from_wire == IF Kind(raw.playerflag) = "int" /\ raw.playerflag[2] \in Reviewed THEN raw.playerflag[2]
                    ELSE None
positive_integer(f) == IF Kind(f) = "int" /\ f[2] > 0 THEN f[2] ELSE None

Shows(label, mode) ==
  snapshot' = [state |-> label, track |-> IF Track THEN "t" ELSE "none", position |-> Position, source |-> source_from_wire,
               favorite |-> raw.love, rate |-> IF Track THEN positive_integer(raw.song.rate) ELSE None, mode |-> mode]

mode_of(f) == IF Kind(f) = "int" /\ f[2] \in 0..4 THEN MODES[f[2] + 1] ELSE "none"

\* A bare message never proves a stop, and says nothing of playing without a song.
label == CASE Equals(raw.state, 2) -> "loading" [] Track /\ Equals(raw.state, 0) -> "playing" [] Track /\ Equals(raw.state, 1) -> "paused"
           [] OTHER -> "unknown"

\* A command's result: a mode without a name is an error of the whole.
from_result ==
  /\ pc = "raw" /\ pc' = "result" /\ UNCHANGED <<truth, raw, status>>
  /\ IF ~validate_playback \/ (status.mode # Absent /\ mode_of(status.mode) = "none") THEN UNCHANGED snapshot
     ELSE Shows(label, mode_of(status.mode))

\* The session's own label, and the mode's name if it has one.
from_observation ==
  /\ pc = "raw" /\ pc' = "observation" /\ UNCHANGED <<truth, raw, status>>
  /\ IF ~validate_playback THEN UNCHANGED snapshot ELSE Shows(status.label, mode_of(status.mode))

Next == from_result \/ from_observation
Spec == Init /\ [][Next]_vars

(* ----------------------------------- properties ----------------------------------- *)

TypeOK ==
  /\ pc \in {"raw", "result", "observation"} /\ truth.play \in DOMAIN Code
  /\ snapshot.state \in DOMAIN Code \union {"none", "unknown"} /\ snapshot.source \in Reviewed \union {None}
  /\ snapshot.mode \in {MODES[i] : i \in 1..5} \union {"none"}

\* Whatever the firmware sends, a snapshot shows what the player does, or nothing; a result
\* calls a stop loading; and a message in the known codes is shown in full.
NothingInvented ==
  pc # "raw" =>
    /\ snapshot.state \in {"none", "unknown", truth.play} \union (IF pc = "result" /\ truth.play = "stopped" THEN {"loading"} ELSE {})
    /\ snapshot.source \in {None, truth.source} /\ snapshot.position \in {None, truth.row} /\ snapshot.rate \in {None, 44100}
    /\ Kind(snapshot.favorite) \in {"absent", "bool"}
    /\ snapshot.state # "none" /\ Track /\ raw.playerflag = Number(truth.source) => snapshot.source = truth.source
    /\ pc = "result" /\ snapshot.state # "none" /\ Track /\ raw.state = Number(Code[truth.play]) /\ truth.play # "stopped" =>
         snapshot.state = truth.play
=================================================================================
