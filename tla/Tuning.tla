---------------------------------- MODULE Tuning ---------------------------------
(* The sound and device settings over the link (fiio_settings.py, the direct client of       *)
(* fiio_link.py and fiio_ws.py): 16-bit encodings that differ from setting to setting, and   *)
(* settings that only mean something in a mode of the player, which is asked for first and   *)
(* may be changed on the player before the setting arrives.  Values are numbers of steps:    *)
(* tenths of a decibel for gains, hundredths for a quality.                                  *)
EXTENDS Integers, FiniteSets

CONSTANTS MaxHands  \* bound: changes on the player

VARIABLES
  player,  \* external: the mode, the preset, each setting, each preset's band
  op,      \* the call: name, value, position
  link,    \* a frame on its way to the player, or its answer
  shown,   \* what the call answered: nothing or a value
  touched, \* history: the preset whose band, or the mode whose codec, the frame changed
  checked, \* history: the player's mode or preset when the call asked for it
  hands    \* history: changes on the player

vars == <<player, op, link, shown, touched, checked, hands>>

Local == 8       \* the work mode in which the Bluetooth codec is chosen
User == 160..169 \* presets with bands of the user's
Nothing == [tag |-> "none", value |-> 0]
None == -1
Changed == -2

Allowed ==
  [gain |-> 0..1, dre |-> 0..1, spdif |-> 0..1, balance |-> -20..20, filter |-> 0..5,
   eq_type |-> {255, 0, 1, 2, 3, 4, 5, 6, 8, 9, 10} \union User, eq_master_db |-> -240..120,
   work_mode |-> {1, 8, 10}, bt_source_codec |-> 0..4]
ReadOnly == [gapless |-> 0..1, folder_jump |-> 0..1, replay_gain |-> 0..2]
Settings == DOMAIN Allowed
Bands == [gain : {-240, -1, 0, 120}, frequency : {20, 20000}, quality : {10, 2000}]

Int16(n) == n % 65536
Signed(n) == IF n < 32768 THEN n ELSE n - 65536

Offered(name) == IF name \in Settings THEN UNION {{v - 1, v, v + 1} : v \in Allowed[name]} ELSE {0}  \* by a caller
Names == Settings \union DOMAIN ReadOnly
Flat == [gain |-> 0, frequency |-> 20, quality |-> 10]

Init ==
  /\ \E mode \in {1, 8}, preset \in {0, 160} :
       player = [set |-> [[s \in Names |-> 0] EXCEPT !.work_mode = mode, !.eq_type = preset], bands |-> [p \in User |-> Flat]]
  /\ \/ \E name \in Names : \E value \in Offered(name) : op = [name |-> name, value |-> value, band |-> Flat, pc |-> "call"]
     \/ \E band \in Bands : op = [name |-> "peq", value |-> 0, band |-> band, pc |-> "call"]
  /\ link = Nothing /\ shown = <<>> /\ touched = None /\ checked = None /\ hands = 0

Goto(pc) == op' = [op EXCEPT !.pc = pc]

(* -------------------------------- the encodings ---------------------------------- *)

\* Mutant: the balance is a signed number.
Bug_setting_command(name, value) == IF name = "filter" THEN value + 9 ELSE Int16(value)

setting_command(name, value) ==
  CASE name = "filter" -> value + 9
    [] name = "balance" -> IF value > 0 THEN 256 + value ELSE -value
    [] OTHER -> Int16(value)

\* The player's own: what it stores for a frame, and the two forms of a filter in an answer.
Stored(name, n) ==
  CASE name = "filter" -> n - 9
    [] name = "balance" -> IF n >= 256 THEN n - 256 ELSE -n
    [] name = "eq_master_db" -> Signed(n)
    [] OTHER -> n
Answers(name, v) ==
  CASE name = "filter" -> {v, v + 9}
    [] name = "balance" -> {IF v > 0 THEN 256 + v ELSE -v}
    [] OTHER -> {Int16(v)}

setting_value(name, n) ==
  CASE name = "balance" -> IF n \div 256 \notin {0, 1} \/ n % 256 > 20 THEN <<>>
                           ELSE <<IF n \div 256 = 1 THEN n % 256 ELSE -(n % 256)>>
    [] name = "eq_master_db" -> <<Signed(n)>>
    [] name = "filter" -> LET f == IF n \in 9..14 THEN n - 9 ELSE n IN IF f \in 0..5 THEN <<f>> ELSE <<>>
    [] name \in DOMAIN ReadOnly -> IF n \in ReadOnly[name] THEN <<n>> ELSE <<>>
    [] OTHER -> <<n>>

\* Bands go out as text and come back as 16-bit fields.
peq_value(raw) == <<[raw EXCEPT !.gain = Signed(@)]>>

(* ----------------------------------- the calls ----------------------------------- *)

\* Mutant: the preset is not asked for.
Bug_Asks == IF op.name = "bt_source_codec" THEN "work_mode" ELSE "none"

Asks == CASE op.name = "bt_source_codec" -> "work_mode" [] op.name = "peq" -> "eq_type" [] OTHER -> "none"

\* Values outside the setting's, and settings without a setter, are refused here.
call ==
  /\ op.pc = "call"
  /\ IF op.name # "peq" /\ (op.name \in DOMAIN ReadOnly \/ op.value \notin Allowed[op.name])
       THEN Goto(IF op.name \in DOMAIN ReadOnly THEN "get" ELSE "refused")
       ELSE Goto(IF Asks = "none" THEN "send" ELSE "ask")
  /\ UNCHANGED <<player, link, shown, touched, checked, hands>>

ask ==
  /\ op.pc = "ask" /\ checked' = player.set[Asks]
  /\ IF player.set[Asks] \in (IF Asks = "work_mode" THEN {Local} ELSE User)
       THEN Goto("send") ELSE Goto("refused")
  /\ UNCHANGED <<player, link, shown, touched, hands>>

send ==
  /\ op.pc = "send" /\ Goto("sent")
  /\ link' = [tag |-> op.name, value |-> IF op.name = "peq" THEN op.band ELSE setting_command(op.name, op.value)]
  /\ UNCHANGED <<player, shown, touched, checked, hands>>

\* External: a band goes to the preset that is on, a codec to the player in any mode.
Arrives ==
  /\ op.pc = "sent" /\ link.tag # "none" /\ link' = Nothing /\ Goto("get")
  /\ IF op.name = "peq"
     THEN /\ touched' = player.set.eq_type
          /\ player' = IF player.set.eq_type \in User THEN [player EXCEPT !.bands[player.set.eq_type] = link.value] ELSE player
     ELSE /\ touched' = IF Asks = "none" THEN None ELSE player.set[Asks]
          /\ player' = [player EXCEPT !.set[op.name] = Stored(op.name, link.value)]
  /\ UNCHANGED <<shown, checked, hands>>

get ==
  /\ op.pc = "get" /\ Goto("over")
  /\ IF op.name = "peq"
     THEN LET b == player.bands[IF player.set.eq_type \in User THEN player.set.eq_type ELSE 160]
          IN shown' = peq_value([b EXCEPT !.gain = Int16(@)])
     ELSE \E n \in Answers(op.name, player.set[op.name]) : shown' = setting_value(op.name, n)
  /\ UNCHANGED <<player, link, touched, checked, hands>>

\* The player's own screen.
Hand ==
  /\ op.pc \notin {"over", "refused"} /\ hands < MaxHands /\ hands' = hands + 1
  /\ \E name \in Settings \ {"balance", "eq_master_db"}, value \in {0, 1, 8, 161} :
       value \in Allowed[name] /\ player' = [player EXCEPT !.set[name] = value]
  /\ checked' = IF checked = None THEN None ELSE Changed
  /\ UNCHANGED <<op, link, shown, touched>>

Next == call \/ ask \/ send \/ Arrives \/ get \/ Hand
Spec == Init /\ [][Next]_vars

(* ----------------------------------- properties ----------------------------------- *)

TypeOK ==
  /\ op.pc \in {"call", "ask", "send", "sent", "get", "over", "refused"} /\ hands \in 0..MaxHands
  /\ \A s \in Settings : player.set[s] \in Allowed[s] \union {0}
  /\ link.tag \notin {"none", "peq"} => link.value \in 0..65535

\* A setting and a band read back as they were asked for, in every encoding, unless they
\* were changed on the player; a value the player does not have is never sent.
ReadsBack ==
  op.pc = "over" /\ hands = 0 =>
    IF op.name = "peq" THEN shown = <<op.band>>
    ELSE IF op.name \in DOMAIN ReadOnly THEN shown = <<player.set[op.name]>>
    ELSE shown = <<op.value>> /\ player.set[op.name] = op.value

\* Bands only ever reach a preset of the user's, and the codec the mode it belongs to,
\* unless the player's own screen changed either after it was asked for.
ModeIsRespected ==
  touched # None /\ checked # Changed => touched \in (IF op.name = "peq" THEN User ELSE {Local})
=================================================================================
