--------------------------------- MODULE Setup ---------------------------------
(* The settings row of one emulated player (runtime/settings.py) and the setup that  *)
(* primes and presets it (scripts/10_setup_env.sh): a throwaway boot in which the     *)
(* player creates its database step by step, a setup that can be killed anywhere,      *)
(* later setups with or without named columns, and the user's own choices.            *)
EXTENDS Naturals

CONSTANTS Menu,       \* the values the player's menu can set: languages (or animations)
          Preset,     \* the profile's value
          MaxSetups,  \* bound: setups
          MaxChoices  \* bound: what the user saves in the menu

VARIABLES
  db,      \* sysconfig.db: its state and the two columns the user sets
  locked,  \* another program holds the database
  player,  \* the player's process: "off", "priming" or "running"
  setup,   \* the setup: position, whether --fresh, tries, SETTINGS names the columns
  chosen,  \* history: what the user has saved and nobody named since (0: nothing)
  count    \* history: setups, choices

vars == <<db, locked, player, setup, chosen, count>>

Wizard == 100   \* the language of a new database: the first-boot wizard is shown
Columns == {"LANGUAGE", "LOCAL_IMG_ANIM"}
None == [state |-> "none", row |-> [c \in Columns |-> 0]]
Idle == [pc |-> "idle", fresh |-> FALSE, tries |-> 0, named |-> FALSE]

Init ==
  /\ db = None /\ locked = FALSE /\ player = "off" /\ setup = Idle
  /\ chosen = [c \in Columns |-> 0] /\ count = [setups |-> 0, choices |-> 0]

(* --------------------------------- the player --------------------------------- *)

\* It creates the file, the table and then its row.
Creates ==
  /\ player = "priming" /\ db.state # "primed" /\ ~locked
  /\ db' = CASE db.state = "none" -> [db EXCEPT !.state = "file"]
             [] db.state = "file" -> [db EXCEPT !.state = "table"]
             [] OTHER -> [state |-> "primed",
                          row |-> [c \in Columns |-> IF c = "LANGUAGE" THEN Wizard ELSE CHOOSE m \in Menu : m # Preset]]
  /\ UNCHANGED <<locked, player, setup, chosen, count>>

Boot ==
  /\ player = "off" /\ setup.pc \in {"idle", "done"} /\ db.state = "primed" /\ player' = "running"
  /\ UNCHANGED <<db, locked, setup, chosen, count>>

\* The user saves a choice in the player's menu.
Choose(c) ==
  /\ player = "running" /\ count.choices < MaxChoices /\ count' = [count EXCEPT !.choices = @ + 1]
  /\ \E value \in Menu : db' = [db EXCEPT !.row[c] = value] /\ chosen' = [chosen EXCEPT ![c] = value]
  /\ UNCHANGED <<locked, player, setup>>

Off == player = "running" /\ player' = "off" /\ UNCHANGED <<db, locked, setup, chosen, count>>
Lock == locked' = ~locked /\ player # "priming" /\ UNCHANGED <<db, player, setup, chosen, count>>

(* ---------------------------------- a setup ---------------------------------- *)

Setup(pc) == setup' = [setup EXCEPT !.pc = pc]

Starts ==
  /\ setup.pc \in {"idle", "done"} /\ player = "off" /\ count.setups < MaxSetups
  /\ \E named \in BOOLEAN : setup' = [Idle EXCEPT !.pc = "look", !.named = named]
  /\ count' = [count EXCEPT !.setups = @ + 1] /\ UNCHANGED <<db, locked, player, chosen>>

\* Mutant: a database that cannot be read is taken for one that was never primed.
Bug_priming == IF db.state = "primed" /\ ~locked THEN "primed" ELSE "unprimed"

\* Unprimed is only what a setup may start over; what it cannot read is neither.
priming == CASE db.state = "none" -> "unprimed"
             [] db.state = "file" /\ ~locked -> "unprimed"
             [] db.state = "primed" /\ ~locked -> "primed"
             [] OTHER -> "error"

primed == priming = "primed"

Look ==
  /\ setup.pc = "look"
  /\ setup' = CASE priming = "primed" -> [setup EXCEPT !.pc = "apply"]
                [] priming = "unprimed" -> [setup EXCEPT !.pc = "prime", !.fresh = TRUE]
                [] OTHER -> [setup EXCEPT !.pc = "stopped"]
  /\ UNCHANGED <<db, locked, player, chosen, count>>

\* A throwaway boot from nothing.
prime_db ==
  /\ setup.pc = "prime" /\ player = "off" /\ player' = "priming" /\ db' = None
  /\ setup' = [setup EXCEPT !.pc = "wait", !.tries = @ + 1] /\ chosen' = [c \in Columns |-> 0]
  /\ UNCHANGED <<locked, count>>

\* The wait ends with the row or after its time; then the guest is killed, and once more.
kill_guest ==
  /\ setup.pc = "wait" /\ player' = "off"
  /\ Setup(IF primed THEN "apply" ELSE IF setup.tries < 2 THEN "prime" ELSE "stopped")
  /\ UNCHANGED <<db, locked, chosen, count>>

\* Mutant: only --fresh decides.
Bug_profile_values == IF setup.fresh THEN Columns ELSE {}

\* Later setups leave out the user's columns, except a language the menu cannot set.
profile_values == IF setup.fresh THEN Columns ELSE {"LANGUAGE"} \ {c \in Columns : db.row[c] \in Menu}

\* One transaction writes the profile's values and the columns named by SETTINGS.
apply ==
  /\ setup.pc = "apply" /\ player = "off"
  /\ IF priming # "primed" THEN Setup("stopped") /\ UNCHANGED <<db, chosen>>
     ELSE LET written == profile_values \union (IF setup.named THEN Columns ELSE {}) IN
          /\ db' = [db EXCEPT !.row = [c \in Columns |-> IF c \in written THEN Preset ELSE @[c]]]
          /\ chosen' = [c \in Columns |-> IF setup.named THEN 0 ELSE chosen[c]]
          /\ Setup("done")
  /\ UNCHANGED <<locked, player, count>>

\* The setup, and with it the throwaway boot, is killed.
Killed ==
  /\ setup.pc \notin {"idle", "done"} /\ setup' = Idle /\ player' = "off"
  /\ UNCHANGED <<db, locked, chosen, count>>

Next ==
  \/ Creates \/ Boot \/ Off \/ Lock \/ Starts \/ Look \/ prime_db \/ kill_guest \/ apply \/ Killed
  \/ \E c \in Columns : Choose(c)
Spec == Init /\ [][Next]_vars

(* --------------------------------- properties --------------------------------- *)

TypeOK ==
  /\ db.state \in {"none", "file", "table", "primed"} /\ db.row \in [Columns -> Menu \union {0, Wizard}]
  /\ locked \in BOOLEAN /\ player \in {"off", "priming", "running"}
  /\ setup.pc \in {"idle", "look", "prime", "wait", "apply", "stopped", "done"} /\ setup.tries \in 0..2
  /\ chosen \in [Columns -> Menu \union {0}]

\* What the user has saved survives every setup that does not name the column: no priming
\* deletes it, although setups are killed at any step and the database may be locked.
Keeps ==
  \A c \in Columns : chosen[c] # 0 /\ ~setup.named /\ player # "running" =>
    db'.row[c] = chosen[c] /\ db'.state = "primed"

\* After a setup no first boot shows the wizard, also when an earlier setup was killed
\* between its priming boot and its preset.
NoWizard == setup.pc = "done" => db.state = "primed" /\ db.row["LANGUAGE"] # Wizard

(* ------------------------------ inductive invariant ------------------------------ *)

Pcs == {"idle", "look", "prime", "wait", "apply", "stopped", "done"}
Types ==
  /\ TypeOK /\ setup \in [pc : Pcs, fresh : BOOLEAN, tries : 0..2, named : BOOLEAN]
  /\ db \in [state : {"none", "file", "table", "primed"}, row : [Columns -> Menu \union {0, Wizard}]]
  /\ count \in [setups : Nat, choices : Nat]

\* The throwaway boot runs while a setup waits for it, the user's only between setups.
PlaceInv ==
  /\ player = "priming" <=> setup.pc = "wait"
  /\ player = "running" => setup.pc \in {"idle", "done"} /\ db.state = "primed"
  /\ setup.pc = "look" => ~setup.fresh /\ setup.tries = 0
  /\ setup.pc = "prime" => setup.tries < 2

\* What the user has saved is in the row, and there is nothing of it where a setup starts over.
ChoiceInv ==
  /\ \A c \in Columns : chosen[c] # 0 => db.state = "primed" /\ db.row[c] = chosen[c]
  /\ setup.pc \in {"prime", "wait"} \/ (setup.pc = "apply" /\ setup.fresh) => \A c \in Columns : chosen[c] = 0

IInv == Types /\ PlaceInv /\ ChoiceInv /\ NoWizard
================================================================================
