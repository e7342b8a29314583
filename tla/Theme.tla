---------------------------------- MODULE Theme ----------------------------------
(* The player's lock screens (controller/fiio_theme.py): one custom slot and the stock ones,   *)
(* one of them active.  The player has no conditional write: an edit reads a slot's metadata,  *)
(* posts all of it with what is asked, and reads it back; an answer can be lost, incomplete or *)
(* of another slot, and other hands change slots in between.                                   *)
EXTENDS Naturals

CONSTANTS Slots,    \* the stock slots
          MaxHands, \* bound: changes by other hands
          MaxCalls  \* bound: operations

VARIABLES
  screen, \* external: the stock slots' metadata and image, the custom slot's image, which is active
  op,     \* the operation: name, slot, what is asked, position, the first reading, the headers
  count,  \* history: operations, other hands' changes
  was,    \* history: the slot when it was first read
  touched \* history: another hand changed something since the first reading

vars == <<screen, op, count, was, touched>>

Keep == "keep"
Alphas == {"a1", "a2"}
Flags == {"f1", "f2", "strange"} \* the overlay flags; strange: not as the stock writes them
Edits == [alpha : Alphas \union {Keep}, flags : {"f1", "f2", Keep}] \ {[alpha |-> Keep, flags |-> Keep]}
NoEdit == [alpha |-> Keep, flags |-> Keep]
NoReading == [slot |-> 0, alpha |-> "a1", flags |-> "f1", image |-> "none"]
Idle == [name |-> "none", slot |-> 0, edit |-> NoEdit, pc |-> "idle", before |-> NoReading]
Image(slot) == IF slot = 1 THEN "i1" ELSE "i2"

Init ==
  /\ \E flags \in Flags :
       screen = [system |-> [s \in Slots |-> [slot |-> s, alpha |-> "a1", flags |-> IF s = 1 THEN flags ELSE "f2", image |-> Image(s)]],
                 custom |-> "mine", active |-> 0]
  /\ op = Idle /\ count = [calls |-> 0, hands |-> 0] /\ was = NoReading /\ touched = FALSE

Ends(pc) == op' = [op EXCEPT !.pc = pc]

\* Arguments are checked before anything is sent: a picture of another size is refused.
call(name, slot, edit) ==
  /\ op.pc \in {"idle", "done", "failed"} /\ count.calls < MaxCalls /\ count' = [count EXCEPT !.calls = @ + 1]
  /\ op' = [Idle EXCEPT !.name = name, !.slot = slot, !.edit = edit, !.pc = IF name = "upload" THEN "upload" ELSE "read"]
  /\ UNCHANGED <<screen, was, touched>>

\* Mutant: a slot's metadata alone is sent.
Bug_upload ==
  /\ op.pc = "upload" /\ UNCHANGED <<count, was, touched>> /\ Ends("done")
  /\ \E image \in {"mine", "none"} : screen' = [screen EXCEPT !.custom = image, !.active = 0]

\* The picture and all metadata; the custom slot becomes the active one.
upload_lock_screen ==
  /\ op.pc = "upload" /\ UNCHANGED <<count, was, touched>>
  /\ \/ Ends("failed") /\ UNCHANGED screen
     \/ screen' = [screen EXCEPT !.custom = "mine", !.active = 0] /\ (Ends("done") \/ Ends("failed"))

\* Mutant: whatever is answered is taken.
Bug_accepts(reading) == TRUE

\* A reading of the slot that was asked for, with every field and its picture.
accepts(reading) == reading.slot = op.slot /\ reading.image # "none"

\* What the player answers: the slot, another one, or one without its picture.
Answers == {screen.system[s] : s \in Slots} \union {[screen.system[op.slot] EXCEPT !.image = "none"]}

_system_snapshot ==
  /\ op.pc = "read" /\ UNCHANGED <<screen, count>>
  /\ was' = screen.system[op.slot] /\ touched' = FALSE
  /\ \/ \E reading \in Answers :
          IF accepts(reading) /\ (op.edit.flags # Keep => reading.flags # "strange")
          THEN op' = [op EXCEPT !.pc = "post", !.before = reading] ELSE Ends("failed")
     \/ Ends("failed")

\* Mutant: a field that is not asked for is sent as it is by default.
Bug_headers == [op.before EXCEPT !.alpha = IF op.edit.alpha = Keep THEN "a1" ELSE op.edit.alpha,
                                 !.flags = IF op.edit.flags = Keep THEN @ ELSE op.edit.flags]

\* The metadata that was read, with what is asked for.
headers == [op.before EXCEPT !.alpha = IF op.edit.alpha = Keep THEN @ ELSE op.edit.alpha,
                             !.flags = IF op.edit.flags = Keep THEN @ ELSE op.edit.flags]

\* What the player stores of it: all, or one field is ignored or set as it is by default.
Stored == {headers} \union {[headers EXCEPT !.alpha = a] : a \in {"a1", screen.system[op.slot].alpha}}
                    \union {[headers EXCEPT !.flags = f] : f \in {"f1", screen.system[op.slot].flags}}

\* The stock picture stays and the slot becomes active; a selection ends here, an edit is read
\* back.
post ==
  /\ op.pc = "post" /\ UNCHANGED <<count, was, touched>>
  /\ \/ Ends("failed") /\ UNCHANGED screen
     \/ /\ \E stored \in Stored :
             screen' = [screen EXCEPT !.active = op.slot,
                          !.system[op.slot] = [stored EXCEPT !.slot = op.slot, !.image = screen.system[op.slot].image]]
        /\ Ends("failed") \/ Ends(IF op.name = "select" THEN "done" ELSE "verify")

\* Mutant: only what was asked for is compared.
Bug_verifies(reading) == op.edit.alpha \in {Keep, reading.alpha} /\ op.edit.flags \in {Keep, reading.flags}

verifies(reading) == accepts(reading) /\ reading = [headers EXCEPT !.image = op.before.image]

update_system_lock_screen ==
  /\ op.pc = "verify" /\ UNCHANGED <<screen, count, was, touched>>
  /\ \/ \E reading \in Answers : IF verifies(reading) THEN Ends("done") ELSE Ends("failed")
     \/ Ends("failed")

\* The player's own screen, or another client.
Hand ==
  /\ count.hands < MaxHands /\ count' = [count EXCEPT !.hands = @ + 1] /\ UNCHANGED <<op, was>> /\ touched' = TRUE
  /\ \E s \in Slots, a \in Alphas, f \in {"f1", "f2"} :
       screen' = [screen EXCEPT !.system[s].alpha = a, !.system[s].flags = f, !.active = s]

Next ==
  \/ call("upload", 0, NoEdit) \/ \E s \in Slots : call("select", s, NoEdit) \/ \E e \in Edits : call("update", s, e)
  \/ upload_lock_screen \/ _system_snapshot \/ post \/ update_system_lock_screen \/ Hand
Spec == Init /\ [][Next]_vars

(* ----------------------------------- properties ----------------------------------- *)

TypeOK ==
  /\ screen.active \in Slots \union {0} /\ op.pc \in {"idle", "read", "upload", "post", "verify", "done", "failed"}
  /\ \A s \in Slots : screen.system[s].alpha \in Alphas /\ screen.system[s].flags \in Flags

\* No operation, completed, lost or refused, takes a slot's picture away or gives it another
\* slot's fields.
PicturesSurvive ==
  screen.custom = "mine" /\ \A s \in Slots : screen.system[s].image = Image(s) /\ screen.system[s].slot = s

\* An edit that is reported as made left the slot active with what was asked for and with every
\* other field as it was before, unless another hand changed it since.
EditIsExact ==
  op.pc = "done" /\ op.name = "update" /\ ~touched =>
    /\ screen.active = op.slot
    /\ \A f \in {"alpha", "flags"} : screen.system[op.slot][f] = IF op.edit[f] = Keep THEN was[f] ELSE op.edit[f]
=================================================================================
