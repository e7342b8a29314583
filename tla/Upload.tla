---------------------------------- MODULE Upload ---------------------------------
(* One upload to the player's card without permission to overwrite (importing.py, the        *)
(* preflight and the transfer of fiio_http.py).  The player has no exclusive create: it      *)
(* truncates what has the name, in any case, and it answers 200 to a transfer it did not     *)
(* make or cut short.  Its directory comes in pages of one entry, and other hands change it. *)
EXTENDS Naturals, Sequences, FiniteSets

CONSTANTS MaxPages,  \* bound of the code: pages of one search
          MaxChanges \* bound: changes by other hands

VARIABLES
  dir,      \* the player: entries of the directory, in its order
  progress, \* the player: what it last knew of a transfer to the path, also once the file is gone
  op,       \* the upload: position, offset and pages of a search
  result,
  wrote,    \* history: a transfer began
  lost,     \* history: it truncated a file
  changed,  \* history: the directory changed since the preflight began
  count     \* history: changes by others

vars == <<dir, progress, op, result, wrote, lost, changed, count>>
card == <<dir, progress>>
history == <<wrote, lost, changed, count>>

Entry == [name : {"song", "SONG", "other"}, is_dir : BOOLEAN, whole : BOOLEAN]
folded(name) == IF name = "SONG" THEN "song" ELSE name
Others == [name |-> "other", is_dir |-> FALSE, whole |-> TRUE]

\* FAT keeps one entry of a name.
Init ==
  /\ \E e \in Entry : dir \in {<<>>, <<e>>, <<Others, e>>}
  /\ Cardinality({folded(dir[i].name) : i \in DOMAIN dir}) = Len(dir)
  /\ progress \in {"none", "part", "whole"}
  /\ op = [pc |-> "wait", offset |-> 0, pages |-> 0, attempted |-> FALSE]
  /\ result = "none" /\ wrote = FALSE /\ lost = FALSE /\ changed = FALSE /\ count = 0

Goto(pc) == op' = [op EXCEPT !.pc = pc, !.offset = 0, !.pages = 0] /\ UNCHANGED result
Ends(outcome) == result' = outcome /\ op' = [op EXCEPT !.pc = "over"]
Fails == Ends(IF op.attempted THEN "uncertain" ELSE "not_sent")

wait_for_mutation == op.pc = "wait" /\ Goto("progress") /\ changed' = FALSE /\ UNCHANGED <<card, wrote, lost, count>>

\* A transfer the player remembers blocks the name.
Preflight == op.pc = "progress" /\ (IF progress # "none" THEN Fails ELSE Goto("preflight")) /\ UNCHANGED <<card, history>>

\* One page of a search for an entry: found, at its end, out of pages, or on to the next.
Search(wanted, found, absent) ==
  IF \E i \in DOMAIN dir : i = op.offset + 1 /\ dir[i] \in wanted THEN found
  ELSE IF op.offset + 1 >= Len(dir) THEN absent
  ELSE IF op.pages + 1 >= MaxPages THEN Fails
  ELSE op' = [op EXCEPT !.offset = @ + 1, !.pages = @ + 1] /\ UNCHANGED result

\* Mutant: the names are compared as they are written.
Bug_directory ==
  /\ op.pc = "preflight"
  /\ Search({e \in Entry : e.name = "song"}, Fails, Goto("send"))
  /\ UNCHANGED <<card, history>>

directory ==
  /\ op.pc = "preflight"
  /\ Search({e \in Entry : folded(e.name) = "song"}, Fails, Goto("send"))
  /\ UNCHANGED <<card, history>>

\* Mutant: the attempt is noted when the transfer is over.
Bug_dispatch == op.pc = "send" /\ Goto("transfer") /\ UNCHANGED <<card, history>>

\* The attempt is noted before the first byte.
dispatch ==
  /\ op.pc = "send" /\ op' = [op EXCEPT !.pc = "transfer", !.attempted = TRUE]
  /\ UNCHANGED <<card, result, history>>

\* Whole, cut short or ignored, and the answer may be lost.
upload ==
  /\ op.pc = "transfer" /\ wrote' = TRUE
  /\ \E did \in {"none", "part", "whole"} :
       LET old == {i \in DOMAIN dir : folded(dir[i].name) = "song"}
           new == [name |-> "song", is_dir |-> FALSE, whole |-> did = "whole"]
           files == {i \in old : ~dir[i].is_dir}
       IN IF did = "none" \/ old # files THEN UNCHANGED <<card, lost>>
          ELSE /\ progress' = did /\ lost' = (old # {})
               /\ dir' = IF old = {} THEN Append(dir, new) ELSE [dir EXCEPT ![CHOOSE i \in old : TRUE].whole = did = "whole"]
  /\ Fails \/ Goto("size")
  /\ UNCHANGED <<changed, count>>

\* Mutant: that the player knows the transfer is taken for its end.
Bug_confirm ==
  /\ op.pc = "size" /\ (IF progress = "none" THEN Fails ELSE Goto("listing")) /\ UNCHANGED <<card, history>>

\* Every byte must have been counted, then the name must be listed.
confirm == op.pc = "size" /\ (IF progress # "whole" THEN Fails ELSE Goto("listing")) /\ UNCHANGED <<card, history>>

listed ==
  /\ op.pc = "listing"
  /\ Search({e \in Entry : e.name = "song" /\ ~e.is_dir}, Ends("confirmed"), Fails)
  /\ UNCHANGED <<card, history>>

\* A request fails, a scan is seen or the connection ends.
Interrupted == op.pc # "over" /\ Fails /\ UNCHANGED <<card, history>>

Changes ==
  /\ op.pc # "over" /\ count < MaxChanges /\ count' = count + 1 /\ changed' = TRUE
  /\ \/ /\ dir # <<>> /\ dir' = Tail(dir) /\ UNCHANGED progress
     \/ \E e \in Entry :
          /\ \A i \in DOMAIN dir : folded(dir[i].name) # folded(e.name)
          /\ dir' \in {<<e>> \o dir, dir \o <<e>>}
          /\ progress' = IF e.name = "song" /\ ~e.is_dir THEN (IF e.whole THEN "whole" ELSE "part") ELSE progress
  /\ UNCHANGED <<op, result, wrote, lost>>

Next == wait_for_mutation \/ Preflight \/ directory \/ dispatch \/ upload \/ confirm \/ listed \/ Interrupted \/ Changes
Spec == Init /\ [][Next]_vars

(* ----------------------------------- properties ----------------------------------- *)

TypeOK ==
  /\ \A i \in DOMAIN dir : dir[i] \in Entry
  /\ progress \in {"none", "part", "whole"} /\ result \in {"none", "not_sent", "uncertain", "confirmed"}
  /\ op.offset \in 0..MaxPages /\ op.pages \in 0..MaxPages

\* No file is lost to an upload unless the directory changed after its preflight began.
NothingIsTruncated == lost => changed

\* A confirmed upload is on the card in full, unless others changed the directory meanwhile,
\* and one that was not sent touched nothing.
UploadIsHonest ==
  /\ result = "confirmed" /\ ~changed => \E i \in DOMAIN dir : dir[i] = [name |-> "song", is_dir |-> FALSE, whole |-> TRUE]
  /\ result = "not_sent" => ~wrote
=================================================================================
