-------------------------- MODULE CatalogRegister --------------------------
(***************************************************************************)
(* What the library promises about the catalogue it shows: it is one that  *)
(* the player once had, and it is never replaced by an older one.          *)
(***************************************************************************)
EXTENDS Naturals

VARIABLES catalog, shown

vars == <<catalog, shown>>

Init == catalog = 0 /\ shown = 0

\* The player's catalogue changes.
Change == catalog' = catalog + 1 /\ UNCHANGED shown

\* A later observation, the present catalogue at most, is shown instead.
Show == shown' \in shown .. catalog /\ UNCHANGED catalog

Next == Change \/ Show

Spec == Init /\ [][Next]_vars
============================================================================
