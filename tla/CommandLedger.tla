--------------------------- MODULE CommandLedger ---------------------------
(***************************************************************************)
(* What a session promises about the commands it sends, with the           *)
(* connection, its worker and its locks left out: one holder at a time,    *)
(* pinned to the epoch in which it was admitted; each kind of mutation is  *)
(* sent at most once, only in that epoch, a mode change before any other.  *)
(***************************************************************************)
EXTENDS Naturals

CONSTANTS Callers, Nobody, Phases

VARIABLES epoch, holder, pinned, sent

vars == <<epoch, holder, pinned, sent>>

Nothing == [p \in Phases |-> 0]

Init == epoch = 0 /\ holder = Nobody /\ pinned = 0 /\ sent = Nothing

\* A connection was lost, replaced or given up.
Renew == epoch' = epoch + 1 /\ UNCHANGED <<holder, pinned, sent>>

Open(c) ==
  /\ holder = Nobody
  /\ holder' = c /\ pinned' = epoch
  /\ UNCHANGED <<epoch, sent>>

Send(p) ==
  /\ holder # Nobody /\ pinned = epoch
  /\ sent[p] = 0
  /\ p = "mode" => sent = Nothing
  /\ sent' = [sent EXCEPT ![p] = 1]
  /\ UNCHANGED <<epoch, holder, pinned>>

Close ==
  /\ holder # Nobody
  /\ holder' = Nobody /\ pinned' = 0 /\ sent' = Nothing
  /\ UNCHANGED epoch

Next == \/ Renew \/ Close
        \/ \E c \in Callers : Open(c)
        \/ \E p \in Phases : Send(p)

Spec == Init /\ [][Next]_vars
============================================================================
