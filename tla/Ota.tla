----------------------------------- MODULE Ota -----------------------------------
(* The daily firmware monitor (.github/workflows/ota.yml: check_ota.py, notify_ota.py): it    *)
(* reads the vendor's catalogue, compares it with the reviewed profile and opens one issue     *)
(* per advertised pair of main OS and recovery.  The workflow's concurrency group runs one     *)
(* check at a time; a run can fail or be ended between any two steps, a call's answer can be   *)
(* lost, the vendor publishes, and maintainers close issues and promote the profile.          *)
EXTENDS Sequences, Naturals

CONSTANTS Catalogues,  \* what the vendor can publish: sequences of rows
          MaxVendor,   \* bound: catalogues published
          MaxIssues    \* bound: issues that are ever open or closed

VARIABLES
  catalogue, \* external: what the vendor publishes, whether its text is whole
  profile,   \* the reviewed pair in the repository
  issues,    \* external: the repository's issues, closed ones too
  run,       \* the workflow's run: position, attempts, profile, rows, latest pair
  count,     \* history: catalogues published
  good       \* assumption of liveness: the network and the vendor behave from now on

vars == <<catalogue, profile, issues, run, count, good>>

Above(p, q) == p[1] > q[1] \/ (p[1] = q[1] /\ p[2] > q[2])
Pair(row) == <<row.new, row.recovery>>
Idle == [pc |-> "idle", attempt |-> 0, profile |-> <<1, 1>>, rows |-> <<>>, latest |-> <<1, 1>>]

Init ==
  /\ catalogue \in [rows : Catalogues, whole : BOOLEAN] /\ profile = <<1, 1>> /\ issues = <<>>
  /\ run = Idle /\ count = 0 /\ good = FALSE

Goto(pc) == run' = [run EXCEPT !.pc = pc]
Fails == run' = [run EXCEPT !.pc = "failed"]
World == <<catalogue, profile, count, good>>

start == run.pc = "idle" /\ run' = [Idle EXCEPT !.pc = "fetch", !.profile = profile] /\ UNCHANGED <<World, issues>>

\* Not empty, one row per installed version, none a downgrade, the text whole.
parse_catalog(c) ==
  /\ c.whole /\ c.rows # <<>>
  /\ \A i \in DOMAIN c.rows : c.rows[i].new >= c.rows[i].last
  /\ \A i, j \in DOMAIN c.rows : c.rows[i].last = c.rows[j].last => i = j

\* Three attempts when the network fails, one when what arrived cannot be accepted.
fetch_catalog ==
  /\ run.pc = "fetch" /\ UNCHANGED <<World, issues>>
  /\ \/ IF parse_catalog(catalogue) THEN run' = [run EXCEPT !.pc = "evaluate", !.rows = catalogue.rows] ELSE Fails
     \/ ~good /\ (IF run.attempt = 2 THEN Fails ELSE run' = [run EXCEPT !.attempt = @ + 1])

\* Mutant: the highest main OS is compared, a newer recovery alone is not seen.
Bug_newest(rows) ==
  LET i == CHOOSE i \in DOMAIN rows : \A j \in DOMAIN rows : rows[j].new <= rows[i].new IN <<rows[i].new, 1>>

newest(rows) == Pair(rows[CHOOSE i \in DOMAIN rows : \A j \in DOMAIN rows : ~Above(Pair(rows[j]), Pair(rows[i]))])

\* Mutant: only a release that is offered to the reviewed version counts.
Bug_evaluate ==
  /\ run.pc = "evaluate" /\ UNCHANGED <<World, issues>>
  /\ IF \A i \in DOMAIN run.rows : run.rows[i].last # run.profile[1] THEN Fails
     ELSE run' = [run EXCEPT !.latest = newest(run.rows),
                             !.pc = IF \E i \in DOMAIN run.rows : run.rows[i].last = run.profile[1] /\ Above(Pair(run.rows[i]), run.profile)
                                    THEN "list" ELSE "done"]

\* No route for the reviewed version is an error; a newer release ends in the second step.
evaluate ==
  /\ run.pc = "evaluate" /\ UNCHANGED <<World, issues>>
  /\ IF \A i \in DOMAIN run.rows : run.rows[i].last # run.profile[1] THEN Fails
     ELSE run' = [run EXCEPT !.latest = newest(run.rows),
                             !.pc = IF Above(newest(run.rows), run.profile) THEN "list" ELSE "done"]

\* Mutant: only open issues are listed.
Bug_listed(pair) == \E i \in DOMAIN issues : issues[i].pair = pair /\ issues[i].open

listed(pair) == \E i \in DOMAIN issues : issues[i].pair = pair

list ==
  /\ run.pc = "list" /\ UNCHANGED <<World, issues>>
  /\ \/ ~good /\ Fails
     \/ IF listed(run.latest) THEN Goto("done") ELSE Goto("create")

\* The issue is opened or not; the answer can be lost after it was.
create ==
  /\ run.pc = "create" /\ UNCHANGED World
  /\ \/ /\ Len(issues) < MaxIssues /\ issues' = Append(issues, [pair |-> run.latest, open |-> TRUE])
        /\ (Goto("done") \/ (~good /\ Fails))
     \/ ~good /\ Fails /\ UNCHANGED issues

\* The next day, or a run that was started by hand.
again == run.pc \in {"done", "failed"} /\ run' = Idle /\ UNCHANGED <<World, issues>>
Ended == ~good /\ run.pc \notin {"idle", "done", "failed"} /\ Fails /\ UNCHANGED <<World, issues>>

Check == start \/ fetch_catalog \/ evaluate \/ list \/ create \/ again

Publishes ==
  /\ ~good /\ count < MaxVendor /\ count' = count + 1 /\ catalogue' \in [rows : Catalogues, whole : BOOLEAN]
  /\ UNCHANGED <<profile, issues, run, good>>
Maintains ==
  /\ UNCHANGED <<catalogue, run, count, good>>
  /\ \/ \E i \in DOMAIN issues : issues' = [issues EXCEPT ![i].open = ~@] /\ UNCHANGED profile
     \/ ~good /\ UNCHANGED issues /\ \E i \in DOMAIN issues : Above(issues[i].pair, profile) /\ profile' = issues[i].pair
Settles == ~good /\ parse_catalog(catalogue) /\ good' = TRUE /\ UNCHANGED <<catalogue, profile, issues, run, count>>

Next == Check \/ Ended \/ Publishes \/ Maintains \/ Settles

\* The schedule: a run is started every day, and its steps are taken.
Spec == Init /\ [][Next]_vars /\ WF_vars(Check)

(* ----------------------------------- properties ----------------------------------- *)

TypeOK ==
  /\ run.pc \in {"idle", "fetch", "evaluate", "list", "create", "done", "failed"} /\ run.attempt \in 0..2
  /\ Len(issues) <= MaxIssues /\ count \in 0..MaxVendor

\* One issue per advertised pair, whatever failed or was ended, also once it was closed and the
\* release declined, and none for what the profile already is.
OneIssueEach == \A i, j \in DOMAIN issues : issues[i].pair = issues[j].pair => i = j

\* A run that ends well leaves no release above the reviewed profile without its issue, a
\* newer recovery included, unless a higher one has an issue.
NothingIsMissed ==
  run.pc = "done" =>
    \A r \in DOMAIN run.rows : Above(Pair(run.rows[r]), run.profile) =>
      \E i \in DOMAIN issues : ~Above(Pair(run.rows[r]), issues[i].pair)

\* What must end: once the catalogue stays and calls are answered, an advertised newer release
\* is without its issue.
Pending ==
  /\ good /\ \E i \in DOMAIN catalogue.rows : catalogue.rows[i].last = profile[1]
  /\ Above(newest(catalogue.rows), profile) /\ ~listed(newest(catalogue.rows))

(* ------------------------------ inductive invariant ------------------------------ *)

Pairs == Nat \X Nat
Rows == [last : Nat, new : Nat, recovery : Nat]
Issues == [pair : Pairs, open : BOOLEAN]
RunTypes == [pc : {"idle", "fetch", "evaluate", "list", "create", "done", "failed"}, attempt : 0..2,
             profile : Pairs, rows : Seq(Rows), latest : Pairs]
Types == TypeOK /\ catalogue.rows \in Catalogues /\ profile \in Pairs /\ issues \in Seq(Issues) /\ run \in RunTypes

\* What a run has found out: its pair is the highest of its rows, and, before it opens an issue,
\* without one, whatever maintainers did since it looked.
RunInv ==
  /\ run.pc = "evaluate" => run.rows # <<>>
  /\ run.pc \in {"list", "create"} => \A r \in DOMAIN run.rows : ~Above(Pair(run.rows[r]), run.latest)
  /\ run.pc = "create" => ~listed(run.latest)

IInv == Types /\ RunInv /\ OneIssueEach /\ NothingIsMissed
=================================================================================
