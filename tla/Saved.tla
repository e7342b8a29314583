---------------------------------- MODULE Saved ----------------------------------
(* The assistant's database (database.py): processes that open it at the same time, of     *)
(* any version; the saved locale and reply mode (preferences.py), which replace two older   *)
(* settings; and the command catalog (nlu/command_catalog.py), whose snapshots belong to    *)
(* the locale files they were made from.  A process can be killed between any two steps.    *)
EXTENDS Naturals

CONSTANTS Procs,     \* processes of the assistant
          MaxCommands, \* bound: commands
          MaxEdits   \* bound: edits of the locale files

VARIABLES
  db,       \* what is committed: version, tables, settings, the head of the command catalog
  lock,     \* the process in a transaction
  tx,       \* its uncommitted copy
  proc,     \* each process: command, position, what it has read
  authored, \* the locale files' revision
  choice,   \* history: the locale and mode that are in force
  refused,  \* history: a process could not open the database although it is sound
  raced,    \* history: a catalog was imported while another process seeded it
  imported, \* history: the head is an imported one
  count     \* history: commands

vars == <<db, lock, tx, proc, authored, choice, refused, raced, imported, count>>
store == <<db, lock, tx>>
told == <<authored, choice, refused, raced, imported, count>>

Nobody == "nobody"
CONFIG == [locale |-> "en", mode |-> "errors"]  \* the configuration file's
Installed == {"en", "ru"}                       \* locales that validate
NoHead == [hash |-> 0, model |-> FALSE]
NoSettings == [locale |-> "none", mode |-> "none", enabled |-> "none", response |-> "none"]
Tables(version) == (IF version >= 1 THEN {"settings"} ELSE {}) \union (IF version >= 2 THEN {"requests", "request_events"} ELSE {})
                   \union (IF version >= 3 THEN {"command_snapshots", "command_heads"} ELSE {})
Idle == [op |-> "none", pc |-> "idle", version |-> 0, arg |-> "none", row |-> NoHead, hash |-> 0]

\* Explicit choice, saved one, the first of the old input languages, the old reply object's,
\* the configured one.  The old object is one value, of both a locale and a mode.
First(options) == options[CHOOSE i \in DOMAIN options : options[i] # "none" /\ \A j \in 1..i - 1 : options[j] = "none"]
Legacy(s) == IF s.response \in {"ru", "xx"} THEN [locale |-> s.response, mode |-> "all"] ELSE [locale |-> "none", mode |-> "none"]

\* Mutant: the old reply locale precedes the old input languages.
Bug_Resolved(s, locale, mode) ==
  [locale |-> First(<<locale, s.locale, Legacy(s).locale, s.enabled, CONFIG.locale>>),
   mode |-> First(<<mode, s.mode, Legacy(s).mode, CONFIG.mode>>)]

Resolved(s, locale, mode) ==
  [locale |-> First(<<locale, s.locale, s.enabled, Legacy(s).locale, CONFIG.locale>>),
   mode |-> First(<<mode, s.mode, Legacy(s).mode, CONFIG.mode>>)]

\* A database of version 1 holds the old settings, in any state.
Init ==
  /\ \E v \in 0..3, enabled \in {"none", "ru"}, response \in {"none", "ru", "xx", "corrupt"} :
       /\ v # 1 => enabled = "none" /\ response = "none"
       /\ db = [version |-> v, tables |-> Tables(v), settings |-> [NoSettings EXCEPT !.enabled = enabled, !.response = response],
                head |-> NoHead]
       /\ choice = [locale |-> First(<<enabled, Legacy([response |-> response]).locale, CONFIG.locale>>),
                    mode |-> First(<<Legacy([response |-> response]).mode, CONFIG.mode>>)]
  /\ lock = Nobody /\ tx = db /\ proc = [p \in Procs |-> Idle] /\ authored = 1
  /\ refused = FALSE /\ raced = FALSE /\ imported = FALSE /\ count = 0

At(p, op, pc) == proc[p].op = op /\ proc[p].pc = pc
Goto(p, pc) == proc' = [proc EXCEPT ![p].pc = pc]
Over(p) == proc' = [proc EXCEPT ![p] = Idle]
Locks(p) == lock = Nobody /\ lock' = p /\ tx' = db
Commits(p) == lock = p /\ lock' = Nobody /\ db' = tx'

Command(p) ==
  /\ proc[p].pc = "idle" /\ count < MaxCommands /\ count' = count + 1
  /\ \E op \in {"language", "response", "info", "rebuild", "import"}, arg \in {"ru", "xx", "reset", "none"} :
       /\ op \notin {"language", "response"} => arg = "none"
       /\ op = "response" => arg # "xx"
       /\ proc' = [proc EXCEPT ![p] = [Idle EXCEPT !.op = op, !.pc = "connect", !.arg = arg]]
  /\ UNCHANGED <<store, authored, choice, refused, raced, imported>>

(* ----------------------------------- database ----------------------------------- *)

\* Mutant: the version is read before the lock is taken.
Bug_connect(p) ==
  /\ \/ proc[p].pc = "connect" /\ proc' = [proc EXCEPT ![p].pc = "locked", ![p].version = db.version] /\ UNCHANGED <<store, refused>>
     \/ /\ proc[p].pc = "locked" /\ lock = Nobody /\ UNCHANGED lock
        /\ LET created == Tables(3) \ Tables(proc[p].version)
           IN IF created \intersect db.tables # {} THEN refused' = TRUE /\ Over(p) /\ UNCHANGED <<db, tx>>
              ELSE /\ tx' = [db EXCEPT !.version = 3, !.tables = @ \union created] /\ db' = tx' /\ Goto(p, "open") /\ UNCHANGED refused
  /\ UNCHANGED <<authored, choice, raced, imported, count>>

\* The version is read under the lock; the tables it lacks are created with it.
connect(p) ==
  /\ \/ /\ proc[p].pc = "connect" /\ Locks(p) /\ proc' = [proc EXCEPT ![p].pc = "locked", ![p].version = db.version]
        /\ UNCHANGED <<db, refused>>
     \/ /\ proc[p].pc = "locked" /\ lock = p
        /\ LET created == Tables(3) \ Tables(proc[p].version)
           IN IF created \intersect tx.tables # {} THEN refused' = TRUE /\ Over(p) /\ lock' = Nobody /\ UNCHANGED <<db, tx>>
              ELSE /\ tx' = [tx EXCEPT !.version = 3, !.tables = @ \union created] /\ Commits(p) /\ Goto(p, "open") /\ UNCHANGED refused
  /\ UNCHANGED <<authored, choice, raced, imported, count>>

\* The transaction of a process that is killed, or that waited too long for it, is undone.
Killed(p) ==
  /\ proc[p].pc # "idle" /\ Over(p) /\ lock' = (IF lock = p THEN Nobody ELSE lock) /\ UNCHANGED <<db, tx, told>>

(* ---------------------------------- preferences ---------------------------------- *)

Argument(p, command, reset) ==
  IF proc[p].op # command THEN "none" ELSE IF proc[p].arg = "reset" THEN reset ELSE proc[p].arg

\* Everything is resolved and validated before anything is written; the old settings go
\* in the same transaction.
effective_config(p) ==
  /\ proc[p].op \in {"language", "response"}
  /\ \/ /\ proc[p].pc = "open" /\ UNCHANGED <<db, choice>>
        /\ IF Argument(p, "language", CONFIG.locale) \notin Installed \union {"none"}
           THEN Over(p) /\ UNCHANGED <<lock, tx>> ELSE Locks(p) /\ Goto(p, "resolve")
     \/ /\ proc[p].pc = "resolve" /\ lock = p
        /\ LET s == [db.settings EXCEPT !.response = IF Argument(p, "response", "reset") = "reset" THEN "none" ELSE @]
               mode == Argument(p, "response", CONFIG.mode)
               r == Resolved(s, Argument(p, "language", CONFIG.locale), IF mode = "ru" THEN "all" ELSE mode)
           IN IF s.response = "corrupt" \/ r.locale \notin Installed
              THEN lock' = Nobody /\ Over(p) /\ UNCHANGED <<db, tx, choice>>
              ELSE /\ tx' = [tx EXCEPT !.settings = [NoSettings EXCEPT !.locale = r.locale, !.mode = r.mode]]
                   /\ Goto(p, "commit") /\ UNCHANGED <<db, lock, choice>>
     \/ /\ proc[p].pc = "commit" /\ UNCHANGED tx /\ lock = p /\ lock' = Nobody /\ db' = tx /\ Over(p)
        /\ choice' = [locale |-> IF proc[p].op = "response" THEN IF proc[p].arg = "reset" THEN First(<<db.settings.locale, db.settings.enabled, CONFIG.locale>>)
                                                                 ELSE choice.locale
                                 ELSE First(<<Argument(p, "language", CONFIG.locale), choice.locale>>),
                      mode |-> IF proc[p].op = "language" THEN choice.mode
                               ELSE CASE proc[p].arg = "reset" -> CONFIG.mode [] proc[p].arg = "ru" -> "all" [] OTHER -> choice.mode]
  /\ UNCHANGED <<authored, refused, raced, imported, count>>

(* -------------------------------- command catalog -------------------------------- *)

Edit == authored <= MaxEdits /\ authored' = authored + 1 /\ UNCHANGED <<store, proc, choice, refused, raced, imported, count>>

\* A bundle is of the revision it was trained for; another is refused.
publish(p) ==
  /\ \/ /\ (At(p, "rebuild", "open") \/ At(p, "import", "open") \/ At(p, "info", "seed"))
        /\ \E trained \in 1..authored :
             IF proc[p].op = "import" /\ trained # authored THEN Over(p) ELSE proc' = [proc EXCEPT ![p].pc = "insert", ![p].hash = authored]
        /\ UNCHANGED <<store, raced, imported>>
     \/ /\ proc[p].pc = "insert" /\ Locks(p) /\ Goto(p, "head") /\ UNCHANGED <<db, raced, imported>>
     \/ /\ proc[p].pc = "head" /\ lock = p
        /\ tx' = [tx EXCEPT !.head = [hash |-> proc[p].hash, model |-> proc[p].op = "import"]]
        /\ Commits(p) /\ Goto(p, "current") /\ imported' = (proc[p].op = "import" \/ (imported /\ proc[p].op # "rebuild"))
        /\ raced' = (raced \/ (proc[p].op = "import" /\ \E q \in Procs \ {p} : At(q, "info", "seed") \/ At(q, "info", "insert") \/ At(q, "info", "head")))
  /\ UNCHANGED <<authored, choice, refused, count>>

\* Mutant: a snapshot is not compared with the locale files.
Bug_current(p) ==
  /\ \/ /\ At(p, "info", "open") \/ proc[p].pc = "current"
        /\ IF db.head = NoHead THEN Goto(p, "seed") ELSE proc' = [proc EXCEPT ![p].pc = "answer", ![p].row = db.head, ![p].hash = authored]
     \/ proc[p].pc = "answer" /\ Over(p)
  /\ UNCHANGED <<store, told>>

\* Without a snapshot one is made; a stale one is an error, not an answer.
current(p) ==
  /\ \/ /\ At(p, "info", "open") \/ proc[p].pc = "current"
        /\ IF db.head = NoHead THEN Goto(p, "seed")
           ELSE IF db.head.hash # authored THEN Over(p)
           ELSE proc' = [proc EXCEPT ![p].pc = "answer", ![p].row = db.head, ![p].hash = authored]
     \/ proc[p].pc = "answer" /\ Over(p)
  /\ UNCHANGED <<store, told>>

Next == Edit \/ \E p \in Procs : Command(p) \/ connect(p) \/ Killed(p) \/ effective_config(p) \/ publish(p) \/ current(p)
Spec == Init /\ [][Next]_vars

(* ----------------------------------- properties ----------------------------------- *)

TypeOK ==
  /\ db.version \in 0..3 /\ lock \in Procs \union {Nobody} /\ authored \in 1..MaxEdits + 1
  /\ choice.locale \in {"en", "ru", "xx"} /\ choice.mode \in {"errors", "all"}

\* Processes that open a database of any version together all can, and whatever is killed
\* the tables are those of its version.
OpensForAll == ~refused /\ db.tables = Tables(db.version)

\* The locale and the mode in force are those last chosen, also across the replacement of
\* the old settings, a failed or killed command and another process's.
ChoiceIsKept == db.settings.response # "corrupt" => Resolved(db.settings, "none", "none") = choice

\* A catalog answer is of the locale files as they were when it was checked, and an imported
\* classifier stays until it is replaced, unless a process that found no catalog before the
\* import writes its own after it.
CatalogIsCurrent ==
  /\ \A p \in Procs : proc[p].pc = "answer" => proc[p].row.hash = proc[p].hash
  /\ imported /\ ~raced => db.head.model
=================================================================================
