--------------------------------- MODULE Journal ---------------------------------
(* The Assistant's request journal (assistant/journal.py), shared by processes that trace   *)
(* requests, report what became of a spoken reply, prune, clear and export; and the reply    *)
(* that is attached to every answer (responses.py).  A write is one step, at its commit: it   *)
(* waits while another process reads in a transaction, and fails when that lasts too long,    *)
(* or with the disk.  `history` and `history show` only read, and are left out.               *)
EXTENDS Naturals, FiniteSets

CONSTANTS Procs,       \* processes of the assistant
          journal_max_requests, \* completed requests that are kept
          Statuses, Actions,    \* what an operation reports, in the traces of a run
          MaxRequests, \* bound: requests of all processes
          MaxCommands, \* bound: their other commands, and passages of time
          MaxFaults    \* bound: processes killed, and failures of the disk

VARIABLES
  rows,     \* requests: none, pending or the status, in the order they started
  events,   \* request_events: how many each request has
  last,     \* the request that started last
  old,      \* requests that started before the retention's cutoff
  proc,     \* each process: position, its request and what it has read
  file,     \* the exported file exists
  cleared,  \* history: requests the user cleared
  cut,      \* history: requests whose process was killed or could not write
  count,    \* history: requests, other commands
  faults    \* history: faults

vars == <<rows, events, last, old, proc, file, cleared, cut, count, faults>>
journal == <<rows, events, last>>

Ids == 1..MaxRequests
NoAnswer == [status |-> "none", code |-> "none"]
Idle == [pc |-> "idle", id |-> 0, stage |-> "input", acted |-> FALSE, kind |-> "none", answer |-> NoAnswer, seen |-> {}, left |-> {}, out |-> {}]

Init ==
  /\ rows = [i \in Ids |-> "none"] /\ events = [i \in Ids |-> 0] /\ last = 0 /\ old = {} /\ proc = [p \in Procs |-> Idle]
  /\ file = FALSE /\ cleared = {} /\ cut = {} /\ count = [requests |-> 0, others |-> 0] /\ faults = 0

Recorded == {i \in Ids : rows[i] # "none"}
Completed == {i \in Ids : rows[i] \notin {"none", "pending"}}
At(p, pcs) == proc[p].pc \in pcs
Goto(p, pc) == proc' = [proc EXCEPT ![p].pc = pc]
Over(p) == proc' = [proc EXCEPT ![p] = Idle]
Request(p) == proc[p].pc = "idle" /\ count.requests < MaxRequests /\ count' = [count EXCEPT !.requests = @ + 1]
Other == count.others < MaxCommands /\ count' = [count EXCEPT !.others = @ + 1]
Command(p) == proc[p].pc = "idle" /\ Other
Fault == faults < MaxFaults /\ faults' = faults + 1
Tracing(p) == proc[p].pc \in {"insert", "body", "result", "update", "last prune", "error"}

(* ------------------------------------ replies ------------------------------------ *)

AllStatuses == {"planned", "not_found", "not_sent", "uncertain", "confirmed", "already_satisfied", "playing", "observed", "unavailable"}
AllActions == {"play", "next", "pause", "like", "volume", "now_playing"}
Good == {"confirmed", "already_satisfied"}
Failures == [unrecognized_or_invalid_command |-> "command.unrecognized", speech_unavailable |-> "speech.unavailable",
             interpreter_unavailable |-> "interpreter.unavailable", stale_index_or_catalog |-> "catalog.stale",
             search_unavailable_or_invalid |-> "search.unavailable", execution_error |-> "command.error"]
Plain == [uncertain |-> "command.uncertain", not_sent |-> "command.not_sent", interrupted |-> "command.interrupted"]
Claims == {"favorite.changed", "volume.changed", "playback.changed", "playback.started", "command.completed"}

\* Mutant: a command that was not sent is answered as any other.
Bug_message_for(r, command, failure) ==
  IF r.status = "not_sent" /\ command = "ask" THEN "command.completed" ELSE "none"

\* The reply's message.  One code stands for those that differ in the action alone; the
\* one of a changed locale is left out.
message_for(r, command, failure) ==
  CASE r.status \in DOMAIN Plain -> Plain[r.status]
    [] r.status = "error" -> Failures[failure]
    [] r.status = "not_found" -> "search.no_match"
    [] command # "ask" -> "none"
    [] r.action = "now_playing" /\ r.status = "unavailable" -> "playback.unavailable"
    [] r.action = "now_playing" /\ r.status = "observed" -> "playback.current"
    [] r.action = "like" /\ r.status \in Good -> "favorite.changed"
    [] r.action = "volume" /\ r.status \in Good -> "volume.changed"
    [] r.action = "pause" /\ r.status \in Good -> "playback.changed"
    [] r.status = "playing" \/ (r.status = "confirmed" /\ r.action = "next") -> "playback.started"
    [] r.status \in Good -> "command.completed"
    [] OTHER -> "none"

Problems == {Plain[s] : s \in DOMAIN Plain} \union {Failures[f] : f \in DOMAIN Failures} \union {"search.no_match", "playback.unavailable"}

\* Whether it is spoken depends on the source and the reply mode.
Spoken(r, command, source, mode, failure) ==
  LET code == message_for(r, command, failure)
  IN /\ code # "none" /\ source # "scheduled"
     /\ mode = "all" \/ (mode = "errors" /\ (code \in Problems \/ r.action = "now_playing"))

attach(r, failure) == [status |-> r.status, code |-> message_for(r, "ask", failure)]

Attached(p, r, failure) == proc' = [proc EXCEPT ![p].answer = attach(r, failure), ![p].stage = "input", ![p].pc = "result"]

(* ------------------------------------- writes ------------------------------------- *)

\* Mutant: the requests are read outside a transaction.
Bug_Reading(p) == FALSE

\* An export holds a read transaction from its first row.
Reading(p) == At(p, {"rows"}) /\ proc[p].seen # {}
Blocked(p) == \E q \in Procs \ {p} : Reading(q)

\* A failed journal write is answered "uncertain": the operation may be done.
Unrecorded(p) ==
  /\ proc' = [proc EXCEPT ![p].pc = "answer", ![p].answer = attach([status |-> "uncertain", action |-> "none"], "none")]
  /\ cut' = cut \union {proc[p].id}
  /\ UNCHANGED <<journal, old, file, cleared, count>>

durable_write(p) ==
  /\ At(p, {"insert", "body", "result", "update", "last prune", "error"})
  /\ \/ Blocked(p) /\ UNCHANGED faults
     \/ Fault
  /\ Unrecorded(p)

\* Mutant: foreign keys are off, and the events of a removed request stay.
Bug_Deletes(ids) == rows' = [i \in Ids |-> IF i \in ids THEN "none" ELSE rows[i]] /\ UNCHANGED events

Deletes(ids) ==
  /\ rows' = [i \in Ids |-> IF i \in ids THEN "none" ELSE rows[i]]
  /\ events' = [i \in Ids |-> IF i \in ids THEN 0 ELSE events[i]]

\* Mutant: the limit counts requests in flight and may remove them.
Bug_prune == Deletes(old \union {i \in Recorded \ old : Cardinality({j \in Recorded \ old : j > i}) >= journal_max_requests})

\* The old go, whatever their state; then the completed ones beyond the newest.
prune ==
  LET done == Completed \ old
  IN Deletes(old \union {i \in done : Cardinality({j \in done : j > i}) >= journal_max_requests})

\* An event of a request that is gone breaks the foreign key.
Insert(p, then) ==
  IF rows[proc[p].id] = "none" THEN Unrecorded(p)
  ELSE /\ events' = [events EXCEPT ![proc[p].id] = @ + 1] /\ then
       /\ UNCHANGED <<rows, last, old, file, cleared, cut, count>>

(* -------------------------------------- trace -------------------------------------- *)

__enter__(p) ==
  \/ Request(p) /\ ~Blocked(p) /\ prune /\ Goto(p, "insert") /\ UNCHANGED <<last, old, file, cleared, cut, faults>>
  \/ /\ At(p, {"insert"}) /\ ~Blocked(p)
     /\ last' = last + 1 /\ rows' = [rows EXCEPT ![last'] = "pending"]
     /\ proc' = [proc EXCEPT ![p].pc = "body", ![p].id = last']
     /\ UNCHANGED <<events, old, file, cleared, cut, count, faults>>

\* The request goes through its stages; execution starts before anything is sent.
event(p) ==
  /\ At(p, {"body"}) /\ ~Blocked(p) /\ ~proc[p].acted
  /\ \E stage \in {"search", "execution_started"} :
       /\ stage # proc[p].stage /\ proc[p].stage # "execution_started"
       /\ Insert(p, proc' = [proc EXCEPT ![p].stage = stage])
  /\ UNCHANGED faults

Act(p) ==
  /\ At(p, {"body"}) /\ proc[p].stage = "execution_started" /\ ~proc[p].acted
  /\ proc' = [proc EXCEPT ![p].acted = TRUE] /\ UNCHANGED <<journal, old, file, cleared, cut, count, faults>>

\* What the operation reports says whether it may have been sent.
Returns(p) ==
  /\ At(p, {"body"})
  /\ \E status \in Statuses, action \in Actions :
       /\ status \in {"confirmed", "playing"} <=> proc[p].acted /\ status # "uncertain"
       /\ status \in {"uncertain", "already_satisfied", "not_sent", "observed", "unavailable"} => proc[p].stage = "execution_started"
       /\ status = "playing" <=> action = "play" /\ proc[p].acted /\ status # "uncertain"
       /\ action = "now_playing" <=> status \in {"observed", "unavailable"}
       /\ Attached(p, [status |-> status, action |-> action], "none")
  /\ UNCHANGED <<journal, old, file, cleared, cut, count, faults>>

\* The catalogue's errors, like those of speech and interpretation, are of the work before
\* execution.
Raises(p) ==
  /\ \/ /\ At(p, {"body"}) /\ UNCHANGED faults
        /\ \E kind \in {"stale_index_or_catalog", "other"} :
             /\ proc[p].stage = "execution_started" => kind = "other"
             /\ proc' = [proc EXCEPT ![p].pc = "error", ![p].kind = kind]
     \/ /\ At(p, {"body", "result", "update", "last prune"}) /\ proc[p].kind = "none" /\ Fault
        /\ proc' = [proc EXCEPT ![p].pc = "error", ![p].kind = "interrupted"]
  /\ UNCHANGED <<journal, old, file, cleared, cut, count>>

\* Mutant: the stage is not looked at.
Bug_category(p) == IF proc[p].kind # "other" THEN proc[p].kind ELSE "unrecognized_or_invalid_command"

category(p) ==
  CASE proc[p].kind # "other" -> proc[p].kind
    [] proc[p].stage = "input" -> "unrecognized_or_invalid_command"
    [] proc[p].stage = "search" -> "search_unavailable_or_invalid"
    [] OTHER -> "execution_error"

\* An exception is recorded by its category and the request finished with it.
__exit__(p) ==
  \/ /\ At(p, {"error"}) /\ ~Blocked(p)
     /\ Insert(p, Attached(p, [status |-> IF category(p) = "interrupted" THEN "interrupted" ELSE "error", action |-> "none"], category(p)))
     /\ UNCHANGED faults
  \/ At(p, {"answer"}) /\ Over(p) /\ UNCHANGED <<journal, old, file, cleared, cut, count, faults>>

finish(p) ==
  \/ At(p, {"result"}) /\ ~Blocked(p) /\ Insert(p, Goto(p, "update")) /\ UNCHANGED faults
  \/ /\ At(p, {"update"}) /\ ~Blocked(p)
     /\ rows' = [i \in Ids |-> IF i = proc[p].id /\ rows[i] # "none" THEN proc[p].answer.status ELSE rows[i]]
     /\ Goto(p, "last prune") /\ UNCHANGED <<events, last, old, file, cleared, cut, count, faults>>
  \/ /\ At(p, {"last prune"}) /\ ~Blocked(p) /\ prune /\ Goto(p, "answer")
     /\ UNCHANGED <<last, old, file, cleared, cut, count, faults>>

(* ------------------------------------ commands ------------------------------------ *)

\* What became of a spoken reply is recorded later, if its request is still there.
delivery_event(p) ==
  \/ /\ Command(p) /\ \E i \in 1..last : proc' = [proc EXCEPT ![p].pc = "delivery", ![p].id = i]
     /\ UNCHANGED <<journal, old, file, cleared, cut, faults>>
  \/ /\ At(p, {"delivery"}) /\ ~Blocked(p) /\ Over(p)
     /\ events' = (IF rows[proc[p].id] = "none" THEN events ELSE [events EXCEPT ![proc[p].id] = @ + 1])
     /\ UNCHANGED <<rows, last, old, file, cleared, cut, count, faults>>

History(p) ==
  /\ Command(p) /\ ~Blocked(p) /\ UNCHANGED <<last, old, file, cut, faults>>
  /\ \/ prune /\ UNCHANGED <<proc, cleared>>
     \/ Deletes(Ids) /\ cleared' = cleared \union Recorded /\ UNCHANGED proc
     \/ Goto(p, "export") /\ UNCHANGED <<rows, events, cleared>>

State == {[id |-> i, status |-> rows[i], events |-> events[i]] : i \in Recorded}

\* The file must be new; its rows are read in one transaction, one by one.
export(p) ==
  /\ \/ /\ At(p, {"export"})
        /\ IF file THEN Over(p) /\ UNCHANGED file
           ELSE file' = TRUE /\ proc' = [proc EXCEPT ![p].pc = "rows", ![p].seen = State, ![p].left = Recorded]
     \/ /\ At(p, {"rows"}) /\ UNCHANGED file
        /\ IF proc[p].left = {} THEN Goto(p, "exported")
           ELSE \E i \in proc[p].left :
                  /\ \A j \in proc[p].left : i <= j
                  /\ proc' = [proc EXCEPT ![p].left = @ \ {i}, ![p].out = @ \union {[id |-> i, status |-> rows[i], events |-> events[i]]}]
     \/ At(p, {"exported"}) /\ Over(p) /\ UNCHANGED file
  /\ UNCHANGED <<journal, old, cleared, cut, count, faults>>

Day ==
  /\ Other /\ \E i \in Recorded : old' = old \union 1..i
  /\ UNCHANGED <<journal, proc, file, cleared, cut, faults>>

Killed(p) ==
  /\ proc[p].pc # "idle" /\ Fault /\ Over(p)
  /\ cut' = (IF Tracing(p) THEN cut \union {proc[p].id} ELSE cut) /\ UNCHANGED <<journal, old, file, cleared, count>>

Step(p) == __enter__(p) \/ event(p) \/ Act(p) \/ Returns(p) \/ Raises(p) \/ __exit__(p) \/ finish(p) \/ delivery_event(p) \/ export(p)
Next == Day \/ \E p \in Procs : Step(p) \/ durable_write(p) \/ History(p) \/ Killed(p)
Runs(p) == proc[p].pc # "idle" /\ Step(p)
Spec == Init /\ [][Next]_vars /\ \A p \in Procs : WF_vars(Runs(p))

(* ----------------------------------- properties ----------------------------------- *)

TypeOK ==
  /\ \A i \in Ids : rows[i] \in {"none", "pending", "error", "interrupted"} \union Statuses
  /\ \A p \in Procs : proc[p].id \in 0..MaxRequests

\* A request the history no longer has leaves no events, whoever was still writing them.
ClearedIsGone == \A i \in Ids : rows[i] = "none" => events[i] = 0

\* A request in flight is removed by its age or by the user, never by the limit; a pending
\* row is of one that runs, or was killed, or could not be written.
InFlightIsKept ==
  /\ \A p \in Procs : Tracing(p) /\ proc[p].id # 0 /\ rows[proc[p].id] = "none"
       /\ proc[p].pc # "last prune" /\ (proc[p].kind = "none" \/ proc[p].answer = NoAnswer) => proc[p].id \in cleared \union old
  /\ \A i \in Ids : rows[i] = "pending" => i \in cut \/ \E p \in Procs : Tracing(p) /\ proc[p].id = i

\* The journal says what the user was told, or the user was told it is uncertain.
JournalIsTrue ==
  \A p \in Procs : LET i == proc[p].id IN
    At(p, {"answer"}) /\ proc[p].answer.status # "uncertain" => rows[i] \in {"none", proc[p].answer.status}

\* Of every result: a message that claims something is of a status that does, a problem is
\* spoken unless replies are off or nobody listens, and a command is not answered by silence.  (It is
\* of no state, and looked at before the first request.)
MessagesAgree ==
  count.requests = 0 => \A r \in [status : AllStatuses, action : AllActions], command \in {"ask", "rank"}, source \in {"interactive", "scheduled"} :
    LET code == message_for(r, command, "none") IN
    /\ code \in Claims => r.status \in Good \union {"playing"}
    /\ r.status \in {"uncertain", "not_sent"} /\ source # "scheduled" => Spoken(r, command, source, "errors", "none")
    /\ command = "ask" /\ code = "none" => r.status \in {"planned", "observed", "unavailable"}

\* No reply claims what did not happen, and what was sent is never answered by silence, by
\* "not sent" or by a message of the work before it.
RepliesAreHonest ==
  /\ MessagesAgree
  /\ \A p \in Procs : LET a == proc[p].answer IN At(p, {"answer"}) =>
       /\ a.code \in Claims => proc[p].acted \/ a.status = "already_satisfied"
       /\ proc[p].acted => a.code \in Claims \union {"command.uncertain", "command.interrupted", "command.error"}

\* What is exported is the history of one moment, whatever is written meanwhile.
ExportIsOneState == \A p \in Procs : At(p, {"exported"}) => proc[p].out = proc[p].seen

Pending == \E p \in Procs : proc[p].pc # "idle"
=================================================================================
