------------------------------ MODULE Assistant ------------------------------
(* The web Assistant: the event loop that accepts one request at a time, speaks  *)
(* its answer and polls the state (web/server.py Runtime); the one worker thread  *)
(* that carries a request from its journal row to the player (application.py,    *)
(* journal.py Trace, playback.py, controls.py); and the shutdown of both.  The    *)
(* session's connection, other processes on the catalogue and on the journal,     *)
(* recognition, search and speech are external.                                   *)
EXTENDS Integers, Sequences, FiniteSets, FiniteSetTheorems, SequenceTheorems, TLAPS

CONSTANTS Kinds,         \* kinds of request: "control", "play", "preview", "admin"
          MaxRequests,   \* bound: requests accepted
          MaxGeneration, \* bound: connections of the session
          MaxHeads,      \* bound: catalogues published
          MaxFaults      \* bound: failures of the journal, the store and the player's calls

VARIABLES
  busy,      \* Runtime.busy
  reply_id,  \* Runtime.reply_id; 0 is None
  active,    \* Runtime.active: none, running, done or failed
  poller,    \* sleeping, waiting for describe(), dead or cancelled
  snapshot,  \* Runtime.snapshot: how many requests the state shown counts
  reply,     \* the reply being spoken: its request and its position; reply_busy
  pool,      \* jobs of the worker thread, the first one running
  notices,   \* finished jobs the event loop has not resumed
  req,       \* the request in the worker: id, kind, pc and what it has read
  session,   \* generation, up, and whether the session's owner has left it
  head,      \* generation of the catalogue
  rows,      \* journal: each request's row: none, pending or its status
  answers,   \* history: the status each request was answered with
  sends,     \* history: commands that may have left: request, generation and pin
  latest,    \* history: the request accepted last
  stale,     \* history: speech or a report was accepted for an obsolete request
  closing,   \* Runtime.close(): open, poller, active, exiting, closed or aborted
  faults     \* history: failures so far

web == <<busy, reply_id, active, poller, snapshot>>
world == <<session, head>>
vars == <<web, reply, pool, notices, req, world, rows, answers, sends, latest, stale, closing, faults>>

Ids == 1..MaxRequests
NoReply == [id |-> 0, pc |-> "none"]
reply_busy == reply.pc # "none"
NoReq == [id |-> 0, kind |-> "none", pc |-> "none", pinned |-> 0, ranked |-> 0,
          attempted |-> FALSE, mode |-> FALSE, status |-> "none"]
Answered == Cardinality({i \in Ids : answers[i] # "none"})

Init ==
  /\ busy = FALSE /\ reply_id = 0 /\ active = "none" /\ poller = "sleeping" /\ snapshot = 0
  /\ reply = NoReply /\ pool = <<>> /\ notices = <<>> /\ req = NoReq
  /\ session = [generation |-> 1, up |-> TRUE, left |-> FALSE] /\ head = 1
  /\ rows = [i \in Ids |-> "none"] /\ answers = [i \in Ids |-> "none"]
  /\ sends = {} /\ latest = 0 /\ stale = FALSE /\ closing = "open" /\ faults = 0

(* ------------------------------- the world ---------------------------------- *)

Fault == faults < MaxFaults /\ faults' = faults + 1
leased == req.pc \in {"control", "head", "mode", "fresh", "head again", "select", "verify", "read"}

\* The connection ends; a new one comes when nobody holds a lease.
Reconnect ==
  /\ IF session.up THEN session.generation < MaxGeneration /\ session' = [session EXCEPT !.up = FALSE]
     ELSE /\ ~leased /\ ~session.left
          /\ session' = [session EXCEPT !.up = TRUE, !.generation = @ + 1]
  /\ UNCHANGED <<web, reply, pool, notices, req, head, rows, answers, sends, latest, stale, closing, faults>>

OtherSync ==
  /\ head < MaxHeads /\ head' = head + 1
  /\ UNCHANGED <<web, reply, pool, notices, req, session, rows, answers, sends, latest, stale, closing, faults>>

\* Another process clears the history, or prunes what is completed.
OtherHistory ==
  /\ Fault
  /\ \E gone \in {Ids, {i \in Ids : rows[i] # "pending"}} :
       rows' = [i \in Ids |-> IF i \in gone THEN "none" ELSE rows[i]]
  /\ UNCHANGED <<web, reply, pool, notices, req, world, answers, sends, latest, stale, closing>>

(* --------------------------- the event loop: requests ----------------------- *)

\* Mutant: a second request is accepted while one runs.
Bug_perform ==
  /\ closing = "open" /\ latest < MaxRequests
  /\ busy' = TRUE /\ reply_id' = 0 /\ active' = "running" /\ latest' = latest + 1
  /\ pool' = Append(pool, "dispatch")
  /\ \E kind \in Kinds : req' = [NoReq EXCEPT !.id = latest + 1, !.kind = kind]
  /\ UNCHANGED <<poller, snapshot, reply, notices, world, rows, answers, sends, stale, closing, faults>>

perform ==
  /\ closing = "open" /\ ~busy /\ latest < MaxRequests
  /\ busy' = TRUE /\ reply_id' = 0 /\ active' = "running" /\ latest' = latest + 1
  /\ pool' = Append(pool, "dispatch")
  /\ \E kind \in Kinds : req' = [NoReq EXCEPT !.id = latest + 1, !.kind = kind]
  /\ UNCHANGED <<poller, snapshot, reply, notices, world, rows, answers, sends, stale, closing, faults>>

\* Mutants: busy is cleared before the state is read, or the state is not read.
Bug_ResumeEarly ==
  /\ Head(notices).job = "dispatch" /\ busy' = FALSE
  /\ reply_id' = req.id /\ pool' = Append(pool, "describe") /\ req' = NoReq
  /\ UNCHANGED <<active, poller, snapshot>>
Bug_ResumeUnread ==
  /\ Head(notices).job = "dispatch" /\ busy' = FALSE /\ active' = "done"
  /\ reply_id' = req.id /\ req' = NoReq /\ UNCHANGED <<pool, poller, snapshot>>

ResumeDispatch ==
  /\ Head(notices).job = "dispatch"
  /\ reply_id' = req.id /\ pool' = Append(pool, "describe") /\ req' = NoReq
  /\ UNCHANGED <<busy, active, poller, snapshot>>

\* Mutants: busy, or the task, outlives a state that cannot be read.
Bug_ResumeBusy ==
  /\ Head(notices).job \in {"describe", "poll"} /\ UNCHANGED <<reply_id, pool, req>>
  /\ snapshot' = IF Head(notices).failed THEN snapshot ELSE Head(notices).seen
  /\ IF Head(notices).job = "describe"
       THEN /\ busy' = Head(notices).failed /\ active' = (IF Head(notices).failed THEN "failed" ELSE "done")
            /\ UNCHANGED poller
       ELSE poller' = (IF Head(notices).failed THEN "dead" ELSE "sleeping") /\ UNCHANGED <<busy, active>>
Bug_ResumeTask ==
  /\ Head(notices).job \in {"describe", "poll"} /\ UNCHANGED <<reply_id, pool, req>>
  /\ snapshot' = IF Head(notices).failed THEN snapshot ELSE Head(notices).seen
  /\ IF Head(notices).job = "describe"
       THEN /\ busy' = FALSE /\ active' = (IF Head(notices).failed THEN "running" ELSE "done")
            /\ UNCHANGED poller
       ELSE poller' = (IF Head(notices).failed THEN "dead" ELSE "sleeping") /\ UNCHANGED <<busy, active>>

\* describe() for finish() or for poll(), whose exceptions end the task.
ResumeDescribe ==
  /\ Head(notices).job \in {"describe", "poll"} /\ UNCHANGED <<reply_id, pool, req>>
  /\ snapshot' = IF Head(notices).failed THEN snapshot ELSE Head(notices).seen
  /\ IF Head(notices).job = "describe"
       THEN /\ busy' = FALSE /\ active' = (IF Head(notices).failed THEN "failed" ELSE "done")
            /\ UNCHANGED poller
       ELSE /\ poller' = (IF Head(notices).failed THEN "dead" ELSE "sleeping")
            /\ UNCHANGED <<busy, active>>

Resume ==
  /\ notices # <<>> /\ notices' = Tail(notices)
  /\ ResumeDispatch \/ ResumeDescribe
  /\ UNCHANGED <<reply, world, rows, answers, sends, latest, stale, closing, faults>>

\* Every second; while a request runs only the session's status is taken over.
poll ==
  /\ poller = "sleeping" /\ closing = "open" /\ ~busy /\ snapshot # Answered
  /\ poller' = "waiting" /\ pool' = Append(pool, "poll")
  /\ UNCHANGED <<busy, reply_id, active, snapshot, reply, notices, req, world, rows, answers, sends, latest,
                 stale, closing, faults>>

(* ---------------------------- the event loop: speech ------------------------- *)

loop_rest == <<web, pool, notices, req, world, rows, answers, sends, latest, closing, faults>>

\* Any browser may ask for the answer of any request.
Reply ==
  /\ closing = "open" /\ ~busy /\ ~reply_busy
  /\ \E i \in Ids : i = reply_id /\ reply' = [id |-> i, pc |-> "starting"]
  /\ UNCHANGED <<stale, loop_rest>>

\* Evidence, synthesis and evidence again, each of them awaited.
Synthesize ==
  /\ reply.pc \in {"starting", "synthesizing"}
  /\ reply' = [reply EXCEPT !.pc = IF @ = "starting" THEN "synthesizing" ELSE "ready"]
  /\ UNCHANGED <<stale, loop_rest>>

SynthesisFails == reply_busy /\ reply' = NoReply /\ UNCHANGED <<stale, loop_rest>>

Obsolete(i) == stale' = (stale \/ i # latest)

\* Mutant: the request is not compared again once the audio is there.
Bug_Speak == /\ reply.pc = "ready" /\ reply' = NoReply /\ Obsolete(reply.id)
             /\ UNCHANGED loop_rest

\* Audio of a superseded request is discarded.
Speak ==
  /\ reply.pc = "ready" /\ reply' = NoReply
  /\ IF reply.id = reply_id THEN Obsolete(reply.id) ELSE UNCHANGED stale
  /\ UNCHANGED loop_rest

\* The browser reports how the audio it has was played.
delivered ==
  /\ \E i \in Ids : answers[i] # "none" /\ i = reply_id /\ Obsolete(i)
  /\ UNCHANGED <<reply, loop_rest>>

(* ------------------------ the worker thread: a request ----------------------- *)

Running(pc) == pool # <<>> /\ Head(pool) = "dispatch" /\ req.pc = pc
Worker(changed) == UNCHANGED <<web, reply, world, latest, stale, closing>> /\ UNCHANGED changed
Goto(pc) == req' = [req EXCEPT !.pc = pc]
Finish(status) == req' = [NoReq EXCEPT !.id = req.id, !.pc = "finish", !.status = status]
Quiet == <<pool, notices, rows, answers, sends, faults>>

Answer(status) ==
  /\ pool' = Tail(pool) /\ answers' = [answers EXCEPT ![req.id] = status]
  /\ notices' = Append(notices, [job |-> "dispatch", failed |-> FALSE, seen |-> 0])

\* Trace.__enter__: a row of its own, or no request.
TraceBegins ==
  /\ Running("none")
  /\ rows' = [rows EXCEPT ![req.id] = "pending"] /\ Goto("pin")
  /\ Worker(<<pool, notices, answers, sends, faults>>)

\* The journal cannot be written: what is done may be done, and is not denied.
Unrecorded ==
  /\ \E pc \in {"none", "pin", "hear", "think", "search", "started", "finish"} : Running(pc)
  /\ \/ Fault
     \/ req.pc # "none" /\ rows[req.id] = "none" /\ UNCHANGED faults
  /\ Answer("uncertain") /\ UNCHANGED req
  /\ Worker(<<rows, sends>>)

\* The generation is pinned before anything slow.
Pin ==
  /\ Running("pin") /\ rows[req.id] = "pending"
  /\ \E pc \in (IF req.kind = "admin" THEN {"lease"} ELSE {"hear", "think"}) :
       req' = [req EXCEPT !.pinned = session.generation, !.pc = pc]
  /\ Worker(Quiet)

Hear ==
  /\ Running("hear") /\ rows[req.id] = "pending"
  /\ Goto("think") \/ Finish("error")
  /\ Worker(Quiet)

natural_request ==
  /\ Running("think") /\ rows[req.id] = "pending"
  /\ \/ Finish("error")
     \/ IF req.kind = "preview" THEN Goto("search")
        ELSE IF req.pinned # session.generation THEN Finish("not_sent")
        ELSE Goto(IF req.kind = "play" THEN "search" ELSE "started")
  /\ Worker(Quiet)

Search ==
  /\ Running("search") /\ rows[req.id] = "pending"
  /\ \/ \E status \in {"error", "not_found"} : Finish(status)
     \/ IF req.kind = "preview" THEN Finish("planned")
        ELSE req' = [req EXCEPT !.ranked = head, !.pc = "started"]
  /\ Worker(Quiet)

Started ==
  /\ Running("started") /\ rows[req.id] = "pending" /\ Goto("lease")
  /\ Worker(Quiet)

\* Mutant: the generation is not compared under the lease.
Bug_Lease ==
  /\ Running("lease")
  /\ \/ Finish("not_sent")
     \/ /\ session.up
        /\ Goto(CASE req.kind = "admin" -> "read" [] req.kind = "control" -> "control"
                  [] OTHER -> "head")
  /\ Worker(Quiet)

\* device_call(): a lease, or nothing sent; the callback compares the generation once more.
Lease ==
  /\ Running("lease")
  /\ \/ Finish("not_sent")
     \/ /\ session.up
        /\ IF req.kind # "admin" /\ req.pinned # session.generation THEN Finish("not_sent")
           ELSE Goto(CASE req.kind = "admin" -> "read" [] req.kind = "control" -> "control"
                       [] OTHER -> "head")
  /\ Worker(Quiet)

\* queue and sync only read.
Reads == /\ Running("read") /\ (\E status \in {"completed", "not_sent"} : Finish(status))
         /\ Worker(Quiet)

\* Mutant: only the current phase's flag is looked at.
Bug_Fail == Finish(IF req.attempted THEN "uncertain" ELSE "not_sent")

Fail == Finish(IF req.attempted \/ req.mode THEN "uncertain" ELSE "not_sent")

CallFails == \/ Fault
             \/ ~session.up /\ UNCHANGED faults

\* The attempt is recorded before the bytes are written; on a closed client nothing is.
Send ==
  /\ session.up /\ UNCHANGED faults
  /\ sends' = sends \union {[id |-> req.id, generation |-> session.generation,
                             pinned |-> req.pinned]}

Control ==
  /\ Running("control")
  /\ \/ Finish("already_satisfied") /\ UNCHANGED <<sends, faults>>
     \/ Send /\ req' = [req EXCEPT !.attempted = TRUE, !.pc = "verify"]
     \/ CallFails /\ Fail /\ UNCHANGED sends
  /\ Worker(<<pool, notices, rows, answers>>)

\* playback.execute(): the ranking's catalogue is still the current one.
CheckHead ==
  /\ Running("head") \/ Running("head again")
  /\ IF head # req.ranked THEN Fail
     ELSE Goto(IF req.pc = "head" THEN "mode" ELSE "select")
  /\ Worker(Quiet)

\* begin_phase("selection") clears the client's flag; the mode's own result keeps it.
Mode ==
  /\ Running("mode")
  /\ \/ Goto("fresh") /\ UNCHANGED <<sends, faults>>
     \/ Send /\ req' = [req EXCEPT !.mode = TRUE, !.pc = "fresh"]
     \/ Send /\ Finish("uncertain")
     \/ CallFails /\ Fail /\ UNCHANGED sends
  /\ Worker(<<pool, notices, rows, answers>>)

fresh_selection == /\ Running("fresh") /\ (Goto("head again") \/ Fail)
                   /\ Worker(Quiet)

Select ==
  /\ Running("select")
  /\ \/ Send /\ req' = [req EXCEPT !.attempted = TRUE, !.pc = "verify"]
     \/ CallFails /\ Fail /\ UNCHANGED sends
  /\ Worker(<<pool, notices, rows, answers>>)

\* Errors of the store are not caught with the device's.
StoreFails ==
  /\ \E pc \in {"head", "fresh", "head again"} : Running(pc)
  /\ Fault /\ Finish("error")
  /\ Worker(<<pool, notices, rows, answers, sends>>)

\* A connection that ended meanwhile makes every outcome uncertain.
verify ==
  /\ Running("verify")
  /\ Finish("uncertain") \/ (session.up /\ Finish("confirmed"))
  /\ Worker(Quiet)

\* Mutant: an outcome is recorded, and an error shown, when prune() fails.
Bug_Recorded ==
  /\ Running("finish") /\ rows[req.id] = "pending"
  /\ rows' = [rows EXCEPT ![req.id] = req.status] /\ UNCHANGED req
  /\ \/ Answer(req.status) /\ UNCHANGED faults
     \/ Answer("error") /\ Fault
  /\ Worker(<<sends>>)

\* Trace.finish(): event, row, prune(); a prune that fails hides the outcome.
Recorded ==
  /\ Running("finish") /\ rows[req.id] = "pending"
  /\ rows' = [rows EXCEPT ![req.id] = req.status] /\ UNCHANGED req
  /\ \/ Answer(req.status) /\ UNCHANGED faults
     \/ Answer("uncertain") /\ Fault
  /\ Worker(<<sends>>)

Describe ==
  /\ pool # <<>> /\ Head(pool) \in {"describe", "poll"} /\ pool' = Tail(pool)
  /\ \E failed \in BOOLEAN :
       /\ IF failed THEN Fault ELSE UNCHANGED faults
       /\ notices' = IF Head(pool) = "poll" /\ poller = "cancelled" THEN notices
                     ELSE Append(notices, [job |-> Head(pool), failed |-> failed, seen |-> Answered])
  /\ Worker(<<req, rows, answers, sends>>)

(* --------------------------------- shutdown ---------------------------------- *)

close_rest == <<busy, reply_id, active, snapshot, reply, notices, req, head, rows, answers, sends, latest, stale,
                faults>>

\* A poll() that died makes close() raise here, and a finish() that did, below.
Close ==
  /\ closing = "open" /\ closing' = (IF poller = "dead" THEN "aborted" ELSE "active")
  /\ poller' = (IF poller = "dead" THEN poller ELSE "cancelled")
  /\ notices = <<>> /\ UNCHANGED <<pool, session, close_rest>>

\* Mutant: a running request is not waited for.
Bug_CloseWaited ==
  /\ closing = "active"
  /\ IF active = "failed" THEN closing' = "aborted" /\ UNCHANGED pool
     ELSE closing' = "exiting" /\ pool' = Append(pool, "exit")
  /\ UNCHANGED <<poller, session, close_rest>>

CloseWaited ==
  /\ closing = "active" /\ active # "running"
  /\ IF active = "failed" THEN closing' = "aborted" /\ UNCHANGED pool
     ELSE closing' = "exiting" /\ pool' = Append(pool, "exit")
  /\ UNCHANGED <<poller, session, close_rest>>

Exit ==
  /\ pool # <<>> /\ Head(pool) = "exit" /\ pool' = Tail(pool) /\ closing' = "closed"
  /\ session' = [session EXCEPT !.left = TRUE, !.up = FALSE]
  /\ UNCHANGED <<poller, close_rest>>

(* ------------------------------- specification ------------------------------- *)

Works == \/ TraceBegins \/ Unrecorded \/ Pin \/ Hear \/ natural_request \/ Search \/ Started \/ Lease
         \/ Reads \/ Control \/ CheckHead \/ Mode \/ fresh_selection \/ Select \/ StoreFails \/ verify
         \/ Recorded \/ Describe \/ Exit
Speech == Synthesize \/ SynthesisFails \/ Speak
Next == \/ Reconnect \/ OtherSync \/ OtherHistory \/ perform \/ Resume \/ poll \/ Reply \/ delivered
        \/ Speech \/ Works \/ Close \/ CloseWaited

\* The worker thread and the event loop run; requests and closing may never come.
Spec == Init /\ [][Next]_vars /\ WF_vars(Works) /\ WF_vars(Resume) /\ WF_vars(CloseWaited)

(* --------------------------------- properties -------------------------------- *)

TypeOK ==
  /\ {busy, stale} \subseteq BOOLEAN /\ reply_id \in 0..MaxRequests /\ snapshot \in 0..MaxRequests
  /\ active \in {"none", "running", "done", "failed"}
  /\ poller \in {"sleeping", "waiting", "dead", "cancelled"}
  /\ Len(pool) + Len(notices) <= 3 /\ Cardinality({i \in DOMAIN pool : pool[i] = "dispatch"}) <= 1

\* Speech and reports on it belong to the request accepted last: a request that is
\* accepted while an older answer is being spoken makes that answer obsolete
\* (server.py perform(), reply(), delivered()).
SpeechIsLatest == ~stale

\* Where the state says "not busy", no request waits for the worker or runs in it
\* (server.py: "no command was queued").
IdleIsIdle == ~busy => \A i \in DOMAIN pool : pool[i] # "dispatch"

\* A command leaves only on the connection that the user had when the request came,
\* however long hearing, understanding and searching took (application.py:295).
SentWherePinned == \A s \in sends : s.generation = s.pinned

\* "not_sent", as an answer or in the journal, is said of no request of which a
\* command may have left, of either phase (playback.py execute()).
NotSentIsTrue ==
  \A s \in sends : answers[s.id] # "not_sent" /\ rows[s.id] # "not_sent"

\* The journal and the browser are told the same, or the browser that it is uncertain.
JournalAgrees ==
  \A i \in Ids : rows[i] \notin {"none", "pending"} /\ answers[i] # "none" => answers[i] \in {rows[i], "uncertain"}

\* Between requests the state shown counts the last request, whichever of poll()'s
\* and finish()'s readings came last, unless a reading failed.
ShowsLastWork == ~busy /\ active = "done" => snapshot = Answered

\* An orderly shutdown leaves the session with no request on its way to the player.
CloseLeavesSession ==
  /\ closing = "closed" => session.left /\ ~busy /\ pool = <<>>
  /\ closing = "aborted" => poller = "dead" \/ active = "failed"

\* What must end, whatever fails on its way: an accepted request, a shutdown that has begun.
Pending == busy \/ closing = "active"

(* ---------------------------- inductive invariant ----------------------------- *)

Statuses == {"none", "pending", "error", "not_sent", "not_found", "planned", "completed", "uncertain",
             "already_satisfied", "confirmed"}
Pcs == {"none", "pin", "hear", "think", "search", "started", "lease", "control", "head", "mode", "fresh",
        "head again", "select", "verify", "read", "finish"}
Jobs == {"dispatch", "describe", "poll", "exit"}
Told == {"dispatch", "describe", "poll"}
Reqs == [id : 0..MaxRequests, kind : Kinds \union {"none"}, pc : Pcs, pinned : Nat, ranked : Nat,
         attempted : BOOLEAN, mode : BOOLEAN, status : Statuses]
Speaking == [id : 0..MaxRequests, pc : {"none", "starting", "synthesizing", "ready"}]
Notices == [job : Told, failed : BOOLEAN, seen : 0..MaxRequests]
Sends == [id : Ids, generation : Nat, pinned : Nat]

Types ==
  /\ busy \in BOOLEAN /\ stale \in BOOLEAN /\ reply_id \in 0..MaxRequests /\ snapshot \in 0..MaxRequests
  /\ active \in {"none", "running", "done", "failed"} /\ poller \in {"sleeping", "waiting", "dead", "cancelled"}
  /\ closing \in {"open", "active", "exiting", "closed", "aborted"}
  /\ reply \in Speaking /\ pool \in Seq(Jobs) /\ notices \in Seq(Notices) /\ req \in Reqs
  /\ session \in [generation : Nat, up : BOOLEAN, left : BOOLEAN] /\ head \in Nat /\ latest \in 0..MaxRequests
  /\ rows \in [Ids -> Statuses] /\ answers \in [Ids -> Statuses] /\ sends \subseteq Sends

\* The jobs the event loop waits for, in their order: first the finished ones.
Outstanding == Len(notices) + Len(pool)
Job(i) == IF i <= Len(notices) THEN notices[i].job ELSE pool[i - Len(notices)]

\* One request and one reading of poll() are on their way, and the reading first; the session's
\* owner leaves last, when both came back or will be dropped.
QueueInv ==
  /\ Outstanding <= 2 /\ (busy <=> active = "running")
  /\ busy => /\ Outstanding > 0 /\ Job(Outstanding) \in {"dispatch", "describe"}
             /\ Outstanding = 2 => Job(1) = "poll" /\ Job(2) = "dispatch"
  /\ ~busy => /\ \A i \in 1..Outstanding : Job(i) \in {"poll", "exit"}
              /\ Outstanding = 2 => Job(1) = "poll" /\ Job(2) = "exit"
  /\ Outstanding > 0 /\ Job(1) = "poll" => poller = "waiting" \/ (poller = "cancelled" /\ notices = <<>>)

CloseInv ==
  /\ closing \in {"active", "exiting", "closed"} => poller = "cancelled"
  /\ Outstanding > 0 /\ Job(Outstanding) = "exit" => closing = "exiting"
  /\ closing = "exiting" => ~busy /\ Outstanding > 0 /\ Job(Outstanding) = "exit"
  /\ closing = "closed" => session.left /\ ~busy /\ Outstanding = 0
  /\ closing = "aborted" => poller = "dead" \/ active = "failed"

\* Speech is of the request accepted last, or of none.
SpeechInv == /\ reply_id \in {0, latest} /\ (reply_busy => reply.id \in Ids) /\ ~stale

\* What was read between requests is what was answered.
ShowInv ==
  /\ \A i \in DOMAIN notices : ~busy \/ notices[i].job = "describe" => notices[i].seen = Answered
  /\ ~busy /\ active = "done" => snapshot = Answered

\* The request that is on its way is the last one; it has no answer while it runs, and no outcome
\* in the journal.  Those that are yet to come have left no trace.
Runs == \E i \in DOMAIN pool : pool[i] = "dispatch"
Sendable == {"fresh", "head again", "select", "verify"}
RequestInv ==
  /\ \A i \in 1..Outstanding : Job(i) = "dispatch" => req.id = latest /\ latest \in Ids
  /\ Runs => answers[req.id] = "none" /\ rows[req.id] \in {"none", "pending"}
  /\ \A i \in Ids : i > latest => answers[i] = "none" /\ rows[i] = "none"

\* A command leaves on the pinned connection, and the request knows that it may have left.
Pinned == leased /\ req.pc # "read" => req.pinned = session.generation
Knows == req.pc \in Sendable /\ (req.attempted \/ req.mode)
Admits == req.pc = "finish" /\ req.status # "not_sent"
SendInv ==
  /\ Pinned
  /\ \A s \in sends : /\ s.generation = s.pinned /\ s.id <= latest
                      /\ Runs /\ s.id = req.id => Knows \/ Admits

IInv == Types /\ QueueInv /\ CloseInv /\ SpeechInv /\ ShowInv /\ RequestInv /\ SendInv /\ NotSentIsTrue /\ JournalAgrees

(* ---------------------------------- the queue --------------------------------- *)

LEMMA Sizes ==
  ASSUME Types
  PROVE  /\ Len(pool) \in Nat /\ Len(notices) \in Nat /\ Outstanding = Len(notices) + Len(pool)
         /\ DOMAIN pool = 1..Len(pool) /\ DOMAIN notices = 1..Len(notices)
         /\ (pool = <<>> <=> Len(pool) = 0) /\ (notices = <<>> <=> Len(notices) = 0)
         /\ \A i \in 1..Len(notices) : Job(i) = notices[i].job /\ notices[i] \in Notices /\ Job(i) \in Told
         /\ \A i \in 1..Len(pool) : Job(Len(notices) + i) = pool[i]
<1>1. pool \in Seq(Jobs) /\ notices \in Seq(Notices)
  BY DEF Types
<1>2. \A n \in Notices : n.job \in Told
  BY DEF Notices
<1>3. \A i \in 1..Len(notices) : notices[i] \in Notices /\ notices[i].job \in Told
  BY <1>1, <1>2
<1> QED
  BY <1>1, <1>3 DEF Outstanding, Job

\* A job that is put into the pool is the last one.
LEMMA Added ==
  ASSUME Types, NEW j, pool' = Append(pool, j), UNCHANGED notices
  PROVE  Outstanding' = Outstanding + 1 /\ Job(Outstanding)' = j /\ \A i \in 1..Outstanding : Job(i)' = Job(i)
<1>1. pool \in Seq(Jobs) /\ Len(pool) \in Nat /\ Len(notices) \in Nat
  BY DEF Types
<1>2. Len(pool') = Len(pool) + 1 /\ pool'[Len(pool) + 1] = j /\ \A i \in 1..Len(pool) : pool'[i] = pool[i]
  BY <1>1
<1>3. ASSUME NEW i \in 1..Outstanding PROVE Job(i)' = Job(i)
  <2>1. CASE i <= Len(notices)
    BY <2>1 DEF Job
  <2>2. CASE ~(i <= Len(notices))
    <3>1. i - Len(notices) \in 1..Len(pool)
      BY <1>1, <2>2 DEF Outstanding
    <3> QED
      BY <1>2, <2>2, <3>1 DEF Job
  <2> QED
    BY <2>1, <2>2
<1>4. Outstanding' = Outstanding + 1
  BY <1>1, <1>2 DEF Outstanding
<1>5. Job(Outstanding)' = j
  <2>1. ~(Len(notices') + Len(pool') <= Len(notices')) /\ Len(notices') + Len(pool') - Len(notices') = Len(pool) + 1
    BY <1>1, <1>2
  <2> QED
    BY <1>2, <1>4, <2>1 DEF Outstanding, Job
<1> QED
  BY <1>3, <1>4, <1>5

\* A job that is finished keeps its place.
LEMMA Moved ==
  ASSUME Types, pool # <<>>, pool' = Tail(pool), NEW n, notices' = Append(notices, n), n.job = Head(pool)
  PROVE  Outstanding' = Outstanding /\ \A i \in 1..Outstanding : Job(i)' = Job(i)
<1>1. pool \in Seq(Jobs) /\ notices \in Seq(Notices) /\ Len(pool) \in Nat /\ Len(notices) \in Nat /\ Len(pool) > 0
  BY Sizes DEF Types
<1>2. Len(pool') = Len(pool) - 1 /\ \A i \in 1..(Len(pool) - 1) : pool'[i] = pool[i + 1]
  BY <1>1
<1>3. /\ Len(notices') = Len(notices) + 1 /\ notices'[Len(notices) + 1] = n
      /\ \A i \in 1..Len(notices) : notices'[i] = notices[i]
  BY <1>1
<1>4. ASSUME NEW i \in 1..Outstanding PROVE Job(i)' = Job(i)
  <2>1. CASE i <= Len(notices)
    BY <1>1, <1>3, <2>1 DEF Job
  <2>2. CASE i = Len(notices) + 1
    BY <1>1, <1>3, <2>2 DEF Job
  <2>3. CASE i > Len(notices) + 1
    <3>1. i - Len(notices') \in 1..(Len(pool) - 1) /\ ~(i <= Len(notices'))
      BY <1>1, <1>3, <2>3 DEF Outstanding
    <3>2. i - Len(notices') + 1 = i - Len(notices) /\ ~(i <= Len(notices))
      BY <1>1, <1>3, <2>3
    <3> QED
      BY <1>2, <3>1, <3>2 DEF Job
  <2> QED
    BY <1>1, <2>1, <2>2, <2>3
<1> QED
  BY <1>1, <1>2, <1>3, <1>4 DEF Outstanding

\* The first job leaves: it is resumed, or it was running and nobody waits for it.
LEMMA Left ==
  ASSUME Types, \/ notices # <<>> /\ notices' = Tail(notices) /\ UNCHANGED pool
                \/ notices = <<>> /\ pool # <<>> /\ pool' = Tail(pool) /\ UNCHANGED notices
  PROVE  Outstanding > 0 /\ Outstanding' = Outstanding - 1 /\ \A i \in 1..(Outstanding - 1) : Job(i)' = Job(i + 1)
<1>1. pool \in Seq(Jobs) /\ notices \in Seq(Notices) /\ Len(pool) \in Nat /\ Len(notices) \in Nat
  BY Sizes DEF Types
<1>2. CASE notices # <<>> /\ notices' = Tail(notices) /\ UNCHANGED pool
  <2>1. Len(notices) > 0 /\ Len(notices') = Len(notices) - 1 /\ \A i \in 1..(Len(notices) - 1) : notices'[i] = notices[i + 1]
    BY <1>1, <1>2
  <2>2. ASSUME NEW i \in 1..(Outstanding - 1) PROVE Job(i)' = Job(i + 1)
    <3>1. CASE i <= Len(notices) - 1
      BY <1>1, <2>1, <3>1 DEF Job
    <3>2. CASE ~(i <= Len(notices) - 1)
      <4>1. ~(i <= Len(notices')) /\ ~(i + 1 <= Len(notices)) /\ i - Len(notices') = i + 1 - Len(notices)
        BY <1>1, <2>1, <3>2
      <4> QED
        BY <1>2, <4>1 DEF Job
    <3> QED
      BY <3>1, <3>2
  <2>3. Len(notices) \in Nat /\ Len(pool) \in Nat /\ Len(pool') = Len(pool)
    BY <1>1, <1>2
  <2>4. Outstanding > 0 /\ Outstanding' = Outstanding - 1
    BY <2>1, <2>3 DEF Outstanding
  <2> QED
    BY <2>2, <2>4
<1>3. CASE notices = <<>> /\ pool # <<>> /\ pool' = Tail(pool) /\ UNCHANGED notices
  <2>1. Len(notices) = 0 /\ Len(pool) > 0 /\ Len(pool') = Len(pool) - 1 /\ \A i \in 1..(Len(pool) - 1) : pool'[i] = pool[i + 1]
    BY <1>1, <1>3, Sizes
  <2>2. ASSUME NEW i \in 1..(Outstanding - 1) PROVE Job(i)' = Job(i + 1)
    <3>1. i \in 1..(Len(pool) - 1) /\ ~(i <= 0) /\ ~(i + 1 <= 0) /\ i - 0 = i /\ i + 1 - 0 = i + 1
      BY <1>1, <2>1 DEF Outstanding
    <3>2. Job(i)' = pool'[i - 0] /\ Job(i + 1) = pool[i + 1 - 0]
      BY <1>3, <2>1, <3>1 DEF Job
    <3> QED
      BY <2>1, <3>1, <3>2
  <2> QED
    BY <1>1, <1>3, <2>1, <2>2 DEF Outstanding
<1> QED
  BY <1>2, <1>3

LEMMA Kept == ASSUME UNCHANGED <<pool, notices>> PROVE Outstanding' = Outstanding /\ \A i : Job(i)' = Job(i)
BY DEF Outstanding, Job

\* Where the pool's first job stands, and what that says of the others.
LEMMA First ==
  ASSUME Types, QueueInv, CloseInv
  PROVE  /\ Outstanding \in 0..2
         /\ pool # <<>> => /\ Head(pool) = Job(Len(notices) + 1) /\ Len(notices) + 1 <= Outstanding
                           /\ Head(pool) = "dispatch" => busy /\ Outstanding = Len(notices) + 1
                           /\ Head(pool) = "describe" => busy /\ Outstanding = 1
                           /\ Head(pool) = "poll" => notices = <<>>
                           /\ Head(pool) = "exit" => ~busy /\ notices = <<>> /\ Outstanding = 1 /\ closing = "exiting"
         /\ notices # <<>> => /\ Head(notices) = notices[1] /\ Head(notices) \in Notices /\ Outstanding > 0
                              /\ Head(notices).job = Job(1)
                              /\ Head(notices).job # "poll" => busy /\ Outstanding = 1 /\ pool = <<>>
                              /\ Head(notices).job = "poll" => poller = "waiting"
<1>1. /\ Len(pool) \in Nat /\ Len(notices) \in Nat /\ Outstanding = Len(notices) + Len(pool) /\ Outstanding <= 2
      /\ (pool = <<>> <=> Len(pool) = 0) /\ (notices = <<>> <=> Len(notices) = 0)
      /\ \A i \in 1..Len(notices) : Job(i) = notices[i].job /\ notices[i] \in Notices /\ Job(i) \in Told
      /\ \A i \in 1..Len(pool) : Job(Len(notices) + i) = pool[i]
  BY Sizes DEF QueueInv
<1>2. pool \in Seq(Jobs) /\ notices \in Seq(Notices)
  BY DEF Types
<1>3. ASSUME notices # <<>>
      PROVE  /\ Head(notices) = notices[1] /\ Head(notices) \in Notices /\ Outstanding > 0 /\ Head(notices).job = Job(1)
             /\ Head(notices).job # "poll" => busy /\ Outstanding = 1 /\ pool = <<>>
             /\ Head(notices).job = "poll" => poller = "waiting"
  <2>1. Head(notices) = notices[1] /\ 1 \in 1..Len(notices) /\ 1 \in 1..Outstanding /\ Outstanding > 0
    BY <1>1, <1>2, <1>3
  <2>2. Head(notices).job = Job(1) /\ Head(notices) \in Notices /\ Job(1) \in Told
    BY <1>1, <2>1
  <2>3. Job(1) # "poll" => busy /\ Outstanding = 1
    BY <1>1, <2>1, <2>2 DEF QueueInv, Told
  <2>4. Job(1) = "poll" => poller = "waiting"
    BY <1>3, <2>1 DEF QueueInv
  <2> QED
    BY <1>1, <2>1, <2>2, <2>3, <2>4
<1>4. ASSUME pool # <<>>
      PROVE  /\ Head(pool) = Job(Len(notices) + 1) /\ Len(notices) + 1 <= Outstanding
             /\ Head(pool) = "dispatch" => busy /\ Outstanding = Len(notices) + 1
             /\ Head(pool) = "describe" => busy /\ Outstanding = 1
             /\ Head(pool) = "poll" => notices = <<>>
             /\ Head(pool) = "exit" => ~busy /\ notices = <<>> /\ Outstanding = 1 /\ closing = "exiting"
  <2> DEFINE n == Len(notices) + 1
  <2>1. Head(pool) = pool[1] /\ 1 \in 1..Len(pool) /\ n \in 1..Outstanding /\ n >= 1
    BY <1>1, <1>2, <1>4
  <2>2. Head(pool) = Job(n)
    BY <1>1, <2>1
  <2>3. Outstanding = 1 \/ Outstanding = 2
    BY <1>1, <2>1
  <2> HIDE DEF n
  <2>4. Job(n) = "dispatch" => busy /\ n = Outstanding
    BY <2>1, <2>3 DEF QueueInv
  <2>5. Job(n) = "describe" => busy /\ Outstanding = 1
    BY <2>1, <2>3 DEF QueueInv
  <2>6. Job(n) = "poll" => n = 1
    BY <2>1, <2>3 DEF QueueInv
  <2>7. Job(n) = "exit" => ~busy /\ n = Outstanding /\ closing = "exiting"
    BY <2>1, <2>3 DEF QueueInv, CloseInv
  <2>8. Job(n) = "exit" => notices = <<>>
    <3>1. SUFFICES ASSUME Job(n) = "exit", notices # <<>> PROVE FALSE
      OBVIOUS
    <3>2. busy \/ poller = "waiting"
      BY <1>3, <3>1
    <3> QED
      BY <2>7, <3>1, <3>2 DEF CloseInv
  <2> QED
    BY <1>1, <2>1, <2>2, <2>4, <2>5, <2>6, <2>7, <2>8 DEF n
<1> QED
  BY <1>1, <1>3, <1>4

(* ---------------------------------- the worker -------------------------------- *)

\* Steps that send nothing, steps that may, and the two ways to answer.
Thinks == Pin \/ Hear \/ natural_request \/ Search \/ Started \/ Lease \/ Reads \/ CheckHead \/ fresh_selection \/ StoreFails \/ verify
Acts == Control \/ Mode \/ Select
Ends == Unrecorded \/ Recorded

LEMMA Going ==
  ASSUME MaxRequests \in Nat, req \in Reqs
  PROVE  /\ \A pc \in Pcs : [req EXCEPT !.pc = pc] \in Reqs
         /\ \A pc : /\ [req EXCEPT !.pc = pc].pc = pc /\ [req EXCEPT !.pc = pc].id = req.id
                    /\ [req EXCEPT !.pc = pc].pinned = req.pinned /\ [req EXCEPT !.pc = pc].attempted = req.attempted
                    /\ [req EXCEPT !.pc = pc].mode = req.mode
BY DEF Reqs

LEMMA Finishing ==
  ASSUME MaxRequests \in Nat, req \in Reqs, NEW status \in Statuses, Finish(status)
  PROVE  /\ req' \in Reqs /\ req'.id = req.id /\ req'.pc = "finish" /\ req'.status = status
         /\ Pinned'
<1>1. req.id \in 0..MaxRequests
  BY DEF Reqs
<1>2. req' = [id |-> req.id, kind |-> "none", pc |-> "finish", pinned |-> 0, ranked |-> 0,
              attempted |-> FALSE, mode |-> FALSE, status |-> status]
  BY DEF Finish, NoReq
<1>3. "finish" \in Pcs
  BY DEF Pcs
<1>4. req' \in Reqs
  BY <1>1, <1>2, <1>3 DEF Reqs
<1>5. Pinned'
  BY <1>2 DEF Pinned, leased
<1> QED
  BY <1>2, <1>4, <1>5

\* The request as it is after a step that sends nothing.
LEMMA Thinking ==
  ASSUME MaxRequests \in Nat, Types, Pinned, Thinks
  PROVE  /\ Running(req.pc) /\ req.pc # "finish" /\ req' \in Reqs /\ req'.id = req.id
         /\ UNCHANGED <<web, reply, pool, notices, world, rows, answers, sends, latest, stale, closing>>
         /\ Pinned' /\ (Knows => Knows' \/ Admits')
<1>1. req \in Reqs /\ session.generation \in Nat /\ head \in Nat
  BY DEF Types
<1>2. {"error", "not_sent", "not_found", "planned", "completed", "uncertain", "already_satisfied", "confirmed"} \subseteq Statuses
  BY DEF Statuses
<1>3. {"hear", "think", "search", "started", "lease", "control", "head", "mode", "fresh", "head again", "select", "read"} \subseteq Pcs
  BY DEF Pcs
<1>4. ASSUME NEW status \in Statuses, Finish(status), Knows => status # "not_sent"
      PROVE  /\ req' \in Reqs /\ req'.id = req.id /\ Pinned'
             /\ (Knows => Knows' \/ Admits')
  BY <1>1, <1>4, Finishing DEF Admits
<1>5. ASSUME NEW pc \in Pcs, Goto(pc), UNCHANGED session,
             pc \in {"control", "head", "mode", "fresh", "head again", "select", "verify"} => req.pinned = session.generation,
             Knows => pc \in Sendable
      PROVE  /\ req' \in Reqs /\ req'.id = req.id /\ Pinned'
             /\ (Knows => Knows' \/ Admits')
  <2>1. req' \in Reqs /\ req'.pc = pc /\ req'.id = req.id /\ req'.pinned = req.pinned /\ req'.attempted = req.attempted /\ req'.mode = req.mode
    BY <1>1, <1>5, Going DEF Goto
  <2> QED
    BY <1>5, <2>1 DEF Pinned, leased, Knows
<1>6. CASE Pin
  <2>1. PICK pc \in {"lease", "hear", "think"} : req' = [req EXCEPT !.pinned = session.generation, !.pc = pc]
    BY <1>6 DEF Pin
  <2>2. req' \in Reqs /\ req'.id = req.id /\ req'.pc = pc
    BY <1>1, <1>3, <2>1 DEF Reqs
  <2> QED
    BY <1>6, <2>1, <2>2 DEF Pin, Running, Worker, Quiet, Pinned, leased, Knows, Sendable
<1>7. CASE Hear
  BY <1>2, <1>3, <1>4, <1>5, <1>7 DEF Hear, Running, Worker, Quiet, Knows, Sendable, world
<1>8. CASE natural_request
  BY <1>2, <1>3, <1>4, <1>5, <1>8 DEF natural_request, Running, Worker, Quiet, Knows, Sendable, world
<1>9. CASE Search
  <2>1. CASE req' = [req EXCEPT !.ranked = head, !.pc = "started"]
    <3>1. req' \in Reqs /\ req'.id = req.id /\ req'.pc = "started"
      BY <1>1, <1>3, <2>1 DEF Reqs
    <3> QED
      BY <1>9, <3>1 DEF Search, Running, Worker, Quiet, Pinned, leased, Knows, Sendable
  <2> QED
    BY <1>2, <1>4, <1>9, <2>1 DEF Search, Running, Worker, Quiet, Knows, Sendable
<1>10. CASE Started
  BY <1>3, <1>5, <1>10 DEF Started, Running, Worker, Quiet, Knows, Sendable, world
<1>11. CASE Lease
  <2>1. CASE Finish("not_sent")
    BY <1>2, <1>4, <1>11, <2>1 DEF Lease, Running, Worker, Quiet, Knows, Sendable
  <2>2. CASE ~Finish("not_sent")
    <3>1. PICK pc \in {"read", "control", "head"} : Goto(pc) /\ (pc # "read" => req.pinned = session.generation)
      BY <1>11, <2>2 DEF Lease
    <3> QED
      BY <1>3, <1>5, <1>11, <3>1 DEF Lease, Running, Worker, Quiet, Knows, Sendable, world
  <2> QED
    BY <2>1, <2>2
<1>12. CASE Reads
  BY <1>2, <1>4, <1>12 DEF Reads, Running, Worker, Quiet, Knows, Sendable
<1>13. ASSUME Fail
       PROVE  /\ req' \in Reqs /\ req'.id = req.id /\ Pinned'
              /\ (Knows => Knows' \/ Admits')
  BY <1>2, <1>4, <1>13 DEF Fail, Knows
<1>14. CASE CheckHead
  <2>1. CASE Fail
    BY <1>13, <1>14, <2>1 DEF CheckHead, Running, Worker, Quiet
  <2>2. CASE ~Fail
    <3>1. PICK pc \in {"mode", "select"} : Goto(pc) /\ (Knows => pc = "select") /\ req.pinned = session.generation
      BY <1>14, <2>2 DEF CheckHead, Running, Knows, Sendable, Pinned, leased
    <3> QED
      BY <1>3, <1>5, <1>14, <3>1 DEF CheckHead, Running, Worker, Quiet, Sendable, world
  <2> QED
    BY <2>1, <2>2
<1>15. CASE fresh_selection
  <2>1. CASE Fail
    BY <1>13, <1>15, <2>1 DEF fresh_selection, Running, Worker, Quiet
  <2>2. CASE Goto("head again")
    BY <1>3, <1>5, <1>15, <2>2 DEF fresh_selection, Running, Worker, Quiet, Sendable, world, Pinned, leased
  <2> QED
    BY <1>15, <2>1, <2>2 DEF fresh_selection
<1>16. CASE StoreFails
  BY <1>2, <1>4, <1>16 DEF StoreFails, Running, Worker
<1>17. CASE verify
  BY <1>2, <1>4, <1>17 DEF verify, Running, Worker, Quiet
<1> QED
  BY <1>6, <1>7, <1>8, <1>9, <1>10, <1>11, <1>12, <1>14, <1>15, <1>16, <1>17 DEF Thinks

\* The request as it is after a step that may send: what may have left is known to it.
LEMMA Acting ==
  ASSUME MaxRequests \in Nat, Types, Pinned, Acts
  PROVE  /\ Running(req.pc) /\ req.pc # "finish" /\ req' \in Reqs /\ req'.id = req.id
         /\ UNCHANGED <<web, reply, pool, notices, world, rows, answers, latest, stale, closing>>
         /\ Pinned' /\ (Knows => Knows' \/ Admits')
         /\ \/ UNCHANGED sends
            \/ /\ sends' = sends \union {[id |-> req.id, generation |-> session.generation, pinned |-> req.pinned]}
               /\ req.pinned = session.generation
               /\ Knows' \/ Admits'
<1>1. req \in Reqs /\ session.generation \in Nat
  BY DEF Types
<1>2. {"not_sent", "uncertain", "already_satisfied"} \subseteq Statuses /\ {"fresh", "verify"} \subseteq Pcs
  BY DEF Statuses, Pcs
<1>3. /\ Running(req.pc) /\ req.pc \in {"control", "mode", "select"} /\ req.pinned = session.generation
      /\ UNCHANGED <<web, reply, pool, notices, world, rows, answers, latest, stale, closing>>
  BY DEF Acts, Control, Mode, Select, Running, Worker, Pinned, leased
<1>4. ASSUME NEW status \in Statuses, Finish(status), status # "not_sent"
      PROVE  req' \in Reqs /\ req'.id = req.id /\ Pinned' /\ Admits'
  BY <1>1, <1>4, Finishing DEF Admits
<1>5. ASSUME Fail
      PROVE  /\ req' \in Reqs /\ req'.id = req.id /\ Pinned'
             /\ (Knows => Knows' \/ Admits')
  BY <1>1, <1>2, <1>5, Finishing DEF Fail, Knows, Admits
<1>6. ASSUME req' = [req EXCEPT !.attempted = TRUE, !.pc = "verify"] \/ req' = [req EXCEPT !.mode = TRUE, !.pc = "fresh"]
      PROVE  req' \in Reqs /\ req'.id = req.id /\ Pinned' /\ Knows'
  <2>1. req' \in Reqs
    BY <1>1, <1>2, <1>6 DEF Reqs
  <2>2. req'.id = req.id /\ req'.pinned = req.pinned /\ req'.pc \in {"verify", "fresh"} /\ (req'.attempted \/ req'.mode)
    BY <1>1, <1>6 DEF Reqs
  <2> QED
    BY <1>3, <2>1, <2>2 DEF Pinned, leased, Knows, Sendable, world
<1>7. ASSUME Goto("fresh"), req.pc = "mode"
      PROVE  req' \in Reqs /\ req'.id = req.id /\ Pinned' /\ ~Knows
  <2>1. req' \in Reqs /\ req'.id = req.id /\ req'.pinned = req.pinned /\ req'.pc = "fresh"
    BY <1>1, <1>2, <1>7, Going DEF Goto
  <2> QED
    BY <1>3, <1>7, <2>1 DEF Pinned, leased, Knows, Sendable, world
<1>8. CASE Control
  BY <1>2, <1>3, <1>4, <1>5, <1>6, <1>8 DEF Control, Send
<1>9. CASE Mode
  BY <1>2, <1>3, <1>4, <1>5, <1>6, <1>7, <1>9 DEF Mode, Send, Running
<1>10. CASE Select
  BY <1>2, <1>3, <1>5, <1>6, <1>10 DEF Select, Send
<1> QED
  BY <1>8, <1>9, <1>10 DEF Acts

\* The two ways to answer, and what the journal has then.
LEMMA Ending ==
  ASSUME MaxRequests \in Nat, Types, Ends
  PROVE  /\ Running(req.pc) /\ ~leased /\ UNCHANGED <<req, web, reply, world, sends, latest, stale, closing>>
         /\ \E status \in Statuses :
              /\ Answer(status)
              /\ \/ status = "uncertain" /\ UNCHANGED rows
                 \/ /\ req.pc = "finish" /\ rows' = [rows EXCEPT ![req.id] = req.status]
                    /\ req.status \in Statuses /\ status \in {req.status, "uncertain"}
<1>1. req.status \in Statuses /\ "uncertain" \in Statuses
  BY DEF Types, Reqs, Statuses
<1>2. CASE Unrecorded
  BY <1>1, <1>2 DEF Unrecorded, Running, Worker, leased
<1>3. CASE Recorded
  BY <1>1, <1>3 DEF Recorded, Running, Worker, leased
<1> QED
  BY <1>2, <1>3 DEF Ends

\* The request in the worker is the one accepted last, and nothing else waits.
LEMMA Current ==
  ASSUME MaxRequests \in Nat, IInv, Running(req.pc)
  PROVE  /\ busy /\ Runs /\ req.id = latest /\ latest \in Ids /\ Len(pool) = 1 /\ Outstanding = Len(notices) + 1
         /\ ~(\E i \in DOMAIN Tail(pool) : Tail(pool)[i] = "dispatch") /\ Tail(pool) = <<>>
         /\ Job(Outstanding) = "dispatch"
<1>1. Types /\ QueueInv /\ CloseInv /\ RequestInv
  BY DEF IInv
<1>2. pool # <<>> /\ Head(pool) = "dispatch"
  BY DEF Running
<1>3. Outstanding = Len(notices) + 1 /\ busy /\ Job(Outstanding) = "dispatch"
  BY <1>1, <1>2, First
<1>4. /\ Len(pool) \in Nat /\ Len(notices) \in Nat /\ Outstanding = Len(notices) + Len(pool) /\ pool \in Seq(Jobs)
      /\ DOMAIN pool = 1..Len(pool)
  BY <1>1, Sizes DEF Types
<1>5. Len(pool) = 1 /\ Outstanding \in 1..Outstanding
  BY <1>3, <1>4
<1>6. req.id = latest /\ latest \in Ids
  BY <1>1, <1>3, <1>5 DEF RequestInv
<1>7. Runs
  <2>1. Head(pool) = pool[1] /\ 1 \in DOMAIN pool
    BY <1>4, <1>5
  <2> QED
    BY <1>2, <2>1 DEF Runs
<1>8. Tail(pool) = <<>>
  <2>1. Tail(pool) \in Seq(Jobs) /\ Len(Tail(pool)) = 0
    BY <1>2, <1>4, <1>5
  <2> QED
    BY <2>1, EmptySeq
<1> QED
  BY <1>3, <1>5, <1>6, <1>7, <1>8

LEMMA Counted == ASSUME MaxRequests \in Nat PROVE Answered \in 0..MaxRequests
<1>1. IsFiniteSet(Ids) /\ Cardinality(Ids) = MaxRequests
  BY FS_Interval DEF Ids
<1>2. {i \in Ids : answers[i] # "none"} \in SUBSET Ids
  OBVIOUS
<1>3. IsFiniteSet({i \in Ids : answers[i] # "none"}) /\ Cardinality({i \in Ids : answers[i] # "none"}) <= MaxRequests
  BY <1>1, <1>2, FS_Subset
<1>4. Cardinality({i \in Ids : answers[i] # "none"}) \in Nat
  BY <1>3, FS_CardinalityType
<1> QED
  BY <1>3, <1>4 DEF Answered

\* The worker's steps, other than its readings and its end.
Working == TraceBegins \/ Thinks \/ Acts \/ Ends

LEMMA Steps ==
  ASSUME Next
  PROVE  Reconnect \/ OtherSync \/ OtherHistory \/ perform \/ Resume \/ poll \/ Reply \/ delivered \/ Speech
         \/ Working \/ Describe \/ Exit \/ Close \/ CloseWaited
BY DEF Next, Works, Working, Thinks, Acts, Ends

\* A step of the worker changes the request, its row, its answer and what has left; a job that
\* is answered is a finished one.
LEMMA Worked ==
  ASSUME MaxRequests \in Nat, IInv, Working
  PROVE  /\ Running(req.pc) /\ req' \in Reqs /\ req'.id = req.id /\ Pinned'
         /\ UNCHANGED <<web, reply, world, latest, stale, closing>> /\ rows' \in [Ids -> Statuses]
         /\ \/ UNCHANGED <<pool, notices, answers>>
            \/ /\ Ends /\ pool' = Tail(pool) /\ \E status \in Statuses : answers' = [answers EXCEPT ![req.id] = status]
               /\ \E n \in Notices : n.job = "dispatch" /\ notices' = Append(notices, n)
<1>1. Types /\ Pinned /\ req \in Reqs /\ rows \in [Ids -> Statuses] /\ "pending" \in Statuses /\ "pin" \in Pcs
  BY DEF IInv, SendInv, Types, Statuses, Pcs
<1>2. CASE TraceBegins
  <2>1. Goto("pin") /\ rows' = [rows EXCEPT ![req.id] = "pending"] /\ Running(req.pc)
    BY <1>2 DEF TraceBegins, Running
  <2>2. req' \in Reqs /\ req'.id = req.id /\ req'.pc = "pin"
    BY <1>1, <2>1, Going DEF Goto
  <2>3. rows' \in [Ids -> Statuses]
    BY <1>1, <2>1
  <2> QED
    BY <1>2, <2>1, <2>2, <2>3 DEF TraceBegins, Worker, Pinned, leased
<1>3. CASE Thinks
  BY <1>1, <1>3, Thinking
<1>4. CASE Acts
  BY <1>1, <1>4, Acting
<1>5. CASE Ends
  <2>1. /\ Running(req.pc) /\ ~leased /\ UNCHANGED <<req, web, reply, world, sends, latest, stale, closing>>
        /\ \E status \in Statuses :
             /\ Answer(status)
             /\ \/ status = "uncertain" /\ UNCHANGED rows
                \/ /\ req.pc = "finish" /\ rows' = [rows EXCEPT ![req.id] = req.status]
                   /\ req.status \in Statuses /\ status \in {req.status, "uncertain"}
    BY <1>1, <1>5, Ending
  <2>2. rows' \in [Ids -> Statuses]
    BY <1>1, <2>1
  <2>3. [job |-> "dispatch", failed |-> FALSE, seen |-> 0] \in Notices
    BY DEF Notices, Told
  <2>4. Pinned'
    BY <2>1 DEF Pinned, leased
  <2> QED
    BY <1>1, <1>5, <2>1, <2>2, <2>3, <2>4 DEF Answer
<1> QED
  BY <1>2, <1>3, <1>4, <1>5 DEF Working

LEMMA TypesStep == ASSUME MaxRequests \in Nat, IInv, [Next]_vars PROVE Types'
<1>0. Types /\ notices \in Seq(Notices) /\ pool \in Seq(Jobs) /\ latest \in 0..MaxRequests /\ head \in Nat
      /\ session \in [generation : Nat, up : BOOLEAN, left : BOOLEAN]
  BY DEF IInv, Types
<1>1. NoReq \in Reqs /\ NoReply \in Speaking
  BY DEF NoReq, Reqs, NoReply, Speaking, Pcs, Statuses
<1>2. \A j \in Jobs : Append(pool, j) \in Seq(Jobs)
  BY <1>0
<1>3. {"dispatch", "describe", "poll", "exit"} = Jobs
  BY DEF Jobs
<1>4. CASE Reconnect \/ OtherSync
  <2>1. session' \in [generation : Nat, up : BOOLEAN, left : BOOLEAN]
    <3>1. \/ session' = session \/ session' = [session EXCEPT !.up = FALSE]
          \/ session' = [session EXCEPT !.up = TRUE, !.generation = @ + 1]
      BY <1>4 DEF Reconnect, OtherSync
    <3>2. session.generation + 1 \in Nat
      BY <1>0
    <3>3. [session EXCEPT !.up = TRUE, !.generation = session.generation + 1] \in [generation : Nat, up : BOOLEAN, left : BOOLEAN]
      BY <1>0, <3>2
    <3>4. [session EXCEPT !.up = FALSE] \in [generation : Nat, up : BOOLEAN, left : BOOLEAN]
      BY <1>0
    <3> QED
      BY <1>0, <3>1, <3>3, <3>4
  <2>2. head' \in Nat
    <3>1. CASE Reconnect
      BY <1>0, <3>1 DEF Reconnect
    <3>2. CASE OtherSync
      BY <1>0, <3>2 DEF OtherSync
    <3> QED
      BY <1>4, <3>1, <3>2
  <2> QED
    BY <1>0, <1>4, <2>1, <2>2 DEF Reconnect, OtherSync, Types, web
<1>5. CASE OtherHistory
  <2>1. rows' \in [Ids -> Statuses]
    BY <1>0, <1>5 DEF OtherHistory, Types, Statuses
  <2> QED
    BY <1>0, <1>5, <2>1 DEF OtherHistory, Types, web, world
<1>6. CASE perform
  <2>1. latest + 1 \in 0..MaxRequests
    BY <1>0, <1>6 DEF perform
  <2>2. PICK kind \in Kinds : req' = [NoReq EXCEPT !.id = latest + 1, !.kind = kind]
    BY <1>6 DEF perform
  <2>3. req' \in Reqs
    BY <1>1, <2>1, <2>2 DEF Reqs
  <2> QED
    BY <1>0, <1>2, <1>3, <1>6, <2>1, <2>3 DEF perform, Types, web, world
<1>7. CASE Resume
  <2>1. Head(notices) \in Notices /\ notices' \in Seq(Notices)
    BY <1>0, <1>7 DEF Resume
  <2>2. Head(notices).seen \in 0..MaxRequests /\ req.id \in 0..MaxRequests
    BY <1>0, <2>1 DEF Notices, Types, Reqs
  <2>3. CASE ResumeDispatch
    BY <1>0, <1>1, <1>2, <1>3, <1>7, <2>1, <2>2, <2>3 DEF Resume, ResumeDispatch, Types, world
  <2>4. CASE ResumeDescribe
    BY <1>0, <1>7, <2>1, <2>2, <2>4 DEF Resume, ResumeDescribe, Types, world
  <2> QED
    BY <1>7, <2>3, <2>4 DEF Resume
<1>8. CASE poll
  BY <1>0, <1>2, <1>3, <1>8 DEF poll, Types, world
<1>9. CASE Reply \/ delivered \/ Speech
  <2>1. reply' \in Speaking
    BY <1>0, <1>1, <1>9 DEF Reply, delivered, Speech, Synthesize, SynthesisFails, Speak, Types, Speaking, Ids
  <2>2. stale' \in BOOLEAN
    BY <1>0, <1>9 DEF Reply, delivered, Speech, Synthesize, SynthesisFails, Speak, Obsolete, Types
  <2> QED
    BY <1>0, <1>9, <2>1, <2>2 DEF Reply, delivered, Speech, Synthesize, SynthesisFails, Speak, loop_rest, web, world, Types
<1>10. CASE Working
  <2>1. /\ Running(req.pc) /\ req' \in Reqs /\ UNCHANGED <<web, reply, world, latest, stale, closing>>
        /\ rows' \in [Ids -> Statuses]
    BY <1>10, Worked
  <2>2. req.id \in Ids
    BY <2>1, Current
  <2>3. answers' \in [Ids -> Statuses] /\ pool' \in Seq(Jobs) /\ notices' \in Seq(Notices)
    <3>1. CASE UNCHANGED <<pool, notices, answers>>
      BY <1>0, <3>1 DEF Types
    <3>2. CASE ~UNCHANGED <<pool, notices, answers>>
      <4>1. /\ pool' = Tail(pool) /\ \E status \in Statuses : answers' = [answers EXCEPT ![req.id] = status]
            /\ \E n \in Notices : notices' = Append(notices, n)
        BY <1>10, <3>2, Worked
      <4>2. Tail(pool) = <<>>
        BY <2>1, Current
      <4>3. answers' \in [Ids -> Statuses]
        BY <1>0, <4>1 DEF Types
      <4>4. pool' \in Seq(Jobs)
        BY <4>1, <4>2, EmptySeq
      <4>5. notices' \in Seq(Notices)
        BY <1>0, <4>1
      <4> QED
        BY <4>3, <4>4, <4>5
    <3> QED
      BY <3>1, <3>2
  <2>4. sends' \subseteq Sends
    <3>1. req.pinned \in Nat /\ session.generation \in Nat /\ sends \subseteq Sends
      BY <1>0 DEF Types, Reqs
    <3>2. sends' = sends \/ sends' = sends \union {[id |-> req.id, generation |-> session.generation, pinned |-> req.pinned]}
      <4>1. Types /\ Pinned
        BY DEF IInv, SendInv
      <4> QED
        BY <1>10, <4>1, Thinking, Acting, Ending DEF Working, TraceBegins, Worker
    <3> QED
      BY <2>2, <3>1, <3>2 DEF Sends
  <2> QED
    BY <1>0, <2>1, <2>3, <2>4 DEF Types, web, world
<1>11. CASE Describe
  <2>1. pool' \in Seq(Jobs)
    BY <1>0, <1>11 DEF Describe
  <2>2. ASSUME NEW failed \in BOOLEAN PROVE [job |-> Head(pool), failed |-> failed, seen |-> Answered] \in Notices
    BY <1>11, Counted DEF Describe, Notices, Told
  <2>3. notices' \in Seq(Notices)
    BY <1>0, <1>11, <2>2 DEF Describe
  <2> QED
    BY <1>0, <1>11, <2>1, <2>3 DEF Describe, Worker, Types, web, world
<1>12. CASE Exit \/ Close
  <2>1. session' \in [generation : Nat, up : BOOLEAN, left : BOOLEAN]
    BY <1>0, <1>12 DEF Exit, Close
  <2>2. (pool # <<>> /\ pool' = Tail(pool)) \/ pool' = pool
    BY <1>12 DEF Exit, Close
  <2>3. pool' \in Seq(Jobs)
    <3>1. pool # <<>> => Tail(pool) \in Seq(Jobs)
      BY <1>0
    <3> QED
      BY <1>0, <2>2, <3>1
  <2> QED
    BY <1>0, <1>12, <2>1, <2>3 DEF Exit, Close, close_rest, Types
<1>13. CASE CloseWaited
  BY <1>0, <1>2, <1>3, <1>13 DEF CloseWaited, close_rest, Types
<1>14. CASE UNCHANGED vars
  BY <1>0, <1>14 DEF vars, Types, web, world
<1> QED
  BY <1>4, <1>5, <1>6, <1>7, <1>8, <1>9, <1>10, <1>11, <1>12, <1>13, <1>14, Steps

\* Jobs that keep their places say the same, unless a dropped reading finishes.
LEMMA SameJobs ==
  ASSUME Types, QueueInv, CloseInv, Outstanding' = Outstanding, \A i \in 1..Outstanding : Job(i)' = Job(i),
         notices' = notices \/ poller # "cancelled" \/ Job(1) # "poll",
         UNCHANGED <<busy, active, poller, closing>>, session'.left = session.left
  PROVE  (QueueInv /\ CloseInv)'
<1>1. Outstanding \in 0..2 /\ (Outstanding > 0 => 1 \in 1..Outstanding /\ Outstanding \in 1..Outstanding)
      /\ (Outstanding = 2 => 2 \in 1..Outstanding)
  BY First
<1>2. Outstanding > 0 => Job(1)' = Job(1) /\ Job(Outstanding)' = Job(Outstanding)
  BY <1>1
<1>3. QueueInv'
  BY <1>1, <1>2 DEF QueueInv
<1>4. CloseInv'
  BY <1>1, <1>2 DEF CloseInv
<1> QED
  BY <1>3, <1>4

LEMMA QueueStep == ASSUME MaxRequests \in Nat, IInv, [Next]_vars PROVE (QueueInv /\ CloseInv)'
<1>0. Types /\ QueueInv /\ CloseInv /\ Outstanding \in 0..2
  BY First DEF IInv
<1>1. ASSUME UNCHANGED <<pool, notices, busy, active, poller, closing>>, session'.left = session.left
      PROVE  (QueueInv /\ CloseInv)'
  BY <1>0, <1>1, Kept, SameJobs
<1>2. CASE Reconnect
  <2>1. session'.left = session.left
    BY <1>0, <1>2 DEF Reconnect, Types
  <2> QED
    BY <1>1, <1>2, <2>1 DEF Reconnect, web
<1>3. CASE OtherSync \/ OtherHistory \/ Reply \/ delivered \/ Speech \/ UNCHANGED vars
  BY <1>1, <1>3 DEF OtherSync, OtherHistory, Reply, delivered, Speech, Synthesize, SynthesisFails, Speak, loop_rest, web, world, vars
<1>4. CASE perform
  <2>1. /\ ~busy /\ busy' /\ active' = "running" /\ closing = "open" /\ UNCHANGED <<poller, notices, closing, session>>
        /\ pool' = Append(pool, "dispatch")
    BY <1>4 DEF perform, world
  <2>2. Outstanding' = Outstanding + 1 /\ Job(Outstanding)' = "dispatch" /\ \A i \in 1..Outstanding : Job(i)' = Job(i)
    BY <1>0, <2>1, Added
  <2>3. Outstanding = 0 \/ (Outstanding = 1 /\ Job(1) = "poll")
    BY <1>0, <2>1 DEF QueueInv, CloseInv
  <2>4. Outstanding = 1 => Job(1)' = "poll"
    BY <2>2, <2>3
  <2>5. QueueInv'
    BY <1>0, <2>1, <2>2, <2>3, <2>4 DEF QueueInv
  <2>6. CloseInv'
    BY <1>0, <2>1, <2>2, <2>3 DEF CloseInv
  <2> QED
    BY <2>5, <2>6
<1>5. CASE Resume
  <2>1. notices # <<>> /\ notices' = Tail(notices) /\ UNCHANGED <<session, closing>>
    BY <1>5 DEF Resume, world
  <2>2. /\ Outstanding > 0 /\ Head(notices).job = Job(1) /\ Head(notices) \in Notices
        /\ Head(notices).job # "poll" => busy /\ Outstanding = 1 /\ pool = <<>>
        /\ Head(notices).job = "poll" => poller = "waiting"
    BY <1>0, <2>1, First
  <2>3. CASE ResumeDispatch
    <3>1. pool' = Append(pool, "describe") /\ UNCHANGED <<busy, active, poller>> /\ Outstanding = 1 /\ pool = <<>> /\ busy
      BY <2>2, <2>3 DEF ResumeDispatch
    <3>2. Len(notices) = 1 /\ notices \in Seq(Notices) /\ pool \in Seq(Jobs) /\ Len(pool) = 0
      BY <1>0, <3>1, Sizes DEF Types
    <3>3. Len(notices') = 0 /\ Len(pool') = 1 /\ pool'[1] = "describe"
      BY <2>1, <3>1, <3>2
    <3>4. Outstanding' = 1 /\ Job(1)' = "describe"
      BY <3>3 DEF Outstanding, Job
    <3>5. QueueInv'
      BY <1>0, <3>1, <3>4 DEF QueueInv
    <3>6. CloseInv'
      BY <1>0, <2>1, <3>1, <3>4 DEF CloseInv
    <3> QED
      BY <3>5, <3>6
  <2>4. CASE ResumeDescribe
    <3>1. Outstanding' = Outstanding - 1 /\ \A i \in 1..(Outstanding - 1) : Job(i)' = Job(i + 1)
      BY <1>0, <2>1, <2>4, Left DEF ResumeDescribe
    <3>2. CASE Head(notices).job = "describe"
      <4>1. busy /\ Outstanding' = 0 /\ ~busy' /\ active' # "running" /\ UNCHANGED <<poller, closing, session>>
        BY <2>1, <2>2, <2>4, <3>1, <3>2 DEF ResumeDescribe
      <4>2. QueueInv'
        BY <4>1 DEF QueueInv
      <4>3. CloseInv'
        BY <1>0, <2>1, <4>1 DEF CloseInv, QueueInv
      <4> QED
        BY <4>2, <4>3
    <3>3. CASE Head(notices).job = "poll"
      <4>1. /\ poller = "waiting" /\ Job(1) = "poll" /\ poller' \in {"dead", "sleeping"}
            /\ UNCHANGED <<busy, active, closing, session>>
        BY <2>1, <2>2, <2>4, <3>3 DEF ResumeDescribe
      <4>2. Outstanding = 2 => Outstanding' = 1 /\ Job(1)' = Job(2)
        BY <3>1
      <4>3. Outstanding = 1 => Outstanding' = 0 /\ ~busy
        BY <1>0, <3>1, <4>1 DEF QueueInv
      <4>4. Outstanding = 2 => Job(2) \in {"dispatch", "exit"} /\ (busy <=> Job(2) = "dispatch")
        BY <1>0 DEF QueueInv
      <4>5. QueueInv'
        BY <1>0, <2>2, <4>1, <4>2, <4>3, <4>4 DEF QueueInv
      <4>6. CloseInv'
        BY <1>0, <2>2, <4>1, <4>2, <4>3, <4>4 DEF CloseInv
      <4> QED
        BY <4>5, <4>6
    <3> QED
      BY <2>4, <3>2, <3>3 DEF ResumeDescribe
  <2> QED
    BY <1>5, <2>3, <2>4 DEF Resume
<1>6. CASE poll
  <2>1. /\ ~busy /\ closing = "open" /\ poller = "sleeping" /\ poller' = "waiting"
        /\ pool' = Append(pool, "poll") /\ UNCHANGED <<busy, active, notices, closing, session>>
    BY <1>6 DEF poll, world
  <2>2. Outstanding = 0
    BY <1>0, <2>1 DEF QueueInv, CloseInv
  <2>3. Outstanding' = 1 /\ Job(1)' = "poll"
    BY <1>0, <2>1, <2>2, Added
  <2>4. QueueInv'
    BY <1>0, <2>1, <2>3 DEF QueueInv
  <2>5. CloseInv'
    BY <1>0, <2>1, <2>3 DEF CloseInv
  <2> QED
    BY <2>4, <2>5
<1>7. CASE Working
  <2>1. Running(req.pc) /\ UNCHANGED <<web, world, closing>>
    BY <1>7, Worked
  <2>2. busy /\ Job(Outstanding) = "dispatch" /\ pool # <<>> /\ Head(pool) = "dispatch"
    BY <2>1, Current DEF Running
  <2>3. CASE UNCHANGED <<pool, notices, answers>>
    BY <1>1, <2>1, <2>3 DEF web, world
  <2>4. CASE ~UNCHANGED <<pool, notices, answers>>
    <3>1. pool' = Tail(pool) /\ \E n \in Notices : n.job = "dispatch" /\ notices' = Append(notices, n)
      BY <1>7, <2>4, Worked
    <3>2. Outstanding' = Outstanding /\ \A i \in 1..Outstanding : Job(i)' = Job(i)
      BY <1>0, <2>2, <3>1, Moved
    <3>3. Job(1) = "poll" => poller = "waiting" \/ notices = <<>>
      BY <1>0, <2>1, Current, Sizes DEF QueueInv
    <3>4. Job(1) = "poll" => notices # <<>>
      BY <1>0, <2>1, <2>2, Current, Sizes
    <3> QED
      BY <1>0, <2>1, <3>2, <3>3, <3>4, SameJobs DEF web, world
  <2> QED
    BY <2>3, <2>4
<1>8. CASE Describe
  <2>1. pool # <<>> /\ Head(pool) \in {"describe", "poll"} /\ pool' = Tail(pool) /\ UNCHANGED <<busy, active, poller, closing, session>>
    BY <1>8 DEF Describe, Worker, web, world
  <2>2. /\ Head(pool) = Job(Len(notices) + 1) /\ (Head(pool) = "poll" => notices = <<>>)
        /\ Head(pool) = "describe" => busy /\ Outstanding = 1
        /\ Len(notices) \in Nat /\ Len(notices) + 1 <= Outstanding /\ (notices = <<>> <=> Len(notices) = 0)
    BY <1>0, <2>1, First, Sizes
  <2>3. CASE Head(pool) = "poll" /\ poller = "cancelled"
    <3>1. notices' = notices /\ notices = <<>> /\ Job(1) = "poll"
      BY <1>8, <2>2, <2>3 DEF Describe
    <3>2. Outstanding > 0 /\ Outstanding' = Outstanding - 1 /\ \A i \in 1..(Outstanding - 1) : Job(i)' = Job(i + 1)
      BY <1>0, <2>1, <3>1, Left
    <3>3. Outstanding = 2 => Outstanding' = 1 /\ Job(1)' = Job(2)
      BY <3>2
    <3>4. Outstanding = 1 => Outstanding' = 0 /\ ~busy
      BY <1>0, <3>1, <3>2 DEF QueueInv
    <3>5. Outstanding = 2 => Job(2) \in {"dispatch", "exit"} /\ (busy <=> Job(2) = "dispatch")
      BY <1>0 DEF QueueInv
    <3>6. QueueInv'
      BY <1>0, <2>1, <3>2, <3>3, <3>4, <3>5 DEF QueueInv
    <3>7. CloseInv'
      BY <1>0, <2>1, <3>1, <3>2, <3>3, <3>4, <3>5 DEF CloseInv
    <3> QED
      BY <3>6, <3>7
  <2>4. CASE ~(Head(pool) = "poll" /\ poller = "cancelled")
    <3>1. \E n : n.job = Head(pool) /\ notices' = Append(notices, n)
      BY <1>8, <2>4 DEF Describe
    <3>2. Outstanding' = Outstanding /\ \A i \in 1..Outstanding : Job(i)' = Job(i)
      BY <1>0, <2>1, <3>1, Moved
    <3>3. poller # "cancelled" \/ Job(1) # "poll"
      BY <1>0, <2>1, <2>2, <2>4
    <3> QED
      BY <1>0, <2>1, <3>2, <3>3, SameJobs
  <2> QED
    BY <2>3, <2>4
<1>9. CASE Exit
  <2>1. /\ pool # <<>> /\ Head(pool) = "exit" /\ pool' = Tail(pool) /\ closing' = "closed" /\ session'.left
        /\ UNCHANGED <<busy, active, poller, notices>>
    BY <1>0, <1>9 DEF Exit, close_rest, Types
  <2>2. ~busy /\ notices = <<>> /\ Outstanding = 1 /\ closing = "exiting"
    BY <1>0, <2>1, First
  <2>3. Outstanding' = 0
    BY <1>0, <2>1, <2>2, Left
  <2>4. QueueInv'
    BY <1>0, <2>1, <2>2, <2>3 DEF QueueInv
  <2>5. CloseInv'
    BY <1>0, <2>1, <2>2, <2>3 DEF CloseInv
  <2> QED
    BY <2>4, <2>5
<1>10. CASE Close
  <2>1. /\ closing = "open" /\ notices = <<>> /\ UNCHANGED <<pool, notices, busy, active>>
        /\ IF poller = "dead" THEN closing' = "aborted" /\ poller' = poller
                              ELSE closing' = "active" /\ poller' = "cancelled"
    BY <1>10 DEF Close, close_rest
  <2>2. Outstanding' = Outstanding /\ \A i : Job(i)' = Job(i)
    BY <2>1, Kept
  <2>3. QueueInv'
    BY <1>0, <2>1, <2>2 DEF QueueInv
  <2>4. CloseInv'
    BY <1>0, <2>1, <2>2 DEF CloseInv
  <2> QED
    BY <2>3, <2>4
<1>11. CASE CloseWaited
  <2>1. closing = "active" /\ active # "running" /\ UNCHANGED <<poller, session, busy, active, notices>>
    BY <1>11 DEF CloseWaited, close_rest
  <2>2. ~busy /\ poller = "cancelled"
    BY <1>0, <2>1 DEF QueueInv, CloseInv
  <2>3. CASE active = "failed" /\ closing' = "aborted" /\ UNCHANGED pool
    <3>1. Outstanding' = Outstanding /\ \A i : Job(i)' = Job(i)
      BY <2>1, <2>3, Kept
    <3>2. QueueInv'
      BY <1>0, <2>1, <3>1 DEF QueueInv
    <3>3. Outstanding > 0 => Job(Outstanding) # "exit"
      BY <1>0, <2>1 DEF CloseInv
    <3>4. CloseInv'
      BY <2>1, <2>3, <3>1, <3>3 DEF CloseInv
    <3> QED
      BY <3>2, <3>4
  <2>4. CASE closing' = "exiting" /\ pool' = Append(pool, "exit")
    <3>1. Outstanding = 0 \/ (Outstanding = 1 /\ Job(1) = "poll" /\ notices = <<>>)
      BY <1>0, <2>1, <2>2 DEF QueueInv, CloseInv
    <3>2. Outstanding' = Outstanding + 1 /\ Job(Outstanding)' = "exit" /\ \A i \in 1..Outstanding : Job(i)' = Job(i)
      BY <1>0, <2>1, <2>4, Added
    <3>3. Outstanding = 1 => Job(1)' = "poll"
      BY <3>1, <3>2
    <3>4. QueueInv'
      BY <1>0, <2>1, <2>2, <3>1, <3>2, <3>3 DEF QueueInv
    <3>5. CloseInv'
      BY <2>1, <2>2, <2>4, <3>1, <3>2 DEF CloseInv
    <3> QED
      BY <3>4, <3>5
  <2> QED
    BY <1>11, <2>3, <2>4 DEF CloseWaited
<1> QED
  BY <1>2, <1>3, <1>4, <1>5, <1>6, <1>7, <1>8, <1>9, <1>10, <1>11, Steps

(* ------------------------- what is said, shown and sent ------------------------ *)

LEMMA SpeechStep == ASSUME MaxRequests \in Nat, IInv, [Next]_vars PROVE SpeechInv'
<1>0. SpeechInv /\ reply_id \in 0..MaxRequests /\ latest \in 0..MaxRequests /\ stale \in BOOLEAN
  BY DEF IInv, Types
<1>1. ASSUME UNCHANGED <<reply_id, reply, latest, stale>> PROVE SpeechInv'
  BY <1>0, <1>1 DEF SpeechInv, reply_busy
<1>2. CASE Reconnect \/ OtherSync \/ OtherHistory \/ poll \/ Describe \/ Exit \/ Close \/ CloseWaited \/ UNCHANGED vars
  BY <1>1, <1>2 DEF Reconnect, OtherSync, OtherHistory, poll, Describe, Worker, Exit, Close, CloseWaited, close_rest, web, vars
<1>3. CASE perform
  BY <1>0, <1>3 DEF perform, SpeechInv, reply_busy
<1>4. CASE Resume
  <2>1. UNCHANGED <<reply, latest, stale>> /\ notices # <<>>
    BY <1>4 DEF Resume
  <2>2. CASE ResumeDispatch
    <3>1. Types /\ QueueInv /\ CloseInv /\ RequestInv
      BY DEF IInv
    <3>2. Head(notices).job = "dispatch" /\ reply_id' = req.id
      BY <2>2 DEF ResumeDispatch
    <3>3. Outstanding = 1 /\ Job(1) = "dispatch"
      BY <2>1, <3>1, <3>2, First
    <3>4. req.id = latest
      BY <3>1, <3>3 DEF RequestInv
    <3> QED
      BY <1>0, <2>1, <3>2, <3>4 DEF SpeechInv, reply_busy
  <2>3. CASE ResumeDescribe
    BY <1>1, <2>1, <2>3 DEF ResumeDescribe
  <2> QED
    BY <1>4, <2>2, <2>3 DEF Resume
<1>5. CASE Reply
  BY <1>0, <1>5 DEF Reply, loop_rest, web, SpeechInv, reply_busy
<1>6. CASE delivered
  <2>1. PICK i \in Ids : i = reply_id /\ Obsolete(i)
    BY <1>6 DEF delivered
  <2>2. ~stale'
    BY <1>0, <2>1 DEF SpeechInv, Obsolete, Ids
  <2> QED
    BY <1>0, <1>6, <2>2 DEF delivered, loop_rest, web, SpeechInv, reply_busy
<1>7. CASE Speech
  <2>1. UNCHANGED <<reply_id, latest>> /\ (reply' # NoReply => reply'.id = reply.id /\ reply_busy)
    <3>1. reply \in Speaking
      BY DEF IInv, Types
    <3>2. CASE Synthesize
      <4>1. reply'.id = reply.id /\ reply_busy
        BY <3>1, <3>2 DEF Synthesize, Speaking, reply_busy
      <4> QED
        BY <3>2, <4>1 DEF Synthesize, loop_rest, web
    <3>3. CASE SynthesisFails \/ Speak
      BY <3>3 DEF SynthesisFails, Speak, loop_rest, web
    <3> QED
      BY <1>7, <3>2, <3>3 DEF Speech
  <2>2. ~stale'
    <3>1. CASE Speak /\ reply.id = reply_id
      <4>1. reply.id \in Ids /\ stale' = (stale \/ reply.id # latest)
        BY <1>0, <3>1 DEF Speak, SpeechInv, reply_busy, Obsolete
      <4> QED
        BY <1>0, <3>1, <4>1 DEF SpeechInv, Ids
    <3>2. CASE ~(Speak /\ reply.id = reply_id)
      BY <1>0, <1>7, <3>2 DEF Speech, Speak, Synthesize, SynthesisFails, SpeechInv
    <3> QED
      BY <3>1, <3>2
  <2>3. reply_busy' => reply'.id \in Ids
    <3>1. NoReply.pc = "none"
      BY DEF NoReply
    <3> QED
      BY <1>0, <2>1, <3>1 DEF SpeechInv, reply_busy
  <2> QED
    BY <1>0, <2>1, <2>2, <2>3 DEF SpeechInv
<1>8. CASE Working
  BY <1>1, <1>8, Worked DEF web
<1> QED
  BY <1>2, <1>3, <1>4, <1>5, <1>6, <1>7, <1>8, Steps

LEMMA ShowStep == ASSUME MaxRequests \in Nat, IInv, [Next]_vars PROVE ShowInv'
<1>0. /\ Types /\ QueueInv /\ CloseInv /\ ShowInv /\ notices \in Seq(Notices) /\ Len(notices) \in Nat
      /\ DOMAIN notices = 1..Len(notices)
  BY Sizes DEF IInv, Types
<1>1. ASSUME UNCHANGED answers PROVE Answered' = Answered
  BY <1>1 DEF Answered
<1>2. ASSUME UNCHANGED <<notices, answers, busy, active, snapshot>> PROVE ShowInv'
  BY <1>0, <1>1, <1>2 DEF ShowInv
<1>3. CASE Reconnect \/ OtherSync \/ OtherHistory \/ poll \/ Reply \/ delivered \/ Speech \/ Exit \/ Close \/ CloseWaited \/ UNCHANGED vars
  BY <1>2, <1>3 DEF Reconnect, OtherSync, OtherHistory, poll, Reply, delivered, Speech, Synthesize, SynthesisFails, Speak,
                    loop_rest, Exit, Close, CloseWaited, close_rest, web, vars
<1>4. CASE perform
  BY <1>0, <1>1, <1>4 DEF perform, ShowInv
<1>5. CASE Resume
  <2>1. notices # <<>> /\ notices' = Tail(notices) /\ UNCHANGED answers
    BY <1>5 DEF Resume
  <2>2. /\ Head(notices) = notices[1] /\ 1 \in DOMAIN notices /\ DOMAIN notices' = 1..(Len(notices) - 1)
        /\ \A i \in 1..(Len(notices) - 1) : notices'[i] = notices[i + 1] /\ i + 1 \in DOMAIN notices
    BY <1>0, <2>1
  <2>3. Head(notices).job # "poll" => busy /\ Len(notices) = 1
    <3>1. Head(notices).job # "poll" => busy /\ Outstanding = 1 /\ pool = <<>>
      BY <1>0, <2>1, First
    <3> QED
      BY <1>0, <3>1, Sizes
  <2>4. CASE ResumeDispatch
    <3>1. busy /\ busy' /\ DOMAIN notices' = {}
      BY <2>2, <2>3, <2>4 DEF ResumeDispatch
    <3> QED
      BY <3>1 DEF ShowInv
  <2>5. CASE ResumeDescribe /\ Head(notices).job = "describe"
    <3>1. DOMAIN notices' = {}
      BY <2>2, <2>3, <2>5
    <3>2. notices[1].seen = Answered
      BY <1>0, <2>2, <2>5 DEF ShowInv
    <3>3. active' = "done" => snapshot' = Answered'
      BY <1>1, <2>1, <2>2, <2>5, <3>2 DEF ResumeDescribe
    <3> QED
      BY <3>1, <3>3 DEF ShowInv
  <2>6. CASE ResumeDescribe /\ Head(notices).job = "poll"
    <3>1. UNCHANGED <<busy, active>> /\ snapshot' \in {snapshot, notices[1].seen}
      BY <2>2, <2>6 DEF ResumeDescribe
    <3>2. ~busy => notices[1].seen = Answered
      BY <1>0, <2>2 DEF ShowInv
    <3> QED
      BY <1>0, <1>1, <2>1, <2>2, <3>1, <3>2 DEF ShowInv
  <2> QED
    BY <1>5, <2>4, <2>5, <2>6 DEF Resume, ResumeDescribe
<1>6. CASE Working
  <2>1. Running(req.pc) /\ UNCHANGED web
    BY <1>6, Worked
  <2>2. busy /\ pool # <<>> /\ Head(pool) = "dispatch" /\ Outstanding = Len(notices) + 1 /\ Job(Outstanding) = "dispatch"
    BY <2>1, Current DEF Running
  <2>3. CASE UNCHANGED <<pool, notices, answers>>
    BY <1>2, <2>1, <2>3 DEF web
  <2>4. CASE ~UNCHANGED <<pool, notices, answers>>
    <3>1. PICK n \in Notices : n.job = "dispatch" /\ notices' = Append(notices, n)
      BY <1>6, <2>4, Worked
    <3>2. /\ DOMAIN notices' = 1..(Len(notices) + 1) /\ notices'[Len(notices) + 1] = n
          /\ \A i \in 1..Len(notices) : notices'[i] = notices[i]
      BY <1>0, <3>1
    <3>3. \A i \in 1..Len(notices) : notices[i].job # "describe"
      <4>1. Len(notices) = 0 \/ (Len(notices) = 1 /\ Job(1) = "poll")
        BY <1>0, <2>2 DEF QueueInv
      <4>2. \A i \in 1..Len(notices) : notices[i].job = Job(i)
        BY <1>0, Sizes
      <4> QED
        BY <4>1, <4>2
    <3>4. \A i \in DOMAIN notices' : notices'[i].job # "describe"
      BY <1>0, <3>1, <3>2, <3>3
    <3> QED
      BY <2>1, <2>2, <3>4 DEF ShowInv, web
  <2> QED
    BY <2>3, <2>4
<1>7. CASE Describe
  <2>1. UNCHANGED <<busy, active, snapshot, answers>>
    BY <1>7 DEF Describe, Worker, web
  <2>2. CASE UNCHANGED notices
    BY <1>2, <2>1, <2>2
  <2>3. CASE ~UNCHANGED notices
    <3>1. PICK n : n.seen = Answered /\ notices' = Append(notices, n)
      BY <1>7, <2>3 DEF Describe
    <3>2. /\ DOMAIN notices' = 1..(Len(notices) + 1) /\ notices'[Len(notices) + 1] = n
          /\ \A i \in 1..Len(notices) : notices'[i] = notices[i]
      BY <1>0, <3>1
    <3> QED
      BY <1>0, <1>1, <2>1, <3>1, <3>2 DEF ShowInv
  <2> QED
    BY <2>2, <2>3
<1> QED
  BY <1>3, <1>4, <1>5, <1>6, <1>7, Steps

LEMMA RequestStep == ASSUME MaxRequests \in Nat, IInv, [Next]_vars PROVE RequestInv'
<1>0. /\ Types /\ QueueInv /\ CloseInv /\ RequestInv /\ Outstanding \in 0..2 /\ latest \in 0..MaxRequests
      /\ pool \in Seq(Jobs) /\ Len(pool) \in Nat /\ DOMAIN pool = 1..Len(pool)
      /\ rows \in [Ids -> Statuses] /\ answers \in [Ids -> Statuses]
  BY First, Sizes DEF IInv, Types
<1>1. ASSUME \/ pool' = pool \/ (pool # <<>> /\ pool' = Tail(pool))
             \/ \E j \in Jobs : j # "dispatch" /\ pool' = Append(pool, j)
      PROVE  Runs' => Runs
  <2>1. CASE pool' = pool
    BY <2>1 DEF Runs
  <2>2. CASE pool # <<>> /\ pool' = Tail(pool)
    <3>1. DOMAIN pool' = 1..(Len(pool) - 1) /\ \A i \in 1..(Len(pool) - 1) : pool'[i] = pool[i + 1] /\ i + 1 \in DOMAIN pool
      BY <1>0, <2>2
    <3> QED
      BY <3>1 DEF Runs
  <2>3. ASSUME NEW j \in Jobs, j # "dispatch", pool' = Append(pool, j) PROVE Runs' => Runs
    <3>1. /\ DOMAIN pool' = 1..(Len(pool) + 1) /\ pool'[Len(pool) + 1] = j
          /\ \A i \in 1..Len(pool) : pool'[i] = pool[i]
      BY <1>0, <2>3
    <3> QED
      BY <1>0, <2>3, <3>1 DEF Runs
  <2> QED
    BY <1>1, <2>1, <2>2, <2>3
<1>2. ASSUME UNCHANGED <<req, rows, answers, latest>>, Runs' => Runs,
             \A i \in 1..Outstanding' : Job(i)' = "dispatch" => \E j \in 1..Outstanding : Job(j) = "dispatch"
      PROVE  RequestInv'
  BY <1>0, <1>2 DEF RequestInv
<1>3. ASSUME UNCHANGED <<req, rows, answers, latest, pool, notices>> PROVE RequestInv'
  <2>1. Outstanding' = Outstanding /\ \A i : Job(i)' = Job(i)
    BY <1>3, Kept
  <2>2. Runs' => Runs
    BY <1>3 DEF Runs
  <2>3. \A i \in 1..Outstanding' : Job(i)' = "dispatch" => \E j \in 1..Outstanding : Job(j) = "dispatch"
    BY <2>1
  <2> QED
    BY <1>2, <1>3, <2>2, <2>3
<1>4. CASE Reconnect \/ OtherSync \/ Reply \/ delivered \/ Speech \/ Close \/ UNCHANGED vars
  BY <1>3, <1>4 DEF Reconnect, OtherSync, Reply, delivered, Speech, Synthesize, SynthesisFails, Speak, loop_rest, Close, close_rest, vars
<1>5. CASE OtherHistory
  <2>1. UNCHANGED <<req, answers, latest, pool, notices>> /\ \A i \in Ids : rows'[i] \in {rows[i], "none"}
    BY <1>5 DEF OtherHistory
  <2>2. Outstanding' = Outstanding /\ (\A i : Job(i)' = Job(i)) /\ (Runs' <=> Runs)
    BY <2>1, Kept DEF Runs
  <2>3. Runs => req.id \in Ids
    BY <1>0, Sizes DEF Runs, RequestInv
  <2> QED
    BY <1>0, <2>1, <2>2, <2>3 DEF RequestInv
<1>6. CASE perform
  <2>1. /\ ~busy /\ latest' = latest + 1 /\ latest + 1 \in Ids /\ UNCHANGED <<rows, answers, notices>>
        /\ pool' = Append(pool, "dispatch") /\ req'.id = latest + 1
    BY <1>0, <1>6 DEF perform, Ids, NoReq
  <2>2. answers[latest + 1] = "none" /\ rows[latest + 1] = "none"
    BY <1>0, <2>1 DEF RequestInv
  <2> QED
    BY <1>0, <2>1, <2>2 DEF RequestInv
<1>7. CASE Resume
  <2>1. notices # <<>> /\ notices' = Tail(notices) /\ UNCHANGED <<rows, answers, latest>>
    BY <1>7 DEF Resume
  <2>2. CASE ResumeDispatch
    <3>1. Outstanding = 1 /\ pool = <<>>
      BY <1>0, <2>1, <2>2, First DEF ResumeDispatch
    <3>2. pool' = Append(pool, "describe") /\ Len(pool) = 0 /\ Len(notices) = 1 /\ notices \in Seq(Notices)
      BY <1>0, <2>2, <3>1, Sizes DEF ResumeDispatch, Types
    <3>3. Len(pool') = 1 /\ pool'[1] = "describe" /\ DOMAIN pool' = 1..1 /\ Len(notices') = 0
      BY <1>0, <2>1, <3>2
    <3>4. ~Runs' /\ Outstanding' = 1 /\ Job(1)' = "describe"
      BY <3>3 DEF Runs, Outstanding, Job
    <3> QED
      BY <1>0, <2>1, <3>4 DEF RequestInv
  <2>3. CASE ResumeDescribe
    <3>1. UNCHANGED <<pool, req>>
      BY <2>3 DEF ResumeDescribe
    <3>2. Outstanding' = Outstanding - 1 /\ \A i \in 1..(Outstanding - 1) : Job(i)' = Job(i + 1) /\ i + 1 \in 1..Outstanding
      BY <1>0, <2>1, <3>1, Left
    <3>3. \A i \in 1..Outstanding' : Job(i)' = "dispatch" => \E j \in 1..Outstanding : Job(j) = "dispatch"
      BY <1>0, <3>2
    <3>4. Runs' => Runs
      BY <3>1 DEF Runs
    <3> QED
      BY <1>2, <2>1, <3>1, <3>3, <3>4
  <2> QED
    BY <1>7, <2>2, <2>3 DEF Resume
<1>8. ASSUME NEW j \in {"poll", "exit"}, pool' = Append(pool, j), UNCHANGED <<notices, req, rows, answers, latest>> PROVE RequestInv'
  <2>1. Outstanding' = Outstanding + 1 /\ Job(Outstanding)' = j /\ \A i \in 1..Outstanding : Job(i)' = Job(i)
    BY <1>0, <1>8, Added
  <2>2. \A i \in 1..Outstanding' : Job(i)' = "dispatch" => Job(i) = "dispatch" /\ i \in 1..Outstanding
    BY <1>0, <2>1
  <2> QED
    BY <1>1, <1>2, <1>8, <2>2 DEF Jobs
<1>9. CASE poll \/ CloseWaited
  BY <1>3, <1>8, <1>9 DEF poll, CloseWaited, close_rest
<1>10. CASE Working
  <2>1. /\ Running(req.pc) /\ req'.id = req.id /\ UNCHANGED latest /\ rows' \in [Ids -> Statuses]
    BY <1>10, Worked
  <2>2. /\ Runs /\ req.id = latest /\ latest \in Ids
        /\ pool # <<>> /\ Head(pool) = "dispatch" /\ Tail(pool) = <<>>
    BY <2>1, Current DEF Running
  <2>3. CASE Ends
    <3>1. \E status \in Statuses : /\ Answer(status)
                                   /\ rows' = rows \/ rows' = [rows EXCEPT ![req.id] = req.status]
      BY <1>0, <2>3, Ending
    <3>2. pool' = <<>> /\ \E n : n.job = "dispatch" /\ notices' = Append(notices, n)
      BY <2>2, <3>1 DEF Answer
    <3>3. Outstanding' = Outstanding /\ \A i \in 1..Outstanding : Job(i)' = Job(i)
      BY <1>0, <2>2, <3>2, Moved
    <3>4. ~Runs'
      BY <3>2 DEF Runs
    <3>5. \A i \in Ids : i > latest => answers'[i] = answers[i] /\ rows'[i] = rows[i]
      BY <1>0, <2>2, <3>1 DEF Answer, Ids
    <3> QED
      BY <1>0, <2>1, <3>3, <3>4, <3>5 DEF RequestInv
  <2>4. CASE ~Ends
    <3>1. UNCHANGED <<pool, notices, answers>>
      BY <1>10, <2>4, Worked
    <3>2. Outstanding' = Outstanding /\ (\A i : Job(i)' = Job(i)) /\ (Runs' <=> Runs)
      BY <3>1, Kept DEF Runs
    <3>3. rows' = rows \/ rows' = [rows EXCEPT ![req.id] = "pending"]
      <4>1. Pinned
        BY DEF IInv, SendInv
      <4> QED
        BY <1>0, <1>10, <2>4, <4>1, Thinking, Acting DEF Working, TraceBegins
    <3>4. \A i \in Ids : i > latest => rows'[i] = rows[i]
      BY <1>0, <2>2, <3>3 DEF Ids
    <3>5. rows'[req.id] \in {"none", "pending"}
      BY <1>0, <2>2, <3>3 DEF RequestInv
    <3> QED
      BY <1>0, <2>1, <3>1, <3>2, <3>4, <3>5 DEF RequestInv
  <2> QED
    BY <2>3, <2>4
<1>11. CASE Describe
  <2>1. pool # <<>> /\ pool' = Tail(pool) /\ UNCHANGED <<req, rows, answers, latest>> /\ Head(pool) \in {"describe", "poll"}
    BY <1>11 DEF Describe, Worker
  <2>2. CASE UNCHANGED notices
    <3>1. Head(pool) = "poll"
      <4>1. \A n : Append(notices, n) # notices
        <5>1. notices \in Seq(Notices)
          BY <1>0 DEF Types
        <5> QED
          BY <5>1
      <4> QED
        BY <1>11, <2>2, <4>1 DEF Describe
    <3>2. notices = <<>>
      BY <1>0, <2>1, <3>1, First
    <3>3. Outstanding > 0 /\ Outstanding' = Outstanding - 1 /\ \A i \in 1..(Outstanding - 1) : Job(i)' = Job(i + 1)
      BY <1>0, <2>1, <2>2, <3>2, Left
    <3> QED
      BY <1>0, <1>1, <1>2, <2>1, <3>3
  <2>3. CASE ~UNCHANGED notices
    <3>1. \E n : n.job = Head(pool) /\ notices' = Append(notices, n)
      BY <1>11, <2>3 DEF Describe
    <3>2. Outstanding' = Outstanding /\ \A i \in 1..Outstanding : Job(i)' = Job(i)
      BY <1>0, <2>1, <3>1, Moved
    <3> QED
      BY <1>1, <1>2, <2>1, <3>2
  <2> QED
    BY <2>2, <2>3
<1>12. CASE Exit
  <2>1. pool # <<>> /\ Head(pool) = "exit" /\ pool' = Tail(pool) /\ UNCHANGED <<req, rows, answers, latest, notices>>
    BY <1>12 DEF Exit, close_rest
  <2>2. notices = <<>> /\ Outstanding = 1
    BY <1>0, <2>1, First
  <2>3. Outstanding' = 0
    BY <1>0, <2>1, <2>2, Left
  <2> QED
    BY <1>1, <1>2, <2>1, <2>3
<1> QED
  BY <1>4, <1>5, <1>6, <1>7, <1>9, <1>10, <1>11, <1>12, Steps

LEMMA SendStep == ASSUME MaxRequests \in Nat, IInv, [Next]_vars PROVE SendInv'
<1>0. /\ Types /\ QueueInv /\ CloseInv /\ RequestInv /\ SendInv /\ latest \in 0..MaxRequests /\ sends \subseteq Sends
      /\ pool \in Seq(Jobs) /\ Len(pool) \in Nat /\ DOMAIN pool = 1..Len(pool)
  BY Sizes DEF IInv, Types
<1>1. ASSUME UNCHANGED <<req, sends, latest>>, Pinned', Runs' => Runs PROVE SendInv'
  BY <1>0, <1>1 DEF SendInv, Knows, Admits
<1>2. ASSUME UNCHANGED <<req, session>> PROVE Pinned'
  BY <1>0, <1>2 DEF SendInv, Pinned, leased
<1>3. ASSUME pool # <<>>, pool' = Tail(pool) PROVE Runs' => Runs
  <2>1. DOMAIN pool' = 1..(Len(pool) - 1) /\ \A i \in 1..(Len(pool) - 1) : pool'[i] = pool[i + 1] /\ i + 1 \in DOMAIN pool
    BY <1>0, <1>3
  <2> QED
    BY <2>1 DEF Runs
<1>4. ASSUME NEW j, j # "dispatch", pool' = Append(pool, j) PROVE Runs' => Runs
  <2>1. DOMAIN pool' = 1..(Len(pool) + 1) /\ pool'[Len(pool) + 1] = j /\ \A i \in 1..Len(pool) : pool'[i] = pool[i]
    BY <1>0, <1>4
  <2> QED
    BY <1>0, <1>4, <2>1 DEF Runs
<1>5. ASSUME UNCHANGED pool PROVE Runs' => Runs
  BY <1>5 DEF Runs
<1>6. CASE OtherSync \/ OtherHistory \/ Reply \/ delivered \/ Speech \/ Close \/ UNCHANGED vars
  <2>1. UNCHANGED <<req, session, sends, latest, pool>>
    BY <1>6 DEF OtherSync, OtherHistory, Reply, delivered, Speech, Synthesize, SynthesisFails, Speak, loop_rest, Close, close_rest, world, vars
  <2> QED
    BY <1>1, <1>2, <1>5, <2>1
<1>7. CASE Reconnect
  <2>1. UNCHANGED <<req, sends, latest, pool>> /\ (leased => session'.generation = session.generation)
    BY <1>0, <1>7 DEF Reconnect, Types
  <2>2. Pinned'
    BY <1>0, <2>1 DEF SendInv, Pinned, leased
  <2> QED
    BY <1>1, <1>5, <2>1, <2>2
<1>8. CASE perform
  <2>1. latest' = latest + 1 /\ UNCHANGED sends /\ req'.id = latest + 1 /\ req'.pc = "none"
    BY <1>8 DEF perform, NoReq
  <2>2. \A s \in sends : s.id <= latest + 1 /\ s.id # latest + 1 /\ s.generation = s.pinned
    BY <1>0 DEF SendInv, Sends, Ids
  <2>3. Pinned'
    BY <2>1 DEF Pinned, leased
  <2> QED
    BY <2>1, <2>2, <2>3 DEF SendInv
<1>9. CASE Resume
  <2>1. UNCHANGED <<session, sends, latest>> /\ notices # <<>>
    BY <1>9 DEF Resume, world
  <2>2. CASE ResumeDispatch
    <3>1. pool = <<>> /\ pool' = Append(pool, "describe") /\ req' = NoReq
      BY <1>0, <2>1, <2>2, First DEF ResumeDispatch
    <3>2. Pinned' /\ (Runs' => Runs)
      BY <1>4, <3>1 DEF Pinned, leased, NoReq
    <3>3. ~Runs
      BY <3>1 DEF Runs
    <3> QED
      BY <1>0, <2>1, <3>2, <3>3 DEF SendInv
  <2>3. CASE ResumeDescribe
    BY <1>1, <1>2, <1>5, <2>1, <2>3 DEF ResumeDescribe
  <2> QED
    BY <1>9, <2>2, <2>3 DEF Resume
<1>10. CASE poll
  BY <1>1, <1>2, <1>4, <1>10 DEF poll, world
<1>11. CASE Working
  <2>1. Running(req.pc) /\ req'.id = req.id /\ Pinned' /\ UNCHANGED latest
    BY <1>11, Worked
  <2>2. Runs /\ req.id = latest /\ latest \in Ids /\ Tail(pool) = <<>>
    BY <2>1, Current
  <2>3. CASE Ends
    <3>1. UNCHANGED <<req, sends>> /\ pool' = Tail(pool)
      BY <1>0, <2>3, Ending DEF Answer
    <3>2. ~Runs'
      BY <2>2, <3>1 DEF Runs
    <3> QED
      BY <1>1, <2>1, <3>1, <3>2
  <2>4. CASE Thinks
    <3>1. UNCHANGED <<pool, sends>> /\ req.pc # "finish" /\ (Knows => Knows' \/ Admits')
      BY <1>0, <2>4, Thinking DEF SendInv
    <3>2. \A s \in sends : s.id = req.id => Knows' \/ Admits'
      BY <1>0, <2>2, <3>1 DEF SendInv, Admits
    <3> QED
      BY <1>0, <2>1, <3>1, <3>2 DEF SendInv
  <2>5. CASE TraceBegins
    <3>1. UNCHANGED sends /\ req.pc = "none"
      BY <2>5 DEF TraceBegins, Worker, Running
    <3>2. \A s \in sends : s.id # req.id
      BY <1>0, <2>2, <3>1 DEF SendInv, Admits, Knows, Sendable
    <3> QED
      BY <1>0, <2>1, <3>1, <3>2 DEF SendInv
  <2>6. CASE Acts
    <3>1. /\ req.pc # "finish" /\ (Knows => Knows' \/ Admits')
          /\ \/ UNCHANGED sends
             \/ /\ sends' = sends \union {[id |-> req.id, generation |-> session.generation, pinned |-> req.pinned]}
                /\ req.pinned = session.generation /\ (Knows' \/ Admits')
      BY <1>0, <2>6, Acting DEF SendInv
    <3>2. \A s \in sends : s.id = req.id => Knows' \/ Admits'
      BY <1>0, <2>2, <3>1 DEF SendInv, Admits
    <3>3. CASE UNCHANGED sends
      BY <1>0, <2>1, <3>2, <3>3 DEF SendInv
    <3>4. CASE ~UNCHANGED sends
      <4>1. \A s \in sends' : s.generation = s.pinned /\ s.id <= latest
        BY <1>0, <2>2, <3>1, <3>4 DEF SendInv
      <4> QED
        BY <2>1, <3>1, <3>4, <4>1 DEF SendInv
    <3> QED
      BY <3>3, <3>4
  <2> QED
    BY <1>11, <2>3, <2>4, <2>5, <2>6 DEF Working
<1>12. CASE Describe
  BY <1>1, <1>2, <1>3, <1>12 DEF Describe, Worker, world
<1>13. CASE Exit
  <2>1. UNCHANGED <<req, sends, latest>> /\ session'.generation = session.generation /\ (Runs' => Runs)
    BY <1>0, <1>3, <1>13 DEF Exit, close_rest, Types
  <2>2. Pinned'
    BY <1>0, <2>1 DEF SendInv, Pinned, leased
  <2> QED
    BY <1>1, <2>1, <2>2
<1>14. CASE CloseWaited
  BY <1>1, <1>2, <1>4, <1>5, <1>14 DEF CloseWaited, close_rest
<1> QED
  BY <1>6, <1>7, <1>8, <1>9, <1>10, <1>11, <1>12, <1>13, <1>14, Steps

LEMMA AnswerStep == ASSUME MaxRequests \in Nat, IInv, [Next]_vars PROVE NotSentIsTrue' /\ JournalAgrees'
<1>0. /\ Types /\ RequestInv /\ SendInv /\ Pinned /\ NotSentIsTrue /\ JournalAgrees /\ sends \subseteq Sends
      /\ rows \in [Ids -> Statuses] /\ answers \in [Ids -> Statuses] /\ latest \in 0..MaxRequests
  BY DEF IInv, Types, SendInv
<1>1. ASSUME UNCHANGED <<sends, answers>>, \A i \in Ids : rows'[i] \in {rows[i], "none", "pending"}
      PROVE  NotSentIsTrue' /\ JournalAgrees'
  <2>1. \A s \in sends : s.id \in Ids
    BY <1>0 DEF Sends
  <2>2. NotSentIsTrue'
    BY <1>0, <1>1, <2>1 DEF NotSentIsTrue
  <2>3. JournalAgrees'
    BY <1>0, <1>1 DEF JournalAgrees
  <2> QED
    BY <2>2, <2>3
<1>2. CASE Reconnect \/ OtherSync \/ perform \/ Resume \/ poll \/ Reply \/ delivered \/ Speech \/ Describe \/ Exit \/ Close
           \/ CloseWaited \/ UNCHANGED vars
  <2>1. UNCHANGED <<sends, answers, rows>>
    BY <1>2 DEF Reconnect, OtherSync, perform, Resume, poll, Reply, delivered, Speech, Synthesize, SynthesisFails, Speak, loop_rest,
                Describe, Worker, Exit, Close, CloseWaited, close_rest, vars
  <2> QED
    BY <1>1, <2>1
<1>3. CASE OtherHistory
  <2>1. UNCHANGED <<sends, answers>> /\ \A i \in Ids : rows'[i] \in {rows[i], "none"}
    BY <1>3 DEF OtherHistory
  <2> QED
    BY <1>1, <2>1
<1>4. CASE Working
  <2>1. Running(req.pc)
    BY <1>4, Worked
  <2>2. Runs /\ req.id = latest /\ latest \in Ids
    BY <2>1, Current
  <2>3. CASE TraceBegins
    <3>1. UNCHANGED <<sends, answers>> /\ rows' = [rows EXCEPT ![req.id] = "pending"]
      BY <2>3 DEF TraceBegins, Worker
    <3> QED
      BY <1>0, <1>1, <3>1
  <2>4. CASE Thinks
    BY <1>0, <1>1, <2>4, Thinking
  <2>5. CASE Acts
    <3>1. /\ UNCHANGED <<answers, rows>>
          /\ \/ UNCHANGED sends
             \/ \E g, p : sends' = sends \union {[id |-> req.id, generation |-> g, pinned |-> p]}
      BY <1>0, <2>5, Acting
    <3>2. answers[req.id] # "not_sent" /\ rows[req.id] # "not_sent"
      BY <1>0, <2>2 DEF RequestInv
    <3>3. NotSentIsTrue'
      BY <1>0, <3>1, <3>2 DEF NotSentIsTrue
    <3> QED
      BY <1>0, <3>1, <3>3 DEF JournalAgrees
  <2>6. CASE Ends
    <3>1. UNCHANGED <<req, sends>>
      BY <1>0, <2>6, Ending
    <3>2. PICK status \in Statuses : /\ Answer(status)
                                     /\ \/ status = "uncertain" /\ UNCHANGED rows
                                        \/ /\ req.pc = "finish" /\ rows' = [rows EXCEPT ![req.id] = req.status]
                                           /\ req.status \in Statuses /\ status \in {req.status, "uncertain"}
      BY <1>0, <2>6, Ending
    <3>3. /\ answers'[req.id] = status /\ \A i \in Ids : i # req.id => answers'[i] = answers[i] /\ rows'[i] = rows[i]
          /\ \/ rows'[req.id] = rows[req.id] /\ status = "uncertain"
             \/ rows'[req.id] = req.status /\ status \in {req.status, "uncertain"}
      BY <1>0, <2>2, <3>2 DEF Answer
    <3>4. \A s \in sends : s.id = req.id => rows'[req.id] # "not_sent" /\ status # "not_sent"
      <4>1. rows[req.id] # "not_sent"
        BY <1>0, <2>2 DEF RequestInv
      <4>2. req.pc = "finish" /\ req.status = "not_sent" => \A s \in sends : s.id # req.id
        BY <1>0, <2>2 DEF SendInv, Knows, Admits, Sendable
      <4> QED
        BY <1>0, <2>2, <3>2, <3>3, <4>1, <4>2
    <3>5. NotSentIsTrue'
      <4>1. \A s \in sends : s.id \in Ids
        BY <1>0 DEF Sends
      <4> QED
        BY <1>0, <3>1, <3>3, <3>4, <4>1 DEF NotSentIsTrue
    <3>6. JournalAgrees'
      BY <1>0, <3>3 DEF JournalAgrees
    <3> QED
      BY <3>5, <3>6
  <2> QED
    BY <1>4, <2>3, <2>4, <2>5, <2>6 DEF Working
<1> QED
  BY <1>2, <1>3, <1>4, Steps

(* ----------------------------------- theorems --------------------------------- *)

LEMMA InitInv == ASSUME MaxRequests \in Nat, Init PROVE IInv
<1>1. NoReq \in Reqs /\ NoReply \in Speaking /\ NoReply.pc = "none" /\ NoReq.pc = "none"
  BY DEF NoReq, Reqs, NoReply, Speaking, Pcs, Statuses
<1>2. \A i \in Ids : answers[i] = "none" /\ rows[i] = "none"
  BY DEF Init
<1>3. Answered = 0
  <2>1. {i \in Ids : answers[i] # "none"} = {}
    BY <1>2
  <2> QED
    BY <2>1, FS_EmptySet DEF Answered
<1>4. pool = <<>> /\ notices = <<>> /\ Len(pool) = 0 /\ Len(notices) = 0 /\ Outstanding = 0
  BY DEF Init, Outstanding
<1>5. ~Runs /\ ~leased
  BY <1>1, <1>4 DEF Runs, leased, Init
<1>6. Types
  <2>1. rows \in [Ids -> Statuses] /\ answers \in [Ids -> Statuses]
    BY DEF Init, Statuses
  <2>2. pool \in Seq(Jobs) /\ notices \in Seq(Notices)
    BY <1>4, EmptySeq
  <2>3. session \in [generation : Nat, up : BOOLEAN, left : BOOLEAN] /\ head \in Nat
    BY DEF Init
  <2>4. sends \subseteq Sends /\ reply \in Speaking /\ req \in Reqs
    BY <1>1 DEF Init
  <2>5. reply_id \in 0..MaxRequests /\ snapshot \in 0..MaxRequests /\ latest \in 0..MaxRequests
    BY DEF Init
  <2>6. /\ busy \in BOOLEAN /\ stale \in BOOLEAN /\ active \in {"none", "running", "done", "failed"}
        /\ poller \in {"sleeping", "waiting", "dead", "cancelled"}
        /\ closing \in {"open", "active", "exiting", "closed", "aborted"}
    BY DEF Init
  <2> QED
    BY <2>1, <2>2, <2>3, <2>4, <2>5, <2>6 DEF Types
<1>7. QueueInv /\ CloseInv
  BY <1>4 DEF QueueInv, CloseInv, Init
<1>8. SpeechInv /\ ShowInv
  BY <1>1, <1>3, <1>4 DEF SpeechInv, ShowInv, reply_busy, Init
<1>9. RequestInv /\ SendInv
  BY <1>2, <1>4, <1>5 DEF RequestInv, SendInv, Pinned, Init
<1>10. NotSentIsTrue /\ JournalAgrees
  BY <1>2 DEF NotSentIsTrue, JournalAgrees, Init
<1> QED
  BY <1>6, <1>7, <1>8, <1>9, <1>10 DEF IInv

LEMMA StepInv == ASSUME MaxRequests \in Nat, IInv, [Next]_vars PROVE IInv'
BY TypesStep, QueueStep, SpeechStep, ShowStep, RequestStep, SendStep, AnswerStep DEF IInv

LEMMA IsSafe ==
  ASSUME MaxRequests \in Nat, IInv
  PROVE  /\ TypeOK /\ SpeechIsLatest /\ IdleIsIdle /\ SentWherePinned /\ NotSentIsTrue /\ JournalAgrees
         /\ ShowsLastWork /\ CloseLeavesSession
<1>0. /\ Types /\ QueueInv /\ CloseInv /\ Outstanding \in 0..2 /\ Len(pool) \in Nat /\ Len(notices) \in Nat
      /\ DOMAIN pool = 1..Len(pool) /\ Outstanding = Len(notices) + Len(pool) /\ (pool = <<>> <=> Len(pool) = 0)
      /\ \A i \in 1..Len(pool) : Job(Len(notices) + i) = pool[i] /\ Len(notices) + i \in 1..Outstanding
  BY First, Sizes DEF IInv
<1>1. TypeOK
  <2>1. \A i, j \in DOMAIN pool : pool[i] = "dispatch" /\ pool[j] = "dispatch" => i = j
    <3>1. \A i \in 1..Outstanding : Job(i) = "dispatch" => i = Outstanding
      BY <1>0 DEF QueueInv
    <3> QED
      BY <1>0, <3>1
  <2> DEFINE D == {i \in DOMAIN pool : pool[i] = "dispatch"}
  <2>2. Cardinality(D) <= 1
    <3>1. CASE D = {}
      BY <3>1, FS_EmptySet
    <3>2. CASE D # {}
      <4>1. PICK i : D = {i}
        BY <2>1, <3>2
      <4> QED
        BY <4>1, FS_Singleton
    <3> QED
      BY <3>1, <3>2
  <2> QED
    BY <1>0, <2>2 DEF TypeOK, Types
<1>2. IdleIsIdle
  <2>1. ~busy => \A i \in 1..Outstanding : Job(i) # "dispatch"
    BY <1>0 DEF QueueInv
  <2> QED
    BY <1>0, <2>1 DEF IdleIsIdle
<1>3. CloseLeavesSession
  BY <1>0 DEF CloseLeavesSession, CloseInv
<1>4. SpeechIsLatest /\ SentWherePinned /\ NotSentIsTrue /\ JournalAgrees /\ ShowsLastWork
  BY DEF IInv, SpeechInv, SpeechIsLatest, SendInv, SentWherePinned, ShowInv, ShowsLastWork
<1> QED
  BY <1>1, <1>2, <1>3, <1>4

\* Whatever the bounds are: the state shown, the speech, the journal and the answers are true, commands
\* leave on the connection the user had, and close() leaves the session with nothing on its way
\* (web/server.py, application.py, playback.py).
THEOREM AssistantIsSafe ==
  ASSUME MaxRequests \in Nat
  PROVE  Spec => [](/\ TypeOK /\ SpeechIsLatest /\ IdleIsIdle /\ SentWherePinned /\ NotSentIsTrue /\ JournalAgrees
                    /\ ShowsLastWork /\ CloseLeavesSession)
<1>1. Init => IInv
  BY InitInv
<1>2. IInv /\ [Next]_vars => IInv'
  BY StepInv
<1>3. IInv => /\ TypeOK /\ SpeechIsLatest /\ IdleIsIdle /\ SentWherePinned /\ NotSentIsTrue /\ JournalAgrees
              /\ ShowsLastWork /\ CloseLeavesSession
  BY IsSafe
<1> QED
  BY <1>1, <1>2, <1>3, PTL DEF Spec

=============================================================================
