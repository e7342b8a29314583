-------------------------------- MODULE Utterance --------------------------------
(* What an assistant makes of recorded speech (voice/backends.py): an utterance is turned   *)
(* into words by a plugin, or by the GigaAM worker that assistants share                     *)
(* (voice/adapters/stt), a process that loaded a model and serves one request at a time.     *)
(* The model's file can be replaced, the worker stopped and started with another model, and   *)
(* a request given up while the worker still hears it.  Voice models the runtime between.     *)
EXTENDS Naturals, FiniteSets

CONSTANTS Clients,    \* assistants
          Models,     \* contents of the checkpoint file, told apart by their digests
          MaxCalls,   \* bound: utterances
          MaxChanges  \* bound: replacements of the file, stops and starts of the worker

VARIABLES
  file,     \* the checkpoint: a model or "none"
  worker,   \* the worker: position, the loaded model, the digest it announces; replaced between
  jobs,     \* the calls the worker serves: their stage
  call,     \* each assistant's utterance
  asked,    \* the requests on their way to the worker
  replies,  \* its replies
  count     \* history: calls and changes

vars == <<file, worker, jobs, call, asked, replies, count>>

None == "none"
Down == [pc |-> "down", loaded |-> None, sha |-> None, rash |-> FALSE]
Clips == {"silence", "sound"}
Idle == [pc |-> "idle", id |-> 0, clip |-> "silence", kind |-> None, before |-> None, expected |-> None,
         verified |-> None, heard |-> None, record |-> None, replaced |-> FALSE, result |-> [text |-> "", locale |-> TRUE, no_speech |-> TRUE]]

Init ==
  /\ file = CHOOSE f \in Models : TRUE
  /\ worker \in {Down, [Down EXCEPT !.pc = "up", !.loaded = file, !.sha = file]}
  /\ jobs = {} /\ call = [c \in Clients |-> Idle] /\ asked = {} /\ replies = {}
  /\ count = [calls |-> 0, changes |-> 0]

At(c, pc) == call[c].pc = pc
Over(c) == call' = [call EXCEPT ![c] = Idle]

(* ------------------------------------- the world ------------------------------------- *)

Change == count.changes < MaxChanges /\ count' = [count EXCEPT !.changes = @ + 1]

Replace ==
  /\ Change /\ file' \in (Models \union {None}) \ {file}
  /\ call' = [c \in Clients |-> [call[c] EXCEPT !.replaced = @ \/ call[c].pc \notin {"idle", "used"}]]
  /\ worker' = [worker EXCEPT !.rash = @ \/ worker.pc = "loading"]
  /\ UNCHANGED <<jobs, asked, replies>>

Stop == Change /\ worker.pc # "down" /\ worker' = Down /\ jobs' = {} /\ UNCHANGED <<file, call, asked, replies>>

(* ------------------------------------- the worker ------------------------------------- *)

\* The model is loaded first, and its file then read again for the digest.
main ==
  /\ \/ worker.pc = "down" /\ file # None /\ Change /\ worker' = [Down EXCEPT !.pc = "loading", !.loaded = file]
     \/ worker.pc = "loading" /\ worker' = (IF file = None THEN Down ELSE [worker EXCEPT !.pc = "up", !.sha = file]) /\ UNCHANGED count
  /\ UNCHANGED <<file, jobs, call, asked, replies>>

Reply(id, status, text) ==
  replies' = replies \union {[id |-> id, status |-> status, text |-> text, sha |-> worker.sha, by |-> worker.loaded, rash |-> worker.rash]}

\* Mutant: the lock is not tried.
Bug_Busy == FALSE

Busy == jobs # {}

\* One request at a time, for the model it expects: another is refused, and none is queued.
do_POST ==
  /\ \/ \E q \in asked :
          /\ worker.pc = "up" /\ asked' = asked \ {q}
          /\ IF Busy THEN Reply(q.id, 409, "") /\ UNCHANGED jobs ELSE jobs' = jobs \union {q} /\ UNCHANGED replies
     \/ \E q \in jobs :
          /\ jobs' = jobs \ {q} /\ UNCHANGED asked
          /\ IF q.sha # worker.sha THEN Reply(q.id, 400, "")
             ELSE \/ \E t \in {"", "words"} : (q.clip = "silence" => t = "") /\ Reply(q.id, 200, t)
                  \/ q.clip # "silence" /\ Reply(q.id, 503, "")
  /\ UNCHANGED <<file, worker, call, count>>

(* ------------------------------------ the assistant ------------------------------------ *)

\* Silence is no speech; the model's evidence is recorded before the provider is asked.
transcribe_audio(c) ==
  /\ call[c].pc \in {"idle", "used"} /\ count.calls < MaxCalls /\ count' = [count EXCEPT !.calls = @ + 1]
  /\ \E clip \in Clips, kind \in {"gigaam", "plugin"} :
       call' = [call EXCEPT ![c] = IF clip = "silence" \/ (kind = "gigaam" /\ file = None) THEN Idle
                                   ELSE [Idle EXCEPT !.pc = "started", !.id = count.calls + 1, !.clip = clip, !.kind = kind, !.before = file]]
  /\ UNCHANGED <<file, worker, jobs, asked, replies>>

\* The service is asked for the model that the file holds now.
transcribe(c) ==
  /\ At(c, "started") /\ call[c].kind = "gigaam"
  /\ IF file = None THEN Over(c) /\ UNCHANGED asked
     ELSE /\ call' = [call EXCEPT ![c].pc = "asked", ![c].expected = file]
          /\ asked' = asked \union {[id |-> call[c].id, clip |-> call[c].clip, sha |-> file]}
  /\ UNCHANGED <<file, worker, jobs, replies, count>>

\* Its answer is of this request and of that model, or refused.
Answered(c) ==
  /\ At(c, "asked")
  /\ \E r \in replies :
       /\ r.id = call[c].id /\ replies' = replies \ {r}
       /\ IF r.status # 200 \/ r.sha # call[c].expected THEN Over(c)
          ELSE call' = [call EXCEPT ![c].pc = "result", ![c].verified = r.sha, ![c].heard = IF r.rash THEN r.sha ELSE r.by,
                                    ![c].result = [text |-> r.text, locale |-> TRUE, no_speech |-> r.text = ""]]
  /\ UNCHANGED <<file, worker, jobs, asked, count>>

\* The wait ends, or nobody listens there: the worker is not told, and what it says is lost.
GivesUp(c) ==
  /\ At(c, "asked") /\ Over(c)
  /\ asked' = {q \in asked : q.id # call[c].id} /\ replies' = {r \in replies : r.id # call[c].id}
  /\ UNCHANGED <<file, worker, jobs, count>>

Lost == /\ \E r \in replies : (\A c \in Clients : ~(At(c, "asked") /\ call[c].id = r.id)) /\ replies' = replies \ {r}
        /\ UNCHANGED <<file, worker, jobs, call, asked, count>>

\* A plugin may return anything.
Plugin(c) ==
  /\ At(c, "started") /\ call[c].kind = "plugin"
  /\ \E t \in {"", "words", "control"}, l \in BOOLEAN, n \in BOOLEAN :
       call' = [call EXCEPT ![c].pc = "result", ![c].result = [text |-> t, locale |-> l, no_speech |-> n]]
  /\ UNCHANGED <<file, worker, jobs, asked, replies, count>>

\* Mutant: what the provider says of silence is not compared with its words.
Bug_valid(t) == t.locale /\ t.text # "control"

valid(t) == t.locale /\ t.text # "control" /\ (t.no_speech => t.text = "")

\* The result is checked, its model's evidence read once more, and used if there are words.
Result(c) ==
  /\ At(c, "result")
  /\ LET t == call[c].result IN
     IF valid(t) /\ t.text # "" /\ (call[c].kind = "gigaam" => file # None)
     THEN call' = [call EXCEPT ![c].pc = "used", ![c].record = file] ELSE Over(c)
  /\ UNCHANGED <<file, worker, jobs, asked, replies, count>>

Assistant(c) == transcribe(c) \/ Plugin(c) \/ Result(c)
Waits(c) == Answered(c) \/ GivesUp(c)
Next ==
  \/ Replace \/ Stop \/ main \/ do_POST \/ Lost
  \/ \E c \in Clients : transcribe_audio(c) \/ Assistant(c) \/ Waits(c)
Fairness == WF_vars(do_POST) /\ \A c \in Clients : WF_vars(Assistant(c)) /\ WF_vars(Waits(c))
Spec == Init /\ [][Next]_vars /\ Fairness

(* ----------------------------------- properties ----------------------------------- *)

TypeOK ==
  /\ file \in Models \union {None} /\ worker.pc \in {"down", "loading", "up"} /\ Cardinality(replies) <= MaxCalls
  /\ \A c \in Clients : call[c].pc \in {"idle", "started", "asked", "result", "used"}

\* Words are used only where there was sound, in the language asked for, and never against
\* the provider's own word that there was no speech.
WordsWereSaid ==
  \A c \in Clients : At(c, "used") =>
    call[c].clip # "silence" /\ call[c].result = [text |-> "words", locale |-> TRUE, no_speech |-> FALSE]

\* The model that is recorded as verified is the one that spoke (unless its file was replaced
\* while the worker loaded it), and the digests of the file beside it are the same unless it
\* was replaced during the call.
ModelIsKnown ==
  \A c \in Clients : At(c, "used") /\ call[c].kind = "gigaam" =>
    /\ call[c].verified = call[c].heard
    /\ ~call[c].replaced => call[c].record = call[c].verified /\ call[c].before = call[c].verified

\* The worker hears one utterance at a time, whoever has given up and asks again.
HeardAlone == Cardinality(jobs) <= 1

Pending == jobs # {} \/ \E c \in Clients : call[c].pc \in {"started", "asked", "result"}

(* ------------------------------ inductive invariant ------------------------------ *)

Digests == Models \union {None}
Sent == [id : Nat, clip : Clips, sha : Digests]
Statuses == {200, 400, 409, 503}
Heard == {"", "words"}
Replies == [id : Nat, status : Statuses, text : Heard, sha : Digests, by : Digests, rash : BOOLEAN]
Workers == [pc : {"down", "loading", "up"}, loaded : Digests, sha : Digests, rash : BOOLEAN]
Results == [text : {"", "words", "control"}, locale : BOOLEAN, no_speech : BOOLEAN]
Calls == [pc : {"idle", "started", "asked", "result", "used"}, id : Nat, clip : Clips, kind : {None, "gigaam", "plugin"},
          before : Digests, expected : Digests, verified : Digests, heard : Digests, record : Digests,
          replaced : BOOLEAN, result : Results]
Types ==
  /\ file \in Digests /\ worker \in Workers /\ count \in [calls : 0..MaxCalls, changes : Nat]
  /\ call \in [Clients -> Calls] /\ jobs \subseteq Sent /\ asked \subseteq Sent /\ replies \subseteq Replies

\* The worker that serves is up, and announces what it loaded, if the file was left alone meanwhile.
WorkerInv ==
  /\ jobs = {} \/ (worker.pc = "up" /\ \E q \in jobs : jobs = {q})
  /\ worker.pc = "loading" /\ ~worker.rash => worker.loaded = file
  /\ worker.pc = "up" /\ ~worker.rash => worker.sha = worker.loaded
  /\ \A r \in replies : r.status = 200 /\ ~r.rash => r.sha = r.by

\* A request is in one place: not sent yet, on its way, served or answered; a reply that nobody
\* waits for is one more.
On(c) == call[c].pc \in {"started", "asked", "result"}
PlaceInv ==
  /\ \A c \in Clients : On(c) => call[c].id \in 1..count.calls
  /\ \A c, d \in Clients : On(c) /\ On(d) /\ call[c].id = call[d].id => c = d
  /\ \A q \in asked \union jobs \union replies : q.id \in 1..count.calls
  /\ \A c \in Clients, q \in asked \union jobs \union replies : At(c, "started") => q.id # call[c].id
  /\ \A q, s \in asked : q.id = s.id => q = s
  /\ \A q, s \in replies : q.id = s.id => q = s
  /\ \A q \in asked, s \in jobs \union replies : q.id # s.id
  /\ \A q \in jobs, s \in replies : q.id # s.id

\* What a call has read of the file is what the file holds, unless it was replaced since.
CallInv ==
  \A c \in Clients :
    /\ call[c].pc # "idle" => call[c].clip = "sound" /\ call[c].kind # None
    /\ At(c, "asked") => call[c].kind = "gigaam"
    /\ On(c) /\ ~call[c].replaced => call[c].before = file
    /\ call[c].pc \in {"asked", "result"} /\ call[c].kind = "gigaam" /\ ~call[c].replaced => call[c].expected = file
    /\ At(c, "result") /\ call[c].kind = "gigaam" => call[c].verified = call[c].expected /\ call[c].verified = call[c].heard

IInv == Types /\ WorkerInv /\ PlaceInv /\ CallInv /\ WordsWereSaid /\ ModelIsKnown
=================================================================================
