-------------------------------- MODULE Interpret --------------------------------
(* The assistant's interpretation of one command (nlu/interpreter.py): a provider that   *)
(* decides, and shadow sources (nlu/interpretation_sources.py) that are asked at the same  *)
(* time, may be slow, fail or answer nonsense, and are only recorded.  A text is the       *)
(* features its grammar (nlu/understanding.py) tells apart.                                 *)
EXTENDS Naturals, FiniteSets

CONSTANTS Plugins \* the provider is one of "rules" and "plugin"

VARIABLES
  text,      \* the command
  plugin,    \* which provider decides
  request,   \* position of interpret_request, and its outcome
  primary,   \* what is recorded of the provider's decision
  source,    \* each shadow source: its task's position and its evidence
  collecting,\* the task of collect()
  record,    \* the trace's interpretation_shadow event
  cancelled

vars == <<text, plugin, request, primary, source, collecting, record, cancelled>>

Sources == {"literal", "slots", "command_model", "structured_model"}
Texts == [quotes : {"none", "quoted", "unclosed"}, \* quotation marks around a reference
          second : BOOLEAN,                        \* an action after a connector, outside quotes
          frame : {"plain", "question", "negated"},
          shape : {"pause", "play", "language", "other"},
          value : {"name", "missing", "nonmusic"}] \* its argument

(* ----------------------------------- evidence ----------------------------------- *)

label(intent) == IF intent \in {"pause", "play", "language"} THEN intent ELSE "reject"
Evidence(status, lab, intent, reason) == [status |-> status, label |-> lab, intent |-> intent, reason |-> reason]
Recognized(intent, reason) == Evidence("recognized", label(intent), intent, reason)
Rejected(status, reason) == Evidence(status, "reject", "none", reason)
Unavailable(reason) == Rejected("unavailable", reason)
Unasked == [pc |-> "none", ev |-> Unavailable("not_asked")]
validate_intent(intent) == intent \in {"pause", "play", "language"}

\* Mutant: the label is not compared with the intent.
Bug_validate(e) ==
  IF (IF e.status = "recognized" THEN validate_intent(e.intent) ELSE e.intent = "none")
  THEN e ELSE Unavailable("source_failed")

\* Evidence of the wrong form counts as a source that failed.
validate(e) ==
  IF (IF e.status = "recognized" THEN validate_intent(e.intent) /\ label(e.intent) = e.label ELSE e.intent = "none")
  THEN e ELSE Unavailable("source_failed")

\* Mutant: a second action is not looked for once a template has matched.
Bug_single_action(t) == t.quotes # "unclosed" /\ ~(t.second /\ t.shape # "play")

\* Two actions, or a reference that is not closed, are nobody's to interpret.
single_action(t) == t.quotes # "unclosed" /\ ~t.second

parse(t) == IF t.frame = "plain" /\ t.shape # "other" /\ ~(t.shape = "language" /\ t.value # "name")
               /\ ~(t.shape = "pause" /\ t.second) THEN t.shape ELSE "none"

LiteralSource(t) == IF parse(t) = "none" THEN Rejected("rejected", "no_literal_match") ELSE Recognized(parse(t), "literal_rule")

\* The grammar: controls, then what is no command, then a slot and its argument.
extract(t) ==
  CASE ~single_action(t) -> Rejected("unsupported", "multiple_actions")
    [] t.shape = "pause" /\ t.frame = "plain" -> Recognized("pause", "literal_control")
    [] t.frame = "question" -> Rejected("rejected", "non_command_context")
    [] t.shape = "language" /\ t.frame = "plain" ->
         IF t.value = "name" THEN Recognized("language", "language_slot") ELSE Evidence("incomplete", "language", "none", "unknown_language")
    [] t.shape = "play" /\ t.frame = "plain" ->
         CASE t.value = "missing" /\ t.quotes = "none" -> Evidence("incomplete", "play", "none", "missing_music_reference")
           [] t.value = "nonmusic" /\ t.quotes = "none" -> Rejected("unsupported", "non_music_target")
           [] OTHER -> Recognized("play", "music_slot")
    [] t.frame = "negated" -> Rejected("rejected", "negated_command")
    [] OTHER -> Rejected("rejected", "no_template")

\* A snapshot may be missing, stale or untrained; a model has no arguments.
CommandModelSource ==
  {Unavailable("no_command_snapshot"), Rejected("rejected", "model_abstained"),
   Evidence("incomplete", "play", "none", "model_has_no_arguments"), Recognized("pause", "classified_control")}

\* What a local model may say: a label, the kind of its argument, and where that is from.
Decisions == [label : {"pause", "play", "language", "reject"}, kind : {"auto", "none"}, query : {"span", "invented", "none"}]

decode(raw) ==
  LET bad == CASE raw.label \in {"reject", "pause"} -> raw.kind # "none" \/ raw.query # "none"
               [] OTHER -> raw.query # "span" \/ (raw.label = "play") # (raw.kind = "auto")
  IN IF bad THEN Unavailable("structured_model_unavailable")
     ELSE IF raw.label = "reject" THEN Rejected("rejected", "model_rejection") ELSE Recognized(raw.label, "structured_model")

\* Evidence that does not agree with itself, or an exception, of a source's own.
Faults == {Evidence("recognized", "pause", "play", "fault"), Evidence("rejected", "reject", "play", "fault"), Unavailable("source_failed")}

evaluate(s, t) == CASE s = "literal" -> {LiteralSource(t)}
                    [] s = "slots" -> {extract(t)}
                    [] s = "command_model" -> CommandModelSource
                    [] OTHER -> {decode(d) : d \in Decisions} \union Faults

\* The preview of an explanation, which executes nothing: the first complete intent, unless
\* the grammar has a reason against every source.
diagnostic_choice(t, evs) ==
  LET slots == evs["slots"] IN
  CASE slots.status = "incomplete" /\ single_action(t) -> slots
    [] ~single_action(t) \/ slots.status \in {"unsupported", "incomplete"} -> Rejected("unsupported", slots.reason)
    [] slots.reason \in {"non_command_context", "negated_command"} -> Rejected("rejected", slots.reason)
    [] slots.status = "recognized" -> slots
    [] evs["literal"].status = "recognized" -> evs["literal"]
    [] evs["command_model"].status = "recognized" -> evs["command_model"]
    [] OTHER -> Rejected("rejected", "no_complete_intent")

(* ---------------------------------- the request ---------------------------------- *)

Init ==
  /\ text \in Texts /\ plugin \in Plugins /\ request = [pc |-> "begin", outcome |-> "none"]
  /\ primary = [status |-> "unavailable", intent |-> "none"] /\ source = [s \in Sources |-> Unasked]
  /\ collecting = "none" /\ record = "none" /\ cancelled = FALSE

Running(s) == source[s].pc = "running"
Goto(pc) == request' = [request EXCEPT !.pc = pc]

interpret_request ==
  /\ request.pc = "begin" /\ Goto("primary") /\ \E shadow \in BOOLEAN :
       IF shadow THEN collecting' = "wait" /\ source' = [s \in Sources |-> [Unasked EXCEPT !.pc = "running"]]
       ELSE UNCHANGED <<collecting, source>>
  /\ UNCHANGED <<text, plugin, primary, record, cancelled>>

\* What a provider may return: a status and an intent of any kind, or an exception.
Returns == IF plugin = "rules" THEN {IF parse(text) = "none" THEN <<"unrecognized", "none">> ELSE <<"recognized", parse(text)>>}
           ELSE ({"recognized", "unrecognized", "unsupported", "other"} \X {"pause", "play", "language", "invalid", "none"})
                \union {<<"raises", "none">>}

Decides(status, intent) ==
  /\ primary' = [status |-> status, intent |-> intent]
  /\ request' = [pc |-> "finally", outcome |-> IF status = "recognized" THEN intent ELSE "error"]

\* The provider is asked only about one action, and believed only in a valid form.
_interpret_request ==
  /\ request.pc = "primary"
  /\ IF ~single_action(text) THEN Decides("unsupported", "none")
     ELSE \E r \in Returns :
       CASE r[1] \in {"raises", "other"} -> Decides("unavailable", "none")
         [] r[1] # "recognized" -> Decides(IF r[2] # "none" THEN "unavailable" ELSE r[1], "none")
         [] validate_intent(r[2]) -> Decides("recognized", r[2])
         [] OTHER -> Decides("unavailable", "none")
  /\ UNCHANGED <<text, plugin, source, collecting, record, cancelled>>

measured(s) ==
  /\ Running(s) /\ \E e \in evaluate(s, text) : source' = [source EXCEPT ![s] = [pc |-> "done", ev |-> validate(e)]]
  /\ UNCHANGED <<text, plugin, request, primary, collecting, record, cancelled>>

\* Sources that are late, or no longer wanted, are cancelled; the task waits for their end.
collect ==
  /\ \/ /\ collecting = "wait" /\ collecting' = "gather"
        /\ source' = [s \in Sources |-> IF Running(s) THEN [pc |-> "ending", ev |-> Unavailable("source_timeout")] ELSE source[s]]
     \/ /\ collecting = "gather" /\ \A s \in Sources : source[s].pc # "ending" /\ collecting' = "done" /\ UNCHANGED source
  /\ UNCHANGED <<text, plugin, request, primary, record, cancelled>>

Ends(s) == source[s].pc = "ending" /\ source' = [source EXCEPT ![s].pc = "done"]
           /\ UNCHANGED <<text, plugin, request, primary, collecting, record, cancelled>>

\* The request is cancelled at the provider, or while it waits for the sources.
Cancel ==
  /\ request.pc \in {"primary", "finally"} /\ ~cancelled /\ cancelled' = TRUE
  /\ request' = [pc |-> "cleanup", outcome |-> "cancelled"]
  /\ IF collecting = "wait"
     THEN /\ collecting' = "gather"
          /\ source' = [s \in Sources |-> IF Running(s) THEN [pc |-> "ending", ev |-> Unavailable("source_timeout")] ELSE source[s]]
     ELSE UNCHANGED <<collecting, source>>
  /\ UNCHANGED <<text, plugin, primary, record>>

\* Mutant: a cancelled request does not wait for its sources.
Bug_Finally ==
  /\ request.pc \in {"finally", "cleanup"} /\ (request.pc = "finally" => collecting \in {"none", "done"})
  /\ Goto("over") /\ record' = IF request.pc = "finally" /\ collecting = "done" THEN primary.status ELSE record
  /\ UNCHANGED <<text, plugin, primary, source, collecting, cancelled>>

\* What the sources said is recorded beside the decision, which it does not change.
Finally ==
  /\ request.pc \in {"finally", "cleanup"} /\ collecting \in {"none", "done"} /\ Goto("over")
  /\ record' = IF request.pc = "finally" /\ collecting = "done" THEN primary.status ELSE record
  /\ UNCHANGED <<text, plugin, primary, source, collecting, cancelled>>

Next == interpret_request \/ _interpret_request \/ collect \/ Cancel \/ Finally \/ \E s \in Sources : measured(s) \/ Ends(s)
Spec == Init /\ [][Next]_vars /\ WF_vars(collect \/ Finally \/ \E s \in Sources : Ends(s))

(* ----------------------------------- properties ----------------------------------- *)

TypeOK ==
  /\ text \in Texts /\ request.pc \in {"begin", "primary", "finally", "cleanup", "over"}
  /\ collecting \in {"none", "wait", "gather", "done"} /\ \A s \in Sources : source[s].pc \in {"none", "running", "ending", "done"}

\* Whatever a provider or a source answers, a command with two actions or an open quotation
\* executes nothing, and no explanation previews an action for it.
GateHolds ==
  text.second \/ text.quotes = "unclosed" =>
    /\ request.outcome \in {"none", "error", "cancelled"}
    /\ \A s \in Sources : source[s].pc = "done" =>
         LET evs == [x \in Sources |-> IF source[x].pc = "done" THEN source[x].ev ELSE Unavailable("source_timeout")]
         IN diagnostic_choice(text, evs).status # "recognized"

\* Evidence that was kept agrees with itself, so that what the journal compares with the
\* decision is an intent exactly when it is called one.
EvidenceIsSound ==
  \A s \in Sources : source[s].pc = "done" =>
    LET e == source[s].ev IN (e.status = "recognized") = (e.intent # "none") /\ (e.intent # "none" => label(e.intent) = e.label)

\* A request that is over, also one that was cancelled, has left no source running.
NothingLeftRunning == request.pc = "over" => \A s \in Sources : source[s].pc \in {"none", "done"}
=================================================================================
