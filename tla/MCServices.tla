----------------------------- MODULE MCServices -----------------------------
(* The concurrent services beside the player's session, each checked by itself: a behaviour
   is one of the component that `part` names. *)
EXTENDS Naturals, Sequences, FiniteSets

CONSTANTS
  Parts,  \* the components of a run
  WorkKinds, MaxRequests, MaxGeneration, MaxHeads, MaxFaults,              \* Assistant
  SpeechRequests, MaxProcesses,                                            \* Voice
  Browsers,                                                                \* WsBridge
  Phones, HttpLimit,                                                       \* LanBridge
  Catalogues, MaxVendor, MaxIssues,                                        \* Ota
  Handlers, RequestIds, Targets, NoTarget, RequestBudget, ThreadsMayFail, MaxTries, \* WebBackend
  Clients, Models, MaxCalls, MaxChanges                                    \* Utterance

\* What the components assume of them.
ASSUME ServicesConstants ==
  /\ "admin" \in WorkKinds /\ {MaxRequests, MaxGeneration, MaxHeads, MaxFaults} \subseteq Nat
  /\ MaxProcesses \in Nat /\ "nobody" \notin SpeechRequests
  /\ IsFiniteSet(Phones) /\ HttpLimit \in Nat
  /\ Catalogues \subseteq Seq([last : Nat, new : Nat, recovery : Nat]) /\ {MaxVendor, MaxIssues} \subseteq Nat
  /\ NoTarget \notin Targets /\ IsFiniteSet(RequestIds) /\ IsFiniteSet(Handlers)
  /\ RequestBudget \in Nat /\ ThreadsMayFail \in BOOLEAN /\ MaxTries \in Nat
  /\ Models # {} /\ MaxCalls \in Nat

VARIABLES
  part,  \* the component of this behaviour
  r1, r2, r3, r4, r5, r6, r7, r8, r9, r10, r11, r12, r13, r14, r15, r16, r17, r18, r19,
  r20, r21  \* its state, in the order of its VARIABLES

vars == <<part, r1, r2, r3, r4, r5, r6, r7, r8, r9, r10, r11, r12, r13, r14, r15, r16, r17, r18, r19, r20, r21>>

Row(l, n, r) == [last |-> l, new |-> n, recovery |-> r]
MCCatalogues == {<<>>, <<Row(1, 1, 1)>>, <<Row(1, 1, 2)>>, <<Row(1, 2, 1), Row(2, 2, 1)>>, <<Row(2, 2, 2), Row(1, 2, 2)>>,
                 <<Row(1, 2, 1), Row(1, 2, 1)>>, <<Row(2, 1, 2)>>, <<Row(1, 1, 1), Row(2, 2, 2)>>, <<Row(2, 2, 2)>>}

Assistant == INSTANCE Assistant WITH Kinds <- WorkKinds, busy <- r1, reply_id <- r2, active <- r3, poller <- r4,
    snapshot <- r5, reply <- r6, pool <- r7, notices <- r8, req <- r9, session <- r10, head <- r11, rows <- r12,
    answers <- r13, sends <- r14, latest <- r15, stale <- r16, closing <- r17, faults <- r18
Voice == INSTANCE Voice WITH Requests <- SpeechRequests, adapter <- r1, runtime <- r2,
    lock <- r3, req <- r4, task <- r5, thread <- r6, event <- r7, process <- r8, alive <- r9, pipe <- r10,
    started <- r11
WsBridge == INSTANCE WsBridge WITH active <- r1, ws <- r2, channel <- r3, bridge <- r4
LanBridge == INSTANCE LanBridge WITH lan <- r1, count <- r2,
    tasks <- r3, doomed <- r4, announcer <- r5, rash <- r6, run <- r7
Ota == INSTANCE Ota WITH catalogue <- r1,
    profile <- r2, issues <- r3, run <- r4, count <- r5, good <- r6
WebBackend == INSTANCE WebBackendProofs WITH Ids <- RequestIds, target <- r1,
    owner <- r2, base <- r3, raw <- r4, conn <- r5, gate <- r6, lock <- r7, lease <- r8, requests <- r9,
    job <- r10, syncing <- r11, verified <- r12, pc <- r13, req <- r14, gated <- r15, wpc <- r16,
    displays <- r17, sent <- r18, touched <- r19, attempted <- r20,
    overlapped <- r21
Utterance == INSTANCE Utterance WITH file <- r1, worker <- r2, jobs <- r3, call <- r4, asked <- r5, replies <- r6, count <- r7

Unused19 == r19 = 0 /\ r20 = 0 /\ r21 = 0
Rest19 == <<r19, r20, r21>>
Unused12 == r12 = 0 /\ r13 = 0 /\ r14 = 0 /\ r15 = 0 /\ r16 = 0 /\ r17 = 0 /\ r18 = 0 /\ Unused19
Rest12 == <<r12, r13, r14, r15, r16, r17, r18, Rest19>>
Unused8 == r8 = 0 /\ r9 = 0 /\ r10 = 0 /\ r11 = 0 /\ Unused12
Rest8 == <<r8, r9, r10, r11, Rest12>>
Unused7 == r7 = 0 /\ Unused8
Rest7 == <<r7, Rest8>>
Unused5 == r5 = 0 /\ r6 = 0 /\ Unused7
Rest5 == <<r5, r6, Rest7>>

Init ==
  /\ part \in Parts
  /\ \/ part = "assistant" /\ Assistant!Init /\ Unused19
     \/ part = "voice" /\ Voice!Init /\ Unused12
     \/ part = "browser" /\ WsBridge!Init /\ Unused5
     \/ part = "phone" /\ LanBridge!Init /\ Unused8
     \/ part = "ota" /\ Ota!Init /\ Unused7
     \/ part = "web" /\ WebBackend!Init
     \/ part = "utterance" /\ Utterance!Init /\ Unused8

Next ==
  /\ UNCHANGED part
  /\ \/ part = "assistant" /\ Assistant!Next /\ UNCHANGED Rest19
     \/ part = "voice" /\ Voice!Next /\ UNCHANGED Rest12
     \/ part = "browser" /\ WsBridge!Next /\ UNCHANGED Rest5
     \/ part = "phone" /\ LanBridge!Next /\ UNCHANGED Rest8
     \/ part = "ota" /\ Ota!Next /\ UNCHANGED Rest7
     \/ part = "web" /\ WebBackend!Next
     \/ part = "utterance" /\ Utterance!Next /\ UNCHANGED Rest8

\* The fairness of each component, as its module states it.
Fairness ==
  /\ WF_(Assistant!vars)(part = "assistant" /\ Assistant!Works) /\ WF_(Assistant!vars)(part = "assistant" /\ Assistant!Resume)
  /\ WF_(Assistant!vars)(part = "assistant" /\ Assistant!CloseWaited)
  /\ WF_(Voice!vars)(part = "voice" /\ Voice!shutdown)
  /\ \A r \in SpeechRequests :
       /\ WF_(Voice!vars)(part = "voice" /\ Voice!Call(r)) /\ WF_(Voice!vars)(part = "voice" /\ Voice!Loop(r))
       /\ WF_(Voice!vars)(part = "voice" /\ Voice!exchange(r))
  /\ \A b \in Browsers : WF_(WsBridge!vars)(part = "browser" /\ WsBridge!Step(b))
  /\ WF_(LanBridge!vars)(part = "phone" /\ LanBridge!Step)
  /\ WF_(Ota!vars)(part = "ota" /\ Ota!Check)
  /\ \A h \in Handlers : WF_(WebBackend!vars)(part = "web" /\ WebBackend!HandlerRuns(h))
  /\ \A i \in RequestIds : /\ WF_(WebBackend!vars)(part = "web" /\ WebBackend!WorkerRuns(i))
                            /\ SF_(WebBackend!vars)(part = "web" /\ WebBackend!Clear(i))
  /\ WF_(Utterance!vars)(part = "utterance" /\ Utterance!do_POST)
  /\ \A c \in Clients : /\ WF_(Utterance!vars)(part = "utterance" /\ Utterance!Assistant(c))
                            /\ WF_(Utterance!vars)(part = "utterance" /\ Utterance!Waits(c))
Spec == Init /\ [][Next]_vars /\ Fairness

(* --------------------------------- properties --------------------------------- *)

\* The variables of the component keep their types.
TypeOK ==
  CASE part = "assistant" -> Assistant!TypeOK [] part = "voice" -> Voice!TypeOK [] part = "browser" -> WsBridge!TypeOK
    [] part = "phone" -> LanBridge!TypeOK [] part = "ota" -> Ota!TypeOK
    [] part = "web" -> WebBackend!TypeOK [] part = "utterance" -> Utterance!TypeOK

\* What the user hears, sees and finds in the journal is of the last request and true: a reply
\* of its own, a state that counts the work done, "not sent" only where nothing left; and words
\* that were said, by the model that is recorded.
AnswersAreTrue ==
  /\ part = "assistant" => /\ Assistant!SpeechIsLatest /\ Assistant!NotSentIsTrue
                           /\ Assistant!JournalAgrees /\ Assistant!ShowsLastWork
  /\ part = "voice" => Voice!AnswersAreOwn
  /\ part = "utterance" => Utterance!WordsWereSaid /\ Utterance!ModelIsKnown

\* Nothing is left to run, or is sent, by what is no longer there: the connection the user had,
\* a session that was shut down, a request that ended, a release that has its issue.
NothingIsStray ==
  /\ part = "assistant" => Assistant!SentWherePinned /\ Assistant!IdleIsIdle /\ Assistant!CloseLeavesSession
  /\ part = "voice" => Voice!NothingRunsUnowned
  /\ part = "ota" => Ota!OneIssueEach /\ Ota!NothingIsMissed

\* The player's one control client is one, the counts of the bridges are their connections, and
\* the recognizer hears one utterance at a time.
OneClient ==
  /\ part = "browser" => WsBridge!ChannelIsReserved
  /\ part = "phone" => LanBridge!ForwarderCounts
  /\ part = "utterance" => Utterance!HeardAlone

Pending ==
  CASE part = "assistant" -> Assistant!Pending [] part = "voice" -> Voice!Pending [] part = "browser" -> WsBridge!Pending
    [] part = "phone" -> LanBridge!Pending [] part = "ota" -> Ota!Pending
    [] part = "web" -> WebBackend!GateHolders # {} [] part = "utterance" -> Utterance!Pending

\* Every request ends, whatever fails on its way: one to the assistant and its shutdown, one to
\* a speech provider and its close(), the channel of a browser that left, the forwarder's stop,
\* the release that waits for its issue, the web backend's gate, an
\* utterance and its recognition.
RequestsEnd == Pending ~> ~Pending
=============================================================================
