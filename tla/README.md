# Formal model of the DISC controller and its applications

This directory holds TLA+ specifications of the concurrent and stateful parts
of this repository, the TLC configurations that check them on small instances,
and proofs, checked by TLAPS, of the results that matter most.  The code is the
reference: every definition is named after, and translated from, the lines that
`PROJECT.json` ("map") gives for it.

1. Inventory of the system - 2. How the modules are organised - 3. The modules -
4. Runs, bounds, fairness, findings - 5. Proofs - 6. Observations -
7. Not modelled - 8. What is left

## 1. Inventory of the system

The repository drives a FiiO/Snowsky DISC player over its Link protocol (one
TCP control connection, one HTTP catalogue server), keeps a library of it, and
offers it through a web application and a speaking assistant.  It also contains
an emulator of the player's hardware for its firmware, with a viewer.

| Component | State it keeps | Operations | Modules |
|---|---|---|---|
| Persistent session (`controller/session.py`) | `enabled`, `generation`, `connection`, `client`, two locks, the worker's locals; in each client the socket, `closed`, `waiting`/`reply`, an event queue, the reduced playback state | connect, disconnect, exit, `_perform`, the worker; reader, `request`, `scan_guard`, `close` | `DiscSession`, `CommandLedger`, `LiveClient` |
| Mutation guard and pacer (`controller/device.py`) | `mutation_phase`, `attempted_phases`, `mutation_attempted`, the pacer's deadline | `begin_phase`, `sendall`, `wait` | `DiscSession` |
| Event validation (`controller/events.py`) | none | checks of the events of one operation | `LiveClient` |
| Wire format and link commands (`wire.py`, `fiio_link.py`, `fiio_ws.py`, `models.py`, ...) | a frame buffer, pending frames, a lock | send, read, query; decode to models | `LinkClient`, `Readings` |
| Playback controls and selection (`controls.py`, `current.py`, `playback.py`, `queue.py`, ...) | none between operations | observe, one mutation, verify, while hands use the player | `Playback` |
| Sound, settings and theme (`sound.py`, `fiio_settings.py`, `fiio_theme.py`) | none between operations | set and read back; edit a slot | `Tuning`, `Theme` |
| Importing and playlist edits (`importing.py`, `playlist_operations.py`, `fiio_http.py`) | none between operations | upload a file; create, rename, add, remove | `Upload`, `Edits` |
| Bridges (`controller/bridge`) | the one control client, connection counts, tasks | admit, forward, end, stop, announce | `WsBridge`, `LanBridge` |
| Library (`library/`) | SQLite heads, snapshots, tracks, observations; Typesense collections | synchronize, publish, build an index, search, capture artwork | `LibraryStore`, `CatalogRegister`, `Artwork` |
| DISC Web backend (`experiments/disc_web/backend`) | action gate, generation base, import and synchronisation jobs, seen request ids, displayed lists | HTTP handlers, workers, player switches | `WebBackend`, `Displays` |
| Assistant runtime (`assistant/web/server.py`, `journal.py`, `database.py`, ...) | `busy`, `reply_id`, snapshot, journal rows, saved settings | submit, speak, report, close; prune, clear, export; open, choose, import | `Assistant`, `Journal`, `Saved` |
| Assistant language (`resolver.py`, `ranking.py`, `nlu/`) | tasks of shadow sources | interpret, gate, resolve, choose | `Interpret`, `Choose` |
| Assistant voice (`voice/`) | the runtime's loop and handles, adapter processes, the shared recognizer | recognize, synthesize, cancel, close | `Voice`, `Utterance` |
| Assistant launcher (`launcher.py`, `speech_setup.py`) | configuration, `.env`, model files | setup, speech-setup, up, down | `Launch` |
| Emulator runtime (`emulator/runtime`) | four files of the power life, card image and nodes, links, settings database | start, cut, reboot, power off, keys, SD card, links, setup | `Machine`, `Peripherals`, `BootReady`, `PowerWatch`, `Card`, `Links`, `Setup` |
| Viewer, screen and sound (`viewer/server.py`, `framebuffer.py`, `touch.py`, `audio.py`) | frame and device revisions, a touch file, capture files | stream, drag, export | `Screen`, `Touch`, `Capture` |
| Firmware checks (`firmware/tools/check_ota.py`, `notify_ota.py`) | issues | the daily run | `Ota` |
| Research, patches, CI, evaluation | - | programs that run once on files | none |

They interact as follows.  Every application calls the session, which owns one
client at a time; the client is what its reader, one operation and several
closers share.  The operations (controls, selections, edits, uploads, settings)
are callbacks that run inside a lease of the session.  The web backend has one
session and switches it between players; the assistant has one too, and pins
what it plays to a generation and to a published snapshot of the library, a
database that several processes share.  The bridges stand between the player's
one control channel and browsers or phones.  The emulator's supervisor, its
guest, command-line clients and the viewer share files only.

What is hard in this code, and therefore what the properties are about:

* **A lease is pinned to a generation.**  A call reads the generation, waits for
  a lock for as long as another operation takes, and only then acts, while the
  owner may disconnect and the worker may reconnect.
* **A mutation is never repeated and its outcome never overstated.**  The
  protocol has no idempotence; a lost reply leaves the outcome unknown.
* **The player names things by position** and answers writes that it ignored
  with success, while other hands change lists between any two requests.
* **Observation is indirect.**  Replies are matched by tag, notifications look
  like replies, and the player can be operated by hand between any two steps.
* **Five parties may close one client**, threads can fail to start, tasks are
  cancelled twice, and a shutdown waits for all of them.
* **Publication is compare-and-swap** on the library's head; an index lags
  behind it and must never be presented as current.
* **Files are the emulator's protocol**: a process that is killed leaves a
  request, a PID, a marker or a mount for whoever comes next.

The complete list, with the line where each one bites and the properties that
are about it, is `PROJECT.json` ("hazards").

## 2. How the modules are organised

One module per component, with its state as variables, one action per handler
or step, its properties at the end, and after each group of actions the bugs
(`Bug_...`) that its properties are known to catch.  `XProofs` extends the
module `X` that it proves about.

Four components are checked, and proved about, directly: `DiscSession` (with the
abstract `CommandLedger`), `LiveClient`, `LibraryStore` (with the abstract
`CatalogRegister`) and `WebBackend`.  The others are checked through three
compositions, so that one configuration asks the same question of all of them:

* `MCEmulator` - machine, peripherals, screen, touch, capture, setup,
  ready (`BootReady`), watch (`PowerWatch`), card, links;
* `MCPlayer` - playback, edits, upload, tuning, readings, link (`LinkClient`),
  theme, artwork, choose, interpret, saved, launch, displays, journal;
* `MCServices` - assistant, voice, browser (`WsBridge`), phone (`LanBridge`),
  ota, web (`WebBackend` again, for its liveness), utterance.

A composition is a disjoint sum, not a product.  The variable `part` names the
component whose behaviour this is, and never changes; the registers `r1`, `r2`,
... hold that component's variables, in the order in which its module declares
them (the `INSTANCE` line shows the assignment), and those it does not use stay
0.  The fairness of a composition is each component's own, guarded by `part`.  A
property of a composition is a conjunction `part = c => C!Property`; the
components' own names for them are listed below.  The constants of a component
are given in its `INSTANCE` line, or, in `MCServices` and `MCEmulator`, by the configuration, so
that the theorems are about every instance.  Components that interact within one program
are in one module (the four parties of the screen, the viewer's threads and the
card's watcher, the event loop and worker of the assistant).

## 3. The modules

### DiscSession

One `DiscSession`, its worker thread, any number of caller threads and one
`LiveClient` per worker attempt.  A client is named by the generation of the
attempt that created it, which is how the code tells them apart too.

| TLA+ | code |
|---|---|
| `enabled`, `generation`, `connection`, `client` | attributes of the same name |
| `exiting` | the `shutdown` event: "no", "set", and "left" once `__exit__` has called `disconnect` |
| `closing` | `disconnect()` is inside `client.close()` while it holds `guard` |
| `operations` | owner of the `operations` lock |
| `wpc`, `wgen`, `wclient`, `skip`, `fresh` | the worker's position in `_run`, its locals `generation` and `client`, an attempt left by `continue`, `delay == self.backoff` |
| `life[g]` | none / open / closing (the `closed` flag is set) / shut (the socket is shut down) |
| `hot` | clients whose 2.1 s mutation interval has not passed |
| `active`, `mutation_phase`, `attempted_phases`, `mutation_attempted` | the client's attributes |
| `pc`, `requested`, `lease`, `result` | the callers' position in `_perform`/`operation`, `requested_generation`, the leased client, the reported status |
| `written` | history variable: bytes of a mutation put on the wire by the current call |

A region of code under `guard` is one step.  The exception is `disconnect()`,
which performs a socket shutdown while it holds the lock: it is two steps, and
no other step that needs `guard` may come between them (`~closing`).  `Write`
separates the records made before a mutation from the bytes themselves, so a
close, a disconnect or an exit can fall between the two.

Callbacks are arbitrary: any sequence of `begin_phase`, mutation attempts,
queries (which may time out, raise and close the client) and a return.  This is
wider than any callback of the repository and is what makes the results hold
for all of them.

Abstractions: exceptions outside `(OSError, ValueError, RuntimeError)` are not
modelled, nor is the join timeout of `__exit__`.  Nothing says how often a
connection is tried; `fresh` only decides the displayed word, and the reset of
the back-off after 30 s of uptime never makes the next delay equal to the
initial one, because the delay is doubled after it.  `disconnect` is bounded by
`MaxGeneration`, which is the bound on generations.  `connect` while a
connection is wanted changes nothing and is left to stuttering.

`CommandLedger` is what a user of the session may rely on: one holder at a
time, pinned to the epoch of its admission; every phase sent at most once, only
in that epoch, a mode change first.  `DiscSession` implements it under the
mapping at the end of the module; the epoch is the generation that a thread can
read, which lags behind `generation` while `disconnect()` holds the guard.

### LiveClient

The inside of one client, which `DiscSession` sees only as open, closing or
shut: the reader thread, one caller in an operation, and the owner of the
connection, who may close it at any time.  The player and the TCP stream are
external: the player plays, scans, answers a query with its state, with an
empty payload, or never, and notifies every change.

| TLA+ | code |
|---|---|
| `life` | the `closed` flag and the socket, as in `DiscSession` |
| `waiting`, `reply` | the attributes; a reply carries the number of the query the player answered, which the code cannot see |
| `events`, `active`, `scan_active`, `state` | attributes of the same name |
| `reading`, `chunk` | the position of `_receive`, the frames of the last `recv` it still holds |
| `owner` | the owner's `close()`: flag, socket, state are three steps |
| `pc`, `asked`, `update` | the caller's position, its last query, what `now_playing` returned |
| `verdict`, `heard` | history: the last scan check, and whether a scan was to be seen |

The `condition` is not a variable.  A thread keeps it without waiting only
while it sends (`pc = "sending"`, pacing included); the other regions under it
are one step, and steps that need it wait for `ConditionFree`.  "a202" stands
for the tag of now-playing, with which the player also notifies; "other" for a
tag that is only ever a reply.  A payload is a song and a state, each of which
may be absent; the position, and the display status derived from it, are left
out.  A frame that cannot be parsed, the end of the stream and a socket error
end the reader the same way (`ReaderStops`).

A consequence of matching by tag (finding 4): what `observe()` takes as the
current state can be older than the query.  A pause may therefore be called
already satisfied, or confirmed, on an old notification.  `Playback` has the
same stream from the side of an operation.

### LibraryStore

The catalogue of one device.  Each process is idle, synchronising, building an
index or searching; `pc` is its position and `expected`, `tracks`,
`generation`, `collection`, `signature`, `seen`, `answer` are the locals of
these functions.  `head` is the row of `heads`, `contents` the tables
`snapshots` and `tracks`, `collections` what Typesense holds.  An SQLite
transaction is one step.  `Abandon` is at once an error, a cancellation and the
death of a process, between any two steps: a dead process cleans nothing up.
`BuildFails` is an error that the process survives; it deletes the collection
of its own attempt, or dies trying.

A snapshot is represented by how many edits of the player's catalogue it shows.
That a full read sees the catalogue of one moment is an abstraction: a read
that an edit interrupts differs from a complete read after the edit, and is
rejected by `read_stable`, unless an edit is taken back meanwhile.  An interrupt
between the commit of `publish_index` and the end of its `try` block is not
modelled.

`CatalogRegister` is what a reader of the library relies on: the catalogue
shown is one the player had, and it is never replaced by an older one, although
imports run concurrently.

### WebBackend

The threads of `experiments/disc_web`.  A handler thread has its position `pc`,
its request `req`, and `gated`, whether it is inside `foreground()` or between
`reserve()` and the start of its worker; a worker thread has its position `wpc`
and is named by the request that started it.  `gate`, `lock` and `lease` are
`Imports.gate`, `Device.lock` and `DiscSession.operations`; `job`, `syncing` and
`verified` are `Imports.job`, `Catalogue.job` and `Catalogue.verified`.  A
worker of an import reads what it works on from the shared `job`, as the code
does.

The session below is seen through its generation (`raw`), its readiness
(`conn`) and its lease; that a command admitted to a generation cannot leave on
a later one is `NoStaleWrite` of `DiscSession`, so that a call is one step here.
`control` stands for every command that is called without a generation, `sound`
for the setting that is called with it.  A browser may post anything it was ever
shown: `displays` remembers which connection of which player each generation
was shown for.  Enabling the session changes nothing that is modelled, so
`connect` is not an action; an enabled session may try at any time.

An import that has left either returns, with a status that was made under its
lease (`Finish`), or raises: then the lease ends first (`Fails`, position
"failed"), and what is reported is the client's flag as it is by then (`Report`).
`attempted` is that flag.  Every other operation holds the gate, with one
exception: the handler of a cached view takes no gate, because it has seen a
snapshot, but reads the device if the player was replaced after it looked
(`Read(h, FALSE)`, only once there has been a switch).  Its lease can clear the flag of
the failed import, which `overlapped` remembers; `PageIsHonest` has that case as
its one exception, and claims the rest: nothing has left for any other
"not_sent", the command has for "done", and a library shown as fresh was read
after whatever left last.  `Dies` is an upload whose worker ends by an error of
`http.client` that nobody expects: its phase stays as it was.

A non-blocking acquisition and the checks behind it are one step, and a lock
that is taken and given back inside one step is never seen taken: requests are
turned away a little less often than in the program, which loses no change of
state.  Display tokens, and with them the commands that play a selection, are
`Displays`.

### Playback and its neighbours (`MCPlayer`)

**Playback.**  One operation on the player: a control, a setting, a selection
of a row of the catalogue or the queue, or the removal of a row.  `op` is its
request and position with what it has read, `stream` and `queries` are the TCP
channel, `player` is external and moved by hands, other programs and itself.
`past`, `was`, `hit` and `disturbed` are history.  `ConfirmedWasSo`: a confirmed
state was shown by the player at some time of the operation;
`SelectionTookEffect`, `RightRowRemoved`, `StaleRowsNeverSent`: what a command by
position met is what was last read, unless something changed after the last
check; `SnapshotExisted`: a queue that was read twice alike was the queue.  The
last two are claimed for at most one change during an operation: with two, both
reads can show the same mixture of two lists that never was a list.  A removal that
is confirmed took a row of a list there was; it may have been one that replaced the
displayed row after the last check;
`ScanIsNoticed`; `UndisturbedSucceeds`.

**Edits, Upload, Theme, Tuning.**  One edit of the player's playlists; one
upload without permission to overwrite; one edit of a lock-screen slot; one
setting.  All four write to a player that may ignore the write and say yes,
and read back.  `OutcomeIsHonest`, `UploadIsHonest`, `ReadsBack`: a confirmed
outcome is so; `MeetsItsTarget`, `NothingIsTruncated`, `PicturesSurvive`,
`EditIsExact`, `ModeIsRespected`: nothing but the target is changed, unless
another hand changed something after the last check, which the protocol cannot
exclude and which history variables record.

**Readings.**  From any payload of the player to the typed models:
`NothingInvented` compares what is shown with what the player does.

**LinkClient.**  The sequential clients over TCP and the WebSocket.  Octets
arrive in pieces (`wire`, `kernel`, `buffer`), frames wait in `pending`.
`FramesAreWhole`: however the stream is cut, the frames decoded are the frames
sent, in their order; `AnswersAreOwn`: a query that returns has the answer to
itself, unless one timed out before.

**Displays.**  The lists a browser shows, the tokens that stand for them, and
the selection of a shown row through player switches, reconnects, evictions and
new snapshots.  `SentIsShown`: the row that is sent names what was displayed;
`TaggedWhereRead`: a display's tag is of the connection it was read on.

**Artwork, Choose, Interpret.**  The capture of a cover for a row of a snapshot
(`CoverIsOwn`, `ArtworkFits`); from a phrase to the row that is played, with a
snapshot published and hands on the player meanwhile (`NoWordIsDropped`,
`ContextHolds`); the gates between a provider's answer and a command, with
shadow sources that are slow, fail or are cancelled (`GateHolds`,
`EvidenceIsSound`, `NothingLeftRunning`).  Names and texts are reduced to the
words and features that the code tells apart.

**Saved, Journal, Launch.**  What processes of the assistant share on disk.
`Saved`: the settings database under processes of any version, upgrades, and
kills between any two steps (`OpensForAll`, `ChoiceIsKept`,
`CatalogIsCurrent`).  `Journal`: the trace of each request, pruning, clearing
and export, writes that time out or fail (`JournalIsTrue`, `RepliesAreHonest`,
`ExportIsOneState`, `ClearedIsGone`, `InFlightIsKept`).  `Launch`: shells with
exported keys of their own and an editor (`SpeechIsThere`, `EditsAreKept`,
`KeysAgree`).

### The services (`MCServices`)

**Assistant.**  The event loop (requests, polling, speech, close), the worker
thread that carries one request from its journal row to the player, and the
notices between them.  `SpeechIsLatest`, `NotSentIsTrue`, `JournalAgrees`,
`ShowsLastWork`, `SentWherePinned`, `IdleIsIdle`, `CloseLeavesSession`.

**Voice, Utterance.**  `Voice` is the speech runtime with one provider: request
loops, the runtime's loop, an adapter's process or thread, cancellation,
timeouts and `close()`.  `AnswersAreOwn`, `NothingRunsUnowned`.  `Utterance` is
the pipeline above it with the recognizer that assistants share:
`WordsWereSaid`, `ModelIsKnown`, `HeardAlone`.

**WsBridge, LanBridge.**  `active` and each handler's position; each
connection's position, upstream and open directions, counts and tasks.
`ChannelIsReserved`, `ForwarderCounts`.  Frames are `LinkClient`'s.

**Ota.**  The daily run: retries, an outdated profile, lost answers, issues that
are closed by hand.  `OneIssueEach`, `NothingIsMissed`.

### The emulator (`MCEmulator`)

**Machine.**  The power life.  `sup` is the supervisor (`machine.py run`), `init`
the guest's PID 1 (`guest_init.py`), `client` the commands and the viewer's
device (`keys.py`); `state`, `request`, `initPid` and `marker` are the four files
through which alone they talk; `view` is whose mounts the root filesystem has.
A supervisor can be killed from outside (`MaxDeaths`).  `OffMeansOff`,
`NoOrphan`, `BootsAlone`.  Concurrent starts are assumed away, as the code's
callers serialise them.

**Peripherals.**  The viewer's handlers, its control loop, its SD-card and power
threads and the supervisor's card watcher around one device lock, the card's
nodes and mount, and the GPIO levels of keys with their failsafe.
`LowHasAnOwner`, `RepeatsFollowAPress`, `EjectedIsUnmounted`,
`OnlyDisturbedIsWiped`.

**Screen, Touch, Capture.**  Pictures from the guest through two sub-buffers, the
grabber and the viewer's revisions to browsers (`Advances`, `Settled`); gestures
of several browsers on one touch file; captured sound whose files are emptied
and reset while they are exported (`ExportIsOneCapture`, `OutputIsTrue`).

**Setup, BootReady, PowerWatch, Card, Links.**  The priming of the settings row
(`NoWizard`, `Keeps`); the readiness poll (`DrawnBefore`: a framebuffer of this
boot was drawn); the power watcher's file (`OneWatcher`); the card image's loop
devices (`NothingLeftBehind`); network links and their stubs (`StubsMirror`,
`RealStays`).

## 4. Runs

| Run | Instance | Question |
|---|---|---|
| `session` | 2 callers, 2 generations, symmetric callers | types, what is published is current, no swap under a lease, no stale write, the refinement of the ledger |
| `session_liveness` | 1 caller, 2 generations, fair | every call returns; the worker retires dead clients and ends; an honest "not sent" |
| `session_report_race` | 2 callers, 1 generation | **violated**: finding 1 |
| `client` | 1 song, 2 queries, 1 notification, a queue of 1 event, fair | replies, scan checks, and whoever closes, the state is forgotten |
| `library` | 2 processes, 2 signatures, 3 snapshots, 2 collections, 2 edits | index and search stay consistent; the register is implemented |
| `library_enrich` | 2 processes, 2 snapshots, no index | **violated**: finding 2 |
| `web` | 2 handlers, 4 ids of which 3 fit, 2 players, 3 connections, threads may not start | ids, where commands go, what the page says, locks |
| `web_threads` | 2 handlers, 2 ids, threads may not start | **violated**: finding 3 |
| `playback_stale` | `MCPlayer` with playback only | **violated**: finding 4 |
| `emulator` | ten components | nothing is left behind, data survives, readers are told the truth, steps are sound, requests end |
| `player` | fourteen components | honest results, right targets, own replies, nothing unintended, choices kept |
| `services` | seven components | true answers, nothing stray, one client, every request ends |

### Bounds

Session: two callers are enough for a second lease to follow the first before
the first has reported; two generations for a call admitted in the first to wake
up in the second, explicit disconnects included, which use generations too.  Two
phases tell the phase that must come first from another.  Two queries and a
notification let the answer to the first query arrive during the second, with a
notification before or after it; a queue of one event fills up.  One song and
"no song" tell a change of song from its end.  In the library, three snapshots
let a process fall two behind, and two collections let an index be replaced
while a search or another build uses the first.  In the web runs two handlers
are enough for a read that holds the device lock against a worker and a second
request; three accepted requests are a synchronisation, an import and a player
switch in any order, a fourth id meets a full budget.  `MaxTries` bounds the
connections the session tries by itself.

Compositions: each component has the smallest population in which its parties
meet - two callers of what is shared (browsers, shells, processes, watchers, card
users, tasks; three phones, since two may be served), one of what is sequential
- and two of what can be stale or replaced (boots, catalogues, models,
snapshots, connections).  A budget of one or two hands, faults or edits suffices
because each property speaks of one operation: one change before its check and
one after it are all the cases.  Every budget is a constant named `Max...` and a
guard.

Deadlock is checked in the session and library runs, where a call may always
come: what it excludes is a state in which nobody can move.  Elsewhere the
system may stop: a client is closed, all ids are claimed, a machine is off.

### Fairness

`DiscSession`: `disconnect` and the worker are threads that keep running, all of
whose waits have deadlines; a callback is a bounded sequence of queries with
deadlines.  Strong fairness is assumed where a thread waits for a lock: Python
wakes a waiter of a lock that is released again and again.  Nothing is assumed
of the device, of the owner's wishes, or of the arrival of calls.  `LiveClient`:
the reader runs and `recv` returns on a socket that is shut down; a request ends
by its deadline; strong fairness where the reader or the owner waits for the
condition.  `WebBackend`: handlers and workers run; uploads, scans and reads have
deadlines; a synchronisation waits for the device lock with a blocking
acquisition, hence strong fairness there; the session need never become ready.
Components of `emulator` and `services`: the program's own threads, tasks and
processes make progress (weak fairness of each), waits have their deadlines, and
nothing is assumed of users, hands, the player or other programs.  Three
assumptions are about the environment and are named where they are made: the
guest handles key and card events and drains the touch file, `Ota` finds its
issue once network and vendor behave (`good`), and a hung guest is killed by the
supervisor's deadline.  The `player` run has no liveness: its operations are
sequential and bounded by their deadlines.

### Findings

**1** (`session_report_race`).  `_perform` reads `client.mutation_attempted` in its
exception handler (`src/controller/session.py:314`), after the `with` block has
released the operations lock.  A second caller may have begun its operation on
the same client and cleared the flag.  The first call is then reported as
`not_sent` although its mutation may have reached the device, against
`controller/docs/api.md:120`: "An error after a possible write is uncertain".
With one caller the property holds (`session_liveness`, and theorem
`HonestAlone`).  The callbacks that catch their own errors are not affected;
those that let an error after the write escape are, for instance
`controller/playlist_operations.py:95-107`, and `importing.upload` and
`importing.scan` (`importing.py:38`, `50`, `75`).  DISC Web repeats such a status
on its page (`imports.py:129`).  There the gate keeps other operations away, but
not the read of a cached view whose player was replaced meanwhile: after a failed
upload it can clear the flag, and the page says "not_sent".

**2** (`library_enrich`).  `library/README.md:116` says that a synchronisation
stores its enrichment against its new generation.  `publish()` returns the head
as it is after its transaction (`store.py:74`); if another import publishes
before that read, the observation, associated by ordinal, is stored against the
other import's generation.  The process has to be stopped there for as long as
another import takes, so this is rare.

**3** (`web_threads`).  `Imports.scan()` starts its worker outside any error path
(`imports.py:98`).  If the thread cannot start, the request fails and the gate
stays locked; every later request is told that an operation is in progress
(`imports.py:41`).  `upload()` and `Catalogue.start()` release it.

**4** (`playback_stale`).  `controller/controls.py:48` says that only the query's
response establishes the current state.  A reply is recognised by its tag alone
(`session.py:140`), so a notification that was under way before the query was
asked takes its place: a pause sent after a hand has already paused resumes the
music, and the hand's own notification confirms the pause (`controls.py:65`).

`SentWhereShown` is as strong as the code: only sound settings, uploads and
scans pass the displayed generation on to be compared under the lease.  Any
other command is compared once, before the call (`device.py:309`), and may leave
on a connection made in between, always to the player that was shown.

## 5. Proofs

Seven modules hold theorems.  Each proves one inductive invariant `IInv`, whose
parts TLC checked on a small instance first, and draws the properties from it; the step of
the invariant has one step of the proof per action.  All hold for every value of
the constants that satisfies the named assumptions.

### DiscSessionProofs

Type correctness, `ClientsAreCurrent`, `NoSwapUnderLease`, at most one write per
phase (`AtMostOnce`), the action properties `NoStaleWrite` and `ModeIsFirst`, and
the refinement `ImplementsLedger`.  `IInv` has named parts, none of which is
inductive without the others:

* `LockInv` - who holds `operations` is where the program text says a holder is;
* `ClientInv` - the published client, the worker's client and the generation
  agree as far as the worker's position says;
* `SocketInv` - a socket that is not shut is the session's, or the worker's own
  that is not published yet;
* `LeaseInv` - a lease is of the requested generation, and while it lasts the
  client is that one or none;
* `WriteInv` - what was written is contained in what is recorded as attempted,
  and the attempt being sent is recorded but not written.

The refinement maps every step to a step of the ledger or to a stutter; the
lemma `WriteIsCurrent` is its core: a write happens only in the pinned epoch.

*Honest reports.*  `NotSentIsHonest` is false with two callers (finding 1), so it
is split.  `ReturnsAreHonest` holds for any callers: a call whose callback
*returned* was reported inside the lease, and if it says `not_sent`, it wrote
nothing.  `HonestAlone` adds the hypothesis that there is one caller and covers
failing calls too.  `ReportInv` relates the bytes of a call to the flag that will
be read, up to the end of the lease; `Alone` says that without a second caller
nobody clears the flag after it.

Assumptions: the worker, the callers and the free-lock value are different;
"mode" and "selection" are phases; `MaxGeneration` is a natural number.

### LiveClientProofs

`TypeOK`, `RepliesMatch`, `ScanBlocks` and `NothingShownAfterEnd` (the safety part
of `CloseForgets`: once `close()` has ended, no state is shown again).  `IInv`:

* `WaitInv` - `waiting` is set exactly while the caller is inside `request`, and
  only then there is a reply;
* `FlightInv` - of the queries with a tag of their own at most one is on its way,
  being answered or in the reader's chunk, and until the client is closed it is
  the one that the caller waits for.  `RepliesMatch` would not be inductive
  without it, since the frame that would break it has been sent long before;
* `ScanInv` - a scan frame that was met stays among the events until a check
  consumes it and ends the operation, or a full queue ends the reader.

Assumptions: bounds are natural numbers, the queue holds at least one event, and
"no song" is no song.

### LibraryStoreProofs

The types, `IndexIsComplete`, the action property `SearchIsCurrent`, and the
refinement `ImplementsRegister`.  `IInv` adds to them:

* `StoreInv` - the head is the last snapshot, and no snapshot is ahead of the
  player;
* `SyncInv` - what an import has read is not older than its base, as long as
  that base is the head (generations grow, so a base that was replaced is never
  the head again);
* `BuildInv` - a collection under construction belongs to one process and is
  not the head's, and is complete when it is about to be published;
* `SearchInv` - the index a search began with is complete and untouched even
  after the head has moved on.

Assumptions: "unsigned" is no signature; the bounds are natural numbers.

### WebBackendProofs

All five invariants of the run `web`: `TypeOK`, `SentAtMostOnce`,
`SentWhereShown`, `PageIsHonest`, `LocksHaveOneHolder`, for any handlers, ids,
players and connections.  The proof follows the positions of every thread:

* `HandlerInv`, `GateInv`, `LockInv`, `LeaseInv` - a thread's position says which
  of the gate, the device lock and the lease it holds, and nobody else does; the
  one exception is the gate after a scan whose thread could not start;
* `IdInv` - an id is in one place: a handler's request, a worker that has not
  sent it yet, or a command that left;
* `JobInv` - the job is that of the handler that stages it or the worker that
  runs it, and its phase agrees with what has left; from the write to the report
  its flag stands, unless a read has cleared it (`attempted`, or `overlapped`);
* `ShownInv`, `NamedInv` - generations grow with every connection that is shown,
  across player switches (`base`), so an equal generation is the same connection;
  what a request or the job names was shown, and the player of a request that
  passed its check cannot be replaced while it holds the lock;
* `SentInv` - what these give for each command that left;
* `FreshInv` - the library is declared unverified before anything is sent to it.

Assumptions: "no target" is no player; ids and handlers are finite sets; the
bounds are natural numbers.

### EmulatorProofs

The composition `MCEmulator`: all four invariants of the run `emulator` and its
action property `StepsAreSound`, for every value of its constants that satisfies
`EmulatorConstants`: any clients, viewers, browsers, watchers, users, keys, names and
PIDs, and any bounds on boots, requests, drawings, captures and calls.  Each
component has its `IInv` at the end of its module; the lemmas here are over the
registers of the composition, with a legend at the head of each part.

* `Machine` - `GuestInv` says who may run programs: PID 1 from its sysinit on, or the
  direct boot in its own mode; `SupInv`, that a supervisor that has not powered on yet,
  or has ended the boot, has no guest; `OrphanInv`, that a guest whose supervisor is
  gone is named by `init.pid`, so a client can find it, and without a killed supervisor
  there is none; `CutInv`, that a client that finishes a dead supervisor's job has no
  living guest to forget; `OffInv`, that "off" is published only once the guest is gone
  and the mounts are the container's.
* `Peripherals` - two halves, of the keys and of the card.  `KeyInv`: what repeats is
  held, and during a power-on nothing repeats, which is why `Power` cancels the holds
  *before* the transition.  `CardInv`: unless somebody else mounts the card in the
  middle of an ejection, nothing is mounted as long as a removal is under way, or sent
  and not yet handled, or the nodes are gone; and an insertion that mounts by itself has
  waited for earlier removals.
* `Screen` - `SampleInv`: where the marker stood when a sample was begun, the sample is
  not older than what is visible, although the guest draws into the other sub-buffer
  meanwhile; `FirstInv`: before the first marker only one sub-buffer changes, so the
  difference of two samples finds it; `DrawInv`: a buffer that is not being drawn is whole.
* `Capture` - `TodoInv` lists what the files hold before each operation that the shim or
  the supervisor still has to do.  `FileInv`: frames that can be read are of the capture
  that the format's file was stamped for, and stamps only grow; so (`ExportInv`) frames
  that were read between two equal stamps are of that capture.
* `Setup` - `PlaceInv`: the throwaway boot runs only while a setup waits for it;
  `ChoiceInv`: there is nothing of the user's where a setup starts over.
* `BootReady` - `FlushInv`: a marker that is not empty was written in this boot by the
  process that has, or had, its PID; `WaitInv`: what held the touch device is still the
  UI, unless it is gone.
* `PowerWatch` - `AliveInv`: one watcher is alive, and the file names it, unless it was
  started just now and the call still waits for it; `CountInv`: what is noted is not
  counted yet, so no request is served twice.
* `Card` - `LoopInv`: an attached device was given to the guest, goes with its mount, or
  belongs to a call that is going to give or detach it.
* `Links` - `CommandInv`: how far a command has come; `StubInv`: the stubs mirror every
  link but the one that a command works on.
* `Touch` - the types are inductive.

The actions of a component that share a frame are proved together (`PeriphKeysStay`,
`PeriphCardStays`, `CardOwners`, `CaptureOperated`, ...): what disturbs one half of an
invariant leaves the other alone.

`EmulatorConstants` has one assumption that limits more than notation: at most one
supervisor is killed from outside (`MaxDeaths \in {0, 1}`).  It is needed: with two, TLC
finds `BootsAlone` violated (section 6).  The others keep markers apart from names ("none"
is no watcher and no loop device, 0 no PID and no menu entry), say that the link the
container keeps is among the names, that the viewer is one of the clients, and that there
is a menu entry besides the preset.

### Assistant

The theorem stands in the component's own module, below its properties.
`AssistantIsSafe` proves all of them that are not liveness: `TypeOK`,
`SpeechIsLatest`, `IdleIsIdle`, `SentWherePinned`, `NotSentIsTrue`,
`JournalAgrees`, `ShowsLastWork`, `CloseLeavesSession`, for any number of requests,
kinds of work, faults, snapshots and generations.  The event loop and the worker
thread meet in two queues, the executor's (`pool`) and the finished futures
(`notices`), and the invariant is mostly about what can stand in them at once:

* `QueueInv` - of the jobs that the loop waits for, finished or not, there are at
  most two: a reading of `poll()` first, then the request or the last exit; while
  the state says "busy" the last one is the request or the reading after it;
* `CloseInv` - how far `close()` has come says what is still outstanding;
* `SpeechInv`, `ShowInv` - the reply is of the request accepted last, and what was
  read between requests counts every answer;
* `RequestInv` - the request on its way is the last one, and has neither an answer
  nor an outcome in the journal;
* `SendInv` - a command leaves on the pinned connection, and a request of which one
  may have left knows it or says so: this carries `NotSentIsTrue` from the write
  to the answer through every error path between them.

Only `MaxRequests \in Nat` is assumed.

### ServicesProofs

The composition `MCServices`: all four invariants of the run `services`, for every
value of its constants that satisfies `ServicesConstants`.  `WebBackend` and
`Assistant` have their theorems already; their lemmas are cited through the
instances.  The others are proved here, each from the `IInv` at the end of its own
module:

* `WsBridge` - `OwnerInv` names who has reserved the player's channel, because a
  count alone does not say who may give it back; `TcpInv` says where a connection
  can be open.
* `LanBridge` - a handler that is cancelled inside its `finally` block ends without
  counting itself off, so `count = served` is not inductive.  `CountInv` says that a
  count is never *below* what is served, which is what `announce()` relies on when
  it reads zero, and equal to it until the forwarder stops; `TaskInv`, that only a
  connection that is being served can be cancelled.
* `Utterance` - `WorkerInv` and `CallInv` follow a digest from the file to the
  worker, the reply and the record, *unless* the file was replaced while somebody
  was using it (`rash`, `replaced`); `PlaceInv` says that a request is in one place:
  unsent, on its way, served or answered, and that an abandoned one never has the
  number of one that is being waited for.
* `Ota` - `RunInv` says what a run knows: its pair is the highest of its rows and,
  when it is about to open an issue, still without one.  That the newest of a
  sequence of rows exists is a minimum of a well-founded order, not an induction
  over the sequence.

`IInv` says that the component that runs satisfies its own; `StepIInv` shows for
each that a step of the composition is a step of the component, or leaves it alone.
`SameCardinality` tells the prover that the instances count alike.

*Voice* (`VoiceInvariance`, `VoiceOwnAnswers`, `VoiceUnowned`).  `AnswersAreOwn` and `NothingRunsUnowned`, for any number of speech requests and
processes, with either adapter.  `IInv` has parts that always hold:

* `LockInv` - a request holds the provider's lock from `invoke()` to the end of
  its `finally` block, and at no other place;
* `CloseInv` - where `close()` stands says what the runtime's loop does;

and parts that hold while the runtime is `Undisturbed`, that is without the two
cases of section 6 (work submitted after `close()` began, and a cleanup that is
cancelled while it waits for its thread):

* `TaskInv` - one task runs, that of the lock's owner or, while `close()` waits, of
  a request whose drain it cancelled;
* `ThreadInv` - a thread that runs has a task that waits for it;
* `ProcessInv` - a process that runs is the adapter's, or is about to become so;
* `PipeInv` - what is in the pipe of the adapter's process belongs to the request
  that waits for it: this is why nobody reads an earlier answer.

`VoiceQuietStep` shows that a disturbance is not forgotten, so the second group may be
assumed before every step after which it is claimed.  The theorems assume that
"nobody" is not the name of a request, and that the bound on processes is a
natural number.

### Only model-checked

* Liveness, which is beyond the prover: `CallsReturn`, `WorkerKeepsUp`,
  `CloseForgets` (its safety part is proved), `ViewSettles`, `RequestsEnd`.
* `NotSentIsHonest` for several callers: it is false (finding 1).
* The six invariants of the run `player`.  `Readings`, `Tuning`, `Choose` and
  `Interpret` are mostly functions of their input; a proof would restate their case
  analysis.

## 6. Observations

What modelling showed and no run states as a property, in most cases because no
document of the repository promises otherwise.

* *Machine.*  Two supervisors killed from outside: a client that restores what
  the first one left, and is slow, empties the PID file of the second guest.
  When the second supervisor is killed too, a start finds "inactive" and boots
  on top of a running guest.  Without any death: `cut --unsynced` finds a
  supervisor that is about to leave, and writes its request after it has left;
  `start()` does not delete the file, so that the next machine's stop, by its TTL or
  by a signal, drops unsynced data that nobody asked it to drop (`sup.drop` without
  `asked`).
* *Web backend.*  A scan whose thread cannot start: finding 3.  `HTTPClient.request()`
  lets the errors of `http.client` through (`fiio_http.py:103`), which are neither
  `OSError`, `ValueError` nor `RuntimeError`: when the answer to an upload is malformed
  or cut short, the error passes `_perform` (`session.py:313`) and `Imports.run()`
  (`imports.py:130`), the worker ends (`Dies`), the gate is released, and the page
  shows "sending" for good, although `disc_web/docs/architecture.md:112` says that
  unknown results remain uncertain.  The synchronisation names this kind of error
  (`catalogue.py:115`).
* *LinkClient.*  After a timeout a late page reply answers the next query for a
  page; a notification can be taken for the reply to 0202; the WebSocket client
  drops the oldest frame of a full queue.
* *Displays.*  Rows of the queue that are tagged after the lease ended may carry a
  newer connection's generation; they are verified again before they are played.
* *Theme, Edits, Upload.*  The player has no compare-and-swap: a change by another
  hand between the last check and the write is lost or met.
* *Artwork.*  A song that changes and changes back within one capture leaves a
  wrong cover, marked "not-atomic", as documented.
* *Journal.*  An export that reads for longer than the lock timeout makes other
  processes' answers "uncertain"; an interrupt during the last prune overwrites
  a completed row with "interrupted"; the counts that prune and clear report
  are read alongside other writers.
* *Saved.*  A process that found no catalogue can overwrite one that was imported
  just then.
* *Launch.*  Two setups at once make a key each; a kill between creating and
  writing the configuration leaves it empty; an edit during the downloads is
  overwritten (and kept in the backup); a kill before `voices.json` leaves speech
  configured without its list.
* *Voice.*  A request that is past `ensure_loop()` when `close()` begins may hang,
  or leave a process; a second cancellation while Sherpa's cleanup waits frees
  the lock while the thread still runs.
* *Utterance.*  The worker hashes its checkpoint after loading it; the digest is
  cached by size and time and read again after the call.
* *LanBridge.*  A connection accepted during the stop is not cancelled but waited
  for; a handler cancelled in its `finally` block skips its count.
* *Peripherals.*  A power change can take the device lock between `set_sd` and the
  start of its thread.  *Touch.*  A browser's `/down` and `/up` that arrive in the
  other order leave the panel touched.  *Capture.*  The text of the format can get a newer
  capture's stamp (`audio.py:14-17`).  *Card.*  Concurrent insert and detach can
  publish the nodes of a detached loop.  *Keys.*  A release names its key only: a
  late one ends a newer press.  *Setup.*  A table without its row, left by
  a killed setup, stops later ones.  *Links.*  An isolate that fails after
  `netns del` leaves the guest on the container's links.

## 7. Not modelled

`PROJECT.json` says for each component what is left out.  In short: the playback
position and seeking; the encoding of each command, formats of audio and images,
the classifiers' numbers; `PlaybackClient`, the sequential client of the command
line tools; `importing.scan` beyond the web backend's job, `check_events`' reading
of events one by one; shortened album names and the scan command of the library;
the HTTP proxy of the WebSocket bridge; the saved list of connections and the
demo of the web backend; `history` commands that only read, the assistant's
terminal and command line, synthesis, `speech-up`, `voice/recognition.py`
(interfaces only); atomicity of `gpio.apply`, battery and sensor values; the
viewer's static files; firmware downloads and profiles; research notes, patches,
CI and evaluation programs, which run once on files without a protocol.
`Choose` leaves edition markers out; `Displays` the artist scope, `album_info` and
the check of a playlist's position.

Smaller abstractions, where a reader of the code may look for more:
`Machine.SupervisorDies` only kills a supervisor whose guest is named in
`init.pid` already, and `kill_guest_tree`, `restore_view` and the unmounts behind them do
not fail; the renames of `Peripherals._move_nodes` are one step; a cancelled
handler of `LanBridge` has closed its upstream, and `WsBridge.shutdown` also ends
requests that were not prepared yet; `Theme.verifies` leaves the flag in use out;
`Artwork.record` replaces the row when there is nothing to record, too;
`Displays.verify_expected` compares names only, and an album always has a
snapshot; `Journal.Returns` takes an operation's status as honest, and the prune
on entry does not fail; in `Interpret.extract` quotations and languages that are not
installed are one case, in `Choose.similarity` the kinds of match are one datum;
`Assistant.poll` leaves readings out that would find what is shown already.

Abstractions common to several modules: an SQLite transaction is one step at its
commit; a region under a lock that performs no I/O is one step; a full read of
the player's catalogue sees one moment (an interrupted one is rejected by the
code unless an edit is taken back meanwhile).

## 8. What is left

* A proof of `LinkClient.AnswersAreOwn`; `FramesAreWhole` needs induction over the
  stream and stays with TLC.
* Proofs of the sequential operations: `Edits.OutcomeIsHonest` and
  `Edits.MeetsItsTarget`, `Upload.NothingIsTruncated`.
* An abstract at-most-once dispatcher for `WebBackend`, in the manner of
  `CommandLedger`.
