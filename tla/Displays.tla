-------------------------------- MODULE Displays --------------------------------
(* What a browser displays and what it then may select (disc_web/backend/device.py): lists   *)
(* read from the player or from its saved catalogue, the tokens that stand for them, and      *)
(* the selection of a displayed row, while the connection, the player's lists, the saved       *)
(* catalogue and the chosen player change.  The player's lists are external; Playback models    *)
(* what happens between the last check of a selection and its confirmation.                     *)
EXTENDS Naturals, Sequences, SequencesExt

CONSTANTS Pages,      \* browser pages
          Players,    \* the players' addresses
          Contents,   \* collections a player may hold: sequences of tracks, each an album and a name
          MaxSources, \* the displays that are remembered (32)
          MaxDisplays, \* bound: displays
          MaxChanges  \* bound: changes of the world

VARIABLES
  world,   \* each player's collection
  saved,   \* each player's saved catalogue: its generation and rows
  device,  \* the chosen player, generation_base, the session's generation and connection
  lock,    \* Device.lock: free, a page or "settings"
  leased,  \* the page whose request holds the session's connection
  sources, \* the remembered displays, oldest first
  page,    \* each page's display
  req,     \* each page's request
  settings, \* configure(): idle, exit or swap
  sent,    \* history: the last selection that was sent: what was shown and what it named
  count    \* history: displays and changes

vars == <<world, saved, device, lock, leased, sources, page, req, settings, sent, count>>

Free == "free"
generation == device.base + device.raw
Blank == [token |-> 0, kind |-> "none", player |-> "none", rows |-> <<>>, snapshot |-> 0]
Idle == [pc |-> "idle", kind |-> "none", rows |-> <<>>, read |-> 0, snapshot |-> 0, click |-> 0, index |-> 0, scope |-> "none", album |-> "none"]
NoSend == [shown |-> <<>>, named |-> <<>>]

Init ==
  /\ device = [player |-> CHOOSE e \in Players : TRUE, base |-> 0, raw |-> 1, up |-> TRUE]
  /\ LET c == CHOOSE c \in Contents : TRUE  \* the players hold the same at first, and the chosen one is synchronized
     IN /\ world = [e \in Players |-> c]
        /\ saved = [e \in Players |-> IF e = device.player THEN [generation |-> 1, rows |-> c] ELSE [generation |-> 0, rows |-> <<>>]]
  /\ lock = Free /\ leased = Free /\ sources = <<>> /\ page = [p \in Pages |-> Blank] /\ req = [p \in Pages |-> Idle]
  /\ settings = "idle" /\ sent = NoSend /\ count = [displays |-> 0, changes |-> 0]

\* Rows have an album, a name and no identity of their own.
tracks(rows, album) == SelectSeq(rows, LAMBDA r : r.album = album)
genre_rows(rows) == Reverse(rows)  \* the player's own order
Rows(rows, scope, album) ==
  CASE scope = "album" -> tracks(rows, album) [] scope = "genre" -> genre_rows(rows) [] OTHER -> rows
selection(rows, i) ==
  LET album == rows[i].album IN [album |-> album, expected |-> tracks(rows, album), index |-> Len(tracks(SubSeq(rows, 1, i), album))]

Goto(p, pc) == req' = [req EXCEPT ![p].pc = pc]
Over(p) == req' = [req EXCEPT ![p] = Idle] /\ lock' = (IF lock = p THEN Free ELSE lock) /\ leased' = (IF leased = p THEN Free ELSE leased)

(* ------------------------------------ the world ------------------------------------ *)

Change == count.changes < MaxChanges /\ count' = [count EXCEPT !.changes = @ + 1]

\* The worker replaces a connection that ended, when no operation holds it.
Reconnect ==
  /\ settings # "swap" /\ leased = Free /\ Change
  /\ device' = [device EXCEPT !.up = ~@, !.raw = IF device.up THEN @ ELSE @ + 1]
  /\ UNCHANGED <<world, saved, lock, leased, sources, page, req, settings, sent>>

PlayerChanges ==
  /\ Change /\ \E e \in Players, c \in Contents : c # world[e] /\ world' = [world EXCEPT ![e] = c]
  /\ UNCHANGED <<saved, device, lock, leased, sources, page, req, settings, sent>>

\* A synchronization publishes the player's rows under a new generation.
Sync ==
  /\ Change /\ \E e \in Players : saved' = [saved EXCEPT ![e] = [generation |-> count.changes + 2, rows |-> world[e]]]
  /\ UNCHANGED <<world, device, lock, leased, sources, page, req, settings, sent>>

\* Ten minutes pass.
Expire ==
  /\ Change /\ sources # <<>> /\ sources' = [i \in DOMAIN sources |-> [sources[i] EXCEPT !.aged = TRUE]]
  /\ UNCHANGED <<world, saved, device, lock, leased, page, req, settings, sent>>

(* ------------------------------------- displays ------------------------------------- *)

Shows == count.displays < MaxDisplays /\ count' = [count EXCEPT !.displays = @ + 1]

\* The oldest display is forgotten for a new one.
_remember(p, kind) ==
  LET token == count.displays + 1
      source == [token |-> token, kind |-> kind, rows |-> req[p].rows, snapshot |-> req[p].snapshot,
                 generation |-> generation, read |-> req[p].read, aged |-> FALSE]
      all == Append(sources, source)
  IN /\ Shows /\ sources' = (IF Len(all) > MaxSources THEN Tail(all) ELSE all)
     /\ page' = [page EXCEPT ![p] = [token |-> token, kind |-> kind, player |-> device.player, rows |-> req[p].rows, snapshot |-> req[p].snapshot]]

\* A request for a list of the player takes the lock and the session's connection.
Begin(p, kind) ==
  /\ req[p].pc = "idle" /\ lock = Free /\ device.up /\ count.displays < MaxDisplays
  /\ lock' = p /\ leased' = p /\ req' = [req EXCEPT ![p].pc = "read", ![p].kind = kind]
  /\ UNCHANGED <<world, saved, device, sources, page, settings, sent, count>>

Reads(p) == req' = [req EXCEPT ![p].pc = "show", ![p].rows = world[device.player], ![p].read = generation]

\* Mutant: the lease ends with the reading.
Bug_browse(p) ==
  /\ req[p].kind = "tracks"
  /\ \/ /\ req[p].pc = "read" /\ Reads(p) /\ leased' = Free /\ UNCHANGED <<lock, sources, page, count>>
     \/ req[p].pc = "show" /\ _remember(p, "tracks") /\ Over(p)
  /\ UNCHANGED <<world, saved, device, settings, sent>>

\* A list of the library is read and remembered under the lease.
browse(p) ==
  /\ req[p].kind = "tracks"
  /\ \/ req[p].pc = "read" /\ Reads(p) /\ UNCHANGED <<lock, leased, sources, page, count>>
     \/ req[p].pc = "show" /\ _remember(p, "tracks") /\ Over(p)
  /\ UNCHANGED <<world, saved, device, settings, sent>>

\* The queue's reading gives the lease up before its rows are remembered.
queue(p) ==
  /\ req[p].kind = "queue"
  /\ \/ req[p].pc = "read" /\ Reads(p) /\ leased' = Free /\ UNCHANGED <<lock, sources, page, count>>
     \/ req[p].pc = "show" /\ _remember(p, "queue") /\ Over(p)
  /\ UNCHANGED <<world, saved, device, settings, sent>>

\* A saved list is read and remembered under state_guard: no replacement of the session comes
\* between, but a synchronization or another connection may.
Guarded(p, kind, rows) ==
  /\ \/ /\ req[p].pc = "idle" /\ settings # "swap" /\ count.displays < MaxDisplays /\ saved[device.player].generation # 0
        /\ req' = [req EXCEPT ![p] = [Idle EXCEPT !.pc = "guarded", !.kind = kind, !.snapshot = saved[device.player].generation, !.rows = rows]]
        /\ UNCHANGED <<lock, leased, sources, page, count>>
     \/ req[p].pc = "guarded" /\ req[p].kind = kind /\ _remember(p, kind) /\ Over(p)
  /\ UNCHANGED <<world, saved, device, settings, sent>>

browse_snapshot(p) == Guarded(p, "snapshot", saved[device.player].rows)
browse_genre(p) == Guarded(p, "genre", genre_rows(saved[device.player].rows))

(* ------------------------------------ selections ------------------------------------ *)

\* An action on the state the page shows now, of a row that may be displayed much longer;
\* index 0 is the album of the first row as a whole.
action(p) ==
  /\ req[p].pc = "idle" /\ page[p].token # 0 /\ lock = Free /\ device.up /\ page[p].rows # <<>>
  /\ \E i \in 0..Len(page[p].rows) : /\ i = 0 => page[p].kind = "snapshot"
                                     /\ req' = [req EXCEPT ![p].pc = "select", ![p].click = i]
  /\ lock' = p /\ UNCHANGED <<world, saved, device, leased, sources, page, settings, sent, count>>

Calls(p, scope, album, index, expected) ==
  /\ req' = [req EXCEPT ![p].pc = "call", ![p].scope = scope, ![p].album = album, ![p].index = index, ![p].rows = expected]
  /\ UNCHANGED <<lock, leased>>

\* Mutant: a position of a saved list is looked up in whatever is saved now.
Bug_Unsaved(source) == saved[device.player].rows = <<>>

\* The saved catalogue is no longer the one displayed.
Unsaved(source) == source.snapshot # saved[device.player].generation

\* What a displayed row stands for: by its token, while it is remembered, of this connection
\* and not old; a saved one in its album, as it was displayed.
_selection(p) ==
  /\ req[p].pc = "select"
  /\ LET i == req[p].click
         known == SelectSeq(sources, LAMBDA s : s.token = page[p].token /\ s.generation = generation /\ ~s.aged)
         now == saved[device.player].rows
     IN IF i = 0
        THEN IF Unsaved(page[p]) THEN Over(p)
             ELSE Calls(p, "album", now[1].album, 1, tracks(now, now[1].album))
        ELSE IF known = <<>> \/ (known[1].kind \in {"snapshot", "genre"} /\ Unsaved(known[1])) THEN Over(p)
        ELSE IF known[1].kind # "snapshot" THEN Calls(p, known[1].kind, "none", i, known[1].rows)
        ELSE i \in DOMAIN now /\ LET row == selection(now, i) IN Calls(p, "album", row.album, row.index, row.expected)
  /\ UNCHANGED <<world, saved, device, sources, page, settings, sent, count>>

\* Mutant: the player's rows are not compared with the displayed ones.
Bug_verify_expected(rows, expected) == Len(rows) = Len(expected)

verify_expected(rows, expected) == [i \in DOMAIN rows |-> rows[i].name] = [i \in DOMAIN expected |-> expected[i].name]

\* The session reads the list again and compares it before it sends the row's position.
select(p) ==
  /\ req[p].pc = "call" /\ Over(p)
  /\ LET rows == Rows(world[device.player], req[p].scope, req[p].album)
         shown == IF req[p].click = 0 THEN tracks(page[p].rows, req[p].album)[1] ELSE page[p].rows[req[p].click]
     IN IF device.up /\ verify_expected(rows, req[p].rows)
        THEN sent' = [shown |-> <<page[p].player, shown.name>>, named |-> <<device.player, rows[req[p].index].name>>]
        ELSE UNCHANGED sent
  /\ UNCHANGED <<world, saved, device, sources, page, settings, count>>

(* ------------------------------------- settings ------------------------------------- *)

\* Another player: the old session ends, and the displays with it.
configure ==
  /\ \/ settings = "idle" /\ lock = Free /\ lock' = "settings" /\ settings' = "exit" /\ Change /\ UNCHANGED <<device, sources>>
     \/ settings = "exit" /\ settings' = "swap" /\ device' = [device EXCEPT !.up = FALSE] /\ UNCHANGED <<lock, sources, count>>
     \/ /\ settings = "swap" /\ \A p \in Pages : req[p].pc # "guarded"
        /\ \E e \in Players \ {device.player} : device' = [player |-> e, base |-> device.base + device.raw + 1, raw |-> 1, up |-> TRUE]
        /\ sources' = <<>> /\ settings' = "idle" /\ lock' = Free /\ UNCHANGED count
  /\ UNCHANGED <<world, saved, leased, page, req, sent>>

Steps(p) == browse(p) \/ queue(p) \/ browse_snapshot(p) \/ browse_genre(p) \/ _selection(p) \/ select(p)
Next ==
  \/ Reconnect \/ PlayerChanges \/ Sync \/ Expire \/ configure
  \/ \E p \in Pages : Steps(p) \/ action(p) \/ \E kind \in {"tracks", "queue"} : Begin(p, kind)
Spec == Init /\ [][Next]_vars

(* ----------------------------------- properties ----------------------------------- *)

TypeOK ==
  /\ lock \in Pages \union {Free, "settings"} /\ leased \in Pages \union {Free}
  /\ Len(sources) <= MaxSources /\ device.player \in Players

\* The row that is sent has the name that was displayed, and goes to the player it was
\* displayed for, whatever has been reconnected, synchronized, replaced or forgotten since.
SentIsShown == sent.shown = sent.named

\* A list read under a lease is tagged with the connection it was read on (the queue is not).
TaggedWhereRead ==
  \A i \in DOMAIN sources : sources[i].kind = "tracks" => sources[i].read = sources[i].generation
=================================================================================
