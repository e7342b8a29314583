---------------------------------- MODULE Choose ---------------------------------
(* From an interpreted request for music to the row that is to be played (resolver.py,       *)
(* ranking.py, matching.py, context.py of the assistant): a bare phrase is taken apart with   *)
(* the catalogue's own names, the album or artist that is playing is searched first, then the *)
(* whole snapshot, then the search engine.  Meanwhile another process publishes a snapshot    *)
(* and its index, and hands go on at the player.  A name is a sequence of words.             *)
EXTENDS SequencesExt, Naturals

CONSTANTS Documents,  \* rows a catalogue can have: title, artist, album
          Catalogues, \* the snapshots: sets of rows
          Phrases,    \* what is asked for
          MaxHands    \* bound: changes on the player

VARIABLES
  library, \* the snapshot that is current, the snapshot the index is of
  player,  \* external: from where it plays, its queue and the row
  op,      \* the request: as interpreted, as resolved, position, pinned snapshot, context
  chosen,  \* what is to be played, with the scope it was found in
  hands,   \* history: changes on the player
  changed  \* history: the player changed since the choice was last compared with it

vars == <<library, player, op, chosen, hands, changed>>

NoName == <<>>
Nothing == [kind |-> "none", artist |-> NoName, title |-> NoName, album |-> NoName, scope |-> "none", score |-> 0]
Sources == {"current_queue", "artist", "album", "artist_scope", "playlist"}

\* A misheard word, and two words written as one.
Fuzzy == {<<"z", "x">>}
Fused == [xt |-> <<"x", "t">>, xq |-> <<"x", "q">>]

similar(word, other) == word = other \/ <<word, other>> \in Fuzzy
similarity(query, name) ==
  IF query = name THEN 100
  ELSE IF Len(query) = Len(name) /\ \A i \in DOMAIN query : similar(query[i], name[i]) THEN 92 ELSE 0
strong_match(query, name) == query = name

Rows(g) == Catalogues[g]
Artists(docs) == {d.artist : d \in docs}

(* --------------------------------- resolver.infer --------------------------------- *)

Split(query, n) == [artist |-> SubSeq(query, 1, n), title |-> SubSeq(query, n + 1, Len(query))]
LeadingNames(query, docs) == {n \in 1..Len(query) - 1 : SubSeq(query, 1, n) \in Artists(docs)}
Boundaries(query, docs) ==
  {<<a, n>> \in Artists(docs) \X (1..Len(query) - 1) : similarity(SubSeq(query, 1, n), a) >= 90}
Pieces(query) == IF Len(query) = 1 /\ query[1] \in DOMAIN Fused THEN Fused[query[1]] ELSE NoName
HasFusedPrefix(query, docs) == Pieces(query) # NoName /\ \E a \in Artists(docs) : a = SubSeq(Pieces(query), 1, 1)

\* Mutant: the artist is played when nothing of his matches the rest of the phrase.
Bug_infer(intent, docs) ==
  LET q == intent.query IN
  IF intent.kind # "auto" \/ intent.artist # NoName THEN intent
  ELSE IF q \in Artists(docs) THEN [intent EXCEPT !.kind = "artist"]
  ELSE IF \E d \in docs : d.title = q THEN [intent EXCEPT !.kind = "track"]
  ELSE IF LeadingNames(q, docs) # {} THEN [intent EXCEPT !.kind = "artist", !.query = SubSeq(q, 1, CHOOSE n \in LeadingNames(q, docs) : TRUE)]
  ELSE intent

\* An exact artist, an exact title, the longest artist that begins the phrase, the only
\* boundary at a similar artist, and a fused phrase of an artist and a title of his.
infer(intent, docs) ==
  LET q == intent.query
      split(s) == [intent EXCEPT !.kind = "track", !.artist = s.artist, !.title = s.title]
  IN
  IF intent.kind # "auto" \/ intent.artist # NoName THEN intent
  ELSE IF q \in Artists(docs) THEN [intent EXCEPT !.kind = "artist"]
  ELSE IF \E d \in docs : d.title = q THEN [intent EXCEPT !.kind = "track"]
  ELSE IF LeadingNames(q, docs) # {} THEN split(Split(q, CHOOSE n \in LeadingNames(q, docs) : \A m \in LeadingNames(q, docs) : m <= n))
  ELSE IF Cardinality(Boundaries(q, docs)) = 1
    THEN LET b == CHOOSE b \in Boundaries(q, docs) : TRUE IN split([artist |-> b[1], title |-> Split(q, b[2]).title])
  ELSE IF HasFusedPrefix(q, docs)
    THEN LET s == Split(Pieces(q), 1) IN
         IF \E d \in docs : d.artist = s.artist /\ d.title = s.title THEN split(s) ELSE [intent EXCEPT !.kind = "track"]
  ELSE intent

(* ---------------------------------- ranking.rank ---------------------------------- *)

\* A track's score: the title's and the artist's, or of a bare phrase the title's or that of
\* both names together; nothing below the thresholds is a candidate.  (Edition markers in a
\* title, live or remastered, only lower a score and are left out.)
track_score(intent, d) ==
  LET t == similarity(IF intent.title # NoName THEN intent.title ELSE intent.query, d.title)
      a == similarity(intent.artist, d.artist)
      both == IF intent.kind = "auto" THEN similarity(intent.query, d.artist \o d.title) ELSE 0
  IN IF intent.artist # NoName THEN (IF a >= 72 /\ t >= 55 THEN (75 * t + 25 * a) \div 100 ELSE 0)
     ELSE IF t >= both THEN t ELSE both
Tracks(intent, docs, scope) ==
  {[kind |-> "track", artist |-> d.artist, title |-> d.title, album |-> d.album, scope |-> scope, score |-> track_score(intent, d)] :
     d \in {e \in docs : track_score(intent, e) >= 60}}
score_artists(intent, docs) ==
  {[Nothing EXCEPT !.kind = "artist", !.artist = a, !.scope = "artists", !.score = similarity(intent.query, a)] :
     a \in {b \in Artists(docs) : similarity(intent.query, b) >= 80}}

\* An album by its name, of the artist that was named or of everybody's.
score_albums(intent, docs) ==
  {[Nothing EXCEPT !.kind = "album", !.album = x[1], !.artist = x[2], !.scope = "albums", !.score = similarity(intent.query, x[1])] :
     x \in {y \in {<<d.album, IF intent.artist = NoName THEN NoName ELSE d.artist>> : d \in docs} :
             similarity(intent.query, y[1]) >= 80 /\ (intent.artist = NoName \/ similarity(intent.artist, y[2]) >= 80)}}

\* The best score; an artist before a track of the same.
First(candidates) ==
  {c \in candidates : \A o \in candidates : o.score < c.score \/ (o.score = c.score /\ (o.kind = "artist" => c.kind = "artist"))}

\* What is playing, if the queue holds just the rows the catalogue has of it.
Holds(docs, queue) == docs # {} /\ {<<d.title, d.artist>> : d \in docs} = {<<queue[i].title, queue[i].artist>> : i \in DOMAIN queue}
                      /\ Cardinality(docs) = Len(queue)

\* Mutant: some of the rows are enough.
Bug_scopes(context, docs) ==
  IF ~context.known \/ context.source \notin Sources \ {"playlist"} \/ context.row \notin DOMAIN context.queue THEN <<>>
  ELSE LET song == context.queue[context.row] IN
       <<[name |-> "album", docs |-> {d \in docs : d.album = song.album /\ d.artist = song.artist}]>>

scopes(context, docs) ==
  IF ~context.known \/ context.source \notin Sources \ {"playlist"} \/ context.row \notin DOMAIN context.queue THEN <<>>
  ELSE LET song == context.queue[context.row]
           of_artist == {d \in docs : d.artist = song.artist}
           of_album == {d \in docs : d.album = song.album /\ (context.source = "album" \/ d.artist = song.artist)}
           artist == [name |-> "artist", docs |-> of_artist]
       IN IF context.source # "artist" /\ Holds(of_album, context.queue) THEN <<[name |-> "album", docs |-> of_album], artist>>
          ELSE IF context.source # "album" /\ Holds(of_artist, context.queue) THEN <<artist>> ELSE <<>>

Init ==
  /\ library = [head |-> 1, index |-> 1]
  /\ \E source \in Sources, queue \in {SetToSeq(c) : c \in SUBSET Documents} :
       player = [source |-> source, queue |-> queue, row |-> IF queue = <<>> THEN 0 ELSE 1, known |-> queue # <<>>]
  /\ \E q \in Phrases, kind \in {"auto", "track", "artist", "album"}, artist \in {NoName, <<"x">>} :
       /\ artist # NoName => kind \in {"track", "album"}
       /\ op = [intent |-> [kind |-> kind, query |-> q, artist |-> artist, title |-> IF artist = NoName THEN NoName ELSE q],
                asked |-> [query |-> q, artist |-> artist], pc |-> "begin", head |-> 0, context |-> player]
  /\ chosen = Nothing /\ hands = 0 /\ changed = FALSE

Ready == library.index = library.head
Goto(pc) == op' = [op EXCEPT !.pc = pc]
Fails == Goto("failed") /\ UNCHANGED chosen
Rests == UNCHANGED <<library, player, hands>>

begin ==
  /\ op.pc = "begin" /\ UNCHANGED <<chosen, changed>> /\ Rests
  /\ IF ~Ready THEN Goto("failed")
     ELSE LET intent == infer(op.intent, Rows(library.head))
          IN op' = [op EXCEPT !.intent = intent, !.head = library.head,
                              !.pc = IF intent.kind = "album" THEN "albums" ELSE IF intent.kind # "artist" /\ intent.artist = NoName THEN "context" ELSE "local"]

\* The player is read in a lease of its own.
read ==
  /\ op.pc = "context" /\ UNCHANGED chosen /\ Rests /\ changed' = FALSE
  /\ \/ op' = [op EXCEPT !.pc = "scopes", !.context = player]
     \/ op' = [op EXCEPT !.pc = "scopes", !.context.known = FALSE]

Takes(candidates, next) ==
  \E c \in First(candidates) : chosen' = c /\ Goto(next)

contextual ==
  /\ op.pc = "scopes" /\ UNCHANGED changed /\ Rests
  /\ LET found == SelectSeq([i \in DOMAIN scopes(op.context, Rows(op.head)) |->
                     LET s == scopes(op.context, Rows(op.head))[i]
                     IN Tracks(op.intent, {d \in s.docs : similarity(IF op.intent.title # NoName THEN op.intent.title ELSE op.intent.query, d.title) >= 85}, s.name)],
                     LAMBDA s : s # {})
     IN IF found = <<>> THEN Goto("local") /\ UNCHANGED chosen
        ELSE IF ~Ready \/ library.head # op.head THEN Fails
        ELSE Takes(Head(found), "play")

album ==
  /\ op.pc = "albums" /\ UNCHANGED changed /\ Rests
  /\ LET albums == score_albums(op.intent, Rows(op.head)) IN
     IF ~Ready \/ library.head # op.head \/ albums = {} THEN Fails ELSE Takes(albums, "play")

Known == {a \in Artists(Rows(op.head)) : op.intent.artist # NoName /\ strong_match(op.intent.artist, a)}
Pool == IF Known = {} THEN Rows(op.head) ELSE {d \in Rows(op.head) : d.artist \in Known}
Exact == {d \in Pool : /\ strong_match(IF op.intent.title # NoName THEN op.intent.title ELSE op.intent.query, d.title)
                       /\ op.intent.artist = NoName \/ strong_match(op.intent.artist, d.artist)}

\* Exact rows of the whole snapshot, else what the search engine gives of its own snapshot.
rank ==
  /\ op.pc = "local" /\ UNCHANGED changed /\ Rests
  /\ LET artists == IF op.intent.kind = "track" THEN {} ELSE score_artists(op.intent, Pool)
         tracks == Tracks(op.intent, Exact, "snapshot")
     IN \/ /\ op.intent.kind = "artist" \/ tracks # {}
           /\ IF ~Ready \/ library.head # op.head \/ artists \union tracks = {} THEN Fails
              ELSE Takes(artists \union (IF op.intent.kind = "artist" THEN {} ELSE tracks), "play")
        \/ /\ op.intent.kind # "artist" /\ tracks = {}
           /\ \E hits \in SUBSET Rows(library.index) :
                IF ~Ready \/ library.head # op.head
                   \/ artists \union Tracks(op.intent, {d \in hits : Known = {} \/ d.artist \in Known}, "search") = {} THEN Fails
                ELSE Takes(artists \union Tracks(op.intent, {d \in hits : Known = {} \/ d.artist \in Known}, "search"), "play")

\* Mutant: what is playing is not compared again.
Bug_verify ==
  /\ op.pc = "play" /\ UNCHANGED chosen /\ Rests /\ changed' = FALSE
  /\ Goto("send")

\* Before the selection leaves, the player must still play what the choice was made for.
verify ==
  /\ op.pc = "play" /\ UNCHANGED chosen /\ Rests /\ changed' = FALSE
  /\ IF library.head # op.head \/ (chosen.scope \in {"album", "artist"} /\ player # op.context) THEN Goto("failed") ELSE Goto("send")

send == op.pc = "send" /\ Goto("sent") /\ UNCHANGED <<chosen, changed>> /\ Rests

\* Another process synchronises, then indexes.
Publish ==
  /\ op.pc \notin {"sent", "failed"} /\ UNCHANGED <<player, op, chosen, hands, changed>>
  /\ \/ library.head < Len(Catalogues) /\ library' = [library EXCEPT !.head = @ + 1]
     \/ library.index # library.head /\ library' = [library EXCEPT !.index = library.head]

Hand ==
  /\ op.pc \notin {"sent", "failed"} /\ hands < MaxHands /\ hands' = hands + 1 /\ changed' = TRUE
  /\ \/ \E i \in DOMAIN player.queue : i # player.row /\ player' = [player EXCEPT !.row = i]
     \/ \E d \in Documents, s \in Sources : player' = [source |-> s, queue |-> <<d>>, row |-> 1, known |-> TRUE]
  /\ UNCHANGED <<library, op, chosen>>

Next == begin \/ album \/ read \/ contextual \/ rank \/ verify \/ send \/ Publish \/ Hand
Spec == Init /\ [][Next]_vars

(* ----------------------------------- properties ----------------------------------- *)

TypeOK ==
  /\ library.head \in DOMAIN Catalogues /\ library.index \in 1..library.head
  /\ op.pc \in {"begin", "albums", "context", "scopes", "local", "play", "send", "sent", "failed"}
  /\ chosen.kind \in {"none", "track", "artist", "album"}

\* Every word of a phrase is found in the names of what is chosen for it, in full or misheard,
\* and a named artist is the one that is chosen.
NoWordIsDropped ==
  chosen.kind # "none" =>
    LET said == IF Pieces(op.asked.query) # NoName /\ chosen.kind = "track" THEN {op.asked.query, Pieces(op.asked.query)} ELSE {op.asked.query}
    IN IF chosen.kind = "album"
       THEN similarity(op.asked.query, chosen.album) > 0 /\ (op.asked.artist # NoName => similarity(op.asked.artist, chosen.artist) > 0)
       ELSE IF op.asked.artist # NoName
       THEN similarity(op.asked.artist, chosen.artist) > 0 /\ similarity(op.asked.query, chosen.title) > 0
       ELSE \E q \in said : \E name \in {chosen.artist, chosen.title, chosen.artist \o chosen.title} :
              similarity(q, name) > 0 /\ (name = chosen.artist => chosen.kind = "artist" \/ name = chosen.title)

\* What was found in the album or by the artist that was playing is sent only while that
\* album or artist is what plays, row by row, or after a hand moved since the last look.
ContextHolds ==
  op.pc = "sent" /\ chosen.scope \in {"album", "artist"} /\ ~changed =>
    /\ player = op.context
    /\ LET song == player.queue[player.row] IN
       IF chosen.scope = "album" THEN \A i \in DOMAIN player.queue : player.queue[i].album = song.album
       ELSE chosen.artist = song.artist
=================================================================================
