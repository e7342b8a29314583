--------------------------------- MODULE Artwork ---------------------------------
(* Covers and durations observed from what is playing (library/observation.py and             *)
(* enrichment.py, captured by the web backend): a capture reads the track, its cover, the      *)
(* album's rows and the track again, none of it atomic, and files the cover under the row of   *)
(* the snapshot it matched.  Songs go on, the player's library is scanned anew, another        *)
(* process publishes snapshots and captures too.                                              *)
EXTENDS FiniteSetsExt, Naturals, Sequences

CONSTANTS Captures,  \* processes that capture
          MaxMoves,  \* bound: changes of the song or of the player's library
          MaxArtwork \* bound of the code: covers that are stored (MAX_ARTWORK)

VARIABLES
  player,  \* external: the list it has, the song that plays
  head,    \* the generation of the library store
  rows,    \* the observations: per generation and ordinal a cover, and whether it was filed raced
  artwork, \* the covers that are stored
  capture, \* per process: position, generation, track, cover, ordinal, raced
  moves    \* history

vars == <<player, head, rows, artwork, capture, moves>>

\* Songs: two albums; two recordings have the same tags.
Songs == {"a", "b", "c", "c2"}
Tags(song) == IF song = "c2" THEN "c" ELSE song
Album(song) == IF song \in {"a", "b"} THEN "x" ELSE "y"
Lists == << <<"a", "b", "c", "c2">>, <<"b", "a", "c">> >>
Cover(song) == IF song = "b" THEN "none" ELSE song
Members(list, album) == {i \in DOMAIN Lists[list] : Album(Lists[list][i]) = album}
Row(list, album) == SelectSeq([i \in DOMAIN Lists[list] |-> IF i \in Members(list, album) THEN Tags(Lists[list][i]) ELSE "other"],
                              LAMBDA t : t # "other")

Idle == [pc |-> "idle", generation |-> 0, song |-> "a", cover |-> "none", ordinal |-> 0, raced |-> FALSE]
NoRow == [cover |-> "none", raced |-> FALSE]

Init ==
  /\ \E list \in DOMAIN Lists : player = [list |-> list, song |-> "a", plays |-> TRUE]
  /\ head = 1 /\ rows = [g \in DOMAIN Lists |-> [i \in 1..4 |-> NoRow]] /\ artwork = {}
  /\ capture = [c \in Captures |-> Idle] /\ moves = 0

At(c, pc) == capture[c].pc = pc
Stays == UNCHANGED <<player, head, moves>>
Fails(c) == capture' = [capture EXCEPT ![c] = Idle]

\* The snapshot, then the track that plays.
begin(c) ==
  /\ At(c, "idle") /\ capture' = [capture EXCEPT ![c] = [Idle EXCEPT !.pc = "before", !.generation = head]]
  /\ UNCHANGED <<rows, artwork>> /\ Stays
before(c) ==
  /\ At(c, "before") /\ UNCHANGED <<rows, artwork>> /\ Stays
  /\ IF player.plays THEN capture' = [capture EXCEPT ![c].pc = "cover", ![c].song = player.song] ELSE Fails(c)

\* The cover of what plays now; none when it cannot be read or is no image.
cover(c) ==
  /\ At(c, "cover") /\ UNCHANGED <<rows, artwork>> /\ Stays
  /\ \E image \in {Cover(player.song), "none"} : capture' = [capture EXCEPT ![c].pc = "candidate", ![c].cover = image]

\* Mutant: the first row with the tags.
Bug_candidate(c) ==
  LET s == capture[c].song
      matches == {i \in Members(capture[c].generation, Album(s)) : Tags(Lists[capture[c].generation][i]) = Tags(s)}
  IN
  /\ At(c, "candidate") /\ UNCHANGED <<rows, artwork>> /\ Stays
  /\ capture' = [capture EXCEPT ![c].pc = "after", ![c].ordinal = IF matches = {} THEN 0 ELSE Min(matches)]

\* The only row of the album with these tags, while the player has the album as the snapshot
\* has it; a reading that is not stable ends the capture, one that fails leaves no row.
candidate(c) ==
  LET s == capture[c].song
      g == capture[c].generation
      matches == {i \in Members(g, Album(s)) : Tags(Lists[g][i]) = Tags(s)}
  IN
  /\ At(c, "candidate") /\ UNCHANGED <<rows, artwork>> /\ Stays
  /\ \/ capture' = [capture EXCEPT ![c].pc = "after", ![c].ordinal =
                     IF Cardinality(matches) = 1 /\ Row(player.list, Album(s)) = Row(g, Album(s)) THEN CHOOSE i \in matches : TRUE ELSE 0]
     \/ capture' = [capture EXCEPT ![c].pc = "after", ![c].ordinal = 0]
     \/ Fails(c)

\* Mutant: the track is not read again.
Bug_after(c) ==
  /\ At(c, "after") /\ UNCHANGED <<rows, artwork>> /\ Stays
  /\ capture' = [capture EXCEPT ![c].pc = "record"]

\* The same track in the same state, the same snapshot, and a row to file it under.
after(c) ==
  /\ At(c, "after") /\ UNCHANGED <<rows, artwork>> /\ Stays
  /\ IF player.plays /\ player.song = capture[c].song /\ head = capture[c].generation /\ capture[c].ordinal # 0
     THEN capture' = [capture EXCEPT ![c].pc = "record"] ELSE Fails(c)

\* Mutant: what is stored already is counted before the transaction.
Bug_record(c) ==
  /\ At(c, "record") /\ Fails(c) /\ Stays
  /\ artwork' = artwork \union ({capture[c].cover} \ {"none"})
  /\ rows' = [rows EXCEPT ![capture[c].generation][capture[c].ordinal] = [cover |-> capture[c].cover, raced |-> capture[c].raced]]

\* One transaction: a new cover is stored if there is room, and the row replaces the last one.
record(c) ==
  LET image == capture[c].cover
      kept == IF image \in artwork \/ Cardinality(artwork) < MaxArtwork THEN image ELSE "none"
  IN
  /\ At(c, "record") /\ Fails(c) /\ Stays
  /\ artwork' = artwork \union ({kept} \ {"none"})
  /\ rows' = [rows EXCEPT ![capture[c].generation][capture[c].ordinal] = [cover |-> kept, raced |-> capture[c].raced]]

\* The song goes on, stops, or the library is scanned anew; a capture under way does not see
\* a song that went away and came back.
Moves ==
  /\ moves < MaxMoves /\ moves' = moves + 1 /\ UNCHANGED <<head, rows, artwork>>
  /\ \/ \E song \in {Lists[player.list][i] : i \in DOMAIN Lists[player.list]} :
          song # player.song /\ player' = [player EXCEPT !.song = song, !.plays = TRUE]
     \/ player' = [player EXCEPT !.plays = ~@]
     \/ \E list \in DOMAIN Lists : player' = [player EXCEPT !.list = list, !.plays = FALSE, !.song = "a"]
  /\ capture' = [c \in Captures |-> IF capture[c].pc \in {"cover", "candidate", "after"}
                   THEN [capture[c] EXCEPT !.raced = @ \/ (player.song # capture[c].song /\ player'.song = capture[c].song)] ELSE capture[c]]
Publish == head < Len(Lists) /\ head' = head + 1 /\ UNCHANGED <<player, rows, artwork, capture, moves>>

Next == (\E c \in Captures : begin(c) \/ before(c) \/ cover(c) \/ candidate(c) \/ after(c) \/ record(c)) \/ Moves \/ Publish
Spec == Init /\ [][Next]_vars

(* ----------------------------------- properties ----------------------------------- *)

TypeOK ==
  /\ player.list \in DOMAIN Lists /\ player.song \in Songs /\ head \in DOMAIN Lists /\ artwork \subseteq Songs
  /\ \A c \in Captures : capture[c].pc \in {"idle", "before", "cover", "candidate", "after", "record"}

\* A cover is filed under a row only when it is the cover of that row's recording, though two
\* recordings may have the same tags and the song may change between any two reads; but for a
\* song that went away and came back within one capture.
CoverIsOwn ==
  \A g \in DOMAIN Lists, i \in 1..4 :
    rows[g][i].cover # "none" /\ ~rows[g][i].raced => i <= Len(Lists[g]) /\ rows[g][i].cover = Cover(Lists[g][i])

\* The stored covers stay within their limit, and every row's cover is stored.
ArtworkFits ==
  /\ Cardinality(artwork) <= MaxArtwork
  /\ \A g \in DOMAIN Lists, i \in 1..4 : rows[g][i].cover # "none" => rows[g][i].cover \in artwork
=================================================================================
