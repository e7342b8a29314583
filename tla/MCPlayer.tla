------------------------------ MODULE MCPlayer ------------------------------
(* The sequential parts of the controller and of the assistant, each checked by itself:
   a behaviour is one of the component that `part` names. *)
EXTENDS Naturals, Sequences

CONSTANT Parts  \* the components of a run

VARIABLES
  part,  \* the component of this behaviour
  r1, r2, r3, r4, r5, r6, r7, r8, r9, r10, r11, r12, r13  \* its state, in the order of its VARIABLES

vars == <<part, r1, r2, r3, r4, r5, r6, r7, r8, r9, r10, r11, r12, r13>>

MCRequests == {"pause", "next", "mode", "volume", "sound", "favorite", "source", "index",
               "predecessor", "remove"}
Entry(a, n) == [album |-> a, name |-> n]
MCContents == {<<Entry("A", "x"), Entry("B", "y"), Entry("A", "y")>>, <<Entry("A", "y"), Entry("B", "x"), Entry("A", "x")>>}
Doc(t, x, a) == [title |-> t, artist |-> x, album |-> a]
MCDocuments == {Doc(<<"t">>, <<"x">>, <<"a">>), Doc(<<"u">>, <<"x">>, <<"b">>), Doc(<<"x">>, <<"x", "y">>, <<"a">>),
                Doc(<<"y", "t">>, <<"x">>, <<"a">>)}
MCCatalogues == <<MCDocuments, {Doc(<<"t">>, <<"x">>, <<"a">>), Doc(<<"x">>, <<"x", "y">>, <<"a">>)}>>
MCPhrases == {<<"x">>, <<"t">>, <<"x", "t">>, <<"z", "t">>, <<"x", "y", "t">>, <<"xt">>, <<"xq">>, <<"x", "q">>, <<"z">>, <<"a">>}

Playback == INSTANCE Playback WITH Lists <- {<<"a", "b">>, <<"b", "a">>, <<"a">>}, Requests <- MCRequests,
    MaxHands <- 2, MaxWire <- 2, player <- r1, stream <- r2, queries <- r3, waiting <- r4, scan <- r5, op <- r6,
    result <- r7, past <- r8, was <- r9, count <- r10, hit <- r11, disturbed <- r12
Edits == INSTANCE Edits WITH Names <- {"x", "y", "z"}, Songs <- {"a", "b"}, MaxChanges <- 2, lists <- r1,
    library <- r2, op <- r3, result <- r4, wrote <- r5, changed <- r6, count <- r7
Upload == INSTANCE Upload WITH MaxPages <- 3, MaxChanges <- 2, dir <- r1, progress <- r2, op <- r3,
    result <- r4, wrote <- r5, lost <- r6, changed <- r7, count <- r8
Tuning == INSTANCE Tuning WITH MaxHands <- 1, player <- r1, op <- r2, link <- r3, shown <- r4, touched <- r5,
    checked <- r6, hands <- r7
Readings == INSTANCE Readings WITH truth <- r1, raw <- r2, status <- r3, snapshot <- r4, pc <- r5
LinkClient == INSTANCE LinkClient WITH Tasks <- {"t1", "t2"}, MaxQueries <- 2, MaxNotes <- 1, Capacity <- 2,
    kind <- r1, frames <- r2, wire <- r3, kernel <- r4, buffer <- r5, pending <- r6, asked <- r7, call <- r8,
    lock <- r9, end <- r10, seen <- r11, late <- r12, queries <- r13
Theme == INSTANCE Theme WITH Slots <- {1, 2}, MaxHands <- 1, MaxCalls <- 2, screen <- r1, op <- r2, count <- r3,
    was <- r4, touched <- r5
Artwork == INSTANCE Artwork WITH Captures <- {"web", "sync"}, MaxMoves <- 2, MaxArtwork <- 1, player <- r1,
    head <- r2, rows <- r3, artwork <- r4, capture <- r5, moves <- r6
Choose == INSTANCE Choose WITH Documents <- MCDocuments, Catalogues <- MCCatalogues, Phrases <- MCPhrases,
    MaxHands <- 1, library <- r1, player <- r2, op <- r3, chosen <- r4, hands <- r5, changed <- r6
Interpret == INSTANCE Interpret WITH Plugins <- {"rules", "plugin"}, text <- r1, plugin <- r2, request <- r3,
    primary <- r4, source <- r5, collecting <- r6, record <- r7, cancelled <- r8
Saved == INSTANCE Saved WITH Procs <- {"p1", "p2"}, MaxCommands <- 3, MaxEdits <- 1, db <- r1, lock <- r2,
    tx <- r3, proc <- r4, authored <- r5, choice <- r6, refused <- r7, raced <- r8, imported <- r9, count <- r10
Journal == INSTANCE Journal WITH Procs <- {"p1", "p2"}, journal_max_requests <- 1, Statuses <- {"confirmed"},
    Actions <- {"pause"}, MaxRequests <- 2, MaxCommands <- 1, MaxFaults <- 1, rows <- r1, events <- r2,
    last <- r3, old <- r4, proc <- r5, file <- r6, cleared <- r7, cut <- r8, count <- r9, faults <- r10
Displays == INSTANCE Displays WITH Pages <- {"b1", "b2"}, Players <- {"e1", "e2"}, Contents <- MCContents,
    MaxSources <- 1, MaxDisplays <- 2, MaxChanges <- 2, world <- r1, saved <- r2, device <- r3, lock <- r4,
    leased <- r5, sources <- r6, page <- r7, req <- r8, settings <- r9, sent <- r10, count <- r11
Launch == INSTANCE Launch WITH Shells <- {"s1", "s2"}, MaxCommands <- 2, MaxEdits <- 1, config <- r1,
    backups <- r2, key <- r3, assets <- r4, built <- r5, typesense <- r6, shell <- r7, count <- r8,
    wanted <- r9, raced <- r10

Unused13 == r13 = 0
Rest13 == <<r13>>
Unused12 == r12 = 0 /\ Unused13
Rest12 == <<r12, Rest13>>
Unused11 == r11 = 0 /\ Unused12
Rest11 == <<r11, Rest12>>
Unused9 == r9 = 0 /\ r10 = 0 /\ Unused11
Rest9 == <<r9, r10, Rest11>>
Unused8 == r8 = 0 /\ Unused9
Rest8 == <<r8, Rest9>>
Unused7 == r7 = 0 /\ Unused8
Rest7 == <<r7, Rest8>>
Unused6 == r6 = 0 /\ Unused7
Rest6 == <<r6, Rest7>>

Init ==
  /\ part \in Parts
  /\ \/ part = "playback" /\ Playback!Init /\ Unused13
     \/ part = "edits" /\ Edits!Init /\ Unused8
     \/ part = "upload" /\ Upload!Init /\ Unused9
     \/ part = "tuning" /\ Tuning!Init /\ Unused8
     \/ part = "readings" /\ Readings!Init /\ Unused6
     \/ part = "link" /\ LinkClient!Init
     \/ part = "theme" /\ Theme!Init /\ Unused6
     \/ part = "artwork" /\ Artwork!Init /\ Unused7
     \/ part = "choose" /\ Choose!Init /\ Unused7
     \/ part = "interpret" /\ Interpret!Init /\ Unused9
     \/ part = "saved" /\ Saved!Init /\ Unused11
     \/ part = "journal" /\ Journal!Init /\ Unused11
     \/ part = "displays" /\ Displays!Init /\ Unused12
     \/ part = "launch" /\ Launch!Init /\ Unused11

Next ==
  /\ UNCHANGED part
  /\ \/ part = "playback" /\ Playback!Next /\ UNCHANGED Rest13
     \/ part = "edits" /\ Edits!Next /\ UNCHANGED Rest8
     \/ part = "upload" /\ Upload!Next /\ UNCHANGED Rest9
     \/ part = "tuning" /\ Tuning!Next /\ UNCHANGED Rest8
     \/ part = "readings" /\ Readings!Next /\ UNCHANGED Rest6
     \/ part = "link" /\ LinkClient!Next
     \/ part = "theme" /\ Theme!Next /\ UNCHANGED Rest6
     \/ part = "artwork" /\ Artwork!Next /\ UNCHANGED Rest7
     \/ part = "choose" /\ Choose!Next /\ UNCHANGED Rest7
     \/ part = "interpret" /\ Interpret!Next /\ UNCHANGED Rest9
     \/ part = "saved" /\ Saved!Next /\ UNCHANGED Rest11
     \/ part = "journal" /\ Journal!Next /\ UNCHANGED Rest11
     \/ part = "displays" /\ Displays!Next /\ UNCHANGED Rest12
     \/ part = "launch" /\ Launch!Next /\ UNCHANGED Rest11

Spec == Init /\ [][Next]_vars

(* --------------------------------- properties --------------------------------- *)

\* The variables of the component keep their types.
TypeOK ==
  CASE part = "playback" -> Playback!TypeOK [] part = "edits" -> Edits!TypeOK [] part = "upload" -> Upload!TypeOK
    [] part = "tuning" -> Tuning!TypeOK [] part = "readings" -> Readings!TypeOK [] part = "link" -> LinkClient!TypeOK
    [] part = "theme" -> Theme!TypeOK [] part = "artwork" -> Artwork!TypeOK [] part = "choose" -> Choose!TypeOK
    [] part = "interpret" -> Interpret!TypeOK [] part = "saved" -> Saved!TypeOK [] part = "launch" -> Launch!TypeOK
    [] part = "displays" -> Displays!TypeOK [] part = "journal" -> Journal!TypeOK

\* An outcome or a value that is reported is so, whatever hands did meanwhile and whichever
\* answers were lost, ignored or taken for another query's.
ResultsAreHonest ==
  /\ part = "playback" => /\ Playback!ConfirmedWasSo /\ Playback!SelectionTookEffect /\ Playback!SnapshotExisted
                          /\ Playback!ScanIsNoticed /\ Playback!UndisturbedSucceeds
  /\ part = "edits" => Edits!OutcomeIsHonest
  /\ part = "upload" => Upload!UploadIsHonest
  /\ part = "tuning" => Tuning!ReadsBack
  /\ part = "journal" => Journal!JournalIsTrue /\ Journal!RepliesAreHonest /\ Journal!ExportIsOneState
  /\ part = "readings" => Readings!NothingInvented

\* What is written meets what the user chose: the row, the playlist, the file, the preset, the
\* slot, the recording that was on the display, although the player names them by position.
TargetsAreRight ==
  /\ part = "playback" => Playback!StaleRowsNeverSent /\ Playback!RightRowRemoved
  /\ part = "edits" => Edits!MeetsItsTarget
  /\ part = "upload" => Upload!NothingIsTruncated
  /\ part = "tuning" => Tuning!ModeIsRespected
  /\ part = "theme" => Theme!PicturesSurvive /\ Theme!EditIsExact
  /\ part = "displays" => Displays!SentIsShown /\ Displays!TaggedWhereRead
  /\ part = "artwork" => Artwork!CoverIsOwn /\ Artwork!ArtworkFits

\* Replies without numbers are matched with their queries, however the stream is cut.
RepliesAreOwn == part = "link" => LinkClient!FramesAreWhole /\ LinkClient!AnswersAreOwn

\* A phrase executes nothing but what all of its words and the music that plays allow, and
\* leaves nothing running.
NothingUnintended ==
  /\ part = "choose" => Choose!NoWordIsDropped /\ Choose!ContextHolds
  /\ part = "interpret" => Interpret!GateHolds /\ Interpret!EvidenceIsSound /\ Interpret!NothingLeftRunning

\* What the user chose or wrote survives upgrades, failed, killed and concurrent commands; a
\* history that was cleared does not.
ChoicesAreKept ==
  /\ part = "saved" => Saved!OpensForAll /\ Saved!ChoiceIsKept /\ Saved!CatalogIsCurrent
  /\ part = "journal" => Journal!ClearedIsGone /\ Journal!InFlightIsKept
  /\ part = "launch" => Launch!SpeechIsThere /\ Launch!EditsAreKept

\* A confirmed pause or other control: the player was in the wanted state at some time since the
\* command left (controls.py verify(): "cannot rescue").
ConfirmedSinceSent == part = "playback" => Playback!ConfirmedSinceSent

\* No step gives a command another key than the search service has (Launch).
KeysAgree == [][part = "launch" => Launch!KeysAgree]_vars
=============================================================================
