---------------------------- MODULE LibraryStore ----------------------------
(***************************************************************************)
(* The catalogue of one device in library/: synchronisation publishes      *)
(* snapshots in SQLite (sync.py, store.py), an index of a snapshot is      *)
(* built in Typesense and published beside it, and searches use it         *)
(* (search/typesense.py).  Several processes share the database; any of    *)
(* them may fail, be cancelled or be killed between two steps.             *)
(*                                                                         *)
(* A snapshot and a collection are named by a number, 0 stands for NULL;   *)
(* uuid4() is a number not used before.  The tracks of a snapshot are      *)
(* represented by the number of edits of the player's catalogue they show. *)
(***************************************************************************)
EXTENDS Naturals
LOCAL INSTANCE TLC

CONSTANTS Processes,
          Signatures,      \* what an index is built with: aliases and server
          Unsigned,        \* the signature of no index
          MaxEdits, MaxSnapshots, MaxCollections     \* bounds

ASSUME SignatureAssumption == Unsigned \notin Signatures
ASSUME StoreBounds == MaxEdits \in Nat /\ MaxSnapshots \in Nat /\ MaxCollections \in Nat

VARIABLES
  catalog,        \* external: edits of the player's catalogue so far
  published,      \* snapshots published so far
  contents,       \* contents[g]: the tracks of snapshot g
  head,           \* the row of the table heads
  created,        \* collections named so far
  collections,    \* external: what Typesense holds under each name
  observations,   \* rows of the observation database
  pc, expected, tracks, generation, collection, signature, seen, answer

storeVars == <<published, contents, head>>
searchVars == <<created, collections>>
localVars == <<expected, tracks, generation, collection, signature, seen, answer>>
vars == <<catalog, storeVars, searchVars, observations, pc, localVars>>

Generations == 1 .. MaxSnapshots
Names == 1 .. MaxCollections

Heads == [generation : Generations \cup {0}, collection : Names \cup {0},
          index_generation : Generations \cup {0},
          index_signature : Signatures \cup {Unsigned}]
NoHead == [generation |-> 0, collection |-> 0, index_generation |-> 0,
           index_signature |-> Unsigned]

Absent == [status |-> "none", generation |-> 0, signature |-> Unsigned]
Collections == {Absent} \cup [status : {"partial", "complete"},
                              generation : Generations, signature : Signatures]

Syncing == {"read", "reread", "publish", "published", "record"}
Building == {"create", "import", "point", "discard"}
Searching == {"query", "verify", "answered"}

TypeOK ==
  /\ catalog \in Nat
  /\ published \in 0 .. MaxSnapshots
  /\ contents \in [Generations -> Nat]
  /\ head \in Heads
  /\ created \in 0 .. MaxCollections
  /\ collections \in [Names -> Collections]
  /\ observations \subseteq [generation : Generations, tracks : Nat]
  /\ pc \in [Processes -> {"idle"} \cup Syncing \cup Building \cup Searching]
  /\ expected \in [Processes -> Generations \cup {0}]
  /\ tracks \in [Processes -> Nat]
  /\ generation \in [Processes -> Generations \cup {0}]
  /\ collection \in [Processes -> Names \cup {0}]
  /\ signature \in [Processes -> Signatures \cup {Unsigned}]
  /\ seen \in [Processes -> Heads]
  /\ answer \in [Processes -> Collections]

Init ==
  /\ catalog = 0
  /\ published = 0 /\ contents = [g \in Generations |-> 0] /\ head = NoHead
  /\ created = 0 /\ collections = [n \in Names |-> Absent]
  /\ observations = {}
  /\ pc = [p \in Processes |-> "idle"]
  /\ expected = [p \in Processes |-> 0] /\ tracks = [p \in Processes |-> 0]
  /\ generation = [p \in Processes |-> 0] /\ collection = [p \in Processes |-> 0]
  /\ signature = [p \in Processes |-> Unsigned]
  /\ seen = [p \in Processes |-> NoHead] /\ answer = [p \in Processes |-> Absent]

Goto(p, from, to) == pc[p] = from /\ pc' = [pc EXCEPT ![p] = to]

\* An operation is over; what it had read is forgotten.
Return(p) ==
  /\ pc' = [pc EXCEPT ![p] = "idle"]
  /\ expected' = [expected EXCEPT ![p] = 0] /\ tracks' = [tracks EXCEPT ![p] = 0]
  /\ generation' = [generation EXCEPT ![p] = 0]
  /\ collection' = [collection EXCEPT ![p] = 0]
  /\ signature' = [signature EXCEPT ![p] = Unsigned]
  /\ seen' = [seen EXCEPT ![p] = NoHead] /\ answer' = [answer EXCEPT ![p] = Absent]

\* The player's library changes (external).
Edit ==
  /\ catalog < MaxEdits
  /\ catalog' = catalog + 1
  /\ UNCHANGED <<storeVars, searchVars, observations, pc, localVars>>

\* An error, a cancellation or the death of the process; SQLite rolls an
\* open transaction back, and a collection being built is left behind.
Abandon(p) ==
  /\ pc[p] # "idle"
  /\ Return(p)
  /\ UNCHANGED <<catalog, storeVars, searchVars, observations>>

----------------------------------------------------------------------------
(* synchronize                                                             *)

SyncBegins(p) ==
  /\ Goto(p, "idle", "read")
  /\ expected' = [expected EXCEPT ![p] = head.generation]
  /\ UNCHANGED <<catalog, storeVars, searchVars, observations, tracks, generation,
                 collection, signature, seen, answer>>

ReadOnce(p) ==
  /\ Goto(p, "read", "reread")
  /\ tracks' = [tracks EXCEPT ![p] = catalog]
  /\ UNCHANGED <<catalog, storeVars, searchVars, observations, expected, generation,
                 collection, signature, seen, answer>>

\* read_stable accepts two equal reads; otherwise CatalogChanged (Abandon).
ReadAgain(p) ==
  /\ Goto(p, "reread", "publish")
  /\ tracks[p] = catalog
  /\ UNCHANGED <<catalog, storeVars, searchVars, observations, localVars>>

Insert(p) ==
  /\ published < MaxSnapshots
  /\ published' = published + 1
  /\ contents' = [contents EXCEPT ![published + 1] = tracks[p]]
  /\ head' = [head EXCEPT !.generation = published + 1]

\* Mutant: the base of the import is not compared in the transaction.
Bug_Publish(p) ==
  /\ Goto(p, "publish", "published")
  /\ Insert(p)
  /\ UNCHANGED <<catalog, searchVars, observations, localVars>>

\* One transaction; a base that is not the head any more is a StaleSnapshot
\* (Abandon).  The old index stays referenced, its lag visible.
Publish(p) ==
  /\ Goto(p, "publish", "published")
  /\ head.generation = expected[p]
  /\ Insert(p)
  /\ UNCHANGED <<catalog, searchVars, observations, localVars>>

\* publish() returns the head as it is after its transaction.
ReturnHead(p) ==
  /\ Goto(p, "published", "record")
  /\ generation' = [generation EXCEPT ![p] = head.generation]
  /\ UNCHANGED <<catalog, storeVars, searchVars, observations, expected, tracks,
                 collection, signature, seen, answer>>

\* The observation of the draft is recorded for the returned generation.
RecordObservation(p) ==
  /\ pc[p] = "record" /\ Return(p)
  /\ observations' = observations \cup
                     {[generation |-> generation[p], tracks |-> tracks[p]]}
  /\ UNCHANGED <<catalog, storeVars, searchVars>>

----------------------------------------------------------------------------
(* Search.build                                                            *)

NameCollection(p) ==
  /\ Goto(p, "idle", "create")
  /\ created < MaxCollections
  /\ generation' = [generation EXCEPT ![p] = head.generation]
  /\ created' = created + 1
  /\ collection' = [collection EXCEPT ![p] = created + 1]
  /\ \E s \in Signatures : signature' = [signature EXCEPT ![p] = s]
  /\ UNCHANGED <<catalog, storeVars, collections, observations, expected, tracks,
                 seen, answer>>

\* Mutant: a library without a snapshot is indexed too.
Bug_BuildBegins(p) == NameCollection(p)

\* Without a snapshot there is nothing to index.
BuildBegins(p) == head.generation # 0 /\ NameCollection(p)

Create(p) ==
  /\ Goto(p, "create", "import")
  /\ collections' = [collections EXCEPT ![collection[p]] =
       [status |-> "partial", generation |-> generation[p], signature |-> signature[p]]]
  /\ UNCHANGED <<catalog, storeVars, created, observations, localVars>>

\* Every batch was accepted.
ImportAll(p) ==
  /\ pc[p] = "import"
  /\ collections' = [collections EXCEPT ![collection[p]].status = "complete"]
  /\ UNCHANGED <<catalog, storeVars, created, observations, pc, localVars>>

\* A batch is rejected, the count differs, the transport fails.
BuildFails(p) ==
  /\ \E from \in {"create", "import", "point"} : Goto(p, from, "discard")
  /\ UNCHANGED <<catalog, storeVars, searchVars, observations, localVars>>

\* Mutant: the number of documents is not verified.
Bug_Retrieve(p) ==
  /\ Goto(p, "import", "point")
  /\ UNCHANGED <<catalog, storeVars, searchVars, observations, localVars>>

\* retrieve() counts as many documents as the snapshot has.
Retrieve(p) ==
  /\ Goto(p, "import", "point")
  /\ collections[collection[p]].status = "complete"
  /\ UNCHANGED <<catalog, storeVars, searchVars, observations, localVars>>

Point(p) ==
  head' = [head EXCEPT !.collection = collection[p],
                       !.index_generation = generation[p],
                       !.index_signature = signature[p]]

\* Mutant: an index of a replaced snapshot is published all the same.
Bug_PublishIndex(p) ==
  /\ pc[p] = "point" /\ Return(p)
  /\ Point(p)
  /\ UNCHANGED <<catalog, published, contents, searchVars, observations>>

PublishIndex(p) ==
  /\ pc[p] = "point" /\ Return(p)
  /\ head.generation = generation[p]
  /\ Point(p)
  /\ UNCHANGED <<catalog, published, contents, searchVars, observations>>

\* The attempt's own collection is deleted; if that fails it stays behind.
Discard(p) ==
  /\ pc[p] = "discard" /\ Return(p)
  /\ collections' = [collections EXCEPT ![collection[p]] = Absent]
  /\ UNCHANGED <<catalog, storeVars, created, observations>>

----------------------------------------------------------------------------
(* Search.search                                                           *)

\* verify_index: the head's index is of its snapshot and of this signature.
Verified(s) ==
  /\ head.generation # 0 /\ head.collection # 0
  /\ head.generation = head.index_generation
  /\ head.index_signature = s

SearchBegins(p) ==
  /\ Goto(p, "idle", "query")
  /\ \E s \in Signatures :
       Verified(s) /\ signature' = [signature EXCEPT ![p] = s]
  /\ seen' = [seen EXCEPT ![p] = head]
  /\ UNCHANGED <<catalog, storeVars, searchVars, observations, expected, tracks,
                 generation, collection, answer>>

\* Typesense answers from the collection, if it still exists.
Query(p) ==
  /\ Goto(p, "query", "verify")
  /\ collections[seen[p].collection].status # "none"
  /\ answer' = [answer EXCEPT ![p] = collections[seen[p].collection]]
  /\ UNCHANGED <<catalog, storeVars, searchVars, observations, expected, tracks,
                 generation, collection, signature, seen>>

\* Mutant: the head is not looked at again after the answer.
Bug_Verify(p) ==
  /\ Goto(p, "verify", "answered")
  /\ answer[p].generation = seen[p].generation
  /\ UNCHANGED <<catalog, storeVars, searchVars, observations, localVars>>

\* The head is the one the search began with, and every hit is one of its
\* rows; otherwise StaleSnapshot (Abandon).
Verify(p) ==
  /\ Goto(p, "verify", "answered")
  /\ Verified(signature[p]) /\ head = seen[p]
  /\ answer[p].generation = seen[p].generation
  /\ UNCHANGED <<catalog, storeVars, searchVars, observations, localVars>>

----------------------------------------------------------------------------
Sync(p) == SyncBegins(p) \/ ReadOnce(p) \/ ReadAgain(p) \/ Publish(p)
             \/ ReturnHead(p) \/ RecordObservation(p)
Build(p) == BuildBegins(p) \/ Create(p) \/ ImportAll(p) \/ BuildFails(p)
              \/ Retrieve(p) \/ PublishIndex(p) \/ Discard(p)
Search(p) == SearchBegins(p) \/ Query(p) \/ Verify(p)

Next == Edit \/ \E p \in Processes : Abandon(p) \/ Sync(p) \/ Build(p) \/ Search(p)

Spec == Init /\ [][Next]_vars

----------------------------------------------------------------------------
\* A published index is complete: a failed or killed build never damages the
\* collection that SQLite points to.
IndexIsComplete ==
  head.index_generation # 0 =>
    /\ head.collection # 0
    /\ collections[head.collection] =
         [status |-> "complete", generation |-> head.index_generation,
          signature |-> head.index_signature]

Current == head.generation # 0 /\ head.index_generation = head.generation

\* Once the head has an index, only a newer snapshot makes it lag: a slow
\* build of an older snapshot does not replace it.
IndexStaysCurrent ==
  [][Current /\ head'.generation = head.generation => Current']_vars

\* What a search returns comes from a complete index, built as this process
\* builds it, of the snapshot that is the head when the search returns.
AnswersAreCurrent ==
  [][\A p \in Processes : pc[p] = "verify" /\ pc'[p] = "answered" =>
       answer[p] = [status |-> "complete", generation |-> head.generation,
                    signature |-> signature[p]]]_vars

\* A search tells of the newest snapshot that has an index, and the index of
\* the newest snapshot stays in use, though builds overtake each other.
SearchIsCurrent == IndexStaysCurrent /\ AnswersAreCurrent

\* "stores any supported enrichment against its new generation"
\* (library/README.md): an observation belongs to the tracks it was made on.
ObservationsBelong ==
  \A o \in observations : contents[o.generation] = o.tracks

\* What a reader of the library may rely on.
Shown == IF head.generation = 0 THEN 0 ELSE contents[head.generation]
Register == INSTANCE CatalogRegister WITH shown <- Shown

\* Imports run concurrently, yet the catalogue shown never goes back to an
\* earlier observation and is never ahead of the player's.
ImplementsRegister == Register!Spec

\* Names of the same kind are interchangeable.
Symmetry == Permutations(Processes) \cup Permutations(Signatures)
============================================================================
