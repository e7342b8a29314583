------------------------ MODULE LibraryStoreProofs ------------------------
(***************************************************************************)
(* Proofs about LibraryStore for any processes, signatures and bounds.     *)
(***************************************************************************)
EXTENDS LibraryStore, TLAPS

\* The head is the last snapshot; no snapshot is ahead of the player.
StoreInv ==
  /\ head.generation = published
  /\ \A g \in Generations : contents[g] <= catalog

\* What an import has read is not older than the head it started from, as
\* long as that is still the head.
SyncInvOf(p) ==
  /\ pc[p] \in {"read", "reread", "publish"} => expected[p] <= published
  /\ pc[p] \in {"reread", "publish"} =>
       /\ tracks[p] <= catalog
       /\ expected[p] = head.generation => Shown <= tracks[p]
  /\ pc[p] = "published" => published # 0
  /\ pc[p] = "record" => generation[p] # 0

SyncInv == \A p \in Processes : SyncInvOf(p)

\* A collection under construction belongs to one process and is not the
\* head's.
BuildInvOf(p) ==
  pc[p] \in Building =>
    /\ generation[p] # 0 /\ signature[p] # Unsigned
    /\ collection[p] # 0 /\ collection[p] <= created
    /\ collection[p] # head.collection
    /\ pc[p] \in {"import", "point"} =>
         collections[collection[p]] \in
           [status : {"partial", "complete"}, generation : {generation[p]},
            signature : {signature[p]}]
    /\ pc[p] = "point" => collections[collection[p]].status = "complete"

BuildInv ==
  /\ head.collection <= created
  /\ \A p \in Processes : BuildInvOf(p)
  /\ \A p, q \in Processes :
       p # q /\ pc[p] \in Building /\ pc[q] \in Building =>
         collection[p] # collection[q]

\* The index a search began with is complete and never touched again, even
\* when the head has moved on.
SearchInvOf(p) ==
  pc[p] \in {"query", "verify"} =>
    /\ seen[p].generation # 0 /\ seen[p].generation = seen[p].index_generation
    /\ seen[p].index_signature = signature[p]
    /\ seen[p].collection # 0 /\ seen[p].collection <= created
    /\ \A q \in Processes : pc[q] \in Building => seen[p].collection # collection[q]
    /\ collections[seen[p].collection] =
         [status |-> "complete", generation |-> seen[p].generation,
          signature |-> signature[p]]
    /\ pc[p] = "verify" => answer[p] = collections[seen[p].collection]

SearchInv == \A p \in Processes : SearchInvOf(p)

IInv == TypeOK /\ StoreInv /\ SyncInv /\ BuildInv /\ SearchInv /\ IndexIsComplete

\* A step keeps the types.
LEMMA TypeStep == IInv /\ [Next]_vars => TypeOK'
<1> SUFFICES ASSUME IInv, [Next]_vars PROVE TypeOK'
  OBVIOUS
<1> USE SignatureAssumption, StoreBounds DEF IInv, StoreInv, SyncInv, SyncInvOf,
      BuildInv, BuildInvOf, TypeOK, Generations, Names, Heads, NoHead, Collections,
      Absent, Syncing, Building, Searching, vars, storeVars, searchVars, localVars
<1>1. CASE Edit
  BY <1>1 DEF Edit
<1>2. ASSUME NEW p \in Processes, Abandon(p) PROVE TypeOK'
  BY <1>2 DEF Abandon, Return
<1>3. ASSUME NEW p \in Processes, SyncBegins(p) PROVE TypeOK'
  BY <1>3 DEF SyncBegins, Goto
<1>4. ASSUME NEW p \in Processes, ReadOnce(p) PROVE TypeOK'
  BY <1>4 DEF ReadOnce, Goto
<1>5. ASSUME NEW p \in Processes, ReadAgain(p) PROVE TypeOK'
  BY <1>5 DEF ReadAgain, Goto
<1>6. ASSUME NEW p \in Processes, Publish(p) PROVE TypeOK'
  <2>0. /\ published < MaxSnapshots /\ published' = published + 1
        /\ contents' = [contents EXCEPT ![published + 1] = tracks[p]]
        /\ TypeOK
    BY ONLY <1>6, TypeOK DEF Publish, Insert
  <2>1. published' \in 0 .. MaxSnapshots /\ published + 1 \in Generations
    BY ONLY <2>0, StoreBounds DEF TypeOK, Generations
  <2>2. contents' \in [Generations -> Nat]
    BY ONLY <2>0, <2>1 DEF TypeOK
  <2>3. head' \in Heads
    <3>1. head' = [head EXCEPT !.generation = published + 1] /\ head \in Heads
      BY ONLY <1>6, TypeOK DEF Publish, Insert, TypeOK
    <3> QED
      BY ONLY <2>1, <3>1 DEF Heads
  <2>4. pc' \in [Processes -> {"idle"} \cup Syncing \cup Building \cup Searching]
    BY <1>6 DEF Publish, Goto
  <2>5. UNCHANGED <<catalog, searchVars, observations, localVars>> /\ TypeOK
    BY ONLY <1>6, TypeOK DEF Publish
  <2> QED
    BY ONLY <2>1, <2>2, <2>3, <2>4, <2>5 DEF TypeOK, searchVars, localVars
<1>7. ASSUME NEW p \in Processes, ReturnHead(p) PROVE TypeOK'
  BY <1>7 DEF ReturnHead, Goto
<1>8. ASSUME NEW p \in Processes, RecordObservation(p) PROVE TypeOK'
  BY <1>8 DEF RecordObservation, Return
<1>9. ASSUME NEW p \in Processes, BuildBegins(p) PROVE TypeOK'
  <2>1. /\ UNCHANGED <<catalog, storeVars, collections, observations, expected, tracks,
                       seen, answer>>
        /\ pc' = [pc EXCEPT ![p] = "create"]
        /\ generation' = [generation EXCEPT ![p] = head.generation]
        /\ created < MaxCollections /\ created' = created + 1
        /\ collection' = [collection EXCEPT ![p] = created + 1]
        /\ \E s \in Signatures : signature' = [signature EXCEPT ![p] = s]
        /\ TypeOK
    BY ONLY <1>9, TypeOK DEF BuildBegins, NameCollection, Goto
  <2>2. pc' \in [Processes -> {"idle"} \cup Syncing \cup Building \cup Searching]
    BY ONLY <2>1 DEF TypeOK, Building
  <2>3. generation' \in [Processes -> Generations \cup {0}]
    BY ONLY <2>1 DEF TypeOK, Heads
  <2>4. created' \in 0 .. MaxCollections /\ created + 1 \in Names
    BY ONLY <2>1, StoreBounds DEF TypeOK, Names
  <2>5. collection' \in [Processes -> Names \cup {0}]
    BY ONLY <2>1, <2>4 DEF TypeOK
  <2>6. signature' \in [Processes -> Signatures \cup {Unsigned}]
    BY ONLY <2>1 DEF TypeOK
  <2> QED
    BY ONLY <2>1, <2>2, <2>3, <2>4, <2>5, <2>6 DEF TypeOK, storeVars
<1>10. ASSUME NEW p \in Processes, Create(p) PROVE TypeOK'
  BY <1>10 DEF Create, Goto
<1>11. ASSUME NEW p \in Processes, ImportAll(p) PROVE TypeOK'
  <2>1. /\ pc[p] = "import" /\ UNCHANGED <<catalog, storeVars, created, observations, pc, localVars>>
        /\ collections' = [collections EXCEPT ![collection[p]].status = "complete"]
        /\ TypeOK
    BY ONLY <1>11, TypeOK DEF ImportAll
  <2>2. collections[collection[p]] \in
          [status : {"partial", "complete"}, generation : {generation[p]},
           signature : {signature[p]}]
    BY <2>1 DEF BuildInv, BuildInvOf, Building
  <2>3. generation[p] \in Generations /\ signature[p] \in Signatures
    BY <2>1 DEF BuildInv, BuildInvOf, Building
  <2>4. [collections[collection[p]] EXCEPT !.status = "complete"] \in Collections
    BY ONLY <2>2, <2>3 DEF Collections
  <2>5. collections' \in [Names -> Collections]
    BY ONLY <2>1, <2>4 DEF TypeOK
  <2> QED
    BY ONLY <2>1, <2>5 DEF TypeOK, storeVars, localVars
<1>12. ASSUME NEW p \in Processes, BuildFails(p) PROVE TypeOK'
  BY <1>12 DEF BuildFails, Goto
<1>13. ASSUME NEW p \in Processes, Retrieve(p) PROVE TypeOK'
  BY <1>13 DEF Retrieve, Goto
<1>14. ASSUME NEW p \in Processes, PublishIndex(p) PROVE TypeOK'
  <2>1. head' = [head EXCEPT !.collection = collection[p],
                             !.index_generation = generation[p],
                             !.index_signature = signature[p]]
    BY ONLY <1>14 DEF PublishIndex, Point
  <2>2. head \in Heads /\ collection[p] \in Names \cup {0}
          /\ generation[p] \in Generations \cup {0}
          /\ signature[p] \in Signatures \cup {Unsigned}
    BY DEF TypeOK
  <2>3. head' \in Heads
    BY ONLY <2>1, <2>2 DEF Heads
  <2>4. UNCHANGED <<catalog, published, contents, searchVars, observations>> /\ TypeOK
    BY ONLY <1>14, TypeOK DEF PublishIndex
  <2>5. /\ pc' \in [Processes -> {"idle"} \cup Syncing \cup Building \cup Searching]
        /\ expected' \in [Processes -> Generations \cup {0}] /\ tracks' \in [Processes -> Nat]
        /\ generation' \in [Processes -> Generations \cup {0}]
        /\ collection' \in [Processes -> Names \cup {0}]
        /\ signature' \in [Processes -> Signatures \cup {Unsigned}]
        /\ seen' \in [Processes -> Heads] /\ answer' \in [Processes -> Collections]
    BY <1>14 DEF PublishIndex, Return
  <2> QED
    BY ONLY <2>3, <2>4, <2>5 DEF TypeOK, searchVars
<1>15. ASSUME NEW p \in Processes, Discard(p) PROVE TypeOK'
  BY <1>15 DEF Discard, Return
<1>16. ASSUME NEW p \in Processes, SearchBegins(p) PROVE TypeOK'
  <2>1. /\ UNCHANGED <<catalog, storeVars, searchVars, observations, expected, tracks,
                       generation, collection, answer>>
        /\ pc' = [pc EXCEPT ![p] = "query"] /\ seen' = [seen EXCEPT ![p] = head]
        /\ \E s \in Signatures : signature' = [signature EXCEPT ![p] = s]
        /\ TypeOK
    BY ONLY <1>16, TypeOK DEF SearchBegins, Goto
  <2>2. seen' \in [Processes -> Heads]
    BY ONLY <2>1 DEF TypeOK
  <2>3. signature' \in [Processes -> Signatures \cup {Unsigned}]
    BY ONLY <2>1 DEF TypeOK
  <2>4. pc' \in [Processes -> {"idle"} \cup Syncing \cup Building \cup Searching]
    BY ONLY <2>1 DEF TypeOK, Searching
  <2> QED
    BY ONLY <2>1, <2>2, <2>3, <2>4 DEF TypeOK, storeVars, searchVars
<1>17. ASSUME NEW p \in Processes, Query(p) PROVE TypeOK'
  <2>1. /\ UNCHANGED <<catalog, storeVars, searchVars, observations, expected, tracks,
                       generation, collection, signature, seen>>
        /\ pc' = [pc EXCEPT ![p] = "verify"]
        /\ answer' = [answer EXCEPT ![p] = collections[seen[p].collection]]
        /\ pc[p] = "query" /\ TypeOK
    BY ONLY <1>17, TypeOK DEF Query, Goto
  <2>2. seen[p].collection \in Names
    <3>1. seen[p] \in Heads /\ SearchInvOf(p)
      BY DEF TypeOK, SearchInv
    <3> QED
      BY ONLY <2>1, <3>1 DEF SearchInvOf, Heads
  <2>3. collections[seen[p].collection] \in Collections
    BY ONLY <2>1, <2>2 DEF TypeOK
  <2>4. answer' \in [Processes -> Collections]
    BY ONLY <2>1, <2>3 DEF TypeOK
  <2>5. pc' \in [Processes -> {"idle"} \cup Syncing \cup Building \cup Searching]
    BY ONLY <2>1 DEF TypeOK, Searching
  <2> QED
    BY ONLY <2>1, <2>4, <2>5 DEF TypeOK, storeVars, searchVars
<1>18. ASSUME NEW p \in Processes, Verify(p) PROVE TypeOK'
  <2>1. /\ UNCHANGED <<catalog, storeVars, searchVars, observations, localVars>>
        /\ pc' = [pc EXCEPT ![p] = "answered"] /\ TypeOK
    BY ONLY <1>18, TypeOK DEF Verify, Goto
  <2>2. pc' \in [Processes -> {"idle"} \cup Syncing \cup Building \cup Searching]
    BY ONLY <2>1 DEF TypeOK, Searching
  <2> QED
    BY ONLY <2>1, <2>2 DEF TypeOK, storeVars, searchVars, localVars
<1>19. CASE UNCHANGED vars
  BY <1>19
<1> QED
  BY <1>1, <1>2, <1>3, <1>4, <1>5, <1>6, <1>7, <1>8, <1>9, <1>10, <1>11, <1>12, <1>13,
        <1>14, <1>15, <1>16, <1>17, <1>18, <1>19 DEF Next, Sync, Build, Search

\* The head stays the last snapshot and the player ahead of it.
LEMMA StoreStep == IInv /\ [Next]_vars => StoreInv'
<1> SUFFICES ASSUME IInv, [Next]_vars PROVE StoreInv'
  OBVIOUS
<1> USE SignatureAssumption, StoreBounds DEF IInv, StoreInv, SyncInv, SyncInvOf,
      TypeOK, Generations, Names, Heads, NoHead, Collections, Absent, Syncing,
      Building, Searching, vars, storeVars, searchVars, localVars
<1>1. CASE Edit
  BY <1>1 DEF Edit
<1>2. ASSUME NEW p \in Processes, Abandon(p) PROVE StoreInv'
  BY <1>2 DEF Abandon, Return
<1>3. ASSUME NEW p \in Processes, SyncBegins(p) PROVE StoreInv'
  BY <1>3 DEF SyncBegins, Goto
<1>4. ASSUME NEW p \in Processes, ReadOnce(p) PROVE StoreInv'
  BY <1>4 DEF ReadOnce, Goto
<1>5. ASSUME NEW p \in Processes, ReadAgain(p) PROVE StoreInv'
  BY <1>5 DEF ReadAgain, Goto
<1>6. ASSUME NEW p \in Processes, Publish(p) PROVE StoreInv'
  BY <1>6 DEF Publish, Goto, Insert
<1>7. ASSUME NEW p \in Processes, ReturnHead(p) PROVE StoreInv'
  BY <1>7 DEF ReturnHead, Goto
<1>8. ASSUME NEW p \in Processes, RecordObservation(p) PROVE StoreInv'
  BY <1>8 DEF RecordObservation, Return
<1>9. ASSUME NEW p \in Processes, BuildBegins(p) PROVE StoreInv'
  BY <1>9 DEF BuildBegins, NameCollection, Goto
<1>10. ASSUME NEW p \in Processes, Create(p) PROVE StoreInv'
  BY <1>10 DEF Create, Goto
<1>11. ASSUME NEW p \in Processes, ImportAll(p) PROVE StoreInv'
  BY <1>11 DEF ImportAll
<1>12. ASSUME NEW p \in Processes, BuildFails(p) PROVE StoreInv'
  BY <1>12 DEF BuildFails, Goto
<1>13. ASSUME NEW p \in Processes, Retrieve(p) PROVE StoreInv'
  BY <1>13 DEF Retrieve, Goto
<1>14. ASSUME NEW p \in Processes, PublishIndex(p) PROVE StoreInv'
  <2>1. UNCHANGED <<catalog, published, contents>>
    BY ONLY <1>14 DEF PublishIndex
  <2>2. head'.generation = head.generation
    BY <1>14 DEF PublishIndex, Point
  <2> QED
    BY ONLY <2>1, <2>2, StoreInv DEF StoreInv
<1>15. ASSUME NEW p \in Processes, Discard(p) PROVE StoreInv'
  BY <1>15 DEF Discard, Return
<1>16. ASSUME NEW p \in Processes, SearchBegins(p) PROVE StoreInv'
  <2>1. UNCHANGED <<catalog, storeVars>>
    BY ONLY <1>16 DEF SearchBegins, storeVars
  <2> QED
    BY ONLY <2>1, StoreInv DEF StoreInv, storeVars
<1>17. ASSUME NEW p \in Processes, Query(p) PROVE StoreInv'
  BY <1>17 DEF Query, Goto
<1>18. ASSUME NEW p \in Processes, Verify(p) PROVE StoreInv'
  <2>1. UNCHANGED <<catalog, storeVars>>
    BY ONLY <1>18 DEF Verify, storeVars
  <2> QED
    BY ONLY <2>1, StoreInv DEF StoreInv, storeVars
<1>19. CASE UNCHANGED vars
  BY <1>19
<1> QED
  BY <1>1, <1>2, <1>3, <1>4, <1>5, <1>6, <1>7, <1>8, <1>9, <1>10, <1>11, <1>12, <1>13,
        <1>14, <1>15, <1>16, <1>17, <1>18, <1>19 DEF Next, Sync, Build, Search

\* What an import has read stays fit to replace its base.
LEMMA SyncStep == IInv /\ [Next]_vars => SyncInv'
<1> SUFFICES ASSUME IInv, [Next]_vars PROVE SyncInv'
  OBVIOUS
<1> USE SignatureAssumption, StoreBounds DEF IInv, StoreInv, SyncInv, SyncInvOf, Shown,
      TypeOK, Generations, Names, Heads, NoHead, Collections, Absent, Syncing,
      Building, Searching, vars, storeVars, searchVars, localVars
<1>1. CASE Edit
  BY <1>1 DEF Edit
<1>2. ASSUME NEW p \in Processes, Abandon(p) PROVE SyncInv'
  BY <1>2 DEF Abandon, Return
<1>3. ASSUME NEW p \in Processes, SyncBegins(p) PROVE SyncInv'
  BY <1>3 DEF SyncBegins, Goto
<1>4. ASSUME NEW p \in Processes, ReadOnce(p) PROVE SyncInv'
  BY <1>4 DEF ReadOnce, Goto
<1>5. ASSUME NEW p \in Processes, ReadAgain(p) PROVE SyncInv'
  BY <1>5 DEF ReadAgain, Goto
<1>6. ASSUME NEW p \in Processes, Publish(p) PROVE SyncInv'
  <2>1. /\ head' = [head EXCEPT !.generation = published + 1]
        /\ pc' = [pc EXCEPT ![p] = "published"] /\ published' = published + 1
        /\ UNCHANGED <<catalog, localVars>>
    BY ONLY <1>6 DEF Publish, Goto, Insert
  <2>2. head'.generation = published' /\ published \in Nat
    BY <2>1
  <2>3. ASSUME NEW q \in Processes PROVE SyncInvOf(q)'
    <3>1. expected[q] \in Nat /\ SyncInvOf(q) /\ pc'[q] \in {pc[q], "published"}
      BY <2>1 DEF SyncInv
    <3> QED
      BY ONLY <2>1, <2>2, <3>1 DEF SyncInvOf, localVars
  <2> QED
    BY <2>3 DEF SyncInv
<1>7. ASSUME NEW p \in Processes, ReturnHead(p) PROVE SyncInv'
  BY <1>7 DEF ReturnHead, Goto
<1>8. ASSUME NEW p \in Processes, RecordObservation(p) PROVE SyncInv'
  BY <1>8 DEF RecordObservation, Return
<1>9. ASSUME NEW p \in Processes, BuildBegins(p) PROVE SyncInv'
  BY <1>9 DEF BuildBegins, NameCollection, Goto
<1>10. ASSUME NEW p \in Processes, Create(p) PROVE SyncInv'
  BY <1>10 DEF Create, Goto
<1>11. ASSUME NEW p \in Processes, ImportAll(p) PROVE SyncInv'
  BY <1>11 DEF ImportAll
<1>12. ASSUME NEW p \in Processes, BuildFails(p) PROVE SyncInv'
  BY <1>12 DEF BuildFails, Goto
<1>13. ASSUME NEW p \in Processes, Retrieve(p) PROVE SyncInv'
  BY <1>13 DEF Retrieve, Goto
<1>14. ASSUME NEW p \in Processes, PublishIndex(p) PROVE SyncInv'
  <2>1. /\ UNCHANGED <<catalog, published, contents>>
        /\ head'.generation = head.generation
    BY <1>14 DEF PublishIndex, Point
  <2>2. ASSUME NEW q \in Processes PROVE SyncInvOf(q)'
    <3>1. CASE q = p
      BY <1>14, <3>1 DEF PublishIndex, Return
    <3>2. CASE q # p
      <4>1. /\ pc'[q] = pc[q] /\ expected'[q] = expected[q]
            /\ tracks'[q] = tracks[q] /\ generation'[q] = generation[q]
        BY <1>14, <3>2 DEF PublishIndex, Return
      <4>2. SyncInvOf(q)
        BY DEF SyncInv
      <4> QED
        BY ONLY <2>1, <4>1, <4>2 DEF SyncInvOf, Shown
    <3> QED
      BY <3>1, <3>2
  <2> QED
    BY <2>2 DEF SyncInv
<1>15. ASSUME NEW p \in Processes, Discard(p) PROVE SyncInv'
  BY <1>15 DEF Discard, Return
<1>16. ASSUME NEW p \in Processes, SearchBegins(p) PROVE SyncInv'
  <2>1. /\ UNCHANGED <<catalog, storeVars, expected, tracks, generation>>
        /\ pc' = [pc EXCEPT ![p] = "query"]
    BY ONLY <1>16 DEF SearchBegins, Goto, localVars
  <2>2. pc \in [Processes -> {"idle"} \cup Syncing \cup Building \cup Searching]
    BY DEF TypeOK
  <2> QED
    BY ONLY <2>1, <2>2, SyncInv DEF SyncInv, SyncInvOf, Shown, storeVars
<1>17. ASSUME NEW p \in Processes, Query(p) PROVE SyncInv'
  BY <1>17 DEF Query, Goto
<1>18. ASSUME NEW p \in Processes, Verify(p) PROVE SyncInv'
  <2>1. /\ UNCHANGED <<catalog, storeVars, expected, tracks, generation>>
        /\ pc' = [pc EXCEPT ![p] = "answered"]
    BY ONLY <1>18 DEF Verify, Goto, localVars
  <2>2. pc \in [Processes -> {"idle"} \cup Syncing \cup Building \cup Searching]
    BY DEF TypeOK
  <2> QED
    BY ONLY <2>1, <2>2, SyncInv DEF SyncInv, SyncInvOf, Shown, storeVars
<1>19. CASE UNCHANGED vars
  BY <1>19
<1> QED
  BY <1>1, <1>2, <1>3, <1>4, <1>5, <1>6, <1>7, <1>8, <1>9, <1>10, <1>11, <1>12, <1>13,
        <1>14, <1>15, <1>16, <1>17, <1>18, <1>19 DEF Next, Sync, Build, Search

\* Collections under construction stay apart from each other and from the head's.
LEMMA BuildStep == IInv /\ [Next]_vars => BuildInv'
<1> SUFFICES ASSUME IInv, [Next]_vars PROVE BuildInv'
  OBVIOUS
<1> USE SignatureAssumption, StoreBounds DEF IInv, StoreInv, BuildInv, BuildInvOf,
      TypeOK, Generations, Names, Heads, NoHead, Collections, Absent, Syncing,
      Building, Searching, vars, storeVars, searchVars, localVars
<1>1. CASE Edit
  BY <1>1 DEF Edit
<1>2. ASSUME NEW p \in Processes, Abandon(p) PROVE BuildInv'
  BY <1>2 DEF Abandon, Return
<1>3. ASSUME NEW p \in Processes, SyncBegins(p) PROVE BuildInv'
  BY <1>3 DEF SyncBegins, Goto
<1>4. ASSUME NEW p \in Processes, ReadOnce(p) PROVE BuildInv'
  BY <1>4 DEF ReadOnce, Goto
<1>5. ASSUME NEW p \in Processes, ReadAgain(p) PROVE BuildInv'
  BY <1>5 DEF ReadAgain, Goto
<1>6. ASSUME NEW p \in Processes, Publish(p) PROVE BuildInv'
  BY <1>6 DEF Publish, Goto, Insert
<1>7. ASSUME NEW p \in Processes, ReturnHead(p) PROVE BuildInv'
  BY <1>7 DEF ReturnHead, Goto
<1>8. ASSUME NEW p \in Processes, RecordObservation(p) PROVE BuildInv'
  BY <1>8 DEF RecordObservation, Return
<1>9. ASSUME NEW p \in Processes, BuildBegins(p) PROVE BuildInv'
  BY <1>9, SMTT(30) DEF BuildBegins, NameCollection, Goto
<1>10. ASSUME NEW p \in Processes, Create(p) PROVE BuildInv'
  BY <1>10, SMTT(30) DEF Create, Goto
<1>11. ASSUME NEW p \in Processes, ImportAll(p) PROVE BuildInv'
  <2>1. /\ pc[p] = "import" /\ created' = created /\ head' = head /\ pc' = pc
        /\ generation' = generation /\ signature' = signature /\ collection' = collection
        /\ collections' = [collections EXCEPT ![collection[p]].status = "complete"]
    BY ONLY <1>11 DEF ImportAll, storeVars, localVars
  <2>2. collection[p] \in Names /\ BuildInvOf(p)
    BY <2>1
  <2>3. /\ collections'[collection[p]] =
             [collections[collection[p]] EXCEPT !.status = "complete"]
        /\ \A m \in Names : m # collection[p] => collections'[m] = collections[m]
    BY <2>1, <2>2 DEF TypeOK
  <2>4. collections[collection[p]] \in
          [status : {"partial", "complete"}, generation : {generation[p]},
           signature : {signature[p]}]
    BY <2>1, <2>2 DEF BuildInvOf
  <2>5. BuildInvOf(p)'
    BY ONLY <2>1, <2>2, <2>3, <2>4 DEF BuildInvOf, Building
  <2>6. ASSUME NEW q \in Processes, q # p PROVE BuildInvOf(q)'
    <3>1. BuildInvOf(q) /\ (pc[q] \in Building => collection[q] # collection[p])
      BY <2>1, <2>6 DEF BuildInv, Building
    <3>2. collection[q] \in Names \cup {0}
      BY DEF TypeOK
    <3> QED
      BY ONLY <2>1, <2>3, <3>1, <3>2 DEF BuildInvOf, Building
  <2> QED
    BY ONLY <2>1, <2>5, <2>6, BuildInv DEF BuildInv
<1>12. ASSUME NEW p \in Processes, BuildFails(p) PROVE BuildInv'
  BY <1>12 DEF BuildFails, Goto
<1>13. ASSUME NEW p \in Processes, Retrieve(p) PROVE BuildInv'
  BY <1>13 DEF Retrieve, Goto
<1>14. ASSUME NEW p \in Processes, PublishIndex(p) PROVE BuildInv'
  BY <1>14 DEF PublishIndex, Return, Point
<1>15. ASSUME NEW p \in Processes, Discard(p) PROVE BuildInv'
  BY <1>15 DEF Discard, Return
<1>16. ASSUME NEW p \in Processes, SearchBegins(p) PROVE BuildInv'
  BY <1>16 DEF SearchBegins, Goto, Verified
<1>17. ASSUME NEW p \in Processes, Query(p) PROVE BuildInv'
  BY <1>17 DEF Query, Goto
<1>18. ASSUME NEW p \in Processes, Verify(p) PROVE BuildInv'
  BY <1>18 DEF Verify, Goto, Verified
<1>19. CASE UNCHANGED vars
  BY <1>19
<1> QED
  BY <1>1, <1>2, <1>3, <1>4, <1>5, <1>6, <1>7, <1>8, <1>9, <1>10, <1>11, <1>12, <1>13,
        <1>14, <1>15, <1>16, <1>17, <1>18, <1>19 DEF Next, Sync, Build, Search

\* The index of a running search is left alone.
LEMMA SearchStep == IInv /\ [Next]_vars => SearchInv'
<1> SUFFICES ASSUME IInv, [Next]_vars PROVE SearchInv'
  OBVIOUS
<1> USE SignatureAssumption, StoreBounds DEF IInv, IndexIsComplete, BuildInv,
      BuildInvOf, SearchInv, SearchInvOf, TypeOK, Generations, Names, Heads, NoHead,
      Collections, Absent, Syncing, Building, Searching, vars, storeVars, searchVars,
      localVars
<1>1. CASE Edit
  BY <1>1 DEF Edit
<1>2. ASSUME NEW p \in Processes, Abandon(p) PROVE SearchInv'
  BY <1>2 DEF Abandon, Return
<1>3. ASSUME NEW p \in Processes, SyncBegins(p) PROVE SearchInv'
  BY <1>3 DEF SyncBegins, Goto
<1>4. ASSUME NEW p \in Processes, ReadOnce(p) PROVE SearchInv'
  BY <1>4 DEF ReadOnce, Goto
<1>5. ASSUME NEW p \in Processes, ReadAgain(p) PROVE SearchInv'
  BY <1>5 DEF ReadAgain, Goto
<1>6. ASSUME NEW p \in Processes, Publish(p) PROVE SearchInv'
  BY <1>6 DEF Publish, Goto, Insert
<1>7. ASSUME NEW p \in Processes, ReturnHead(p) PROVE SearchInv'
  BY <1>7 DEF ReturnHead, Goto
<1>8. ASSUME NEW p \in Processes, RecordObservation(p) PROVE SearchInv'
  BY <1>8 DEF RecordObservation, Return
<1>9. ASSUME NEW p \in Processes, BuildBegins(p) PROVE SearchInv'
  BY <1>9 DEF BuildBegins, NameCollection, Goto
<1>10. ASSUME NEW p \in Processes, Create(p) PROVE SearchInv'
  BY <1>10 DEF Create, Goto
<1>11. ASSUME NEW p \in Processes, ImportAll(p) PROVE SearchInv'
  BY <1>11 DEF ImportAll
<1>12. ASSUME NEW p \in Processes, BuildFails(p) PROVE SearchInv'
  BY <1>12 DEF BuildFails, Goto
<1>13. ASSUME NEW p \in Processes, Retrieve(p) PROVE SearchInv'
  BY <1>13 DEF Retrieve, Goto
<1>14. ASSUME NEW p \in Processes, PublishIndex(p) PROVE SearchInv'
  BY <1>14 DEF PublishIndex, Return, Point
<1>15. ASSUME NEW p \in Processes, Discard(p) PROVE SearchInv'
  BY <1>15 DEF Discard, Return
<1>16. ASSUME NEW p \in Processes, SearchBegins(p) PROVE SearchInv'
  BY <1>16 DEF SearchBegins, Goto, Verified
<1>17. ASSUME NEW p \in Processes, Query(p) PROVE SearchInv'
  BY <1>17 DEF Query, Goto
<1>18. ASSUME NEW p \in Processes, Verify(p) PROVE SearchInv'
  BY <1>18 DEF Verify, Goto, Verified
<1>19. CASE UNCHANGED vars
  BY <1>19
<1> QED
  BY <1>1, <1>2, <1>3, <1>4, <1>5, <1>6, <1>7, <1>8, <1>9, <1>10, <1>11, <1>12, <1>13,
        <1>14, <1>15, <1>16, <1>17, <1>18, <1>19 DEF Next, Sync, Build, Search

\* The published index stays complete.
LEMMA IndexStep == IInv /\ [Next]_vars => IndexIsComplete'
<1> SUFFICES ASSUME IInv, [Next]_vars PROVE IndexIsComplete'
  OBVIOUS
<1> USE SignatureAssumption, StoreBounds DEF IInv, IndexIsComplete, BuildInv,
      BuildInvOf, TypeOK, Generations, Names, Heads, NoHead, Collections, Absent,
      Syncing, Building, Searching, vars, storeVars, searchVars, localVars
<1>1. CASE Edit
  BY <1>1 DEF Edit
<1>2. ASSUME NEW p \in Processes, Abandon(p) PROVE IndexIsComplete'
  BY <1>2 DEF Abandon, Return
<1>3. ASSUME NEW p \in Processes, SyncBegins(p) PROVE IndexIsComplete'
  BY <1>3 DEF SyncBegins, Goto
<1>4. ASSUME NEW p \in Processes, ReadOnce(p) PROVE IndexIsComplete'
  BY <1>4 DEF ReadOnce, Goto
<1>5. ASSUME NEW p \in Processes, ReadAgain(p) PROVE IndexIsComplete'
  BY <1>5 DEF ReadAgain, Goto
<1>6. ASSUME NEW p \in Processes, Publish(p) PROVE IndexIsComplete'
  BY <1>6 DEF Publish, Goto, Insert
<1>7. ASSUME NEW p \in Processes, ReturnHead(p) PROVE IndexIsComplete'
  BY <1>7 DEF ReturnHead, Goto
<1>8. ASSUME NEW p \in Processes, RecordObservation(p) PROVE IndexIsComplete'
  BY <1>8 DEF RecordObservation, Return
<1>9. ASSUME NEW p \in Processes, BuildBegins(p) PROVE IndexIsComplete'
  BY <1>9 DEF BuildBegins, NameCollection, Goto
<1>10. ASSUME NEW p \in Processes, Create(p) PROVE IndexIsComplete'
  BY <1>10 DEF Create, Goto
<1>11. ASSUME NEW p \in Processes, ImportAll(p) PROVE IndexIsComplete'
  BY <1>11 DEF ImportAll
<1>12. ASSUME NEW p \in Processes, BuildFails(p) PROVE IndexIsComplete'
  BY <1>12 DEF BuildFails, Goto
<1>13. ASSUME NEW p \in Processes, Retrieve(p) PROVE IndexIsComplete'
  BY <1>13 DEF Retrieve, Goto
<1>14. ASSUME NEW p \in Processes, PublishIndex(p) PROVE IndexIsComplete'
  BY <1>14 DEF PublishIndex, Return, Point
<1>15. ASSUME NEW p \in Processes, Discard(p) PROVE IndexIsComplete'
  BY <1>15 DEF Discard, Return
<1>16. ASSUME NEW p \in Processes, SearchBegins(p) PROVE IndexIsComplete'
  BY <1>16 DEF SearchBegins, Goto, Verified
<1>17. ASSUME NEW p \in Processes, Query(p) PROVE IndexIsComplete'
  BY <1>17 DEF Query, Goto
<1>18. ASSUME NEW p \in Processes, Verify(p) PROVE IndexIsComplete'
  BY <1>18 DEF Verify, Goto, Verified
<1>19. CASE UNCHANGED vars
  BY <1>19
<1> QED
  BY <1>1, <1>2, <1>3, <1>4, <1>5, <1>6, <1>7, <1>8, <1>9, <1>10, <1>11, <1>12, <1>13,
        <1>14, <1>15, <1>16, <1>17, <1>18, <1>19 DEF Next, Sync, Build, Search

\* Nothing is published and nothing runs in the beginning.
LEMMA InitInv == Init => IInv
<1> SUFFICES ASSUME Init PROVE IInv
  OBVIOUS
<1> USE SignatureAssumption, StoreBounds DEF Init, NoHead, Absent
<1>1. TypeOK
  BY DEF TypeOK, Heads, Collections, Generations, Names
<1>2. StoreInv /\ SyncInv
  BY DEF StoreInv, SyncInv, SyncInvOf
<1>3. BuildInv /\ SearchInv /\ IndexIsComplete
  BY DEF BuildInv, BuildInvOf, SearchInv, SearchInvOf, IndexIsComplete, Building
<1> QED
  BY <1>1, <1>2, <1>3 DEF IInv

\* The inductive invariant: what every process has read, built or seen agrees
\* with the database as far as its position says.
THEOREM Invariance == Spec => []IInv
<1>1. IInv /\ [Next]_vars => IInv'
  BY TypeStep, StoreStep, SyncStep, BuildStep, SearchStep, IndexStep DEF IInv
<1> QED
  BY InitInv, <1>1, PTL DEF Spec

\* Every variable keeps its type, for all processes and signatures.
THEOREM TypeCorrect == Spec => []TypeOK
<1>1. IInv => TypeOK
  BY DEF IInv
<1> QED
  BY Invariance, <1>1, PTL

\* A failed or killed build never damages the index SQLite points to.
THEOREM IndexComplete == Spec => []IndexIsComplete
<1>1. IInv => IndexIsComplete
  BY DEF IInv
<1> QED
  BY Invariance, <1>1, PTL

\* A slow build of an older snapshot never replaces a current index.
THEOREM IndexCurrent == Spec => IndexStaysCurrent
<1>1. IInv /\ [Next]_vars
        => [Current /\ head'.generation = head.generation => Current']_vars
  <2> SUFFICES ASSUME IInv, [Next]_vars, Current, head'.generation = head.generation
               PROVE  Current'
    OBVIOUS
  <2>1. ASSUME NEW p \in Processes, Publish(p) PROVE FALSE
    <3>1. /\ head \in Heads /\ head.generation = published /\ published \in Nat
          /\ head' = [head EXCEPT !.generation = published + 1]
      BY ONLY <2>1, IInv, StoreBounds DEF Publish, Insert, IInv, StoreInv, TypeOK
    <3>2. head'.generation = published + 1 /\ head.generation = published /\ published \in Nat
      BY ONLY <3>1 DEF Heads
    <3> QED
      BY ONLY <3>2, head'.generation = head.generation
  <2>2. ASSUME NEW p \in Processes, PublishIndex(p) PROVE Current'
    <3>1. head'.index_generation = generation[p] /\ head.generation = generation[p]
      BY <2>2 DEF PublishIndex, Point, IInv, TypeOK, Heads
    <3> QED
      BY ONLY <3>1, Current, head'.generation = head.generation DEF Current
  <2>3. CASE UNCHANGED head
    BY <2>3 DEF Current
  <2> QED
    BY <2>1, <2>2, <2>3
       DEF Next, Sync, Build, Search, Edit, Abandon, SyncBegins, ReadOnce, ReadAgain,
           ReturnHead, RecordObservation, BuildBegins, NameCollection, Create, ImportAll,
           BuildFails, Retrieve, Discard, SearchBegins, Query, Verify, vars, storeVars
<1> QED
  BY Invariance, <1>1, PTL DEF Spec, IndexStaysCurrent

\* Only Verify lets a search answer.
LEMMA OnlyVerifyAnswers ==
  ASSUME IInv, [Next]_vars, NEW p \in Processes, pc[p] = "verify", pc'[p] = "answered"
  PROVE  Verify(p)
<1>1. pc \in [Processes -> {"idle"} \cup Syncing \cup Building \cup Searching]
  BY DEF IInv, TypeOK
<1>2. ~ UNCHANGED pc
  OBVIOUS
<1>3. ASSUME NEW q \in Processes, NEW s, s # "answered",
      pc' = [pc EXCEPT ![q] = s] PROVE FALSE
  BY ONLY <1>1, <1>3, pc[p] = "verify", pc'[p] = "answered"
<1>4. ASSUME NEW q \in Processes, Verify(q) PROVE q = p
  BY <1>1, <1>4 DEF Verify, Goto
<1>5. PICK q \in Processes : Abandon(q) \/ Sync(q) \/ Build(q) \/ Search(q)
  BY <1>2 DEF Next, Edit, vars
<1>6. CASE Abandon(q)
  BY <1>3, <1>6 DEF Abandon, Return
<1>7. CASE Sync(q)
  BY <1>3, <1>7 DEF Sync, SyncBegins, ReadOnce, ReadAgain, Publish, ReturnHead,
        RecordObservation,
                    Goto, Return
<1>8. CASE Build(q)
  BY <1>2, <1>3, <1>8 DEF Build, BuildBegins, NameCollection, Create, ImportAll,
        BuildFails,
                          Retrieve, PublishIndex, Discard, Goto, Return
<1>9. CASE Search(q)
  BY <1>3, <1>4, <1>9 DEF Search, SearchBegins, Query, Goto
<1> QED
  BY <1>5, <1>6, <1>7, <1>8, <1>9

\* A search that returns was answered from a complete, current index.
THEOREM CurrentAnswers == Spec => AnswersAreCurrent
<1> DEFINE Answers == \A p \in Processes : pc[p] = "verify" /\ pc'[p] = "answered" =>
             answer[p] = [status |-> "complete", generation |-> head.generation,
                          signature |-> signature[p]]
<1>1. IInv /\ [Next]_vars => [Answers]_vars
  <2> SUFFICES ASSUME IInv, [Next]_vars,
                      NEW p \in Processes, pc[p] = "verify", pc'[p] = "answered"
               PROVE  answer[p] = [status |-> "complete", generation |-> head.generation,
                                   signature |-> signature[p]]
    OBVIOUS
  <2>1. head = seen[p]
    BY OnlyVerifyAnswers DEF Verify
  <2>2. SearchInvOf(p)
    BY DEF IInv, SearchInv
  <2> QED
    BY ONLY <2>1, <2>2, pc[p] = "verify" DEF SearchInvOf
<1> QED
  BY Invariance, <1>1, PTL DEF Spec, AnswersAreCurrent

\* The two together: searches answer from the newest indexed snapshot, and the
\* newest snapshot's index stays.
THEOREM CurrentSearch == Spec => SearchIsCurrent
  BY IndexCurrent, CurrentAnswers, PTL DEF SearchIsCurrent

\* What is shown, before and after a step that publishes nothing.
LEMMA ShownStays ==
  ASSUME UNCHANGED contents, head'.generation = head.generation
  PROVE  Shown' = Shown
BY DEF Shown

\* The catalogue shown is one the player had, and never an older one again.
THEOREM Refinement == Spec => ImplementsRegister
<1>1. Init => Register!Init
  BY DEF Init, NoHead, Shown, Register!Init
<1>2. IInv /\ [Next]_vars => [Register!Next]_Register!vars
  <2> SUFFICES ASSUME IInv, [Next]_vars PROVE [Register!Next]_Register!vars
    OBVIOUS
  <2>1. CASE Edit
    <3>1. catalog' = catalog + 1 /\ Shown' = Shown
      BY <2>1, ShownStays DEF Edit, storeVars
    <3> QED
      BY <3>1 DEF Register!Next, Register!Change
  <2>2. ASSUME NEW p \in Processes, Publish(p) PROVE Register!Show
    <3>1. /\ pc[p] = "publish" /\ head.generation = expected[p]
          /\ published < MaxSnapshots /\ published' = published + 1
          /\ contents' = [contents EXCEPT ![published + 1] = tracks[p]]
          /\ head' = [head EXCEPT !.generation = published + 1]
          /\ catalog' = catalog
      BY <2>2 DEF Publish, Goto, Insert
    <3>2. /\ published \in 0 .. MaxSnapshots /\ head \in Heads /\ tracks[p] \in Nat
          /\ contents \in [Generations -> Nat] /\ catalog \in Nat /\ head.generation = published
      BY DEF IInv, TypeOK, StoreInv
    <3>3. Shown' = tracks[p]
      <4>1. published + 1 \in Generations /\ published + 1 # 0
        BY ONLY <3>1, <3>2, StoreBounds DEF Generations
      <4>2. head'.generation = published + 1
        BY ONLY <3>1, <3>2 DEF Heads
      <4>3. contents'[published + 1] = tracks[p]
        BY ONLY <3>1, <3>2, <4>1
      <4> QED
        BY ONLY <4>1, <4>2, <4>3 DEF Shown
    <3>4. Shown <= tracks[p] /\ tracks[p] <= catalog
      BY <3>1 DEF IInv, SyncInv, SyncInvOf
    <3>5. Shown \in Nat
      BY ONLY <3>2, StoreBounds DEF Shown, Generations
    <3> QED
      BY ONLY <3>1, <3>2, <3>3, <3>4, <3>5 DEF Register!Show
  <2>3. ASSUME NEW p \in Processes, PublishIndex(p) PROVE UNCHANGED Register!vars
    <3>1. catalog' = catalog /\ contents' = contents /\ head'.generation = head.generation
      BY <2>3 DEF PublishIndex, Point, IInv, TypeOK, Heads
    <3> QED
      BY <3>1, ShownStays DEF Register!vars
  <2>4. CASE UNCHANGED <<catalog, storeVars>>
    BY <2>4, ShownStays DEF storeVars, Register!vars
  <2> QED
    BY <2>1, <2>2, <2>3, <2>4
       DEF Register!Next, Next, Sync, Build, Search, Abandon, SyncBegins, ReadOnce,
             ReadAgain,
           ReturnHead, RecordObservation, BuildBegins, NameCollection, Create, ImportAll,
           BuildFails, Retrieve, Discard, SearchBegins, Query, Verify, vars
<1> QED
  BY Invariance, <1>1, <1>2, PTL DEF Spec, ImplementsRegister, Register!Spec
============================================================================
