--------------------------- MODULE ServicesProofs ---------------------------
(* The services of MCServices for every value of the constants.  The proofs of the     *)
(* Assistant and the web backend are in their modules and cited through the instances;  *)
(* those of the bridges, the recognizer, the firmware monitor and the speech runtime    *)
(* are here, over the variables of the composition.                                     *)
EXTENDS MCServices, FiniteSetTheorems, WellFoundedInduction, TLAPS

\* The operators that each component takes from FiniteSets are the ones of the library.
LEMMA SameCardinality ==
  \A S : /\ WsBridge!Cardinality(S) = Cardinality(S) /\ LanBridge!Cardinality(S) = Cardinality(S)
         /\ Utterance!Cardinality(S) = Cardinality(S) /\ Assistant!Cardinality(S) = Cardinality(S)
         /\ WebBackend!IsFiniteSet(S) = IsFiniteSet(S)
BY DEF WsBridge!Cardinality, LanBridge!Cardinality, Utterance!Cardinality, Assistant!Cardinality, Cardinality,
       WebBackend!IsFiniteSet, IsFiniteSet

(* --------------------------- the browser bridge --------------------------- *)

LEMMA BrowserInit == WsBridge!Init => WsBridge!IInv
<1> SUFFICES ASSUME WsBridge!Init PROVE WsBridge!IInv
  OBVIOUS
<1>1. \A b \in Browsers : r2[b].pc = "none" /\ r2[b].tcp = "none"
  BY DEF WsBridge!Init, WsBridge!Fresh
<1>2. WsBridge!TypeOK
  BY DEF WsBridge!Init, WsBridge!Fresh, WsBridge!TypeOK
<1>3. WsBridge!OwnerInv
  BY <1>1 DEF WsBridge!Init, WsBridge!OwnerInv, WsBridge!Owners, WsBridge!Owns
<1>4. WsBridge!TcpInv
  BY <1>1 DEF WsBridge!TcpInv
<1> QED
  BY <1>2, <1>3, <1>4 DEF WsBridge!IInv

\* A handler's step inside its part of the program changes no reservation.
LEMMA BrowserStays ==
  ASSUME WsBridge!IInv, NEW b \in Browsers, WsBridge!Owns(b), r1' = r1,
         r2' \in [Browsers -> [pc : {"none", "connecting", "preparing", "piping", "closing",
                                     "cleanup", "closed", "done"},
                               tcp : {"none", "open", "ended", "closed"}, peer : BOOLEAN]],
         \A c \in Browsers \ {b} : r2'[c] = r2[c],
         r2'[b].pc \notin {"none", "done"}
  PROVE  WsBridge!OwnerInv'
<1>1. \A c \in Browsers : WsBridge!Owns(c)' <=> WsBridge!Owns(c)
  BY DEF WsBridge!Owns
<1>2. WsBridge!Owners' = WsBridge!Owners
  BY <1>1 DEF WsBridge!Owners
<1> QED
  BY <1>2 DEF WsBridge!IInv, WsBridge!OwnerInv

\* The owner gives the reservation back.
LEMMA BrowserReleases ==
  ASSUME WsBridge!IInv, NEW b \in Browsers, WsBridge!Owns(b), r1' = FALSE, r2'[b].pc = "done",
         \A c \in Browsers \ {b} : r2'[c] = r2[c]
  PROVE  WsBridge!OwnerInv'
<1>1. r1 /\ WsBridge!Owners = {b}
  BY DEF WsBridge!IInv, WsBridge!OwnerInv, WsBridge!Owners
<1>2. \A c \in Browsers : ~WsBridge!Owns(c)'
  BY <1>1 DEF WsBridge!Owns, WsBridge!Owners
<1> QED
  BY <1>2 DEF WsBridge!OwnerInv, WsBridge!Owners

\* A step preserves the invariant, one step of the proof per action.
LEMMA BrowserStep == WsBridge!IInv /\ [WsBridge!Next]_WsBridge!vars => WsBridge!IInv'
<1> SUFFICES ASSUME WsBridge!IInv, [WsBridge!Next]_WsBridge!vars PROVE WsBridge!IInv'
  OBVIOUS
<1> USE DEF WsBridge!IInv
<1>1. CASE WsBridge!Handover
  BY <1>1 DEF WsBridge!Handover, WsBridge!TypeOK, WsBridge!OwnerInv, WsBridge!Owners, WsBridge!Owns,
       WsBridge!TcpInv
<1>2. CASE WsBridge!shutdown
  <2>1. WsBridge!TypeOK' /\ WsBridge!TcpInv'
    BY <1>2 DEF WsBridge!shutdown, WsBridge!TypeOK, WsBridge!TcpInv
  <2>2. \A b \in Browsers : WsBridge!Owns(b)' <=> WsBridge!Owns(b)
    BY <1>2 DEF WsBridge!shutdown, WsBridge!TypeOK, WsBridge!Owns
  <2>3. WsBridge!Owners' = WsBridge!Owners
    BY <2>2 DEF WsBridge!Owners
  <2> QED
    BY <1>2, <2>1, <2>3 DEF WsBridge!shutdown, WsBridge!OwnerInv
<1>3. ASSUME NEW b \in Browsers, WsBridge!websocket(b) PROVE WsBridge!IInv'
  <2>1. CASE r1
    <3>1. WsBridge!Owners' = WsBridge!Owners
      BY <1>3, <2>1 DEF WsBridge!websocket, WsBridge!Ws, WsBridge!TypeOK, WsBridge!Owners, WsBridge!Owns
    <3> QED
      BY <1>3, <2>1, <3>1 DEF WsBridge!websocket, WsBridge!Ws, WsBridge!TypeOK, WsBridge!OwnerInv,
           WsBridge!TcpInv
  <2>2. CASE ~r1
    <3>1. WsBridge!Owners' = {b}
      BY <1>3, <2>2 DEF WsBridge!websocket, WsBridge!Ws, WsBridge!TypeOK, WsBridge!OwnerInv,
           WsBridge!Owners, WsBridge!Owns
    <3> QED
      BY <1>3, <2>2, <3>1 DEF WsBridge!websocket, WsBridge!Ws, WsBridge!TypeOK, WsBridge!OwnerInv,
           WsBridge!TcpInv
  <2> QED
    BY <2>1, <2>2
<1>4. ASSUME NEW b \in Browsers,
             WsBridge!connect_tcp(b) \/ WsBridge!prepare(b) \/ WsBridge!from_ws(b) \/ WsBridge!from_tcp(b) \/ WsBridge!WsCloses(b)
               \/ WsBridge!WriterCloses(b) \/ WsBridge!Breaks(b)
      PROVE  WsBridge!IInv'
  <2>1. WsBridge!TypeOK'
    BY <1>4 DEF WsBridge!connect_tcp, WsBridge!prepare, WsBridge!from_ws, WsBridge!from_tcp,
         WsBridge!WsCloses, WsBridge!WriterCloses, WsBridge!Breaks, WsBridge!Ws, WsBridge!rest,
         WsBridge!TypeOK
  <2>2. WsBridge!TcpInv'
    BY <1>4 DEF WsBridge!connect_tcp, WsBridge!prepare, WsBridge!from_ws, WsBridge!from_tcp,
         WsBridge!WsCloses, WsBridge!WriterCloses, WsBridge!Breaks, WsBridge!Ws, WsBridge!rest,
         WsBridge!TypeOK,
                WsBridge!TcpInv
  <2>3. /\ WsBridge!Owns(b) /\ r1' = r1 /\ r2'[b].pc \notin {"none", "done"}
        /\ \A c \in Browsers \ {b} : r2'[c] = r2[c]
    BY <1>4 DEF WsBridge!connect_tcp, WsBridge!prepare, WsBridge!from_ws, WsBridge!from_tcp,
         WsBridge!WsCloses, WsBridge!WriterCloses, WsBridge!Breaks, WsBridge!Ws, WsBridge!rest,
         WsBridge!TypeOK, WsBridge!Owns
  <2> QED
    BY <2>1, <2>2, <2>3, BrowserStays DEF WsBridge!TypeOK
<1>5. ASSUME NEW b \in Browsers, WsBridge!Release(b) \/ (WsBridge!Cancel(b) /\ r2[b].pc = "closed")
     PROVE WsBridge!IInv'
  <2>1. WsBridge!TypeOK' /\ WsBridge!TcpInv'
    BY <1>5 DEF WsBridge!Release, WsBridge!Cancel, WsBridge!Ws, WsBridge!TypeOK, WsBridge!TcpInv
  <2>2. /\ WsBridge!Owns(b) /\ r1' = FALSE /\ r2'[b].pc = "done"
        /\ \A c \in Browsers \ {b} : r2'[c] = r2[c]
    BY <1>5 DEF WsBridge!Release, WsBridge!Cancel, WsBridge!Ws, WsBridge!TypeOK, WsBridge!Owns
  <2> QED
    BY <2>1, <2>2, BrowserReleases
<1>6. ASSUME NEW b \in Browsers, WsBridge!Cancel(b), r2[b].pc # "closed" PROVE WsBridge!IInv'
  <2>1. WsBridge!TypeOK' /\ WsBridge!TcpInv'
    BY <1>6 DEF WsBridge!Cancel, WsBridge!Ws, WsBridge!TypeOK, WsBridge!TcpInv
  <2>2. /\ WsBridge!Owns(b) /\ r1' = r1 /\ r2'[b].pc \notin {"none", "done"}
        /\ \A c \in Browsers \ {b} : r2'[c] = r2[c]
    BY <1>6 DEF WsBridge!Cancel, WsBridge!Ws, WsBridge!TypeOK, WsBridge!Owns
  <2> QED
    BY <2>1, <2>2, BrowserStays DEF WsBridge!TypeOK
<1>7. ASSUME NEW b \in Browsers, WsBridge!Leave(b) \/ WsBridge!Drop(b) PROVE WsBridge!IInv'
  <2>1. WsBridge!TypeOK' /\ WsBridge!TcpInv'
    <3>1. CASE WsBridge!Leave(b)
      BY <3>1 DEF WsBridge!Leave, WsBridge!rest, WsBridge!TypeOK, WsBridge!TcpInv
    <3>2. CASE WsBridge!Drop(b)
      <4>1. r2[b].pc \notin {"none", "connecting", "closed", "done"}
        BY <3>2 DEF WsBridge!Drop, WsBridge!TypeOK, WsBridge!TcpInv
      <4> QED
        BY <3>2, <4>1 DEF WsBridge!Drop, WsBridge!TypeOK, WsBridge!TcpInv
    <3> QED
      BY <1>7, <3>1, <3>2
  <2>2. r1' = r1 /\ WsBridge!Owners' = WsBridge!Owners
    BY <1>7 DEF WsBridge!Leave, WsBridge!Drop, WsBridge!rest, WsBridge!TypeOK, WsBridge!Owners,
         WsBridge!Owns
  <2> QED
    BY <2>1, <2>2 DEF WsBridge!OwnerInv
<1>8. CASE UNCHANGED WsBridge!vars
  BY <1>8 DEF WsBridge!vars, WsBridge!TypeOK, WsBridge!OwnerInv, WsBridge!Owners, WsBridge!Owns,
       WsBridge!TcpInv
<1> QED
  BY <1>1, <1>2, <1>3, <1>4, <1>5, <1>6, <1>7, <1>8 DEF WsBridge!Next, WsBridge!Step

LEMMA BrowserReserves == WsBridge!IInv => WsBridge!ChannelIsReserved
<1> SUFFICES ASSUME WsBridge!IInv PROVE WsBridge!ChannelIsReserved
  OBVIOUS
<1>1. Cardinality(WsBridge!Owners) = (IF r1 THEN 1 ELSE 0)
  BY FS_EmptySet, FS_Singleton DEF WsBridge!IInv, WsBridge!TypeOK, WsBridge!OwnerInv
<1>2. \A b \in Browsers : r2[b].tcp \in {"open", "ended"} => WsBridge!Owns(b)
  BY DEF WsBridge!IInv, WsBridge!TypeOK, WsBridge!TcpInv, WsBridge!Owns
<1> QED
  BY <1>1, <1>2, SameCardinality DEF WsBridge!ChannelIsReserved, WsBridge!Owners

(* ----------------------------- the forwarder ------------------------------ *)

LEMMA PhoneServingFinite == ASSUME IsFiniteSet(Phones), NEW k
     PROVE IsFiniteSet(LanBridge!ServingAs(k)) /\ Cardinality(LanBridge!ServingAs(k)) \in Nat
<1>1. LanBridge!ServingAs(k) \in SUBSET Phones
  BY DEF LanBridge!ServingAs
<1> QED
  BY <1>1, FS_Subset, FS_CardinalityType

LEMMA PhoneInitInv == ASSUME HttpLimit \in Nat, LanBridge!Init PROVE LanBridge!IInv
<1>1. LanBridge!Types
  <2>1. /\ r1 \in [Phones -> [pc : LanBridge!Pcs, kind : LanBridge!Kinds, up : BOOLEAN, pumps : 1..2]]
        /\ r2 \in [LanBridge!Kinds -> Nat] /\ r7 \in {"open", "closing", "waiting", "stopped"}
    BY DEF LanBridge!Init, LanBridge!Unused, LanBridge!Pcs, LanBridge!Kinds
  <2>2. r3 \subseteq Phones /\ r5 \in {"asleep", "checking", "stopped"} /\ r6 \in BOOLEAN
    BY DEF LanBridge!Init
  <2> QED
    BY <2>1, <2>2 DEF LanBridge!Types
<1>2. \A k \in LanBridge!Kinds : LanBridge!ServingAs(k) = {}
  BY DEF LanBridge!Init, LanBridge!ServingAs, LanBridge!Unused, LanBridge!Busy
<1>3. LanBridge!CountInv
  BY <1>2, FS_EmptySet, SameCardinality DEF LanBridge!Init, LanBridge!CountInv, LanBridge!limit, LanBridge!Kinds
<1>4. LanBridge!TaskInv
  BY DEF LanBridge!Init, LanBridge!TaskInv, LanBridge!Unused, LanBridge!Busy
<1>5. LanBridge!SeenInv
  <2>1. \A k \in LanBridge!Kinds : LanBridge!HandledAs(k) = {}
    BY DEF LanBridge!Init, LanBridge!HandledAs, LanBridge!Unused
  <2> QED
    BY <2>1, FS_EmptySet, SameCardinality DEF LanBridge!Init, LanBridge!SeenInv, LanBridge!Kinds
<1> QED
  BY <1>1, <1>3, <1>4, <1>5 DEF LanBridge!IInv

\* A connection that is served on, or is still not, leaves every set as it was.
LEMMA PhoneServedOn ==
  ASSUME \A p \in Phones : LanBridge!Busy(p)' <=> LanBridge!Busy(p),
       \A p \in Phones : LanBridge!Busy(p) => r1'[p].kind = r1[p].kind
  PROVE  \A k \in LanBridge!Kinds : LanBridge!ServingAs(k)' = LanBridge!ServingAs(k)
BY DEF LanBridge!ServingAs

\* What one connection's step does to its own record and to the others'.
LEMMA PhoneOneRecord ==
  ASSUME LanBridge!Types, NEW p \in Phones
  PROVE  /\ \A pc \in LanBridge!Pcs : LanBridge!Lan(p, pc) => /\ r1'[p].pc = pc /\ r1'[p].kind = r1[p].kind /\ r1'[p].up = r1[p].up
                                          /\ \A q \in Phones \ {p} : r1'[q] = r1[q]
         /\ LanBridge!Closed(p) => /\ r1'[p].pc = "done" /\ r1'[p].kind = r1[p].kind /\ ~r1'[p].up
                         /\ \A q \in Phones \ {p} : r1'[q] = r1[q]
BY DEF LanBridge!Types, LanBridge!Lan, LanBridge!Closed

LEMMA PhoneTypesStep == ASSUME LanBridge!Types, HttpLimit \in Nat, LanBridge!CountInv, IsFiniteSet(Phones),
     LanBridge!TaskInv, [LanBridge!Next]_LanBridge!vars PROVE LanBridge!Types'
<1>1. ASSUME NEW p \in Phones,
     LanBridge!Accept(p) \/ LanBridge!handle(p) \/ LanBridge!Upstream(p) \/ LanBridge!pump(p) \/ LanBridge!Cancelled(p) PROVE LanBridge!Types'
  BY <1>1 DEF LanBridge!Accept, LanBridge!handle, LanBridge!Upstream, LanBridge!pump, LanBridge!Cancelled,
       LanBridge!Lan, LanBridge!Closed, LanBridge!Types, LanBridge!Pcs, LanBridge!Kinds, LanBridge!rest,
       LanBridge!TaskInv
<1>2. ASSUME NEW p \in Phones, LanBridge!Forwarded(p) PROVE LanBridge!Types'
  <2>1. p \in LanBridge!ServingAs(r1[p].kind) /\ r1[p].kind \in LanBridge!Kinds
    BY <1>2 DEF LanBridge!Forwarded, LanBridge!ServingAs, LanBridge!Busy, LanBridge!Types
  <2>2. r2[r1[p].kind] \in Nat /\ r2[r1[p].kind] # 0
    BY <2>1, PhoneServingFinite, FS_EmptySet, SameCardinality DEF LanBridge!CountInv, LanBridge!Types
  <2>3. r2[r1[p].kind] - 1 \in Nat
    BY <2>2
  <2>4. r2' \in [LanBridge!Kinds -> Nat]
    BY <1>2, <2>3 DEF LanBridge!Forwarded, LanBridge!Types
  <2>5. r1' \in [Phones -> [pc : LanBridge!Pcs, kind : LanBridge!Kinds, up : BOOLEAN, pumps : 1..2]]
    BY <1>2 DEF LanBridge!Forwarded, LanBridge!Closed, LanBridge!Types, LanBridge!Pcs
  <2> QED
    BY <1>2, <2>4, <2>5 DEF LanBridge!Forwarded, LanBridge!Types, LanBridge!rest
<1>3. CASE LanBridge!http_ready \/ LanBridge!announce \/ LanBridge!Stop \/ LanBridge!Gathered \/ LanBridge!wait_closed
  BY <1>3 DEF LanBridge!http_ready, LanBridge!announce, LanBridge!Stop, LanBridge!Gathered,
       LanBridge!wait_closed, LanBridge!Types
<1>4. CASE UNCHANGED LanBridge!vars
  BY <1>4 DEF LanBridge!vars, LanBridge!Types
<1> QED
  BY <1>1, <1>2, <1>3, <1>4 DEF LanBridge!Next, LanBridge!Step

LEMMA PhoneCountStep == ASSUME LanBridge!Types, LanBridge!Types', HttpLimit \in Nat, LanBridge!CountInv,
     IsFiniteSet(Phones), LanBridge!TaskInv, [LanBridge!Next]_LanBridge!vars PROVE LanBridge!CountInv'
<1> DEFINE Same == \A k \in LanBridge!Kinds : LanBridge!ServingAs(k)' = LanBridge!ServingAs(k)
<1>1. ASSUME Same, r2' = r2, r7' = r7 \/ r7' # "open" PROVE LanBridge!CountInv'
  <2>1. \A k \in LanBridge!Kinds : Cardinality(LanBridge!ServingAs(k)') = Cardinality(LanBridge!ServingAs(k))
    BY <1>1
  <2> QED
    BY <1>1, <2>1 DEF LanBridge!CountInv, LanBridge!limit
<1>2. ASSUME NEW p \in Phones, LanBridge!Busy(p), LanBridge!Closed(p), r7' = r7,
             \/ r2' = [r2 EXCEPT ![r1[p].kind] = @ - 1]
             \/ r2' = r2 /\ r7 # "open"
      PROVE  LanBridge!CountInv'
  <2> PICK K \in LanBridge!Kinds : K = r1[p].kind
    BY DEF LanBridge!Types
  <2>1. p \in LanBridge!ServingAs(K)
    BY <1>2 DEF LanBridge!ServingAs
  <2>2. LanBridge!ServingAs(K)' = LanBridge!ServingAs(K) \ {p} /\ \A k \in LanBridge!Kinds : k # K => LanBridge!ServingAs(k)' = LanBridge!ServingAs(k)
    BY <1>2, <2>1, PhoneOneRecord DEF LanBridge!ServingAs, LanBridge!Busy, LanBridge!Types, LanBridge!Pcs
  <2>3. Cardinality(LanBridge!ServingAs(K)') = Cardinality(LanBridge!ServingAs(K)) - 1
    BY <2>1, <2>2, PhoneServingFinite, FS_RemoveElement
  <2>4. \A k \in LanBridge!Kinds : k # K => Cardinality(LanBridge!ServingAs(k)') = Cardinality(LanBridge!ServingAs(k))
    BY <2>2
  <2>5. \A k \in LanBridge!Kinds : Cardinality(LanBridge!ServingAs(k)) \in Nat /\ r2[k] \in Nat /\ r2'[k] \in Nat /\ LanBridge!limit(k) \in Nat
    BY PhoneServingFinite DEF LanBridge!Types, LanBridge!limit
  <2> QED
    BY <1>2, <2>1, <2>3, <2>4, <2>5, SameCardinality DEF LanBridge!CountInv, LanBridge!Types, LanBridge!limit
<1>3. ASSUME NEW p \in Phones, LanBridge!handle(p) PROVE LanBridge!CountInv'
  <2>1. CASE LanBridge!Lan(p, "done") /\ UNCHANGED <<r2, r3>>
    <3>1. Same
      BY <1>3, <2>1, PhoneOneRecord, PhoneServedOn DEF LanBridge!handle, LanBridge!Busy, LanBridge!Types,
           LanBridge!Pcs
    <3> QED
      BY <1>1, <1>3, <2>1, <3>1 DEF LanBridge!handle, LanBridge!rest
  <2>2. CASE /\ r2[r1[p].kind] < LanBridge!limit(r1[p].kind) /\ LanBridge!Lan(p, "connecting")
             /\ r2' = [r2 EXCEPT ![r1[p].kind] = @ + 1]
    <3> PICK K \in LanBridge!Kinds : K = r1[p].kind
      BY DEF LanBridge!Types
    <3>1. p \notin LanBridge!ServingAs(K)
      BY <1>3 DEF LanBridge!ServingAs, LanBridge!handle, LanBridge!Busy
    <3>2. LanBridge!ServingAs(K)' = LanBridge!ServingAs(K) \union {p} /\ \A k \in LanBridge!Kinds : k # K => LanBridge!ServingAs(k)' = LanBridge!ServingAs(k)
      BY <1>3, <2>2, <3>1, PhoneOneRecord DEF LanBridge!handle, LanBridge!ServingAs, LanBridge!Busy,
           LanBridge!Types, LanBridge!Pcs
    <3>3. Cardinality(LanBridge!ServingAs(K)') = Cardinality(LanBridge!ServingAs(K)) + 1
      BY <3>1, <3>2, PhoneServingFinite, FS_AddElement
    <3>4. \A k \in LanBridge!Kinds : k # K => Cardinality(LanBridge!ServingAs(k)') = Cardinality(LanBridge!ServingAs(k))
      BY <3>2
    <3>5. \A k \in LanBridge!Kinds : Cardinality(LanBridge!ServingAs(k)) \in Nat /\ r2[k] \in Nat /\ LanBridge!limit(k) \in Nat
      BY PhoneServingFinite DEF LanBridge!Types, LanBridge!limit
    <3> QED
      BY <1>3, <2>2, <3>1, <3>3, <3>4, <3>5, SameCardinality DEF LanBridge!handle, LanBridge!rest, LanBridge!CountInv,
           LanBridge!Types, LanBridge!limit
  <2> QED
    BY <1>3, <2>1, <2>2 DEF LanBridge!handle
<1>4. ASSUME NEW p \in Phones, LanBridge!Accept(p) \/ LanBridge!Upstream(p) \/ LanBridge!pump(p)
     PROVE LanBridge!CountInv'
  <2>1. Same
    BY <1>4, PhoneOneRecord, PhoneServedOn DEF LanBridge!Accept, LanBridge!Upstream, LanBridge!pump,
         LanBridge!Lan, LanBridge!Busy, LanBridge!Types, LanBridge!Pcs
  <2> QED
    BY <1>1, <1>4, <2>1 DEF LanBridge!Accept, LanBridge!Upstream, LanBridge!pump, LanBridge!rest
<1>5. ASSUME NEW p \in Phones, LanBridge!Forwarded(p) PROVE LanBridge!CountInv'
  BY <1>2, <1>5 DEF LanBridge!Forwarded, LanBridge!Busy, LanBridge!rest
<1>6. ASSUME NEW p \in Phones, LanBridge!Cancelled(p) PROVE LanBridge!CountInv'
  <2>1. LanBridge!Busy(p) /\ r7 # "open"
    BY <1>6 DEF LanBridge!Cancelled, LanBridge!TaskInv
  <2>2. CASE LanBridge!Closed(p)
    BY <1>2, <1>6, <2>1, <2>2 DEF LanBridge!Cancelled, LanBridge!rest
  <2>3. CASE LanBridge!Lan(p, "closing")
    <3>1. Same
      BY <2>1, <2>3, PhoneOneRecord, PhoneServedOn DEF LanBridge!Busy, LanBridge!Types, LanBridge!Pcs
    <3> QED
      BY <1>1, <1>6, <3>1 DEF LanBridge!Cancelled, LanBridge!rest
  <2> QED
    BY <1>6, <2>2, <2>3 DEF LanBridge!Cancelled
<1>7. CASE LanBridge!http_ready \/ LanBridge!announce \/ LanBridge!Stop \/ LanBridge!Gathered \/ LanBridge!wait_closed \/ UNCHANGED LanBridge!vars
  <2>1. Same
    BY <1>7 DEF LanBridge!http_ready, LanBridge!announce, LanBridge!Stop, LanBridge!Gathered,
         LanBridge!wait_closed, LanBridge!vars, LanBridge!ServingAs, LanBridge!Busy
  <2> QED
    BY <1>1, <1>7, <2>1 DEF LanBridge!http_ready, LanBridge!announce, LanBridge!Stop, LanBridge!Gathered,
         LanBridge!wait_closed, LanBridge!vars
<1> QED
  BY <1>3, <1>4, <1>5, <1>6, <1>7 DEF LanBridge!Next, LanBridge!Step

LEMMA PhoneTaskStep == ASSUME LanBridge!Types, HttpLimit \in Nat, LanBridge!CountInv, IsFiniteSet(Phones),
     LanBridge!TaskInv, [LanBridge!Next]_LanBridge!vars PROVE LanBridge!TaskInv'
<1>1. ASSUME NEW p \in Phones, LanBridge!Accept(p) \/ LanBridge!Upstream(p) \/ LanBridge!pump(p)
     PROVE LanBridge!TaskInv'
  BY <1>1 DEF LanBridge!Accept, LanBridge!Upstream, LanBridge!pump, LanBridge!Lan, LanBridge!Busy,
       LanBridge!Types, LanBridge!Pcs, LanBridge!TaskInv, LanBridge!rest
<1>2. ASSUME NEW p \in Phones, LanBridge!handle(p) PROVE LanBridge!TaskInv'
  BY <1>2, PhoneOneRecord DEF LanBridge!handle, LanBridge!Busy, LanBridge!Types, LanBridge!Pcs,
       LanBridge!TaskInv, LanBridge!rest
<1>3. ASSUME NEW p \in Phones, LanBridge!Forwarded(p) PROVE LanBridge!TaskInv'
  BY <1>3, PhoneOneRecord DEF LanBridge!Forwarded, LanBridge!Busy, LanBridge!Types, LanBridge!Pcs,
       LanBridge!TaskInv, LanBridge!rest
<1>4. ASSUME NEW p \in Phones, LanBridge!Cancelled(p) PROVE LanBridge!TaskInv'
  BY <1>4, PhoneOneRecord DEF LanBridge!Cancelled, LanBridge!Busy, LanBridge!Types, LanBridge!Pcs,
       LanBridge!TaskInv, LanBridge!rest
<1>5. CASE LanBridge!announce
  <2>1. r2["control"] = 0 => ~LanBridge!Serving
    <3>1. "control" \in LanBridge!Kinds /\ LanBridge!Serving => LanBridge!ServingAs("control") # {}
      BY DEF LanBridge!Serving, LanBridge!ServingAs, LanBridge!Kinds
    <3>2. r2["control"] = 0 => Cardinality(LanBridge!ServingAs("control")) = 0
      BY PhoneServingFinite, SameCardinality DEF LanBridge!CountInv, LanBridge!Types, LanBridge!Kinds
    <3> QED
      BY <3>1, <3>2, PhoneServingFinite, FS_EmptySet DEF LanBridge!Kinds
  <2> QED
    BY <1>5, <2>1 DEF LanBridge!announce, LanBridge!Busy, LanBridge!TaskInv
<1>6. CASE LanBridge!http_ready \/ LanBridge!Stop \/ LanBridge!Gathered \/ LanBridge!wait_closed \/ UNCHANGED LanBridge!vars
  BY <1>6 DEF LanBridge!http_ready, LanBridge!Stop, LanBridge!Gathered, LanBridge!wait_closed,
       LanBridge!vars, LanBridge!Busy, LanBridge!TaskInv
<1> QED
  BY <1>1, <1>2, <1>3, <1>4, <1>5, <1>6 DEF LanBridge!Next, LanBridge!Step

\* A connection is counted once at most, in handle().
LEMMA PhoneSeenStep == ASSUME LanBridge!Types, LanBridge!Types', HttpLimit \in Nat, LanBridge!CountInv,
     LanBridge!TaskInv, LanBridge!SeenInv, IsFiniteSet(Phones), [LanBridge!Next]_LanBridge!vars
     PROVE LanBridge!SeenInv'
<1>1. \A k \in LanBridge!Kinds : IsFiniteSet(LanBridge!HandledAs(k)) /\ Cardinality(LanBridge!HandledAs(k)) \in Nat
  <2>1. \A k \in LanBridge!Kinds : LanBridge!HandledAs(k) \in SUBSET Phones
    BY DEF LanBridge!HandledAs
  <2> QED
    BY <2>1, FS_Subset, FS_CardinalityType
<1>2. \A k \in LanBridge!Kinds : r2[k] \in Nat /\ r2'[k] \in Nat
  BY DEF LanBridge!Types
<1>3. ASSUME \A k \in LanBridge!Kinds : LanBridge!HandledAs(k)' = LanBridge!HandledAs(k),
     \A k \in LanBridge!Kinds : r2'[k] <= r2[k] PROVE LanBridge!SeenInv'
  <2>1. \A k \in LanBridge!Kinds : Cardinality(LanBridge!HandledAs(k)') = Cardinality(LanBridge!HandledAs(k))
    BY <1>3
  <2> QED
    BY <1>1, <1>2, <1>3, <2>1, SameCardinality DEF LanBridge!SeenInv
<1>4. ASSUME NEW p \in Phones, LanBridge!handle(p) PROVE LanBridge!SeenInv'
  <2> PICK K \in LanBridge!Kinds : K = r1[p].kind
    BY DEF LanBridge!Types
  <2>1. p \notin LanBridge!HandledAs(K)
    BY <1>4 DEF LanBridge!handle, LanBridge!HandledAs
  <2>2. LanBridge!HandledAs(K)' = LanBridge!HandledAs(K) \union {p} /\ \A k \in LanBridge!Kinds : k # K => LanBridge!HandledAs(k)' = LanBridge!HandledAs(k)
    BY <1>4, PhoneOneRecord DEF LanBridge!handle, LanBridge!HandledAs, LanBridge!Types, LanBridge!Pcs
  <2>3. Cardinality(LanBridge!HandledAs(K)') = Cardinality(LanBridge!HandledAs(K)) + 1
    BY <1>1, <2>1, <2>2, FS_AddElement
  <2>4. \A k \in LanBridge!Kinds : k # K => Cardinality(LanBridge!HandledAs(k)') = Cardinality(LanBridge!HandledAs(k))
    BY <2>2
  <2>5. r2'[K] <= r2[K] + 1 /\ \A k \in LanBridge!Kinds : k # K => r2'[k] = r2[k]
    BY <1>2, <1>4 DEF LanBridge!handle, LanBridge!Types
  <2> QED
    BY <1>1, <1>2, <2>3, <2>4, <2>5, SameCardinality DEF LanBridge!SeenInv
<1>5. ASSUME NEW p \in Phones,
     LanBridge!Accept(p) \/ LanBridge!Upstream(p) \/ LanBridge!pump(p) \/ LanBridge!Forwarded(p) \/ LanBridge!Cancelled(p) PROVE LanBridge!SeenInv'
  <2>1. \A k \in LanBridge!Kinds : LanBridge!HandledAs(k)' = LanBridge!HandledAs(k)
    <3>1. CASE LanBridge!Accept(p)
      BY <3>1 DEF LanBridge!Accept, LanBridge!HandledAs, LanBridge!Types
    <3>2. CASE LanBridge!Upstream(p) \/ LanBridge!pump(p)
      BY <3>2 DEF LanBridge!Upstream, LanBridge!pump, LanBridge!Lan, LanBridge!HandledAs, LanBridge!Types
    <3>3. CASE LanBridge!Forwarded(p)
      BY <3>3, PhoneOneRecord DEF LanBridge!Forwarded, LanBridge!HandledAs, LanBridge!Types
    <3>4. CASE LanBridge!Cancelled(p)
      <4>1. LanBridge!Busy(p)
        BY <3>4 DEF LanBridge!Cancelled, LanBridge!TaskInv
      <4> QED
        BY <3>4, <4>1, PhoneOneRecord DEF LanBridge!Cancelled, LanBridge!Busy, LanBridge!HandledAs,
             LanBridge!Types, LanBridge!Pcs
    <3> QED
      BY <1>5, <3>1, <3>2, <3>3, <3>4
  <2>2. \A k \in LanBridge!Kinds : r2'[k] <= r2[k]
    BY <1>2, <1>5 DEF LanBridge!Accept, LanBridge!Upstream, LanBridge!pump, LanBridge!Forwarded,
         LanBridge!Cancelled, LanBridge!Types
  <2> QED
    BY <1>3, <2>1, <2>2
<1>6. CASE LanBridge!http_ready \/ LanBridge!announce \/ LanBridge!Stop \/ LanBridge!Gathered \/ LanBridge!wait_closed \/ UNCHANGED LanBridge!vars
  <2>1. \A k \in LanBridge!Kinds : LanBridge!HandledAs(k)' = LanBridge!HandledAs(k) /\ r2'[k] <= r2[k]
    BY <1>2, <1>6 DEF LanBridge!http_ready, LanBridge!announce, LanBridge!Stop, LanBridge!Gathered,
         LanBridge!wait_closed, LanBridge!vars, LanBridge!HandledAs
  <2> QED
    BY <1>3, <2>1
<1> QED
  BY <1>4, <1>5, <1>6 DEF LanBridge!Next, LanBridge!Step

LEMMA PhoneStepInv == ASSUME LanBridge!IInv, HttpLimit \in Nat, IsFiniteSet(Phones),
     [LanBridge!Next]_LanBridge!vars PROVE LanBridge!IInv'
BY PhoneTypesStep, PhoneCountStep, PhoneTaskStep, PhoneSeenStep DEF LanBridge!IInv

\* The counts are the connections served, no phone is invited while one is, and a stopped
\* forwarder serves none (handle(), announce(), run()).
LEMMA PhoneIsSafe == ASSUME LanBridge!IInv, IsFiniteSet(Phones)
     PROVE LanBridge!TypeOK /\ LanBridge!ForwarderCounts
<1>1. LanBridge!ForwarderCounts
  BY DEF LanBridge!IInv, LanBridge!CountInv, LanBridge!TaskInv, LanBridge!ServingAs, LanBridge!Busy,
       LanBridge!ForwarderCounts
<1>2. \A k \in LanBridge!Kinds : LanBridge!HandledAs(k) \in SUBSET Phones
  BY DEF LanBridge!HandledAs
<1>3. \A k \in LanBridge!Kinds : r2[k] \in 0 .. Cardinality(Phones)
  BY <1>2, FS_Subset, FS_CardinalityType, SameCardinality DEF LanBridge!IInv, LanBridge!Types, LanBridge!SeenInv
<1>4. r2 \in [LanBridge!Kinds -> 0 .. Cardinality(Phones)]
  BY <1>3 DEF LanBridge!IInv, LanBridge!Types
<1> QED
  BY <1>1, <1>4, SameCardinality DEF LanBridge!IInv, LanBridge!Types, LanBridge!TaskInv, LanBridge!TypeOK, LanBridge!Pcs,
       LanBridge!Busy

(* ----------------------------- the recognizer ----------------------------- *)

LEMMA UtteranceRest == Utterance!Idle \in Utterance!Calls /\ Utterance!Down \in Utterance!Workers
<1>1. Utterance!Down \in Utterance!Workers
  BY DEF Utterance!Down, Utterance!Workers, Utterance!Digests, Utterance!None
<1>2. Utterance!Idle.result \in Utterance!Results /\ Utterance!Idle.before \in Utterance!Digests
  BY DEF Utterance!Idle, Utterance!Results, Utterance!Digests
<1>3. Utterance!Idle \in Utterance!Calls
  BY DEF Utterance!Idle, Utterance!Calls, Utterance!Results, Utterance!Clips, Utterance!Digests,
       Utterance!None
<1> QED
  BY <1>1, <1>3

LEMMA UtteranceInitInv == ASSUME Models # {}, MaxCalls \in Nat, Utterance!Init PROVE Utterance!IInv
<1>1. r1 \in Utterance!Digests
  BY DEF Utterance!Init, Utterance!Digests
<1>2. r2 \in Utterance!Workers
  BY <1>1, UtteranceRest DEF Utterance!Init, Utterance!Workers, Utterance!Down
<1>3. Utterance!Types
  <2>1. r4 \in [Clients -> Utterance!Calls]
    BY UtteranceRest DEF Utterance!Init
  <2>2. r7 \in [calls : 0..MaxCalls, changes : Nat]
    BY DEF Utterance!Init
  <2> QED
    BY <1>1, <1>2, <2>1, <2>2 DEF Utterance!Init, Utterance!Types
<1>4. Utterance!WorkerInv
  <2>1. r3 = {} /\ r6 = {}
    BY DEF Utterance!Init
  <2>2. /\ r2.pc = "loading" /\ ~r2.rash => r2.loaded = r1
        /\ r2.pc = "up" /\ ~r2.rash => r2.sha = r2.loaded
    <3>1. CASE r2 = Utterance!Down
      BY <3>1 DEF Utterance!Down
    <3>2. CASE r2 = [Utterance!Down EXCEPT !.pc = "up", !.loaded = r1, !.sha = r1]
      BY <3>2 DEF Utterance!Down
    <3> QED
      BY <3>1, <3>2 DEF Utterance!Init
  <2> QED
    BY <2>1, <2>2 DEF Utterance!WorkerInv
<1>5. Utterance!PlaceInv /\ Utterance!CallInv /\ Utterance!WordsWereSaid /\ Utterance!ModelIsKnown
  BY DEF Utterance!Init, Utterance!PlaceInv, Utterance!CallInv, Utterance!WordsWereSaid,
       Utterance!ModelIsKnown, Utterance!On, Utterance!At, Utterance!Idle
<1> QED
  BY <1>3, <1>4, <1>5 DEF Utterance!IInv

LEMMA UtteranceTypesStep == ASSUME Utterance!IInv, MaxCalls \in Nat, [Utterance!Next]_Utterance!vars
     PROVE Utterance!Types'
<1>1. Utterance!Types
  BY DEF Utterance!IInv
<1>2. ASSUME NEW id \in Nat, NEW s \in Utterance!Statuses, NEW t \in Utterance!Heard, Utterance!Reply(id,
     s, t)
      PROVE  r6' \subseteq Utterance!Replies
  <2>1. r2.sha \in Utterance!Digests /\ r2.loaded \in Utterance!Digests /\ r2.rash \in BOOLEAN
    BY <1>1 DEF Utterance!Types, Utterance!Workers
  <2>2. [id |-> id, status |-> s, text |-> t, sha |-> r2.sha, by |-> r2.loaded, rash |-> r2.rash] \in Utterance!Replies
    BY <2>1 DEF Utterance!Replies
  <2>3. r6 \subseteq Utterance!Replies
    BY <1>1 DEF Utterance!Types
  <2> DEFINE r == [id |-> id, status |-> s, text |-> t, sha |-> r2.sha, by |-> r2.loaded, rash |-> r2.rash]
  <2>4. r6' = r6 \union {r} /\ r \in Utterance!Replies
    BY <1>2, <2>2 DEF Utterance!Reply
  <2> HIDE DEF r
  <2> QED
    BY <2>3, <2>4
<1>3. CASE Utterance!Replace
  <2>1. r1' \in Utterance!Digests
    BY <1>3 DEF Utterance!Replace, Utterance!Digests
  <2>2. r7' \in [calls : 0..MaxCalls, changes : Nat]
    BY <1>1, <1>3 DEF Utterance!Replace, Utterance!Change, Utterance!Types
  <2>3. r2' \in Utterance!Workers
    <3>1. r2 \in Utterance!Workers /\ r2' = [r2 EXCEPT !.rash = @ \/ r2.pc = "loading"]
      BY <1>1, <1>3 DEF Utterance!Replace, Utterance!Types
    <3> QED
      BY <3>1 DEF Utterance!Workers
  <2>4. r4' \in [Clients -> Utterance!Calls]
    <3>1. \A x \in Utterance!Calls, b \in BOOLEAN : [x EXCEPT !.replaced = b] \in Utterance!Calls
      BY DEF Utterance!Calls
    <3>2. \A c \in Clients : [r4[c] EXCEPT !.replaced = @ \/ r4[c].pc \notin {"idle", "used"}] \in Utterance!Calls
      <4> TAKE c \in Clients
      <4>1. r4[c] \in Utterance!Calls /\ (r4[c].replaced \/ r4[c].pc \notin {"idle", "used"}) \in BOOLEAN
        BY <1>1 DEF Utterance!Types
      <4> QED
        BY <3>1, <4>1
    <3> QED
      BY <1>3, <3>2 DEF Utterance!Replace
  <2> QED
    BY <1>1, <1>3, <2>1, <2>2, <2>3, <2>4 DEF Utterance!Replace, Utterance!Types
<1>4. CASE Utterance!Stop \/ Utterance!main
  <2>1. r2' \in Utterance!Workers
    <3>1. CASE r2' = Utterance!Down
      BY <3>1, UtteranceRest
    <3>2. CASE r2' = [Utterance!Down EXCEPT !.pc = "loading", !.loaded = r1]
      BY <1>1, <3>2, UtteranceRest DEF Utterance!Types, Utterance!Workers, Utterance!Down
    <3>3. CASE r2' = [r2 EXCEPT !.pc = "up", !.sha = r1]
      <4>1. r2 \in Utterance!Workers /\ r1 \in Utterance!Digests
        BY <1>1 DEF Utterance!Types
      <4> QED
        BY <3>3, <4>1 DEF Utterance!Workers
    <3> QED
      BY <1>4, <3>1, <3>2, <3>3 DEF Utterance!Stop, Utterance!main
  <2>2. r7' \in [calls : 0..MaxCalls, changes : Nat]
    BY <1>1, <1>4 DEF Utterance!Stop, Utterance!main, Utterance!Change, Utterance!Types
  <2>3. r1' = r1 /\ r4' = r4 /\ r5' = r5 /\ r6' = r6 /\ r3' \subseteq r3
    BY <1>4 DEF Utterance!Stop, Utterance!main
  <2> QED
    BY <1>1, <2>1, <2>2, <2>3 DEF Utterance!Types
<1>5. CASE Utterance!do_POST
  <2>1. r5' \subseteq Utterance!Sent /\ r3' \subseteq Utterance!Sent
    BY <1>1, <1>5 DEF Utterance!do_POST, Utterance!Types
  <2>2. r6' \subseteq Utterance!Replies
    <3>1. CASE \E q \in r5 \union r3, s \in Utterance!Statuses, t \in Utterance!Heard : Utterance!Reply(q.id, s, t)
      <4>1. \A q \in r5 \union r3 : q.id \in Nat
        BY <1>1 DEF Utterance!Types, Utterance!Sent
      <4>2. PICK q \in r5 \union r3, s \in Utterance!Statuses, t \in Utterance!Heard : Utterance!Reply(q.id, s, t)
        BY <3>1
      <4>3. q.id \in Nat
        BY <4>1
      <4> QED
        BY <1>2, <4>2, <4>3
    <3>2. CASE UNCHANGED r6
      BY <1>1, <3>2 DEF Utterance!Types
    <3>3. {200, 400, 409, 503} \subseteq Utterance!Statuses /\ "" \in Utterance!Heard /\ Utterance!Heard = {"", "words"}
      BY DEF Utterance!Statuses, Utterance!Heard
    <3>4. ASSUME NEW q \in r5, IF Utterance!Busy THEN Utterance!Reply(q.id, 409,
         "") ELSE UNCHANGED r6 PROVE r6' \subseteq Utterance!Replies
      BY <3>1, <3>2, <3>3, <3>4
    <3>5. ASSUME NEW q \in r3, NEW s \in Utterance!Statuses, NEW t \in Utterance!Heard,
         Utterance!Reply(q.id, s, t) PROVE r6' \subseteq Utterance!Replies
      BY <3>1, <3>5
    <3>6. ASSUME NEW q \in r3, IF q.sha # r2.sha THEN Utterance!Reply(q.id, 400, "")
             ELSE \/ \E t \in {"", "words"} : (q.clip = "silence" => t = "") /\ Utterance!Reply(q.id, 200, t)
                  \/ q.clip # "silence" /\ Utterance!Reply(q.id, 503, "")
          PROVE r6' \subseteq Utterance!Replies
      <4>1. CASE Utterance!Reply(q.id, 400, "")
        BY <3>3, <3>5, <4>1
      <4>2. CASE Utterance!Reply(q.id, 503, "")
        BY <3>3, <3>5, <4>2
      <4>3. CASE \E t \in Utterance!Heard : Utterance!Reply(q.id, 200, t)
        BY <3>3, <3>5, <4>3
      <4> QED
        BY <3>3, <3>6, <4>1, <4>2, <4>3
    <3> QED
      BY <1>5, <3>4, <3>6 DEF Utterance!do_POST
  <2> QED
    BY <1>1, <1>5, <2>1, <2>2 DEF Utterance!do_POST, Utterance!Types
<1>6. CASE Utterance!Lost
  BY <1>1, <1>6 DEF Utterance!Lost, Utterance!Types
<1>7. ASSUME NEW c \in Clients, NEW x \in Utterance!Calls, r4' = [r4 EXCEPT ![c] = x]
     PROVE r4' \in [Clients -> Utterance!Calls]
  BY <1>1, <1>7 DEF Utterance!Types
<1>8. \A c \in Clients : r4[c] \in Utterance!Calls
  BY <1>1 DEF Utterance!Types
<1>9. ASSUME NEW c \in Clients, Utterance!transcribe_audio(c) PROVE Utterance!Types'
  <2>1. r7' \in [calls : 0..MaxCalls, changes : Nat] /\ r7.calls + 1 \in Nat
    BY <1>1, <1>9 DEF Utterance!transcribe_audio, Utterance!Types
  <2>2. ASSUME NEW clip \in Utterance!Clips, NEW kind \in {"gigaam", "plugin"}
        PROVE  [Utterance!Idle EXCEPT !.pc = "started", !.id = r7.calls + 1, !.clip = clip, !.kind = kind, !.before = r1] \in Utterance!Calls
    BY <1>1, <2>1, UtteranceRest DEF Utterance!Types, Utterance!Idle, Utterance!Calls
  <2>3. r4' \in [Clients -> Utterance!Calls]
    BY <1>7, <1>9, <2>2, UtteranceRest DEF Utterance!transcribe_audio
  <2> QED
    BY <1>1, <1>9, <2>1, <2>3 DEF Utterance!transcribe_audio, Utterance!Types
<1>10. ASSUME NEW c \in Clients, Utterance!transcribe(c) PROVE Utterance!Types'
  <2>1. CASE Utterance!Over(c) /\ UNCHANGED r5
    BY <1>1, <1>7, <1>10, <2>1, UtteranceRest DEF Utterance!transcribe, Utterance!Over, Utterance!Types
  <2>2. CASE /\ r4' = [r4 EXCEPT ![c].pc = "asked", ![c].expected = r1]
             /\ r5' = r5 \union {[id |-> r4[c].id, clip |-> r4[c].clip, sha |-> r1]}
    <3>1. [r4[c] EXCEPT !.pc = "asked", !.expected = r1] \in Utterance!Calls
      BY <1>1, <1>8 DEF Utterance!Types, Utterance!Calls
    <3>2. r4' = [r4 EXCEPT ![c] = [r4[c] EXCEPT !.pc = "asked", !.expected = r1]]
      BY <1>1, <2>2 DEF Utterance!Types
    <3>3. [id |-> r4[c].id, clip |-> r4[c].clip, sha |-> r1] \in Utterance!Sent
      BY <1>1, <1>8 DEF Utterance!Types, Utterance!Calls, Utterance!Sent
    <3> QED
      BY <1>1, <1>7, <1>10, <2>2, <3>1, <3>2, <3>3 DEF Utterance!transcribe, Utterance!Types
  <2> QED
    BY <1>10, <2>1, <2>2 DEF Utterance!transcribe
<1>11. ASSUME NEW c \in Clients, Utterance!Plugin(c) PROVE Utterance!Types'
  <2>1. PICK t \in {"", "words", "control"}, l \in BOOLEAN, n \in BOOLEAN :
          r4' = [r4 EXCEPT ![c].pc = "result", ![c].result = [text |-> t, locale |-> l, no_speech |-> n]]
    BY <1>11 DEF Utterance!Plugin
  <2>2. [text |-> t, locale |-> l, no_speech |-> n] \in Utterance!Results
    BY DEF Utterance!Results
  <2>3. [r4[c] EXCEPT !.pc = "result", !.result = [text |-> t, locale |-> l, no_speech |-> n]] \in Utterance!Calls
    BY <1>8, <2>2 DEF Utterance!Calls
  <2>4. r4' = [r4 EXCEPT ![c] = [r4[c] EXCEPT !.pc = "result", !.result = [text |-> t, locale |-> l, no_speech |-> n]]]
    BY <1>1, <2>1 DEF Utterance!Types
  <2> QED
    BY <1>1, <1>7, <1>11, <2>3, <2>4 DEF Utterance!Plugin, Utterance!Types
<1>12. ASSUME NEW c \in Clients, Utterance!Result(c) PROVE Utterance!Types'
  <2>1. CASE Utterance!Over(c)
    BY <1>1, <1>7, <1>12, <2>1, UtteranceRest DEF Utterance!Result, Utterance!Over, Utterance!Types
  <2>2. CASE r4' = [r4 EXCEPT ![c].pc = "used", ![c].record = r1]
    <3>1. [r4[c] EXCEPT !.pc = "used", !.record = r1] \in Utterance!Calls
      BY <1>1, <1>8 DEF Utterance!Types, Utterance!Calls
    <3>2. r4' = [r4 EXCEPT ![c] = [r4[c] EXCEPT !.pc = "used", !.record = r1]]
      BY <1>1, <2>2 DEF Utterance!Types
    <3> QED
      BY <1>1, <1>7, <1>12, <3>1, <3>2 DEF Utterance!Result, Utterance!Types
  <2> QED
    BY <1>12, <2>1, <2>2 DEF Utterance!Result
<1>13. ASSUME NEW c \in Clients, Utterance!Answered(c) PROVE Utterance!Types'
  <2>1. PICK r \in r6 : r.id = r4[c].id /\ r6' = r6 \ {r} /\
          IF r.status # 200 \/ r.sha # r4[c].expected THEN Utterance!Over(c)
          ELSE r4' = [r4 EXCEPT ![c].pc = "result", ![c].verified = r.sha, ![c].heard = IF r.rash THEN r.sha ELSE r.by,
                                    ![c].result = [text |-> r.text, locale |-> TRUE, no_speech |-> r.text = ""]]
    BY <1>13 DEF Utterance!Answered
  <2>2. CASE Utterance!Over(c)
    BY <1>1, <1>7, <1>13, <2>1, <2>2, UtteranceRest DEF Utterance!Answered, Utterance!Over, Utterance!Types
  <2>3. CASE ~Utterance!Over(c)
    <3> DEFINE x == [r4[c] EXCEPT !.pc = "result", !.verified = r.sha, !.heard = IF r.rash THEN r.sha ELSE r.by,
                                    !.result = [text |-> r.text, locale |-> TRUE, no_speech |-> r.text = ""]]
    <3>1. r.sha \in Utterance!Digests /\ r.by \in Utterance!Digests /\ r.text \in {"", "words"}
      BY <1>1 DEF Utterance!Types, Utterance!Replies, Utterance!Heard
    <3>2. [text |-> r.text, locale |-> TRUE, no_speech |-> r.text = ""] \in Utterance!Results
      BY <3>1 DEF Utterance!Results
    <3>3. x \in Utterance!Calls
      BY <1>8, <3>1, <3>2 DEF Utterance!Calls
    <3>4. r4' = [r4 EXCEPT ![c] = x]
      BY <1>1, <2>1, <2>3 DEF Utterance!Types
    <3> QED
      BY <1>1, <1>7, <1>13, <2>1, <3>3, <3>4 DEF Utterance!Answered, Utterance!Types
  <2> QED
    BY <2>2, <2>3
<1>14. ASSUME NEW c \in Clients, Utterance!GivesUp(c) PROVE Utterance!Types'
  BY <1>1, <1>7, <1>14, UtteranceRest DEF Utterance!GivesUp, Utterance!Over, Utterance!Types
<1>15. CASE UNCHANGED Utterance!vars
  BY <1>1, <1>15 DEF Utterance!vars, Utterance!Types
<1> QED
  BY <1>3, <1>4, <1>5, <1>6, <1>9, <1>10, <1>11, <1>12, <1>13, <1>14, <1>15 DEF Utterance!Next,
       Utterance!Assistant, Utterance!Waits

\* What do_POST adds to the replies is of the worker as it is then.
LEMMA UtteranceReplied ==
  ASSUME NEW id, NEW s, NEW t, Utterance!Reply(id, s, t)
  PROVE  \E r : /\ r6' = r6 \union {r} /\ r.id = id /\ r.status = s
                /\ r.sha = r2.sha /\ r.by = r2.loaded /\ r.rash = r2.rash
<1> DEFINE r == [id |-> id, status |-> s, text |-> t, sha |-> r2.sha, by |-> r2.loaded, rash |-> r2.rash]
<1>1. r6' = r6 \union {r}
  BY DEF Utterance!Reply
<1>2. r.id = id /\ r.status = s /\ r.sha = r2.sha /\ r.by = r2.loaded /\ r.rash = r2.rash
  OBVIOUS
<1> QED
  BY <1>1, <1>2

\* do_POST takes a request over, or answers one that was sent or taken over.
LEMMA UtteranceServed ==
  ASSUME Utterance!do_POST
  PROVE  \/ \E q \in r5 : /\ r5' = r5 \ {q} /\ r2.pc = "up"
                              /\ \/ r3 = {} /\ r3' = r3 \union {q} /\ r6' = r6
                                 \/ r3 # {} /\ r3' = r3 /\ \E s, t : Utterance!Reply(q.id, s, t)
         \/ \E q \in r3 : /\ r5' = r5 /\ r3' = r3 \ {q} /\ \E s, t : Utterance!Reply(q.id, s, t)
<1>1. ASSUME NEW q \in r5, r2.pc = "up", r5' = r5 \ {q},
             IF Utterance!Busy THEN Utterance!Reply(q.id, 409, "") /\ UNCHANGED r3 ELSE r3' = r3 \union {q} /\ UNCHANGED r6
      PROVE  \/ r3 = {} /\ r3' = r3 \union {q} /\ r6' = r6
             \/ r3 # {} /\ r3' = r3 /\ \E s, t : Utterance!Reply(q.id, s, t)
  <2>1. CASE Utterance!Busy
    <3>1. Utterance!Reply(q.id, 409, "") /\ r3' = r3
      BY <1>1, <2>1
    <3>2. \E s, t : Utterance!Reply(q.id, s, t)
      BY <3>1
    <3> QED
      BY <2>1, <3>1, <3>2 DEF Utterance!Busy
  <2>2. CASE ~Utterance!Busy
    BY <1>1, <2>2 DEF Utterance!Busy
  <2> QED
    BY <2>1, <2>2
<1>2. ASSUME NEW q \in r3,
             IF q.sha # r2.sha THEN Utterance!Reply(q.id, 400, "")
             ELSE \/ \E t \in {"", "words"} : (q.clip = "silence" => t = "") /\ Utterance!Reply(q.id, 200, t)
                  \/ q.clip # "silence" /\ Utterance!Reply(q.id, 503, "")
      PROVE  \E s, t : Utterance!Reply(q.id, s, t)
  <2>1. CASE Utterance!Reply(q.id, 400, "")
    BY <2>1
  <2>2. CASE Utterance!Reply(q.id, 503, "")
    BY <2>2
  <2>3. CASE \E t \in {"", "words"} : Utterance!Reply(q.id, 200, t)
    BY <2>3
  <2> QED
    BY <1>2, <2>1, <2>2, <2>3
<1>3. CASE \E q \in r5 :
             /\ r2.pc = "up" /\ r5' = r5 \ {q}
             /\ IF Utterance!Busy THEN Utterance!Reply(q.id, 409, "") /\ UNCHANGED r3 ELSE r3' = r3 \union {q} /\ UNCHANGED r6
  BY <1>1, <1>3
<1>4. CASE \E q \in r3 :
             /\ r3' = r3 \ {q} /\ UNCHANGED r5
             /\ IF q.sha # r2.sha THEN Utterance!Reply(q.id, 400, "")
                ELSE \/ \E t \in {"", "words"} : (q.clip = "silence" => t = "") /\ Utterance!Reply(q.id, 200, t)
                     \/ q.clip # "silence" /\ Utterance!Reply(q.id, 503, "")
  <2>0. PICK q \in r3 :
             /\ r3' = r3 \ {q} /\ UNCHANGED r5
             /\ IF q.sha # r2.sha THEN Utterance!Reply(q.id, 400, "")
                ELSE \/ \E t \in {"", "words"} : (q.clip = "silence" => t = "") /\ Utterance!Reply(q.id, 200, t)
                     \/ q.clip # "silence" /\ Utterance!Reply(q.id, 503, "")
    BY <1>4
  <2>1. \E s, t : Utterance!Reply(q.id, s, t)
    BY <1>2, <2>0
  <2> QED
    BY <2>0, <2>1
<1> QED
  BY <1>3, <1>4 DEF Utterance!do_POST

LEMMA UtteranceWorkerStep == ASSUME Utterance!IInv, [Utterance!Next]_Utterance!vars
     PROVE Utterance!WorkerInv'
<1>1. Utterance!WorkerInv
  BY DEF Utterance!IInv
<1>2. ASSUME r3' = r3, r2' = r2, r1' = r1, r6' \subseteq r6 PROVE Utterance!WorkerInv'
  BY <1>1, <1>2 DEF Utterance!WorkerInv
<1>3. CASE Utterance!Replace
  <2>1. /\ r2 \in Utterance!Workers /\ r2' = [r2 EXCEPT !.rash = @ \/ r2.pc = "loading"]
        /\ r3' = r3 /\ r6' = r6
    BY <1>3 DEF Utterance!Replace, Utterance!IInv, Utterance!Types
  <2>2. /\ r2'.pc = r2.pc /\ r2'.loaded = r2.loaded /\ r2'.sha = r2.sha
        /\ r2'.rash = (r2.rash \/ r2.pc = "loading")
    BY <2>1 DEF Utterance!Workers
  <2> QED
    BY <1>1, <2>1, <2>2 DEF Utterance!WorkerInv
<1>4. CASE Utterance!Stop
  BY <1>1, <1>4 DEF Utterance!Stop, Utterance!Down, Utterance!WorkerInv
<1>5. CASE Utterance!main
  <2>1. r3' = {} /\ r3 = {} /\ r6' = r6 /\ r1' = r1
    BY <1>1, <1>5 DEF Utterance!main, Utterance!WorkerInv
  <2>2. CASE r2' = Utterance!Down
    BY <1>1, <2>1, <2>2 DEF Utterance!Down, Utterance!WorkerInv
  <2>3. CASE r2' = [Utterance!Down EXCEPT !.pc = "loading", !.loaded = r1]
    <3>1. r2'.pc = "loading" /\ r2'.loaded = r1
      BY <2>3 DEF Utterance!Down
    <3> QED
      BY <1>1, <2>1, <3>1 DEF Utterance!WorkerInv
  <2>4. CASE r2' = [r2 EXCEPT !.pc = "up", !.sha = r1] /\ r2.pc = "loading"
    <3>1. r2 \in Utterance!Workers
      BY DEF Utterance!IInv, Utterance!Types
    <3>2. r2'.pc = "up" /\ r2'.sha = r1 /\ r2'.loaded = r2.loaded /\ r2'.rash = r2.rash
      BY <2>4, <3>1 DEF Utterance!Workers
    <3> QED
      BY <1>1, <2>1, <2>4, <3>2 DEF Utterance!WorkerInv
  <2> QED
    BY <1>5, <2>2, <2>3, <2>4 DEF Utterance!main
<1>6. CASE Utterance!do_POST
  <2>1. r2' = r2 /\ r1' = r1
    BY <1>6 DEF Utterance!do_POST
  <2>2. ASSUME r2.pc = "up", NEW id, NEW s, NEW t, Utterance!Reply(id, s, t)
        PROVE  \A r \in r6' : r.status = 200 /\ ~r.rash => r.sha = r.by
    <3>1. PICK r : r6' = r6 \union {r} /\ r.sha = r2.sha /\ r.by = r2.loaded /\ r.rash = r2.rash
      BY <2>2, UtteranceReplied
    <3> QED
      BY <1>1, <2>2, <3>1 DEF Utterance!WorkerInv
  <2>3. ASSUME NEW q \in r5, r2.pc = "up", r3 = {}, r3' = r3 \union {q}, r6' = r6 PROVE Utterance!WorkerInv'
    BY <1>1, <2>1, <2>3 DEF Utterance!WorkerInv
  <2>4. ASSUME NEW q \in r5, r2.pc = "up", r3' = r3, \E s, t : Utterance!Reply(q.id, s, t)
       PROVE Utterance!WorkerInv'
    BY <1>1, <2>1, <2>2, <2>4 DEF Utterance!WorkerInv
  <2>5. ASSUME NEW q \in r3, r3' = r3 \ {q}, NEW s, NEW t, Utterance!Reply(q.id, s, t)
       PROVE Utterance!WorkerInv'
    <3>1. r2.pc = "up" /\ r3' = {}
      BY <1>1, <2>5 DEF Utterance!WorkerInv
    <3> QED
      BY <1>1, <2>1, <2>2, <2>5, <3>1 DEF Utterance!WorkerInv
  <2> QED
    BY <1>6, <2>3, <2>4, <2>5, UtteranceServed
<1>7. ASSUME NEW c \in Clients,
     Utterance!transcribe_audio(c) \/ Utterance!transcribe(c) \/ Utterance!Plugin(c) \/ Utterance!Result(c) \/ Utterance!Answered(c) \/ Utterance!GivesUp(c)
      PROVE  Utterance!WorkerInv'
  BY <1>2, <1>7 DEF Utterance!transcribe_audio, Utterance!transcribe, Utterance!Plugin, Utterance!Result,
       Utterance!Answered, Utterance!GivesUp
<1>8. CASE Utterance!Lost \/ UNCHANGED Utterance!vars
  BY <1>2, <1>8 DEF Utterance!Lost, Utterance!vars
<1> QED
  BY <1>3, <1>4, <1>5, <1>6, <1>7, <1>8 DEF Utterance!Next, Utterance!Assistant, Utterance!Waits

\* Where a request may be after a step that sends none and takes none over.
LEMMA UtterancePlaces ==
  ASSUME Utterance!IInv, r5' \subseteq r5, r3' \subseteq r3, r6' \subseteq r6,
         r7.calls \in Nat, r7'.calls \in Nat, r7'.calls >= r7.calls,
         \A c \in Clients : Utterance!On(c)' => Utterance!On(c) /\ r4'[c].id = r4[c].id /\ (Utterance!At(c, "started")' => Utterance!At(c, "started"))
  PROVE  Utterance!PlaceInv'
<1>1. \A n \in 1..r7.calls : n \in 1..r7'.calls
  OBVIOUS
<1>2. \A c \in Clients : Utterance!At(c, "started")' => Utterance!On(c)'
  BY DEF Utterance!At, Utterance!On
<1>3. Utterance!PlaceInv
  BY DEF Utterance!IInv
<1>4. /\ \A c \in Clients : Utterance!On(c)' => r4'[c].id \in 1..r7'.calls
      /\ \A q \in r5' \union r3' \union r6' : q.id \in 1..r7'.calls
  BY <1>1, <1>3 DEF Utterance!PlaceInv
<1>5. \A c, d \in Clients : Utterance!On(c)' /\ Utterance!On(d)' /\ r4'[c].id = r4'[d].id => c = d
  BY <1>3 DEF Utterance!PlaceInv
<1>6. \A c \in Clients, q \in r5' \union r3' \union r6' : Utterance!At(c, "started")' => q.id # r4'[c].id
  BY <1>2, <1>3 DEF Utterance!PlaceInv
<1>7. /\ \A q, s \in r5' : q.id = s.id => q = s
      /\ \A q, s \in r6' : q.id = s.id => q = s
      /\ \A q \in r5', s \in r3' \union r6' : q.id # s.id
      /\ \A q \in r3', s \in r6' : q.id # s.id
  BY <1>3 DEF Utterance!PlaceInv
<1> QED
  BY <1>4, <1>5, <1>6, <1>7 DEF Utterance!PlaceInv

LEMMA UtterancePlaceStep == ASSUME Utterance!IInv, Utterance!Types', [Utterance!Next]_Utterance!vars
     PROVE Utterance!PlaceInv'
<1>0. Utterance!Types /\ Utterance!WorkerInv /\ Utterance!PlaceInv
  BY DEF Utterance!IInv
<1>1. r7.calls \in Nat /\ r7'.calls \in Nat
  BY <1>0 DEF Utterance!Types
<1>2. CASE Utterance!Replace
  <2>1. \A c \in Clients : r4'[c].pc = r4[c].pc /\ r4'[c].id = r4[c].id
    BY <1>0, <1>2 DEF Utterance!Replace, Utterance!Types, Utterance!Calls
  <2>2. r7'.calls = r7.calls
    BY <1>0, <1>2 DEF Utterance!Replace, Utterance!Change, Utterance!Types
  <2> QED
    BY <1>1, <1>2, <2>1, <2>2, UtterancePlaces DEF Utterance!Replace, Utterance!On, Utterance!At
<1>3. CASE Utterance!Stop \/ Utterance!main \/ Utterance!Lost \/ UNCHANGED Utterance!vars
  <2>1. r4' = r4 /\ r5' = r5 /\ r3' \subseteq r3 /\ r6' \subseteq r6
    BY <1>3 DEF Utterance!Stop, Utterance!main, Utterance!Lost, Utterance!vars
  <2>2. r7'.calls = r7.calls
    BY <1>0, <1>3 DEF Utterance!Stop, Utterance!main, Utterance!Lost, Utterance!vars, Utterance!Change,
         Utterance!Types
  <2> QED
    BY <1>1, <2>1, <2>2, UtterancePlaces DEF Utterance!On, Utterance!At
<1>4. CASE Utterance!do_POST
  <2>1. r4' = r4 /\ r7' = r7
    BY <1>4 DEF Utterance!do_POST
  <2>2. ASSUME NEW q \in r5, r5' = r5 \ {q}, r3 = {}, r3' = r3 \union {q}, r6' = r6
       PROVE Utterance!PlaceInv'
    BY <1>0, <2>1, <2>2 DEF Utterance!PlaceInv, Utterance!On, Utterance!At
  <2>3. ASSUME NEW q \in r5, r5' = r5 \ {q}, r3' = r3, \E s, t : Utterance!Reply(q.id, s, t)
       PROVE Utterance!PlaceInv'
    <3>1. PICK r : r6' = r6 \union {r} /\ r.id = q.id
      BY <2>3, UtteranceReplied
    <3> QED
      BY <1>0, <2>1, <2>3, <3>1 DEF Utterance!PlaceInv, Utterance!On, Utterance!At
  <2>4. ASSUME NEW q \in r3, r5' = r5, r3' = r3 \ {q}, \E s, t : Utterance!Reply(q.id, s, t)
       PROVE Utterance!PlaceInv'
    <3>1. PICK r : r6' = r6 \union {r} /\ r.id = q.id
      BY <2>4, UtteranceReplied
    <3>2. r3' = {}
      BY <1>0, <2>4 DEF Utterance!WorkerInv
    <3> QED
      BY <1>0, <2>1, <2>4, <3>1, <3>2 DEF Utterance!PlaceInv, Utterance!On, Utterance!At
  <2> QED
    BY <1>4, <2>2, <2>3, <2>4, UtteranceServed
<1>5. ASSUME NEW c \in Clients, Utterance!transcribe_audio(c) PROVE Utterance!PlaceInv'
  <2>1. /\ r5' = r5 /\ r3' = r3 /\ r6' = r6 /\ r7'.calls = r7.calls + 1
    BY <1>0, <1>5 DEF Utterance!transcribe_audio, Utterance!Types
  <2>2. CASE r4' = [r4 EXCEPT ![c] = Utterance!Idle]
    <3>1. \A d \in Clients : Utterance!On(d)' => Utterance!On(d) /\ r4'[d].id = r4[d].id /\ (Utterance!At(d, "started")' => Utterance!At(d, "started"))
      BY <1>0, <2>2 DEF Utterance!On, Utterance!At, Utterance!Idle, Utterance!Types
    <3> QED
      BY <1>1, <2>1, <3>1, UtterancePlaces
  <2>3. ASSUME NEW clip \in Utterance!Clips, NEW kind \in {"gigaam", "plugin"},
               r4' = [r4 EXCEPT ![c] = [Utterance!Idle EXCEPT !.pc = "started", !.id = r7.calls + 1, !.clip = clip, !.kind = kind, !.before = r1]]
        PROVE  Utterance!PlaceInv'
    <3>1. r4'[c].pc = "started" /\ r4'[c].id = r7.calls + 1 /\ \A d \in Clients \ {c} : r4'[d] = r4[d]
      BY <1>0, <2>3 DEF Utterance!Types, Utterance!Idle
    <3>2. \A n \in 1..r7.calls : n \in 1..r7'.calls /\ n # r4'[c].id
      BY <1>1, <2>1, <3>1
    <3>3. r4'[c].id \in 1..r7'.calls
      BY <1>1, <2>1, <3>1
    <3>4. \A d \in Clients : Utterance!On(d)' => r4'[d].id \in 1..r7'.calls
      BY <1>0, <3>1, <3>2, <3>3 DEF Utterance!PlaceInv, Utterance!On
    <3>5. \A d, e \in Clients : Utterance!On(d)' /\ Utterance!On(e)' /\ r4'[d].id = r4'[e].id => d = e
      BY <1>0, <3>1, <3>2 DEF Utterance!PlaceInv, Utterance!On
    <3>6. \A q \in r5' \union r3' \union r6' : q.id \in 1..r7'.calls /\ q.id # r4'[c].id
      BY <1>0, <2>1, <3>2 DEF Utterance!PlaceInv
    <3>7. \A d \in Clients, q \in r5' \union r3' \union r6' : Utterance!At(d, "started")' => q.id # r4'[d].id
      BY <1>0, <2>1, <3>1, <3>6 DEF Utterance!PlaceInv, Utterance!At
    <3> QED
      BY <1>0, <2>1, <3>4, <3>5, <3>6, <3>7 DEF Utterance!PlaceInv
  <2> QED
    BY <1>5, <2>2, <2>3 DEF Utterance!transcribe_audio
<1>6. ASSUME NEW c \in Clients, Utterance!transcribe(c) PROVE Utterance!PlaceInv'
  <2>1. r3' = r3 /\ r6' = r6 /\ r7' = r7 /\ Utterance!At(c, "started")
    BY <1>6 DEF Utterance!transcribe
  <2>2. CASE Utterance!Over(c) /\ r5' = r5
    <3>1. \A d \in Clients : Utterance!On(d)' => Utterance!On(d) /\ r4'[d].id = r4[d].id /\ (Utterance!At(d, "started")' => Utterance!At(d, "started"))
      BY <1>0, <2>2 DEF Utterance!Over, Utterance!On, Utterance!At, Utterance!Idle, Utterance!Types
    <3> QED
      BY <1>1, <2>1, <2>2, <3>1, UtterancePlaces
  <2>3. CASE /\ r4' = [r4 EXCEPT ![c].pc = "asked", ![c].expected = r1]
             /\ r5' = r5 \union {[id |-> r4[c].id, clip |-> r4[c].clip, sha |-> r1]}
    <3>1. r4'[c].pc = "asked" /\ r4'[c].id = r4[c].id /\ \A d \in Clients \ {c} : r4'[d] = r4[d]
      BY <1>0, <2>3 DEF Utterance!Types, Utterance!Calls
    <3>2. PICK r : r5' = r5 \union {r} /\ r.id = r4[c].id
      <4> DEFINE x == [id |-> r4[c].id, clip |-> r4[c].clip, sha |-> r1]
      <4>1. r5' = r5 \union {x} /\ x.id = r4[c].id
        BY <2>3
      <4> QED
        BY <4>1
    <3>3. Utterance!On(c) /\ \A q \in r5 \union r3 \union r6 : q.id # r.id
      BY <1>0, <2>1, <3>2 DEF Utterance!PlaceInv, Utterance!At, Utterance!On
    <3>4. \A d \in Clients : Utterance!On(d)' => Utterance!On(d) /\ r4'[d].id = r4[d].id
      BY <3>1, <3>3 DEF Utterance!On
    <3>5. r.id \in 1..r7'.calls
      BY <1>0, <2>1, <3>2, <3>3 DEF Utterance!PlaceInv
    <3>6. \A d \in Clients : Utterance!At(d, "started")' => d # c /\ Utterance!At(d, "started") /\ Utterance!On(d) /\ r4'[d].id = r4[d].id
      BY <3>1 DEF Utterance!At, Utterance!On
    <3>7. \A d \in Clients : d # c /\ Utterance!On(d) => r4[d].id # r.id
      BY <1>0, <3>2, <3>3 DEF Utterance!PlaceInv
    <3>8. \A d \in Clients, q \in r5' \union r3' \union r6' : Utterance!At(d, "started")' => q.id # r4'[d].id
      BY <1>0, <2>1, <3>2, <3>6, <3>7 DEF Utterance!PlaceInv
    <3>9. /\ \A q, s \in r5' : q.id = s.id => q = s
          /\ \A q \in r5', s \in r3' \union r6' : q.id # s.id
      BY <1>0, <2>1, <3>2, <3>3 DEF Utterance!PlaceInv
    <3>10. /\ \A d \in Clients : Utterance!On(d)' => r4'[d].id \in 1..r7'.calls
           /\ \A d, e \in Clients : Utterance!On(d)' /\ Utterance!On(e)' /\ r4'[d].id = r4'[e].id => d = e
           /\ \A q \in r5' \union r3' \union r6' : q.id \in 1..r7'.calls
      BY <1>0, <2>1, <3>2, <3>4, <3>5 DEF Utterance!PlaceInv
    <3> QED
      BY <1>0, <2>1, <3>8, <3>9, <3>10 DEF Utterance!PlaceInv
  <2> QED
    BY <1>6, <2>2, <2>3 DEF Utterance!transcribe
<1>7. ASSUME NEW c \in Clients,
     Utterance!Plugin(c) \/ Utterance!Result(c) \/ Utterance!Answered(c) \/ Utterance!GivesUp(c)
     PROVE Utterance!PlaceInv'
  <2>1. r5' \subseteq r5 /\ r3' = r3 /\ r6' \subseteq r6 /\ r7' = r7 /\ Utterance!On(c)
    BY <1>7 DEF Utterance!Plugin, Utterance!Result, Utterance!Answered, Utterance!GivesUp, Utterance!On,
         Utterance!At
  <2>2. PICK x : /\ r4' = [r4 EXCEPT ![c] = x]
                 /\ x.pc \in {"idle", "used"} \/ (x.pc = "result" /\ x.id = r4[c].id)
    <3>1. CASE Utterance!Over(c)
      <4>1. r4' = [r4 EXCEPT ![c] = Utterance!Idle] /\ Utterance!Idle.pc \in {"idle", "used"}
        BY <3>1 DEF Utterance!Over, Utterance!Idle
      <4> QED
        BY <4>1
    <3>2. CASE Utterance!Plugin(c)
      <4>1. PICK y \in Utterance!Results : r4' = [r4 EXCEPT ![c].pc = "result", ![c].result = y]
        BY <3>2 DEF Utterance!Plugin, Utterance!Results
      <4>2. [r4[c] EXCEPT !.pc = "result", !.result = y].pc = "result" /\ [r4[c] EXCEPT !.pc = "result", !.result = y].id = r4[c].id
        BY <1>0 DEF Utterance!Types, Utterance!Calls
      <4> QED
        BY <4>1, <4>2
    <3>3. CASE r4' = [r4 EXCEPT ![c].pc = "used", ![c].record = r1]
      <4>1. [r4[c] EXCEPT !.pc = "used", !.record = r1].pc = "used"
        BY <1>0 DEF Utterance!Types, Utterance!Calls
      <4> QED
        BY <3>3, <4>1
    <3>4. ASSUME NEW v, NEW h, NEW y, r4' = [r4 EXCEPT ![c].pc = "result", ![c].verified = v,
         ![c].heard = h, ![c].result = y]
          PROVE  \E x : r4' = [r4 EXCEPT ![c] = x] /\ x.pc = "result" /\ x.id = r4[c].id
      <4> DEFINE x == [r4[c] EXCEPT !.pc = "result", !.verified = v, !.heard = h, !.result = y]
      <4>1. x.pc = "result" /\ x.id = r4[c].id
        BY <1>0 DEF Utterance!Types, Utterance!Calls
      <4>2. r4' = [r4 EXCEPT ![c] = x]
        BY <3>4
      <4> QED
        BY <4>1, <4>2
    <3>5. CASE Utterance!Answered(c) /\ ~Utterance!Over(c)
      <4>1. PICK r \in r6 : r4' = [r4 EXCEPT ![c].pc = "result", ![c].verified = r.sha,
                ![c].heard = IF r.rash THEN r.sha ELSE r.by, ![c].result = [text |-> r.text, locale |-> TRUE, no_speech |-> r.text = ""]]
        BY <3>5 DEF Utterance!Answered
      <4> QED
        BY <3>4, <4>1
    <3> QED
      BY <1>7, <3>1, <3>2, <3>3, <3>5 DEF Utterance!GivesUp, Utterance!Result
  <2>3. \A d \in Clients : Utterance!On(d)' => Utterance!On(d) /\ r4'[d].id = r4[d].id /\ (Utterance!At(d, "started")' => Utterance!At(d, "started"))
    BY <1>0, <2>1, <2>2 DEF Utterance!On, Utterance!At, Utterance!Types
  <2> QED
    BY <1>1, <2>1, <2>3, UtterancePlaces
<1> QED
  BY <1>2, <1>3, <1>4, <1>5, <1>6, <1>7 DEF Utterance!Next, Utterance!Assistant, Utterance!Waits

LEMMA UtteranceCallStep == ASSUME Utterance!IInv, Utterance!Types', [Utterance!Next]_Utterance!vars
     PROVE Utterance!CallInv' /\ Utterance!WordsWereSaid' /\ Utterance!ModelIsKnown'
<1>0. Utterance!Types /\ Utterance!WorkerInv /\ Utterance!PlaceInv /\ Utterance!CallInv /\ Utterance!WordsWereSaid /\ Utterance!ModelIsKnown
  BY DEF Utterance!IInv
<1> DEFINE Holds(c) ==
      /\ r4[c].pc # "idle" => r4[c].clip = "sound" /\ r4[c].kind # Utterance!None
      /\ Utterance!At(c, "asked") => r4[c].kind = "gigaam"
      /\ Utterance!On(c) /\ ~r4[c].replaced => r4[c].before = r1
      /\ r4[c].pc \in {"asked", "result"} /\ r4[c].kind = "gigaam" /\ ~r4[c].replaced => r4[c].expected = r1
      /\ Utterance!At(c, "result") /\ r4[c].kind = "gigaam" => r4[c].verified = r4[c].expected /\ r4[c].verified = r4[c].heard
      /\ Utterance!At(c, "used") => r4[c].result = [text |-> "words", locale |-> TRUE, no_speech |-> FALSE]
      /\ Utterance!At(c, "used") /\ r4[c].kind = "gigaam" =>
           /\ r4[c].verified = r4[c].heard
           /\ ~r4[c].replaced => r4[c].record = r4[c].verified /\ r4[c].before = r4[c].verified
<1>1. \A c \in Clients : Holds(c)
  BY <1>0 DEF Utterance!CallInv, Utterance!WordsWereSaid, Utterance!ModelIsKnown, Utterance!At
<1>2. ASSUME \A c \in Clients : Holds(c)'
     PROVE Utterance!CallInv' /\ Utterance!WordsWereSaid' /\ Utterance!ModelIsKnown'
  BY <1>2 DEF Utterance!CallInv, Utterance!WordsWereSaid, Utterance!ModelIsKnown, Utterance!At
<1>3. ASSUME NEW c \in Clients, Holds(c), r1' = r1, r4'[c] = r4[c] PROVE Holds(c)'
  BY <1>3 DEF Utterance!At, Utterance!On
<1>4. ASSUME NEW c \in Clients, r4'[c].pc = "idle" PROVE Holds(c)'
  BY <1>4 DEF Utterance!At, Utterance!On
<1> HIDE DEF Holds
<1>5. CASE Utterance!Replace
  <2>1. ASSUME NEW c \in Clients PROVE Holds(c)'
    <3>1. /\ r4'[c].pc = r4[c].pc /\ r4'[c].clip = r4[c].clip /\ r4'[c].kind = r4[c].kind
          /\ r4'[c].before = r4[c].before /\ r4'[c].expected = r4[c].expected
          /\ r4'[c].verified = r4[c].verified /\ r4'[c].heard = r4[c].heard
          /\ r4'[c].record = r4[c].record /\ r4'[c].result = r4[c].result
          /\ r4'[c].replaced = (r4[c].replaced \/ r4[c].pc \notin {"idle", "used"})
      BY <1>0, <1>5 DEF Utterance!Replace, Utterance!Types, Utterance!Calls
    <3> QED
      BY <1>1, <3>1 DEF Holds, Utterance!At, Utterance!On
  <2> QED
    BY <1>2, <2>1
<1>6. CASE Utterance!Stop \/ Utterance!main \/ Utterance!do_POST \/ Utterance!Lost \/ UNCHANGED Utterance!vars
  <2>1. r4' = r4 /\ r1' = r1
    BY <1>6 DEF Utterance!Stop, Utterance!main, Utterance!do_POST, Utterance!Lost, Utterance!vars
  <2> QED
    BY <1>1, <1>2, <1>3, <2>1
<1>7. ASSUME NEW c \in Clients, r1' = r1, NEW x, r4' = [r4 EXCEPT ![c] = x], r4'[c] = x => Holds(c)'
      PROVE  Utterance!CallInv' /\ Utterance!WordsWereSaid' /\ Utterance!ModelIsKnown'
  <2>1. r4'[c] = x /\ \A d \in Clients \ {c} : r4'[d] = r4[d]
    BY <1>0, <1>7 DEF Utterance!Types
  <2> QED
    BY <1>1, <1>2, <1>3, <1>7, <2>1
<1>8. ASSUME NEW c \in Clients, r1' = r1, Utterance!Over(c)
     PROVE Utterance!CallInv' /\ Utterance!WordsWereSaid' /\ Utterance!ModelIsKnown'
  <2>1. r4' = [r4 EXCEPT ![c] = Utterance!Idle] /\ Utterance!Idle.pc = "idle"
    BY <1>8 DEF Utterance!Over, Utterance!Idle
  <2>2. r4'[c] = Utterance!Idle => Holds(c)'
    BY <1>4, <2>1
  <2> QED
    BY <1>7, <1>8, <2>1, <2>2
<1>9. ASSUME NEW c \in Clients, Utterance!transcribe_audio(c)
     PROVE Utterance!CallInv' /\ Utterance!WordsWereSaid' /\ Utterance!ModelIsKnown'
  <2>1. PICK clip \in Utterance!Clips, kind \in {"gigaam", "plugin"} :
          r4' = [r4 EXCEPT ![c] = IF clip = "silence" \/ (kind = "gigaam" /\ r1 = Utterance!None) THEN Utterance!Idle
                      ELSE [Utterance!Idle EXCEPT !.pc = "started", !.id = r7.calls + 1, !.clip = clip, !.kind = kind, !.before = r1]]
    BY <1>9 DEF Utterance!transcribe_audio
  <2>2. r1' = r1
    BY <1>9 DEF Utterance!transcribe_audio
  <2>3. CASE Utterance!Over(c)
    BY <1>8, <2>2, <2>3
  <2>4. CASE clip # "silence" /\ ~(kind = "gigaam" /\ r1 = Utterance!None)
    <3> DEFINE x == [Utterance!Idle EXCEPT !.pc = "started", !.id = r7.calls + 1, !.clip = clip, !.kind = kind, !.before = r1]
    <3>1. x.pc = "started" /\ x.clip = clip /\ x.kind = kind /\ x.before = r1
      BY DEF Utterance!Idle
    <3>2. r4' = [r4 EXCEPT ![c] = x] /\ clip = "sound" /\ kind # Utterance!None
      BY <2>1, <2>4 DEF Utterance!Clips, Utterance!None
    <3>3. r4'[c] = x => Holds(c)'
      BY <2>2, <3>1, <3>2 DEF Holds, Utterance!At, Utterance!On
    <3> QED
      BY <1>7, <2>2, <3>2, <3>3
  <2> QED
    BY <2>1, <2>3, <2>4 DEF Utterance!Over
<1>10. ASSUME NEW c \in Clients, Utterance!transcribe(c)
     PROVE Utterance!CallInv' /\ Utterance!WordsWereSaid' /\ Utterance!ModelIsKnown'
  <2>1. r1' = r1 /\ Utterance!At(c, "started") /\ r4[c].kind = "gigaam"
    BY <1>10 DEF Utterance!transcribe
  <2>2. CASE r4' = [r4 EXCEPT ![c].pc = "asked", ![c].expected = r1]
    <3> DEFINE x == [r4[c] EXCEPT !.pc = "asked", !.expected = r1]
    <3>1. x.pc = "asked" /\ x.expected = r1 /\ x.clip = r4[c].clip /\ x.kind = r4[c].kind /\ x.before = r4[c].before /\ x.replaced = r4[c].replaced
      BY <1>0 DEF Utterance!Types, Utterance!Calls
    <3>2. r4' = [r4 EXCEPT ![c] = x]
      BY <2>2
    <3>3. r4'[c] = x => Holds(c)'
      BY <1>1, <2>1, <3>1 DEF Holds, Utterance!At, Utterance!On
    <3> QED
      BY <1>7, <2>1, <3>2, <3>3
  <2> QED
    BY <1>8, <1>10, <2>1, <2>2 DEF Utterance!transcribe
<1>11. ASSUME NEW c \in Clients, Utterance!Plugin(c)
     PROVE Utterance!CallInv' /\ Utterance!WordsWereSaid' /\ Utterance!ModelIsKnown'
  <2>1. r1' = r1 /\ Utterance!At(c, "started") /\ r4[c].kind = "plugin"
    BY <1>11 DEF Utterance!Plugin
  <2>2. PICK y : r4' = [r4 EXCEPT ![c].pc = "result", ![c].result = y]
    BY <1>11 DEF Utterance!Plugin
  <2> DEFINE x == [r4[c] EXCEPT !.pc = "result", !.result = y]
  <2>3. x.pc = "result" /\ x.clip = r4[c].clip /\ x.kind = r4[c].kind /\ x.before = r4[c].before /\ x.replaced = r4[c].replaced
    BY <1>0 DEF Utterance!Types, Utterance!Calls
  <2>4. r4' = [r4 EXCEPT ![c] = x]
    BY <2>2
  <2>5. r4'[c] = x => Holds(c)'
    BY <1>1, <2>1, <2>3 DEF Holds, Utterance!At, Utterance!On
  <2> QED
    BY <1>7, <2>1, <2>4, <2>5
<1>12. ASSUME NEW c \in Clients, Utterance!Result(c)
     PROVE Utterance!CallInv' /\ Utterance!WordsWereSaid' /\ Utterance!ModelIsKnown'
  <2>1. r1' = r1 /\ Utterance!At(c, "result")
    BY <1>12 DEF Utterance!Result
  <2>2. CASE Utterance!valid(r4[c].result) /\ r4[c].result.text # "" /\ r4' = [r4 EXCEPT ![c].pc = "used", ![c].record = r1]
    <3> DEFINE x == [r4[c] EXCEPT !.pc = "used", !.record = r1]
    <3>1. /\ x.pc = "used" /\ x.clip = r4[c].clip /\ x.kind = r4[c].kind /\ x.before = r4[c].before /\ x.replaced = r4[c].replaced
          /\ x.record = r1 /\ x.verified = r4[c].verified /\ x.heard = r4[c].heard /\ x.result = r4[c].result
      BY <1>0 DEF Utterance!Types, Utterance!Calls
    <3>2. r4' = [r4 EXCEPT ![c] = x]
      BY <2>2
    <3>3. r4[c].result = [text |-> "words", locale |-> TRUE, no_speech |-> FALSE]
      <4>1. r4[c].result \in Utterance!Results
        BY <1>0 DEF Utterance!Types, Utterance!Calls
      <4> QED
        BY <2>2, <4>1 DEF Utterance!Results, Utterance!valid
    <3>4. r4'[c] = x => Holds(c)'
      BY <1>1, <2>1, <3>1, <3>3 DEF Holds, Utterance!At, Utterance!On
    <3> QED
      BY <1>7, <2>1, <3>2, <3>4
  <2> QED
    BY <1>8, <1>12, <2>1, <2>2 DEF Utterance!Result
<1>13. ASSUME NEW c \in Clients, Utterance!Answered(c)
     PROVE Utterance!CallInv' /\ Utterance!WordsWereSaid' /\ Utterance!ModelIsKnown'
  <2>1. r1' = r1 /\ Utterance!At(c, "asked")
    BY <1>13 DEF Utterance!Answered
  <2>2. CASE ~Utterance!Over(c)
    <3>1. PICK r \in r6 : /\ r.status = 200 /\ r.sha = r4[c].expected
            /\ r4' = [r4 EXCEPT ![c].pc = "result", ![c].verified = r.sha,
                ![c].heard = IF r.rash THEN r.sha ELSE r.by, ![c].result = [text |-> r.text, locale |-> TRUE, no_speech |-> r.text = ""]]
      BY <1>13, <2>2 DEF Utterance!Answered
    <3> PICK y : y = [text |-> r.text, locale |-> TRUE, no_speech |-> r.text = ""]
      OBVIOUS
    <3> PICK h : h = IF r.rash THEN r.sha ELSE r.by
      OBVIOUS
    <3> DEFINE x == [r4[c] EXCEPT !.pc = "result", !.verified = r.sha, !.heard = h, !.result = y]
    <3>2. /\ x.pc = "result" /\ x.clip = r4[c].clip /\ x.kind = r4[c].kind /\ x.before = r4[c].before
          /\ x.replaced = r4[c].replaced /\ x.verified = r.sha /\ x.heard = h /\ x.expected = r4[c].expected
      <4>1. r4[c] \in Utterance!Calls
        BY <1>0 DEF Utterance!Types
      <4> HIDE <1>0, <1>1, <1>13, <2>1, <2>2, <3>1
      <4> QED
        BY <4>1 DEF Utterance!Calls
    <3>3. r4' = [r4 EXCEPT ![c] = x]
      BY <3>1
    <3>4. h = r.sha
      BY <1>0, <3>1 DEF Utterance!WorkerInv
    <3>5. r4'[c] = x => Holds(c)'
      <4>1. Holds(c) /\ Utterance!At(c, "asked")
        BY <1>1, <2>1
      <4>2. r4[c].pc = "asked" /\ r4[c].kind = "gigaam" /\ r4[c].clip = "sound"
        BY <4>1 DEF Holds, Utterance!At
      <4>3. ~r4[c].replaced => r4[c].before = r1 /\ r4[c].expected = r1
        BY <4>1, <4>2 DEF Holds, Utterance!On
      <4>4. x.verified = x.expected /\ x.verified = x.heard
        BY <3>1, <3>2, <3>4
      <4> HIDE DEF x
      <4> QED
        BY <2>1, <3>2, <4>2, <4>3, <4>4 DEF Holds, Utterance!At, Utterance!On, Utterance!None
    <3> QED
      BY <1>7, <2>1, <3>3, <3>5
  <2> QED
    BY <1>8, <2>1, <2>2
<1>14. ASSUME NEW c \in Clients, Utterance!GivesUp(c)
     PROVE Utterance!CallInv' /\ Utterance!WordsWereSaid' /\ Utterance!ModelIsKnown'
  BY <1>8, <1>14 DEF Utterance!GivesUp
<1> QED
  BY <1>5, <1>6, <1>9, <1>10, <1>11, <1>12, <1>13, <1>14 DEF Utterance!Next, Utterance!Assistant,
       Utterance!Waits

LEMMA UtteranceStepInv == ASSUME Utterance!IInv, MaxCalls \in Nat, [Utterance!Next]_Utterance!vars
     PROVE Utterance!IInv'
BY UtteranceTypesStep, UtteranceWorkerStep, UtterancePlaceStep, UtteranceCallStep DEF Utterance!IInv

\* The worker hears one utterance at a time, and owes at most one reply to each call.
LEMMA UtteranceIsSafe == ASSUME Utterance!IInv, MaxCalls \in Nat
     PROVE Utterance!TypeOK /\ Utterance!HeardAlone
<1>1. Utterance!HeardAlone
  <2>1. CASE r3 = {}
    BY <2>1, FS_EmptySet, SameCardinality DEF Utterance!HeardAlone
  <2>2. ASSUME NEW q, r3 = {q} PROVE Utterance!HeardAlone
    <3>1. Cardinality(r3) = 1
      BY <2>2, FS_Singleton
    <3> QED
      BY <3>1, SameCardinality DEF Utterance!HeardAlone
  <2> QED
    BY <2>1, <2>2 DEF Utterance!IInv, Utterance!WorkerInv
<1>2. Cardinality(r6) <= MaxCalls
  <2> DEFINE f == [r \in r6 |-> r.id]
  <2>1. r7.calls \in Nat /\ r7.calls <= MaxCalls
    BY DEF Utterance!IInv, Utterance!Types
  <2>2. f \in Injection(r6, 1..MaxCalls)
    <3>1. \A r \in r6 : r.id \in 1..MaxCalls
      BY <2>1 DEF Utterance!IInv, Utterance!PlaceInv
    <3>2. \A r, s \in r6 : f[r] = f[s] => r = s
      BY DEF Utterance!IInv, Utterance!PlaceInv
    <3> QED
      BY <3>1, <3>2 DEF Injection, IsInjective
  <2>3. IsFiniteSet(1..MaxCalls) /\ Cardinality(1..MaxCalls) = MaxCalls
    BY FS_Interval
  <2> QED
    BY <2>2, <2>3, FS_Injection
<1> QED
  BY <1>1, <1>2, SameCardinality DEF Utterance!TypeOK, Utterance!IInv, Utterance!Types, Utterance!Digests,
       Utterance!Workers, Utterance!Calls

(* -------------------------- the firmware monitor -------------------------- *)

LEMMA OtaPairOf == \A row \in Ota!Rows : Ota!Pair(row) \in Ota!Pairs
BY DEF Ota!Rows, Ota!Pairs, Ota!Pair

\* Releases are ordered.
LEMMA OtaOrdered ==
  ASSUME NEW p \in Ota!Pairs, NEW q \in Ota!Pairs, NEW r \in Ota!Pairs
  PROVE  /\ ~Ota!Above(p, p)
         /\ ~Ota!Above(p, q) /\ Ota!Above(r, q) => ~Ota!Above(p, r)
         /\ ~Ota!Above(p, q) /\ ~Ota!Above(q, r) => ~Ota!Above(p, r)
BY DEF Ota!Above, Ota!Pairs

\* A catalogue that is not empty has a newest row: the shortest prefix without one would have
\* had one a row earlier.
LEMMA OtaHasNewest ==
  ASSUME NEW rows \in Seq(Ota!Rows), rows # <<>>
  PROVE  \E i \in DOMAIN rows : \A j \in DOMAIN rows : ~Ota!Above(Ota!Pair(rows[j]), Ota!Pair(rows[i]))
<1> DEFINE P(i) == Ota!Pair(rows[i])
           Best(n) == \E i \in 1..n : \A j \in 1..n : ~Ota!Above(P(j), P(i))
           T == {n \in 1..Len(rows) : ~Best(n)}
<1>1. /\ Len(rows) \in Nat /\ Len(rows) >= 1 /\ DOMAIN rows = 1..Len(rows)
      /\ \A i \in 1..Len(rows) : P(i) \in Ota!Pairs
  BY OtaPairOf
<1> HIDE DEF P
<1>2. ASSUME NEW m \in T, \A n \in T : ~(n < m) PROVE FALSE
  <2>1. m \in 1..Len(rows) /\ ~Best(m)
    OBVIOUS
  <2>2. CASE m = 1
    <3>1. \A j \in 1..1 : ~Ota!Above(P(j), P(1))
      BY <1>1, OtaOrdered
    <3> QED
      BY <2>1, <2>2, <3>1
  <2>3. CASE m > 1
    <3>1. m - 1 \in 1..Len(rows) /\ m - 1 < m
      BY <1>1, <2>1, <2>3
    <3>2. Best(m - 1)
      BY <1>2, <3>1
    <3>3. PICK i \in 1..(m - 1) : \A j \in 1..(m - 1) : ~Ota!Above(P(j), P(i))
      BY <3>2
    <3>4. i \in 1..m /\ m \in 1..m /\ \A j \in 1..m : j = m \/ j \in 1..(m - 1)
      BY <2>1, <2>3
    <3>5. \A j \in 1..m : P(j) \in Ota!Pairs
      BY <1>1, <2>1
    <3>6. CASE Ota!Above(P(m), P(i))
      <4>1. \A j \in 1..m : ~Ota!Above(P(j), P(m))
        BY <3>3, <3>4, <3>5, <3>6, OtaOrdered
      <4> QED
        BY <2>1, <3>4, <4>1
    <3>7. CASE ~Ota!Above(P(m), P(i))
      BY <2>1, <3>3, <3>4, <3>7
    <3> QED
      BY <3>6, <3>7
  <2> QED
    BY <1>1, <2>1, <2>2, <2>3
<1>3. T = {}
  <2> SUFFICES ASSUME T # {} PROVE FALSE
    OBVIOUS
  <2>1. T \subseteq Nat
    BY <1>1
  <2> HIDE DEF T
  <2>2. PICK m \in T : \A n \in T : ~(<<n, m>> \in OpToRel(<, Nat))
    BY <2>1, WFMin, NatLessThanWellFounded
  <2>3. \A n \in T : ~(n < m)
    BY <2>1, <2>2 DEF OpToRel
  <2> QED
    BY <1>2, <2>3 DEF T
<1>4. Best(Len(rows))
  BY <1>1, <1>3
<1> QED
  BY <1>1, <1>4 DEF P

LEMMA OtaNewest ==
  ASSUME NEW rows \in Seq(Ota!Rows), rows # <<>>
  PROVE  Ota!newest(rows) \in Ota!Pairs /\ \A j \in DOMAIN rows : ~Ota!Above(Ota!Pair(rows[j]), Ota!newest(rows))
<1> DEFINE i == CHOOSE i \in DOMAIN rows : \A j \in DOMAIN rows : ~Ota!Above(Ota!Pair(rows[j]), Ota!Pair(rows[i]))
<1>1. i \in DOMAIN rows /\ \A j \in DOMAIN rows : ~Ota!Above(Ota!Pair(rows[j]), Ota!Pair(rows[i]))
  BY OtaHasNewest
<1>2. Ota!newest(rows) = Ota!Pair(rows[i])
  BY DEF Ota!newest
<1> HIDE DEF i
<1>3. rows[i] \in Ota!Rows
  BY <1>1
<1> QED
  BY <1>1, <1>2, <1>3, OtaPairOf

\* What the vendor can publish, and the bounds of the model.
OtaConstants == Catalogues \subseteq Seq(Ota!Rows) /\ MaxVendor \in Nat /\ MaxIssues \in Nat

LEMMA OtaAtRest == Ota!Idle \in Ota!RunTypes /\ <<1, 1>> \in Ota!Pairs /\ Ota!Idle.pc = "idle"
<1>1. <<1, 1>> \in Ota!Pairs /\ <<>> \in Seq(Ota!Rows)
  BY DEF Ota!Pairs
<1>2. Ota!Idle.pc = "idle" /\ Ota!Idle \in Ota!RunTypes
  BY <1>1 DEF Ota!Idle, Ota!RunTypes
<1> QED
  BY <1>1, <1>2

LEMMA OtaInitInv == ASSUME OtaConstants, Ota!Init PROVE Ota!IInv
<1>1. r4 = Ota!Idle /\ r3 = <<>> /\ Len(r3) = 0 /\ DOMAIN r3 = {}
  BY DEF Ota!Init
<1>2. r4 \in Ota!RunTypes /\ r4.pc = "idle" /\ r2 \in Ota!Pairs
  BY <1>1, OtaAtRest DEF Ota!Init
<1>3. Ota!TypeOK
  <2>1. r4.attempt \in 0..2
    BY <1>2 DEF Ota!RunTypes
  <2> QED
    BY <1>1, <1>2, <2>1 DEF Ota!TypeOK, OtaConstants, Ota!Init
<1>4. Ota!Types
  BY <1>1, <1>2, <1>3 DEF Ota!Types, Ota!Init, Ota!RunTypes
<1>5. Ota!RunInv /\ Ota!NothingIsMissed
  BY <1>2 DEF Ota!RunInv, Ota!NothingIsMissed
<1>6. Ota!OneIssueEach
  BY <1>1 DEF Ota!OneIssueEach
<1> QED
  BY <1>4, <1>5, <1>6 DEF Ota!IInv

\* A run that moves on or fails by itself.
LEMMA OtaAlone ==
  ASSUME Ota!Types, NEW x \in Ota!RunTypes, r4' = x, UNCHANGED <<r1, r2, r3, r5, r6>>
  PROVE  Ota!Types'
<1>1. x.attempt \in 0..2 /\ x.pc \in {"idle", "fetch", "evaluate", "list", "create", "done", "failed"}
  BY DEF Ota!RunTypes
<1> QED
  BY <1>1 DEF Ota!Types, Ota!TypeOK, Ota!RunTypes

LEMMA OtaTypesStep == ASSUME OtaConstants, Ota!IInv, [Ota!Next]_Ota!vars PROVE Ota!Types'
<1>0. Ota!Types /\ r4 \in Ota!RunTypes /\ Ota!RunInv
  BY DEF Ota!IInv, Ota!Types, Ota!RunTypes
<1>1. ASSUME NEW pc \in {"idle", "fetch", "evaluate", "list", "create", "done", "failed"}
     PROVE [r4 EXCEPT !.pc = pc] \in Ota!RunTypes
  BY <1>0 DEF Ota!RunTypes
<1>2. CASE Ota!start
  <2>1. [Ota!Idle EXCEPT !.pc = "fetch", !.profile = r2] \in Ota!RunTypes
    BY <1>0, OtaAtRest DEF Ota!RunTypes, Ota!Types
  <2> QED
    BY <1>0, <1>2, <2>1, OtaAlone DEF Ota!start, Ota!World
<1>3. ASSUME Ota!Fails \/ Ota!Goto("done") \/ Ota!Goto("create"), UNCHANGED <<Ota!World, r3>>
     PROVE Ota!Types'
  BY <1>0, <1>1, <1>3, OtaAlone DEF Ota!Fails, Ota!Goto, Ota!World
<1>4. CASE Ota!fetch_catalog
  <2>1. CASE r4' = [r4 EXCEPT !.pc = "evaluate", !.rows = r1.rows]
    <3>1. r1.rows \in Seq(Ota!Rows)
      BY <1>0 DEF Ota!Types, OtaConstants
    <3>2. [r4 EXCEPT !.pc = "evaluate", !.rows = r1.rows] \in Ota!RunTypes
      BY <1>0, <3>1 DEF Ota!RunTypes
    <3> QED
      BY <1>0, <1>4, <2>1, <3>2, OtaAlone DEF Ota!fetch_catalog, Ota!World
  <2>2. CASE r4.attempt # 2 /\ r4' = [r4 EXCEPT !.attempt = @ + 1]
    <3>1. r4.attempt + 1 \in 0..2
      BY <1>0, <2>2 DEF Ota!RunTypes
    <3>2. [r4 EXCEPT !.attempt = @ + 1] \in Ota!RunTypes
      BY <1>0, <3>1 DEF Ota!RunTypes
    <3> QED
      BY <1>0, <1>4, <2>2, <3>2, OtaAlone DEF Ota!fetch_catalog, Ota!World
  <2> QED
    BY <1>3, <1>4, <2>1, <2>2 DEF Ota!fetch_catalog
<1>5. CASE Ota!evaluate
  <2>1. ASSUME r4' # [r4 EXCEPT !.pc = "failed"] PROVE Ota!Types'
    <3>1. r4.rows \in Seq(Ota!Rows) /\ r4.rows # <<>>
      BY <1>0, <1>5 DEF Ota!RunTypes, Ota!RunInv, Ota!evaluate
    <3>2. Ota!newest(r4.rows) \in Ota!Pairs
      BY <3>1, OtaNewest
    <3>3. PICK pc \in {"list", "done"} : r4' = [r4 EXCEPT !.latest = Ota!newest(r4.rows), !.pc = pc]
      BY <1>5, <2>1 DEF Ota!evaluate, Ota!Fails
    <3>4. [r4 EXCEPT !.latest = Ota!newest(r4.rows), !.pc = pc] \in Ota!RunTypes
      BY <1>0, <3>2 DEF Ota!RunTypes
    <3> QED
      BY <1>0, <1>5, <3>3, <3>4, OtaAlone DEF Ota!evaluate, Ota!World
  <2> QED
    BY <1>3, <1>5, <2>1 DEF Ota!evaluate, Ota!Fails
<1>6. CASE Ota!list \/ Ota!Ended
  BY <1>3, <1>6 DEF Ota!list, Ota!Ended
<1>7. CASE Ota!create
  <2>1. CASE UNCHANGED r3
    BY <1>3, <1>7, <2>1 DEF Ota!create
  <2>2. CASE Len(r3) < MaxIssues /\ r3' = Append(r3, [pair |-> r4.latest, open |-> TRUE])
    <3>1. [pair |-> r4.latest, open |-> TRUE] \in Ota!Issues
      BY <1>0 DEF Ota!RunTypes, Ota!Issues
    <3>2. r3' \in Seq(Ota!Issues) /\ Len(r3') <= MaxIssues
      BY <1>0, <2>2, <3>1 DEF Ota!Types, OtaConstants
    <3>3. r4' \in Ota!RunTypes
      BY <1>1, <1>7 DEF Ota!create, Ota!Goto, Ota!Fails
    <3>4. r4'.attempt \in 0..2 /\ r4'.pc \in {"idle", "fetch", "evaluate", "list", "create", "done", "failed"}
      BY <3>3 DEF Ota!RunTypes
    <3> QED
      BY <1>0, <1>7, <3>2, <3>3, <3>4 DEF Ota!create, Ota!World, Ota!Types, Ota!TypeOK, Ota!RunTypes
  <2> QED
    BY <1>7, <2>1, <2>2 DEF Ota!create
<1>8. CASE Ota!again
  BY <1>0, <1>8, OtaAlone, OtaAtRest DEF Ota!again, Ota!World
<1>9. CASE Ota!Publishes
  <2>1. r5' \in 0..MaxVendor /\ r1'.rows \in Catalogues
    BY <1>0, <1>9 DEF Ota!Publishes, Ota!Types, Ota!TypeOK, OtaConstants
  <2> QED
    BY <1>0, <1>9, <2>1 DEF Ota!Publishes, Ota!Types, Ota!TypeOK
<1>10. CASE Ota!Maintains
  <2>1. ASSUME NEW i \in DOMAIN r3, r3' = [r3 EXCEPT ![i].open = ~@], UNCHANGED r2 PROVE Ota!Types'
    <3>1. r3[i] \in Ota!Issues
      BY <1>0, <2>1 DEF Ota!Types
    <3>2. r3' \in Seq(Ota!Issues) /\ Len(r3') = Len(r3)
      <4>1. [r3[i] EXCEPT !.open = ~@] \in Ota!Issues
        BY <3>1 DEF Ota!Issues
      <4>2. r3' = [r3 EXCEPT ![i] = [r3[i] EXCEPT !.open = ~@]]
        BY <2>1
      <4> QED
        BY <1>0, <4>1, <4>2 DEF Ota!Types
    <3> QED
      BY <1>0, <1>10, <2>1, <3>2 DEF Ota!Maintains, Ota!Types, Ota!TypeOK
  <2>2. ASSUME NEW i \in DOMAIN r3, UNCHANGED r3, r2' = r3[i].pair PROVE Ota!Types'
    <3>1. r2' \in Ota!Pairs
      <4>1. r3[i] \in Ota!Issues
        BY <1>0, <2>2 DEF Ota!Types
      <4> QED
        BY <2>2, <4>1 DEF Ota!Issues
    <3> QED
      BY <1>0, <1>10, <2>2, <3>1 DEF Ota!Maintains, Ota!Types, Ota!TypeOK
  <2> QED
    BY <1>10, <2>1, <2>2 DEF Ota!Maintains
<1>11. CASE Ota!Settles \/ UNCHANGED Ota!vars
  BY <1>0, <1>11 DEF Ota!Settles, Ota!vars, Ota!Types, Ota!TypeOK
<1> QED
  BY <1>2, <1>4, <1>5, <1>6, <1>7, <1>8, <1>9, <1>10, <1>11 DEF Ota!Next, Ota!Check

\* What was said of the issues stays true while their pairs do.
LEMMA OtaPairsKept ==
  ASSUME DOMAIN r3' = DOMAIN r3, \A i \in DOMAIN r3 : r3'[i].pair = r3[i].pair, r4' = r4,
         Ota!RunInv /\ Ota!OneIssueEach /\ Ota!NothingIsMissed
  PROVE  (Ota!RunInv /\ Ota!OneIssueEach /\ Ota!NothingIsMissed)'
<1>1. \A p : Ota!listed(p)' <=> Ota!listed(p)
  BY DEF Ota!listed
<1>2. Ota!RunInv'
  BY <1>1 DEF Ota!RunInv
<1>3. Ota!OneIssueEach'
  BY DEF Ota!OneIssueEach
<1>4. Ota!NothingIsMissed'
  BY DEF Ota!NothingIsMissed
<1> QED
  BY <1>2, <1>3, <1>4

LEMMA OtaRunStep == ASSUME OtaConstants, Ota!IInv, [Ota!Next]_Ota!vars
     PROVE (Ota!RunInv /\ Ota!OneIssueEach /\ Ota!NothingIsMissed)'
<1>0. Ota!Types /\ r4 \in Ota!RunTypes /\ Ota!RunInv /\ Ota!OneIssueEach /\ Ota!NothingIsMissed
  BY DEF Ota!IInv, Ota!Types, Ota!RunTypes
<1>1. ASSUME r3' = r3, r4'.pc \in {"idle", "fetch", "failed"}
     PROVE (Ota!RunInv /\ Ota!OneIssueEach /\ Ota!NothingIsMissed)'
  BY <1>0, <1>1 DEF Ota!RunInv, Ota!OneIssueEach, Ota!NothingIsMissed
<1>2. \A pc : [r4 EXCEPT !.pc = pc].pc = pc /\ [r4 EXCEPT !.pc = pc].rows = r4.rows /\ [r4 EXCEPT !.pc = pc].latest = r4.latest
               /\ [r4 EXCEPT !.pc = pc].profile = r4.profile
  BY <1>0 DEF Ota!RunTypes
<1>3. ASSUME Ota!Fails, r3' = r3 PROVE (Ota!RunInv /\ Ota!OneIssueEach /\ Ota!NothingIsMissed)'
  BY <1>1, <1>2, <1>3 DEF Ota!Fails
<1>4. CASE Ota!start \/ Ota!again
  <2>1. r3' = r3 /\ r4'.pc \in {"idle", "fetch"}
    BY <1>4, OtaAtRest DEF Ota!start, Ota!again, Ota!Idle
  <2> QED
    BY <1>1, <2>1
<1>5. CASE Ota!fetch_catalog
  <2>1. r3' = r3
    BY <1>5 DEF Ota!fetch_catalog
  <2>2. CASE Ota!parse_catalog(r1) /\ r4' = [r4 EXCEPT !.pc = "evaluate", !.rows = r1.rows]
    <3>1. r4'.pc = "evaluate" /\ r4'.rows # <<>>
      BY <1>0, <2>2 DEF Ota!RunTypes, Ota!parse_catalog
    <3> QED
      BY <1>0, <2>1, <3>1 DEF Ota!RunInv, Ota!OneIssueEach, Ota!NothingIsMissed
  <2>3. CASE r4' = [r4 EXCEPT !.attempt = @ + 1]
    <3>1. r4'.pc = "fetch"
      BY <1>0, <1>5, <2>3 DEF Ota!RunTypes, Ota!fetch_catalog
    <3> QED
      BY <1>1, <2>1, <3>1
  <2> QED
    BY <1>3, <1>5, <2>1, <2>2, <2>3 DEF Ota!fetch_catalog
<1>6. CASE Ota!evaluate
  <2>1. r3' = r3
    BY <1>6 DEF Ota!evaluate
  <2>2. CASE ~Ota!Fails
    <3>1. r4.rows \in Seq(Ota!Rows) /\ r4.rows # <<>>
      BY <1>0, <1>6 DEF Ota!RunTypes, Ota!RunInv, Ota!evaluate
    <3>2. PICK pc : /\ pc = (IF Ota!Above(Ota!newest(r4.rows), r4.profile) THEN "list" ELSE "done")
                    /\ r4' = [r4 EXCEPT !.latest = Ota!newest(r4.rows), !.pc = pc]
      BY <1>6, <2>2 DEF Ota!evaluate
    <3>3. r4'.pc = pc /\ r4'.latest = Ota!newest(r4.rows) /\ r4'.rows = r4.rows /\ r4'.profile = r4.profile
      BY <1>0, <3>2 DEF Ota!RunTypes
    <3>4. Ota!newest(r4.rows) \in Ota!Pairs /\ \A r \in DOMAIN r4.rows : ~Ota!Above(Ota!Pair(r4.rows[r]), Ota!newest(r4.rows))
      BY <3>1, OtaNewest
    <3>5. \A r \in DOMAIN r4.rows : Ota!Pair(r4.rows[r]) \in Ota!Pairs
      BY <3>1, OtaPairOf
    <3>6. r4.profile \in Ota!Pairs
      BY <1>0 DEF Ota!RunTypes
    <3>7. CASE Ota!Above(Ota!newest(r4.rows), r4.profile)
      BY <1>0, <2>1, <3>2, <3>3, <3>4, <3>7 DEF Ota!RunInv, Ota!OneIssueEach, Ota!NothingIsMissed
    <3>8. CASE ~Ota!Above(Ota!newest(r4.rows), r4.profile)
      <4>1. \A r \in DOMAIN r4.rows : ~Ota!Above(Ota!Pair(r4.rows[r]), r4.profile)
        BY <3>4, <3>5, <3>6, <3>8, OtaOrdered
      <4> QED
        BY <1>0, <2>1, <3>2, <3>3, <3>8, <4>1 DEF Ota!RunInv, Ota!OneIssueEach, Ota!NothingIsMissed
    <3> QED
      BY <3>7, <3>8
  <2> QED
    BY <1>3, <2>1, <2>2
<1>7. CASE Ota!list
  <2>1. r3' = r3 /\ r4.pc = "list"
    BY <1>7 DEF Ota!list
  <2>2. CASE Ota!listed(r4.latest) /\ Ota!Goto("done")
    <3>1. \A r \in DOMAIN r4.rows : \E i \in DOMAIN r3 : ~Ota!Above(Ota!Pair(r4.rows[r]), r3[i].pair)
      BY <1>0, <2>1, <2>2 DEF Ota!RunInv, Ota!listed
    <3>2. r4'.pc = "done" /\ r4'.rows = r4.rows
      BY <1>2, <2>2 DEF Ota!Goto
    <3> QED
      BY <1>0, <2>1, <3>1, <3>2 DEF Ota!RunInv, Ota!OneIssueEach, Ota!NothingIsMissed
  <2>3. CASE ~Ota!listed(r4.latest) /\ Ota!Goto("create")
    <3>1. r4'.pc = "create" /\ r4'.rows = r4.rows /\ r4'.latest = r4.latest
      BY <1>2, <2>3 DEF Ota!Goto
    <3>2. \A i \in DOMAIN r3' : r3'[i].pair # r4'.latest
      BY <2>1, <2>3, <3>1 DEF Ota!listed
    <3>3. Ota!RunInv'
      BY <1>0, <2>1, <3>1, <3>2 DEF Ota!RunInv, Ota!listed
    <3> QED
      BY <1>0, <2>1, <3>1, <3>3 DEF Ota!OneIssueEach, Ota!NothingIsMissed
  <2> QED
    BY <1>3, <1>7, <2>1, <2>2, <2>3 DEF Ota!list
<1>8. CASE Ota!create
  <2>1. CASE UNCHANGED r3
    BY <1>3, <1>8, <2>1 DEF Ota!create
  <2>2. CASE r3' = Append(r3, [pair |-> r4.latest, open |-> TRUE])
    <3>1. [pair |-> r4.latest, open |-> TRUE] \in Ota!Issues /\ r3 \in Seq(Ota!Issues)
      BY <1>0 DEF Ota!RunTypes, Ota!Issues, Ota!Types
    <3>2. /\ DOMAIN r3 = 1..Len(r3) /\ DOMAIN r3' = 1..(Len(r3) + 1) /\ Len(r3) \in Nat
          /\ \A i \in 1..Len(r3) : r3'[i] = r3[i]
          /\ r3'[Len(r3) + 1].pair = r4.latest
      BY <2>2, <3>1
    <3>3. \A i \in DOMAIN r3 : r3[i].pair # r4.latest
      BY <1>0, <1>8 DEF Ota!RunInv, Ota!listed, Ota!create
    <3>4. Ota!OneIssueEach'
      BY <1>0, <3>2, <3>3 DEF Ota!OneIssueEach
    <3>5. \A r \in DOMAIN r4.rows : ~Ota!Above(Ota!Pair(r4.rows[r]), r3'[Len(r3) + 1].pair)
      BY <1>0, <1>8, <3>2 DEF Ota!RunInv, Ota!create
    <3>6. r4'.pc \in {"done", "failed"} /\ r4'.rows = r4.rows
      BY <1>2, <1>8 DEF Ota!create, Ota!Goto, Ota!Fails
    <3>7. Len(r3) + 1 \in DOMAIN r3'
      BY <3>2
    <3>8. Ota!NothingIsMissed'
      BY <3>5, <3>6, <3>7 DEF Ota!NothingIsMissed
    <3> QED
      BY <3>4, <3>6, <3>8 DEF Ota!RunInv
  <2> QED
    BY <1>8, <2>1, <2>2 DEF Ota!create
<1>9. CASE Ota!Publishes \/ Ota!Settles \/ UNCHANGED Ota!vars
  BY <1>0, <1>9, OtaPairsKept DEF Ota!Publishes, Ota!Settles, Ota!vars
<1>10. CASE Ota!Ended
  BY <1>3, <1>10 DEF Ota!Ended
<1>11. CASE Ota!Maintains
  <2>1. ASSUME NEW i \in DOMAIN r3, r3' = [r3 EXCEPT ![i].open = ~@]
        PROVE  DOMAIN r3' = DOMAIN r3 /\ \A j \in DOMAIN r3 : r3'[j].pair = r3[j].pair
    <3>1. r3[i] \in Ota!Issues
      BY <1>0, <2>1 DEF Ota!Types
    <3>2. [r3[i] EXCEPT !.open = ~@].pair = r3[i].pair
      BY <3>1 DEF Ota!Issues
    <3>3. r3' = [r3 EXCEPT ![i] = [r3[i] EXCEPT !.open = ~@]]
      BY <2>1
    <3> QED
      BY <3>2, <3>3
  <2> QED
    BY <1>0, <1>11, <2>1, OtaPairsKept DEF Ota!Maintains
<1> QED
  BY <1>4, <1>5, <1>6, <1>7, <1>8, <1>9, <1>10, <1>11 DEF Ota!Next, Ota!Check

LEMMA OtaStepInv == ASSUME OtaConstants, Ota!IInv, [Ota!Next]_Ota!vars PROVE Ota!IInv'
BY OtaTypesStep, OtaRunStep DEF Ota!IInv

(* ---------------------------- the speech runtime ---------------------------- *)
\* Its variables: r1 is adapter, r2 is runtime, r3 is lock, r4 is req, r5 is task, r6 is
\* thread, r7 is event, r8 is process, r9 is alive, r10 is pipe, r11 is started.

\* The adapter's process has a pipe.
LEMMA VoicePiped ==
  ASSUME MaxProcesses \in Nat, Voice!Types, r8 # 0
  PROVE  r8 \in Voice!Processes /\ r10[r8].asked \in Voice!Owners /\ r10[r8].answer \in Voice!Owners
<1>1. r8 \in Voice!Processes
  BY DEF Voice!Types, Voice!ProcessTypes, Voice!Processes
<1> QED
  BY <1>1 DEF Voice!Types, Voice!PipeTypes

\* What shutdown() does to the requests it cancels.
LEMMA VoiceGathered ==
  ASSUME Voice!Types,
       r4' = [r \in SpeechRequests |-> [r4[r] EXCEPT !.pc = IF @ = "drain" THEN "release" ELSE @,
                                                                    !.twice = @ \/ (r5[r] = "gather")]]
  PROVE  \A r \in SpeechRequests :
           /\ r4'[r].pc = IF r4[r].pc = "drain" THEN "release" ELSE r4[r].pc
           /\ r4'[r].late = r4[r].late /\ r4'[r].answer = r4[r].answer
           /\ r4'[r].twice = (r4[r].twice \/ r5[r] = "gather")
BY DEF Voice!Types, Voice!RequestTypes


LEMMA VoiceCallType == ASSUME MaxProcesses \in Nat, Voice!Types, [Voice!Next]_Voice!vars
     PROVE Voice!CallTypes'
<1>1. ASSUME NEW r \in SpeechRequests, Voice!invoke(r) PROVE Voice!CallTypes'
  <2>1. Voice!At(r, "idle") /\ UNCHANGED <<r1, r2, r5, Voice!worker>>
    BY <1>1 DEF Voice!invoke
  <2>2. CASE ~r2.closed /\ r3 = Voice!Nobody /\ Voice!Req(r, "locked") /\ r3' = r
    BY <2>1, <2>2 DEF Voice!At, Voice!Req, Voice!worker, Voice!Types, Voice!CallTypes, Voice!Owners
  <2>3. CASE r3' = r3
    BY <2>1, <2>3 DEF Voice!calls, Voice!worker, Voice!Types, Voice!CallTypes, Voice!Owners
  <2> QED
    BY <1>1, <2>2, <2>3 DEF Voice!invoke
<1>2. ASSUME NEW r \in SpeechRequests, Voice!ensure_loop(r) PROVE Voice!CallTypes'
  <2>1. Voice!At(r, "locked") /\ UNCHANGED <<r1, r3, r5, Voice!worker>>
    BY <1>2 DEF Voice!ensure_loop
  <2>2. CASE ~r2.closed /\ Voice!Req(r, "submit") /\ r2' = [r2 EXCEPT !.loop = "running"]
    BY <2>1, <2>2 DEF Voice!At, Voice!Req, Voice!worker, Voice!Types, Voice!CallTypes, Voice!Owners
  <2>3. CASE r2' = r2
    BY <2>1, <2>3 DEF Voice!calls, Voice!worker, Voice!Types, Voice!CallTypes, Voice!Owners
  <2> QED
    BY <1>2, <2>2, <2>3 DEF Voice!ensure_loop
<1>3. ASSUME NEW r \in SpeechRequests, Voice!release(r) PROVE Voice!CallTypes'
  BY <1>3 DEF Voice!release, Voice!At, Voice!Req, Voice!worker, Voice!Types, Voice!CallTypes, Voice!Owners
<1>4. CASE Voice!close
  BY <1>4 DEF Voice!close, Voice!worker, Voice!Types, Voice!CallTypes, Voice!Owners
<1>5. CASE Voice!shutdown
  <2>1. UNCHANGED <<r1, r3, r6, r7, r10, r11>>
    BY <1>5 DEF Voice!shutdown
  <2>2. CASE /\ r2.close = "shutdown" /\ r2' = [r2 EXCEPT !.close = "gather"]
             /\ r5' = [r \in SpeechRequests |-> Voice!Cancelled(r)]
             /\ r4' = [r \in SpeechRequests |-> [r4[r] EXCEPT !.pc = IF @ = "drain" THEN "release" ELSE @,
                                                                !.twice = @ \/ (r5[r] = "gather")]]
             /\ UNCHANGED <<r8, r9>>
    BY <2>1, <2>2 DEF Voice!Cancelled, Voice!Running, Voice!Types, Voice!CallTypes, Voice!Owners
  <2>3. CASE /\ r2.close = "gather" /\ \A r \in SpeechRequests : Voice!Running(r) => r4[r].late
             /\ r2' = [r2 EXCEPT !.close = "stop"] /\ r8' = 0 /\ r9' = r9 \ {r8}
             /\ UNCHANGED <<r4, r5>>
    BY <2>1, <2>3 DEF Voice!Running, Voice!Types, Voice!CallTypes, Voice!Owners
  <2>4. CASE /\ r2.close = "stop" /\ r2' = [r2 EXCEPT !.close = "join", !.loop = "stopped"]
             /\ UNCHANGED <<r4, r5, r8, r9>>
    BY <2>1, <2>4 DEF Voice!Types, Voice!CallTypes, Voice!Owners
  <2>5. CASE /\ r2.close = "join" /\ r2' = [r2 EXCEPT !.close = "returned", !.loop = "closed"]
             /\ UNCHANGED <<r4, r5, r8, r9>>
    BY <2>1, <2>5 DEF Voice!Types, Voice!CallTypes, Voice!Owners
  <2> QED
    BY <1>5, <2>2, <2>3, <2>4, <2>5 DEF Voice!shutdown
<1>6. ASSUME NEW r \in SpeechRequests,
     Voice!submit(r) \/ Voice!waited(r) \/ Voice!drain(r) \/ Voice!Exchange(r) \/ Voice!Raises(r)
       \/ Voice!aclose(r) \/ Voice!transcribe(r) \/ Voice!kill(r) \/ Voice!exchange(r)
       PROVE  Voice!CallTypes'
  BY <1>6 DEF Voice!submit, Voice!waited, Voice!drain, Voice!Exchange, Voice!Raises, Voice!aclose,
       Voice!transcribe, Voice!kill, Voice!exchange, Voice!worker, Voice!calls,
        Voice!Types, Voice!CallTypes, Voice!Owners
<1>7. ASSUME NEW p \in Voice!Processes, Voice!Answers(p) \/ Voice!Dies(p) PROVE Voice!CallTypes'
  BY <1>7 DEF Voice!Answers, Voice!Dies, Voice!worker, Voice!calls, Voice!Types, Voice!CallTypes,
       Voice!Owners
<1>8. CASE UNCHANGED Voice!vars
  BY <1>8 DEF Voice!vars, Voice!Types, Voice!CallTypes, Voice!Owners
<1> QED
  BY <1>1, <1>2, <1>3, <1>4, <1>5, <1>6, <1>7, <1>8 DEF Voice!Next, Voice!Call, Voice!Loop

LEMMA VoiceRequestType == ASSUME MaxProcesses \in Nat, Voice!Types, [Voice!Next]_Voice!vars
     PROVE Voice!RequestTypes'
<1>1. ASSUME NEW r \in SpeechRequests, Voice!invoke(r) PROVE Voice!RequestTypes'
  <2>1. Voice!At(r, "idle") /\ UNCHANGED <<r1, r2, r5, Voice!worker>>
    BY <1>1 DEF Voice!invoke
  <2>2. CASE (r2.closed \/ r3 # Voice!Nobody) /\ Voice!Req(r, "over") /\ r3' = r3
    BY <2>1, <2>2 DEF Voice!At, Voice!Req, Voice!worker, Voice!Types, Voice!RequestTypes, Voice!Pcs,
         Voice!Owners
  <2>3. CASE ~r2.closed /\ r3 = Voice!Nobody /\ Voice!Req(r, "locked") /\ r3' = r
    BY <2>1, <2>3 DEF Voice!At, Voice!Req, Voice!worker, Voice!Types, Voice!RequestTypes, Voice!Pcs,
         Voice!Owners
  <2> QED
    BY <1>1, <2>2, <2>3 DEF Voice!invoke
<1>2. ASSUME NEW r \in SpeechRequests, Voice!ensure_loop(r) PROVE Voice!RequestTypes'
  <2>1. Voice!At(r, "locked") /\ UNCHANGED <<r1, r3, r5, Voice!worker>>
    BY <1>2 DEF Voice!ensure_loop
  <2>2. CASE r2.closed /\ Voice!Req(r, "release") /\ r2' = r2
    BY <2>1, <2>2 DEF Voice!At, Voice!Req, Voice!worker, Voice!Types, Voice!RequestTypes, Voice!Pcs,
         Voice!Owners
  <2>3. CASE ~r2.closed /\ Voice!Req(r, "submit") /\ r2' = [r2 EXCEPT !.loop = "running"]
    BY <2>1, <2>3 DEF Voice!At, Voice!Req, Voice!worker, Voice!Types, Voice!RequestTypes, Voice!Pcs,
         Voice!Owners
  <2> QED
    BY <1>2, <2>2, <2>3 DEF Voice!ensure_loop
<1>3. ASSUME NEW r \in SpeechRequests, Voice!submit(r) PROVE Voice!RequestTypes'
  <2>1. PICK pc \in Voice!Pcs, late \in BOOLEAN : r4' = [r4 EXCEPT ![r].pc = pc, ![r].late = late]
    BY <1>3 DEF Voice!submit, Voice!Types, Voice!CallTypes, Voice!Pcs
  <2> QED
    BY <2>1 DEF Voice!Types, Voice!RequestTypes
<1>4. ASSUME NEW r \in SpeechRequests, Voice!waited(r) PROVE Voice!RequestTypes'
  BY <1>4 DEF Voice!waited, Voice!At, Voice!Req, Voice!worker, Voice!Types, Voice!RequestTypes, Voice!Pcs,
       Voice!Owners
<1>5. ASSUME NEW r \in SpeechRequests, Voice!drain(r) PROVE Voice!RequestTypes'
  <2>1. UNCHANGED <<r1, r2, r3, Voice!worker>>
    BY <1>5 DEF Voice!drain
  <2>2. CASE /\ Voice!At(r, "wait") /\ Voice!Running(r) /\ r5' = [r5 EXCEPT ![r] = Voice!Cancelled(r)]
             /\ r4' = [r4 EXCEPT ![r].pc = "drain", ![r].twice = @ \/ (r5'[r] = "aclose")]
    <3>1. r4' = [r4 EXCEPT ![r].pc = "drain", ![r].twice = @ \/ (r5'[r] = "aclose")]
      BY <2>2
    <3>2. PICK twice \in BOOLEAN : r4' = [r4 EXCEPT ![r].pc = "drain", ![r].twice = twice]
      BY <3>1 DEF Voice!Types, Voice!RequestTypes
    <3> QED
      BY <3>2 DEF Voice!Types, Voice!RequestTypes, Voice!Pcs
  <2>3. CASE Voice!At(r, "drain") /\ r5[r] = "ended" /\ Voice!Req(r, "release") /\ r5' = r5
    BY <2>1, <2>3 DEF Voice!At, Voice!Req, Voice!worker, Voice!Types, Voice!RequestTypes, Voice!Pcs,
         Voice!Owners
  <2> QED
    BY <1>5, <2>2, <2>3 DEF Voice!drain
<1>6. ASSUME NEW r \in SpeechRequests, Voice!release(r) PROVE Voice!RequestTypes'
  BY <1>6 DEF Voice!release, Voice!At, Voice!Req, Voice!worker, Voice!Types, Voice!RequestTypes, Voice!Pcs,
       Voice!Owners
<1>7. ASSUME NEW r \in SpeechRequests, Voice!Exchange(r) PROVE Voice!RequestTypes'
  <2>1. r1 = "json" /\ Voice!loop(r) /\ UNCHANGED <<r1, r2, r3, r6, r7>>
    BY <1>7 DEF Voice!Exchange
  <2>2. CASE /\ r5[r] = "asked" /\ r8 # 0 /\ Voice!Takes(r, r8) /\ Voice!Task(r, "ended")
             /\ UNCHANGED <<r8, r9, r11>>
    BY <2>1, <2>2, VoicePiped DEF Voice!Takes, Voice!Types, Voice!RequestTypes
  <2>3. CASE r4' = r4
    BY <2>1, <2>3 DEF Voice!calls, Voice!worker, Voice!Types, Voice!RequestTypes, Voice!Pcs, Voice!Owners
  <2> QED
    BY <1>7, <2>2, <2>3 DEF Voice!Exchange
<1>8. ASSUME NEW r \in SpeechRequests, Voice!exchange(r) PROVE Voice!RequestTypes'
  <2>1. UNCHANGED <<r1, r2, r3, r5, r7>>
    BY <1>8 DEF Voice!exchange
  <2>2. CASE /\ r6[r] = "read" /\ r8 # 0 /\ Voice!Takes(r, r8) /\ Voice!Thread(r, "ended")
             /\ UNCHANGED <<r8, r9, r11>>
    BY <2>1, <2>2, VoicePiped DEF Voice!Takes, Voice!Types, Voice!RequestTypes
  <2>3. CASE r4' = r4
    BY <2>1, <2>3 DEF Voice!calls, Voice!worker, Voice!Types, Voice!RequestTypes, Voice!Pcs, Voice!Owners
  <2> QED
    BY <1>8, <2>2, <2>3 DEF Voice!exchange, Voice!Thread, Voice!Spawns, Voice!Written, Voice!Takes
<1>9. CASE Voice!shutdown
  <2>1. UNCHANGED <<r1, r3, r6, r7, r10, r11>>
    BY <1>9 DEF Voice!shutdown
  <2>2. CASE /\ r2.close = "shutdown" /\ r2' = [r2 EXCEPT !.close = "gather"]
             /\ r5' = [r \in SpeechRequests |-> Voice!Cancelled(r)]
             /\ r4' = [r \in SpeechRequests |-> [r4[r] EXCEPT !.pc = IF @ = "drain" THEN "release" ELSE @,
                                                                !.twice = @ \/ (r5[r] = "gather")]]
             /\ UNCHANGED <<r8, r9>>
    <3>1. \A r \in SpeechRequests : [r4[r] EXCEPT !.pc = IF @ = "drain" THEN "release" ELSE @,
                                                 !.twice = @ \/ (r5[r] = "gather")]
                                    \in [pc : Voice!Pcs, late : BOOLEAN, twice : BOOLEAN,
                                         answer : Voice!Owners]
      BY DEF Voice!Types, Voice!RequestTypes, Voice!Pcs
    <3> QED
      BY <2>2, <3>1 DEF Voice!RequestTypes
  <2>3. CASE r4' = r4
    BY <2>1, <2>3 DEF Voice!calls, Voice!worker, Voice!Types, Voice!RequestTypes, Voice!Pcs, Voice!Owners
  <2> QED
    BY <1>9, <2>2, <2>3 DEF Voice!shutdown
<1>10. ASSUME NEW r \in SpeechRequests,
     Voice!Raises(r) \/ Voice!aclose(r) \/ Voice!transcribe(r) \/ Voice!kill(r) PROVE Voice!RequestTypes'
  BY <1>10 DEF Voice!Raises, Voice!aclose, Voice!transcribe, Voice!kill, Voice!worker, Voice!calls,
       Voice!Types, Voice!RequestTypes, Voice!Pcs, Voice!Owners
<1>11. ASSUME NEW p \in Voice!Processes, Voice!Answers(p) \/ Voice!Dies(p) PROVE Voice!RequestTypes'
  BY <1>11 DEF Voice!Answers, Voice!Dies, Voice!worker, Voice!calls, Voice!Types, Voice!RequestTypes,
       Voice!Pcs, Voice!Owners
<1>12. CASE Voice!close
  BY <1>12 DEF Voice!close, Voice!worker, Voice!calls, Voice!Types, Voice!RequestTypes, Voice!Pcs,
       Voice!Owners
<1>13. CASE UNCHANGED Voice!vars
  BY <1>13 DEF Voice!vars, Voice!Types, Voice!RequestTypes, Voice!Pcs, Voice!Owners
<1> QED
  BY <1>1, <1>2, <1>3, <1>4, <1>5, <1>6, <1>7, <1>8, <1>9, <1>10, <1>11, <1>12, <1>13 DEF Voice!Next,
       Voice!Call, Voice!Loop

LEMMA VoiceTaskType == ASSUME MaxProcesses \in Nat, Voice!Types, [Voice!Next]_Voice!vars
     PROVE Voice!TaskTypes'
<1>1. ASSUME NEW r \in SpeechRequests, Voice!submit(r) PROVE Voice!TaskTypes'
  BY <1>1 DEF Voice!submit, Voice!At, Voice!Task, Voice!worker, Voice!Types, Voice!TaskTypes,
       Voice!TaskPcs, Voice!ThreadPcs
<1>2. ASSUME NEW r \in SpeechRequests, Voice!drain(r) PROVE Voice!TaskTypes'
  <2>1. UNCHANGED <<r1, r2, r3, Voice!worker>>
    BY <1>2 DEF Voice!drain
  <2>2. CASE /\ Voice!At(r, "wait") /\ Voice!Running(r) /\ r5' = [r5 EXCEPT ![r] = Voice!Cancelled(r)]
             /\ r4' = [r4 EXCEPT ![r].pc = "drain", ![r].twice = @ \/ (r5'[r] = "aclose")]
    BY <2>1, <2>2 DEF Voice!At, Voice!Running, Voice!Cancelled, Voice!worker, Voice!Types, Voice!TaskTypes,
         Voice!TaskPcs, Voice!ThreadPcs
  <2>3. CASE r5' = r5
    BY <2>1, <2>3 DEF Voice!calls, Voice!worker, Voice!Types, Voice!TaskTypes, Voice!TaskPcs,
         Voice!ThreadPcs
  <2> QED
    BY <1>2, <2>2, <2>3 DEF Voice!drain
<1>3. ASSUME NEW r \in SpeechRequests, Voice!Exchange(r) PROVE Voice!TaskTypes'
  <2>1. r1 = "json" /\ Voice!loop(r) /\ UNCHANGED <<r1, r2, r3, r6, r7>>
    BY <1>3 DEF Voice!Exchange
  <2>2. CASE /\ r5[r] = "queued" /\ r8 = 0 /\ Voice!Spawns /\ r8' = r11' /\ Voice!Task(r, "ready")
             /\ UNCHANGED <<r10, r4>>
    BY <2>1, <2>2 DEF Voice!loop, Voice!Spawns, Voice!Task, Voice!Processes, Voice!NoPipe, Voice!Running,
         Voice!Types, Voice!TaskTypes, Voice!TaskPcs, Voice!ThreadPcs
  <2>3. CASE /\ r5[r] \in {"queued", "ready"} /\ r8 # 0 /\ r8 \in r9 /\ Voice!Written(r, r8)
             /\ Voice!Task(r, "asked") /\ UNCHANGED <<r8, r9, r11, r4>>
    BY <2>1, <2>3 DEF Voice!loop, Voice!Written, Voice!Task, Voice!Processes, Voice!NoPipe, Voice!Running,
         Voice!Types, Voice!TaskTypes, Voice!TaskPcs, Voice!ThreadPcs
  <2>4. CASE /\ r5[r] = "asked" /\ r8 # 0 /\ Voice!Takes(r, r8) /\ Voice!Task(r, "ended")
             /\ UNCHANGED <<r8, r9, r11>>
    BY <2>1, <2>4 DEF Voice!loop, Voice!Takes, Voice!Task, Voice!Processes, Voice!NoPipe, Voice!Running,
         Voice!Types, Voice!TaskTypes, Voice!TaskPcs, Voice!ThreadPcs
  <2> QED
    BY <1>3, <2>2, <2>3, <2>4 DEF Voice!Exchange
<1>4. ASSUME NEW r \in SpeechRequests, Voice!Raises(r) PROVE Voice!TaskTypes'
  BY <1>4 DEF Voice!Raises, Voice!loop, Voice!Running, Voice!Task, Voice!calls, Voice!worker, Voice!Types,
       Voice!TaskTypes, Voice!TaskPcs, Voice!ThreadPcs
<1>5. ASSUME NEW r \in SpeechRequests, Voice!aclose(r) PROVE Voice!TaskTypes'
  BY <1>5 DEF Voice!aclose, Voice!loop, Voice!Running, Voice!Task, Voice!calls, Voice!Types,
       Voice!TaskTypes, Voice!TaskPcs, Voice!ThreadPcs
<1>6. ASSUME NEW r \in SpeechRequests, Voice!transcribe(r) PROVE Voice!TaskTypes'
  <2>1. r1 = "sherpa" /\ Voice!loop(r) /\ UNCHANGED <<Voice!calls, r7, r8, r9, r10, r11>>
    BY <1>6 DEF Voice!transcribe
  <2>2. CASE r5[r] = "queued" /\ Voice!Task(r, "shield") /\ Voice!Thread(r, "check")
    BY <2>1, <2>2 DEF Voice!loop, Voice!Task, Voice!Thread, Voice!calls, Voice!Running, Voice!Types,
         Voice!TaskTypes, Voice!TaskPcs, Voice!ThreadPcs
  <2>3. CASE r5[r] = "shield" /\ r6[r] = "ended" /\ Voice!Task(r, "ended") /\ r6' = r6
    BY <2>1, <2>3 DEF Voice!loop, Voice!Task, Voice!calls, Voice!Running, Voice!Types, Voice!TaskTypes,
         Voice!TaskPcs, Voice!ThreadPcs
  <2>4. CASE r5[r] = "shield" /\ Voice!Task(r, "raise") /\ r6' = r6
    BY <2>1, <2>4 DEF Voice!loop, Voice!Task, Voice!calls, Voice!Running, Voice!Types, Voice!TaskTypes,
         Voice!TaskPcs, Voice!ThreadPcs
  <2> QED
    BY <1>6, <2>2, <2>3, <2>4 DEF Voice!transcribe
<1>7. ASSUME NEW r \in SpeechRequests, Voice!kill(r) PROVE Voice!TaskTypes'
  <2>1. r1 = "sherpa" /\ Voice!loop(r) /\ UNCHANGED <<Voice!calls, r6, r10, r11>>
    BY <1>7 DEF Voice!kill
  <2>2. CASE r5[r] = "raise" /\ r6[r] = "none" /\ Voice!Task(r, "ended") /\ UNCHANGED <<r7, r8, r9>>
    BY <2>1, <2>2 DEF Voice!loop, Voice!Task, Voice!calls, Voice!Running, Voice!Types, Voice!TaskTypes,
         Voice!TaskPcs, Voice!ThreadPcs
  <2>3. CASE /\ r5[r] = "raise" /\ r6[r] # "none" /\ r7' = [r7 EXCEPT ![r] = TRUE] /\ Voice!Task(r, "kill")
             /\ UNCHANGED <<r8, r9>>
    BY <2>1, <2>3 DEF Voice!loop, Voice!Task, Voice!calls, Voice!Running, Voice!Types, Voice!TaskTypes,
         Voice!TaskPcs, Voice!ThreadPcs
  <2>4. CASE r5[r] = "kill" /\ r9' = r9 \ {r8} /\ Voice!Task(r, "gather") /\ UNCHANGED <<r7, r8>>
    BY <2>1, <2>4 DEF Voice!loop, Voice!Task, Voice!calls, Voice!Running, Voice!Types, Voice!TaskTypes,
         Voice!TaskPcs, Voice!ThreadPcs
  <2>5. CASE r5[r] = "gather" /\ r6[r] = "ended" /\ Voice!Task(r, "aclose") /\ UNCHANGED <<r7, r8, r9>>
    BY <2>1, <2>5 DEF Voice!loop, Voice!Task, Voice!calls, Voice!Running, Voice!Types, Voice!TaskTypes,
         Voice!TaskPcs, Voice!ThreadPcs
  <2>6. CASE /\ r5[r] = "aclose" /\ r8' = 0 /\ r9' = r9 \ {r8} /\ Voice!Task(r, "ended")
             /\ r7' = r7
    BY <2>1, <2>6 DEF Voice!loop, Voice!Task, Voice!calls, Voice!Running, Voice!Types, Voice!TaskTypes,
         Voice!TaskPcs, Voice!ThreadPcs
  <2> QED
    BY <1>7, <2>2, <2>3, <2>4, <2>5, <2>6 DEF Voice!kill
<1>8. ASSUME NEW r \in SpeechRequests, Voice!exchange(r) PROVE Voice!TaskTypes'
  <2>1. UNCHANGED <<r1, r2, r3, r5, r7>>
    BY <1>8 DEF Voice!exchange
  <2>2. CASE /\ r6[r] \in {"check", "check2", "check3"} /\ UNCHANGED <<r4, r8, r9, r10, r11>>
             /\ \E pc \in {"close", "popen", "check3", "handshake", "write"} :
                  /\ Voice!Thread(r, pc) /\ (pc = "popen" => r8 = 0)
                  /\ pc = "check3" => r8 # 0
                  /\ pc \in {"handshake", "write"} => r6[r] \in {"check2", "check3"}
    BY <2>1, <2>2 DEF Voice!Thread, Voice!Types, Voice!TaskTypes, Voice!TaskPcs, Voice!ThreadPcs
  <2>3. CASE r6[r] = "popen" /\ Voice!Spawns /\ Voice!Thread(r, "assign") /\ UNCHANGED <<r4, r8, r10>>
    BY <2>1, <2>3 DEF Voice!Thread, Voice!Spawns, Voice!Processes, Voice!NoPipe, Voice!Types,
         Voice!TaskTypes, Voice!TaskPcs, Voice!ThreadPcs
  <2>4. CASE r6[r] = "popen" /\ Voice!Thread(r, "close") /\ UNCHANGED <<r4, r8, r9, r10, r11>>
    BY <2>1, <2>4 DEF Voice!Thread, Voice!Types, Voice!TaskTypes, Voice!TaskPcs, Voice!ThreadPcs
  <2>5. CASE r6[r] = "assign" /\ r8' = r11 /\ Voice!Thread(r, "check2") /\ UNCHANGED <<r4, r9, r10, r11>>
    BY <2>1, <2>5 DEF Voice!Thread, Voice!Types, Voice!TaskTypes, Voice!TaskPcs, Voice!ThreadPcs
  <2>6. CASE r6[r] = "handshake" /\ Voice!Thread(r, "check3") /\ UNCHANGED <<r4, r8, r9, r10, r11>>
    BY <2>1, <2>6 DEF Voice!Thread, Voice!Types, Voice!TaskTypes, Voice!TaskPcs, Voice!ThreadPcs
  <2>7. CASE /\ r6[r] = "write" /\ r8 \in r9 /\ Voice!Written(r, r8) /\ Voice!Thread(r, "read")
             /\ UNCHANGED <<r4, r8, r9, r11>>
    BY <2>1, <2>7 DEF Voice!Thread, Voice!Written, Voice!Processes, Voice!NoPipe, Voice!Types,
         Voice!TaskTypes, Voice!TaskPcs, Voice!ThreadPcs
  <2>8. CASE /\ r6[r] = "read" /\ r8 # 0 /\ Voice!Takes(r, r8) /\ Voice!Thread(r, "ended")
             /\ UNCHANGED <<r8, r9, r11>>
    BY <2>1, <2>8 DEF Voice!Thread, Voice!Takes, Voice!Processes, Voice!NoPipe, Voice!Types,
         Voice!TaskTypes, Voice!TaskPcs, Voice!ThreadPcs
  <2>9. CASE /\ r6[r] \in {"handshake", "write", "read"} /\ Voice!Thread(r, "close")
             /\ UNCHANGED <<r4, r8, r9, r10, r11>>
    BY <2>1, <2>9 DEF Voice!Thread, Voice!Types, Voice!TaskTypes, Voice!TaskPcs, Voice!ThreadPcs
  <2>10. CASE /\ r6[r] = "close" /\ r8' = 0 /\ r9' = r9 \ {r8} /\ Voice!Thread(r, "ended")
              /\ UNCHANGED <<r4, r10, r11>>
    BY <2>1, <2>10 DEF Voice!Thread, Voice!Types, Voice!TaskTypes, Voice!TaskPcs, Voice!ThreadPcs
  <2> QED
    BY <1>8, <2>2, <2>3, <2>4, <2>5, <2>6, <2>7, <2>8, <2>9, <2>10 DEF Voice!exchange, Voice!Thread,
         Voice!Spawns, Voice!Written,
          Voice!Takes
<1>9. CASE Voice!shutdown
  <2>1. UNCHANGED <<r1, r3, r6, r7, r10, r11>>
    BY <1>9 DEF Voice!shutdown
  <2>2. CASE /\ r2.close = "shutdown" /\ r2' = [r2 EXCEPT !.close = "gather"]
             /\ r5' = [r \in SpeechRequests |-> Voice!Cancelled(r)]
             /\ r4' = [r \in SpeechRequests |-> [r4[r] EXCEPT !.pc = IF @ = "drain" THEN "release" ELSE @,
                                                                !.twice = @ \/ (r5[r] = "gather")]]
             /\ UNCHANGED <<r8, r9>>
    BY <2>1, <2>2 DEF Voice!Cancelled, Voice!Running, Voice!Types, Voice!TaskTypes, Voice!TaskPcs,
         Voice!ThreadPcs
  <2>3. CASE r5' = r5
    BY <2>1, <2>3 DEF Voice!calls, Voice!worker, Voice!Types, Voice!TaskTypes, Voice!TaskPcs,
         Voice!ThreadPcs
  <2> QED
    BY <1>9, <2>2, <2>3 DEF Voice!shutdown
<1>10. ASSUME NEW r \in SpeechRequests,
     Voice!invoke(r) \/ Voice!ensure_loop(r) \/ Voice!waited(r) \/ Voice!release(r) PROVE Voice!TaskTypes'
  BY <1>10 DEF Voice!invoke, Voice!ensure_loop, Voice!waited, Voice!release, Voice!worker, Voice!calls,
       Voice!Types, Voice!TaskTypes, Voice!TaskPcs, Voice!ThreadPcs
<1>11. ASSUME NEW p \in Voice!Processes, Voice!Answers(p) \/ Voice!Dies(p) PROVE Voice!TaskTypes'
  BY <1>11 DEF Voice!Answers, Voice!Dies, Voice!worker, Voice!calls, Voice!Types, Voice!TaskTypes,
       Voice!TaskPcs, Voice!ThreadPcs
<1>12. CASE Voice!close
  BY <1>12 DEF Voice!close, Voice!worker, Voice!calls, Voice!Types, Voice!TaskTypes, Voice!TaskPcs,
       Voice!ThreadPcs
<1>13. CASE UNCHANGED Voice!vars
  BY <1>13 DEF Voice!vars, Voice!Types, Voice!TaskTypes, Voice!TaskPcs, Voice!ThreadPcs
<1> QED
  BY <1>1, <1>2, <1>3, <1>4, <1>5, <1>6, <1>7, <1>8, <1>9, <1>10, <1>11, <1>12, <1>13 DEF Voice!Next,
       Voice!Call, Voice!Loop

LEMMA VoiceProcessType == ASSUME MaxProcesses \in Nat, Voice!Types, [Voice!Next]_Voice!vars
     PROVE Voice!ProcessTypes'
<1>1. ASSUME NEW r \in SpeechRequests, Voice!Exchange(r) PROVE Voice!ProcessTypes'
  <2>1. r1 = "json" /\ Voice!loop(r) /\ UNCHANGED <<r1, r2, r3, r6, r7>>
    BY <1>1 DEF Voice!Exchange
  <2>2. CASE /\ r5[r] = "queued" /\ r8 = 0 /\ Voice!Spawns /\ r8' = r11' /\ Voice!Task(r, "ready")
             /\ UNCHANGED <<r10, r4>>
    BY <2>1, <2>2 DEF Voice!loop, Voice!Spawns, Voice!Task, Voice!Processes, Voice!NoPipe, Voice!Running,
         Voice!Types, Voice!ProcessTypes
  <2>3. CASE UNCHANGED <<r8, r11, r9>>
    BY <2>1, <2>3 DEF Voice!calls, Voice!worker, Voice!Types, Voice!ProcessTypes
  <2> QED
    BY <1>1, <2>2, <2>3 DEF Voice!Exchange
<1>2. ASSUME NEW r \in SpeechRequests, Voice!aclose(r) PROVE Voice!ProcessTypes'
  BY <1>2 DEF Voice!aclose, Voice!loop, Voice!Running, Voice!Task, Voice!calls, Voice!Types,
       Voice!ProcessTypes
<1>3. ASSUME NEW r \in SpeechRequests, Voice!kill(r) PROVE Voice!ProcessTypes'
  <2>1. r1 = "sherpa" /\ Voice!loop(r) /\ UNCHANGED <<Voice!calls, r6, r10, r11>>
    BY <1>3 DEF Voice!kill
  <2>2. CASE r5[r] = "kill" /\ r9' = r9 \ {r8} /\ Voice!Task(r, "gather") /\ UNCHANGED <<r7, r8>>
    BY <2>1, <2>2 DEF Voice!loop, Voice!Task, Voice!calls, Voice!Running, Voice!Types, Voice!ProcessTypes
  <2>3. CASE /\ r5[r] = "aclose" /\ r8' = 0 /\ r9' = r9 \ {r8} /\ Voice!Task(r, "ended")
             /\ r7' = r7
    BY <2>1, <2>3 DEF Voice!loop, Voice!Task, Voice!calls, Voice!Running, Voice!Types, Voice!ProcessTypes
  <2>4. CASE UNCHANGED <<r8, r9>>
    BY <2>1, <2>4 DEF Voice!calls, Voice!worker, Voice!Types, Voice!ProcessTypes
  <2> QED
    BY <1>3, <2>2, <2>3, <2>4 DEF Voice!kill
<1>4. ASSUME NEW r \in SpeechRequests, Voice!exchange(r) PROVE Voice!ProcessTypes'
  <2>1. UNCHANGED <<r1, r2, r3, r5, r7>>
    BY <1>4 DEF Voice!exchange
  <2>2. CASE r6[r] = "popen" /\ Voice!Spawns /\ Voice!Thread(r, "assign") /\ UNCHANGED <<r4, r8, r10>>
    BY <2>1, <2>2 DEF Voice!Thread, Voice!Spawns, Voice!Processes, Voice!NoPipe, Voice!Types,
         Voice!ProcessTypes
  <2>3. CASE r6[r] = "assign" /\ r8' = r11 /\ Voice!Thread(r, "check2") /\ UNCHANGED <<r4, r9, r10, r11>>
    BY <2>1, <2>3 DEF Voice!Thread, Voice!Types, Voice!ProcessTypes
  <2>4. CASE /\ r6[r] = "close" /\ r8' = 0 /\ r9' = r9 \ {r8} /\ Voice!Thread(r, "ended")
             /\ UNCHANGED <<r4, r10, r11>>
    BY <2>1, <2>4 DEF Voice!Thread, Voice!Types, Voice!ProcessTypes
  <2>5. CASE UNCHANGED <<r8, r11, r9>>
    BY <2>1, <2>5 DEF Voice!calls, Voice!worker, Voice!Types, Voice!ProcessTypes
  <2> QED
    BY <1>4, <2>2, <2>3, <2>4, <2>5 DEF Voice!exchange, Voice!Thread, Voice!Spawns, Voice!Written,
         Voice!Takes
<1>5. ASSUME NEW p \in Voice!Processes, Voice!Dies(p) PROVE Voice!ProcessTypes'
  BY <1>5 DEF Voice!Dies, Voice!calls, Voice!Types, Voice!ProcessTypes
<1>6. CASE Voice!shutdown
  <2>1. UNCHANGED <<r1, r3, r6, r7, r10, r11>>
    BY <1>6 DEF Voice!shutdown
  <2>2. CASE /\ r2.close = "gather" /\ \A r \in SpeechRequests : Voice!Running(r) => r4[r].late
             /\ r2' = [r2 EXCEPT !.close = "stop"] /\ r8' = 0 /\ r9' = r9 \ {r8}
             /\ UNCHANGED <<r4, r5>>
    BY <2>1, <2>2 DEF Voice!Running, Voice!Types, Voice!ProcessTypes
  <2>3. CASE UNCHANGED <<r8, r9>>
    BY <2>1, <2>3 DEF Voice!calls, Voice!worker, Voice!Types, Voice!ProcessTypes
  <2> QED
    BY <1>6, <2>2, <2>3 DEF Voice!shutdown
<1>7. ASSUME NEW r \in SpeechRequests,
     Voice!invoke(r) \/ Voice!ensure_loop(r) \/ Voice!submit(r) \/ Voice!waited(r) \/ Voice!drain(r)
       \/ Voice!release(r) \/ Voice!Raises(r) \/ Voice!transcribe(r)
       PROVE  Voice!ProcessTypes'
  BY <1>7 DEF Voice!invoke, Voice!ensure_loop, Voice!submit, Voice!waited, Voice!drain, Voice!release,
       Voice!Raises, Voice!transcribe, Voice!worker, Voice!calls, Voice!Types,
        Voice!ProcessTypes
<1>8. ASSUME NEW p \in Voice!Processes, Voice!Answers(p) PROVE Voice!ProcessTypes'
  BY <1>8 DEF Voice!Answers, Voice!worker, Voice!calls, Voice!Types, Voice!ProcessTypes
<1>9. CASE Voice!close
  BY <1>9 DEF Voice!close, Voice!worker, Voice!calls, Voice!Types, Voice!ProcessTypes
<1>10. CASE UNCHANGED Voice!vars
  BY <1>10 DEF Voice!vars, Voice!Types, Voice!ProcessTypes
<1> QED
  BY <1>1, <1>2, <1>3, <1>4, <1>5, <1>6, <1>7, <1>8, <1>9, <1>10 DEF Voice!Next, Voice!Call, Voice!Loop

LEMMA VoicePipeType == ASSUME MaxProcesses \in Nat, Voice!Types, [Voice!Next]_Voice!vars
     PROVE Voice!PipeTypes'
<1>1. ASSUME NEW r \in SpeechRequests, Voice!Exchange(r) PROVE Voice!PipeTypes'
  <2>1. r1 = "json" /\ Voice!loop(r) /\ UNCHANGED <<r1, r2, r3, r6, r7>>
    BY <1>1 DEF Voice!Exchange
  <2>2. CASE /\ r5[r] \in {"queued", "ready"} /\ r8 # 0 /\ r8 \in r9 /\ Voice!Written(r, r8)
             /\ Voice!Task(r, "asked") /\ UNCHANGED <<r8, r9, r11, r4>>
    BY <2>1, <2>2, VoicePiped DEF Voice!Written, Voice!Types, Voice!PipeTypes, Voice!Owners
  <2>3. CASE /\ r5[r] = "asked" /\ r8 # 0 /\ Voice!Takes(r, r8) /\ Voice!Task(r, "ended")
             /\ UNCHANGED <<r8, r9, r11>>
    BY <2>1, <2>3 DEF Voice!loop, Voice!Takes, Voice!Task, Voice!Processes, Voice!NoPipe, Voice!Running,
         Voice!Types, Voice!PipeTypes, Voice!Owners
  <2>4. CASE r10' = r10
    BY <2>1, <2>4 DEF Voice!calls, Voice!worker, Voice!Types, Voice!PipeTypes, Voice!Owners
  <2> QED
    BY <1>1, <2>2, <2>3, <2>4 DEF Voice!Exchange
<1>2. ASSUME NEW r \in SpeechRequests, Voice!exchange(r) PROVE Voice!PipeTypes'
  <2>1. UNCHANGED <<r1, r2, r3, r5, r7>>
    BY <1>2 DEF Voice!exchange
  <2>2. CASE /\ r6[r] = "write" /\ r8 \in r9 /\ Voice!Written(r, r8) /\ Voice!Thread(r, "read")
             /\ UNCHANGED <<r4, r8, r9, r11>>
    BY <2>1, <2>2, VoicePiped DEF Voice!Written, Voice!Types, Voice!PipeTypes, Voice!Owners
  <2>3. CASE /\ r6[r] = "read" /\ r8 # 0 /\ Voice!Takes(r, r8) /\ Voice!Thread(r, "ended")
             /\ UNCHANGED <<r8, r9, r11>>
    BY <2>1, <2>3 DEF Voice!Thread, Voice!Takes, Voice!Processes, Voice!NoPipe, Voice!Types,
         Voice!PipeTypes, Voice!Owners
  <2>4. CASE r10' = r10
    BY <2>1, <2>4 DEF Voice!calls, Voice!worker, Voice!Types, Voice!PipeTypes, Voice!Owners
  <2> QED
    BY <1>2, <2>2, <2>3, <2>4 DEF Voice!exchange, Voice!Thread, Voice!Spawns, Voice!Written, Voice!Takes
<1>3. ASSUME NEW p \in Voice!Processes, Voice!Answers(p) PROVE Voice!PipeTypes'
  BY <1>3 DEF Voice!Answers, Voice!calls, Voice!Processes, Voice!Types, Voice!PipeTypes, Voice!Owners
<1>4. ASSUME NEW r \in SpeechRequests,
     Voice!invoke(r) \/ Voice!ensure_loop(r) \/ Voice!submit(r) \/ Voice!waited(r) \/ Voice!drain(r)
       \/ Voice!release(r) \/ Voice!Raises(r) \/ Voice!aclose(r) \/ Voice!transcribe(r) \/ Voice!kill(r)
       PROVE  Voice!PipeTypes'
  BY <1>4 DEF Voice!invoke, Voice!ensure_loop, Voice!submit, Voice!waited, Voice!drain, Voice!release,
       Voice!Raises, Voice!aclose, Voice!transcribe, Voice!kill, Voice!worker,
        Voice!calls, Voice!Types, Voice!PipeTypes, Voice!Owners
<1>5. ASSUME NEW p \in Voice!Processes, Voice!Dies(p) PROVE Voice!PipeTypes'
  BY <1>5 DEF Voice!Dies, Voice!worker, Voice!calls, Voice!Types, Voice!PipeTypes, Voice!Owners
<1>6. CASE Voice!close \/ Voice!shutdown
  BY <1>6 DEF Voice!close, Voice!shutdown, Voice!worker, Voice!calls, Voice!Types, Voice!PipeTypes,
       Voice!Owners
<1>7. CASE UNCHANGED Voice!vars
  BY <1>7 DEF Voice!vars, Voice!Types, Voice!PipeTypes, Voice!Owners
<1> QED
  BY <1>1, <1>2, <1>3, <1>4, <1>5, <1>6, <1>7 DEF Voice!Next, Voice!Call, Voice!Loop

\* The lock goes with its owner's position.
LEMMA VoiceLockStep == ASSUME MaxProcesses \in Nat, Voice!Nobody \notin SpeechRequests, Voice!Types,
     Voice!LockInv, [Voice!Next]_Voice!vars PROVE Voice!LockInv'
<1>1. ASSUME NEW r \in SpeechRequests, Voice!invoke(r) PROVE Voice!LockInv'
  <2>1. Voice!At(r, "idle") /\ UNCHANGED <<r1, r2, r5, Voice!worker>>
    BY <1>1 DEF Voice!invoke
  <2>2. CASE (r2.closed \/ r3 # Voice!Nobody) /\ Voice!Req(r, "over") /\ r3' = r3
    BY <2>1, <2>2 DEF Voice!At, Voice!Req, Voice!worker, Voice!Types, Voice!CallTypes, Voice!Owners,
         Voice!RequestTypes, Voice!Pcs, Voice!LockInv
  <2>3. CASE ~r2.closed /\ r3 = Voice!Nobody /\ Voice!Req(r, "locked") /\ r3' = r
    BY <2>1, <2>3 DEF Voice!At, Voice!Req, Voice!worker, Voice!Types, Voice!CallTypes, Voice!Owners,
         Voice!RequestTypes, Voice!Pcs, Voice!LockInv
  <2> QED
    BY <1>1, <2>2, <2>3 DEF Voice!invoke
<1>2. ASSUME NEW r \in SpeechRequests, Voice!ensure_loop(r) PROVE Voice!LockInv'
  <2>1. Voice!At(r, "locked") /\ UNCHANGED <<r1, r3, r5, Voice!worker>>
    BY <1>2 DEF Voice!ensure_loop
  <2>2. CASE r2.closed /\ Voice!Req(r, "release") /\ r2' = r2
    BY <2>1, <2>2 DEF Voice!At, Voice!Req, Voice!worker, Voice!Types, Voice!CallTypes, Voice!Owners,
         Voice!RequestTypes, Voice!Pcs, Voice!LockInv
  <2>3. CASE ~r2.closed /\ Voice!Req(r, "submit") /\ r2' = [r2 EXCEPT !.loop = "running"]
    BY <2>1, <2>3 DEF Voice!At, Voice!Req, Voice!worker, Voice!Types, Voice!CallTypes, Voice!Owners,
         Voice!RequestTypes, Voice!Pcs, Voice!LockInv
  <2> QED
    BY <1>2, <2>2, <2>3 DEF Voice!ensure_loop
<1>3. ASSUME NEW r \in SpeechRequests, Voice!submit(r) PROVE Voice!LockInv'
  BY <1>3 DEF Voice!submit, Voice!At, Voice!Task, Voice!worker, Voice!Types, Voice!CallTypes, Voice!Owners,
       Voice!RequestTypes, Voice!Pcs, Voice!LockInv
<1>4. ASSUME NEW r \in SpeechRequests, Voice!waited(r) PROVE Voice!LockInv'
  BY <1>4 DEF Voice!waited, Voice!At, Voice!Req, Voice!worker, Voice!Types, Voice!CallTypes, Voice!Owners,
       Voice!RequestTypes, Voice!Pcs, Voice!LockInv
<1>5. ASSUME NEW r \in SpeechRequests, Voice!drain(r) PROVE Voice!LockInv'
  <2>1. UNCHANGED <<r1, r2, r3, Voice!worker>>
    BY <1>5 DEF Voice!drain
  <2>2. CASE /\ Voice!At(r, "wait") /\ Voice!Running(r) /\ r5' = [r5 EXCEPT ![r] = Voice!Cancelled(r)]
             /\ r4' = [r4 EXCEPT ![r].pc = "drain", ![r].twice = @ \/ (r5'[r] = "aclose")]
    BY <2>1, <2>2 DEF Voice!At, Voice!Running, Voice!Cancelled, Voice!worker, Voice!Types, Voice!CallTypes,
         Voice!Owners, Voice!RequestTypes, Voice!Pcs, Voice!LockInv
  <2>3. CASE Voice!At(r, "drain") /\ r5[r] = "ended" /\ Voice!Req(r, "release") /\ r5' = r5
    BY <2>1, <2>3 DEF Voice!At, Voice!Req, Voice!worker, Voice!Types, Voice!CallTypes, Voice!Owners,
         Voice!RequestTypes, Voice!Pcs, Voice!LockInv
  <2> QED
    BY <1>5, <2>2, <2>3 DEF Voice!drain
<1>6. ASSUME NEW r \in SpeechRequests, Voice!release(r) PROVE Voice!LockInv'
  BY <1>6 DEF Voice!release, Voice!At, Voice!Req, Voice!worker, Voice!Types, Voice!CallTypes, Voice!Owners,
       Voice!RequestTypes, Voice!Pcs, Voice!LockInv
<1>7. ASSUME NEW r \in SpeechRequests, Voice!Exchange(r) PROVE Voice!LockInv'
  <2>1. r1 = "json" /\ Voice!loop(r) /\ UNCHANGED <<r1, r2, r3, r6, r7>>
    BY <1>7 DEF Voice!Exchange
  <2>2. CASE /\ r5[r] = "asked" /\ r8 # 0 /\ Voice!Takes(r, r8) /\ Voice!Task(r, "ended")
             /\ UNCHANGED <<r8, r9, r11>>
    BY <2>1, <2>2 DEF Voice!loop, Voice!Takes, Voice!Task, Voice!Processes, Voice!NoPipe, Voice!Running,
         Voice!Types, Voice!CallTypes, Voice!Owners, Voice!RequestTypes,
          Voice!Pcs, Voice!LockInv
  <2>3. CASE r4' = r4
    BY <2>1, <2>3 DEF Voice!calls, Voice!worker, Voice!Types, Voice!CallTypes, Voice!Owners,
         Voice!RequestTypes, Voice!Pcs, Voice!LockInv
  <2> QED
    BY <1>7, <2>2, <2>3 DEF Voice!Exchange
<1>8. ASSUME NEW r \in SpeechRequests, Voice!exchange(r) PROVE Voice!LockInv'
  <2>1. UNCHANGED <<r1, r2, r3, r5, r7>>
    BY <1>8 DEF Voice!exchange
  <2>2. CASE /\ r6[r] = "read" /\ r8 # 0 /\ Voice!Takes(r, r8) /\ Voice!Thread(r, "ended")
             /\ UNCHANGED <<r8, r9, r11>>
    BY <2>1, <2>2 DEF Voice!Thread, Voice!Takes, Voice!Processes, Voice!NoPipe, Voice!Types,
         Voice!CallTypes, Voice!Owners, Voice!RequestTypes, Voice!Pcs, Voice!LockInv
  <2>3. CASE r4' = r4
    BY <2>1, <2>3 DEF Voice!calls, Voice!worker, Voice!Types, Voice!CallTypes, Voice!Owners,
         Voice!RequestTypes, Voice!Pcs, Voice!LockInv
  <2> QED
    BY <1>8, <2>2, <2>3 DEF Voice!exchange, Voice!Thread, Voice!Spawns, Voice!Written, Voice!Takes
<1>9. CASE Voice!shutdown
  <2>1. UNCHANGED <<r1, r3, r6, r7, r10, r11>>
    BY <1>9 DEF Voice!shutdown
  <2>2. CASE /\ r2.close = "shutdown" /\ r2' = [r2 EXCEPT !.close = "gather"]
             /\ r5' = [r \in SpeechRequests |-> Voice!Cancelled(r)]
             /\ r4' = [r \in SpeechRequests |-> [r4[r] EXCEPT !.pc = IF @ = "drain" THEN "release" ELSE @,
                                                                !.twice = @ \/ (r5[r] = "gather")]]
             /\ UNCHANGED <<r8, r9>>
    <3>1. \A r \in SpeechRequests : r4'[r].pc = (IF r4[r].pc = "drain" THEN "release" ELSE r4[r].pc)
                                     /\ r4'[r].late = r4[r].late
      BY <2>2, VoiceGathered
    <3> QED
      BY <2>1, <3>1 DEF Voice!LockInv
  <2>3. CASE r4' = r4
    BY <2>1, <2>3 DEF Voice!calls, Voice!worker, Voice!Types, Voice!CallTypes, Voice!Owners,
         Voice!RequestTypes, Voice!Pcs, Voice!LockInv
  <2> QED
    BY <1>9, <2>2, <2>3 DEF Voice!shutdown
<1>10. ASSUME NEW r \in SpeechRequests,
     Voice!Raises(r) \/ Voice!aclose(r) \/ Voice!transcribe(r) \/ Voice!kill(r) PROVE Voice!LockInv'
  BY <1>10 DEF Voice!Raises, Voice!aclose, Voice!transcribe, Voice!kill, Voice!worker, Voice!calls,
       Voice!Types, Voice!CallTypes, Voice!Owners, Voice!RequestTypes, Voice!Pcs,
        Voice!LockInv
<1>11. ASSUME NEW p \in Voice!Processes, Voice!Answers(p) \/ Voice!Dies(p) PROVE Voice!LockInv'
  BY <1>11 DEF Voice!Answers, Voice!Dies, Voice!worker, Voice!calls, Voice!Types, Voice!CallTypes,
       Voice!Owners, Voice!RequestTypes, Voice!Pcs, Voice!LockInv
<1>12. CASE Voice!close
  BY <1>12 DEF Voice!close, Voice!worker, Voice!calls, Voice!Types, Voice!CallTypes, Voice!Owners,
       Voice!RequestTypes, Voice!Pcs, Voice!LockInv
<1>13. CASE UNCHANGED Voice!vars
  BY <1>13 DEF Voice!vars, Voice!Types, Voice!CallTypes, Voice!Owners, Voice!RequestTypes, Voice!Pcs,
       Voice!LockInv
<1> QED
  BY <1>1, <1>2, <1>3, <1>4, <1>5, <1>6, <1>7, <1>8, <1>9, <1>10, <1>11, <1>12, <1>13 DEF Voice!Next,
       Voice!Call, Voice!Loop

\* Where close() stands.
LEMMA VoiceCloseStep == ASSUME MaxProcesses \in Nat, Voice!Nobody \notin SpeechRequests, Voice!Types,
     Voice!CloseInv, [Voice!Next]_Voice!vars PROVE Voice!CloseInv'
<1>1. ASSUME NEW r \in SpeechRequests, Voice!invoke(r) PROVE Voice!CloseInv'
  <2>1. Voice!At(r, "idle") /\ UNCHANGED <<r1, r2, r5, Voice!worker>>
    BY <1>1 DEF Voice!invoke
  <2>2. CASE (r2.closed \/ r3 # Voice!Nobody) /\ Voice!Req(r, "over") /\ r3' = r3
    BY <2>1, <2>2 DEF Voice!At, Voice!Req, Voice!worker, Voice!Types, Voice!CallTypes, Voice!Owners,
         Voice!RequestTypes, Voice!Pcs, Voice!TaskTypes, Voice!TaskPcs,
          Voice!ThreadPcs, Voice!CloseInv
  <2>3. CASE ~r2.closed /\ r3 = Voice!Nobody /\ Voice!Req(r, "locked") /\ r3' = r
    BY <2>1, <2>3 DEF Voice!At, Voice!Req, Voice!worker, Voice!Types, Voice!CallTypes, Voice!Owners,
         Voice!RequestTypes, Voice!Pcs, Voice!TaskTypes, Voice!TaskPcs,
          Voice!ThreadPcs, Voice!CloseInv
  <2> QED
    BY <1>1, <2>2, <2>3 DEF Voice!invoke
<1>2. ASSUME NEW r \in SpeechRequests, Voice!ensure_loop(r) PROVE Voice!CloseInv'
  <2>1. Voice!At(r, "locked") /\ UNCHANGED <<r1, r3, r5, Voice!worker>>
    BY <1>2 DEF Voice!ensure_loop
  <2>2. CASE r2.closed /\ Voice!Req(r, "release") /\ r2' = r2
    BY <2>1, <2>2 DEF Voice!At, Voice!Req, Voice!worker, Voice!Types, Voice!CallTypes, Voice!Owners,
         Voice!RequestTypes, Voice!Pcs, Voice!TaskTypes, Voice!TaskPcs,
          Voice!ThreadPcs, Voice!CloseInv
  <2>3. CASE ~r2.closed /\ Voice!Req(r, "submit") /\ r2' = [r2 EXCEPT !.loop = "running"]
    BY <2>1, <2>3 DEF Voice!At, Voice!Req, Voice!worker, Voice!Types, Voice!CallTypes, Voice!Owners,
         Voice!RequestTypes, Voice!Pcs, Voice!TaskTypes, Voice!TaskPcs,
          Voice!ThreadPcs, Voice!CloseInv
  <2> QED
    BY <1>2, <2>2, <2>3 DEF Voice!ensure_loop
<1>3. ASSUME NEW r \in SpeechRequests, Voice!submit(r) PROVE Voice!CloseInv'
  BY <1>3 DEF Voice!submit, Voice!At, Voice!Task, Voice!worker, Voice!Types, Voice!CallTypes, Voice!Owners,
       Voice!RequestTypes, Voice!Pcs, Voice!TaskTypes, Voice!TaskPcs,
        Voice!ThreadPcs, Voice!CloseInv
<1>4. ASSUME NEW r \in SpeechRequests, Voice!waited(r) PROVE Voice!CloseInv'
  BY <1>4 DEF Voice!waited, Voice!At, Voice!Req, Voice!worker, Voice!Types, Voice!CallTypes, Voice!Owners,
       Voice!RequestTypes, Voice!Pcs, Voice!TaskTypes, Voice!TaskPcs,
        Voice!ThreadPcs, Voice!CloseInv
<1>5. ASSUME NEW r \in SpeechRequests, Voice!drain(r) PROVE Voice!CloseInv'
  <2>1. UNCHANGED <<r1, r2, r3, Voice!worker>>
    BY <1>5 DEF Voice!drain
  <2>2. CASE /\ Voice!At(r, "wait") /\ Voice!Running(r) /\ r5' = [r5 EXCEPT ![r] = Voice!Cancelled(r)]
             /\ r4' = [r4 EXCEPT ![r].pc = "drain", ![r].twice = @ \/ (r5'[r] = "aclose")]
    BY <2>1, <2>2 DEF Voice!At, Voice!Running, Voice!Cancelled, Voice!worker, Voice!Types, Voice!CallTypes,
         Voice!Owners, Voice!RequestTypes, Voice!Pcs, Voice!TaskTypes,
          Voice!TaskPcs, Voice!ThreadPcs, Voice!CloseInv
  <2>3. CASE Voice!At(r, "drain") /\ r5[r] = "ended" /\ Voice!Req(r, "release") /\ r5' = r5
    BY <2>1, <2>3 DEF Voice!At, Voice!Req, Voice!worker, Voice!Types, Voice!CallTypes, Voice!Owners,
         Voice!RequestTypes, Voice!Pcs, Voice!TaskTypes, Voice!TaskPcs,
          Voice!ThreadPcs, Voice!CloseInv
  <2> QED
    BY <1>5, <2>2, <2>3 DEF Voice!drain
<1>6. ASSUME NEW r \in SpeechRequests, Voice!release(r) PROVE Voice!CloseInv'
  BY <1>6 DEF Voice!release, Voice!At, Voice!Req, Voice!worker, Voice!Types, Voice!CallTypes, Voice!Owners,
       Voice!RequestTypes, Voice!Pcs, Voice!TaskTypes, Voice!TaskPcs,
        Voice!ThreadPcs, Voice!CloseInv
<1>7. ASSUME NEW r \in SpeechRequests, Voice!Exchange(r) PROVE Voice!CloseInv'
  <2>1. r1 = "json" /\ Voice!loop(r) /\ UNCHANGED <<r1, r2, r3, r6, r7>>
    BY <1>7 DEF Voice!Exchange
  <2>2. CASE /\ r5[r] = "queued" /\ r8 = 0 /\ Voice!Spawns /\ r8' = r11' /\ Voice!Task(r, "ready")
             /\ UNCHANGED <<r10, r4>>
    BY <2>1, <2>2 DEF Voice!loop, Voice!Spawns, Voice!Task, Voice!Processes, Voice!NoPipe, Voice!Running,
         Voice!Types, Voice!CallTypes, Voice!Owners, Voice!RequestTypes,
          Voice!Pcs, Voice!TaskTypes, Voice!TaskPcs, Voice!ThreadPcs, Voice!CloseInv
  <2>3. CASE /\ r5[r] \in {"queued", "ready"} /\ r8 # 0 /\ r8 \in r9 /\ Voice!Written(r, r8)
             /\ Voice!Task(r, "asked") /\ UNCHANGED <<r8, r9, r11, r4>>
    BY <2>1, <2>3 DEF Voice!loop, Voice!Written, Voice!Task, Voice!Processes, Voice!NoPipe, Voice!Running,
         Voice!Types, Voice!CallTypes, Voice!Owners, Voice!RequestTypes,
          Voice!Pcs, Voice!TaskTypes, Voice!TaskPcs, Voice!ThreadPcs, Voice!CloseInv
  <2>4. CASE /\ r5[r] = "asked" /\ r8 # 0 /\ Voice!Takes(r, r8) /\ Voice!Task(r, "ended")
             /\ UNCHANGED <<r8, r9, r11>>
    BY <2>1, <2>4 DEF Voice!loop, Voice!Takes, Voice!Task, Voice!Processes, Voice!NoPipe, Voice!Running,
         Voice!Types, Voice!CallTypes, Voice!Owners, Voice!RequestTypes,
          Voice!Pcs, Voice!TaskTypes, Voice!TaskPcs, Voice!ThreadPcs, Voice!CloseInv
  <2> QED
    BY <1>7, <2>2, <2>3, <2>4 DEF Voice!Exchange
<1>8. ASSUME NEW r \in SpeechRequests, Voice!Raises(r) PROVE Voice!CloseInv'
  BY <1>8 DEF Voice!Raises, Voice!loop, Voice!Running, Voice!Task, Voice!calls, Voice!worker, Voice!Types,
       Voice!CallTypes, Voice!Owners, Voice!RequestTypes, Voice!Pcs,
        Voice!TaskTypes, Voice!TaskPcs, Voice!ThreadPcs, Voice!CloseInv
<1>9. ASSUME NEW r \in SpeechRequests, Voice!aclose(r) PROVE Voice!CloseInv'
  BY <1>9 DEF Voice!aclose, Voice!loop, Voice!Running, Voice!Task, Voice!calls, Voice!Types,
       Voice!CallTypes, Voice!Owners, Voice!RequestTypes, Voice!Pcs, Voice!TaskTypes,
        Voice!TaskPcs, Voice!ThreadPcs, Voice!CloseInv
<1>10. ASSUME NEW r \in SpeechRequests, Voice!transcribe(r) PROVE Voice!CloseInv'
  <2>1. r1 = "sherpa" /\ Voice!loop(r) /\ UNCHANGED <<Voice!calls, r7, r8, r9, r10, r11>>
    BY <1>10 DEF Voice!transcribe
  <2>2. CASE r5[r] = "queued" /\ Voice!Task(r, "shield") /\ Voice!Thread(r, "check")
    BY <2>1, <2>2 DEF Voice!loop, Voice!Task, Voice!Thread, Voice!calls, Voice!Running, Voice!Types,
         Voice!CallTypes, Voice!Owners, Voice!RequestTypes, Voice!Pcs,
          Voice!TaskTypes, Voice!TaskPcs, Voice!ThreadPcs, Voice!CloseInv
  <2>3. CASE r5[r] = "shield" /\ r6[r] = "ended" /\ Voice!Task(r, "ended") /\ r6' = r6
    BY <2>1, <2>3 DEF Voice!loop, Voice!Task, Voice!calls, Voice!Running, Voice!Types, Voice!CallTypes,
         Voice!Owners, Voice!RequestTypes, Voice!Pcs, Voice!TaskTypes,
          Voice!TaskPcs, Voice!ThreadPcs, Voice!CloseInv
  <2>4. CASE r5[r] = "shield" /\ Voice!Task(r, "raise") /\ r6' = r6
    BY <2>1, <2>4 DEF Voice!loop, Voice!Task, Voice!calls, Voice!Running, Voice!Types, Voice!CallTypes,
         Voice!Owners, Voice!RequestTypes, Voice!Pcs, Voice!TaskTypes,
          Voice!TaskPcs, Voice!ThreadPcs, Voice!CloseInv
  <2> QED
    BY <1>10, <2>2, <2>3, <2>4 DEF Voice!transcribe
<1>11. ASSUME NEW r \in SpeechRequests, Voice!kill(r) PROVE Voice!CloseInv'
  <2>1. r1 = "sherpa" /\ Voice!loop(r) /\ UNCHANGED <<Voice!calls, r6, r10, r11>>
    BY <1>11 DEF Voice!kill
  <2>2. CASE r5[r] = "raise" /\ r6[r] = "none" /\ Voice!Task(r, "ended") /\ UNCHANGED <<r7, r8, r9>>
    BY <2>1, <2>2 DEF Voice!loop, Voice!Task, Voice!calls, Voice!Running, Voice!Types, Voice!CallTypes,
         Voice!Owners, Voice!RequestTypes, Voice!Pcs, Voice!TaskTypes,
          Voice!TaskPcs, Voice!ThreadPcs, Voice!CloseInv
  <2>3. CASE /\ r5[r] = "raise" /\ r6[r] # "none" /\ r7' = [r7 EXCEPT ![r] = TRUE] /\ Voice!Task(r, "kill")
             /\ UNCHANGED <<r8, r9>>
    BY <2>1, <2>3 DEF Voice!loop, Voice!Task, Voice!calls, Voice!Running, Voice!Types, Voice!CallTypes,
         Voice!Owners, Voice!RequestTypes, Voice!Pcs, Voice!TaskTypes,
          Voice!TaskPcs, Voice!ThreadPcs, Voice!CloseInv
  <2>4. CASE r5[r] = "kill" /\ r9' = r9 \ {r8} /\ Voice!Task(r, "gather") /\ UNCHANGED <<r7, r8>>
    BY <2>1, <2>4 DEF Voice!loop, Voice!Task, Voice!calls, Voice!Running, Voice!Types, Voice!CallTypes,
         Voice!Owners, Voice!RequestTypes, Voice!Pcs, Voice!TaskTypes,
          Voice!TaskPcs, Voice!ThreadPcs, Voice!CloseInv
  <2>5. CASE r5[r] = "gather" /\ r6[r] = "ended" /\ Voice!Task(r, "aclose") /\ UNCHANGED <<r7, r8, r9>>
    BY <2>1, <2>5 DEF Voice!loop, Voice!Task, Voice!calls, Voice!Running, Voice!Types, Voice!CallTypes,
         Voice!Owners, Voice!RequestTypes, Voice!Pcs, Voice!TaskTypes,
          Voice!TaskPcs, Voice!ThreadPcs, Voice!CloseInv
  <2>6. CASE /\ r5[r] = "aclose" /\ r8' = 0 /\ r9' = r9 \ {r8} /\ Voice!Task(r, "ended")
             /\ r7' = r7
    BY <2>1, <2>6 DEF Voice!loop, Voice!Task, Voice!calls, Voice!Running, Voice!Types, Voice!CallTypes,
         Voice!Owners, Voice!RequestTypes, Voice!Pcs, Voice!TaskTypes,
          Voice!TaskPcs, Voice!ThreadPcs, Voice!CloseInv
  <2> QED
    BY <1>11, <2>2, <2>3, <2>4, <2>5, <2>6 DEF Voice!kill
<1>12. ASSUME NEW r \in SpeechRequests, Voice!exchange(r) PROVE Voice!CloseInv'
  <2>1. UNCHANGED <<r1, r2, r3, r5, r7>>
    BY <1>12 DEF Voice!exchange
  <2>2. CASE /\ r6[r] \in {"check", "check2", "check3"} /\ UNCHANGED <<r4, r8, r9, r10, r11>>
             /\ \E pc \in {"close", "popen", "check3", "handshake", "write"} :
                  /\ Voice!Thread(r, pc) /\ (pc = "popen" => r8 = 0)
                  /\ pc = "check3" => r8 # 0
                  /\ pc \in {"handshake", "write"} => r6[r] \in {"check2", "check3"}
    BY <2>1, <2>2 DEF Voice!Thread, Voice!Types, Voice!CallTypes, Voice!Owners, Voice!RequestTypes,
         Voice!Pcs, Voice!TaskTypes, Voice!TaskPcs, Voice!ThreadPcs,
          Voice!CloseInv
  <2>3. CASE r6[r] = "popen" /\ Voice!Spawns /\ Voice!Thread(r, "assign") /\ UNCHANGED <<r4, r8, r10>>
    BY <2>1, <2>3 DEF Voice!Thread, Voice!Spawns, Voice!Processes, Voice!NoPipe, Voice!Types,
         Voice!CallTypes, Voice!Owners, Voice!RequestTypes, Voice!Pcs,
          Voice!TaskTypes, Voice!TaskPcs, Voice!ThreadPcs, Voice!CloseInv
  <2>4. CASE r6[r] = "popen" /\ Voice!Thread(r, "close") /\ UNCHANGED <<r4, r8, r9, r10, r11>>
    BY <2>1, <2>4 DEF Voice!Thread, Voice!Types, Voice!CallTypes, Voice!Owners, Voice!RequestTypes,
         Voice!Pcs, Voice!TaskTypes, Voice!TaskPcs, Voice!ThreadPcs,
          Voice!CloseInv
  <2>5. CASE r6[r] = "assign" /\ r8' = r11 /\ Voice!Thread(r, "check2") /\ UNCHANGED <<r4, r9, r10, r11>>
    BY <2>1, <2>5 DEF Voice!Thread, Voice!Types, Voice!CallTypes, Voice!Owners, Voice!RequestTypes,
         Voice!Pcs, Voice!TaskTypes, Voice!TaskPcs, Voice!ThreadPcs,
          Voice!CloseInv
  <2>6. CASE r6[r] = "handshake" /\ Voice!Thread(r, "check3") /\ UNCHANGED <<r4, r8, r9, r10, r11>>
    BY <2>1, <2>6 DEF Voice!Thread, Voice!Types, Voice!CallTypes, Voice!Owners, Voice!RequestTypes,
         Voice!Pcs, Voice!TaskTypes, Voice!TaskPcs, Voice!ThreadPcs,
          Voice!CloseInv
  <2>7. CASE /\ r6[r] = "write" /\ r8 \in r9 /\ Voice!Written(r, r8) /\ Voice!Thread(r, "read")
             /\ UNCHANGED <<r4, r8, r9, r11>>
    BY <2>1, <2>7 DEF Voice!Thread, Voice!Written, Voice!Processes, Voice!NoPipe, Voice!Types,
         Voice!CallTypes, Voice!Owners, Voice!RequestTypes, Voice!Pcs,
          Voice!TaskTypes, Voice!TaskPcs, Voice!ThreadPcs, Voice!CloseInv
  <2>8. CASE /\ r6[r] = "read" /\ r8 # 0 /\ Voice!Takes(r, r8) /\ Voice!Thread(r, "ended")
             /\ UNCHANGED <<r8, r9, r11>>
    BY <2>1, <2>8 DEF Voice!Thread, Voice!Takes, Voice!Processes, Voice!NoPipe, Voice!Types,
         Voice!CallTypes, Voice!Owners, Voice!RequestTypes, Voice!Pcs,
          Voice!TaskTypes, Voice!TaskPcs, Voice!ThreadPcs, Voice!CloseInv
  <2>9. CASE /\ r6[r] \in {"handshake", "write", "read"} /\ Voice!Thread(r, "close")
             /\ UNCHANGED <<r4, r8, r9, r10, r11>>
    BY <2>1, <2>9 DEF Voice!Thread, Voice!Types, Voice!CallTypes, Voice!Owners, Voice!RequestTypes,
         Voice!Pcs, Voice!TaskTypes, Voice!TaskPcs, Voice!ThreadPcs,
          Voice!CloseInv
  <2>10. CASE /\ r6[r] = "close" /\ r8' = 0 /\ r9' = r9 \ {r8} /\ Voice!Thread(r, "ended")
              /\ UNCHANGED <<r4, r10, r11>>
    BY <2>1, <2>10 DEF Voice!Thread, Voice!Types, Voice!CallTypes, Voice!Owners, Voice!RequestTypes,
         Voice!Pcs, Voice!TaskTypes, Voice!TaskPcs, Voice!ThreadPcs,
          Voice!CloseInv
  <2> QED
    BY <1>12, <2>2, <2>3, <2>4, <2>5, <2>6, <2>7, <2>8, <2>9, <2>10 DEF Voice!exchange, Voice!Thread,
         Voice!Spawns, Voice!Written,
          Voice!Takes
<1>13. ASSUME NEW p \in Voice!Processes, Voice!Dies(p) PROVE Voice!CloseInv'
  BY <1>13 DEF Voice!Dies, Voice!calls, Voice!Types, Voice!CallTypes, Voice!Owners, Voice!RequestTypes,
       Voice!Pcs, Voice!TaskTypes, Voice!TaskPcs, Voice!ThreadPcs,
        Voice!CloseInv
<1>14. CASE Voice!close
  BY <1>14 DEF Voice!close, Voice!worker, Voice!Types, Voice!CallTypes, Voice!Owners, Voice!RequestTypes,
       Voice!Pcs, Voice!TaskTypes, Voice!TaskPcs, Voice!ThreadPcs,
        Voice!CloseInv
<1>15. CASE Voice!shutdown
  <2>1. UNCHANGED <<r1, r3, r6, r7, r10, r11>>
    BY <1>15 DEF Voice!shutdown
  <2>2. CASE /\ r2.close = "shutdown" /\ r2' = [r2 EXCEPT !.close = "gather"]
             /\ r5' = [r \in SpeechRequests |-> Voice!Cancelled(r)]
             /\ r4' = [r \in SpeechRequests |-> [r4[r] EXCEPT !.pc = IF @ = "drain" THEN "release" ELSE @,
                                                                !.twice = @ \/ (r5[r] = "gather")]]
             /\ UNCHANGED <<r8, r9>>
    BY <2>1, <2>2 DEF Voice!CloseInv, Voice!Types, Voice!CallTypes
  <2>3. CASE /\ r2.close = "gather" /\ \A r \in SpeechRequests : Voice!Running(r) => r4[r].late
             /\ r2' = [r2 EXCEPT !.close = "stop"] /\ r8' = 0 /\ r9' = r9 \ {r8}
             /\ UNCHANGED <<r4, r5>>
    BY <2>1, <2>3 DEF Voice!Running, Voice!Types, Voice!CallTypes, Voice!Owners, Voice!RequestTypes,
         Voice!Pcs, Voice!TaskTypes, Voice!TaskPcs, Voice!ThreadPcs,
          Voice!CloseInv
  <2>4. CASE /\ r2.close = "stop" /\ r2' = [r2 EXCEPT !.close = "join", !.loop = "stopped"]
             /\ UNCHANGED <<r4, r5, r8, r9>>
    BY <2>1, <2>4 DEF Voice!Types, Voice!CallTypes, Voice!Owners, Voice!RequestTypes, Voice!Pcs,
         Voice!TaskTypes, Voice!TaskPcs, Voice!ThreadPcs, Voice!CloseInv
  <2>5. CASE /\ r2.close = "join" /\ r2' = [r2 EXCEPT !.close = "returned", !.loop = "closed"]
             /\ UNCHANGED <<r4, r5, r8, r9>>
    BY <2>1, <2>5 DEF Voice!Types, Voice!CallTypes, Voice!Owners, Voice!RequestTypes, Voice!Pcs,
         Voice!TaskTypes, Voice!TaskPcs, Voice!ThreadPcs, Voice!CloseInv
  <2> QED
    BY <1>15, <2>2, <2>3, <2>4, <2>5 DEF Voice!shutdown
<1>16. ASSUME NEW p \in Voice!Processes, Voice!Answers(p) PROVE Voice!CloseInv'
  BY <1>16 DEF Voice!Answers, Voice!worker, Voice!calls, Voice!Types, Voice!CallTypes, Voice!Owners,
       Voice!RequestTypes, Voice!Pcs, Voice!TaskTypes, Voice!TaskPcs,
        Voice!ThreadPcs, Voice!CloseInv
<1>17. CASE UNCHANGED Voice!vars
  BY <1>17 DEF Voice!vars, Voice!Types, Voice!CallTypes, Voice!Owners, Voice!RequestTypes, Voice!Pcs,
       Voice!TaskTypes, Voice!TaskPcs, Voice!ThreadPcs, Voice!CloseInv
<1> QED
  BY <1>1, <1>2, <1>3, <1>4, <1>5, <1>6, <1>7, <1>8, <1>9, <1>10, <1>11, <1>12, <1>13, <1>14, <1>15, <1>16,
        <1>17 DEF Voice!Next, Voice!Call, Voice!Loop

\* What disturbed the runtime is not forgotten.
LEMMA VoiceQuietStep == ASSUME MaxProcesses \in Nat, Voice!Nobody \notin SpeechRequests, Voice!Types,
     Voice!LockInv, Voice!Undisturbed', [Voice!Next]_Voice!vars PROVE Voice!Undisturbed
<1>1. ASSUME NEW r \in SpeechRequests, Voice!invoke(r) PROVE Voice!Undisturbed
  <2>1. Voice!At(r, "idle") /\ UNCHANGED <<r1, r2, r5, Voice!worker>>
    BY <1>1 DEF Voice!invoke
  <2>2. CASE (r2.closed \/ r3 # Voice!Nobody) /\ Voice!Req(r, "over") /\ r3' = r3
    BY <2>1, <2>2 DEF Voice!At, Voice!Req, Voice!worker, Voice!Types, Voice!RequestTypes, Voice!Pcs,
         Voice!Owners, Voice!LockInv, Voice!Undisturbed
  <2>3. CASE ~r2.closed /\ r3 = Voice!Nobody /\ Voice!Req(r, "locked") /\ r3' = r
    BY <2>1, <2>3 DEF Voice!At, Voice!Req, Voice!worker, Voice!Types, Voice!RequestTypes, Voice!Pcs,
         Voice!Owners, Voice!LockInv, Voice!Undisturbed
  <2> QED
    BY <1>1, <2>2, <2>3 DEF Voice!invoke
<1>2. ASSUME NEW r \in SpeechRequests, Voice!ensure_loop(r) PROVE Voice!Undisturbed
  <2>1. Voice!At(r, "locked") /\ UNCHANGED <<r1, r3, r5, Voice!worker>>
    BY <1>2 DEF Voice!ensure_loop
  <2>2. CASE r2.closed /\ Voice!Req(r, "release") /\ r2' = r2
    BY <2>1, <2>2 DEF Voice!At, Voice!Req, Voice!worker, Voice!Types, Voice!RequestTypes, Voice!Pcs,
         Voice!Owners, Voice!LockInv, Voice!Undisturbed
  <2>3. CASE ~r2.closed /\ Voice!Req(r, "submit") /\ r2' = [r2 EXCEPT !.loop = "running"]
    BY <2>1, <2>3 DEF Voice!At, Voice!Req, Voice!worker, Voice!Types, Voice!RequestTypes, Voice!Pcs,
         Voice!Owners, Voice!LockInv, Voice!Undisturbed
  <2> QED
    BY <1>2, <2>2, <2>3 DEF Voice!ensure_loop
<1>3. ASSUME NEW r \in SpeechRequests, Voice!submit(r) PROVE Voice!Undisturbed
  BY <1>3 DEF Voice!submit, Voice!At, Voice!Task, Voice!worker, Voice!Types, Voice!RequestTypes, Voice!Pcs,
       Voice!Owners, Voice!LockInv, Voice!Undisturbed
<1>4. ASSUME NEW r \in SpeechRequests, Voice!waited(r) PROVE Voice!Undisturbed
  BY <1>4 DEF Voice!waited, Voice!At, Voice!Req, Voice!worker, Voice!Types, Voice!RequestTypes, Voice!Pcs,
       Voice!Owners, Voice!LockInv, Voice!Undisturbed
<1>5. ASSUME NEW r \in SpeechRequests, Voice!drain(r) PROVE Voice!Undisturbed
  <2>1. UNCHANGED <<r1, r2, r3, Voice!worker>>
    BY <1>5 DEF Voice!drain
  <2>2. CASE /\ Voice!At(r, "wait") /\ Voice!Running(r) /\ r5' = [r5 EXCEPT ![r] = Voice!Cancelled(r)]
             /\ r4' = [r4 EXCEPT ![r].pc = "drain", ![r].twice = @ \/ (r5'[r] = "aclose")]
    BY <2>1, <2>2 DEF Voice!At, Voice!Running, Voice!Cancelled, Voice!worker, Voice!Types,
         Voice!RequestTypes, Voice!Pcs, Voice!Owners, Voice!LockInv, Voice!Undisturbed
  <2>3. CASE Voice!At(r, "drain") /\ r5[r] = "ended" /\ Voice!Req(r, "release") /\ r5' = r5
    BY <2>1, <2>3 DEF Voice!At, Voice!Req, Voice!worker, Voice!Types, Voice!RequestTypes, Voice!Pcs,
         Voice!Owners, Voice!LockInv, Voice!Undisturbed
  <2> QED
    BY <1>5, <2>2, <2>3 DEF Voice!drain
<1>6. ASSUME NEW r \in SpeechRequests, Voice!release(r) PROVE Voice!Undisturbed
  BY <1>6 DEF Voice!release, Voice!At, Voice!Req, Voice!worker, Voice!Types, Voice!RequestTypes, Voice!Pcs,
       Voice!Owners, Voice!LockInv, Voice!Undisturbed
<1>7. ASSUME NEW r \in SpeechRequests, Voice!Exchange(r) PROVE Voice!Undisturbed
  <2>1. r1 = "json" /\ Voice!loop(r) /\ UNCHANGED <<r1, r2, r3, r6, r7>>
    BY <1>7 DEF Voice!Exchange
  <2>2. CASE /\ r5[r] = "asked" /\ r8 # 0 /\ Voice!Takes(r, r8) /\ Voice!Task(r, "ended")
             /\ UNCHANGED <<r8, r9, r11>>
    BY <2>1, <2>2 DEF Voice!loop, Voice!Takes, Voice!Task, Voice!Processes, Voice!NoPipe, Voice!Running,
         Voice!Types, Voice!RequestTypes, Voice!Pcs, Voice!Owners,
          Voice!LockInv, Voice!Undisturbed
  <2>3. CASE r4' = r4
    BY <2>1, <2>3 DEF Voice!calls, Voice!worker, Voice!Types, Voice!RequestTypes, Voice!Pcs, Voice!Owners,
         Voice!LockInv, Voice!Undisturbed
  <2> QED
    BY <1>7, <2>2, <2>3 DEF Voice!Exchange
<1>8. ASSUME NEW r \in SpeechRequests, Voice!exchange(r) PROVE Voice!Undisturbed
  <2>1. UNCHANGED <<r1, r2, r3, r5, r7>>
    BY <1>8 DEF Voice!exchange
  <2>2. CASE /\ r6[r] = "read" /\ r8 # 0 /\ Voice!Takes(r, r8) /\ Voice!Thread(r, "ended")
             /\ UNCHANGED <<r8, r9, r11>>
    BY <2>1, <2>2 DEF Voice!Thread, Voice!Takes, Voice!Processes, Voice!NoPipe, Voice!Types,
         Voice!RequestTypes, Voice!Pcs, Voice!Owners, Voice!LockInv, Voice!Undisturbed
  <2>3. CASE r4' = r4
    BY <2>1, <2>3 DEF Voice!calls, Voice!worker, Voice!Types, Voice!RequestTypes, Voice!Pcs, Voice!Owners,
         Voice!LockInv, Voice!Undisturbed
  <2> QED
    BY <1>8, <2>2, <2>3 DEF Voice!exchange, Voice!Thread, Voice!Spawns, Voice!Written, Voice!Takes
<1>9. CASE Voice!shutdown
  <2>1. UNCHANGED <<r1, r3, r6, r7, r10, r11>>
    BY <1>9 DEF Voice!shutdown
  <2>2. CASE /\ r2.close = "shutdown" /\ r2' = [r2 EXCEPT !.close = "gather"]
             /\ r5' = [r \in SpeechRequests |-> Voice!Cancelled(r)]
             /\ r4' = [r \in SpeechRequests |-> [r4[r] EXCEPT !.pc = IF @ = "drain" THEN "release" ELSE @,
                                                                !.twice = @ \/ (r5[r] = "gather")]]
             /\ UNCHANGED <<r8, r9>>
    BY <2>1, <2>2, VoiceGathered DEF Voice!Undisturbed
  <2>3. CASE r4' = r4
    BY <2>1, <2>3 DEF Voice!calls, Voice!worker, Voice!Types, Voice!RequestTypes, Voice!Pcs, Voice!Owners,
         Voice!LockInv, Voice!Undisturbed
  <2> QED
    BY <1>9, <2>2, <2>3 DEF Voice!shutdown
<1>10. ASSUME NEW r \in SpeechRequests,
     Voice!Raises(r) \/ Voice!aclose(r) \/ Voice!transcribe(r) \/ Voice!kill(r) PROVE Voice!Undisturbed
  BY <1>10 DEF Voice!Raises, Voice!aclose, Voice!transcribe, Voice!kill, Voice!worker, Voice!calls,
       Voice!Types, Voice!RequestTypes, Voice!Pcs, Voice!Owners, Voice!LockInv,
        Voice!Undisturbed
<1>11. ASSUME NEW p \in Voice!Processes, Voice!Answers(p) \/ Voice!Dies(p) PROVE Voice!Undisturbed
  BY <1>11 DEF Voice!Answers, Voice!Dies, Voice!worker, Voice!calls, Voice!Types, Voice!RequestTypes,
       Voice!Pcs, Voice!Owners, Voice!LockInv, Voice!Undisturbed
<1>12. CASE Voice!close
  BY <1>12 DEF Voice!close, Voice!worker, Voice!calls, Voice!Types, Voice!RequestTypes, Voice!Pcs,
       Voice!Owners, Voice!LockInv, Voice!Undisturbed
<1>13. CASE UNCHANGED Voice!vars
  BY <1>13 DEF Voice!vars, Voice!Types, Voice!RequestTypes, Voice!Pcs, Voice!Owners, Voice!LockInv,
       Voice!Undisturbed
<1> QED
  BY <1>1, <1>2, <1>3, <1>4, <1>5, <1>6, <1>7, <1>8, <1>9, <1>10, <1>11, <1>12, <1>13 DEF Voice!Next,
       Voice!Call, Voice!Loop

(* ------------------------ an undisturbed r2, step by step ------------------------ *)

\* Who has a running task or thread is alone with it.
LEMMA VoiceOthers ==
  ASSUME Voice!TaskInv, Voice!ThreadInv, NEW r \in SpeechRequests, Voice!Running(r) \/ Voice!Live(r)
  PROVE  /\ Voice!Running(r) /\ r2.close \in {"idle", "shutdown", "gather"}
         /\ \A s \in SpeechRequests \ {r} : r5[s] \in {"none", "ended"} /\ r6[s] \in {"none", "ended"}
<1>1. Voice!Running(r)
  BY DEF Voice!ThreadInv, Voice!Running
<1>2. \A s \in SpeechRequests \ {r} : ~Voice!Running(s)
  BY <1>1 DEF Voice!TaskInv
<1> QED
  BY <1>1, <1>2 DEF Voice!TaskInv, Voice!ThreadInv, Voice!Running, Voice!Live

\* While a request's thread asks, or works at something else, no other thread assigns a process.
LEMMA VoiceOneThread ==
  ASSUME Voice!TaskInv, Voice!ThreadInv
  PROVE  /\ \A r \in SpeechRequests : Voice!Live(r) => Voice!Running(r)
         /\ \A r, s \in SpeechRequests : Voice!Running(r) /\ Voice!Live(s) => r = s
BY DEF Voice!TaskInv, Voice!ThreadInv, Voice!Running


\* One task at a time.
LEMMA VoiceTaskStep == ASSUME MaxProcesses \in Nat, Voice!Nobody \notin SpeechRequests,
              Voice!Types, Voice!LockInv, Voice!CloseInv, Voice!Undisturbed, Voice!Undisturbed',
              Voice!TaskInv, [Voice!Next]_Voice!vars PROVE Voice!TaskInv'
<1>1. ASSUME NEW r \in SpeechRequests, Voice!invoke(r) PROVE Voice!TaskInv'
  <2>1. Voice!At(r, "idle") /\ UNCHANGED <<r1, r2, r5, Voice!worker>>
    BY <1>1 DEF Voice!invoke
  <2>2. CASE (r2.closed \/ r3 # Voice!Nobody) /\ Voice!Req(r, "over") /\ r3' = r3
    BY <2>1, <2>2 DEF Voice!At, Voice!Req, Voice!worker, Voice!Types, Voice!CallTypes, Voice!Owners,
         Voice!RequestTypes, Voice!Pcs, Voice!TaskTypes, Voice!TaskPcs,
          Voice!ThreadPcs, Voice!LockInv, Voice!CloseInv, Voice!TaskInv, Voice!Running, Voice!Undisturbed
  <2>3. CASE ~r2.closed /\ r3 = Voice!Nobody /\ Voice!Req(r, "locked") /\ r3' = r
    BY <2>1, <2>3 DEF Voice!At, Voice!Req, Voice!worker, Voice!Types, Voice!CallTypes, Voice!Owners,
         Voice!RequestTypes, Voice!Pcs, Voice!TaskTypes, Voice!TaskPcs,
          Voice!ThreadPcs, Voice!LockInv, Voice!CloseInv, Voice!TaskInv, Voice!Running, Voice!Undisturbed
  <2> QED
    BY <1>1, <2>2, <2>3 DEF Voice!invoke
<1>2. ASSUME NEW r \in SpeechRequests, Voice!ensure_loop(r) PROVE Voice!TaskInv'
  <2>1. Voice!At(r, "locked") /\ UNCHANGED <<r1, r3, r5, Voice!worker>>
    BY <1>2 DEF Voice!ensure_loop
  <2>2. CASE r2.closed /\ Voice!Req(r, "release") /\ r2' = r2
    BY <2>1, <2>2 DEF Voice!At, Voice!Req, Voice!worker, Voice!Types, Voice!CallTypes, Voice!Owners,
         Voice!RequestTypes, Voice!Pcs, Voice!TaskTypes, Voice!TaskPcs,
          Voice!ThreadPcs, Voice!LockInv, Voice!CloseInv, Voice!TaskInv, Voice!Running, Voice!Undisturbed
  <2>3. CASE ~r2.closed /\ Voice!Req(r, "submit") /\ r2' = [r2 EXCEPT !.loop = "running"]
    BY <2>1, <2>3 DEF Voice!At, Voice!Req, Voice!worker, Voice!Types, Voice!CallTypes, Voice!Owners,
         Voice!RequestTypes, Voice!Pcs, Voice!TaskTypes, Voice!TaskPcs,
          Voice!ThreadPcs, Voice!LockInv, Voice!CloseInv, Voice!TaskInv, Voice!Running, Voice!Undisturbed
  <2> QED
    BY <1>2, <2>2, <2>3 DEF Voice!ensure_loop
<1>3. ASSUME NEW r \in SpeechRequests, Voice!submit(r) PROVE Voice!TaskInv'
  BY <1>3 DEF Voice!submit, Voice!At, Voice!Task, Voice!worker, Voice!Types, Voice!CallTypes, Voice!Owners,
       Voice!RequestTypes, Voice!Pcs, Voice!TaskTypes, Voice!TaskPcs,
        Voice!ThreadPcs, Voice!LockInv, Voice!CloseInv, Voice!TaskInv, Voice!Running, Voice!Undisturbed
<1>4. ASSUME NEW r \in SpeechRequests, Voice!waited(r) PROVE Voice!TaskInv'
  BY <1>4 DEF Voice!waited, Voice!At, Voice!Req, Voice!worker, Voice!Types, Voice!CallTypes, Voice!Owners,
       Voice!RequestTypes, Voice!Pcs, Voice!TaskTypes, Voice!TaskPcs,
        Voice!ThreadPcs, Voice!LockInv, Voice!CloseInv, Voice!TaskInv, Voice!Running, Voice!Undisturbed
<1>5. ASSUME NEW r \in SpeechRequests, Voice!drain(r) PROVE Voice!TaskInv'
  <2>1. UNCHANGED <<r1, r2, r3, Voice!worker>>
    BY <1>5 DEF Voice!drain
  <2>2. CASE /\ Voice!At(r, "wait") /\ Voice!Running(r) /\ r5' = [r5 EXCEPT ![r] = Voice!Cancelled(r)]
             /\ r4' = [r4 EXCEPT ![r].pc = "drain", ![r].twice = @ \/ (r5'[r] = "aclose")]
    BY <2>1, <2>2 DEF Voice!At, Voice!Running, Voice!Cancelled, Voice!worker, Voice!Types, Voice!CallTypes,
         Voice!Owners, Voice!RequestTypes, Voice!Pcs, Voice!TaskTypes,
          Voice!TaskPcs, Voice!ThreadPcs, Voice!LockInv, Voice!CloseInv, Voice!TaskInv, Voice!Undisturbed
  <2>3. CASE Voice!At(r, "drain") /\ r5[r] = "ended" /\ Voice!Req(r, "release") /\ r5' = r5
    BY <2>1, <2>3 DEF Voice!At, Voice!Req, Voice!worker, Voice!Types, Voice!CallTypes, Voice!Owners,
         Voice!RequestTypes, Voice!Pcs, Voice!TaskTypes, Voice!TaskPcs,
          Voice!ThreadPcs, Voice!LockInv, Voice!CloseInv, Voice!TaskInv, Voice!Running, Voice!Undisturbed
  <2> QED
    BY <1>5, <2>2, <2>3 DEF Voice!drain
<1>6. ASSUME NEW r \in SpeechRequests, Voice!release(r) PROVE Voice!TaskInv'
  BY <1>6 DEF Voice!release, Voice!At, Voice!Req, Voice!worker, Voice!Types, Voice!CallTypes, Voice!Owners,
       Voice!RequestTypes, Voice!Pcs, Voice!TaskTypes, Voice!TaskPcs,
        Voice!ThreadPcs, Voice!LockInv, Voice!CloseInv, Voice!TaskInv, Voice!Running, Voice!Undisturbed
<1>7. ASSUME NEW r \in SpeechRequests, Voice!Exchange(r) PROVE Voice!TaskInv'
  <2>1. r1 = "json" /\ Voice!loop(r) /\ UNCHANGED <<r1, r2, r3, r6, r7>>
    BY <1>7 DEF Voice!Exchange
  <2>2. CASE /\ r5[r] = "queued" /\ r8 = 0 /\ Voice!Spawns /\ r8' = r11' /\ Voice!Task(r, "ready")
             /\ UNCHANGED <<r10, r4>>
    BY <2>1, <2>2 DEF Voice!loop, Voice!Spawns, Voice!Task, Voice!Processes, Voice!NoPipe, Voice!Running,
         Voice!Types, Voice!CallTypes, Voice!Owners, Voice!RequestTypes,
          Voice!Pcs, Voice!TaskTypes, Voice!TaskPcs, Voice!ThreadPcs, Voice!LockInv, Voice!CloseInv,
          Voice!TaskInv, Voice!Undisturbed
  <2>3. CASE /\ r5[r] \in {"queued", "ready"} /\ r8 # 0 /\ r8 \in r9 /\ Voice!Written(r, r8)
             /\ Voice!Task(r, "asked") /\ UNCHANGED <<r8, r9, r11, r4>>
    BY <2>1, <2>3 DEF Voice!loop, Voice!Written, Voice!Task, Voice!Processes, Voice!NoPipe, Voice!Running,
         Voice!Types, Voice!CallTypes, Voice!Owners, Voice!RequestTypes,
          Voice!Pcs, Voice!TaskTypes, Voice!TaskPcs, Voice!ThreadPcs, Voice!LockInv, Voice!CloseInv,
          Voice!TaskInv, Voice!Undisturbed
  <2>4. CASE /\ r5[r] = "asked" /\ r8 # 0 /\ Voice!Takes(r, r8) /\ Voice!Task(r, "ended")
             /\ UNCHANGED <<r8, r9, r11>>
    BY <2>1, <2>4 DEF Voice!loop, Voice!Takes, Voice!Task, Voice!Processes, Voice!NoPipe, Voice!Running,
         Voice!Types, Voice!CallTypes, Voice!Owners, Voice!RequestTypes,
          Voice!Pcs, Voice!TaskTypes, Voice!TaskPcs, Voice!ThreadPcs, Voice!LockInv, Voice!CloseInv,
          Voice!TaskInv, Voice!Undisturbed
  <2> QED
    BY <1>7, <2>2, <2>3, <2>4 DEF Voice!Exchange
<1>8. ASSUME NEW r \in SpeechRequests, Voice!Raises(r) PROVE Voice!TaskInv'
  BY <1>8 DEF Voice!Raises, Voice!loop, Voice!Running, Voice!Task, Voice!calls, Voice!worker, Voice!Types,
       Voice!CallTypes, Voice!Owners, Voice!RequestTypes, Voice!Pcs,
        Voice!TaskTypes, Voice!TaskPcs, Voice!ThreadPcs, Voice!LockInv, Voice!CloseInv, Voice!TaskInv,
        Voice!Undisturbed
<1>9. ASSUME NEW r \in SpeechRequests, Voice!aclose(r) PROVE Voice!TaskInv'
  BY <1>9 DEF Voice!aclose, Voice!loop, Voice!Running, Voice!Task, Voice!calls, Voice!Types,
       Voice!CallTypes, Voice!Owners, Voice!RequestTypes, Voice!Pcs, Voice!TaskTypes,
        Voice!TaskPcs, Voice!ThreadPcs, Voice!LockInv, Voice!CloseInv, Voice!TaskInv, Voice!Undisturbed
<1>10. ASSUME NEW r \in SpeechRequests, Voice!transcribe(r) PROVE Voice!TaskInv'
  <2>1. r1 = "sherpa" /\ Voice!loop(r) /\ UNCHANGED <<Voice!calls, r7, r8, r9, r10, r11>>
    BY <1>10 DEF Voice!transcribe
  <2>2. CASE r5[r] = "queued" /\ Voice!Task(r, "shield") /\ Voice!Thread(r, "check")
    BY <2>1, <2>2 DEF Voice!loop, Voice!Task, Voice!Thread, Voice!calls, Voice!Running, Voice!Types,
         Voice!CallTypes, Voice!Owners, Voice!RequestTypes, Voice!Pcs,
          Voice!TaskTypes, Voice!TaskPcs, Voice!ThreadPcs, Voice!LockInv, Voice!CloseInv, Voice!TaskInv,
          Voice!Undisturbed
  <2>3. CASE r5[r] = "shield" /\ r6[r] = "ended" /\ Voice!Task(r, "ended") /\ r6' = r6
    BY <2>1, <2>3 DEF Voice!loop, Voice!Task, Voice!calls, Voice!Running, Voice!Types, Voice!CallTypes,
         Voice!Owners, Voice!RequestTypes, Voice!Pcs, Voice!TaskTypes,
          Voice!TaskPcs, Voice!ThreadPcs, Voice!LockInv, Voice!CloseInv, Voice!TaskInv, Voice!Undisturbed
  <2>4. CASE r5[r] = "shield" /\ Voice!Task(r, "raise") /\ r6' = r6
    BY <2>1, <2>4 DEF Voice!loop, Voice!Task, Voice!calls, Voice!Running, Voice!Types, Voice!CallTypes,
         Voice!Owners, Voice!RequestTypes, Voice!Pcs, Voice!TaskTypes,
          Voice!TaskPcs, Voice!ThreadPcs, Voice!LockInv, Voice!CloseInv, Voice!TaskInv, Voice!Undisturbed
  <2> QED
    BY <1>10, <2>2, <2>3, <2>4 DEF Voice!transcribe
<1>11. ASSUME NEW r \in SpeechRequests, Voice!kill(r) PROVE Voice!TaskInv'
  <2>1. r1 = "sherpa" /\ Voice!loop(r) /\ UNCHANGED <<Voice!calls, r6, r10, r11>>
    BY <1>11 DEF Voice!kill
  <2>2. CASE r5[r] = "raise" /\ r6[r] = "none" /\ Voice!Task(r, "ended") /\ UNCHANGED <<r7, r8, r9>>
    BY <2>1, <2>2 DEF Voice!loop, Voice!Task, Voice!calls, Voice!Running, Voice!Types, Voice!CallTypes,
         Voice!Owners, Voice!RequestTypes, Voice!Pcs, Voice!TaskTypes,
          Voice!TaskPcs, Voice!ThreadPcs, Voice!LockInv, Voice!CloseInv, Voice!TaskInv, Voice!Undisturbed
  <2>3. CASE /\ r5[r] = "raise" /\ r6[r] # "none" /\ r7' = [r7 EXCEPT ![r] = TRUE] /\ Voice!Task(r, "kill")
             /\ UNCHANGED <<r8, r9>>
    BY <2>1, <2>3 DEF Voice!loop, Voice!Task, Voice!calls, Voice!Running, Voice!Types, Voice!CallTypes,
         Voice!Owners, Voice!RequestTypes, Voice!Pcs, Voice!TaskTypes,
          Voice!TaskPcs, Voice!ThreadPcs, Voice!LockInv, Voice!CloseInv, Voice!TaskInv, Voice!Undisturbed
  <2>4. CASE r5[r] = "kill" /\ r9' = r9 \ {r8} /\ Voice!Task(r, "gather") /\ UNCHANGED <<r7, r8>>
    BY <2>1, <2>4 DEF Voice!loop, Voice!Task, Voice!calls, Voice!Running, Voice!Types, Voice!CallTypes,
         Voice!Owners, Voice!RequestTypes, Voice!Pcs, Voice!TaskTypes,
          Voice!TaskPcs, Voice!ThreadPcs, Voice!LockInv, Voice!CloseInv, Voice!TaskInv, Voice!Undisturbed
  <2>5. CASE r5[r] = "gather" /\ r6[r] = "ended" /\ Voice!Task(r, "aclose") /\ UNCHANGED <<r7, r8, r9>>
    BY <2>1, <2>5 DEF Voice!loop, Voice!Task, Voice!calls, Voice!Running, Voice!Types, Voice!CallTypes,
         Voice!Owners, Voice!RequestTypes, Voice!Pcs, Voice!TaskTypes,
          Voice!TaskPcs, Voice!ThreadPcs, Voice!LockInv, Voice!CloseInv, Voice!TaskInv, Voice!Undisturbed
  <2>6. CASE /\ r5[r] = "aclose" /\ r8' = 0 /\ r9' = r9 \ {r8} /\ Voice!Task(r, "ended")
             /\ r7' = r7
    BY <2>1, <2>6 DEF Voice!loop, Voice!Task, Voice!calls, Voice!Running, Voice!Types, Voice!CallTypes,
         Voice!Owners, Voice!RequestTypes, Voice!Pcs, Voice!TaskTypes,
          Voice!TaskPcs, Voice!ThreadPcs, Voice!LockInv, Voice!CloseInv, Voice!TaskInv, Voice!Undisturbed
  <2> QED
    BY <1>11, <2>2, <2>3, <2>4, <2>5, <2>6 DEF Voice!kill
<1>12. ASSUME NEW r \in SpeechRequests, Voice!exchange(r) PROVE Voice!TaskInv'
  <2>1. UNCHANGED <<r1, r2, r3, r5, r7>>
    BY <1>12 DEF Voice!exchange
  <2>2. CASE /\ r6[r] = "read" /\ r8 # 0 /\ Voice!Takes(r, r8) /\ Voice!Thread(r, "ended")
             /\ UNCHANGED <<r8, r9, r11>>
    BY <2>1, <2>2 DEF Voice!Thread, Voice!Takes, Voice!Processes, Voice!NoPipe, Voice!Types,
         Voice!CallTypes, Voice!Owners, Voice!RequestTypes, Voice!Pcs,
          Voice!TaskTypes, Voice!TaskPcs, Voice!ThreadPcs, Voice!LockInv, Voice!CloseInv, Voice!TaskInv,
          Voice!Running, Voice!Undisturbed
  <2>3. CASE r4' = r4
    BY <2>1, <2>3 DEF Voice!calls, Voice!worker, Voice!Types, Voice!CallTypes, Voice!Owners,
         Voice!RequestTypes, Voice!Pcs, Voice!TaskTypes, Voice!TaskPcs,
          Voice!ThreadPcs, Voice!LockInv, Voice!CloseInv, Voice!TaskInv, Voice!Running, Voice!Undisturbed
  <2> QED
    BY <1>12, <2>2, <2>3 DEF Voice!exchange, Voice!Thread, Voice!Spawns, Voice!Written, Voice!Takes
<1>13. CASE Voice!close
  BY <1>13 DEF Voice!close, Voice!worker, Voice!Types, Voice!CallTypes, Voice!Owners, Voice!RequestTypes,
       Voice!Pcs, Voice!TaskTypes, Voice!TaskPcs, Voice!ThreadPcs,
        Voice!LockInv, Voice!CloseInv, Voice!TaskInv, Voice!Running, Voice!Undisturbed
<1>14. CASE Voice!shutdown
  <2>1. UNCHANGED <<r1, r3, r6, r7, r10, r11>>
    BY <1>14 DEF Voice!shutdown
  <2>2. CASE /\ r2.close = "shutdown" /\ r2' = [r2 EXCEPT !.close = "gather"]
             /\ r5' = [r \in SpeechRequests |-> Voice!Cancelled(r)]
             /\ r4' = [r \in SpeechRequests |-> [r4[r] EXCEPT !.pc = IF @ = "drain" THEN "release" ELSE @,
                                                                !.twice = @ \/ (r5[r] = "gather")]]
             /\ UNCHANGED <<r8, r9>>
    BY <2>1, <2>2 DEF Voice!Cancelled, Voice!Running, Voice!Types, Voice!CallTypes, Voice!Owners,
         Voice!RequestTypes, Voice!Pcs, Voice!TaskTypes, Voice!TaskPcs,
          Voice!ThreadPcs, Voice!LockInv, Voice!CloseInv, Voice!TaskInv, Voice!Undisturbed
  <2>3. CASE /\ r2.close = "gather" /\ \A r \in SpeechRequests : Voice!Running(r) => r4[r].late
             /\ r2' = [r2 EXCEPT !.close = "stop"] /\ r8' = 0 /\ r9' = r9 \ {r8}
             /\ UNCHANGED <<r4, r5>>
    BY <2>1, <2>3 DEF Voice!Running, Voice!Types, Voice!CallTypes, Voice!Owners, Voice!RequestTypes,
         Voice!Pcs, Voice!TaskTypes, Voice!TaskPcs, Voice!ThreadPcs,
          Voice!LockInv, Voice!CloseInv, Voice!TaskInv, Voice!Undisturbed
  <2>4. CASE /\ r2.close = "stop" /\ r2' = [r2 EXCEPT !.close = "join", !.loop = "stopped"]
             /\ UNCHANGED <<r4, r5, r8, r9>>
    BY <2>1, <2>4 DEF Voice!Types, Voice!CallTypes, Voice!Owners, Voice!RequestTypes, Voice!Pcs,
         Voice!TaskTypes, Voice!TaskPcs, Voice!ThreadPcs, Voice!LockInv,
          Voice!CloseInv, Voice!TaskInv, Voice!Running, Voice!Undisturbed
  <2>5. CASE /\ r2.close = "join" /\ r2' = [r2 EXCEPT !.close = "returned", !.loop = "closed"]
             /\ UNCHANGED <<r4, r5, r8, r9>>
    BY <2>1, <2>5 DEF Voice!Types, Voice!CallTypes, Voice!Owners, Voice!RequestTypes, Voice!Pcs,
         Voice!TaskTypes, Voice!TaskPcs, Voice!ThreadPcs, Voice!LockInv,
          Voice!CloseInv, Voice!TaskInv, Voice!Running, Voice!Undisturbed
  <2> QED
    BY <1>14, <2>2, <2>3, <2>4, <2>5 DEF Voice!shutdown
<1>15. ASSUME NEW p \in Voice!Processes, Voice!Answers(p) \/ Voice!Dies(p) PROVE Voice!TaskInv'
  BY <1>15 DEF Voice!Answers, Voice!Dies, Voice!worker, Voice!calls, Voice!Types, Voice!CallTypes,
       Voice!Owners, Voice!RequestTypes, Voice!Pcs, Voice!TaskTypes, Voice!TaskPcs,
        Voice!ThreadPcs, Voice!LockInv, Voice!CloseInv, Voice!TaskInv, Voice!Running, Voice!Undisturbed
<1>16. CASE UNCHANGED Voice!vars
  BY <1>16 DEF Voice!vars, Voice!Types, Voice!CallTypes, Voice!Owners, Voice!RequestTypes, Voice!Pcs,
       Voice!TaskTypes, Voice!TaskPcs, Voice!ThreadPcs, Voice!LockInv,
        Voice!CloseInv, Voice!TaskInv, Voice!Running, Voice!Undisturbed
<1> QED
  BY <1>1, <1>2, <1>3, <1>4, <1>5, <1>6, <1>7, <1>8, <1>9, <1>10, <1>11, <1>12, <1>13, <1>14, <1>15,
       <1>16 DEF
        Voice!Next, Voice!Call, Voice!Loop

\* Threads are waited for.
LEMMA VoiceThreadStep == ASSUME MaxProcesses \in Nat, Voice!Nobody \notin SpeechRequests,
              Voice!Types, Voice!LockInv, Voice!CloseInv, Voice!Undisturbed, Voice!Undisturbed',
              Voice!TaskInv, Voice!ThreadInv, [Voice!Next]_Voice!vars PROVE Voice!ThreadInv'
<1>1. ASSUME NEW r \in SpeechRequests, Voice!submit(r) PROVE Voice!ThreadInv'
  BY <1>1 DEF Voice!submit, Voice!At, Voice!Task, Voice!worker, Voice!Types, Voice!CallTypes, Voice!Owners,
       Voice!RequestTypes, Voice!Pcs, Voice!TaskTypes, Voice!TaskPcs,
        Voice!ThreadPcs, Voice!TaskInv, Voice!ThreadInv, Voice!Running, Voice!Live, Voice!Undisturbed
<1>2. ASSUME NEW r \in SpeechRequests, Voice!drain(r) PROVE Voice!ThreadInv'
  <2>1. UNCHANGED <<r1, r2, r3, Voice!worker>>
    BY <1>2 DEF Voice!drain
  <2>2. CASE /\ Voice!At(r, "wait") /\ Voice!Running(r) /\ r5' = [r5 EXCEPT ![r] = Voice!Cancelled(r)]
             /\ r4' = [r4 EXCEPT ![r].pc = "drain", ![r].twice = @ \/ (r5'[r] = "aclose")]
    BY <2>1, <2>2 DEF Voice!At, Voice!Running, Voice!Cancelled, Voice!worker, Voice!Types, Voice!CallTypes,
         Voice!Owners, Voice!RequestTypes, Voice!Pcs, Voice!TaskTypes,
          Voice!TaskPcs, Voice!ThreadPcs, Voice!TaskInv, Voice!ThreadInv, Voice!Live, Voice!Undisturbed
  <2>3. CASE r5' = r5
    BY <2>1, <2>3 DEF Voice!calls, Voice!worker, Voice!Types, Voice!CallTypes, Voice!Owners,
         Voice!RequestTypes, Voice!Pcs, Voice!TaskTypes, Voice!TaskPcs,
          Voice!ThreadPcs, Voice!TaskInv, Voice!ThreadInv, Voice!Running, Voice!Live, Voice!Undisturbed
  <2> QED
    BY <1>2, <2>2, <2>3 DEF Voice!drain
<1>3. ASSUME NEW r \in SpeechRequests, Voice!Exchange(r) PROVE Voice!ThreadInv'
  <2>1. r1 = "json" /\ Voice!loop(r) /\ UNCHANGED <<r1, r2, r3, r6, r7>>
    BY <1>3 DEF Voice!Exchange
  <2>2. CASE /\ r5[r] = "queued" /\ r8 = 0 /\ Voice!Spawns /\ r8' = r11' /\ Voice!Task(r, "ready")
             /\ UNCHANGED <<r10, r4>>
    BY <2>1, <2>2 DEF Voice!loop, Voice!Spawns, Voice!Task, Voice!Processes, Voice!NoPipe, Voice!Running,
         Voice!Types, Voice!CallTypes, Voice!Owners, Voice!RequestTypes,
          Voice!Pcs, Voice!TaskTypes, Voice!TaskPcs, Voice!ThreadPcs, Voice!TaskInv, Voice!ThreadInv,
          Voice!Live, Voice!Undisturbed
  <2>3. CASE /\ r5[r] \in {"queued", "ready"} /\ r8 # 0 /\ r8 \in r9 /\ Voice!Written(r, r8)
             /\ Voice!Task(r, "asked") /\ UNCHANGED <<r8, r9, r11, r4>>
    BY <2>1, <2>3 DEF Voice!loop, Voice!Written, Voice!Task, Voice!Processes, Voice!NoPipe, Voice!Running,
         Voice!Types, Voice!CallTypes, Voice!Owners, Voice!RequestTypes,
          Voice!Pcs, Voice!TaskTypes, Voice!TaskPcs, Voice!ThreadPcs, Voice!TaskInv, Voice!ThreadInv,
          Voice!Live, Voice!Undisturbed
  <2>4. CASE /\ r5[r] = "asked" /\ r8 # 0 /\ Voice!Takes(r, r8) /\ Voice!Task(r, "ended")
             /\ UNCHANGED <<r8, r9, r11>>
    BY <2>1, <2>4 DEF Voice!loop, Voice!Takes, Voice!Task, Voice!Processes, Voice!NoPipe, Voice!Running,
         Voice!Types, Voice!CallTypes, Voice!Owners, Voice!RequestTypes,
          Voice!Pcs, Voice!TaskTypes, Voice!TaskPcs, Voice!ThreadPcs, Voice!TaskInv, Voice!ThreadInv,
          Voice!Live, Voice!Undisturbed
  <2> QED
    BY <1>3, <2>2, <2>3, <2>4 DEF Voice!Exchange
<1>4. ASSUME NEW r \in SpeechRequests, Voice!Raises(r) PROVE Voice!ThreadInv'
  BY <1>4 DEF Voice!Raises, Voice!loop, Voice!Running, Voice!Task, Voice!calls, Voice!worker, Voice!Types,
       Voice!CallTypes, Voice!Owners, Voice!RequestTypes, Voice!Pcs,
        Voice!TaskTypes, Voice!TaskPcs, Voice!ThreadPcs, Voice!TaskInv, Voice!ThreadInv, Voice!Live,
        Voice!Undisturbed
<1>5. ASSUME NEW r \in SpeechRequests, Voice!aclose(r) PROVE Voice!ThreadInv'
  BY <1>5 DEF Voice!aclose, Voice!loop, Voice!Running, Voice!Task, Voice!calls, Voice!Types,
       Voice!CallTypes, Voice!Owners, Voice!RequestTypes, Voice!Pcs, Voice!TaskTypes,
        Voice!TaskPcs, Voice!ThreadPcs, Voice!TaskInv, Voice!ThreadInv, Voice!Live, Voice!Undisturbed
<1>6. ASSUME NEW r \in SpeechRequests, Voice!transcribe(r) PROVE Voice!ThreadInv'
  <2>1. r1 = "sherpa" /\ Voice!loop(r) /\ UNCHANGED <<Voice!calls, r7, r8, r9, r10, r11>>
    BY <1>6 DEF Voice!transcribe
  <2>2. CASE r5[r] = "queued" /\ Voice!Task(r, "shield") /\ Voice!Thread(r, "check")
    BY <2>1, <2>2 DEF Voice!loop, Voice!Task, Voice!Thread, Voice!calls, Voice!Running, Voice!Types,
         Voice!CallTypes, Voice!Owners, Voice!RequestTypes, Voice!Pcs,
          Voice!TaskTypes, Voice!TaskPcs, Voice!ThreadPcs, Voice!TaskInv, Voice!ThreadInv, Voice!Live,
          Voice!Undisturbed
  <2>3. CASE r5[r] = "shield" /\ r6[r] = "ended" /\ Voice!Task(r, "ended") /\ r6' = r6
    BY <2>1, <2>3 DEF Voice!loop, Voice!Task, Voice!calls, Voice!Running, Voice!Types, Voice!CallTypes,
         Voice!Owners, Voice!RequestTypes, Voice!Pcs, Voice!TaskTypes,
          Voice!TaskPcs, Voice!ThreadPcs, Voice!TaskInv, Voice!ThreadInv, Voice!Live, Voice!Undisturbed
  <2>4. CASE r5[r] = "shield" /\ Voice!Task(r, "raise") /\ r6' = r6
    BY <2>1, <2>4 DEF Voice!loop, Voice!Task, Voice!calls, Voice!Running, Voice!Types, Voice!CallTypes,
         Voice!Owners, Voice!RequestTypes, Voice!Pcs, Voice!TaskTypes,
          Voice!TaskPcs, Voice!ThreadPcs, Voice!TaskInv, Voice!ThreadInv, Voice!Live, Voice!Undisturbed
  <2> QED
    BY <1>6, <2>2, <2>3, <2>4 DEF Voice!transcribe
<1>7. ASSUME NEW r \in SpeechRequests, Voice!kill(r) PROVE Voice!ThreadInv'
  <2>1. r1 = "sherpa" /\ Voice!loop(r) /\ UNCHANGED <<Voice!calls, r6, r10, r11>>
    BY <1>7 DEF Voice!kill
  <2>2. CASE r5[r] = "raise" /\ r6[r] = "none" /\ Voice!Task(r, "ended") /\ UNCHANGED <<r7, r8, r9>>
    BY <2>1, <2>2 DEF Voice!loop, Voice!Task, Voice!calls, Voice!Running, Voice!Types, Voice!CallTypes,
         Voice!Owners, Voice!RequestTypes, Voice!Pcs, Voice!TaskTypes,
          Voice!TaskPcs, Voice!ThreadPcs, Voice!TaskInv, Voice!ThreadInv, Voice!Live, Voice!Undisturbed
  <2>3. CASE /\ r5[r] = "raise" /\ r6[r] # "none" /\ r7' = [r7 EXCEPT ![r] = TRUE] /\ Voice!Task(r, "kill")
             /\ UNCHANGED <<r8, r9>>
    BY <2>1, <2>3 DEF Voice!loop, Voice!Task, Voice!calls, Voice!Running, Voice!Types, Voice!CallTypes,
         Voice!Owners, Voice!RequestTypes, Voice!Pcs, Voice!TaskTypes,
          Voice!TaskPcs, Voice!ThreadPcs, Voice!TaskInv, Voice!ThreadInv, Voice!Live, Voice!Undisturbed
  <2>4. CASE r5[r] = "kill" /\ r9' = r9 \ {r8} /\ Voice!Task(r, "gather") /\ UNCHANGED <<r7, r8>>
    BY <2>1, <2>4 DEF Voice!loop, Voice!Task, Voice!calls, Voice!Running, Voice!Types, Voice!CallTypes,
         Voice!Owners, Voice!RequestTypes, Voice!Pcs, Voice!TaskTypes,
          Voice!TaskPcs, Voice!ThreadPcs, Voice!TaskInv, Voice!ThreadInv, Voice!Live, Voice!Undisturbed
  <2>5. CASE r5[r] = "gather" /\ r6[r] = "ended" /\ Voice!Task(r, "aclose") /\ UNCHANGED <<r7, r8, r9>>
    BY <2>1, <2>5 DEF Voice!loop, Voice!Task, Voice!calls, Voice!Running, Voice!Types, Voice!CallTypes,
         Voice!Owners, Voice!RequestTypes, Voice!Pcs, Voice!TaskTypes,
          Voice!TaskPcs, Voice!ThreadPcs, Voice!TaskInv, Voice!ThreadInv, Voice!Live, Voice!Undisturbed
  <2>6. CASE /\ r5[r] = "aclose" /\ r8' = 0 /\ r9' = r9 \ {r8} /\ Voice!Task(r, "ended")
             /\ r7' = r7
    BY <2>1, <2>6 DEF Voice!loop, Voice!Task, Voice!calls, Voice!Running, Voice!Types, Voice!CallTypes,
         Voice!Owners, Voice!RequestTypes, Voice!Pcs, Voice!TaskTypes,
          Voice!TaskPcs, Voice!ThreadPcs, Voice!TaskInv, Voice!ThreadInv, Voice!Live, Voice!Undisturbed
  <2> QED
    BY <1>7, <2>2, <2>3, <2>4, <2>5, <2>6 DEF Voice!kill
<1>8. ASSUME NEW r \in SpeechRequests, Voice!exchange(r) PROVE Voice!ThreadInv'
  <2>1. UNCHANGED <<r1, r2, r3, r5, r7>>
    BY <1>8 DEF Voice!exchange
  <2>2. CASE /\ r6[r] \in {"check", "check2", "check3"} /\ UNCHANGED <<r4, r8, r9, r10, r11>>
             /\ \E pc \in {"close", "popen", "check3", "handshake", "write"} :
                  /\ Voice!Thread(r, pc) /\ (pc = "popen" => r8 = 0)
                  /\ pc = "check3" => r8 # 0
                  /\ pc \in {"handshake", "write"} => r6[r] \in {"check2", "check3"}
    BY <2>1, <2>2 DEF Voice!Thread, Voice!Types, Voice!CallTypes, Voice!Owners, Voice!RequestTypes,
         Voice!Pcs, Voice!TaskTypes, Voice!TaskPcs, Voice!ThreadPcs,
          Voice!TaskInv, Voice!ThreadInv, Voice!Running, Voice!Live, Voice!Undisturbed
  <2>3. CASE r6[r] = "popen" /\ Voice!Spawns /\ Voice!Thread(r, "assign") /\ UNCHANGED <<r4, r8, r10>>
    BY <2>1, <2>3 DEF Voice!Thread, Voice!Spawns, Voice!Processes, Voice!NoPipe, Voice!Types,
         Voice!CallTypes, Voice!Owners, Voice!RequestTypes, Voice!Pcs,
          Voice!TaskTypes, Voice!TaskPcs, Voice!ThreadPcs, Voice!TaskInv, Voice!ThreadInv, Voice!Running,
          Voice!Live, Voice!Undisturbed
  <2>4. CASE r6[r] = "popen" /\ Voice!Thread(r, "close") /\ UNCHANGED <<r4, r8, r9, r10, r11>>
    BY <2>1, <2>4 DEF Voice!Thread, Voice!Types, Voice!CallTypes, Voice!Owners, Voice!RequestTypes,
         Voice!Pcs, Voice!TaskTypes, Voice!TaskPcs, Voice!ThreadPcs,
          Voice!TaskInv, Voice!ThreadInv, Voice!Running, Voice!Live, Voice!Undisturbed
  <2>5. CASE r6[r] = "assign" /\ r8' = r11 /\ Voice!Thread(r, "check2") /\ UNCHANGED <<r4, r9, r10, r11>>
    BY <2>1, <2>5 DEF Voice!Thread, Voice!Types, Voice!CallTypes, Voice!Owners, Voice!RequestTypes,
         Voice!Pcs, Voice!TaskTypes, Voice!TaskPcs, Voice!ThreadPcs,
          Voice!TaskInv, Voice!ThreadInv, Voice!Running, Voice!Live, Voice!Undisturbed
  <2>6. CASE r6[r] = "handshake" /\ Voice!Thread(r, "check3") /\ UNCHANGED <<r4, r8, r9, r10, r11>>
    BY <2>1, <2>6 DEF Voice!Thread, Voice!Types, Voice!CallTypes, Voice!Owners, Voice!RequestTypes,
         Voice!Pcs, Voice!TaskTypes, Voice!TaskPcs, Voice!ThreadPcs,
          Voice!TaskInv, Voice!ThreadInv, Voice!Running, Voice!Live, Voice!Undisturbed
  <2>7. CASE /\ r6[r] = "write" /\ r8 \in r9 /\ Voice!Written(r, r8) /\ Voice!Thread(r, "read")
             /\ UNCHANGED <<r4, r8, r9, r11>>
    BY <2>1, <2>7 DEF Voice!Thread, Voice!Written, Voice!Processes, Voice!NoPipe, Voice!Types,
         Voice!CallTypes, Voice!Owners, Voice!RequestTypes, Voice!Pcs,
          Voice!TaskTypes, Voice!TaskPcs, Voice!ThreadPcs, Voice!TaskInv, Voice!ThreadInv, Voice!Running,
          Voice!Live, Voice!Undisturbed
  <2>8. CASE /\ r6[r] = "read" /\ r8 # 0 /\ Voice!Takes(r, r8) /\ Voice!Thread(r, "ended")
             /\ UNCHANGED <<r8, r9, r11>>
    BY <2>1, <2>8 DEF Voice!Thread, Voice!Takes, Voice!Processes, Voice!NoPipe, Voice!Types,
         Voice!CallTypes, Voice!Owners, Voice!RequestTypes, Voice!Pcs,
          Voice!TaskTypes, Voice!TaskPcs, Voice!ThreadPcs, Voice!TaskInv, Voice!ThreadInv, Voice!Running,
          Voice!Live, Voice!Undisturbed
  <2>9. CASE /\ r6[r] \in {"handshake", "write", "read"} /\ Voice!Thread(r, "close")
             /\ UNCHANGED <<r4, r8, r9, r10, r11>>
    BY <2>1, <2>9 DEF Voice!Thread, Voice!Types, Voice!CallTypes, Voice!Owners, Voice!RequestTypes,
         Voice!Pcs, Voice!TaskTypes, Voice!TaskPcs, Voice!ThreadPcs,
          Voice!TaskInv, Voice!ThreadInv, Voice!Running, Voice!Live, Voice!Undisturbed
  <2>10. CASE /\ r6[r] = "close" /\ r8' = 0 /\ r9' = r9 \ {r8} /\ Voice!Thread(r, "ended")
              /\ UNCHANGED <<r4, r10, r11>>
    BY <2>1, <2>10 DEF Voice!Thread, Voice!Types, Voice!CallTypes, Voice!Owners, Voice!RequestTypes,
         Voice!Pcs, Voice!TaskTypes, Voice!TaskPcs, Voice!ThreadPcs,
          Voice!TaskInv, Voice!ThreadInv, Voice!Running, Voice!Live, Voice!Undisturbed
  <2> QED
    BY <1>8, <2>2, <2>3, <2>4, <2>5, <2>6, <2>7, <2>8, <2>9, <2>10 DEF Voice!exchange, Voice!Thread,
         Voice!Spawns, Voice!Written,
          Voice!Takes
<1>9. CASE Voice!shutdown
  <2>1. UNCHANGED <<r1, r3, r6, r7, r10, r11>>
    BY <1>9 DEF Voice!shutdown
  <2>2. CASE /\ r2.close = "shutdown" /\ r2' = [r2 EXCEPT !.close = "gather"]
             /\ r5' = [r \in SpeechRequests |-> Voice!Cancelled(r)]
             /\ r4' = [r \in SpeechRequests |-> [r4[r] EXCEPT !.pc = IF @ = "drain" THEN "release" ELSE @,
                                                                !.twice = @ \/ (r5[r] = "gather")]]
             /\ UNCHANGED <<r8, r9>>
    BY <2>1, <2>2 DEF Voice!Cancelled, Voice!Running, Voice!Types, Voice!CallTypes, Voice!Owners,
         Voice!RequestTypes, Voice!Pcs, Voice!TaskTypes, Voice!TaskPcs,
          Voice!ThreadPcs, Voice!TaskInv, Voice!ThreadInv, Voice!Live, Voice!Undisturbed
  <2>3. CASE r5' = r5
    BY <2>1, <2>3 DEF Voice!calls, Voice!worker, Voice!Types, Voice!CallTypes, Voice!Owners,
         Voice!RequestTypes, Voice!Pcs, Voice!TaskTypes, Voice!TaskPcs,
          Voice!ThreadPcs, Voice!TaskInv, Voice!ThreadInv, Voice!Running, Voice!Live, Voice!Undisturbed
  <2> QED
    BY <1>9, <2>2, <2>3 DEF Voice!shutdown
<1>10. ASSUME NEW r \in SpeechRequests,
     Voice!invoke(r) \/ Voice!ensure_loop(r) \/ Voice!waited(r) \/ Voice!release(r) PROVE Voice!ThreadInv'
  BY <1>10 DEF Voice!invoke, Voice!ensure_loop, Voice!waited, Voice!release, Voice!worker, Voice!calls,
       Voice!Types, Voice!CallTypes, Voice!Owners, Voice!RequestTypes,
        Voice!Pcs, Voice!TaskTypes, Voice!TaskPcs, Voice!ThreadPcs, Voice!TaskInv, Voice!ThreadInv,
        Voice!Running, Voice!Live, Voice!Undisturbed
<1>11. ASSUME NEW p \in Voice!Processes, Voice!Answers(p) \/ Voice!Dies(p) PROVE Voice!ThreadInv'
  BY <1>11 DEF Voice!Answers, Voice!Dies, Voice!worker, Voice!calls, Voice!Types, Voice!CallTypes,
       Voice!Owners, Voice!RequestTypes, Voice!Pcs, Voice!TaskTypes, Voice!TaskPcs,
        Voice!ThreadPcs, Voice!TaskInv, Voice!ThreadInv, Voice!Running, Voice!Live, Voice!Undisturbed
<1>12. CASE Voice!close
  BY <1>12 DEF Voice!close, Voice!worker, Voice!calls, Voice!Types, Voice!CallTypes, Voice!Owners,
       Voice!RequestTypes, Voice!Pcs, Voice!TaskTypes, Voice!TaskPcs,
        Voice!ThreadPcs, Voice!TaskInv, Voice!ThreadInv, Voice!Running, Voice!Live, Voice!Undisturbed
<1>13. CASE UNCHANGED Voice!vars
  BY <1>13 DEF Voice!vars, Voice!Types, Voice!CallTypes, Voice!Owners, Voice!RequestTypes, Voice!Pcs,
       Voice!TaskTypes, Voice!TaskPcs, Voice!ThreadPcs, Voice!TaskInv,
        Voice!ThreadInv, Voice!Running, Voice!Live, Voice!Undisturbed
<1> QED
  BY <1>1, <1>2, <1>3, <1>4, <1>5, <1>6, <1>7, <1>8, <1>9, <1>10, <1>11, <1>12, <1>13 DEF Voice!Next,
       Voice!Call, Voice!Loop

\* Processes are the adapter's.
LEMMA VoiceProcessStep == ASSUME MaxProcesses \in Nat, Voice!Nobody \notin SpeechRequests,
              Voice!Types, Voice!LockInv, Voice!CloseInv, Voice!Undisturbed, Voice!Undisturbed',
              Voice!TaskInv, Voice!ThreadInv, Voice!ProcessInv, [Voice!Next]_Voice!vars
              PROVE Voice!ProcessInv'
<1>1. ASSUME NEW r \in SpeechRequests, Voice!ensure_loop(r) PROVE Voice!ProcessInv'
  <2>1. Voice!At(r, "locked") /\ UNCHANGED <<r1, r3, r5, Voice!worker>>
    BY <1>1 DEF Voice!ensure_loop
  <2>2. CASE ~r2.closed /\ Voice!Req(r, "submit") /\ r2' = [r2 EXCEPT !.loop = "running"]
    BY VoiceOneThread, <2>1, <2>2 DEF Voice!At, Voice!Req, Voice!worker, Voice!Types, Voice!CallTypes,
         Voice!Owners, Voice!RequestTypes, Voice!Pcs, Voice!TaskTypes,
               Voice!TaskPcs, Voice!ThreadPcs, Voice!ProcessTypes, Voice!ProcessInv, Voice!Assigning,
               Voice!Live, Voice!ThreadInv, Voice!CloseInv
  <2>3. CASE r2' = r2
    BY VoiceOneThread, <2>1, <2>3 DEF Voice!calls, Voice!worker, Voice!Types, Voice!CallTypes,
         Voice!Owners, Voice!RequestTypes, Voice!Pcs, Voice!TaskTypes,
               Voice!TaskPcs, Voice!ThreadPcs, Voice!ProcessTypes, Voice!ProcessInv, Voice!Assigning,
               Voice!Live, Voice!ThreadInv, Voice!CloseInv
  <2> QED
    BY <1>1, <2>2, <2>3 DEF Voice!ensure_loop
<1>2. ASSUME NEW r \in SpeechRequests, Voice!submit(r) PROVE Voice!ProcessInv'
  BY VoiceOneThread, <1>2 DEF Voice!submit, Voice!At, Voice!Task, Voice!worker, Voice!Types,
       Voice!CallTypes, Voice!Owners, Voice!RequestTypes, Voice!Pcs, Voice!TaskTypes,
             Voice!TaskPcs, Voice!ThreadPcs, Voice!ProcessTypes, Voice!ProcessInv, Voice!Assigning,
             Voice!Live, Voice!ThreadInv, Voice!CloseInv
<1>3. ASSUME NEW r \in SpeechRequests, Voice!drain(r) PROVE Voice!ProcessInv'
  <2>1. UNCHANGED <<r1, r2, r3, Voice!worker>>
    BY <1>3 DEF Voice!drain
  <2>2. CASE /\ Voice!At(r, "wait") /\ Voice!Running(r) /\ r5' = [r5 EXCEPT ![r] = Voice!Cancelled(r)]
             /\ r4' = [r4 EXCEPT ![r].pc = "drain", ![r].twice = @ \/ (r5'[r] = "aclose")]
    BY VoiceOneThread, <2>1, <2>2 DEF Voice!At, Voice!Running, Voice!Cancelled, Voice!worker, Voice!Types,
         Voice!CallTypes, Voice!Owners, Voice!RequestTypes, Voice!Pcs,
               Voice!TaskTypes, Voice!TaskPcs, Voice!ThreadPcs, Voice!ProcessTypes, Voice!ProcessInv,
               Voice!Assigning, Voice!Live, Voice!ThreadInv, Voice!CloseInv
  <2>3. CASE r5' = r5
    BY VoiceOneThread, <2>1, <2>3 DEF Voice!calls, Voice!worker, Voice!Types, Voice!CallTypes,
         Voice!Owners, Voice!RequestTypes, Voice!Pcs, Voice!TaskTypes,
               Voice!TaskPcs, Voice!ThreadPcs, Voice!ProcessTypes, Voice!ProcessInv, Voice!Assigning,
               Voice!Live, Voice!ThreadInv, Voice!CloseInv
  <2> QED
    BY <1>3, <2>2, <2>3 DEF Voice!drain
<1>4. ASSUME NEW r \in SpeechRequests, Voice!Exchange(r) PROVE Voice!ProcessInv'
  <2>1. r1 = "json" /\ Voice!loop(r) /\ UNCHANGED <<r1, r2, r3, r6, r7>>
    BY <1>4 DEF Voice!Exchange
  <2>2. CASE /\ r5[r] = "queued" /\ r8 = 0 /\ Voice!Spawns /\ r8' = r11' /\ Voice!Task(r, "ready")
             /\ UNCHANGED <<r10, r4>>
    <3>1. /\ \A s \in SpeechRequests \ {r} : r5[s] \in {"none", "ended"}
          /\ r2.close \in {"idle", "shutdown", "gather"}
      BY <2>1, VoiceOthers DEF Voice!loop
    <3>2. ~Voice!Assigning /\ r6' = r6 /\ ~Voice!Assigning'
      BY <2>1 DEF Voice!ThreadInv, Voice!Assigning
    <3>3. r9 = {}
      BY <2>2, <3>2 DEF Voice!ProcessInv, Voice!Types, Voice!ProcessTypes
    <3>4. r8' # 0 /\ r9' = {r8'} /\ r2' = r2
      BY <2>1, <2>2, <3>3 DEF Voice!Spawns, Voice!Types, Voice!ProcessTypes
    <3> QED
      BY <2>1, <2>2, <3>1, <3>2, <3>4 DEF Voice!ProcessInv, Voice!ThreadInv, Voice!Task, Voice!Types,
           Voice!TaskTypes
  <2>3. CASE /\ r5[r] \in {"queued", "ready"} /\ r8 # 0 /\ r8 \in r9 /\ Voice!Written(r, r8)
             /\ Voice!Task(r, "asked") /\ UNCHANGED <<r8, r9, r11, r4>>
    BY VoiceOneThread, <2>1, <2>3 DEF Voice!loop, Voice!Written, Voice!Task, Voice!Processes, Voice!NoPipe,
         Voice!Running, Voice!Types, Voice!CallTypes, Voice!Owners,
               Voice!RequestTypes, Voice!Pcs, Voice!TaskTypes, Voice!TaskPcs, Voice!ThreadPcs,
               Voice!ProcessTypes, Voice!ProcessInv, Voice!Assigning, Voice!Live, Voice!ThreadInv,
               Voice!CloseInv
  <2>4. CASE /\ r5[r] = "asked" /\ r8 # 0 /\ Voice!Takes(r, r8) /\ Voice!Task(r, "ended")
             /\ UNCHANGED <<r8, r9, r11>>
    BY VoiceOneThread, <2>1, <2>4 DEF Voice!loop, Voice!Takes, Voice!Task, Voice!Processes, Voice!NoPipe,
         Voice!Running, Voice!Types, Voice!CallTypes, Voice!Owners,
               Voice!RequestTypes, Voice!Pcs, Voice!TaskTypes, Voice!TaskPcs, Voice!ThreadPcs,
               Voice!ProcessTypes, Voice!ProcessInv, Voice!Assigning, Voice!Live, Voice!ThreadInv,
               Voice!CloseInv
  <2> QED
    BY <1>4, <2>2, <2>3, <2>4 DEF Voice!Exchange
<1>5. ASSUME NEW r \in SpeechRequests, Voice!Raises(r) PROVE Voice!ProcessInv'
  BY VoiceOneThread, <1>5 DEF Voice!Raises, Voice!loop, Voice!Running, Voice!Task, Voice!calls,
       Voice!worker, Voice!Types, Voice!CallTypes, Voice!Owners, Voice!RequestTypes,
             Voice!Pcs, Voice!TaskTypes, Voice!TaskPcs, Voice!ThreadPcs, Voice!ProcessTypes,
             Voice!ProcessInv, Voice!Assigning, Voice!Live, Voice!ThreadInv, Voice!CloseInv
<1>6. ASSUME NEW r \in SpeechRequests, Voice!aclose(r) PROVE Voice!ProcessInv'
  <2>1. /\ r1 = "json" /\ Voice!Running(r) /\ Voice!Task(r, "ended") /\ r8' = 0 /\ r9' = r9 \ {r8}
        /\ UNCHANGED <<r2, r6, r11>>
    BY <1>6 DEF Voice!aclose, Voice!loop, Voice!calls
  <2>2. \A s \in SpeechRequests \ {r} : r5[s] \in {"none", "ended"}
    BY <2>1, VoiceOthers
  <2>3. \A s \in SpeechRequests : r5'[s] \notin {"ready", "asked"} /\ r6'[s] = "none"
    BY <2>1, <2>2 DEF Voice!Task, Voice!ThreadInv, Voice!Types, Voice!TaskTypes
  <2>4. r9' = {}
    BY <2>1 DEF Voice!ProcessInv, Voice!ThreadInv, Voice!Assigning
  <2> QED
    BY <2>1, <2>3, <2>4 DEF Voice!ProcessInv
<1>7. ASSUME NEW r \in SpeechRequests, Voice!transcribe(r) PROVE Voice!ProcessInv'
  <2>1. r1 = "sherpa" /\ Voice!loop(r) /\ UNCHANGED <<Voice!calls, r7, r8, r9, r10, r11>>
    BY <1>7 DEF Voice!transcribe
  <2>2. CASE r5[r] = "queued" /\ Voice!Task(r, "shield") /\ Voice!Thread(r, "check")
    BY VoiceOneThread, <2>1, <2>2 DEF Voice!loop, Voice!Task, Voice!Thread, Voice!calls, Voice!Running,
         Voice!Types, Voice!CallTypes, Voice!Owners, Voice!RequestTypes,
               Voice!Pcs, Voice!TaskTypes, Voice!TaskPcs, Voice!ThreadPcs, Voice!ProcessTypes,
               Voice!ProcessInv, Voice!Assigning, Voice!Live, Voice!ThreadInv, Voice!CloseInv
  <2>3. CASE r5[r] = "shield" /\ r6[r] = "ended" /\ Voice!Task(r, "ended") /\ r6' = r6
    BY VoiceOneThread, <2>1, <2>3 DEF Voice!loop, Voice!Task, Voice!calls, Voice!Running, Voice!Types,
         Voice!CallTypes, Voice!Owners, Voice!RequestTypes, Voice!Pcs,
               Voice!TaskTypes, Voice!TaskPcs, Voice!ThreadPcs, Voice!ProcessTypes, Voice!ProcessInv,
               Voice!Assigning, Voice!Live, Voice!ThreadInv, Voice!CloseInv
  <2>4. CASE r5[r] = "shield" /\ Voice!Task(r, "raise") /\ r6' = r6
    BY VoiceOneThread, <2>1, <2>4 DEF Voice!loop, Voice!Task, Voice!calls, Voice!Running, Voice!Types,
         Voice!CallTypes, Voice!Owners, Voice!RequestTypes, Voice!Pcs,
               Voice!TaskTypes, Voice!TaskPcs, Voice!ThreadPcs, Voice!ProcessTypes, Voice!ProcessInv,
               Voice!Assigning, Voice!Live, Voice!ThreadInv, Voice!CloseInv
  <2> QED
    BY <1>7, <2>2, <2>3, <2>4 DEF Voice!transcribe
<1>8. ASSUME NEW r \in SpeechRequests, Voice!kill(r) PROVE Voice!ProcessInv'
  <2>1. r1 = "sherpa" /\ Voice!loop(r) /\ UNCHANGED <<Voice!calls, r6, r10, r11>>
    BY <1>8 DEF Voice!kill
  <2>2. CASE r5[r] = "raise" /\ r6[r] = "none" /\ Voice!Task(r, "ended") /\ UNCHANGED <<r7, r8, r9>>
    BY VoiceOneThread, <2>1, <2>2 DEF Voice!loop, Voice!Task, Voice!calls, Voice!Running, Voice!Types,
         Voice!CallTypes, Voice!Owners, Voice!RequestTypes, Voice!Pcs,
               Voice!TaskTypes, Voice!TaskPcs, Voice!ThreadPcs, Voice!ProcessTypes, Voice!ProcessInv,
               Voice!Assigning, Voice!Live, Voice!ThreadInv, Voice!CloseInv
  <2>3. CASE /\ r5[r] = "raise" /\ r6[r] # "none" /\ r7' = [r7 EXCEPT ![r] = TRUE] /\ Voice!Task(r, "kill")
             /\ UNCHANGED <<r8, r9>>
    BY VoiceOneThread, <2>1, <2>3 DEF Voice!loop, Voice!Task, Voice!calls, Voice!Running, Voice!Types,
         Voice!CallTypes, Voice!Owners, Voice!RequestTypes, Voice!Pcs,
               Voice!TaskTypes, Voice!TaskPcs, Voice!ThreadPcs, Voice!ProcessTypes, Voice!ProcessInv,
               Voice!Assigning, Voice!Live, Voice!ThreadInv, Voice!CloseInv
  <2>4. CASE r5[r] = "kill" /\ r9' = r9 \ {r8} /\ Voice!Task(r, "gather") /\ UNCHANGED <<r7, r8>>
    BY VoiceOneThread, <2>1, <2>4 DEF Voice!loop, Voice!Task, Voice!calls, Voice!Running, Voice!Types,
         Voice!CallTypes, Voice!Owners, Voice!RequestTypes, Voice!Pcs,
               Voice!TaskTypes, Voice!TaskPcs, Voice!ThreadPcs, Voice!ProcessTypes, Voice!ProcessInv,
               Voice!Assigning, Voice!Live, Voice!ThreadInv, Voice!CloseInv
  <2>5. CASE r5[r] = "gather" /\ r6[r] = "ended" /\ Voice!Task(r, "aclose") /\ UNCHANGED <<r7, r8, r9>>
    BY VoiceOneThread, <2>1, <2>5 DEF Voice!loop, Voice!Task, Voice!calls, Voice!Running, Voice!Types,
         Voice!CallTypes, Voice!Owners, Voice!RequestTypes, Voice!Pcs,
               Voice!TaskTypes, Voice!TaskPcs, Voice!ThreadPcs, Voice!ProcessTypes, Voice!ProcessInv,
               Voice!Assigning, Voice!Live, Voice!ThreadInv, Voice!CloseInv
  <2>6. CASE /\ r5[r] = "aclose" /\ r8' = 0 /\ r9' = r9 \ {r8} /\ Voice!Task(r, "ended")
             /\ r7' = r7
    BY VoiceOneThread, <2>1, <2>6 DEF Voice!loop, Voice!Task, Voice!calls, Voice!Running, Voice!Types,
         Voice!CallTypes, Voice!Owners, Voice!RequestTypes, Voice!Pcs,
               Voice!TaskTypes, Voice!TaskPcs, Voice!ThreadPcs, Voice!ProcessTypes, Voice!ProcessInv,
               Voice!Assigning, Voice!Live, Voice!ThreadInv, Voice!CloseInv
  <2> QED
    BY <1>8, <2>2, <2>3, <2>4, <2>5, <2>6 DEF Voice!kill
<1>9. ASSUME NEW r \in SpeechRequests, Voice!exchange(r) PROVE Voice!ProcessInv'
  <2>1. UNCHANGED <<r1, r2, r3, r5, r7>>
    BY <1>9 DEF Voice!exchange
  <2>2. CASE /\ r6[r] \in {"check", "check2", "check3"} /\ UNCHANGED <<r4, r8, r9, r10, r11>>
             /\ \E pc \in {"close", "popen", "check3", "handshake", "write"} :
                  /\ Voice!Thread(r, pc) /\ (pc = "popen" => r8 = 0)
                  /\ pc = "check3" => r8 # 0
                  /\ pc \in {"handshake", "write"} => r6[r] \in {"check2", "check3"}
    BY VoiceOneThread, <2>1, <2>2 DEF Voice!Thread, Voice!Types, Voice!CallTypes, Voice!Owners,
         Voice!RequestTypes, Voice!Pcs, Voice!TaskTypes, Voice!TaskPcs,
               Voice!ThreadPcs, Voice!ProcessTypes, Voice!ProcessInv, Voice!Assigning, Voice!Live,
               Voice!ThreadInv, Voice!CloseInv
  <2>3. CASE r6[r] = "popen" /\ Voice!Spawns /\ Voice!Thread(r, "assign") /\ UNCHANGED <<r4, r8, r10>>
    <3>1. /\ \A s \in SpeechRequests \ {r} : r5[s] \in {"none", "ended"} /\ r6[s] \in {"none", "ended"}
          /\ r2.close \in {"idle", "shutdown", "gather"}
      BY <2>3, VoiceOthers DEF Voice!Live
    <3>2. r8 = 0 /\ r5[r] \notin {"ready", "asked"} /\ ~Voice!Assigning
      BY <2>3, <3>1 DEF Voice!ProcessInv, Voice!ThreadInv, Voice!Live, Voice!Assigning
    <3>3. r9 = {}
      BY <3>2 DEF Voice!ProcessInv, Voice!Types, Voice!ProcessTypes
    <3>4. r6'[r] = "assign" /\ Voice!Assigning' /\ \A s \in SpeechRequests \ {r} : r6'[s] = r6[s]
      BY <2>3 DEF Voice!Thread, Voice!Assigning, Voice!Types, Voice!TaskTypes
    <3>5. r11' # 0 /\ r9' = {r11'} /\ r2' = r2 /\ r8' = 0 /\ r5' = r5
      BY <2>1, <2>3, <3>2, <3>3 DEF Voice!Spawns, Voice!Types, Voice!ProcessTypes
    <3> QED
      BY <3>1, <3>2, <3>4, <3>5 DEF Voice!ProcessInv
  <2>4. CASE r6[r] = "popen" /\ Voice!Thread(r, "close") /\ UNCHANGED <<r4, r8, r9, r10, r11>>
    BY VoiceOneThread, <2>1, <2>4 DEF Voice!Thread, Voice!Types, Voice!CallTypes, Voice!Owners,
         Voice!RequestTypes, Voice!Pcs, Voice!TaskTypes, Voice!TaskPcs,
               Voice!ThreadPcs, Voice!ProcessTypes, Voice!ProcessInv, Voice!Assigning, Voice!Live,
               Voice!ThreadInv, Voice!CloseInv
  <2>5. CASE r6[r] = "assign" /\ r8' = r11 /\ Voice!Thread(r, "check2") /\ UNCHANGED <<r4, r9, r10, r11>>
    <3>1. /\ \A s \in SpeechRequests \ {r} : r5[s] \in {"none", "ended"} /\ r6[s] \in {"none", "ended"}
          /\ r2.close \in {"idle", "shutdown", "gather"}
      BY <2>5, VoiceOthers DEF Voice!Live
    <3>2. r8 = 0 /\ r11 # 0
      BY <2>5 DEF Voice!ProcessInv
    <3>3. r6'[r] = "check2" /\ \A s \in SpeechRequests \ {r} : r6'[s] = r6[s]
      BY <2>5 DEF Voice!Thread, Voice!Types, Voice!TaskTypes
    <3>4. r9' \subseteq {r8'} /\ r8' # 0 /\ r2' = r2 /\ r5' = r5
      BY <2>1, <2>5, <3>2 DEF Voice!ProcessInv, Voice!Types, Voice!ProcessTypes
    <3> QED
      BY <3>1, <3>3, <3>4 DEF Voice!ProcessInv, Voice!Assigning
  <2>6. CASE r6[r] = "handshake" /\ Voice!Thread(r, "check3") /\ UNCHANGED <<r4, r8, r9, r10, r11>>
    BY VoiceOneThread, <2>1, <2>6 DEF Voice!Thread, Voice!Types, Voice!CallTypes, Voice!Owners,
         Voice!RequestTypes, Voice!Pcs, Voice!TaskTypes, Voice!TaskPcs,
               Voice!ThreadPcs, Voice!ProcessTypes, Voice!ProcessInv, Voice!Assigning, Voice!Live,
               Voice!ThreadInv, Voice!CloseInv
  <2>7. CASE /\ r6[r] = "write" /\ r8 \in r9 /\ Voice!Written(r, r8) /\ Voice!Thread(r, "read")
             /\ UNCHANGED <<r4, r8, r9, r11>>
    BY VoiceOneThread, <2>1, <2>7 DEF Voice!Thread, Voice!Written, Voice!Processes, Voice!NoPipe,
         Voice!Types, Voice!CallTypes, Voice!Owners, Voice!RequestTypes,
               Voice!Pcs, Voice!TaskTypes, Voice!TaskPcs, Voice!ThreadPcs, Voice!ProcessTypes,
               Voice!ProcessInv, Voice!Assigning, Voice!Live, Voice!ThreadInv, Voice!CloseInv
  <2>8. CASE /\ r6[r] = "read" /\ r8 # 0 /\ Voice!Takes(r, r8) /\ Voice!Thread(r, "ended")
             /\ UNCHANGED <<r8, r9, r11>>
    BY VoiceOneThread, <2>1, <2>8 DEF Voice!Thread, Voice!Takes, Voice!Processes, Voice!NoPipe,
         Voice!Types, Voice!CallTypes, Voice!Owners, Voice!RequestTypes,
               Voice!Pcs, Voice!TaskTypes, Voice!TaskPcs, Voice!ThreadPcs, Voice!ProcessTypes,
               Voice!ProcessInv, Voice!Assigning, Voice!Live, Voice!ThreadInv, Voice!CloseInv
  <2>9. CASE /\ r6[r] \in {"handshake", "write", "read"} /\ Voice!Thread(r, "close")
             /\ UNCHANGED <<r4, r8, r9, r10, r11>>
    BY VoiceOneThread, <2>1, <2>9 DEF Voice!Thread, Voice!Types, Voice!CallTypes, Voice!Owners,
         Voice!RequestTypes, Voice!Pcs, Voice!TaskTypes, Voice!TaskPcs,
               Voice!ThreadPcs, Voice!ProcessTypes, Voice!ProcessInv, Voice!Assigning, Voice!Live,
               Voice!ThreadInv, Voice!CloseInv
  <2>10. CASE /\ r6[r] = "close" /\ r8' = 0 /\ r9' = r9 \ {r8} /\ Voice!Thread(r, "ended")
              /\ UNCHANGED <<r4, r10, r11>>
    BY VoiceOneThread, <2>1, <2>10 DEF Voice!Thread, Voice!Types, Voice!CallTypes, Voice!Owners,
         Voice!RequestTypes, Voice!Pcs, Voice!TaskTypes, Voice!TaskPcs,
               Voice!ThreadPcs, Voice!ProcessTypes, Voice!ProcessInv, Voice!Assigning, Voice!Live,
               Voice!ThreadInv, Voice!CloseInv
  <2> QED
    BY <1>9, <2>2, <2>3, <2>4, <2>5, <2>6, <2>7, <2>8, <2>9, <2>10 DEF Voice!exchange, Voice!Thread,
         Voice!Spawns, Voice!Written,
          Voice!Takes
<1>10. ASSUME NEW p \in Voice!Processes, Voice!Dies(p) PROVE Voice!ProcessInv'
  BY VoiceOneThread, <1>10 DEF Voice!Dies, Voice!calls, Voice!Types, Voice!CallTypes, Voice!Owners,
       Voice!RequestTypes, Voice!Pcs, Voice!TaskTypes, Voice!TaskPcs,
             Voice!ThreadPcs, Voice!ProcessTypes, Voice!ProcessInv, Voice!Assigning, Voice!Live,
             Voice!ThreadInv, Voice!CloseInv
<1>11. CASE Voice!close
  BY VoiceOneThread, <1>11 DEF Voice!close, Voice!worker, Voice!Types, Voice!CallTypes, Voice!Owners,
       Voice!RequestTypes, Voice!Pcs, Voice!TaskTypes, Voice!TaskPcs,
             Voice!ThreadPcs, Voice!ProcessTypes, Voice!ProcessInv, Voice!Assigning, Voice!Live,
             Voice!ThreadInv, Voice!CloseInv
<1>12. CASE Voice!shutdown
  <2>1. UNCHANGED <<r1, r3, r6, r7, r10, r11>>
    BY <1>12 DEF Voice!shutdown
  <2>2. CASE /\ r2.close = "shutdown" /\ r2' = [r2 EXCEPT !.close = "gather"]
             /\ r5' = [r \in SpeechRequests |-> Voice!Cancelled(r)]
             /\ r4' = [r \in SpeechRequests |-> [r4[r] EXCEPT !.pc = IF @ = "drain" THEN "release" ELSE @,
                                                                !.twice = @ \/ (r5[r] = "gather")]]
             /\ UNCHANGED <<r8, r9>>
    BY VoiceOneThread, <2>1, <2>2 DEF Voice!Cancelled, Voice!Running, Voice!Types, Voice!CallTypes,
         Voice!Owners, Voice!RequestTypes, Voice!Pcs, Voice!TaskTypes,
               Voice!TaskPcs, Voice!ThreadPcs, Voice!ProcessTypes, Voice!ProcessInv, Voice!Assigning,
               Voice!Live, Voice!ThreadInv, Voice!CloseInv
  <2>3. CASE /\ r2.close = "gather" /\ \A r \in SpeechRequests : Voice!Running(r) => r4[r].late
             /\ r2' = [r2 EXCEPT !.close = "stop"] /\ r8' = 0 /\ r9' = r9 \ {r8}
             /\ UNCHANGED <<r4, r5>>
    <3>1. \A r \in SpeechRequests : ~Voice!Running(r)
      BY <2>3 DEF Voice!Undisturbed
    <3>2. \A r \in SpeechRequests : r5[r] \in {"none", "ended"} /\ ~Voice!Live(r)
      BY <3>1, VoiceOneThread DEF Voice!Running
    <3>3. r9' = {} /\ r8' = 0 /\ UNCHANGED <<r5, r6>>
      BY <2>1, <2>3, <3>2 DEF Voice!ProcessInv, Voice!Assigning, Voice!Live
    <3> QED
      BY <3>2, <3>3 DEF Voice!ProcessInv, Voice!Live
  <2>4. CASE /\ r2.close = "stop" /\ r2' = [r2 EXCEPT !.close = "join", !.loop = "stopped"]
             /\ UNCHANGED <<r4, r5, r8, r9>>
    BY VoiceOneThread, <2>1, <2>4 DEF Voice!Types, Voice!CallTypes, Voice!Owners, Voice!RequestTypes,
         Voice!Pcs, Voice!TaskTypes, Voice!TaskPcs, Voice!ThreadPcs,
               Voice!ProcessTypes, Voice!ProcessInv, Voice!Assigning, Voice!Live, Voice!ThreadInv,
               Voice!CloseInv
  <2>5. CASE /\ r2.close = "join" /\ r2' = [r2 EXCEPT !.close = "returned", !.loop = "closed"]
             /\ UNCHANGED <<r4, r5, r8, r9>>
    BY VoiceOneThread, <2>1, <2>5 DEF Voice!Types, Voice!CallTypes, Voice!Owners, Voice!RequestTypes,
         Voice!Pcs, Voice!TaskTypes, Voice!TaskPcs, Voice!ThreadPcs,
               Voice!ProcessTypes, Voice!ProcessInv, Voice!Assigning, Voice!Live, Voice!ThreadInv,
               Voice!CloseInv
  <2> QED
    BY <1>12, <2>2, <2>3, <2>4, <2>5 DEF Voice!shutdown
<1>13. ASSUME NEW r \in SpeechRequests, Voice!invoke(r) \/ Voice!waited(r) \/ Voice!release(r)
     PROVE Voice!ProcessInv'
  BY VoiceOneThread, <1>13 DEF Voice!invoke, Voice!waited, Voice!release, Voice!worker, Voice!calls,
       Voice!Types, Voice!CallTypes, Voice!Owners, Voice!RequestTypes, Voice!Pcs,
             Voice!TaskTypes, Voice!TaskPcs, Voice!ThreadPcs, Voice!ProcessTypes, Voice!ProcessInv,
             Voice!Assigning, Voice!Live, Voice!ThreadInv, Voice!CloseInv
<1>14. ASSUME NEW p \in Voice!Processes, Voice!Answers(p) PROVE Voice!ProcessInv'
  BY VoiceOneThread, <1>14 DEF Voice!Answers, Voice!worker, Voice!calls, Voice!Types, Voice!CallTypes,
       Voice!Owners, Voice!RequestTypes, Voice!Pcs, Voice!TaskTypes,
             Voice!TaskPcs, Voice!ThreadPcs, Voice!ProcessTypes, Voice!ProcessInv, Voice!Assigning,
             Voice!Live, Voice!ThreadInv, Voice!CloseInv
<1>15. CASE UNCHANGED Voice!vars
  BY VoiceOneThread, <1>15 DEF Voice!vars, Voice!Types, Voice!CallTypes, Voice!Owners, Voice!RequestTypes,
       Voice!Pcs, Voice!TaskTypes, Voice!TaskPcs, Voice!ThreadPcs,
             Voice!ProcessTypes, Voice!ProcessInv, Voice!Assigning, Voice!Live, Voice!ThreadInv,
             Voice!CloseInv
<1> QED
  BY <1>1, <1>2, <1>3, <1>4, <1>5, <1>6, <1>7, <1>8, <1>9, <1>10, <1>11, <1>12, <1>13, <1>14, <1>15
       DEF Voice!Next,
        Voice!Call, Voice!Loop

\* Pipes hold what their requests wait for.
LEMMA VoicePipeStep == ASSUME MaxProcesses \in Nat, Voice!Nobody \notin SpeechRequests,
              Voice!Types, Voice!LockInv, Voice!CloseInv, Voice!Undisturbed, Voice!Undisturbed',
              Voice!TaskInv, Voice!ThreadInv, Voice!ProcessInv, Voice!PipeInv, [Voice!Next]_Voice!vars
              PROVE Voice!PipeInv'
<1>1. ASSUME NEW r \in SpeechRequests, Voice!invoke(r) PROVE Voice!PipeInv'
  <2>1. Voice!At(r, "idle") /\ UNCHANGED <<r1, r2, r5, Voice!worker>>
    BY <1>1 DEF Voice!invoke
  <2>2. CASE (r2.closed \/ r3 # Voice!Nobody) /\ Voice!Req(r, "over") /\ r3' = r3
    BY VoiceOneThread, <2>1, <2>2 DEF Voice!At, Voice!Req, Voice!worker, Voice!Types, Voice!RequestTypes,
         Voice!Pcs, Voice!Owners, Voice!TaskTypes, Voice!TaskPcs,
               Voice!ThreadPcs, Voice!ProcessTypes, Voice!PipeTypes, Voice!ProcessInv, Voice!PipeInv,
               Voice!Asking, Voice!Assigning, Voice!Live, Voice!Processes, Voice!NoPipe
  <2>3. CASE ~r2.closed /\ r3 = Voice!Nobody /\ Voice!Req(r, "locked") /\ r3' = r
    BY VoiceOneThread, <2>1, <2>3 DEF Voice!At, Voice!Req, Voice!worker, Voice!Types, Voice!RequestTypes,
         Voice!Pcs, Voice!Owners, Voice!TaskTypes, Voice!TaskPcs,
               Voice!ThreadPcs, Voice!ProcessTypes, Voice!PipeTypes, Voice!ProcessInv, Voice!PipeInv,
               Voice!Asking, Voice!Assigning, Voice!Live, Voice!Processes, Voice!NoPipe
  <2> QED
    BY <1>1, <2>2, <2>3 DEF Voice!invoke
<1>2. ASSUME NEW r \in SpeechRequests, Voice!ensure_loop(r) PROVE Voice!PipeInv'
  <2>1. Voice!At(r, "locked") /\ UNCHANGED <<r1, r3, r5, Voice!worker>>
    BY <1>2 DEF Voice!ensure_loop
  <2>2. CASE r2.closed /\ Voice!Req(r, "release") /\ r2' = r2
    BY VoiceOneThread, <2>1, <2>2 DEF Voice!At, Voice!Req, Voice!worker, Voice!Types, Voice!RequestTypes,
         Voice!Pcs, Voice!Owners, Voice!TaskTypes, Voice!TaskPcs,
               Voice!ThreadPcs, Voice!ProcessTypes, Voice!PipeTypes, Voice!ProcessInv, Voice!PipeInv,
               Voice!Asking, Voice!Assigning, Voice!Live, Voice!Processes, Voice!NoPipe
  <2>3. CASE ~r2.closed /\ Voice!Req(r, "submit") /\ r2' = [r2 EXCEPT !.loop = "running"]
    BY VoiceOneThread, <2>1, <2>3 DEF Voice!At, Voice!Req, Voice!worker, Voice!Types, Voice!RequestTypes,
         Voice!Pcs, Voice!Owners, Voice!TaskTypes, Voice!TaskPcs,
               Voice!ThreadPcs, Voice!ProcessTypes, Voice!PipeTypes, Voice!ProcessInv, Voice!PipeInv,
               Voice!Asking, Voice!Assigning, Voice!Live, Voice!Processes, Voice!NoPipe
  <2> QED
    BY <1>2, <2>2, <2>3 DEF Voice!ensure_loop
<1>3. ASSUME NEW r \in SpeechRequests, Voice!submit(r) PROVE Voice!PipeInv'
  <2>1. /\ r4[r].pc = "submit" /\ \A s \in SpeechRequests \ {r} : r5'[s] = r5[s]
        /\ UNCHANGED <<r1, r6, r8, r10, r11>> /\ \A s \in SpeechRequests : r4'[s].answer = r4[s].answer
    BY <1>3 DEF Voice!submit, Voice!At, Voice!Task, Voice!worker, Voice!Types, Voice!TaskTypes,
         Voice!RequestTypes
  <2>2. ~Voice!Running(r)
    BY <2>1 DEF Voice!TaskInv
  <2>3. \A s \in SpeechRequests : Voice!Asking(s) => s # r \/ r1 # "json"
    BY <2>2 DEF Voice!Asking, Voice!Running
  <2>4. \A s \in SpeechRequests : Voice!Asking(s) => Voice!Asking(s)'
    BY <2>1, <2>3 DEF Voice!Asking
  <2> QED
    BY <2>1, <2>4 DEF Voice!PipeInv, Voice!Assigning
<1>4. ASSUME NEW r \in SpeechRequests, Voice!waited(r) PROVE Voice!PipeInv'
  BY VoiceOneThread, <1>4 DEF Voice!waited, Voice!At, Voice!Req, Voice!worker, Voice!Types,
       Voice!RequestTypes, Voice!Pcs, Voice!Owners, Voice!TaskTypes, Voice!TaskPcs,
             Voice!ThreadPcs, Voice!ProcessTypes, Voice!PipeTypes, Voice!ProcessInv, Voice!PipeInv,
             Voice!Asking, Voice!Assigning, Voice!Live, Voice!Processes, Voice!NoPipe
<1>5. ASSUME NEW r \in SpeechRequests, Voice!drain(r) PROVE Voice!PipeInv'
  <2>1. UNCHANGED <<r1, r2, r3, Voice!worker>>
    BY <1>5 DEF Voice!drain
  <2>2. CASE /\ Voice!At(r, "wait") /\ Voice!Running(r) /\ r5' = [r5 EXCEPT ![r] = Voice!Cancelled(r)]
             /\ r4' = [r4 EXCEPT ![r].pc = "drain", ![r].twice = @ \/ (r5'[r] = "aclose")]
    BY VoiceOneThread, <2>1, <2>2 DEF Voice!At, Voice!Running, Voice!Cancelled, Voice!worker, Voice!Types,
         Voice!RequestTypes, Voice!Pcs, Voice!Owners, Voice!TaskTypes,
               Voice!TaskPcs, Voice!ThreadPcs, Voice!ProcessTypes, Voice!PipeTypes, Voice!ProcessInv,
               Voice!PipeInv, Voice!Asking, Voice!Assigning, Voice!Live, Voice!Processes,
               Voice!NoPipe
  <2>3. CASE Voice!At(r, "drain") /\ r5[r] = "ended" /\ Voice!Req(r, "release") /\ r5' = r5
    BY VoiceOneThread, <2>1, <2>3 DEF Voice!At, Voice!Req, Voice!worker, Voice!Types, Voice!RequestTypes,
         Voice!Pcs, Voice!Owners, Voice!TaskTypes, Voice!TaskPcs,
               Voice!ThreadPcs, Voice!ProcessTypes, Voice!PipeTypes, Voice!ProcessInv, Voice!PipeInv,
               Voice!Asking, Voice!Assigning, Voice!Live, Voice!Processes, Voice!NoPipe
  <2> QED
    BY <1>5, <2>2, <2>3 DEF Voice!drain
<1>6. ASSUME NEW r \in SpeechRequests, Voice!release(r) PROVE Voice!PipeInv'
  BY VoiceOneThread, <1>6 DEF Voice!release, Voice!At, Voice!Req, Voice!worker, Voice!Types,
       Voice!RequestTypes, Voice!Pcs, Voice!Owners, Voice!TaskTypes, Voice!TaskPcs,
             Voice!ThreadPcs, Voice!ProcessTypes, Voice!PipeTypes, Voice!ProcessInv, Voice!PipeInv,
             Voice!Asking, Voice!Assigning, Voice!Live, Voice!Processes, Voice!NoPipe
<1>7. ASSUME NEW r \in SpeechRequests, Voice!Exchange(r) PROVE Voice!PipeInv'
  <2>1. r1 = "json" /\ Voice!loop(r) /\ UNCHANGED <<r1, r2, r3, r6, r7>>
    BY <1>7 DEF Voice!Exchange
  <2>2. CASE /\ r5[r] = "queued" /\ r8 = 0 /\ Voice!Spawns /\ r8' = r11' /\ Voice!Task(r, "ready")
             /\ UNCHANGED <<r10, r4>>
    BY VoiceOneThread, <2>1, <2>2 DEF Voice!loop, Voice!Spawns, Voice!Task, Voice!Processes, Voice!NoPipe,
         Voice!Running, Voice!Types, Voice!RequestTypes, Voice!Pcs,
               Voice!Owners, Voice!TaskTypes, Voice!TaskPcs, Voice!ThreadPcs, Voice!ProcessTypes,
               Voice!PipeTypes, Voice!ProcessInv, Voice!PipeInv, Voice!Asking, Voice!Assigning,
               Voice!Live
  <2>3. CASE /\ r5[r] \in {"queued", "ready"} /\ r8 # 0 /\ r8 \in r9 /\ Voice!Written(r, r8)
             /\ Voice!Task(r, "asked") /\ UNCHANGED <<r8, r9, r11, r4>>
    <3>1. \A s \in SpeechRequests : Voice!Asking(s) => s = r
      BY <2>1, VoiceOthers DEF Voice!loop, Voice!Asking
    <3>2. r10[r8] = Voice!NoPipe /\ r8 \in Voice!Processes
      BY <2>1, <2>3, <3>1, VoicePiped DEF Voice!PipeInv, Voice!Asking
    <3>3. Voice!Asking(r)' /\ ~Voice!Assigning'
      BY <2>1, <2>3 DEF Voice!Asking, Voice!Task, Voice!Types, Voice!TaskTypes, Voice!ThreadInv,
           Voice!Assigning
    <3>4. /\ r10' = [r10 EXCEPT ![r8].asked = r] /\ r8 <= r11
          /\ UNCHANGED <<r8, r11, r4>>
      BY <2>3 DEF Voice!Written, Voice!Types, Voice!ProcessTypes
    <3>5. r10'[r8].asked = r /\ r10'[r8].answer = Voice!Nobody
      BY <3>2, <3>4 DEF Voice!Types, Voice!PipeTypes, Voice!NoPipe
    <3>6. \A p \in Voice!Processes : p > r11 => r10'[p] = r10[p]
      BY <3>2, <3>4 DEF Voice!Types, Voice!PipeTypes, Voice!ProcessTypes, Voice!Processes
    <3> QED
      BY <3>2, <3>3, <3>4, <3>5, <3>6 DEF Voice!PipeInv
  <2>4. CASE /\ r5[r] = "asked" /\ r8 # 0 /\ Voice!Takes(r, r8) /\ Voice!Task(r, "ended")
             /\ UNCHANGED <<r8, r9, r11>>
    <3>1. \A s \in SpeechRequests : Voice!Asking(s) => s = r
      BY <2>1, VoiceOthers DEF Voice!loop, Voice!Asking
    <3>2. r8 \in Voice!Processes /\ r10[r8].answer \in {Voice!Nobody, r}
      BY <2>4, <3>1, VoicePiped DEF Voice!PipeInv, Voice!NoPipe
    <3>3. ~Voice!Assigning'
      BY <2>1 DEF Voice!ThreadInv, Voice!Assigning
    <3>4. /\ r4'[r].answer \in {Voice!Nobody, r}
               /\ \A s \in SpeechRequests \ {r} : r4'[s].answer = r4[s].answer
          /\ r10' = [r10 EXCEPT ![r8] = Voice!NoPipe] /\ UNCHANGED <<r8, r11>>
      BY <2>4, <3>2 DEF Voice!Takes, Voice!Types, Voice!RequestTypes
    <3> QED
      BY <3>2, <3>3, <3>4 DEF Voice!PipeInv, Voice!Types, Voice!PipeTypes
  <2> QED
    BY <1>7, <2>2, <2>3, <2>4 DEF Voice!Exchange
<1>8. ASSUME NEW r \in SpeechRequests, Voice!Raises(r) PROVE Voice!PipeInv'
  BY VoiceOneThread, <1>8 DEF Voice!Raises, Voice!loop, Voice!Running, Voice!Task, Voice!calls,
       Voice!worker, Voice!Types, Voice!RequestTypes, Voice!Pcs, Voice!Owners,
             Voice!TaskTypes, Voice!TaskPcs, Voice!ThreadPcs, Voice!ProcessTypes, Voice!PipeTypes,
             Voice!ProcessInv, Voice!PipeInv, Voice!Asking, Voice!Assigning, Voice!Live,
             Voice!Processes, Voice!NoPipe
<1>9. ASSUME NEW r \in SpeechRequests, Voice!aclose(r) PROVE Voice!PipeInv'
  BY VoiceOneThread, <1>9 DEF Voice!aclose, Voice!loop, Voice!Running, Voice!Task, Voice!calls,
       Voice!Types, Voice!RequestTypes, Voice!Pcs, Voice!Owners, Voice!TaskTypes,
             Voice!TaskPcs, Voice!ThreadPcs, Voice!ProcessTypes, Voice!PipeTypes, Voice!ProcessInv,
             Voice!PipeInv, Voice!Asking, Voice!Assigning, Voice!Live, Voice!Processes, Voice!NoPipe
<1>10. ASSUME NEW r \in SpeechRequests, Voice!transcribe(r) PROVE Voice!PipeInv'
  <2>1. r1 = "sherpa" /\ Voice!loop(r) /\ UNCHANGED <<Voice!calls, r7, r8, r9, r10, r11>>
    BY <1>10 DEF Voice!transcribe
  <2>2. CASE r5[r] = "queued" /\ Voice!Task(r, "shield") /\ Voice!Thread(r, "check")
    <3>1. \A s \in SpeechRequests : Voice!Asking(s) => Voice!Asking(s)'
      BY <2>1, <2>2 DEF Voice!Asking, Voice!Thread, Voice!Types, Voice!TaskTypes, Voice!ThreadInv,
           Voice!Live, Voice!calls
    <3>2. ~Voice!Assigning' \/ Voice!Assigning
      BY <2>2 DEF Voice!Assigning, Voice!Thread, Voice!Types, Voice!TaskTypes
    <3> QED
      BY <2>1, <2>2, <3>1, <3>2 DEF Voice!PipeInv, Voice!calls
  <2>3. CASE r5[r] = "shield" /\ r6[r] = "ended" /\ Voice!Task(r, "ended") /\ r6' = r6
    BY VoiceOneThread, <2>1, <2>3 DEF Voice!loop, Voice!Task, Voice!calls, Voice!Running, Voice!Types,
         Voice!RequestTypes, Voice!Pcs, Voice!Owners, Voice!TaskTypes,
               Voice!TaskPcs, Voice!ThreadPcs, Voice!ProcessTypes, Voice!PipeTypes, Voice!ProcessInv,
               Voice!PipeInv, Voice!Asking, Voice!Assigning, Voice!Live, Voice!Processes,
               Voice!NoPipe
  <2>4. CASE r5[r] = "shield" /\ Voice!Task(r, "raise") /\ r6' = r6
    BY VoiceOneThread, <2>1, <2>4 DEF Voice!loop, Voice!Task, Voice!calls, Voice!Running, Voice!Types,
         Voice!RequestTypes, Voice!Pcs, Voice!Owners, Voice!TaskTypes,
               Voice!TaskPcs, Voice!ThreadPcs, Voice!ProcessTypes, Voice!PipeTypes, Voice!ProcessInv,
               Voice!PipeInv, Voice!Asking, Voice!Assigning, Voice!Live, Voice!Processes,
               Voice!NoPipe
  <2> QED
    BY <1>10, <2>2, <2>3, <2>4 DEF Voice!transcribe
<1>11. ASSUME NEW r \in SpeechRequests, Voice!kill(r) PROVE Voice!PipeInv'
  <2>1. r1 = "sherpa" /\ Voice!loop(r) /\ UNCHANGED <<Voice!calls, r6, r10, r11>>
    BY <1>11 DEF Voice!kill
  <2>2. CASE r5[r] = "raise" /\ r6[r] = "none" /\ Voice!Task(r, "ended") /\ UNCHANGED <<r7, r8, r9>>
    BY VoiceOneThread, <2>1, <2>2 DEF Voice!loop, Voice!Task, Voice!calls, Voice!Running, Voice!Types,
         Voice!RequestTypes, Voice!Pcs, Voice!Owners, Voice!TaskTypes,
               Voice!TaskPcs, Voice!ThreadPcs, Voice!ProcessTypes, Voice!PipeTypes, Voice!ProcessInv,
               Voice!PipeInv, Voice!Asking, Voice!Assigning, Voice!Live, Voice!Processes,
               Voice!NoPipe
  <2>3. CASE /\ r5[r] = "raise" /\ r6[r] # "none" /\ r7' = [r7 EXCEPT ![r] = TRUE] /\ Voice!Task(r, "kill")
             /\ UNCHANGED <<r8, r9>>
    BY VoiceOneThread, <2>1, <2>3 DEF Voice!loop, Voice!Task, Voice!calls, Voice!Running, Voice!Types,
         Voice!RequestTypes, Voice!Pcs, Voice!Owners, Voice!TaskTypes,
               Voice!TaskPcs, Voice!ThreadPcs, Voice!ProcessTypes, Voice!PipeTypes, Voice!ProcessInv,
               Voice!PipeInv, Voice!Asking, Voice!Assigning, Voice!Live, Voice!Processes,
               Voice!NoPipe
  <2>4. CASE r5[r] = "kill" /\ r9' = r9 \ {r8} /\ Voice!Task(r, "gather") /\ UNCHANGED <<r7, r8>>
    BY VoiceOneThread, <2>1, <2>4 DEF Voice!loop, Voice!Task, Voice!calls, Voice!Running, Voice!Types,
         Voice!RequestTypes, Voice!Pcs, Voice!Owners, Voice!TaskTypes,
               Voice!TaskPcs, Voice!ThreadPcs, Voice!ProcessTypes, Voice!PipeTypes, Voice!ProcessInv,
               Voice!PipeInv, Voice!Asking, Voice!Assigning, Voice!Live, Voice!Processes,
               Voice!NoPipe
  <2>5. CASE r5[r] = "gather" /\ r6[r] = "ended" /\ Voice!Task(r, "aclose") /\ UNCHANGED <<r7, r8, r9>>
    BY VoiceOneThread, <2>1, <2>5 DEF Voice!loop, Voice!Task, Voice!calls, Voice!Running, Voice!Types,
         Voice!RequestTypes, Voice!Pcs, Voice!Owners, Voice!TaskTypes,
               Voice!TaskPcs, Voice!ThreadPcs, Voice!ProcessTypes, Voice!PipeTypes, Voice!ProcessInv,
               Voice!PipeInv, Voice!Asking, Voice!Assigning, Voice!Live, Voice!Processes,
               Voice!NoPipe
  <2>6. CASE /\ r5[r] = "aclose" /\ r8' = 0 /\ r9' = r9 \ {r8} /\ Voice!Task(r, "ended")
             /\ r7' = r7
    BY VoiceOneThread, <2>1, <2>6 DEF Voice!loop, Voice!Task, Voice!calls, Voice!Running, Voice!Types,
         Voice!RequestTypes, Voice!Pcs, Voice!Owners, Voice!TaskTypes,
               Voice!TaskPcs, Voice!ThreadPcs, Voice!ProcessTypes, Voice!PipeTypes, Voice!ProcessInv,
               Voice!PipeInv, Voice!Asking, Voice!Assigning, Voice!Live, Voice!Processes,
               Voice!NoPipe
  <2> QED
    BY <1>11, <2>2, <2>3, <2>4, <2>5, <2>6 DEF Voice!kill
<1>12. ASSUME NEW r \in SpeechRequests, Voice!exchange(r) PROVE Voice!PipeInv'
  <2>1. UNCHANGED <<r1, r2, r3, r5, r7>>
    BY <1>12 DEF Voice!exchange
  <2>2. CASE /\ r6[r] \in {"check", "check2", "check3"} /\ UNCHANGED <<r4, r8, r9, r10, r11>>
             /\ \E pc \in {"close", "popen", "check3", "handshake", "write"} :
                  /\ Voice!Thread(r, pc) /\ (pc = "popen" => r8 = 0)
                  /\ pc = "check3" => r8 # 0
                  /\ pc \in {"handshake", "write"} => r6[r] \in {"check2", "check3"}
    BY VoiceOneThread, <2>1, <2>2 DEF Voice!Thread, Voice!Types, Voice!RequestTypes, Voice!Pcs,
         Voice!Owners, Voice!TaskTypes, Voice!TaskPcs, Voice!ThreadPcs,
               Voice!ProcessTypes, Voice!PipeTypes, Voice!ProcessInv, Voice!PipeInv, Voice!Asking,
               Voice!Assigning, Voice!Live, Voice!Processes, Voice!NoPipe
  <2>3. CASE r6[r] = "popen" /\ Voice!Spawns /\ Voice!Thread(r, "assign") /\ UNCHANGED <<r4, r8, r10>>
    BY VoiceOneThread, <2>1, <2>3 DEF Voice!Thread, Voice!Spawns, Voice!Processes, Voice!NoPipe,
         Voice!Types, Voice!RequestTypes, Voice!Pcs, Voice!Owners,
               Voice!TaskTypes, Voice!TaskPcs, Voice!ThreadPcs, Voice!ProcessTypes, Voice!PipeTypes,
               Voice!ProcessInv, Voice!PipeInv, Voice!Asking, Voice!Assigning, Voice!Live
  <2>4. CASE r6[r] = "popen" /\ Voice!Thread(r, "close") /\ UNCHANGED <<r4, r8, r9, r10, r11>>
    BY VoiceOneThread, <2>1, <2>4 DEF Voice!Thread, Voice!Types, Voice!RequestTypes, Voice!Pcs,
         Voice!Owners, Voice!TaskTypes, Voice!TaskPcs, Voice!ThreadPcs,
               Voice!ProcessTypes, Voice!PipeTypes, Voice!ProcessInv, Voice!PipeInv, Voice!Asking,
               Voice!Assigning, Voice!Live, Voice!Processes, Voice!NoPipe
  <2>5. CASE r6[r] = "assign" /\ r8' = r11 /\ Voice!Thread(r, "check2") /\ UNCHANGED <<r4, r9, r10, r11>>
    BY VoiceOneThread, <2>1, <2>5 DEF Voice!Thread, Voice!Types, Voice!RequestTypes, Voice!Pcs,
         Voice!Owners, Voice!TaskTypes, Voice!TaskPcs, Voice!ThreadPcs,
               Voice!ProcessTypes, Voice!PipeTypes, Voice!ProcessInv, Voice!PipeInv, Voice!Asking,
               Voice!Assigning, Voice!Live, Voice!Processes, Voice!NoPipe
  <2>6. CASE r6[r] = "handshake" /\ Voice!Thread(r, "check3") /\ UNCHANGED <<r4, r8, r9, r10, r11>>
    BY VoiceOneThread, <2>1, <2>6 DEF Voice!Thread, Voice!Types, Voice!RequestTypes, Voice!Pcs,
         Voice!Owners, Voice!TaskTypes, Voice!TaskPcs, Voice!ThreadPcs,
               Voice!ProcessTypes, Voice!PipeTypes, Voice!ProcessInv, Voice!PipeInv, Voice!Asking,
               Voice!Assigning, Voice!Live, Voice!Processes, Voice!NoPipe
  <2>7. CASE /\ r6[r] = "write" /\ r8 \in r9 /\ Voice!Written(r, r8) /\ Voice!Thread(r, "read")
             /\ UNCHANGED <<r4, r8, r9, r11>>
    <3>1. r1 = "sherpa" /\ \A s \in SpeechRequests : Voice!Asking(s) => s = r
      BY <2>7, VoiceOthers DEF Voice!Live, Voice!Asking, Voice!ThreadInv, Voice!Types, Voice!CallTypes
    <3>2. r10[r8] = Voice!NoPipe /\ r8 \in Voice!Processes
      BY <2>7, <3>1, VoicePiped DEF Voice!PipeInv, Voice!Asking, Voice!ProcessInv
    <3>3. Voice!Asking(r)' /\ ~Voice!Assigning'
      <4>1. \A s \in SpeechRequests \ {r} : r6[s] # "assign"
        BY <2>7, VoiceOthers DEF Voice!Live
      <4> QED
        BY <2>1, <2>7, <3>1, <4>1 DEF Voice!Asking, Voice!Thread, Voice!Types, Voice!TaskTypes,
             Voice!Assigning
    <3>4. /\ r10' = [r10 EXCEPT ![r8].asked = r] /\ r8 <= r11
          /\ UNCHANGED <<r8, r11, r4>>
      BY <2>7 DEF Voice!Written, Voice!Types, Voice!ProcessTypes
    <3>5. r10'[r8].asked = r /\ r10'[r8].answer = Voice!Nobody
      BY <3>2, <3>4 DEF Voice!Types, Voice!PipeTypes, Voice!NoPipe
    <3>6. \A p \in Voice!Processes : p > r11 => r10'[p] = r10[p]
      BY <3>2, <3>4 DEF Voice!Types, Voice!PipeTypes, Voice!ProcessTypes, Voice!Processes
    <3> QED
      BY <3>2, <3>3, <3>4, <3>5, <3>6 DEF Voice!PipeInv
  <2>8. CASE /\ r6[r] = "read" /\ r8 # 0 /\ Voice!Takes(r, r8) /\ Voice!Thread(r, "ended")
             /\ UNCHANGED <<r8, r9, r11>>
    <3>1. r1 = "sherpa" /\ \A s \in SpeechRequests : Voice!Asking(s) => s = r
      BY <2>8, VoiceOthers DEF Voice!Live, Voice!Asking, Voice!ThreadInv, Voice!Types, Voice!CallTypes
    <3>2. r8 \in Voice!Processes /\ r10[r8].answer \in {Voice!Nobody, r}
      BY <2>8, <3>1, VoicePiped DEF Voice!PipeInv, Voice!NoPipe
    <3>3. ~Voice!Assigning'
      <4>1. \A s \in SpeechRequests \ {r} : r6[s] # "assign"
        BY <2>8, VoiceOthers DEF Voice!Live
      <4> QED
        BY <2>8, <4>1 DEF Voice!Thread, Voice!Types, Voice!TaskTypes, Voice!Assigning
    <3>4. /\ r4'[r].answer \in {Voice!Nobody, r}
               /\ \A s \in SpeechRequests \ {r} : r4'[s].answer = r4[s].answer
          /\ r10' = [r10 EXCEPT ![r8] = Voice!NoPipe] /\ UNCHANGED <<r8, r11>>
      BY <2>8, <3>2 DEF Voice!Takes, Voice!Types, Voice!RequestTypes
    <3> QED
      BY <3>2, <3>3, <3>4 DEF Voice!PipeInv, Voice!Types, Voice!PipeTypes
  <2>9. CASE /\ r6[r] \in {"handshake", "write", "read"} /\ Voice!Thread(r, "close")
             /\ UNCHANGED <<r4, r8, r9, r10, r11>>
    BY VoiceOneThread, <2>1, <2>9 DEF Voice!Thread, Voice!Types, Voice!RequestTypes, Voice!Pcs,
         Voice!Owners, Voice!TaskTypes, Voice!TaskPcs, Voice!ThreadPcs,
               Voice!ProcessTypes, Voice!PipeTypes, Voice!ProcessInv, Voice!PipeInv, Voice!Asking,
               Voice!Assigning, Voice!Live, Voice!Processes, Voice!NoPipe
  <2>10. CASE /\ r6[r] = "close" /\ r8' = 0 /\ r9' = r9 \ {r8} /\ Voice!Thread(r, "ended")
              /\ UNCHANGED <<r4, r10, r11>>
    BY VoiceOneThread, <2>1, <2>10 DEF Voice!Thread, Voice!Types, Voice!RequestTypes, Voice!Pcs,
         Voice!Owners, Voice!TaskTypes, Voice!TaskPcs, Voice!ThreadPcs,
               Voice!ProcessTypes, Voice!PipeTypes, Voice!ProcessInv, Voice!PipeInv, Voice!Asking,
               Voice!Assigning, Voice!Live, Voice!Processes, Voice!NoPipe
  <2> QED
    BY <1>12, <2>2, <2>3, <2>4, <2>5, <2>6, <2>7, <2>8, <2>9, <2>10 DEF Voice!exchange, Voice!Thread,
         Voice!Spawns, Voice!Written,
          Voice!Takes
<1>13. ASSUME NEW p \in Voice!Processes, Voice!Answers(p) PROVE Voice!PipeInv'
  BY VoiceOneThread, <1>13 DEF Voice!Answers, Voice!calls, Voice!Processes, Voice!Types,
       Voice!RequestTypes, Voice!Pcs, Voice!Owners, Voice!TaskTypes, Voice!TaskPcs,
             Voice!ThreadPcs, Voice!ProcessTypes, Voice!PipeTypes, Voice!ProcessInv, Voice!PipeInv,
             Voice!Asking, Voice!Assigning, Voice!Live, Voice!NoPipe
<1>14. ASSUME NEW p \in Voice!Processes, Voice!Dies(p) PROVE Voice!PipeInv'
  BY VoiceOneThread, <1>14 DEF Voice!Dies, Voice!calls, Voice!Types, Voice!RequestTypes, Voice!Pcs,
       Voice!Owners, Voice!TaskTypes, Voice!TaskPcs, Voice!ThreadPcs,
             Voice!ProcessTypes, Voice!PipeTypes, Voice!ProcessInv, Voice!PipeInv, Voice!Asking,
             Voice!Assigning, Voice!Live, Voice!Processes, Voice!NoPipe
<1>15. CASE Voice!shutdown
  <2>1. UNCHANGED <<r1, r3, r6, r7, r10, r11>>
    BY <1>15 DEF Voice!shutdown
  <2>2. CASE /\ r2.close = "shutdown" /\ r2' = [r2 EXCEPT !.close = "gather"]
             /\ r5' = [r \in SpeechRequests |-> Voice!Cancelled(r)]
             /\ r4' = [r \in SpeechRequests |-> [r4[r] EXCEPT !.pc = IF @ = "drain" THEN "release" ELSE @,
                                                                !.twice = @ \/ (r5[r] = "gather")]]
             /\ UNCHANGED <<r8, r9>>
    <3>1. \A r \in SpeechRequests : r4'[r].answer = r4[r].answer
      BY <2>2, VoiceGathered
    <3>2. \A r \in SpeechRequests : r5'[r] = Voice!Cancelled(r) /\ r6' = r6 /\ r1' = r1
      BY <2>1, <2>2
    <3>3. \A r \in SpeechRequests : Voice!Asking(r) => Voice!Asking(r)'
      BY <3>2 DEF Voice!Asking, Voice!Cancelled, Voice!Running
    <3> QED
      BY <2>1, <2>2, <3>1, <3>3 DEF Voice!PipeInv, Voice!Assigning
  <2>3. CASE /\ r2.close = "gather" /\ \A r \in SpeechRequests : Voice!Running(r) => r4[r].late
             /\ r2' = [r2 EXCEPT !.close = "stop"] /\ r8' = 0 /\ r9' = r9 \ {r8}
             /\ UNCHANGED <<r4, r5>>
    BY VoiceOneThread, <2>1, <2>3 DEF Voice!Running, Voice!Types, Voice!RequestTypes, Voice!Pcs,
         Voice!Owners, Voice!TaskTypes, Voice!TaskPcs, Voice!ThreadPcs,
               Voice!ProcessTypes, Voice!PipeTypes, Voice!ProcessInv, Voice!PipeInv, Voice!Asking,
               Voice!Assigning, Voice!Live, Voice!Processes, Voice!NoPipe
  <2>4. CASE UNCHANGED <<r4, r5, r8, r9>>
    BY VoiceOneThread, <2>1, <2>4 DEF Voice!calls, Voice!worker, Voice!Types, Voice!RequestTypes,
         Voice!Pcs, Voice!Owners, Voice!TaskTypes, Voice!TaskPcs,
               Voice!ThreadPcs, Voice!ProcessTypes, Voice!PipeTypes, Voice!ProcessInv, Voice!PipeInv,
               Voice!Asking, Voice!Assigning, Voice!Live, Voice!Processes, Voice!NoPipe
  <2> QED
    BY <1>15, <2>2, <2>3, <2>4 DEF Voice!shutdown
<1>16. CASE Voice!close
  BY VoiceOneThread, <1>16 DEF Voice!close, Voice!worker, Voice!calls, Voice!Types, Voice!RequestTypes,
       Voice!Pcs, Voice!Owners, Voice!TaskTypes, Voice!TaskPcs,
             Voice!ThreadPcs, Voice!ProcessTypes, Voice!PipeTypes, Voice!ProcessInv, Voice!PipeInv,
             Voice!Asking, Voice!Assigning, Voice!Live, Voice!Processes, Voice!NoPipe
<1>17. CASE UNCHANGED Voice!vars
  BY VoiceOneThread, <1>17 DEF Voice!vars, Voice!Types, Voice!RequestTypes, Voice!Pcs, Voice!Owners,
       Voice!TaskTypes, Voice!TaskPcs, Voice!ThreadPcs, Voice!ProcessTypes,
             Voice!PipeTypes, Voice!ProcessInv, Voice!PipeInv, Voice!Asking, Voice!Assigning, Voice!Live,
             Voice!Processes, Voice!NoPipe
<1> QED
  BY <1>1, <1>2, <1>3, <1>4, <1>5, <1>6, <1>7, <1>8, <1>9, <1>10, <1>11, <1>12, <1>13, <1>14, <1>15, <1>16,
        <1>17 DEF Voice!Next, Voice!Call, Voice!Loop


LEMMA VoiceInitInv == ASSUME MaxProcesses \in Nat, Voice!Nobody \notin SpeechRequests, Voice!Init
     PROVE Voice!IInv
<1> USE DEF Voice!Init
<1>1. Voice!Types
  BY DEF Voice!Types, Voice!CallTypes, Voice!RequestTypes, Voice!TaskTypes, Voice!ProcessTypes,
       Voice!PipeTypes, Voice!Owners, Voice!Pcs, Voice!TaskPcs, Voice!ThreadPcs, Voice!NoPipe
<1>2. Voice!LockInv /\ Voice!CloseInv
  BY DEF Voice!LockInv, Voice!CloseInv
<1>3. Voice!TaskInv /\ Voice!ThreadInv
  BY DEF Voice!TaskInv, Voice!ThreadInv, Voice!Running, Voice!Live
<1>4. Voice!ProcessInv /\ Voice!PipeInv
  BY DEF Voice!ProcessInv, Voice!PipeInv, Voice!Assigning, Voice!Asking
<1> QED
  BY <1>1, <1>2, <1>3, <1>4 DEF Voice!IInv, Voice!QuietInv

LEMMA VoiceStepInv == ASSUME MaxProcesses \in Nat, Voice!Nobody \notin SpeechRequests, Voice!IInv,
     [Voice!Next]_Voice!vars PROVE Voice!IInv'
<1>1. Voice!Types /\ Voice!LockInv /\ Voice!CloseInv
  BY DEF Voice!IInv
<1>2. Voice!Types'
  BY <1>1, VoiceCallType, VoiceRequestType, VoiceTaskType, VoiceProcessType, VoicePipeType DEF Voice!Types
<1>3. Voice!LockInv' /\ Voice!CloseInv'
  BY <1>1, VoiceLockStep, VoiceCloseStep
<1>4. ASSUME Voice!Undisturbed' PROVE Voice!QuietInv'
  <2>1. Voice!Undisturbed /\ Voice!TaskInv /\ Voice!ThreadInv /\ Voice!ProcessInv /\ Voice!PipeInv
    BY <1>1, <1>4, VoiceQuietStep DEF Voice!IInv, Voice!QuietInv
  <2>2. Voice!TaskInv' /\ Voice!ThreadInv'
    BY <1>1, <1>4, <2>1, VoiceTaskStep, VoiceThreadStep
  <2>3. Voice!ProcessInv' /\ Voice!PipeInv'
    BY <1>1, <1>4, <2>1, VoiceProcessStep, VoicePipeStep
  <2> QED
    BY <2>2, <2>3 DEF Voice!QuietInv
<1> QED
  BY <1>2, <1>3, <1>4 DEF Voice!IInv

\* The invariant holds of every run of the runtime, however its processes behave.
THEOREM VoiceInvariance == ASSUME MaxProcesses \in Nat, Voice!Nobody \notin SpeechRequests
     PROVE Voice!Spec => []Voice!IInv
BY VoiceInitInv, VoiceStepInv, PTL DEF Voice!Spec

LEMMA VoiceIsTyped == ASSUME MaxProcesses \in Nat, Voice!IInv PROVE Voice!TypeOK
<1>1. Voice!CallTypes /\ Voice!RequestTypes /\ Voice!TaskTypes /\ Voice!ProcessTypes
  BY DEF Voice!IInv, Voice!Types
<1>2. r8 \in 0..MaxProcesses /\ r9 \subseteq Voice!Processes
  BY <1>1 DEF Voice!ProcessTypes, Voice!Processes
<1>3. \A r \in SpeechRequests : r4[r].pc \in Voice!Pcs /\ r5[r] \in Voice!TaskPcs
  BY <1>1 DEF Voice!RequestTypes, Voice!TaskTypes
<1> QED
  BY <1>1, <1>2, <1>3 DEF Voice!TypeOK, Voice!CallTypes, Voice!Owners, Voice!Pcs, Voice!TaskPcs

\* Between two requests nothing of the earlier one is left, and no answer is another's.
LEMMA VoiceIsSafe == ASSUME Voice!Nobody \notin SpeechRequests, Voice!IInv
     PROVE Voice!AnswersAreOwn /\ Voice!NothingRunsUnowned
<1>1. ASSUME Voice!Undisturbed PROVE \A r \in SpeechRequests : r4[r].answer \in {Voice!Nobody, r}
  BY <1>1 DEF Voice!IInv, Voice!QuietInv, Voice!PipeInv
<1>2. ASSUME Voice!Undisturbed, r3 = Voice!Nobody, ~r2.closed
      PROVE  r9 \subseteq {r8} /\ \A r \in SpeechRequests : ~Voice!Running(r) /\ r6[r] \in {"none", "ended"}
  <2>1. Voice!TaskInv /\ Voice!ThreadInv /\ Voice!ProcessInv /\ Voice!CloseInv
    BY <1>2 DEF Voice!IInv, Voice!QuietInv
  <2>2. \A r \in SpeechRequests : ~Voice!Running(r)
    BY <1>2, <2>1 DEF Voice!TaskInv, Voice!CloseInv
  <2>3. \A r \in SpeechRequests : r6[r] \in {"none", "ended"}
    BY <2>1, <2>2 DEF Voice!ThreadInv, Voice!Live, Voice!Running
  <2>4. r9 \subseteq {r8}
    BY <2>1, <2>3 DEF Voice!ProcessInv, Voice!Assigning
  <2> QED
    BY <2>2, <2>3, <2>4
<1>3. ASSUME Voice!Undisturbed, r2.close = "returned" PROVE r9 = {}
  BY <1>3 DEF Voice!IInv, Voice!QuietInv, Voice!ProcessInv
<1> QED
  BY <1>1, <1>2, <1>3 DEF Voice!AnswersAreOwn, Voice!NothingRunsUnowned

\* No request is given the answer to an earlier one (json_worker.py and sherpa_onnx.py): a
\* process that may still answer is killed, or waited for, before the lock is free again.
THEOREM VoiceOwnAnswers == ASSUME MaxProcesses \in Nat, Voice!Nobody \notin SpeechRequests
     PROVE Voice!Spec => []Voice!AnswersAreOwn
<1>1. Voice!IInv => Voice!AnswersAreOwn
  BY VoiceIsSafe
<1> QED
  BY <1>1, VoiceInvariance, PTL

\* A free provider has no task, thread or stray process behind it, and a closed runtime no
\* process at all (runtime.py).
THEOREM VoiceUnowned == ASSUME MaxProcesses \in Nat, Voice!Nobody \notin SpeechRequests
     PROVE Voice!Spec => []Voice!NothingRunsUnowned
<1>1. Voice!IInv => Voice!NothingRunsUnowned
  BY VoiceIsSafe
<1> QED
  BY <1>1, VoiceInvariance, PTL

(* ----------------------------- the composition ----------------------------- *)

\* A behaviour is one of the component that `part` names.
Services == {"assistant", "voice", "browser", "phone", "ota", "web", "utterance"}
IInv ==
  /\ part \in Services
  /\ part = "assistant" => Assistant!IInv
  /\ part = "voice" => Voice!IInv
  /\ part = "browser" => WsBridge!IInv
  /\ part = "phone" => LanBridge!IInv
  /\ part = "ota" => Ota!IInv
  /\ part = "web" => WebBackend!IInv
  /\ part = "utterance" => Utterance!IInv

\* What the components assume of their constants.
LEMMA Assumptions ==
  /\ MaxRequests \in Nat /\ MaxProcesses \in Nat /\ Voice!Nobody \notin SpeechRequests
  /\ IsFiniteSet(Phones) /\ HttpLimit \in Nat /\ OtaConstants
  /\ NoTarget \notin Targets /\ WebBackend!IsFiniteSet(RequestIds) /\ WebBackend!IsFiniteSet(Handlers)
  /\ RequestBudget \in Nat /\ ThreadsMayFail \in BOOLEAN /\ MaxTries \in Nat
  /\ Models # {} /\ MaxCalls \in Nat
BY ServicesConstants, SameCardinality DEF Voice!Nobody, OtaConstants, Ota!Rows

LEMMA InitIInv == Init => IInv
<1> SUFFICES ASSUME Init PROVE IInv
  OBVIOUS
<1>1. part \in Services
  BY DEF Init, Services
<1>2. part = "assistant" => Assistant!IInv
  BY Assumptions, Assistant!InitInv DEF Init
<1>3. part = "voice" => Voice!IInv
  BY Assumptions, VoiceInitInv DEF Init
<1>4. part = "browser" => WsBridge!IInv
  BY BrowserInit DEF Init
<1>5. part = "phone" => LanBridge!IInv
  BY Assumptions, PhoneInitInv DEF Init
<1>6. part = "ota" => Ota!IInv
  BY Assumptions, OtaInitInv DEF Init
<1>7. part = "web" => WebBackend!IInv
  BY Assumptions, WebBackend!InitOK DEF Init
<1>8. part = "utterance" => Utterance!IInv
  BY Assumptions, UtteranceInitInv DEF Init
<1> QED
  BY <1>1, <1>2, <1>3, <1>4, <1>5, <1>6, <1>7, <1>8 DEF IInv

LEMMA StepIInv == IInv /\ [Next]_vars => IInv'
<1> SUFFICES ASSUME IInv, [Next]_vars PROVE IInv'
  OBVIOUS
<1>1. part' = part /\ part \in Services
  BY DEF IInv, Next, vars
<1>2. ASSUME part = "assistant" PROVE Assistant!IInv'
  <2>1. [Assistant!Next]_(Assistant!vars)
    BY <1>2 DEF Next, vars, Assistant!vars, Assistant!web, Assistant!world
  <2> QED
    BY <1>2, <2>1, Assumptions, Assistant!StepInv DEF IInv
<1>3. ASSUME part = "voice" PROVE Voice!IInv'
  <2>1. [Voice!Next]_(Voice!vars)
    BY <1>3 DEF Next, vars, Voice!vars
  <2> QED
    BY <1>3, <2>1, Assumptions, VoiceStepInv DEF IInv
<1>4. ASSUME part = "browser" PROVE WsBridge!IInv'
  <2>1. [WsBridge!Next]_(WsBridge!vars)
    BY <1>4 DEF Next, vars, WsBridge!vars
  <2> QED
    BY <1>4, <2>1, BrowserStep DEF IInv
<1>5. ASSUME part = "phone" PROVE LanBridge!IInv'
  <2>1. [LanBridge!Next]_(LanBridge!vars)
    BY <1>5 DEF Next, vars, LanBridge!vars
  <2> QED
    BY <1>5, <2>1, Assumptions, PhoneStepInv DEF IInv
<1>6. ASSUME part = "ota" PROVE Ota!IInv'
  <2>1. [Ota!Next]_(Ota!vars)
    BY <1>6 DEF Next, vars, Ota!vars
  <2> QED
    BY <1>6, <2>1, Assumptions, OtaStepInv DEF IInv
<1>7. ASSUME part = "web" PROVE WebBackend!IInv'
  <2>1. [WebBackend!Next]_(WebBackend!vars)
    BY <1>7 DEF Next, vars, WebBackend!vars, WebBackend!deviceVars, WebBackend!lockVars, WebBackend!jobVars,
           WebBackend!handlerVars, WebBackend!historyVars, WebBackend!sentVars
  <2> QED
    BY <1>7, <2>1, Assumptions, WebBackend!StepOK DEF IInv
<1>8. ASSUME part = "utterance" PROVE Utterance!IInv'
  <2>1. [Utterance!Next]_(Utterance!vars)
    BY <1>8 DEF Next, vars, Utterance!vars
  <2> QED
    BY <1>8, <2>1, Assumptions, UtteranceStepInv DEF IInv
<1> QED
  BY <1>1, <1>2, <1>3, <1>4, <1>5, <1>6, <1>7, <1>8 DEF IInv

\* The invariant of every component, for every value of the constants.
THEOREM ServicesInvariance == Spec => []IInv
BY InitIInv, StepIInv, PTL DEF Spec

\* The types of the components' variables.
THEOREM ServicesTypes == Spec => []TypeOK
<1>1. ASSUME IInv PROVE TypeOK
  <2>1. part = "assistant" => Assistant!TypeOK
    BY <1>1, Assumptions, Assistant!IsSafe DEF IInv
  <2>2. part = "voice" => Voice!TypeOK
    BY <1>1, Assumptions, VoiceIsTyped DEF IInv
  <2>3. part = "browser" => WsBridge!TypeOK
    BY <1>1 DEF IInv, WsBridge!IInv
  <2>4. part = "phone" => LanBridge!TypeOK
    BY <1>1, Assumptions, PhoneIsSafe DEF IInv
  <2>5. part = "ota" => Ota!TypeOK
    BY <1>1 DEF IInv, Ota!IInv, Ota!Types
  <2>6. part = "web" => WebBackend!TypeOK
    BY <1>1 DEF IInv, WebBackend!IInv
  <2>7. part = "utterance" => Utterance!TypeOK
    BY <1>1, Assumptions, UtteranceIsSafe DEF IInv
  <2>8. part \in Services
    BY <1>1 DEF IInv
  <2> QED
    BY <2>1, <2>2, <2>3, <2>4, <2>5, <2>6, <2>7, <2>8 DEF TypeOK, Services
<1> QED
  BY <1>1, ServicesInvariance, PTL

\* What is said, shown and recorded is of the last request and true, whatever failed on the way
\* (web/server.py, application.py, voice/runtime.py, whisper's request_json()).
THEOREM AnswersTrue == Spec => []AnswersAreTrue
<1>1. ASSUME IInv PROVE AnswersAreTrue
  <2>1. part = "assistant" => /\ Assistant!SpeechIsLatest /\ Assistant!NotSentIsTrue
                              /\ Assistant!JournalAgrees /\ Assistant!ShowsLastWork
    BY <1>1, Assumptions, Assistant!IsSafe DEF IInv
  <2>2. part = "voice" => Voice!AnswersAreOwn
    BY <1>1, Assumptions, VoiceIsSafe DEF IInv
  <2>3. part = "utterance" => Utterance!WordsWereSaid /\ Utterance!ModelIsKnown
    BY <1>1 DEF IInv, Utterance!IInv
  <2> QED
    BY <2>1, <2>2, <2>3 DEF AnswersAreTrue
<1> QED
  BY <1>1, ServicesInvariance, PTL

\* Nothing acts for what is gone: a connection, a session, a request, a release that has its issue
\* (application.py device_call(), server.py close(), voice/runtime.py, check_ota.py).
THEOREM NothingStray == Spec => []NothingIsStray
<1>1. ASSUME IInv PROVE NothingIsStray
  <2>1. part = "assistant" => Assistant!SentWherePinned /\ Assistant!IdleIsIdle /\ Assistant!CloseLeavesSession
    BY <1>1, Assumptions, Assistant!IsSafe DEF IInv
  <2>2. part = "voice" => Voice!NothingRunsUnowned
    BY <1>1, Assumptions, VoiceIsSafe DEF IInv
  <2>3. part = "ota" => Ota!OneIssueEach /\ Ota!NothingIsMissed
    BY <1>1 DEF IInv, Ota!IInv
  <2> QED
    BY <2>1, <2>2, <2>3 DEF NothingIsStray
<1> QED
  BY <1>1, ServicesInvariance, PTL

\* One browser has the player's one control client, the forwarder's counts are its connections, and
\* the recognizer hears one utterance at a time (ws_bridge.py, lan_bridge.py, whisper's server).
THEOREM OneClientOnly == Spec => []OneClient
<1>1. ASSUME IInv PROVE OneClient
  <2>1. part = "browser" => WsBridge!ChannelIsReserved
    BY <1>1, BrowserReserves DEF IInv
  <2>2. part = "phone" => LanBridge!ForwarderCounts
    BY <1>1, Assumptions, PhoneIsSafe DEF IInv
  <2>3. part = "utterance" => Utterance!HeardAlone
    BY <1>1, Assumptions, UtteranceIsSafe DEF IInv
  <2> QED
    BY <2>1, <2>2, <2>3 DEF OneClient
<1> QED
  BY <1>1, ServicesInvariance, PTL

=============================================================================
