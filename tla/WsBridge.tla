------------------------------- MODULE WsBridge -------------------------------
(* The WebSocket bridge in front of the player's one control channel             *)
(* (bridge/ws_bridge.py): browsers that come, leave and have their handlers       *)
(* cancelled, a player that drops its client and is slow to listen again, and      *)
(* other clients of the player.  How frames are cut and read is LinkClient's.     *)
EXTENDS Naturals, FiniteSets

CONSTANT Browsers   \* WebSocket requests

VARIABLES
  active,    \* Bridge.active: the control channel is reserved
  ws,        \* each request: position of its handler, its TCP connection and its peer
  channel,   \* the player: "listening", whom it serves ("other": not ours), "handover"
  bridge     \* "serving" or "stopping"

vars == <<active, ws, channel, bridge>>

Fresh == [pc |-> "none", tcp |-> "none", peer |-> TRUE]
Init == active = FALSE /\ ws = [b \in Browsers |-> Fresh] /\ channel = "listening" /\ bridge = "serving"

Ws(b, pc) == ws' = [ws EXCEPT ![b].pc = pc]
Owns(b) == ws[b].pc \notin {"none", "done"}
rest == <<active, channel, bridge>>

(* -------------------------------- the player -------------------------------- *)

\* It stops listening while it serves a client, and for a moment afterwards.
Handover ==
  /\ \/ channel = "handover" /\ channel' = "listening"
     \/ channel = "listening" /\ channel' = "other"
     \/ channel = "other" /\ channel' = "handover"
     \/ \E b \in Browsers : channel = b /\ ws[b].tcp # "open" /\ channel' = "handover"
  /\ UNCHANGED <<active, ws, bridge>>

\* It drops its client at any time; the client's reads end.
Drop(b) ==
  /\ channel = b /\ ws[b].tcp = "open" /\ channel' = "handover"
  /\ ws' = [ws EXCEPT ![b].tcp = "ended"]
  /\ UNCHANGED <<active, bridge>>

(* --------------------------------- a request --------------------------------- *)

\* Mutant: the channel is reserved once it is open.
Bug_websocket(b) ==
  /\ ws[b].pc = "none" /\ bridge = "serving"
  /\ IF active THEN Ws(b, "done") ELSE Ws(b, "connecting")
  /\ UNCHANGED rest

\* The channel is reserved before the first await.
websocket(b) ==
  /\ ws[b].pc = "none" /\ bridge = "serving"
  /\ IF active THEN Ws(b, "done") /\ UNCHANGED active
     ELSE active' = TRUE /\ Ws(b, "connecting")
  /\ UNCHANGED <<channel, bridge>>

\* Retried while the player refuses, for three seconds.
connect_tcp(b) ==
  /\ ws[b].pc = "connecting"
  /\ \/ channel = "listening" /\ channel' = b
        /\ ws' = [ws EXCEPT ![b].pc = "preparing", ![b].tcp = "open"]
     \/ Ws(b, "cleanup") /\ UNCHANGED channel
  /\ UNCHANGED <<active, bridge>>

prepare(b) ==
  /\ ws[b].pc = "preparing"
  /\ Ws(b, "piping") \/ Ws(b, "cleanup")
  /\ UNCHANGED rest

\* An invalid frame or a failed write ends its pump, and is raised into a close handshake.
Breaks(b) == ws[b].pc = "piping" /\ Ws(b, "closing") /\ UNCHANGED rest

\* The browser's pump ends with the browser, or fails to write what it still sent.
from_ws(b) == /\ ws[b].pc = "piping" /\ ~ws[b].peer
              /\ Ws(b, "closing") \/ Ws(b, "cleanup")
              /\ UNCHANGED rest

\* Mutant: both pumps are waited for.
Bug_from_tcp(b) == /\ ws[b].pc = "piping" /\ ws[b].tcp = "ended" /\ ~ws[b].peer
                   /\ Ws(b, "cleanup") \/ Ws(b, "closing")
                   /\ UNCHANGED rest

from_tcp(b) == /\ ws[b].pc = "piping" /\ ws[b].tcp = "ended"
               /\ Ws(b, "cleanup") \/ Ws(b, "closing")
               /\ UNCHANGED rest

WsCloses(b) == ws[b].pc = "closing" /\ Ws(b, "cleanup") /\ UNCHANGED rest

\* The finally block: the TCP connection is closed, then awaits, then the release.
WriterCloses(b) ==
  /\ ws[b].pc = "cleanup"
  /\ ws' = [ws EXCEPT ![b].pc = "closed", ![b].tcp = IF @ = "none" THEN @ ELSE "closed"]
  /\ UNCHANGED rest

Release(b) ==
  /\ ws[b].pc = "closed" /\ Ws(b, "done") /\ active' = FALSE
  /\ UNCHANGED <<channel, bridge>>

\* Mutant: the release is one of the steps a cancellation can skip.
Bug_Cancel(b) ==
  /\ ~ws[b].peer
  /\ \/ ws[b].pc \in {"connecting", "preparing", "piping", "closing"} /\ Ws(b, "cleanup")
     \/ ws[b].pc = "closed" /\ Ws(b, "done")
  /\ UNCHANGED rest

\* The handler of a browser that is gone may be cancelled at any await, those of the
\* finally block included.
Cancel(b) ==
  /\ ~ws[b].peer
  /\ \/ /\ ws[b].pc \in {"connecting", "preparing", "piping", "closing"}
        /\ Ws(b, "cleanup") /\ UNCHANGED active
     \/ ws[b].pc = "closed" /\ Ws(b, "done") /\ active' = FALSE
  /\ UNCHANGED <<channel, bridge>>

Leave(b) == ws[b].peer /\ ws' = [ws EXCEPT ![b].peer = FALSE] /\ UNCHANGED rest

\* The bridge stops: no new requests, and every open WebSocket is closed.
shutdown ==
  /\ bridge = "serving" /\ bridge' = "stopping"
  /\ ws' = [b \in Browsers |-> IF ws[b].pc \in {"piping", "closing", "cleanup", "closed"}
                                 THEN [ws[b] EXCEPT !.peer = FALSE] ELSE ws[b]]
  /\ UNCHANGED <<active, channel>>

Step(b) == \/ connect_tcp(b) \/ prepare(b) \/ from_ws(b) \/ from_tcp(b) \/ WsCloses(b) \/ WriterCloses(b)
           \/ Release(b) \/ Cancel(b)
Next == Handover \/ shutdown \/ \E b \in Browsers : Step(b) \/ websocket(b) \/ Breaks(b) \/ Leave(b) \/ Drop(b)

\* Connects, writes, handshakes and the heartbeat are bounded by timeouts.
Fairness == \A b \in Browsers : WF_vars(Step(b))
Spec == Init /\ [][Next]_vars /\ Fairness

(* --------------------------------- properties --------------------------------- *)

TypeOK ==
  /\ active \in BOOLEAN /\ bridge \in {"serving", "stopping"}
  /\ ws \in [Browsers -> [pc : {"none", "connecting", "preparing", "piping", "closing", "cleanup", "closed",
                                "done"},
                          tcp : {"none", "open", "ended", "closed"}, peer : BOOLEAN]]
  /\ channel \in {"listening", "other", "handover"} \union Browsers

\* One browser at a time has, or is getting, the player's control channel, and another is
\* refused only while a handler still holds it, even a handler cancelled while it cleans
\* up (ws_bridge.py:77, :114).
ChannelIsReserved ==
  /\ Cardinality({b \in Browsers : Owns(b)}) = (IF active THEN 1 ELSE 0)
  /\ \A b \in Browsers : ws[b].tcp \in {"open", "ended"} => Owns(b)

\* What must end: a browser that has left, or lost the player, gives the channel back.
Pending == \E b \in Browsers : (~ws[b].peer \/ ws[b].tcp = "ended") /\ ws[b].pc \notin {"none", "done"}
(* ---------------------------- inductive invariant ---------------------------- *)

Owners == {b \in Browsers : Owns(b)}

\* The reservation has one owner, and only while it is set: a cardinality alone does not say
\* who may release it.
OwnerInv ==
  /\ active => \E b \in Browsers : Owners = {b}
  /\ ~active => Owners = {}

\* A connection is there from the end of connect_tcp to the start of the finally block's awaits.
TcpInv ==
  \A b \in Browsers :
    /\ ws[b].pc \in {"none", "connecting"} => ws[b].tcp = "none"
    /\ ws[b].pc \in {"closed", "done"} => ws[b].tcp \in {"none", "closed"}

IInv == TypeOK /\ OwnerInv /\ TcpInv
=============================================================================
