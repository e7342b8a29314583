------------------------------ MODULE LanBridge ------------------------------
(* The LAN forwarder of one trusted phone and its discovery announcements        *)
(* (bridge/lan_bridge.py): connections that are admitted, counted, pumped and       *)
(* dropped, the announcer that asks the player in between, and the timed stop.      *)
EXTENDS Naturals, FiniteSets

CONSTANTS Phones,     \* TCP connections to the forwarder
          HttpLimit   \* its limit of HTTP connections, 8 in the code

VARIABLES
  lan,       \* each connection: kind, position, upstream TCP, open directions
  count,     \* Proxy.count
  tasks,     \* Proxy.tasks
  doomed,    \* tasks that Proxy.close() has cancelled
  announcer, \* announce(): "asleep", "checking" (HTTP) or "stopped"
  rash,      \* history: a phone was invited while one was being served
  run        \* run(): "open", "closing" (its tasks), "waiting" (its servers) or "stopped"

vars == <<lan, count, tasks, doomed, announcer, rash, run>>
rest == <<announcer, rash, run>>

Kinds == {"control", "http"}
limit(kind) == IF kind = "control" THEN 1 ELSE HttpLimit
Unused == [pc |-> "none", kind |-> "http", up |-> FALSE, pumps |-> 2]

Init ==
  /\ lan = [p \in Phones |-> Unused] /\ count = [k \in Kinds |-> 0] /\ tasks = {} /\ doomed = {}
  /\ announcer = "asleep" /\ rash = FALSE /\ run = "open"

Lan(p, pc) == lan' = [lan EXCEPT ![p].pc = pc]
Busy(p) == lan[p].pc \in {"connecting", "pumping", "closing"}
Closed(p) == lan' = [lan EXCEPT ![p].pc = "done", ![p].up = FALSE]

\* The socket is accepted; the handler runs later, even after the server's close().
Accept(p) ==
  /\ lan[p].pc = "none" /\ run = "open"
  /\ \E kind \in Kinds : lan' = [lan EXCEPT ![p].pc = "accepted", ![p].kind = kind]
  /\ UNCHANGED <<count, tasks, doomed, rest>>

\* A foreign peer, or one connection too many, is closed at once.
handle(p) ==
  /\ lan[p].pc = "accepted"
  /\ \/ Lan(p, "done") /\ UNCHANGED <<count, tasks>>
     \/ /\ count[lan[p].kind] < limit(lan[p].kind) /\ Lan(p, "connecting")
        /\ tasks' = tasks \union {p} /\ count' = [count EXCEPT ![lan[p].kind] = @ + 1]
  /\ UNCHANGED <<doomed, rest>>

\* One attempt of three seconds.
Upstream(p) ==
  /\ lan[p].pc = "connecting"
  /\ Lan(p, "closing") \/ lan' = [lan EXCEPT ![p].pc = "pumping", ![p].up = TRUE]
  /\ UNCHANGED <<count, tasks, doomed, rest>>

\* A direction ends (half-close); the last one, or a failing one, ends the connection.
pump(p) ==
  /\ lan[p].pc = "pumping"
  /\ \/ lan[p].pumps = 2 /\ lan' = [lan EXCEPT ![p].pumps = 1]
     \/ Lan(p, "closing")
  /\ UNCHANGED <<count, tasks, doomed, rest>>

\* Mutant: the count is not taken back.
Bug_Forwarded(p) ==
  /\ lan[p].pc = "closing" /\ Closed(p)
  /\ tasks' = tasks \ {p} /\ doomed' = doomed \ {p}
  /\ UNCHANGED <<count, rest>>

\* The finally block: both streams closed, the connection counted off.
Forwarded(p) ==
  /\ lan[p].pc = "closing" /\ Closed(p)
  /\ count' = [count EXCEPT ![lan[p].kind] = @ - 1]
  /\ tasks' = tasks \ {p} /\ doomed' = doomed \ {p}
  /\ UNCHANGED rest

\* Cancelled while its finally block waits, a handler ends without counting itself off.
Cancelled(p) ==
  /\ p \in doomed /\ doomed' = doomed \ {p}
  /\ IF lan[p].pc = "closing" THEN Closed(p) ELSE Lan(p, "closing")
  /\ UNCHANGED <<count, tasks, rest>>

\* announce(): idle, the player's HTTP answers, and still idle.
http_ready ==
  /\ announcer = "asleep" /\ count["control"] = 0 /\ announcer' = "checking"
  /\ UNCHANGED <<lan, count, tasks, doomed, rash, run>>

Serving == \E p \in Phones : lan[p].kind = "control" /\ Busy(p)

\* Mutant: the count is not read again after the request to the player.
Bug_announce ==
  /\ announcer = "checking" /\ announcer' = "asleep" /\ rash' = (rash \/ Serving)
  /\ UNCHANGED <<lan, count, tasks, doomed, run>>

announce ==
  /\ announcer = "checking" /\ announcer' = "asleep"
  /\ rash' = (rash \/ (count["control"] = 0 /\ Serving))
  /\ UNCHANGED <<lan, count, tasks, doomed, run>>

\* The time is up: no more announcements nor connections, and the tasks are cancelled.
Stop ==
  /\ run = "open" /\ run' = "closing" /\ announcer' = "stopped" /\ doomed' = tasks
  /\ UNCHANGED <<lan, count, tasks, rash>>

\* Mutant: close() waits until every task has removed itself.
Bug_Gathered == run = "closing" /\ tasks = {} /\ run' = "waiting"
                /\ UNCHANGED <<lan, count, tasks, doomed, announcer, rash>>

Gathered == run = "closing" /\ doomed = {} /\ run' = "waiting"
            /\ UNCHANGED <<lan, count, tasks, doomed, announcer, rash>>

\* The servers wait for every connection they have accepted, those too that came too
\* late to be cancelled.
wait_closed ==
  /\ run = "waiting" /\ (\A p \in Phones : lan[p].pc \in {"none", "done"}) /\ run' = "stopped"
  /\ UNCHANGED <<lan, count, tasks, doomed, announcer, rash>>

Step == (\E p \in Phones : handle(p) \/ Upstream(p) \/ pump(p) \/ Forwarded(p) \/ Cancelled(p))
        \/ Gathered \/ wait_closed
Next == Step \/ http_ready \/ announce \/ Stop \/ \E p \in Phones : Accept(p)

\* Reads and drains are bounded by timeouts, so a connection goes on only while both its
\* ends send: they stop some time.  Nobody has to stop the forwarder.
Fairness == WF_vars(Step)
Spec == Init /\ [][Next]_vars /\ Fairness

(* --------------------------------- properties --------------------------------- *)

TypeOK ==
  /\ lan \in [Phones -> [pc : {"none", "accepted", "connecting", "pumping", "closing", "done"}, kind : Kinds,
                         up : BOOLEAN, pumps : 1..2]]
  /\ count \in [Kinds -> 0..Cardinality(Phones)] /\ doomed \subseteq Phones /\ tasks \subseteq Phones
  /\ announcer \in {"asleep", "checking", "stopped"} /\ rash \in BOOLEAN
  /\ run \in {"open", "closing", "waiting", "stopped"}

\* The counts are the connections being served and never above their limits; no phone is
\* invited while one is served, although announce() waits between its look and its
\* datagram; and none is left when the forwarder has stopped, even if it came during the
\* stop (handle(), announce(), run()).
ForwarderCounts ==
  /\ \A k \in Kinds : /\ count[k] <= limit(k)
                      /\ run = "open" => count[k] = Cardinality({p \in Phones : lan[p].kind = k /\ Busy(p)})
  /\ ~rash
  /\ run = "stopped" => \A p \in Phones : ~lan[p].up

\* What must end: a forwarder whose time is up stops.
Pending == run \in {"closing", "waiting"}

(* ---------------------------- inductive invariant ---------------------------- *)

ServingAs(k) == {p \in Phones : lan[p].kind = k /\ Busy(p)}
Pcs == {"none", "accepted", "connecting", "pumping", "closing", "done"}

Types ==
  /\ lan \in [Phones -> [pc : Pcs, kind : Kinds, up : BOOLEAN, pumps : 1..2]]
  /\ count \in [Kinds -> Nat] /\ run \in {"open", "closing", "waiting", "stopped"} /\ tasks \subseteq Phones
  /\ announcer \in {"asleep", "checking", "stopped"} /\ rash \in BOOLEAN

\* A cancelled finally block keeps its count, so while the forwarder stops the counts may
\* be above what is served, never below: a count of zero still means that nobody is.
CountInv ==
  \A k \in Kinds : /\ Cardinality(ServingAs(k)) <= count[k] /\ count[k] <= limit(k)
                   /\ run = "open" => count[k] = Cardinality(ServingAs(k))

\* Only what is being served can be cancelled, and only what is being served is upstream.
TaskInv ==
  /\ run = "open" => doomed = {} /\ tasks = {p \in Phones : Busy(p)}
  /\ doomed \subseteq {p \in Phones : Busy(p)}
  /\ \A p \in Phones : lan[p].up => Busy(p)
  /\ run = "stopped" => \A p \in Phones : lan[p].pc \in {"none", "done"}
  /\ ~rash

\* What is counted came through handle(), each connection once.
HandledAs(k) == {p \in Phones : lan[p].kind = k /\ lan[p].pc \notin {"none", "accepted"}}
SeenInv == \A k \in Kinds : count[k] <= Cardinality(HandledAs(k))

IInv == Types /\ CountInv /\ TaskInv /\ SeenInv
=============================================================================
