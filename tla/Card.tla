---------------------------------- MODULE Card ----------------------------------
(* The SD card of one emulated player (runtime/card.py): its image, the loop devices  *)
(* it is attached to, and the guest's block nodes, under processes that build,         *)
(* insert and detach it at the same time and whose steps can fail.                      *)
EXTENDS Naturals, FiniteSets

CONSTANTS Users,    \* processes that call build, insert or detach
          Loops,    \* loop devices of the machine
          MaxCalls  \* bound: calls

VARIABLES
  image,   \* sdcard.img: "none", "raw" (no filesystem yet) or "card", and its layout
  loop,    \* each loop device: attached to this image, its partition known, held by a mount, detached by its end,
           \* and (history) whether an insert that succeeded gave it to the guest
  node,    \* the loop the guest's nodes name, or "none"
  user,    \* each process: call, position, loop, whether it attached it itself
  calls    \* history: calls so far

vars == <<image, loop, node, user, calls>>

Detached == [attached |-> FALSE, scanned |-> FALSE, held |-> FALSE, going |-> FALSE, given |-> FALSE]
Idle == [call |-> "none", pc |-> "idle", loop |-> "none", mine |-> FALSE]

Init ==
  /\ image = [state |-> "card", split |-> FALSE] /\ loop = [l \in Loops |-> Detached]
  /\ node = "none" /\ user = [u \in Users |-> Idle] /\ calls = 0

Do(u, pc) == user' = [user EXCEPT ![u].pc = pc]
attached == {l \in Loops : loop[l].attached}

\* A loop device that is detached while mounted stays until the mount ends.
Dropped(l) == [loop[l] EXCEPT !.attached = @ /\ loop[l].held, !.going = loop[l].held]
Release(l) == loop' = [loop EXCEPT ![l] = Dropped(l)]

Begin(u) ==
  /\ user[u].pc = "idle" /\ calls < MaxCalls /\ calls' = calls + 1
  /\ \/ /\ image.state = "card" /\ user' = [user EXCEPT ![u] = [Idle EXCEPT !.call = "insert", !.pc = "loops"]]
        /\ UNCHANGED image
     \* A new image under the same name; the guest is off and its card detached.
     \/ /\ attached = {} /\ \A v \in Users : user[v].pc = "idle"
        /\ \E split \in BOOLEAN : image' = [state |-> "raw", split |-> split]
        /\ user' = [user EXCEPT ![u] = [Idle EXCEPT !.call = "build", !.pc = "loops"]]
     \/ user' = [user EXCEPT ![u] = [Idle EXCEPT !.call = "detach", !.pc = "detach"]] /\ UNCHANGED image
  /\ UNCHANGED <<loop, node>>

\* A device that is attached already is shared; else a free one is taken.
loops(u) ==
  /\ user[u].pc = "loops"
  /\ IF attached # {}
       THEN \E l \in attached : user' = [user EXCEPT ![u].pc = "scan", ![u].loop = l]
       ELSE \E l \in Loops : user' = [user EXCEPT ![u].pc = "attach", ![u].loop = l]
  /\ UNCHANGED <<image, loop, node, calls>>

\* losetup fails when another process took the device meanwhile.
losetup(u) ==
  /\ user[u].pc = "attach"
  /\ IF loop[user[u].loop].attached THEN user' = [user EXCEPT ![u].pc = "failed", ![u].loop = "none"] /\ UNCHANGED loop
     ELSE /\ loop' = [loop EXCEPT ![user[u].loop] = [Detached EXCEPT !.attached = TRUE]]
          /\ user' = [user EXCEPT ![u].pc = "scan", ![u].mine = TRUE]
  /\ UNCHANGED <<image, node, calls>>

Scanned(l) == loop[l].attached /\ loop' = [loop EXCEPT ![l].scanned = TRUE] /\ UNCHANGED <<image, node, user, calls>>

\* Mutant: a failed attach leaves its loop device behind.
Bug_attach(u) ==
  /\ user[u].pc = "scan"
  /\ \/ /\ loop[user[u].loop].attached /\ (~image.split \/ loop[user[u].loop].scanned)
        /\ Do(u, IF user[u].call = "build" THEN "fill" ELSE "nodes")
     \/ Do(u, "failed")
  /\ UNCHANGED <<image, loop, node, calls>>

\* The partition appears, or five seconds pass: what this call attached is detached again.
attach(u) ==
  /\ user[u].pc = "scan"
  /\ \/ /\ loop[user[u].loop].attached /\ (~image.split \/ loop[user[u].loop].scanned)
        /\ Do(u, IF user[u].call = "build" THEN "fill" ELSE "nodes") /\ UNCHANGED loop
     \/ /\ (image.split /\ ~loop[user[u].loop].scanned) \/ ~loop[user[u].loop].attached
        /\ Do(u, "failed") /\ IF user[u].mine THEN Release(user[u].loop) ELSE UNCHANGED loop
  /\ UNCHANGED <<image, node, calls>>

\* make_nodes: the nodes replace their predecessors.
insert(u) ==
  /\ user[u].pc = "nodes" /\ node' = user[u].loop /\ user' = [user EXCEPT ![u] = Idle]
  /\ loop' = [loop EXCEPT ![node'].given = loop[node'].attached]
  /\ UNCHANGED <<image, calls>>

\* The filesystem is made, mounted, filled and unmounted; when a step fails neither a loop
\* device nor a half-built image is left.
build(u) ==
  /\ \/ user[u].pc = "fill" /\ Do(u, "copied") /\ UNCHANGED <<image, loop>>
     \/ user[u].pc = "copied" /\ image' = [image EXCEPT !.state = "card"] /\ Release(user[u].loop)
        /\ user' = [user EXCEPT ![u] = Idle]
     \/ /\ user[u].call = "build" /\ user[u].pc \in {"fill", "failed"}
        /\ image' = [image EXCEPT !.state = "none"] /\ user' = [user EXCEPT ![u] = Idle]
        /\ IF user[u].loop = "none" THEN UNCHANGED loop ELSE Release(user[u].loop)
  /\ UNCHANGED <<node, calls>>

Fails(u) == user[u].pc = "failed" /\ user[u].call = "insert" /\ user' = [user EXCEPT ![u] = Idle]
            /\ UNCHANGED <<image, loop, node, calls>>

detach(u) ==
  /\ user[u].pc = "detach" /\ user' = [user EXCEPT ![u] = Idle]
  /\ loop' = [l \in Loops |-> Dropped(l)]
  /\ UNCHANGED <<image, node, calls>>

\* The guest mounts its card and unmounts it: a detached device goes with its mount.
Mount ==
  /\ node # "none" /\ \A u \in Users : user[u].call # "build"
  /\ \/ /\ loop[node].attached /\ ~loop[node].held /\ loop' = [loop EXCEPT ![node].held = TRUE]
     \/ \E l \in Loops :
          loop[l].held /\ loop' = [loop EXCEPT ![l].held = FALSE, ![l].attached = ~loop[l].going]
  /\ UNCHANGED <<image, node, user, calls>>

Next ==
  \/ Mount
  \/ \E l \in Loops : Scanned(l)
  \/ \E u \in Users : Begin(u) \/ loops(u) \/ losetup(u) \/ attach(u) \/ insert(u) \/ build(u) \/ Fails(u) \/ detach(u)
Spec == Init /\ [][Next]_vars

(* --------------------------------- properties --------------------------------- *)

TypeOK ==
  /\ image \in [state : {"none", "raw", "card"}, split : BOOLEAN]
  /\ loop \in [Loops -> [attached : BOOLEAN, scanned : BOOLEAN, held : BOOLEAN, going : BOOLEAN, given : BOOLEAN]]
  /\ node \in Loops \union {"none"} /\ \A u \in Users : user[u].loop \in Loops \union {"none"}

\* Whichever step of a call fails and whoever attaches or detaches meanwhile: when the calls
\* are over no half-built image is left, and is attached only what an insert gave the
\* guest or its mount still holds.
NothingLeftBehind ==
  (\A u \in Users : user[u].pc = "idle") =>
    image.state # "raw" /\ \A l \in attached : loop[l].given \/ loop[l].held

(* ------------------------------ inductive invariant ------------------------------ *)

Pcs == {"idle", "loops", "attach", "scan", "nodes", "fill", "copied", "failed", "detach"}
Works == {"scan", "nodes", "fill", "copied"}
Types ==
  /\ TypeOK /\ calls \in Nat
  /\ user \in [Users -> [call : {"none", "insert", "build", "detach"}, pc : Pcs, loop : Loops \union {"none"},
                         mine : BOOLEAN]]

CallInv ==
  \A u \in Users :
    /\ user[u].pc = "idle" => user[u].call = "none"
    /\ user[u].pc \in Works \union {"attach"} => user[u].loop # "none"
    /\ user[u].pc \in {"loops", "attach", "scan"} => user[u].call \in {"insert", "build"}
    /\ user[u].pc = "nodes" => user[u].call = "insert"
    /\ user[u].pc = "detach" => user[u].call = "detach"

\* A loop device that is attached was given to the guest, goes with its mount, or belongs to a
\* call that is going to give or to detach it.
Owned(l) == \E u \in Users : user[u].mine /\ user[u].loop = l /\ user[u].pc \in Works
LoopInv ==
  \A l \in Loops :
    /\ loop[l].held => loop[l].attached
    /\ loop[l].attached => loop[l].given \/ (loop[l].held /\ loop[l].going) \/ Owned(l)

\* An image without its files is being built.
RawInv == image.state = "raw" => \E u \in Users : user[u].call = "build"

IInv == Types /\ CallInv /\ LoopInv /\ RawInv
================================================================================
