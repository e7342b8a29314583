--------------------------------- MODULE Links ---------------------------------
(* The network links of one emulated guest (runtime/network.py): kernel links in the  *)
(* container's namespace or in one of the guest's own, the stubs of /sys/class/net the *)
(* guest's programs read, and the shaping of what a shared guest sends.  A command is  *)
(* several calls of ip and tc, each of which can fail.                                  *)
EXTENDS Naturals

CONSTANTS Names,      \* interface names a command is given; eth1 is the container's own
          MaxCommands \* bound: commands

VARIABLES
  links,     \* the links of each namespace: their kind and whether they are up
  netns,     \* the guest's namespace exists
  marker,    \* emu/netns names it
  stub,      \* sys/class/net of the rootfs: operstate by name, "none" without a stub
  qdisc,     \* what is queued on eth1: netem, tbf
  cmd,       \* the command: name, position, its interface and the state it asks for
  trusted,   \* history: no command has failed since the stubs were last rebuilt
  count      \* history: commands

vars == <<links, netns, marker, stub, qdisc, cmd, trusted, count>>

REAL == "eth1"
Absent == [kind |-> "none", up |-> FALSE]
Empty == [n \in Names |-> Absent]
NoCommand == [name |-> "none", pc |-> "idle", on |-> REAL, state |-> "none"]
State(link) == IF link.kind = "none" THEN "none" ELSE IF link.up THEN "up" ELSE "down"
Mirrored(scope) == [n \in Names |-> State(links[scope][n])]

Init ==
  /\ links = [container |-> [Empty EXCEPT ![REAL] = [kind |-> "real", up |-> TRUE]], guest |-> Empty]
  /\ netns = FALSE /\ marker = FALSE /\ qdisc = {} /\ cmd = NoCommand /\ trusted = TRUE /\ count = 0
  /\ stub = Mirrored("container")

\* The guest's own namespace only while the marker names one that exists.
namespace == IF marker /\ netns THEN "guest" ELSE "container"
is_dummy(n) == links[namespace][n].kind = "dummy"

Goto(pc) == cmd' = [cmd EXCEPT !.pc = pc]
At(name, pc) == cmd.name = name /\ cmd.pc = pc
Done == cmd' = NoCommand
ip(n, link) == links' = [links EXCEPT ![namespace][n] = link]

main ==
  /\ cmd.pc = "idle" /\ count < MaxCommands /\ count' = count + 1
  /\ \E name \in {"link", "unlink", "isolate", "share", "shape"}, n \in Names, s \in {"up", "down", "none"} :
       cmd' = [name |-> name, pc |-> "begin", on |-> n, state |-> s]
  /\ UNCHANGED <<links, netns, marker, stub, qdisc, trusted>>

\* An ip or a tc fails: the command stops where it is.
Fails ==
  /\ \/ cmd.pc \in {"set", "add", "lo", "tbf"}
     \/ At("link", "begin") /\ links[namespace][cmd.on].kind = "none"
     \/ At("unlink", "begin") /\ is_dummy(cmd.on)
  /\ Done /\ trusted' = FALSE
  /\ UNCHANGED <<links, netns, marker, stub, qdisc, count>>

\* A command for a real interface, or to shape an isolated guest, is refused.
Refused ==
  /\ cmd.pc = "begin"
  /\ \/ cmd.name \in {"link", "unlink"} /\ links[namespace][cmd.on].kind = "real"
     \/ cmd.name = "shape" /\ namespace = "guest"
  /\ Done /\ UNCHANGED <<links, netns, marker, stub, qdisc, trusted, count>>

\* Mutant: a real interface can be reconfigured as well.
Bug_link ==
  /\ \/ /\ At("link", "begin")
        /\ IF links[namespace][cmd.on].kind = "none" THEN ip(cmd.on, [kind |-> "dummy", up |-> FALSE]) ELSE UNCHANGED links
        /\ Goto("set")
     \/ /\ At("link", "set") /\ Goto("mirror")
        /\ ip(cmd.on, [links[namespace][cmd.on] EXCEPT !.up = IF cmd.state = "none" THEN @ ELSE cmd.state = "up"])
  /\ UNCHANGED <<netns, marker, stub, qdisc, trusted, count>>

\* A dummy link is created, then its address, route and state are set.
link ==
  /\ \/ /\ At("link", "begin") /\ links[namespace][cmd.on].kind # "real"
        /\ IF is_dummy(cmd.on) THEN UNCHANGED links ELSE ip(cmd.on, [kind |-> "dummy", up |-> FALSE])
        /\ Goto("set")
     \/ /\ At("link", "set") /\ Goto("mirror")
        /\ ip(cmd.on, [links[namespace][cmd.on] EXCEPT !.up = IF cmd.state = "none" THEN @ ELSE cmd.state = "up"])
  /\ UNCHANGED <<netns, marker, stub, qdisc, trusted, count>>

unlink ==
  /\ At("unlink", "begin") /\ links[namespace][cmd.on].kind # "real" /\ Goto("mirror")
  /\ ip(cmd.on, Absent) /\ UNCHANGED <<netns, marker, stub, qdisc, trusted, count>>

\* The stub of one link: the state asked for, or nothing when it is gone.
mirror ==
  /\ cmd.pc = "mirror" /\ stub' = [stub EXCEPT ![cmd.on] = State(links[namespace][cmd.on])] /\ Done
  /\ UNCHANGED <<links, netns, marker, qdisc, trusted, count>>

\* A fresh namespace; the marker is written when it is complete.
isolate ==
  /\ \/ /\ At("isolate", "begin") /\ netns' = FALSE /\ links' = [links EXCEPT !.guest = Empty] /\ Goto("add")
        /\ trusted' = (trusted /\ namespace = "container") /\ UNCHANGED <<marker, stub>>
     \/ At("isolate", "add") /\ netns' = TRUE /\ Goto("lo") /\ UNCHANGED <<links, marker, stub, trusted>>
     \/ At("isolate", "lo") /\ marker' = TRUE /\ Goto("clear") /\ trusted' = FALSE /\ UNCHANGED <<links, netns, stub>>
     \/ /\ At("isolate", "clear") /\ stub' = [n \in Names |-> "none"] /\ Done /\ trusted' = TRUE
        /\ UNCHANGED <<links, netns, marker>>
  /\ UNCHANGED <<qdisc, count>>

\* Mutant: the stubs of the namespace stay, those of the container are added.
Bug_clear_stubs == stub

clear_stubs == [n \in Names |-> "none"]

\* Back to the container's links, whose stubs are rebuilt.
share ==
  /\ \/ /\ At("share", "begin") /\ marker' = FALSE /\ netns' = (netns /\ namespace = "container")
        /\ links' = [links EXCEPT !.guest = IF netns' THEN @ ELSE Empty]
        /\ trusted' = FALSE /\ Goto("clear") /\ UNCHANGED stub
     \/ /\ At("share", "clear") /\ stub' = clear_stubs /\ Goto("rebuild") /\ UNCHANGED <<links, netns, marker, trusted>>
     \/ /\ At("share", "rebuild") /\ Done /\ trusted' = TRUE
        /\ stub' = [n \in Names |-> IF links.container[n].kind = "none" THEN stub[n] ELSE State(links.container[n])]
        /\ UNCHANGED <<links, netns, marker>>
  /\ UNCHANGED <<qdisc, count>>

\* What was queued goes first; a delay or loss, then a rate below it.
shape ==
  /\ \/ At("shape", "begin") /\ namespace = "container" /\ qdisc' = {} /\ \E pc \in {"netem", "tbf", "idle"} :
          IF pc = "idle" THEN Done ELSE Goto(pc)
     \/ At("shape", "netem") /\ qdisc' = {"netem"} /\ (Goto("tbf") \/ Done)
     \/ At("shape", "tbf") /\ qdisc' = qdisc \union {"tbf"} /\ Done
  /\ UNCHANGED <<links, netns, marker, stub, trusted, count>>

Next == main \/ Fails \/ Refused \/ link \/ unlink \/ mirror \/ isolate \/ share \/ shape
Spec == Init /\ [][Next]_vars

(* --------------------------------- properties --------------------------------- *)

TypeOK ==
  /\ links \in [{"container", "guest"} -> [Names -> [kind : {"none", "dummy", "real"}, up : BOOLEAN]]]
  /\ netns \in BOOLEAN /\ marker \in BOOLEAN /\ stub \in [Names -> {"none", "up", "down"}] /\ qdisc \subseteq {"netem", "tbf"}
  /\ cmd.pc \in {"idle", "begin", "set", "mirror", "add", "lo", "clear", "rebuild", "netem", "tbf"}

\* Between commands the guest's programs read in /sys/class/net what the kernel has in its
\* namespace: also after it was isolated and shared again, or failed and was rebuilt.
StubsMirror == trusted /\ cmd.pc = "idle" => stub = Mirrored(namespace)

\* No command changes the container's own interface.
RealStays == links'.container[REAL] = links.container[REAL]

(* ------------------------------ inductive invariant ------------------------------ *)

Pcs == {"idle", "begin", "set", "mirror", "add", "lo", "clear", "rebuild", "netem", "tbf"}
Types ==
  /\ TypeOK /\ trusted \in BOOLEAN /\ count \in Nat
  /\ cmd \in [name : {"none", "link", "unlink", "isolate", "share", "shape"}, pc : Pcs, on : Names,
              state : {"up", "down", "none"}]

\* Where a command stands, and what it has done so far.
CommandInv ==
  /\ cmd.pc = "set" => cmd.name = "link" /\ links[namespace][cmd.on].kind = "dummy"
  /\ cmd.pc = "mirror" => cmd.name \in {"link", "unlink"}
  /\ cmd.pc \in {"add", "lo"} => cmd.name = "isolate"
  /\ cmd.pc = "clear" => cmd.name \in {"isolate", "share"}
  /\ cmd.pc \in {"netem", "tbf"} => cmd.name = "shape"
  /\ cmd.name = "isolate" /\ cmd.pc \in {"add", "lo", "clear"} => links.guest = Empty
  /\ cmd.name = "isolate" /\ cmd.pc \in {"lo", "clear"} => netns
  /\ cmd.name = "isolate" /\ cmd.pc = "clear" => marker
  /\ cmd.name = "share" /\ cmd.pc \in {"clear", "rebuild"} => ~marker
  /\ cmd.name = "share" /\ cmd.pc = "rebuild" => \A n \in Names : stub[n] = "none"

RealInv == links.container[REAL].kind = "real"

\* The stubs that may be trusted mirror every link but the one a command works on.
Unmirrored == IF cmd.pc \in {"set", "mirror"} THEN {cmd.on} ELSE {}
StubInv ==
  trusted /\ cmd.pc \in {"idle", "begin", "set", "mirror", "netem", "tbf"} =>
    \A n \in Names \ Unmirrored : stub[n] = State(links[namespace][n])

IInv == Types /\ CommandInv /\ RealInv /\ StubInv
=================================================================================
