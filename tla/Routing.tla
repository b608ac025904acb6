------------------------------ MODULE Routing ------------------------------
(***************************************************************************)
(* The way from the host into the Thread mesh and back                     *)
(* (addon/thbrctl.py: ensure_backbone_routing, send_ns_keepalive;          *)
(* main/thbr_main.c: sync_backbone_onlink_address).                        *)
(*                                                                         *)
(* The host needs an address in the prefix the border router calls on-link *)
(* and a route into the mesh's own prefix.  The kernel learns both from    *)
(* router advertisements, where it may; otherwise the add-on sets them by  *)
(* hand, with `ip`, one command at a time, while the kernel and the border *)
(* router go on changing what it has just read.  For the way back the      *)
(* stick holds an address in the on-link prefix too, and a neighbour entry *)
(* for the host.                                                           *)
(***************************************************************************)
EXTENDS Naturals

CONSTANTS
  Networks,    \* Thread networks; each stands for its two prefixes
  Sticks,      \* link-local addresses of border routers
  FirstNet, FirstLl,   \* those of the border router on the port at first
  None,
  MaxChanges   \* bound: sticks swapped or restarted, networks changed, restarts of
               \* pump and container, advertisements that lapse, commands that fail

ASSUME RoutingAssumption ==
  /\ None \notin Networks /\ None \notin Sticks /\ MaxChanges \in Nat
  /\ FirstNet \in Networks /\ FirstLl \in Sticks

Routers == [net : Networks, ll : Sticks, published : BOOLEAN]
Reports == [net : Networks, ll : Sticks]
ASSUME NoneAssumption == None \notin Reports
Addrs == [net : Networks, by : {"kernel", "hand"}]
Routes == [net : Networks, via : Sticks, by : {"ra", "static"}]

VARIABLES
  stick,    \* the border router on the port
  changes,  \* how much of MaxChanges is used up
  takes,    \* what the kernel takes from advertisements: addresses, routes
  addrs,    \* global addresses on the tap
  routes,   \* routes over the tap
  at,       \* where ensure_backbone_routing is
  bb,       \* /backbone as it was read last: LAST_PREFIXES and LAST_LL
  seen,     \* what the last `ip ... show` printed, as far as it is still to be used
  grace,    \* less than ROUTE_GRACE_S since the pump started or the prefixes changed
  held,     \* the prefix of the stick's own on-link address: s_have and s_addr
  want,     \* the prefix sync_backbone_onlink_address is about to add an address in
  heard     \* the stick has a neighbour entry for the host's on-link address

kernel == <<takes, addrs, routes>>
round == <<at, bb, seen, grace>>
router == <<held, want, heard>>
vars == <<stick, changes, kernel, round, router>>

Init ==
  /\ stick = [net |-> FirstNet, ll |-> FirstLl, published |-> FALSE]
  /\ changes = 0
  /\ takes \in [addr : BOOLEAN, route : BOOLEAN]
  /\ \E n \in Networks, ll \in Sticks :   \* left over from an earlier container
       /\ addrs \in SUBSET {[net |-> n, by |-> "hand"]}
       /\ routes \in SUBSET {[net |-> n, via |-> ll, by |-> "static"]}
  /\ at = "idle" /\ bb = None /\ seen = {} /\ grace = TRUE
  /\ held = None /\ want = None /\ heard = FALSE

Change == changes < MaxChanges /\ changes' = changes + 1

-----------------------------------------------------------------------------
(* ensure_backbone_routing, every 15 s and after a pump was started.       *)

Enter(step) == at' = step
Here(step) == at = step /\ UNCHANGED <<stick, takes, router>>

\* Prefixes that changed start the grace anew; while it lasts, the kernel has the
\* first refusal.
Refusal == bb # None /\ bb.net # bb'.net
MayAct == ~grace'

\* /backbone
Look ==
  /\ Here("idle") /\ stick.published
  /\ bb' = [net |-> stick.net, ll |-> stick.ll]
  /\ grace' = (grace \/ Refusal)
  /\ Enter(IF MayAct THEN "addrs" ELSE "idle")
  /\ UNCHANGED <<changes, addrs, routes, seen>>

ReadAddrs ==
  /\ Here("addrs") /\ seen' = addrs /\ Enter("drop")
  /\ UNCHANGED <<changes, addrs, routes, bb, grace>>

\* Only addresses set by hand; the kernel's expire.
MutantAllByHand == {a \in seen : a.by = "hand"}
StaleAddrs == {a \in seen : a.net # bb.net /\ a.by = "hand"}

DropAddr ==
  /\ Here("drop")
  /\ \E a \in StaleAddrs : addrs' = addrs \ {a} /\ seen' = seen \ {a}
  /\ UNCHANGED <<changes, routes, at, bb, grace>>

OnLink == {a \in seen : a.net = bb.net}

\* `addr replace`
AddAddr ==
  /\ Here("drop") /\ StaleAddrs = {}
  /\ addrs' = IF OnLink = {} THEN addrs \cup {[net |-> bb.net, by |-> "hand"]} ELSE addrs
  /\ Enter("static") /\ seen' = {}
  /\ UNCHANGED <<changes, routes, bb, grace>>

AddAddrFails ==
  /\ Here("drop") /\ StaleAddrs = {} /\ OnLink = {} /\ Change
  /\ Enter("static") /\ seen' = {}
  /\ UNCHANGED <<addrs, routes, bb, grace>>

ReadStatic ==
  /\ Here("static") /\ seen' = {r \in routes : r.by = "static"} /\ Enter("stale")
  /\ UNCHANGED <<changes, addrs, routes, bb, grace>>

StaleRoutes == {r \in seen : r.net # bb.net}

\* `route del` with a destination alone removes one route to it, whoever set it.
DelRoute ==
  /\ Here("stale")
  /\ \E r \in StaleRoutes :
       LET there == {v \in routes : v.net = r.net}
       IN /\ seen' = seen \ {r}
          /\ IF there = {} THEN UNCHANGED routes
                           ELSE \E v \in there : routes' = routes \ {v}
  /\ UNCHANGED <<changes, addrs, at, bb, grace>>

ReadRoute ==
  /\ Here("stale") /\ StaleRoutes = {}
  /\ seen' = {r \in routes : r.net = bb.net} /\ Enter("act")
  /\ UNCHANGED <<changes, addrs, routes, bb, grace>>

Advertised == \E r \in seen : r.by = "ra"
StandIns == {r \in seen : r.by = "static"}
MutantNeverMisled == FALSE
Misled == \E r \in StandIns : r.via # bb.ll
MutantAppend == routes' = routes \cup {[net |-> bb.net, via |-> bb.ll, by |-> "static"]}

\* `route replace` takes the place of the static route, or else of an advertised one
\* of the same metric.
Replace ==
  LET mine == {r \in routes : r.net = bb.net /\ r.by = "static"}
      stand == [net |-> bb.net, via |-> bb.ll, by |-> "static"]
  IN \/ routes' = (routes \ mine) \cup {stand}
     \/ /\ mine = {}
        /\ \E r \in routes : r.net = bb.net /\ routes' = (routes \ {r}) \cup {stand}

\* The kernel has the route: the one set by hand steps back.
StepBack ==
  /\ Here("act") /\ Advertised
  /\ routes' = IF StandIns # {}
                 THEN {r \in routes : ~(r.net = bb.net /\ r.by = "static")} ELSE routes
  /\ Enter("idle") /\ seen' = {}
  /\ UNCHANGED <<changes, addrs, bb, grace>>

\* The prefix stayed, the border router behind it did not.
Repoint ==
  /\ Here("act") /\ ~Advertised /\ StandIns # {}
  /\ IF Misled THEN Replace ELSE UNCHANGED routes
  /\ Enter("idle") /\ seen' = {}
  /\ UNCHANGED <<changes, addrs, bb, grace>>

Install ==
  /\ Here("act") /\ seen = {} /\ Replace
  /\ Enter("idle") /\ seen' = {}
  /\ UNCHANGED <<changes, addrs, bb, grace>>

RouteFails ==
  /\ Here("act") /\ ~Advertised /\ (StandIns # {} => Misled) /\ Change
  /\ Enter("idle") /\ seen' = {}
  /\ UNCHANGED <<addrs, routes, bb, grace>>

\* Time passes between two rounds.
GraceEnds ==
  /\ Here("idle") /\ grace /\ grace' = FALSE
  /\ UNCHANGED <<changes, addrs, routes, at, bb, seen>>

Round ==
  \/ Look \/ ReadAddrs \/ DropAddr \/ AddAddr \/ ReadStatic \/ DelRoute \/ ReadRoute
  \/ StepBack \/ Repoint \/ Install

\* The keepalive: a neighbour solicitation to the border router last seen, from the
\* address the kernel would use towards the mesh last seen.
Keepalive ==
  /\ at = "idle" /\ bb # None
  /\ \E r \in routes : r.net = bb.net
  /\ \E a \in addrs : heard' = (heard \/ (bb.ll = stick.ll /\ a.net = stick.net))
  /\ UNCHANGED <<stick, changes, kernel, round, held, want>>

PumpStarts ==
  /\ at = "idle" /\ Change /\ grace' = TRUE
  /\ UNCHANGED <<stick, kernel, at, bb, seen, router>>

\* A container stopped anywhere and started again; tap, addresses and routes stay.
ContainerRestarts ==
  /\ Change
  /\ at' = "idle" /\ bb' = None /\ seen' = {} /\ grace' = TRUE
  /\ UNCHANGED <<stick, kernel, router>>

-----------------------------------------------------------------------------
(* The kernel and the border router.                                       *)

\* A router advertisement arrives.
RaArrives ==
  LET a == [net |-> stick.net, by |-> "kernel"]
      r == [net |-> stick.net, via |-> stick.ll, by |-> "ra"]
  IN /\ stick.published
     /\ (takes.addr /\ a \notin addrs) \/ (takes.route /\ r \notin routes)
     /\ addrs' = IF takes.addr THEN addrs \cup {a} ELSE addrs
     /\ routes' = IF takes.route THEN routes \cup {r} ELSE routes
     /\ UNCHANGED <<stick, changes, takes, round, router>>

\* What nobody advertises any more lapses.
Outlived(x) == \/ x \in addrs /\ x.by = "kernel" /\ x.net # stick.net
               \/ x \in routes /\ x.by = "ra" /\ (x.net # stick.net \/ x.via # stick.ll)

StaleExpires ==
  /\ \E x \in addrs \cup routes : Outlived(x) /\ addrs' = addrs \ {x} /\ routes' = routes \ {x}
  /\ UNCHANGED <<stick, changes, takes, round, router>>

\* Advertisements are lost for longer than they last.
LiveExpires ==
  /\ Change
  /\ \E x \in {a \in addrs : a.by = "kernel"} \cup {r \in routes : r.by = "ra"} :
       addrs' = addrs \ {x} /\ routes' = routes \ {x}
  /\ UNCHANGED <<stick, takes, round, router>>

\* Another stick, or the same one restarted, perhaps with the network it had.
StickStarts ==
  /\ Change
  /\ stick' \in [net : Networks, ll : Sticks, published : {FALSE}]
  /\ held' = None /\ want' = None /\ heard' = FALSE
  /\ UNCHANGED <<kernel, round>>

Publish ==
  /\ ~stick.published /\ stick' = [stick EXCEPT !.published = TRUE]
  /\ UNCHANGED <<changes, kernel, round, router>>

NetworkChanges ==
  /\ Change
  /\ \E n \in Networks \ {stick.net} : stick' = [stick EXCEPT !.net = n]
  /\ heard' = FALSE
  /\ UNCHANGED <<kernel, round, held, want>>

MutantOnce == held = None
OutOfStep == held # stick.net

\* sync_backbone_onlink_address, every ten seconds: read the prefix and remove the
\* address in the old one, ...
OnlinkDrop ==
  /\ want = None /\ stick.published /\ OutOfStep
  /\ held' = None /\ want' = stick.net
  /\ UNCHANGED <<stick, changes, kernel, round, heard>>

\* ... and add one in the new, which is the old one if it has changed meanwhile.
OnlinkAdd ==
  /\ want # None
  /\ held' = want /\ want' = None
  /\ UNCHANGED <<stick, changes, kernel, round, heard>>

OnlinkAddFails ==
  /\ want # None /\ Change /\ want' = None
  /\ UNCHANGED <<stick, kernel, round, held, heard>>

NeighbourAges ==
  /\ heard /\ heard' = FALSE
  /\ UNCHANGED <<stick, changes, kernel, round, held, want>>

-----------------------------------------------------------------------------
Next ==
  \/ Round \/ AddAddrFails \/ RouteFails \/ GraceEnds \/ Keepalive
  \/ PumpStarts \/ ContainerRestarts
  \/ RaArrives \/ StaleExpires \/ LiveExpires
  \/ StickStarts \/ Publish \/ NetworkChanges
  \/ OnlinkDrop \/ OnlinkAdd \/ OnlinkAddFails
  \/ NeighbourAges

Spec == Init /\ [][Next]_vars

\* The supervisor's loop and the stick's tasks go on; advertisements are repeated and
\* run out.
FairSpec ==
  /\ Spec
  /\ WF_vars(Round) /\ WF_vars(GraceEnds) /\ SF_vars(Keepalive)
  /\ WF_vars(RaArrives) /\ WF_vars(StaleExpires) /\ WF_vars(Publish)
  /\ WF_vars(OnlinkDrop) /\ WF_vars(OnlinkAdd)

-----------------------------------------------------------------------------
TypeOK ==
  /\ stick \in Routers
  /\ changes \in 0..MaxChanges
  /\ takes \in [addr : BOOLEAN, route : BOOLEAN]
  /\ addrs \in SUBSET Addrs
  /\ routes \in SUBSET Routes
  /\ at \in {"idle", "addrs", "drop", "static", "stale", "act"}
  /\ bb \in Reports \cup {None}
  /\ (at # "idle" => bb # None /\ ~grace)
  /\ seen \in SUBSET (IF at = "drop" THEN Addrs ELSE Routes)
  /\ grace \in BOOLEAN
  /\ held \in Networks \cup {None}
  /\ want \in Networks \cup {None}
  /\ heard \in BOOLEAN

WayOut ==
  /\ \E a \in addrs : a.net = stick.net
  /\ \E r \in routes : r.net = stick.net /\ r.via = stick.ll
WayBack == held = stick.net /\ heard

\* However sticks, networks, advertisements and restarts interfere with the rounds,
\* the host ends up able to send into the mesh, with nothing of another network left
\* that it set by hand or was told, and with one route only where the kernel has taken
\* the advertised one.
Settled ==
  /\ stick.published => WayOut
  /\ \A a \in addrs : a.net = stick.net
  /\ \A r \in routes : r.net = stick.net /\ r.via = stick.ll
  /\ takes.route => \A r \in routes : r.by = "ra"
EndsSettled == <>[]Settled

\* The stick ends up with an address in the prefix it advertises, and again and again
\* a packet from the host finds its way into the mesh and its answer the way back.
MeshAnswers == <>[](held = stick.net) /\ []<>(WayOut /\ WayBack)

\* However often sticks that keep their network are swapped and rounds are broken off,
\* there is never more than one route into a network set by hand: the kernel would go
\* on using the one to a border router that is gone.
OneStandIn == \A r, s \in routes : r.by = "static" /\ s.by = "static" /\ r.net = s.net => r = s

\* A round takes the way into the mesh away only if the ground moved under it: the
\* border router is not the one it read, or what it read is not there any more.
NeverStripped ==
  [][WayOut /\ ~WayOut' /\ stick' = stick /\ changes' = changes
     /\ (\A r \in routes : r.by = "ra" /\ r.net = stick.net => r.via = stick.ll)
       => bb # [net |-> stick.net, ll |-> stick.ll] \/ ~(seen \subseteq addrs \cup routes)]_vars
=============================================================================
