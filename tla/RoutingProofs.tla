--------------------------- MODULE RoutingProofs ---------------------------
(***************************************************************************)
(* Proofs about Routing, for any number of networks, sticks and changes:   *)
(* types, that routes set by hand do not pile up, and that a round does    *)
(* not take the way into the mesh away.                                    *)
(***************************************************************************)
EXTENDS Routing, TLAPS

LEMMA ChangeType == ASSUME changes \in 0..MaxChanges, Change PROVE changes' \in 0..MaxChanges
BY RoutingAssumption DEF Change

LEMMA InitType == Init => TypeOK
<1> SUFFICES ASSUME Init PROVE TypeOK
  OBVIOUS
<1>1. addrs \in SUBSET Addrs /\ routes \in SUBSET Routes
  BY DEF Init, Addrs, Routes
<1>2. stick \in Routers
  BY RoutingAssumption DEF Init, Routers
<1>3. changes \in 0..MaxChanges
  BY RoutingAssumption DEF Init
<1> QED
  BY <1>1, <1>2, <1>3 DEF Init, TypeOK

\* A route that takes the place of another leaves routes.
LEMMA ReplaceType ==
  ASSUME TypeOK, bb # None, Replace
  PROVE  routes' \in SUBSET Routes
<1>1. [net |-> bb.net, via |-> bb.ll, by |-> "static"] \in Routes
  BY DEF TypeOK, Reports, Routes
<1> QED
  BY <1>1 DEF Replace, TypeOK

\* ensure_backbone_routing.
LEMMA RoundType ==
  ASSUME TypeOK, Round \/ AddAddrFails \/ RouteFails \/ GraceEnds
  PROVE  TypeOK'
<1> USE DEF Here, Enter
<1>1. UNCHANGED <<stick, takes, router>>
  BY DEF Round, Look, ReadAddrs, DropAddr, AddAddr, AddAddrFails, ReadStatic, DelRoute,
         ReadRoute, StepBack, Repoint, Install, RouteFails, GraceEnds
<1>2. changes' \in 0..MaxChanges
  BY ChangeType DEF TypeOK, Round, Look, ReadAddrs, DropAddr, AddAddr, AddAddrFails, ReadStatic,
         DelRoute, ReadRoute, StepBack, Repoint, Install, RouteFails, GraceEnds
<1> SUFFICES /\ addrs' \in SUBSET Addrs /\ routes' \in SUBSET Routes
             /\ at' \in {"idle", "addrs", "drop", "static", "stale", "act"}
             /\ bb' \in Reports \cup {None}
             /\ at' # "idle" => bb' # None /\ ~grace'
             /\ seen' \in SUBSET (IF at' = "drop" THEN Addrs ELSE Routes)
             /\ grace' \in BOOLEAN
  BY <1>1, <1>2 DEF TypeOK, router
<1>3. CASE Look
  <2>1. [net |-> stick.net, ll |-> stick.ll] \in Reports
    BY DEF TypeOK, Routers, Reports
  <2>2. [net |-> stick.net, ll |-> stick.ll] # None
    BY <2>1, NoneAssumption
  <2> QED
    BY <1>3, <2>1, <2>2 DEF Look, TypeOK, MayAct
<1>4. CASE ReadAddrs
  BY <1>4 DEF ReadAddrs, TypeOK
<1>5. CASE DropAddr
  BY <1>5 DEF DropAddr, TypeOK
<1>6. CASE AddAddr
  <2>1. [net |-> bb.net, by |-> "hand"] \in Addrs
    BY <1>6 DEF AddAddr, TypeOK, Reports, Addrs
  <2> QED
    BY <1>6, <2>1 DEF AddAddr, TypeOK
<1>7. CASE AddAddrFails \/ RouteFails \/ GraceEnds
  <2>1. UNCHANGED <<addrs, routes, bb>> /\ at' \in {"idle", "static"}
    BY <1>7 DEF AddAddrFails, RouteFails, GraceEnds
  <2>2. CASE AddAddrFails \/ RouteFails
    BY <2>1, <2>2 DEF AddAddrFails, RouteFails, TypeOK
  <2>3. CASE GraceEnds
    BY <2>1, <2>3 DEF GraceEnds, TypeOK
  <2> QED
    BY <1>7, <2>2, <2>3
<1>8. CASE ReadStatic \/ ReadRoute
  BY <1>8 DEF ReadStatic, ReadRoute, TypeOK
<1>9. CASE DelRoute
  BY <1>9 DEF DelRoute, TypeOK
<1>10. CASE StepBack
  BY <1>10 DEF StepBack, TypeOK
<1>11. CASE Repoint \/ Install
  <2>1. routes' \in SUBSET Routes
    BY <1>11, ReplaceType DEF Repoint, Install, TypeOK
  <2> QED
    BY <1>11, <2>1 DEF Repoint, Install, TypeOK
<1> QED
  BY <1>3, <1>4, <1>5, <1>6, <1>7, <1>8, <1>9, <1>10, <1>11 DEF Round

LEMMA StepType == TypeOK /\ [Next]_vars => TypeOK'
<1> SUFFICES ASSUME TypeOK, [Next]_vars PROVE TypeOK'
  OBVIOUS
<1>1. CASE Round \/ AddAddrFails \/ RouteFails \/ GraceEnds
  BY <1>1, RoundType
<1>2. CASE Keepalive
  BY <1>2 DEF Keepalive, TypeOK, kernel, round
<1>3. CASE PumpStarts \/ ContainerRestarts
  <2>1. changes' \in 0..MaxChanges
    BY <1>3, ChangeType DEF PumpStarts, ContainerRestarts, TypeOK
  <2> QED
    BY <1>3, <2>1 DEF PumpStarts, ContainerRestarts, TypeOK, kernel, router
<1>4. CASE RaArrives
  <2>1. /\ [net |-> stick.net, by |-> "kernel"] \in Addrs
        /\ [net |-> stick.net, via |-> stick.ll, by |-> "ra"] \in Routes
    BY DEF TypeOK, Routers, Addrs, Routes
  <2>2. addrs' \in SUBSET Addrs /\ routes' \in SUBSET Routes
    BY <1>4, <2>1 DEF RaArrives, TypeOK
  <2> QED
    BY <1>4, <2>2 DEF RaArrives, TypeOK, round, router
<1>5. CASE StaleExpires
  BY <1>5 DEF StaleExpires, TypeOK, round, router
<1>6. CASE LiveExpires
  <2>1. changes' \in 0..MaxChanges
    BY <1>6, ChangeType DEF LiveExpires, TypeOK
  <2> QED
    BY <1>6, <2>1 DEF LiveExpires, TypeOK, round, router
<1>7. CASE StickStarts
  <2>1. changes' \in 0..MaxChanges
    BY <1>7, ChangeType DEF StickStarts, TypeOK
  <2>2. stick' \in Routers
    BY <1>7 DEF StickStarts, Routers
  <2> QED
    BY <1>7, <2>1, <2>2 DEF StickStarts, TypeOK, kernel, round
<1>8. CASE Publish
  <2>1. stick' \in Routers
    BY <1>8 DEF Publish, TypeOK, Routers
  <2> QED
    BY <1>8, <2>1 DEF Publish, TypeOK, kernel, round, router
<1>9. CASE NetworkChanges
  <2>1. changes' \in 0..MaxChanges
    BY <1>9, ChangeType DEF NetworkChanges, TypeOK
  <2>2. stick' \in Routers
    BY <1>9 DEF NetworkChanges, TypeOK, Routers
  <2> QED
    BY <1>9, <2>1, <2>2 DEF NetworkChanges, TypeOK, kernel, round
<1>10. CASE OnlinkDrop \/ OnlinkAdd
  BY <1>10 DEF OnlinkDrop, OnlinkAdd, TypeOK, Routers, kernel, round
<1>11. CASE OnlinkAddFails
  <2>1. changes' \in 0..MaxChanges
    BY <1>11, ChangeType DEF OnlinkAddFails, TypeOK
  <2> QED
    BY <1>11, <2>1 DEF OnlinkAddFails, TypeOK, kernel, round
<1>12. CASE NeighbourAges
  BY <1>12 DEF NeighbourAges, TypeOK, kernel, round
<1>13. CASE UNCHANGED vars
  BY <1>13 DEF vars, kernel, round, router, TypeOK
<1> QED
  BY <1>1, <1>2, <1>3, <1>4, <1>5, <1>6, <1>7, <1>8, <1>9, <1>10, <1>11, <1>12, <1>13 DEF Next

\* Addresses, routes and what has been read of them keep their types.
THEOREM TypeCorrect == Spec => []TypeOK
BY InitType, StepType, PTL DEF Spec

-----------------------------------------------------------------------------
(* The kernel's tables.                                                    *)

\* The steps that leave addresses and routes alone.
LEMMA TablesStand ==
  ASSUME \/ Look \/ ReadAddrs \/ ReadStatic \/ ReadRoute \/ AddAddrFails \/ RouteFails \/ GraceEnds
         \/ Keepalive \/ PumpStarts \/ ContainerRestarts \/ StickStarts \/ Publish
         \/ NetworkChanges \/ OnlinkDrop \/ OnlinkAdd \/ OnlinkAddFails \/ NeighbourAges
         \/ UNCHANGED vars
  PROVE  addrs' = addrs /\ routes' = routes
BY DEF Look, ReadAddrs, ReadStatic, ReadRoute, AddAddrFails, RouteFails, GraceEnds, Keepalive,
   PumpStarts, ContainerRestarts, StickStarts, Publish, NetworkChanges, OnlinkDrop, OnlinkAdd,
   OnlinkAddFails, NeighbourAges, vars, kernel

\* `route replace` leaves one route set by hand where there was one at most.
LEMMA ReplaceKeepsOne == ASSUME OneStandIn, Replace PROVE OneStandIn'
<1> DEFINE mine == {r \in routes : r.net = bb.net /\ r.by = "static"}
           stand == [net |-> bb.net, via |-> bb.ll, by |-> "static"]
<1>1. CASE routes' = (routes \ mine) \cup {stand}
  BY <1>1 DEF OneStandIn
<1>2. CASE mine = {} /\ \E r \in routes : routes' = (routes \ {r}) \cup {stand}
  BY <1>2 DEF OneStandIn
<1> QED
  BY <1>1, <1>2 DEF Replace

\* However sticks are swapped and rounds are broken off, routes set by hand do not
\* pile up.
THEOREM NeverTwoByHand == Spec => []OneStandIn
<1>1. Init => OneStandIn
  BY DEF Init, OneStandIn
<1>2. OneStandIn /\ [Next]_vars => OneStandIn'
  <2> SUFFICES ASSUME OneStandIn, [Next]_vars PROVE OneStandIn'
    OBVIOUS
  <2>1. CASE routes' \subseteq routes
    BY <2>1 DEF OneStandIn
  <2>2. CASE DropAddr \/ AddAddr \/ DelRoute \/ StepBack
    <3>1. routes' \subseteq routes
      BY <2>2 DEF DropAddr, AddAddr, DelRoute, StepBack
    <3> QED
      BY <2>1, <3>1
  <2>3. CASE Repoint \/ Install
    BY <2>1, <2>3, ReplaceKeepsOne DEF Repoint, Install
  <2>4. CASE RaArrives
    <3>1. \A r \in routes' : r \in routes \/ r.by # "static"
      BY <2>4 DEF RaArrives
    <3> QED
      BY <3>1 DEF OneStandIn
  <2>5. CASE StaleExpires \/ LiveExpires
    BY <2>1, <2>5 DEF StaleExpires, LiveExpires
  <2>6. CASE addrs' = addrs /\ routes' = routes
    BY <2>1, <2>6
  <2> QED
    BY <2>2, <2>3, <2>4, <2>5, <2>6, TablesStand DEF Next, Round
<1> QED
  BY <1>1, <1>2, PTL DEF Spec

-----------------------------------------------------------------------------
(* The way into the mesh.                                                  *)

\* What decides about the route was read for the network the round is about.
SeenIsMine == at = "act" => \A r \in seen : r.net = bb.net

LEMMA StepSeen == TypeOK /\ SeenIsMine /\ [Next]_vars => SeenIsMine'
<1> SUFFICES ASSUME SeenIsMine, [Next]_vars PROVE SeenIsMine'
  OBVIOUS
<1> USE DEF SeenIsMine
<1>1. CASE UNCHANGED <<at, bb, seen>>
  BY <1>1
<1>2. CASE ReadRoute
  BY <1>2 DEF ReadRoute, Here, Enter
<1>3. CASE Look \/ ReadAddrs \/ DropAddr \/ AddAddr \/ ReadStatic \/ DelRoute \/ AddAddrFails
  BY <1>3 DEF Look, ReadAddrs, DropAddr, AddAddr, ReadStatic, DelRoute, AddAddrFails, Here, Enter
<1>4. CASE StepBack \/ Repoint \/ Install \/ RouteFails \/ ContainerRestarts
  BY <1>4 DEF StepBack, Repoint, Install, RouteFails, ContainerRestarts, Enter
<1>5. CASE \/ GraceEnds \/ Keepalive \/ PumpStarts \/ RaArrives \/ StaleExpires \/ LiveExpires
           \/ StickStarts \/ Publish \/ NetworkChanges \/ OnlinkDrop \/ OnlinkAdd
           \/ OnlinkAddFails \/ NeighbourAges \/ UNCHANGED vars
  BY <1>1, <1>5 DEF GraceEnds, Keepalive, PumpStarts, RaArrives, StaleExpires, LiveExpires,
     StickStarts, Publish, NetworkChanges, OnlinkDrop, OnlinkAdd, OnlinkAddFails, NeighbourAges,
     vars, round
<1> QED
  BY <1>2, <1>3, <1>4, <1>5 DEF Next, Round

\* The ground on which a round stands.
Ground ==
  /\ WayOut
  /\ \A r \in routes : r.by = "ra" /\ r.net = stick.net => r.via = stick.ll
  /\ bb = [net |-> stick.net, ll |-> stick.ll]
  /\ seen \subseteq addrs \cup routes

\* On it, no step that neither changes the stick nor uses up a change takes the way away.
LEMMA WayStays ==
  ASSUME TypeOK, SeenIsMine, Ground, Next, stick' = stick, changes' = changes
  PROVE  WayOut'
<1>1. PICK a \in addrs : a.net = stick.net
  BY DEF Ground, WayOut
<1>2. PICK r \in routes : r.net = stick.net /\ r.via = stick.ll
  BY DEF Ground, WayOut
<1>3. bb.net = stick.net /\ bb.ll = stick.ll
  BY DEF Ground
<1>4. CASE a \in addrs' /\ r \in routes'
  BY <1>1, <1>2, <1>4 DEF WayOut
<1>5. CASE DropAddr \/ AddAddr \/ DelRoute
  <2>1. a \in addrs'
    BY <1>1, <1>3, <1>5 DEF DropAddr, AddAddr, DelRoute, StaleAddrs
  <2>2. r \in routes'
    BY <1>2, <1>3, <1>5 DEF DropAddr, AddAddr, DelRoute, StaleRoutes
  <2> QED
    BY <1>4, <2>1, <2>2
<1>6. CASE StepBack
  <2>1. PICK s \in seen : s.by = "ra"
    BY <1>6 DEF StepBack, Advertised
  <2>2. s \notin addrs
    BY <2>1 DEF TypeOK, Addrs
  <2>3. s \in routes /\ s.net = bb.net
    BY <1>6, <2>1, <2>2 DEF Ground, SeenIsMine, StepBack, Here
  <2>4. s \in routes' /\ s.via = stick.ll
    BY <1>3, <1>6, <2>1, <2>3 DEF StepBack, Ground
  <2>5. a \in addrs'
    BY <1>6 DEF StepBack
  <2> QED
    BY <1>1, <1>3, <2>3, <2>4, <2>5 DEF WayOut
<1>7. CASE Repoint \/ Install
  <2>1. a \in addrs'
    BY <1>7 DEF Repoint, Install
  <2>2. CASE Replace
    <3>1. [net |-> bb.net, via |-> bb.ll, by |-> "static"] \in routes'
      BY <2>2 DEF Replace
    <3> QED
      BY <1>1, <1>3, <2>1, <3>1 DEF WayOut
  <2>3. CASE routes' = routes
    BY <1>4, <2>1, <2>3
  <2> QED
    BY <1>7, <2>2, <2>3 DEF Repoint, Install
<1>8. CASE RaArrives
  BY <1>4, <1>8 DEF RaArrives
<1>9. CASE StaleExpires
  <2>1. PICK x \in addrs \cup routes :
          Outlived(x) /\ addrs' = addrs \ {x} /\ routes' = routes \ {x}
    BY <1>9 DEF StaleExpires
  <2>2. x # a
    <3>1. a.by \in {"kernel", "hand"}
      BY DEF TypeOK, Addrs
    <3> QED
      BY <1>1, <2>1, <3>1 DEF Outlived
  <2>3. x # r
    <3>1. r.by \in {"ra", "static"}
      BY DEF TypeOK, Routes
    <3> QED
      BY <1>2, <2>1, <3>1 DEF Outlived
  <2> QED
    BY <1>4, <2>1, <2>2, <2>3
<1>10. CASE LiveExpires
  BY <1>10, RoutingAssumption DEF LiveExpires, Change, TypeOK
<1>11. CASE addrs' = addrs /\ routes' = routes
  BY <1>4, <1>11
<1> QED
  BY <1>5, <1>6, <1>7, <1>8, <1>9, <1>10, <1>11, TablesStand DEF Next, Round

\* A round takes the way into the mesh away only if the ground moved under it.
THEOREM WayIsKept == Spec => NeverStripped
<1> DEFINE Stripped ==
      WayOut /\ ~WayOut' /\ stick' = stick /\ changes' = changes
      /\ (\A r \in routes : r.by = "ra" /\ r.net = stick.net => r.via = stick.ll)
           => bb # [net |-> stick.net, ll |-> stick.ll] \/ ~(seen \subseteq addrs \cup routes)
<1>1. Init => SeenIsMine
  BY DEF Init, SeenIsMine
<1>2. TypeOK /\ SeenIsMine /\ [Next]_vars => [Stripped]_vars
  BY WayStays DEF Ground
<1> QED
  BY <1>1, <1>2, InitType, StepType, StepSeen, PTL DEF Spec, NeverStripped
=============================================================================
