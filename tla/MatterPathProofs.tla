-------------------------- MODULE MatterPathProofs --------------------------
(***************************************************************************)
(* Proofs about MatterPath, for any time limits, queue, number of          *)
(* connections and number of losses: the steps of the whole are steps of   *)
(* the websocket and of the forwarder, so that what those two keep by      *)
(* themselves holds of the whole.                                          *)
(***************************************************************************)
EXTENDS MatterPath, TLAPS

-----------------------------------------------------------------------------
(* The parts of a step.                                                    *)

\* The loss of a link that did not pass through the forwarder.
LostElsewhere == Event /\ UNCHANGED <<place, server, relay, waited, pair, met, missed>>

RelayStep == RelayNext \/ LostElsewhere \/ UNCHANGED relayVars

\* Every step of the whole is one of the websocket, or leaves it alone.
LEMMA LinkPart == [PathNext]_pathVars => [Next]_vars
<1> SUFFICES ASSUME [PathNext]_pathVars PROVE [Next]_vars
  OBVIOUS
<1>1. UNCHANGED linkVars => UNCHANGED vars
  BY DEF linkVars, vars
<1>2. CASE Dial \/ DialFails \/ OwnRelay
  BY <1>1, <1>2 DEF Dial, DialFails, OwnRelay, Apart
<1>3. CASE Handshake \/ FrameArrives \/ Notices \/ Vanishes \/ WatchdogLooks \/ OwnLink
  BY <1>3 DEF Handshake, FrameArrives, Notices, Vanishes, WatchdogLooks, OwnLink, Next
<1>4. CASE MatterStops
  BY <1>1, <1>4 DEF MatterStops, Next
<1>5. CASE UNCHANGED pathVars
  BY <1>1, <1>5 DEF pathVars
<1> QED
  BY <1>2, <1>3, <1>4, <1>5 DEF PathNext

\* Letting go is the stick's side closing, with or without a word, or nothing.
LEMMA LetGoPart == ASSUME via \in 0..MaxPairs, LetGo PROVE RelayStep
<1>1. CASE via # 0 /\ pair[via].end["stick"] = "open"
  <2>1. via \in Pairs
    BY <1>1, RelayAssumption DEF Pairs
  <2> QED
    BY <1>1, <2>1 DEF LetGo, RelayStep, RelayNext
<1>2. CASE ~(via # 0 /\ pair[via].end["stick"] = "open")
  BY <1>2 DEF LetGo, RelayStep
<1> QED
  BY <1>1, <1>2

\* Every step of the whole is one of the forwarder, or leaves it alone but for the
\* count of losses.
LEMMA RelayPart == ASSUME via \in 0..MaxPairs, [PathNext]_pathVars PROVE RelayStep
<1>1. CASE Dial
  BY <1>1 DEF Dial, RelayStep, RelayNext
<1>2. CASE Handshake \/ FrameArrives \/ OwnLink
  BY <1>2 DEF Handshake, FrameArrives, OwnLink, Stays, RelayStep
<1>3. CASE DialFails \/ Notices
  BY <1>3, LetGoPart DEF DialFails, Notices
<1>4. CASE WatchdogLooks
  BY <1>4, LetGoPart DEF WatchdogLooks, RelayStep
<1>5. CASE Vanishes
  <2>1. CASE Carried
    <3>1. via \in Pairs
      BY <2>1, RelayAssumption DEF Carried, Pairs
    <3> QED
      BY <1>5, <2>1, <3>1 DEF Vanishes, RelayStep, RelayNext
  <2>2. CASE ~Carried
    BY <1>5, <2>2 DEF Vanishes, RelayStep, LostElsewhere
  <2> QED
    BY <2>1, <2>2
<1>6. CASE OwnRelay
  BY <1>6 DEF OwnRelay, RelayStep, RelayNext
<1>7. CASE MatterStops
  BY <1>7 DEF MatterStops, RelayStep, RelayNext
<1>8. CASE UNCHANGED pathVars
  BY <1>8 DEF pathVars, RelayStep
<1> QED
  BY <1>1, <1>2, <1>3, <1>4, <1>5, <1>6, <1>7, <1>8 DEF PathNext

-----------------------------------------------------------------------------
(* Types.                                                                  *)

LEMMA LinkType == TypeOK /\ [Next]_vars => TypeOK'
<1> SUFFICES ASSUME TypeOK, [Next]_vars PROVE TypeOK'
  OBVIOUS
<1> USE TimeAssumption DEF TypeOK
<1>1. CASE Connected
  BY <1>1 DEF Connected, Put
<1>2. CASE Frame
  BY <1>2 DEF Frame, Pong, Put
<1>3. CASE LibraryNotices \/ ServerVanishes
  BY <1>3 DEF LibraryNotices, ServerVanishes
<1>4. CASE BleTraffic
  BY <1>4 DEF BleTraffic, Put
<1>5. CASE Take
  BY <1>5 DEF Take
<1>6. CASE Timeout
  BY <1>6 DEF Timeout, NewMinute
<1>7. CASE Tick
  <2>1. /\ quiet' = (IF quiet < LIMIT THEN quiet + 1 ELSE quiet) /\ quiet \in Nat /\ quiet <= LIMIT
        /\ age' = (IF age < LIMIT THEN age + 1 ELSE age) /\ age \in Nat /\ age <= LIMIT
        /\ wait' = wait + 1 /\ wait \in Nat /\ wait < WAIT
        /\ LIMIT \in Nat /\ WAIT \in Nat
    BY <1>7 DEF Tick
  <2>2. quiet' \in 0..LIMIT /\ age' \in 0..LIMIT /\ wait' \in 0..WAIT
    BY <2>1
  <2>3. since' \in 0..PONG
    BY <1>7 DEF Tick
  <2> QED
    BY <1>7, <2>2, <2>3 DEF Tick
<1>8. CASE UNCHANGED vars
  BY <1>8 DEF vars
<1> QED
  BY <1>1, <1>2, <1>3, <1>4, <1>5, <1>6, <1>7, <1>8 DEF Next

LEMMA EventType == ASSUME events \in 0..MaxEvents, Event PROVE events' \in 0..MaxEvents
BY RelayAssumption DEF Event

\* A thread's end leaves a pair of the kind there are.
LEMMA PairType ==
  ASSUME pair \in [Pairs -> AllPairs], NEW l \in Pairs, NEW e \in Ends
  PROVE  Shutdown([pair[l] EXCEPT !.threads = pair[l].threads \ {e}], e) \in AllPairs
BY DEF Shutdown, AllPairs, Ends

LEMMA RelayType == RelayTypeOK /\ RelayStep => RelayTypeOK'
<1> SUFFICES ASSUME RelayTypeOK, RelayStep PROVE RelayTypeOK'
  OBVIOUS
<1> USE RelayAssumption DEF RelayTypeOK, place
<1>0. NoPair \in AllPairs /\ Ends = {"stick", "server"}
  BY DEF NoPair, AllPairs, Ends
<1>1. CASE Port
  <2>1. CASE Wait
    <3>1. waited' \in 0..MaxWaits
      BY <2>1 DEF Wait
    <3>2. relay' \in {"bind", "off"}
      BY <2>1 DEF Wait
    <3> QED
      BY <2>1, <3>1, <3>2 DEF Wait
  <2>2. CASE Dialled \/ Greeted \/ Bind \/ Meet \/ Yield
    BY <2>2 DEF Dialled, Greeted, Bind, Meet, Yield, StandDown
  <2> QED
    BY <1>1, <2>1, <2>2 DEF Port
<1>2. CASE Threads
  <2>1. PICK l \in Pairs : DialOn(l) \/ \E e \in Ends : ThreadEnds(l, e)
    BY <1>2 DEF Threads
  <2>2. CASE DialOn(l)
    BY <1>0, <2>2 DEF DialOn, CloseClient, AllPairs
  <2>3. ASSUME NEW e \in Ends, ThreadEnds(l, e) PROVE RelayTypeOK'
    BY <1>0, <2>3, PairType DEF ThreadEnds
  <2> QED
    BY <2>1, <2>2, <2>3
<1>3. CASE TapComes \/ ForeignGoes \/ ServerStarts
  BY <1>3 DEF TapComes, ForeignGoes, ServerStarts
<1>4. CASE ContainerRestarts
  <2>1. events' \in 0..MaxEvents
    BY <1>4, EventType DEF ContainerRestarts
  <2>2. waited' \in 0..MaxWaits
    BY <1>4 DEF ContainerRestarts
  <2>3. pair' \in [Pairs -> AllPairs]
    BY <1>0, <1>4 DEF ContainerRestarts
  <2> QED
    BY <1>4, <2>1, <2>2, <2>3 DEF ContainerRestarts
<1>5. CASE ServerStops
  <2>1. ASSUME NEW l \in Pairs
        PROVE  [pair[l] EXCEPT !.end["server"] = "shut"] \in AllPairs
    BY <1>0 DEF AllPairs
  <2>2. events' \in 0..MaxEvents
    BY <1>5, EventType DEF ServerStops
  <2>3. pair' \in [Pairs -> AllPairs]
    BY <1>5, <2>1 DEF ServerStops
  <2>4. Interrupted \subseteq {"probe", "hung", "refused", relay}
    BY DEF Interrupted
  <2> QED
    BY <1>5, <2>2, <2>3, <2>4 DEF ServerStops
<1>6. ASSUME NEW l \in Pairs, Accept(l) PROVE RelayTypeOK'
  BY <1>0, <1>6 DEF Accept, AllPairs
<1>7. ASSUME NEW l \in Pairs, NEW how \in {"shut", "lost"}, StickCloses(l, how),
             UNCHANGED events \/ Event
      PROVE  RelayTypeOK'
  <2>1. events' \in 0..MaxEvents
    BY <1>7, EventType
  <2>2. pair' \in [Pairs -> AllPairs]
    <3>1. [pair[l] EXCEPT !.end["stick"] = how] \in AllPairs
      BY <1>0 DEF AllPairs
    <3>2. pair' = [pair EXCEPT ![l] = [pair[l] EXCEPT !.end["stick"] = how]]
      BY <1>7 DEF StickCloses
    <3> QED
      BY <3>1, <3>2
  <2> QED
    BY <1>7, <2>1, <2>2 DEF StickCloses
<1>8. CASE LostElsewhere
  BY <1>8, EventType DEF LostElsewhere
<1>9. CASE UNCHANGED relayVars
  BY <1>9 DEF relayVars
<1>10. CASE Failure
  BY <1>10 DEF Failure, GreetFails, Baffled
<1> QED
  BY <1>1, <1>2, <1>3, <1>4, <1>5, <1>6, <1>7, <1>8, <1>9, <1>10 DEF RelayStep, RelayNext, Host

LEMMA ViaType == RelayTypeOK /\ via \in 0..MaxPairs /\ [PathNext]_pathVars => (via \in 0..MaxPairs)'
BY RelayAssumption DEF PathNext, pathVars, Dial, Handshake, FrameArrives, DialFails, Notices,
   Vanishes, WatchdogLooks, OwnLink, OwnRelay, MatterStops, LetGo, Stays, Apart, Pairs

LEMMA InitTypes == PathInit => PathTypeOK
<1> SUFFICES ASSUME PathInit PROVE PathTypeOK
  OBVIOUS
<1>1. TypeOK
  <2>1. quiet \in 0..LIMIT /\ wait \in 0..WAIT /\ queued \in 0..Q_DEPTH /\ since \in 0..PONG
        /\ age \in 0..LIMIT
    BY TimeAssumption DEF PathInit, Init
  <2> QED
    BY <2>1 DEF PathInit, Init, TypeOK
<1>2. NoPair \in AllPairs
  BY DEF NoPair, AllPairs, Ends
<1>3. RelayTypeOK
  <2>1. waited \in 0..MaxWaits /\ events \in 0..MaxEvents
    BY RelayAssumption DEF PathInit, RelayInit
  <2>2. pair \in [Pairs -> AllPairs]
    BY <1>2 DEF PathInit, RelayInit
  <2> QED
    BY <2>1, <2>2 DEF PathInit, RelayInit, RelayTypeOK
<1>4. via \in 0..MaxPairs
  BY RelayAssumption DEF PathInit
<1> QED
  BY <1>1, <1>3, <1>4 DEF PathTypeOK

LEMMA StepTypes == PathTypeOK /\ [PathNext]_pathVars => PathTypeOK'
BY LinkPart, LinkType, RelayPart, RelayType, ViaType DEF PathTypeOK

\* The variables of websocket, forwarder and the connection between them keep their types.
THEOREM TypeCorrect == PathSpec => []PathTypeOK
BY InitTypes, StepTypes, PTL DEF PathSpec

-----------------------------------------------------------------------------
(* The watchdog.                                                           *)

\* The watchdog's clock is never ahead of the server's silence, where there is a
\* server, nor of the age of the attempt.
ClockIsFair == (tcp = "up" => quiet <= since) /\ quiet <= age

LEMMA StepClock == TypeOK /\ ClockIsFair /\ [Next]_vars => ClockIsFair'
<1> SUFFICES ASSUME TypeOK, ClockIsFair, [Next]_vars PROVE ClockIsFair'
  OBVIOUS
<1> USE TimeAssumption DEF TypeOK, ClockIsFair
<1>1. CASE Connected
  BY <1>1 DEF Connected
<1>2. CASE Frame
  BY <1>2 DEF Frame, Pong
<1>3. CASE LibraryNotices \/ ServerVanishes
  BY <1>3 DEF LibraryNotices, ServerVanishes
<1>4. CASE BleTraffic \/ Take
  BY <1>4 DEF BleTraffic, Take
<1>5. CASE Timeout
  BY <1>5 DEF Timeout, NewMinute
<1>6. CASE Tick
  BY <1>6 DEF Tick
<1>7. CASE UNCHANGED vars
  BY <1>7 DEF vars
<1> QED
  BY <1>1, <1>2, <1>3, <1>4, <1>5, <1>6, <1>7 DEF Next

LEMMA ClockHolds == PathSpec => [](TypeOK /\ ClockIsFair)
<1>1. PathInit => TypeOK /\ ClockIsFair
  BY InitTypes DEF PathTypeOK, PathInit, Init, ClockIsFair
<1>2. TypeOK /\ ClockIsFair /\ [PathNext]_pathVars => (TypeOK /\ ClockIsFair)'
  BY LinkPart, LinkType, StepClock
<1> QED
  BY <1>1, <1>2, PTL DEF PathSpec

\* The watchdog never hangs up on a server that is there: such a server was heard of
\* within PONG ticks, and the watchdog waits for LIMIT.
THEOREM ServerIsSpared == PathSpec => LiveServerSpared
<1>1. TypeOK /\ ClockIsFair => [tcp = "up" /\ Timeout => tcp' = "up"]_vars
  BY TimeAssumption DEF TypeOK, ClockIsFair, Timeout, Silent
<1> QED
  BY <1>1, ClockHolds, PTL DEF LiveServerSpared

\* A link that was just made, or dialled again by the watchdog, gets its own minute.
THEOREM LinkHasItsMinute == PathSpec => NewLinkHasItsMinute
<1>1. TypeOK /\ ClockIsFair => [Timeout /\ Silent => age = LIMIT]_vars
  BY TimeAssumption DEF TypeOK, ClockIsFair, Timeout, Silent
<1> QED
  BY <1>1, ClockHolds, PTL DEF NewLinkHasItsMinute

-----------------------------------------------------------------------------
(* The port.                                                               *)

\* A forwarder that is not off has met no server on the tap; a server that owes its
\* greeting runs; between greeting and bind, a server that listens everywhere runs, or
\* has stopped since.
PortInv ==
  /\ relay # "off" => ~met
  /\ relay \in {"greet", "meet"} => server = "up"
  /\ wild /\ relay \in {"bind", "contest", "meet", "refused"} /\ ~missed => server = "up"
  /\ wild /\ relay = "listen" => missed

LEMMA StepPort == RelayTypeOK /\ PortInv /\ RelayStep => PortInv'
<1> SUFFICES ASSUME RelayTypeOK, PortInv, RelayStep PROVE PortInv'
  OBVIOUS
<1> USE DEF PortInv, place
<1>1. CASE Dialled \/ Greeted \/ Failure
  BY <1>1 DEF Dialled, Greeted, Greets, Failure, GreetFails, Baffled
<1>2. CASE Bind
  BY <1>2 DEF Bind, Taken, Everywhere
<1>3. CASE Meet \/ Yield \/ Wait
  BY <1>3 DEF Meet, Yield, Wait, StandDown, Everywhere
<1>4. CASE Threads
  <2>1. UNCHANGED <<wild, server, relay, met, missed>>
    BY <1>4 DEF Threads, DialOn, ThreadEnds
  <2> QED
    BY <2>1
<1>5. CASE TapComes \/ ForeignGoes \/ ServerStarts
  BY <1>5 DEF TapComes, ForeignGoes, ServerStarts
<1>6. CASE ContainerRestarts \/ ServerStops
  BY <1>6 DEF ContainerRestarts, ServerStops, Interrupted
<1>7. CASE \E l \in Pairs : Accept(l) \/ \E how \in {"shut", "lost"} : StickCloses(l, how)
  BY <1>7 DEF Accept, StickCloses
<1>8. CASE LostElsewhere
  BY <1>8 DEF LostElsewhere
<1>9. CASE UNCHANGED relayVars
  BY <1>9 DEF relayVars
<1> QED
  BY <1>1, <1>2, <1>3, <1>4, <1>5, <1>6, <1>7, <1>8, <1>9
     DEF RelayStep, RelayNext, Port, Host

\* A server that listens everywhere finds the forwarder in its port only if it had
\* answered and stopped before the port was taken, never after it was met there.
THEOREM PortIsLeftAlone == PathSpec => []PortLeftAlone
<1>1. PathInit => PathTypeOK /\ PortInv
  BY InitTypes DEF PathInit, RelayInit, PortInv
<1>2. PathTypeOK /\ PortInv /\ [PathNext]_pathVars => (PathTypeOK /\ PortInv)'
  BY StepTypes, RelayPart, StepPort DEF PathTypeOK
<1>3. PortInv => PortLeftAlone
  BY DEF PortInv, PortLeftAlone
<1> QED
  BY <1>1, <1>2, <1>3, PTL DEF PathSpec
=============================================================================
