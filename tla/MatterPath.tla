----------------------------- MODULE MatterPath -----------------------------
(***************************************************************************)
(* The stick's websocket together with the forwarder it dials: what one of *)
(* them sees of the other, and whether the stick gets to the server.       *)
(***************************************************************************)
EXTENDS ProxyLink, MatterRelay

VARIABLE via   \* the stick's connection: one of the forwarder's, or 0: none or direct

linkVars == <<tcp, quiet, heard, wait, queued, spoke, since, age>>
pathVars == <<linkVars, relayVars, via>>

PathInit == Init /\ RelayInit /\ via = 0

Carried == via # 0 /\ pair[via].end = [e \in Ends |-> "open"]
Direct == via = 0 /\ Everywhere /\ tap
ToServer == IF via = 0 THEN Direct ELSE Carried

-----------------------------------------------------------------------------
\* The client library dials; the forwarder accepts before it knows more.
Dial ==
  /\ tcp = "none" /\ via = 0 /\ tap
  /\ \E l \in Pairs : Accept(l) /\ via' = l
  /\ UNCHANGED linkVars

\* The server has answered the handshake.
Handshake == ToServer /\ Connected /\ UNCHANGED <<relayVars, via>>

FrameArrives == ToServer /\ Frame /\ UNCHANGED <<relayVars, via>>

\* The stick lets go of its connection, and the forwarder hears of it or not.
LetGo ==
  /\ via' = 0
  /\ IF via # 0 /\ pair[via].end["stick"] = "open"
       THEN \/ StickCloses(via, "shut") /\ UNCHANGED events
            \/ StickCloses(via, "lost") /\ Event
       ELSE UNCHANGED relayVars

\* What the stick is connected to has closed the connection.
HungUp == IF via = 0 THEN ~Direct ELSE pair[via].end["stick"] \in {"none", "shut"}

DialFails == tcp = "none" /\ via # 0 /\ HungUp /\ LetGo /\ UNCHANGED linkVars

Notices == LibraryNotices /\ LetGo

\* The link breaks without a word, for both sides.
Vanishes ==
  /\ ServerVanishes /\ Event /\ UNCHANGED via
  /\ IF Carried THEN StickCloses(via, "lost")
                ELSE UNCHANGED <<place, server, relay, waited, pair, met, missed>>

WatchdogLooks == Timeout /\ IF Silent THEN LetGo ELSE UNCHANGED <<relayVars, via>>

Stays == UNCHANGED <<relayVars, via>>
OwnLink == (BleTraffic \/ Take \/ Tick) /\ Stays

Apart == UNCHANGED <<linkVars, via>>
OwnRelay == (Port \/ Failure \/ Threads \/ Host) /\ Apart

\* A server that stops closes its connections; one that led straight to the stick is
\* gone with it.
MatterStops ==
  /\ ServerStops /\ UNCHANGED via
  /\ IF via = 0 /\ tcp = "up" THEN LibraryNotices ELSE UNCHANGED linkVars

PathNext ==
  \/ Dial \/ Handshake \/ FrameArrives \/ DialFails \/ Notices \/ Vanishes
  \/ WatchdogLooks \/ OwnLink \/ OwnRelay \/ MatterStops

PathSpec == PathInit /\ [][PathNext]_pathVars

\* Time passes, the proxy task and the forwarder's threads run, server and tap come up.
\* The client library dials again and again and sees a connection that was closed, but
\* not one that broke without a word.  The watchdog, which comes once a minute, does
\* not interrupt every single dial, and a server that runs does not miss the four
\* seconds for its greeting every time.
FairSpec ==
  /\ PathSpec
  /\ WF_pathVars(Take /\ Stays) /\ WF_pathVars(Tick /\ Stays) /\ WF_pathVars(WatchdogLooks)
  /\ WF_pathVars(Dial) /\ SF_pathVars(Handshake) /\ WF_pathVars(DialFails)
  /\ WF_pathVars(tcp = "up" /\ HungUp /\ Notices)
  /\ WF_pathVars(Port /\ Apart) /\ SF_pathVars(Greeted /\ Apart)
  /\ WF_pathVars((ServerStarts \/ TapComes) /\ Apart)
  /\ \A l \in Pairs :
       /\ WF_pathVars(DialOn(l) /\ Apart)
       /\ SF_pathVars(via = l /\ DialOn(l) /\ Apart)
       /\ \A e \in Ends :
            WF_pathVars(pair[l].end[e] = "shut" /\ ThreadEnds(l, e) /\ Apart)

-----------------------------------------------------------------------------
PathTypeOK == TypeOK /\ RelayTypeOK /\ via \in 0..MaxPairs

\* Whatever is lost, stopped and started on the way, a half-open link among it, the
\* stick is connected to the server again and again, provided its BLE side falls
\* silent some time, unless the forwarder has given the port up to a process that is
\* no Matter server, the server was locked out of it, or the forwarder hangs in a
\* greeting that was broken off.
StickGetsThrough ==
  <>[][~BleTraffic]_pathVars =>
    []<>(tcp = "up" \/ (relay \in {"off", "hung"} /\ ~wild) \/ server = "locked")
=============================================================================
