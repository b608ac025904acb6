---------------------------- MODULE MatterRelay ----------------------------
(***************************************************************************)
(* The forwarder between the stick and a Matter server on the host         *)
(* (addon/thbrctl.py: matter_relay, matter_greeting).                      *)
(*                                                                         *)
(* The stick dials one port of the host's address on the tap.  A server on *)
(* loopback needs the forwarder there; a server on every interface has the *)
(* port itself and must find it free whenever it starts.  The forwarder    *)
(* learns which of the two it is by trying to take the port.               *)
(***************************************************************************)
EXTENDS Naturals

CONSTANTS
  MaxWaits,  \* how often it waits for a port held by no Matter server (5)
  MaxPairs,  \* bound: connections it carries at a time
  MaxEvents  \* bound: stops of the server, restarts of the container, losses

ASSUME RelayAssumption == MaxWaits \in Nat /\ MaxPairs \in Nat \ {0} /\ MaxEvents \in Nat

VARIABLES
  wild,     \* the server listens on every interface, not on loopback only
  server,   \* "down", "up", or "locked" out of its port
  tap,      \* the host's address on the tap exists
  foreign,  \* another process has the port there
  relay,    \* where matter_relay is; "hung" in a greeting that never ends
  waited,   \* how often it has waited
  pair,     \* the connections it carries, each with two threads
  events,   \* how much of MaxEvents is used up
  met,      \* history: a Matter server has answered this forwarder on the tap
  missed    \* history: the server has stopped since it answered on loopback

place == <<wild, tap, foreign>>
relayVars == <<place, server, relay, waited, pair, events, met, missed>>

Ends == {"stick", "server"}
Other(e) == CHOOSE o \in Ends : o # e
Pairs == 1..MaxPairs
NoPair == [end |-> [e \in Ends |-> "none"], threads |-> {}]
AllPairs == [end : [Ends -> {"none", "open", "shut", "lost"}], threads : SUBSET Ends]

Everywhere == server = "up" /\ wild
Taken == Everywhere \/ foreign
Event == events < MaxEvents /\ events' = events + 1

RelayInit ==
  /\ wild \in BOOLEAN /\ server = "down" /\ tap = FALSE /\ foreign \in BOOLEAN
  /\ relay = "probe" /\ waited = 0 /\ pair = [l \in Pairs |-> NoPair]
  /\ events = 0 /\ met = FALSE /\ missed = FALSE

-----------------------------------------------------------------------------
(* The port.                                                               *)

MutantOnSpec == TRUE
Greets == server = "up"

\* "wait until the server this would forward TO actually answers": it has upgraded the
\* connection and owes its greeting,
Dialled ==
  /\ relay = "probe" /\ Greets
  /\ relay' = "greet"
  /\ UNCHANGED <<place, server, waited, pair, events, met, missed>>

\* which comes,
Greeted ==
  /\ relay = "greet"
  /\ relay' = "bind" /\ missed' = FALSE
  /\ UNCHANGED <<place, server, waited, pair, events, met>>

\* or not within four seconds; the next try is a pause away.
GreetFails ==
  /\ relay = "greet"
  /\ relay' = "probe"
  /\ UNCHANGED <<place, server, waited, pair, events, met, missed>>

\* Without the tap the bind fails and is tried again.
Bind ==
  /\ relay = "bind" /\ tap
  /\ relay' = IF Taken THEN "contest" ELSE "listen"
  /\ UNCHANGED <<place, server, waited, pair, events, met, missed>>

StandDown == relay' = "off"

\* A Matter server has the port
Meet ==
  /\ relay = "contest" /\ Everywhere
  /\ relay' = "meet"
  /\ UNCHANGED <<place, server, waited, pair, events, met, missed>>

\* and greets: it can keep it.
Yield ==
  /\ relay = "meet"
  /\ StandDown /\ met' = TRUE
  /\ UNCHANGED <<place, server, waited, pair, events, missed>>

\* Some other websocket server has it, and closes after the upgrade.
Baffled ==
  /\ relay = "contest" /\ foreign
  /\ relay' = "hung"
  /\ UNCHANGED <<place, server, waited, pair, events, met, missed>>

\* Nothing that speaks Matter, or not within four seconds.
Wait ==
  /\ relay \in {"contest", "meet", "refused"}
  /\ IF waited < MaxWaits THEN relay' = "bind" /\ waited' = waited + 1
                          ELSE relay' = "off" /\ UNCHANGED waited
  /\ UNCHANGED <<place, server, pair, events, met, missed>>

-----------------------------------------------------------------------------
(* The connections.                                                        *)

Asking(l) == pair[l].end["stick"] # "none" /\ pair[l].threads = {}

\* The stick connects; one connection is dialled on at a time.
Accept(l) ==
  /\ relay = "listen" /\ \A k \in Pairs : ~Asking(k)
  /\ pair[l] = NoPair /\ \A k \in 1..(l - 1) : pair[k] # NoPair
  /\ pair' = [pair EXCEPT ![l].end["stick"] = "open"]
  /\ UNCHANGED <<place, server, relay, waited, events, met, missed>>

CloseClient(l) == pair' = [pair EXCEPT ![l] = NoPair]

DialOn(l) ==
  /\ Asking(l)
  /\ IF server = "up"
       THEN pair' = [pair EXCEPT ![l].end["server"] = "open", ![l].threads = Ends]
       ELSE CloseClient(l)
  /\ UNCHANGED <<place, server, relay, waited, events, met, missed>>

MutantLeaveOther(p, e) == [p EXCEPT !.end[e] = "shut"]
Shutdown(p, e) == [p EXCEPT !.end = [x \in Ends |-> "shut"]]

\* A thread finds its side closed, or cannot pass on what it has read.
ThreadEnds(l, e) ==
  /\ e \in pair[l].threads
  /\ \/ pair[l].end[e] = "shut"
     \/ pair[l].end[e] = "open" /\ pair[l].end[Other(e)] \in {"shut", "lost"}
  /\ LET rest == [pair[l] EXCEPT !.threads = pair[l].threads \ {e}]
     IN pair' = [pair EXCEPT ![l] = IF rest.threads = {} THEN NoPair ELSE Shutdown(rest, e)]
  /\ UNCHANGED <<place, server, relay, waited, events, met, missed>>

\* The stick's side closes, or is gone without a word; of the connections the model
\* has room for, one is spared.
StickCloses(l, how) ==
  /\ pair[l].end["stick"] = "open"
  /\ how = "lost" => \E k \in Pairs \ {l} : pair[k].end["stick"] # "lost"
  /\ pair' = [pair EXCEPT ![l].end["stick"] = how]
  /\ UNCHANGED <<place, server, relay, waited, met, missed>>

-----------------------------------------------------------------------------
(* The host around it.                                                     *)

TapComes ==
  /\ ~tap /\ tap' = TRUE
  /\ UNCHANGED <<wild, foreign, server, relay, waited, pair, events, met, missed>>

ForeignGoes ==
  /\ foreign /\ foreign' = FALSE
  /\ UNCHANGED <<wild, tap, server, relay, waited, pair, events, met, missed>>

\* A server on every interface needs the port everywhere.
ServerStarts ==
  /\ server = "down"
  /\ server' = IF wild /\ (foreign \/ relay = "listen") THEN "locked" ELSE "up"
  /\ UNCHANGED <<place, relay, waited, pair, events, met, missed>>

\* What a connection closed before the greeting leaves: a reset ends the greeting, an
\* ordinary end does not, for recv then returns nothing again and again.
Interrupted ==
  CASE relay = "greet" -> {"probe", "hung"}
    [] relay = "meet" -> {"refused", "hung"}
    [] OTHER -> {relay}

ServerStops ==
  /\ server # "down" /\ Event
  /\ server' = "down" /\ missed' = TRUE
  /\ pair' = [l \in Pairs |-> IF pair[l].end["server"] = "open"
                                THEN [pair[l] EXCEPT !.end["server"] = "shut"] ELSE pair[l]]
  /\ relay' \in Interrupted
  /\ UNCHANGED <<place, waited, met>>

ContainerRestarts ==
  /\ Event
  /\ relay' = "probe" /\ waited' = 0 /\ pair' = [l \in Pairs |-> NoPair] /\ met' = FALSE
  /\ UNCHANGED <<place, server, missed>>

-----------------------------------------------------------------------------
Port == Dialled \/ Greeted \/ Bind \/ Meet \/ Yield \/ Wait
Failure == GreetFails \/ Baffled
Threads == \E l \in Pairs : DialOn(l) \/ \E e \in Ends : ThreadEnds(l, e)
Host == TapComes \/ ForeignGoes \/ ServerStarts \/ ContainerRestarts

RelayNext ==
  \/ Port \/ Failure \/ Threads \/ Host \/ ServerStops
  \/ \E l \in Pairs : Accept(l) \/ (StickCloses(l, "shut") /\ UNCHANGED events)
                               \/ (StickCloses(l, "lost") /\ Event)
RelaySpec == RelayInit /\ [][RelayNext]_relayVars

RelayTypeOK ==
  /\ <<wild, tap, foreign, met, missed>> \in BOOLEAN \X BOOLEAN \X BOOLEAN \X BOOLEAN \X BOOLEAN
  /\ server \in {"down", "up", "locked"}
  /\ relay \in {"probe", "greet", "bind", "contest", "meet", "refused", "listen", "off", "hung"}
  /\ waited \in 0..MaxWaits /\ events \in 0..MaxEvents
  /\ pair \in [Pairs -> AllPairs]

\* "Do not take the port on spec": a server that listens everywhere finds its port
\* taken by the forwarder only if it had answered and stopped again before the port
\* was taken; and never after it has answered on the tap itself, for then the
\* forwarder stands down, and stays down.
PortLeftAlone ==
  relay = "listen" => ~met /\ (wild => missed)

\* Whichever side hangs up, the other one is told and both threads end.
OneEndEndsBoth ==
  \A l \in Pairs :
    (\E e \in Ends : pair[l].end[e] = "shut") ~> pair[l] = NoPair
=============================================================================
