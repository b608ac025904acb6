------------------------------ MODULE StickLog ------------------------------
(***************************************************************************)
(* A line of the stick's log on its way into the container's log: the sink *)
(* (LogRing), its datagrams, and the relay that makes lines of them again  *)
(* (addon/thbrctl.py: log_relay, stick_line_wanted).                       *)
(*                                                                         *)
(* The sink drops its oldest bytes, cuts a line at its buffer, and cuts    *)
(* the rest into datagrams wherever they are full; datagrams are lost.     *)
(* The relay cuts at newlines, gives up waiting for one after a silence,   *)
(* and leaves out the routine lines of some tags, which it knows by how a  *)
(* line begins.                                                            *)
(***************************************************************************)
EXTENDS LogRing, FiniteSets, SequencesExt

CONSTANT Datagrams   \* bound: datagrams on their way or in the socket's buffer

ASSUME DatagramsAssumption == Datagrams \in Nat \ {0}

VARIABLES
  said,       \* what was logged: a line's length, and whether it is routine
  mail,       \* datagrams sent and not yet received
  rest,       \* what the relay has still to look at of the datagram it received
  tail,       \* what it has of a line whose newline has not come
  cut,        \* history: lines that have lost a byte, their newline included
  swallowed   \* history: lines worth printing of which something was left out

relayVars == <<mail, rest, tail>>
history == <<cut, swallowed>>
pathVars == <<vars, said, relayVars, history>>

Numbers == 1..MaxLines
LinesIn(text) == {b.line : b \in ToSet(text)}
Newline(b) == b.pos = said[b.line].len /\ said[b.line].len < THBR_LINE_MAX

PathInit ==
  /\ Init
  /\ said = [n \in Numbers |-> [len |-> 0, routine |-> FALSE]]
  /\ mail = <<>> /\ rest = <<>> /\ tail = <<>>
  /\ cut = {} /\ swallowed = {}

-----------------------------------------------------------------------------
(* The sink, and what becomes of its bytes.                                *)

SaysLine(t) ==
  /\ \E len \in Lengths, routine \in BOOLEAN :
       /\ Format(t, len)
       /\ said' = [said EXCEPT ![lines + 1] = [len |-> len, routine |-> routine]]
       /\ cut' = IF len < THBR_LINE_MAX THEN cut ELSE cut \cup {lines + 1}
  /\ UNCHANGED <<relayVars, swallowed>>

PutsByte(t) ==
  /\ PutByte(t)
  /\ cut' = IF s_tail' # s_tail THEN cut \cup {s_ring[s_tail].line} ELSE cut
  /\ UNCHANGED <<said, relayVars, swallowed>>

SendsOn ==
  /\ Send
  /\ \/ chunk = <<>> /\ UNCHANGED <<mail, cut>>
     \/ chunk # <<>> /\ Len(mail) < Datagrams /\ mail' = Append(mail, chunk) /\ UNCHANGED cut
     \/ chunk # <<>> /\ cut' = cut \cup LinesIn(chunk) /\ UNCHANGED mail    \* lost
  /\ UNCHANGED <<said, rest, tail, swallowed>>

OnTheStick ==
  /\ \/ Detach \/ LinkUp \/ SenderLock \/ GetByte \/ SenderUnlock
     \/ \E t \in Tasks : TryLock(t) \/ Unlock(t) \/ Mirror(t) \/ Printed(t)
  /\ UNCHANGED <<said, relayVars, history>>

-----------------------------------------------------------------------------
(* log_relay.                                                              *)

\* stick_line_wanted: what begins like a routine line is left out.
LeftOut(text) == text # <<>> /\ text[1].pos = 1 /\ said[text[1].line].routine

Emit(text) ==
  /\ swallowed' = IF LeftOut(text)
                    THEN swallowed \cup {n \in LinesIn(text) : ~said[n].routine} ELSE swallowed
  /\ UNCHANGED cut

Receive ==
  /\ rest = <<>> /\ mail # <<>>
  /\ rest' = Head(mail) /\ mail' = Tail(mail)
  /\ UNCHANGED <<vars, said, tail, history>>

MutantNeverCleared(text) == text
AfterNewline(text) == <<>>

\* text.split("\n"), one byte at a time.
Split ==
  /\ rest # <<>>
  /\ rest' = Tail(rest)
  /\ IF Newline(Head(rest))
       THEN Emit(tail) /\ tail' = AfterNewline(tail)
       ELSE tail' = Append(tail, Head(rest)) /\ UNCHANGED history
  /\ UNCHANGED <<vars, said, mail>>

MutantNoFlush == UNCHANGED tail
Flushed == tail' = <<>>

\* Half a second without a datagram.
Silence ==
  /\ rest = <<>> /\ mail = <<>> /\ tail # <<>>
  /\ Emit(tail) /\ Flushed
  /\ UNCHANGED <<vars, said, mail, rest>>

\* The container is stopped and started again.
RelayStarts ==
  /\ mail' = <<>> /\ rest' = <<>> /\ tail' = <<>>
  /\ cut' = cut \cup LinesIn(tail \o rest) \cup UNION {LinesIn(text) : text \in ToSet(mail)}
  /\ UNCHANGED <<vars, said, swallowed>>

Relay == Receive \/ Split \/ Silence

-----------------------------------------------------------------------------
PathNext ==
  \/ OnTheStick \/ SendsOn \/ Relay \/ RelayStarts
  \/ \E t \in Tasks : SaysLine(t) \/ PutsByte(t)

PathSpec == PathInit /\ [][PathNext]_pathVars

\* The tasks of the stick and the relay's thread run; the console is handed over.
FairSpec == PathSpec /\ WF_pathVars(OnTheStick \/ SendsOn) /\ WF_pathVars(Relay)
                     /\ \A t \in Tasks : WF_pathVars(PutsByte(t))

-----------------------------------------------------------------------------
PathTypeOK ==
  /\ TypeOK
  /\ said \in [Numbers -> [len : Lengths \cup {0}, routine : BOOLEAN]]
  /\ mail \in Seq(Seq(Bytes)) /\ Len(mail) <= Datagrams
  /\ rest \in Seq(Bytes) /\ tail \in Seq(Bytes)
  /\ cut \subseteq Numbers /\ swallowed \subseteq Numbers

\* "Warnings and errors from these tags are still kept; only the running commentary
\* goes": lines run into each other only where bytes were lost, and a line that lost
\* some takes at most one line that was worth printing out of the container's log.
OneCutOneLine == Cardinality(swallowed) <= Cardinality(cut)

\* When the tasks have said all they say, everything kept is on its way out and
\* nothing stays behind, a last line without its newline included; but without a
\* socket the sender has ended, and the ring keeps what it has for good.
Drains ==
  <>[](/\ mail = <<>> /\ rest = <<>> /\ tail = <<>>
       /\ sender = "gone" \/ (s_tail = s_head /\ chunk = <<>>))
=============================================================================
