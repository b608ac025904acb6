-------------------------------- MODULE Slip --------------------------------
(***************************************************************************)
(* Ethernet frames over the stick's serial port, with SLIP framing.        *)
(*                                                                         *)
(* Both ends encode alike (eth_transmit in main/eth_link.c, slip_encode in *)
(* addon/tap_pump.py) and decode differently: rx_task on the stick,        *)
(* SlipDecoder.feed in the pump.  One direction is followed at a time:     *)
(* "side" is the end that decodes.                                         *)
(*                                                                         *)
(* The port loses bursts of bytes when a buffer overruns, carries the      *)
(* stick's plain-text boot banner, and goes away and comes back.           *)
(***************************************************************************)
EXTENDS Naturals, Sequences, SequencesExt

CONSTANTS
  Sides,      \* the ends whose decoder is followed
  MIN,        \* bytes of an Ethernet header
  MAX,        \* bytes of the longest frame
  Frames,     \* frames that are sent
  MaxFrames,  \* bound: frames sent in a behaviour
  MaxFaults   \* bound: faults of the port in a behaviour

\* The four bytes SLIP gives a meaning, and any other.
Octets == {"END", "ESC", "ESC_END", "ESC_ESC", "x"}

ASSUME SlipAssumption ==
  /\ Sides \subseteq {"stick", "pump"}
  /\ MIN \in Nat \ {0} /\ MAX \in Nat /\ MIN <= MAX
  /\ Frames \subseteq Seq(Octets)
  /\ \A f \in Frames : Len(f) \in 1..MAX
  /\ MaxFrames \in Nat /\ MaxFaults \in Nat

VARIABLES
  side,    \* who decodes
  frame,   \* the frame on the wire, or the last one
  wire,    \* what of its encoding is still to come
  d,       \* the decoder: its buffer and its escape flag
  got,     \* frames handed on since this one was begun
  sent,    \* frames sent
  faults,  \* faults of the port
  whole,   \* history: no fault since this frame was begun
  before,  \* history: and none from the beginning of the one before it
  bogus    \* history: frames handed on that were not sent

history == <<whole, before>>
vars == <<side, frame, wire, d, got, sent, faults, history, bogus>>

-----------------------------------------------------------------------------
Escape(b) == CASE b = "END" -> <<"ESC", "ESC_END">>
               [] b = "ESC" -> <<"ESC", "ESC_ESC">>
               [] OTHER -> <<b>>

Encode(f) == <<"END">> \o FlattenSeq([i \in DOMAIN f |-> Escape(f[i])]) \o <<"END">>

Empty == [buf |-> <<>>, esc |-> FALSE]

\* rx_task: an END always starts afresh; an escape nobody knows is taken literally.
MutantKeepEscape(s) == [buf |-> <<>>, esc |-> s.esc]
MutantKeepBuffer(s) == [buf |-> s.buf, esc |-> FALSE]
StickEnd(s) == Empty

Literal(s, b) == IF s.esc /\ b = "ESC_END" THEN "END"
                 ELSE IF s.esc /\ b = "ESC_ESC" THEN "ESC" ELSE b

MutantOneTooMany(s, b) ==
  CASE b = "END"            -> StickEnd(s)
    [] b = "ESC" /\ ~s.esc  -> [s EXCEPT !.esc = TRUE]
    [] OTHER -> [buf |-> IF Len(s.buf) <= MAX THEN Append(s.buf, Literal(s, b)) ELSE <<>>,
                 esc |-> FALSE]
StickFeed(s, b) ==
  CASE b = "END"            -> StickEnd(s)
    [] b = "ESC" /\ ~s.esc  -> [s EXCEPT !.esc = TRUE]
    [] OTHER -> [buf |-> IF Len(s.buf) < MAX THEN Append(s.buf, Literal(s, b)) ELSE <<>>,
                 esc |-> FALSE]

\* SlipDecoder.feed: an END after nothing changes nothing; an escape nobody knows
\* clears the buffer.
BadEscape(s, b) == s.esc /\ b \notin {"END", "ESC_END", "ESC_ESC"}
MutantStillEscaped == [buf |-> <<>>, esc |-> TRUE]
AfterBadEscape == Empty

PumpEnd(s) == IF s.buf # <<>> THEN Empty ELSE s

PumpFeed(s, b) ==
  CASE b = "END"           -> PumpEnd(s)
    [] BadEscape(s, b)     -> AfterBadEscape
    [] s.esc /\ b \in {"ESC_END", "ESC_ESC"} ->
         [buf |-> Append(s.buf, Literal(s, b)), esc |-> FALSE]
    [] b = "ESC" /\ ~s.esc -> [s EXCEPT !.esc = TRUE]
    [] OTHER -> [buf |-> IF Len(s.buf) >= MAX THEN <<>> ELSE Append(s.buf, b), esc |-> FALSE]

Feed(b) == IF side = "stick" THEN StickFeed(d, b) ELSE PumpFeed(d, b)

\* Both ends take what is shorter than a header for noise.
HandedOn(b) == b = "END" /\ Len(d.buf) >= MIN

Init ==
  /\ side \in Sides
  /\ frame = <<>> /\ wire = <<>> /\ d = Empty /\ got = <<>>
  /\ sent = 0 /\ faults = 0 /\ whole = TRUE /\ before = TRUE /\ bogus = 0

-----------------------------------------------------------------------------
\* The far end writes a frame.
Send(f) ==
  /\ wire = <<>>
  /\ sent < MaxFrames
  /\ sent' = sent + 1
  /\ frame' = f
  /\ wire' = Encode(f)
  /\ got' = <<>>
  /\ before' = whole /\ whole' = TRUE
  /\ UNCHANGED <<side, d, faults, bogus>>

\* A byte is decoded; an END may hand a frame on.
Take(b) ==
  /\ d' = Feed(b)
  /\ IF HandedOn(b)
     THEN /\ got' = Append(got, d.buf)
          /\ bogus' = IF d.buf = frame THEN bogus ELSE bogus + 1
     ELSE UNCHANGED <<got, bogus>>

Arrive ==
  /\ wire # <<>>
  /\ Take(Head(wire))
  /\ wire' = Tail(wire)
  /\ UNCHANGED <<side, frame, sent, faults, history>>

Fault ==
  /\ faults < MaxFaults /\ faults' = faults + 1
  /\ whole' = FALSE /\ UNCHANGED before

\* A burst is lost.
Lose(k) ==
  /\ Fault
  /\ k \in 1..Len(wire)
  /\ wire' = SubSeq(wire, k + 1, Len(wire))
  /\ UNCHANGED <<side, frame, d, got, sent, bogus>>

\* The stick has no memory for a frame that is complete.
NoMemory ==
  /\ Fault
  /\ side = "stick" /\ wire # <<>> /\ HandedOn(Head(wire))
  /\ d' = Feed(Head(wire))
  /\ wire' = Tail(wire)
  /\ UNCHANGED <<side, frame, got, sent, bogus>>

\* Text of the boot banner, between frames.
Banner ==
  /\ Fault
  /\ side = "pump" /\ wire = <<>>
  /\ Take("x")
  /\ UNCHANGED <<side, frame, wire, sent>>

\* The port goes away and comes back: a new decoder, and the rest is gone.
Reopen ==
  /\ Fault
  /\ d' = Empty /\ wire' = <<>>
  /\ UNCHANGED <<side, frame, got, sent, bogus>>

Next == \/ \E f \in Frames : Send(f)
        \/ Arrive \/ NoMemory \/ Banner \/ Reopen
        \/ \E k \in 1..Len(wire) : Lose(k)

Spec == Init /\ [][Next]_vars

-----------------------------------------------------------------------------
TypeOK ==
  /\ side \in Sides
  /\ frame \in Seq(Octets) /\ wire \in Seq(Octets)
  /\ d \in [buf : Seq(Octets), esc : BOOLEAN]
  /\ side = "stick" => Len(d.buf) <= MAX
  /\ got \in Seq(Seq(Octets))
  /\ sent \in 0..MaxFrames /\ faults \in 0..MaxFaults
  /\ whole \in BOOLEAN /\ before \in BOOLEAN /\ bogus \in Nat

\* Over a port that loses nothing, each end takes out what the other put in, and
\* nothing else: the two escapes, the END before and the END after undo each other.
RoundTrip ==
  faults = 0 /\ sent > 0 /\ wire = <<>> =>
    got = IF Len(frame) >= MIN THEN <<frame>> ELSE <<>>

\* "Finding frame boundaries after a buffer overrun, which the END byte does":
\* whatever was lost before, a frame of which nothing was lost is handed on.  The
\* stick's decoder keeps that promise; the pump's does not after a loss that leaves an
\* ESC alone behind an END, for it resets its escape only when its buffer holds data.
StickFindsFrames ==
  side = "stick" /\ whole /\ wire = <<>> /\ Len(frame) >= MIN =>
    got # <<>> /\ got[Len(got)] = frame

\* A fault of the port spoils the frame it falls on and, where it leaves an ESC alone
\* with the pump, the next one; there the damage ends.  Of a frame with no fault in it
\* nor in the one before, exactly that frame is handed on, by either end.
DamageIsLocal ==
  whole /\ before /\ sent > 0 /\ wire = <<>> =>
    got = IF Len(frame) >= MIN THEN <<frame>> ELSE <<>>

\* What is left of a spoiled frame may be handed on as one that nobody sent: at most
\* once for each fault, however often the pump drops its buffer and collects on.
FewFakes == bogus <= faults
=============================================================================
