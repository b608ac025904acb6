------------------------------- MODULE LogRing -------------------------------
(***************************************************************************)
(* The log sink of the stick (main/log_sink.c): every task that logs runs  *)
(* the vprintf hook, which puts the line into a ring of bytes under a lock *)
(* it only tries for, and mirrors it to the console until the port is      *)
(* handed over; one sender task drains the ring into datagrams.            *)
(*                                                                         *)
(* A byte is known by the line it is of and its place in that line.        *)
(***************************************************************************)
EXTENDS Naturals, Sequences

CONSTANTS
  RING_SIZE,      \* bytes of s_ring
  THBR_LINE_MAX,  \* bytes of the hook's line buffer
  DRAIN_CHUNK,    \* bytes of a datagram
  Tasks,          \* tasks that log
  Sender, Nobody, \* the other two values of the lock's holder
  Lengths,        \* lengths a formatted line may have
  MaxLines        \* bound: lines logged

ASSUME RingAssumption ==
  /\ RING_SIZE \in Nat \ {0, 1}
  /\ THBR_LINE_MAX \in Nat \ {0}
  /\ DRAIN_CHUNK \in Nat \ {0}
  /\ MaxLines \in Nat
ASSUME LengthAssumption == Lengths \subseteq Nat
ASSUME HolderAssumption == Sender \notin Tasks /\ Nobody \notin Tasks /\ Sender # Nobody

Cells == 0..(RING_SIZE - 1)
Bytes == [line : 0..MaxLines, pos : 0..THBR_LINE_MAX]

VARIABLES
  s_ring, s_head, s_tail,  \* the ring, where it is written and where it is read
  s_lock,                  \* holder of the mutex
  s_detached,              \* the console belongs to the link
  at,                      \* where a task stands in the hook
  todo,                    \* what it has still to put: [line, pos, len]
  chunk,                   \* what the sender has taken out
  sender,                  \* where the sender stands
  lines                    \* lines logged so far

ringVars == <<s_ring, s_head, s_tail>>
hookVars == <<at, todo>>
vars == <<ringVars, s_lock, s_detached, hookVars, chunk, sender, lines>>

Blank == [line |-> 0, pos |-> 0]
NoLine == [line |-> 0, pos |-> 1, len |-> 0]

-----------------------------------------------------------------------------
MutantNoWrap(i) == i + 1
After(i) == (i + 1) % RING_SIZE

\* The oldest byte goes when the write position catches up with it.
MutantKeepTail(head) == s_tail
TailAfterPut(head) == IF head = s_tail THEN After(s_tail) ELSE s_tail

\* xSemaphoreTake(s_lock, 0)
MutantNoLock(t) == TRUE
LockFree(t) == s_lock = Nobody

\* vsnprintf truncates to the buffer, which also holds the terminating zero.
Kept(len) == IF len < THBR_LINE_MAX THEN len ELSE THBR_LINE_MAX - 1

Init ==
  /\ s_ring = [i \in Cells |-> Blank]
  /\ s_head = 0
  /\ s_tail = 0
  /\ s_lock = Nobody
  /\ s_detached = FALSE
  /\ at = [t \in Tasks |-> "idle"]
  /\ todo = [t \in Tasks |-> NoLine]
  /\ chunk = <<>>
  /\ sender = "wait"
  /\ lines = 0

-----------------------------------------------------------------------------
(* sink_vprintf, in the task that logs.                                    *)

Format(t, len) ==
  /\ at[t] = "idle"
  /\ lines < MaxLines
  /\ lines' = lines + 1
  /\ todo' = [todo EXCEPT ![t] = [line |-> lines + 1, pos |-> 1, len |-> Kept(len)]]
  /\ at' = [at EXCEPT ![t] = IF len > 0 THEN "lock" ELSE "mirror"]
  /\ UNCHANGED <<ringVars, s_lock, s_detached, chunk, sender>>

\* A line whose turn for the lock does not come at once is not kept.
TryLock(t) ==
  /\ at[t] = "lock"
  /\ IF LockFree(t)
     THEN s_lock' = t /\ at' = [at EXCEPT ![t] = "put"]
     ELSE at' = [at EXCEPT ![t] = "mirror"] /\ UNCHANGED s_lock
  /\ UNCHANGED <<ringVars, s_detached, todo, chunk, sender, lines>>

\* ring_put, byte by byte.
PutByte(t) ==
  /\ at[t] = "put"
  /\ todo[t].pos <= todo[t].len
  /\ s_ring' = [s_ring EXCEPT ![s_head] = [line |-> todo[t].line, pos |-> todo[t].pos]]
  /\ s_head' = After(s_head)
  /\ s_tail' = TailAfterPut(After(s_head))
  /\ todo' = [todo EXCEPT ![t].pos = @ + 1]
  /\ UNCHANGED <<s_lock, s_detached, at, chunk, sender, lines>>

Unlock(t) ==
  /\ at[t] = "put"
  /\ todo[t].pos > todo[t].len
  /\ s_lock' = Nobody
  /\ at' = [at EXCEPT ![t] = "mirror"]
  /\ UNCHANGED <<ringVars, s_detached, todo, chunk, sender, lines>>

\* The flag is read here, and s_console called after.
Mirror(t) ==
  /\ at[t] = "mirror"
  /\ at' = [at EXCEPT ![t] = IF s_detached THEN "idle" ELSE "console"]
  /\ UNCHANGED <<ringVars, s_lock, s_detached, todo, chunk, sender, lines>>

Printed(t) ==
  /\ at[t] = "console"
  /\ at' = [at EXCEPT ![t] = "idle"]
  /\ UNCHANGED <<ringVars, s_lock, s_detached, todo, chunk, sender, lines>>

\* log_sink_detach_console, in the main task.
Detach ==
  /\ ~s_detached
  /\ s_detached' = TRUE
  /\ UNCHANGED <<ringVars, s_lock, hookVars, chunk, sender, lines>>

-----------------------------------------------------------------------------
(* udp_task.  A wait for the lock that times out leaves it where it was.   *)

\* Without a socket the task ends, and nobody starts it again.
LinkUp ==
  /\ sender = "wait"
  /\ s_detached
  /\ sender' \in {"poll", "gone"}
  /\ UNCHANGED <<ringVars, s_lock, s_detached, hookVars, chunk, lines>>

SenderLock ==
  /\ sender = "poll"
  /\ s_lock = Nobody
  /\ s_lock' = Sender
  /\ sender' = "get"
  /\ UNCHANGED <<ringVars, s_detached, hookVars, chunk, lines>>

HasMore == Len(chunk) < DRAIN_CHUNK /\ s_tail # s_head

GetByte ==
  /\ sender = "get"
  /\ HasMore
  /\ chunk' = Append(chunk, s_ring[s_tail])
  /\ s_tail' = After(s_tail)
  /\ UNCHANGED <<s_ring, s_head, s_lock, s_detached, hookVars, sender, lines>>

SenderUnlock ==
  /\ sender = "get"
  /\ ~HasMore
  /\ s_lock' = Nobody
  /\ sender' = "send"
  /\ UNCHANGED <<ringVars, s_detached, hookVars, chunk, lines>>

\* sendto, or the delay when there was nothing to send.
Send ==
  /\ sender = "send"
  /\ chunk' = <<>>
  /\ sender' = "poll"
  /\ UNCHANGED <<ringVars, s_lock, s_detached, hookVars, lines>>

-----------------------------------------------------------------------------
Hook(t) ==
  \/ \E len \in Lengths : Format(t, len)
  \/ TryLock(t) \/ PutByte(t) \/ Unlock(t) \/ Mirror(t) \/ Printed(t)

UdpTask == LinkUp \/ SenderLock \/ GetByte \/ SenderUnlock \/ Send

Next == Detach \/ UdpTask \/ \E t \in Tasks : Hook(t)

Spec == Init /\ [][Next]_vars

-----------------------------------------------------------------------------
(* Properties.                                                             *)

TypeOK ==
  /\ s_ring \in [Cells -> Bytes]
  /\ s_head \in Cells /\ s_tail \in Cells
  /\ s_lock \in Tasks \cup {Sender, Nobody}
  /\ s_detached \in BOOLEAN
  /\ at \in [Tasks -> {"idle", "lock", "put", "mirror", "console"}]
  /\ todo \in [Tasks -> [line : 0..MaxLines, pos : 1..THBR_LINE_MAX, len : 0..(THBR_LINE_MAX - 1)]]
  /\ chunk \in Seq(Bytes) /\ Len(chunk) <= DRAIN_CHUNK
  /\ sender \in {"wait", "poll", "get", "send", "gone"}
  /\ lines \in 0..MaxLines

\* Whoever is inside ring_put or ring_get holds the lock, so nobody else is.
RingIsLocked ==
  /\ \A t \in Tasks : at[t] = "put" <=> s_lock = t
  /\ sender = "get" <=> s_lock = Sender

\* The bytes between the two positions, oldest first.
Filled == (s_head + RING_SIZE - s_tail) % RING_SIZE
Backlog == [i \in 1..Filled |-> s_ring[(s_tail + i - 1) % RING_SIZE]]

\* Lines never mix: on the way out and in the ring, a byte is followed by the
\* next of its line or by the first of another.
LinesWhole ==
  LET out == chunk \o Backlog
  IN \A i \in 1..(Len(out) - 1) :
       \/ out[i+1].line = out[i].line /\ out[i+1].pos = out[i].pos + 1
       \/ out[i+1].line # out[i].line /\ out[i+1].pos = 1
       \/ i = Len(chunk)            \* what lay here was overwritten

\* The ring is the backlog the sink promises: nothing is lost but the oldest
\* bytes of a full ring, nothing is sent twice or out of order.
Sink == INSTANCE LogBacklog WITH backlog <- Backlog, Capacity <- RING_SIZE - 1
ImplementsBacklog == Sink!Spec
=============================================================================
