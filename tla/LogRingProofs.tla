---------------------------- MODULE LogRingProofs ----------------------------
(***************************************************************************)
(* Proofs about the log sink, for every size of the ring, of a line and of *)
(* a datagram, and for every set of tasks that log.                        *)
(***************************************************************************)
EXTENDS LogRing, SequenceTheorems, TLAPS

-----------------------------------------------------------------------------
(* Positions in the ring.                                                  *)

LEMMA AfterIsCell ==
  ASSUME NEW i \in Cells
  PROVE  After(i) \in Cells /\ After(i) = IF i = RING_SIZE - 1 THEN 0 ELSE i + 1
<1>1. RING_SIZE \in Nat /\ RING_SIZE > 1 /\ i \in Nat /\ i < RING_SIZE
  BY RingAssumption DEF Cells
<1>2. CASE i = RING_SIZE - 1
  <2>1. i + 1 = RING_SIZE /\ RING_SIZE % RING_SIZE = 0
    BY <1>1, <1>2
  <2>2. QED
    BY <1>1, <1>2, <2>1 DEF After, Cells
<1>3. CASE i # RING_SIZE - 1
  <2>1. (i + 1) % RING_SIZE = i + 1
    BY <1>1, <1>3
  <2>2. QED
    BY <1>1, <1>3, <2>1 DEF After, Cells
<1>4. QED
  BY <1>2, <1>3

\* The remainder of what is less than two turns of the ring.
Turn(k) == IF k < RING_SIZE THEN k ELSE k - RING_SIZE

LEMMA TwoTurns ==
  ASSUME NEW k \in Nat, k < 2 * RING_SIZE
  PROVE  k % RING_SIZE = Turn(k)
<1>1. RING_SIZE \in Nat \ {0}
  BY RingAssumption
<1>2. CASE k < RING_SIZE
  BY <1>1, <1>2 DEF Turn
<1>3. CASE k >= RING_SIZE
  BY <1>1, <1>3 DEF Turn
<1>4. QED
  BY <1>1, <1>2, <1>3

-----------------------------------------------------------------------------
(* Types.                                                                  *)

LEMMA KeptFits ==
  ASSUME NEW len \in Nat
  PROVE  Kept(len) \in 0..(THBR_LINE_MAX - 1)
BY RingAssumption DEF Kept

LEMMA TypeInit == Init => TypeOK
<1> SUFFICES ASSUME Init PROVE TypeOK
  OBVIOUS
<1>1. Blank \in Bytes
  BY RingAssumption DEF Blank, Bytes
<1>2. 0 \in Cells
  BY RingAssumption DEF Cells
<1>3. NoLine \in [line : 0..MaxLines, pos : 1..THBR_LINE_MAX, len : 0..(THBR_LINE_MAX - 1)]
  BY RingAssumption DEF NoLine
<1>4. chunk \in Seq(Bytes) /\ Len(chunk) <= DRAIN_CHUNK
  BY RingAssumption DEF Init
<1>5. s_ring \in [Cells -> Bytes] /\ s_head \in Cells /\ s_tail \in Cells
  BY <1>1, <1>2 DEF Init
<1>6. /\ at \in [Tasks -> {"idle", "lock", "put", "mirror", "console"}]
      /\ todo \in [Tasks -> [line : 0..MaxLines, pos : 1..THBR_LINE_MAX,
                             len : 0..(THBR_LINE_MAX - 1)]]
  BY <1>3 DEF Init
<1>7. /\ s_lock \in Tasks \cup {Sender, Nobody}
      /\ sender \in {"wait", "poll", "get", "send"}
      /\ s_detached \in BOOLEAN
  BY DEF Init
<1>8. lines \in 0..MaxLines
  BY RingAssumption DEF Init
<1>9. QED
  BY <1>4, <1>5, <1>6, <1>7, <1>8 DEF TypeOK

LEMMA TypeStep == TypeOK /\ [Next]_vars => TypeOK'
<1> SUFFICES ASSUME TypeOK, [Next]_vars PROVE TypeOK'
  OBVIOUS
<1> USE DEF TypeOK
<1>1. CASE UNCHANGED vars
  BY <1>1 DEF vars, ringVars, hookVars
<1>2. CASE Detach
  BY <1>2 DEF Detach, ringVars, hookVars
<1>3. CASE UdpTask
  <2>1. CASE LinkUp \/ SenderLock \/ SenderUnlock
    BY <1>3, <2>1 DEF LinkUp, SenderLock, SenderUnlock, ringVars, hookVars
  <2>2. CASE GetByte
    <3>1. s_ring[s_tail] \in Bytes /\ Len(chunk) < DRAIN_CHUNK
      BY <2>2 DEF GetByte, HasMore
    <3>2. chunk' \in Seq(Bytes) /\ Len(chunk') = Len(chunk) + 1
      BY <2>2, <3>1, AppendProperties DEF GetByte
    <3>3. Len(chunk') <= DRAIN_CHUNK
      BY <3>1, <3>2, RingAssumption, LenProperties
    <3>4. s_tail' \in Cells
      BY <2>2, AfterIsCell DEF GetByte
    <3>5. QED
      BY <2>2, <3>2, <3>3, <3>4 DEF GetByte, hookVars
  <2>3. CASE Send
    BY <2>3, RingAssumption DEF Send, ringVars, hookVars
  <2>4. QED
    BY <1>3, <2>1, <2>2, <2>3 DEF UdpTask
<1>4. ASSUME NEW t \in Tasks, Hook(t)
      PROVE  TypeOK'
  <2>1. ASSUME NEW len \in Lengths, Format(t, len)
        PROVE  TypeOK'
    <3>1. lines + 1 \in 0..MaxLines
      BY <2>1, RingAssumption DEF Format
    <3>2. Kept(len) \in 0..(THBR_LINE_MAX - 1) /\ 1 \in 1..THBR_LINE_MAX
      BY KeptFits, LengthAssumption, RingAssumption
    <3>3. QED
      BY <2>1, <3>1, <3>2 DEF Format, ringVars
  <2>2. CASE TryLock(t)
    BY <2>2 DEF TryLock, ringVars
  <2>3. CASE PutByte(t)
    <3>1. /\ todo[t].line \in 0..MaxLines
          /\ todo[t].pos \in 1..THBR_LINE_MAX
          /\ todo[t].len \in 0..(THBR_LINE_MAX - 1)
      OBVIOUS
    <3>2. todo[t].pos + 1 \in 1..THBR_LINE_MAX /\ todo[t].pos \in 0..THBR_LINE_MAX
      BY <2>3, <3>1, RingAssumption DEF PutByte
    <3>3. [line |-> todo[t].line, pos |-> todo[t].pos] \in Bytes
      BY <3>1, <3>2 DEF Bytes
    <3>4. s_head' \in Cells /\ s_tail' \in Cells
      BY <2>3, AfterIsCell DEF PutByte, TailAfterPut
    <3>5. todo' \in [Tasks -> [line : 0..MaxLines, pos : 1..THBR_LINE_MAX,
                               len : 0..(THBR_LINE_MAX - 1)]]
      BY <2>3, <3>2 DEF PutByte
    <3>6. QED
      BY <2>3, <3>3, <3>4, <3>5 DEF PutByte
  <2>4. CASE Unlock(t) \/ Mirror(t) \/ Printed(t)
    BY <2>4 DEF Unlock, Mirror, Printed, ringVars
  <2>5. QED
    BY <1>4, <2>1, <2>2, <2>3, <2>4 DEF Hook
<1>5. QED
  BY <1>1, <1>2, <1>3, <1>4 DEF Next

\* The read and write positions stay inside the ring, a line inside its buffer
\* and a datagram inside its own, whatever tasks log and when.
THEOREM TypeCorrect == Spec => []TypeOK
BY TypeInit, TypeStep, PTL DEF Spec

-----------------------------------------------------------------------------
(* The lock.                                                               *)

LEMMA LockStep == TypeOK /\ RingIsLocked /\ [Next]_vars => RingIsLocked'
<1> SUFFICES ASSUME TypeOK, RingIsLocked, [Next]_vars PROVE RingIsLocked'
  OBVIOUS
<1> USE HolderAssumption DEF TypeOK, RingIsLocked
<1>1. CASE UNCHANGED vars \/ Detach
  BY <1>1 DEF vars, hookVars, Detach
<1>2. CASE UdpTask
  BY <1>2 DEF UdpTask, LinkUp, SenderLock, GetByte, SenderUnlock, Send, hookVars
<1>3. ASSUME NEW t \in Tasks, Hook(t)
      PROVE  RingIsLocked'
  <2>1. CASE (\E len \in Lengths : Format(t, len)) \/ PutByte(t) \/ Mirror(t) \/ Printed(t)
    BY <2>1 DEF Format, PutByte, Mirror, Printed
  <2>2. CASE TryLock(t)
    BY <2>2 DEF TryLock, LockFree
  <2>3. CASE Unlock(t)
    BY <2>3 DEF Unlock
  <2>4. QED
    BY <1>3, <2>1, <2>2, <2>3 DEF Hook
<1>4. QED
  BY <1>1, <1>2, <1>3 DEF Next

\* Nobody is inside ring_put or ring_get but the holder of s_lock.
THEOREM RingAlwaysLocked == Spec => []RingIsLocked
<1>1. Init => RingIsLocked
  BY HolderAssumption DEF Init, RingIsLocked
<1>2. QED
  BY <1>1, LockStep, TypeCorrect, PTL DEF Spec

-----------------------------------------------------------------------------
(* The ring implements the backlog.                                        *)


\* The ring's contents as a function of its cells and positions.
FilledOf(h, t) == (h + RING_SIZE - t) % RING_SIZE
BacklogOf(r, h, t) == [i \in 1..FilledOf(h, t) |-> r[(t + i - 1) % RING_SIZE]]

\* Where the i-th byte lies.
Place(t, i) == Turn(t + i - 1)

LEMMA CellFacts ==
  ASSUME NEW h \in Cells
  PROVE  /\ RING_SIZE \in Nat /\ RING_SIZE > 1
         /\ h \in Nat /\ h < RING_SIZE
BY RingAssumption DEF Cells

LEMMA FilledValue ==
  ASSUME NEW h \in Cells, NEW t \in Cells
  PROVE  /\ FilledOf(h, t) = IF h >= t THEN h - t ELSE h + RING_SIZE - t
         /\ FilledOf(h, t) \in 0..(RING_SIZE - 1)
<1> DEFINE k == h + RING_SIZE - t
<1>1. k \in Nat /\ k < 2 * RING_SIZE
  BY CellFacts
<1>2. k % RING_SIZE = IF k < RING_SIZE THEN k ELSE k - RING_SIZE
  BY <1>1, TwoTurns DEF Turn
<1>3. QED
  BY <1>2, CellFacts DEF FilledOf

LEMMA BacklogValue ==
  ASSUME NEW r \in [Cells -> Bytes], NEW h \in Cells, NEW t \in Cells
  PROVE  /\ BacklogOf(r, h, t) \in Seq(Bytes)
         /\ Len(BacklogOf(r, h, t)) = FilledOf(h, t)
         /\ \A i \in 1..FilledOf(h, t) :
              Place(t, i) \in Cells /\ BacklogOf(r, h, t)[i] = r[Place(t, i)]
<1>1. FilledOf(h, t) \in Nat /\ FilledOf(h, t) < RING_SIZE
  BY FilledValue, CellFacts
<1>2. ASSUME NEW i \in 1..FilledOf(h, t)
      PROVE  (t + i - 1) % RING_SIZE = Place(t, i) /\ Place(t, i) \in Cells
  <2>1. t + i - 1 \in Nat /\ t + i - 1 < 2 * RING_SIZE
    BY <1>1, CellFacts
  <2>2. (t + i - 1) % RING_SIZE = Place(t, i)
    BY <2>1, TwoTurns DEF Place
  <2>3. Place(t, i) \in Nat /\ Place(t, i) < RING_SIZE
    BY <1>1, <2>1, CellFacts DEF Place, Turn
  <2>4. QED
    BY <2>2, <2>3, CellFacts DEF Cells
<1>3. BacklogOf(r, h, t) \in [1..FilledOf(h, t) -> Bytes]
  BY <1>2 DEF BacklogOf
<1>4. BacklogOf(r, h, t) \in Seq(Bytes)
  BY <1>1, <1>3, SeqDef
<1>5. Len(BacklogOf(r, h, t)) = FilledOf(h, t)
  BY <1>1, <1>3, <1>4, LenProperties
<1>6. \A i \in 1..FilledOf(h, t) : BacklogOf(r, h, t)[i] = r[Place(t, i)]
  BY <1>2 DEF BacklogOf
<1>7. QED
  BY <1>2, <1>4, <1>5, <1>6

\* A byte put into a ring that is not full lengthens the backlog; into a full one
\* it takes the place of the oldest.
LEMMA PutOnBacklog ==
  ASSUME NEW r \in [Cells -> Bytes], NEW h \in Cells, NEW t \in Cells, NEW b \in Bytes,
         NEW t2 \in Cells, After(h) = t => t2 = After(t), After(h) # t => t2 = t,
         NEW r2 \in [Cells -> Bytes], r2[h] = b, \A c \in Cells : c # h => r2[c] = r[c]
  PROVE  /\ Len(BacklogOf(r, h, t)) < RING_SIZE - 1 =>
              BacklogOf(r2, After(h), t2) = Append(BacklogOf(r, h, t), b)
         /\ ~(Len(BacklogOf(r, h, t)) < RING_SIZE - 1) =>
              BacklogOf(r2, After(h), t2) = Append(Tail(BacklogOf(r, h, t)), b)
<1> DEFINE h2 == After(h)
           B  == BacklogOf(r, h, t)
           B2 == BacklogOf(r2, h2, t2)
           n  == FilledOf(h, t)
           n2 == FilledOf(h2, t2)
<1>1. /\ RING_SIZE \in Nat /\ RING_SIZE > 1
      /\ h \in Nat /\ h < RING_SIZE /\ t \in Nat /\ t < RING_SIZE
  BY CellFacts
<1>2. /\ h2 \in Cells /\ h2 = IF h = RING_SIZE - 1 THEN 0 ELSE h + 1
      /\ t2 \in Cells
      /\ t2 = IF h2 # t THEN t ELSE IF t = RING_SIZE - 1 THEN 0 ELSE t + 1
  BY AfterIsCell
<1>3. /\ r2 \in [Cells -> Bytes] /\ r2[h] = b
      /\ \A c \in Cells : c # h => r2[c] = r[c]
  OBVIOUS
<1> HIDE DEF h2
<1>4. n = (IF h >= t THEN h - t ELSE h + RING_SIZE - t) /\ n \in 0..(RING_SIZE - 1)
  BY FilledValue
<1>5. n2 = (IF h2 >= t2 THEN h2 - t2 ELSE h2 + RING_SIZE - t2) /\ n2 \in 0..(RING_SIZE - 1)
  BY FilledValue, <1>2
<1>6. /\ B \in Seq(Bytes) /\ Len(B) = n
      /\ \A i \in 1..n : Place(t, i) \in Cells /\ B[i] = r[Place(t, i)]
  BY BacklogValue
<1>7. /\ B2 \in Seq(Bytes) /\ Len(B2) = n2
      /\ \A i \in 1..n2 : Place(t2, i) \in Cells /\ B2[i] = r2[Place(t2, i)]
  <2> HIDE DEF B2, n2
  <2>1. r2 \in [Cells -> Bytes] /\ h2 \in Cells /\ t2 \in Cells
    BY <1>2, <1>3
  <2>2. B2 = BacklogOf(r2, h2, t2) /\ n2 = FilledOf(h2, t2)
    BY DEF B2, n2
  <2>3. QED
    BY <2>1, <2>2, BacklogValue
<1> HIDE DEF B, B2, n, n2
<1>8. CASE n < RING_SIZE - 1
  <2>1. t2 = t /\ n2 = n + 1
    BY <1>1, <1>2, <1>4, <1>5, <1>8
  <2>2. /\ Append(B, b) \in Seq(Bytes) /\ Len(Append(B, b)) = n + 1
        /\ \A i \in 1..n : Append(B, b)[i] = B[i]
        /\ Append(B, b)[n + 1] = b
    BY <1>6, AppendProperties
  <2>3. \A i \in 1..n : Place(t, i) # h
    BY <1>1, <1>4 DEF Place, Turn
  <2>4. Place(t, n + 1) = h
    BY <1>1, <1>4, <1>8 DEF Place, Turn
  <2>5. ASSUME NEW i \in 1..n2
        PROVE  B2[i] = Append(B, b)[i]
    <3>1. CASE i = n + 1
      BY <3>1, <1>3, <1>7, <2>1, <2>2, <2>4
    <3>2. CASE i # n + 1
      <4>1. i \in 1..n
        BY <3>2, <2>1, <1>4, <1>5
      <4>2. B2[i] = r2[Place(t, i)] /\ r2[Place(t, i)] = r[Place(t, i)]
        BY <4>1, <1>3, <1>6, <1>7, <2>1, <2>3
      <4>3. QED
        BY <4>1, <4>2, <1>6, <2>2
    <3>3. QED
      BY <3>1, <3>2
  <2>6. B2 = Append(B, b)
    BY <1>7, <2>1, <2>2, <2>5, SeqEqual
  <2>7. QED
    BY <2>6, <1>6, <1>8 DEF B, B2, h2
<1>9. CASE n = RING_SIZE - 1
  <2>1. h2 = t /\ n2 = n
    BY <1>1, <1>2, <1>4, <1>5, <1>9
  <2>2. /\ Tail(B) \in Seq(Bytes) /\ Len(Tail(B)) = n - 1
        /\ \A i \in 1..(n - 1) : Tail(B)[i] = B[i + 1]
    BY <1>1, <1>6, <1>9, HeadTailProperties
  <2>3. /\ Append(Tail(B), b) \in Seq(Bytes) /\ Len(Append(Tail(B), b)) = n
        /\ \A i \in 1..(n - 1) : Append(Tail(B), b)[i] = B[i + 1]
        /\ Append(Tail(B), b)[n] = b
    <3>1. Len(Tail(B)) + 1 = n
      BY <2>2, <1>4
    <3>2. QED
      BY <2>2, <3>1, AppendProperties
  <2>4. \A i \in 1..(n - 1) : Place(t2, i) = Place(t, i + 1) /\ Place(t, i + 1) # h
    BY <1>1, <1>2, <1>4, <2>1, <1>9 DEF Place, Turn
  <2>5. Place(t2, n) = h
    BY <1>1, <1>2, <1>4, <2>1, <1>9 DEF Place, Turn
  <2>6. ASSUME NEW i \in 1..n2
        PROVE  B2[i] = Append(Tail(B), b)[i]
    <3>1. CASE i = n
      BY <3>1, <1>3, <1>7, <2>1, <2>3, <2>5
    <3>2. CASE i # n
      <4>1. i \in 1..(n - 1) /\ i + 1 \in 1..n
        BY <3>2, <2>1, <1>4, <1>5
      <4>2. B2[i] = r2[Place(t, i + 1)] /\ r2[Place(t, i + 1)] = r[Place(t, i + 1)]
        BY <4>1, <1>3, <1>6, <1>7, <2>1, <2>4
      <4>3. QED
        BY <4>1, <4>2, <1>6, <2>3
    <3>3. QED
      BY <3>1, <3>2
  <2>7. B2 = Append(Tail(B), b)
    BY <1>7, <2>1, <2>3, <2>6, SeqEqual
  <2>8. ~(Len(B) < RING_SIZE - 1)
    BY <1>1, <1>6, <1>9
  <2>9. QED
    BY <2>7, <2>8 DEF B, B2, h2
<1>10. QED
  BY <1>1, <1>4, <1>8, <1>9

\* A byte taken out is the oldest.
LEMMA GetFromBacklog ==
  ASSUME NEW r \in [Cells -> Bytes], NEW h \in Cells, NEW t \in Cells, h # t
  PROVE  /\ BacklogOf(r, h, t) # <<>>
         /\ Head(BacklogOf(r, h, t)) = r[t]
         /\ BacklogOf(r, h, After(t)) = Tail(BacklogOf(r, h, t))
<1> DEFINE t2 == After(t)
           B  == BacklogOf(r, h, t)
           B2 == BacklogOf(r, h, t2)
           n  == FilledOf(h, t)
           n2 == FilledOf(h, t2)
<1>1. /\ RING_SIZE \in Nat /\ RING_SIZE > 1
      /\ h \in Nat /\ h < RING_SIZE /\ t \in Nat /\ t < RING_SIZE
  BY CellFacts
<1>2. t2 \in Cells /\ t2 = IF t = RING_SIZE - 1 THEN 0 ELSE t + 1
  BY AfterIsCell
<1>3. n = (IF h >= t THEN h - t ELSE h + RING_SIZE - t) /\ n \in 0..(RING_SIZE - 1)
  BY FilledValue
<1>4. n2 = (IF h >= t2 THEN h - t2 ELSE h + RING_SIZE - t2) /\ n2 \in 0..(RING_SIZE - 1)
  BY FilledValue, <1>2
<1>5. /\ B \in Seq(Bytes) /\ Len(B) = n
      /\ \A i \in 1..n : Place(t, i) \in Cells /\ B[i] = r[Place(t, i)]
  BY BacklogValue
<1>6. /\ B2 \in Seq(Bytes) /\ Len(B2) = n2
      /\ \A i \in 1..n2 : Place(t2, i) \in Cells /\ B2[i] = r[Place(t2, i)]
  BY BacklogValue, <1>2
<1> HIDE DEF t2, B, B2, n, n2
<1>7. n2 = n - 1 /\ n >= 1
  BY <1>1, <1>2, <1>3, <1>4
<1>8. B # <<>> /\ Head(B) = B[1]
  BY <1>5, <1>7
<1>9. B[1] = r[t]
  BY <1>1, <1>5, <1>7, <1>3 DEF Place, Turn
<1>10. /\ Tail(B) \in Seq(Bytes) /\ Len(Tail(B)) = n - 1
       /\ \A i \in 1..(n - 1) : Tail(B)[i] = B[i + 1]
  BY <1>5, <1>8, HeadTailProperties
<1>11. ASSUME NEW i \in 1..n2
       PROVE  B2[i] = Tail(B)[i]
  <2>1. i \in 1..(n - 1) /\ i + 1 \in 1..n
    BY <1>3, <1>4, <1>7
  <2>2. Place(t2, i) = Place(t, i + 1)
    BY <1>1, <1>2, <1>3, <2>1 DEF Place, Turn
  <2>3. QED
    BY <2>1, <2>2, <1>5, <1>6, <1>10
<1>12. B2 = Tail(B)
  BY <1>6, <1>7, <1>10, <1>11, SeqEqual
<1>13. QED
  BY <1>8, <1>9, <1>12 DEF B, B2, t2

LEMMA BacklogUnfolds ==
  /\ Backlog = BacklogOf(s_ring, s_head, s_tail)
  /\ Backlog' = BacklogOf(s_ring', s_head', s_tail')
BY DEF Backlog, Filled, BacklogOf, FilledOf

\* ring_put appends a byte to the backlog, ring_get takes its first.
ByteOf(t) == [line |-> todo[t].line, pos |-> todo[t].pos]

LEMMA PutByteAppends ==
  ASSUME TypeOK, NEW t \in Tasks, PutByte(t)
  PROVE  /\ ByteOf(t) \in Bytes
         /\ Backlog \in Seq(Bytes) /\ Len(Backlog) \in Nat
         /\ Len(Backlog) < RING_SIZE - 1 => Backlog' = Append(Backlog, ByteOf(t))
         /\ ~(Len(Backlog) < RING_SIZE - 1) => Backlog' = Append(Tail(Backlog), ByteOf(t))
<1> DEFINE b == ByteOf(t)
<1>0. s_ring \in [Cells -> Bytes] /\ s_head \in Cells /\ s_tail \in Cells
  BY DEF TypeOK
<1>1. b \in Bytes
  BY RingAssumption DEF Bytes, TypeOK, PutByte, ByteOf
<1>2. /\ Backlog' = BacklogOf([s_ring EXCEPT ![s_head] = b], After(s_head), s_tail')
      /\ After(s_head) = s_tail => s_tail' = After(s_tail)
      /\ After(s_head) # s_tail => s_tail' = s_tail
  BY BacklogUnfolds DEF PutByte, TailAfterPut, ByteOf
<1> DEFINE r2 == [s_ring EXCEPT ![s_head] = b]
           t2 == s_tail'
<1>3. /\ t2 \in Cells /\ After(s_head) \in Cells
      /\ After(s_head) = s_tail => t2 = After(s_tail)
      /\ After(s_head) # s_tail => t2 = s_tail
      /\ r2 \in [Cells -> Bytes] /\ r2[s_head] = b
      /\ \A c \in Cells : c # s_head => r2[c] = s_ring[c]
      /\ Backlog' = BacklogOf(r2, After(s_head), t2)
  BY <1>0, <1>1, <1>2, AfterIsCell
<1> HIDE DEF b, r2, t2
<1>4. /\ Len(BacklogOf(s_ring, s_head, s_tail)) < RING_SIZE - 1 =>
           BacklogOf(r2, After(s_head), t2) = Append(BacklogOf(s_ring, s_head, s_tail), b)
      /\ ~(Len(BacklogOf(s_ring, s_head, s_tail)) < RING_SIZE - 1) =>
           BacklogOf(r2, After(s_head), t2) = Append(Tail(BacklogOf(s_ring, s_head, s_tail)), b)
  BY <1>0, <1>1, <1>3, PutOnBacklog
<1>5. Backlog \in Seq(Bytes) /\ Len(Backlog) \in Nat
  BY <1>0, BacklogUnfolds, BacklogValue, FilledValue
<1>6. QED
  BY <1>1, <1>3, <1>4, <1>5, BacklogUnfolds DEF b

LEMMA GetByteTakes ==
  ASSUME TypeOK, GetByte
  PROVE  /\ Backlog \in Seq(Bytes) /\ Backlog # <<>>
         /\ Backlog' = Tail(Backlog) /\ chunk' = Append(chunk, Head(Backlog))
<1>1. s_ring \in [Cells -> Bytes] /\ s_head \in Cells /\ s_tail \in Cells
  BY DEF TypeOK
<1>2. s_head # s_tail /\ Backlog' = BacklogOf(s_ring, s_head, After(s_tail))
  BY BacklogUnfolds DEF GetByte, HasMore
<1>3. QED
  BY <1>1, <1>2, GetFromBacklog, BacklogValue, BacklogUnfolds DEF GetByte

LEMMA StepRefines == TypeOK /\ [Next]_vars => [Sink!Next]_<<Backlog, chunk>>
<1> SUFFICES ASSUME TypeOK, [Next]_vars PROVE [Sink!Next]_<<Backlog, chunk>>
  OBVIOUS
<1>2. CASE UNCHANGED <<ringVars, chunk>>
  BY <1>2, BacklogUnfolds DEF ringVars
<1>3. ASSUME NEW t \in Tasks, PutByte(t)
      PROVE  Sink!Next
  <2>1. /\ ByteOf(t) \in Bytes
        /\ Len(Backlog) < RING_SIZE - 1 => Backlog' = Append(Backlog, ByteOf(t))
        /\ ~(Len(Backlog) < RING_SIZE - 1) => Backlog' = Append(Tail(Backlog), ByteOf(t))
    BY <1>3, PutByteAppends
  <2>2. Sink!Put(ByteOf(t))
    BY <1>3, <2>1 DEF Sink!Put, PutByte
  <2>3. QED
    BY <2>1, <2>2 DEF Sink!Next
<1>4. CASE GetByte
  BY <1>4, GetByteTakes DEF GetByte, Sink!Next, Sink!Get
<1>5. CASE Send
  BY <1>5, BacklogUnfolds DEF Send, ringVars, Sink!Next, Sink!Send
<1>6. QED
  <2>1. CASE UNCHANGED vars
    BY <2>1, <1>2 DEF vars
  <2>2. CASE Detach
    BY <2>2, <1>2 DEF Detach
  <2>3. CASE UdpTask
    BY <2>3, <1>2, <1>4, <1>5 DEF UdpTask, LinkUp, SenderLock, SenderUnlock
  <2>4. ASSUME NEW t \in Tasks, Hook(t)
        PROVE  [Sink!Next]_<<Backlog, chunk>>
    BY <2>4, <1>2, <1>3 DEF Hook, Format, TryLock, Unlock, Mirror, Printed
  <2>5. QED
    BY <2>1, <2>2, <2>3, <2>4 DEF Next

LEMMA InitRefines == Init => Sink!Init
<1> SUFFICES ASSUME Init PROVE Backlog = <<>> /\ chunk = <<>>
  BY DEF Sink!Init
<1>1. s_head = 0 /\ s_tail = 0 /\ 0 \in Cells /\ s_ring \in [Cells -> Bytes]
  BY TypeInit DEF Init, TypeOK
<1>2. Backlog \in Seq(Bytes) /\ Len(Backlog) = 0
  BY <1>1, BacklogUnfolds, BacklogValue, FilledValue, CellFacts
<1>3. QED
  BY <1>2, EmptySeq DEF Init

\* The ring implements the backlog: whatever tasks log and however the sender
\* keeps up, nothing is lost but the oldest bytes of a full ring, and what leaves
\* leaves once and in order.
THEOREM RingIsBacklog == Spec => ImplementsBacklog
BY InitRefines, StepRefines, TypeCorrect, PTL DEF Spec, ImplementsBacklog, Sink!Spec

-----------------------------------------------------------------------------
(* Lines never mix.                                                        *)

\* A byte and the one after it in the stream, and a stream without a seam.
Follows(x, y) == \/ y.line = x.line /\ y.pos = x.pos + 1
                 \/ y.line # x.line /\ y.pos = 1
Whole(s) == \A i \in 1..(Len(s) - 1) : Follows(s[i], s[i + 1])

LEMMA WholeAppend ==
  ASSUME NEW s \in Seq(Bytes), NEW b \in Bytes, Whole(s),
         s # <<>> => Follows(s[Len(s)], b)
  PROVE  Whole(Append(s, b))
<1>1. /\ Len(Append(s, b)) = Len(s) + 1 /\ Len(s) \in Nat
      /\ \A i \in 1..Len(s) : Append(s, b)[i] = s[i]
      /\ Append(s, b)[Len(s) + 1] = b
  BY AppendProperties, LenProperties
<1>2. ASSUME NEW i \in 1..Len(s) PROVE Follows(Append(s, b)[i], Append(s, b)[i + 1])
  <2>1. CASE i = Len(s)
    <3>1. s # <<>>
      BY <2>1, <1>1, EmptySeq
    <3> QED
      BY <1>1, <2>1, <3>1
  <2>2. CASE i # Len(s)
    <3>1. i \in 1..(Len(s) - 1) /\ i + 1 \in 1..Len(s)
      BY <1>1, <2>2
    <3> QED
      BY <1>1, <3>1 DEF Whole
  <2> QED
    BY <2>1, <2>2
<1> QED
  BY <1>1, <1>2 DEF Whole

LEMMA WholeTail ==
  ASSUME NEW s \in Seq(Bytes), s # <<>>, Whole(s)
  PROVE  /\ Whole(Tail(s)) /\ Tail(s) \in Seq(Bytes) /\ Len(Tail(s)) = Len(s) - 1
         /\ \A i \in 1..(Len(s) - 1) : i + 1 \in 1..Len(s) /\ Tail(s)[i] = s[i + 1]
<1>1. /\ Tail(s) \in Seq(Bytes) /\ Len(Tail(s)) = Len(s) - 1 /\ Len(s) \in Nat
      /\ \A i \in 1..(Len(s) - 1) : Tail(s)[i] = s[i + 1]
  BY HeadTailProperties, LenProperties
<1> QED
  BY <1>1 DEF Whole

\* A byte moved from the front of one stream to the end of another leaves them, one
\* after the other, as they were.
LEMMA MoveOver ==
  ASSUME NEW c \in Seq(Bytes), NEW s \in Seq(Bytes), s # <<>>
  PROVE  Append(c, Head(s)) \o Tail(s) = c \o s
<1> DEFINE left  == Append(c, Head(s)) \o Tail(s)
           right == c \o s
<1>1. /\ Head(s) = s[1] /\ Head(s) \in Bytes
      /\ Tail(s) \in Seq(Bytes) /\ Len(Tail(s)) = Len(s) - 1
      /\ \A i \in 1..(Len(s) - 1) : Tail(s)[i] = s[i + 1]
      /\ Len(s) \in Nat \ {0} /\ Len(c) \in Nat
  BY HeadTailProperties, EmptySeq, LenProperties, ElementOfSeq
<1>2. /\ Append(c, Head(s)) \in Seq(Bytes) /\ Len(Append(c, Head(s))) = Len(c) + 1
      /\ \A i \in 1..Len(c) : Append(c, Head(s))[i] = c[i]
      /\ Append(c, Head(s))[Len(c) + 1] = Head(s)
  BY <1>1, AppendProperties
<1>3. /\ left \in Seq(Bytes) /\ Len(left) = Len(c) + Len(s)
      /\ \A i \in 1..(Len(c) + Len(s)) :
           left[i] = IF i <= Len(c) + 1 THEN Append(c, Head(s))[i] ELSE Tail(s)[i - (Len(c) + 1)]
  BY <1>1, <1>2, ConcatProperties
<1>4. /\ right \in Seq(Bytes) /\ Len(right) = Len(c) + Len(s)
      /\ \A i \in 1..(Len(c) + Len(s)) :
           right[i] = IF i <= Len(c) THEN c[i] ELSE s[i - Len(c)]
  BY ConcatProperties
<1>5. ASSUME NEW i \in 1..(Len(c) + Len(s)) PROVE left[i] = right[i]
  <2> HIDE DEF left, right
  <2>1. CASE i <= Len(c)
    BY <1>1, <1>2, <1>3, <1>4, <2>1
  <2>2. CASE i = Len(c) + 1
    BY <1>1, <1>2, <1>3, <1>4, <2>2
  <2>3. CASE i > Len(c) + 1
    <3>1. i - (Len(c) + 1) \in 1..(Len(s) - 1) /\ i - (Len(c) + 1) + 1 = i - Len(c)
      BY <1>1, <2>3
    <3>2. left[i] = Tail(s)[i - (Len(c) + 1)] /\ right[i] = s[i - Len(c)]
      BY <1>1, <1>3, <1>4, <2>3
    <3> QED
      BY <1>1, <3>1, <3>2
  <2> QED
    BY <1>1, <2>1, <2>2, <2>3
<1> QED
  BY <1>3, <1>4, <1>5, SeqEqual

\* The beginning of a stream without a seam has none.
LEMMA WholeStart ==
  ASSUME NEW c \in Seq(Bytes), NEW s \in Seq(Bytes), Whole(c \o s)
  PROVE  Whole(c)
<1>1. /\ Len(c \o s) = Len(c) + Len(s) /\ Len(c) \in Nat /\ Len(s) \in Nat
      /\ \A i \in 1..(Len(c) + Len(s)) :
           (c \o s)[i] = IF i <= Len(c) THEN c[i] ELSE s[i - Len(c)]
  BY ConcatProperties, LenProperties
<1>2. ASSUME NEW i \in 1..(Len(c) - 1) PROVE Follows(c[i], c[i + 1])
  <2>1. Follows((c \o s)[i], (c \o s)[i + 1])
    BY <1>1 DEF Whole
  <2>2. (c \o s)[i] = c[i] /\ (c \o s)[i + 1] = c[i + 1]
    BY <1>1
  <2> QED
    BY <2>1, <2>2
<1> QED
  BY <1>2 DEF Whole

\* No stream has a seam, and while the sender takes bytes out, neither has what it took
\* followed by what is left.
StreamsWhole ==
  /\ Whole(chunk) /\ Whole(Backlog)
  /\ sender = "get" => Whole(chunk \o Backlog)
  /\ sender \in {"wait", "poll"} => chunk = <<>>

\* A task inside the hook: its line is its own, and the ring ends with the byte before
\* the one it puts next, or has nothing of its line yet.
InHook(t) == at[t] \in {"lock", "put"}
OwnLine ==
  /\ \A t \in Tasks : InHook(t) => todo[t].line <= lines
  /\ \A t, u \in Tasks : InHook(t) /\ InHook(u) /\ t # u => todo[t].line # todo[u].line
  /\ \A i \in 1..Len(Backlog) : Backlog[i].line <= lines
Unstarted(t) == todo[t].pos = 1 /\ \A i \in 1..Len(Backlog) : Backlog[i].line # todo[t].line
Continued(t) ==
  /\ Backlog # <<>>
  /\ Backlog[Len(Backlog)].line = todo[t].line
  /\ Backlog[Len(Backlog)].pos + 1 = todo[t].pos
HookInv ==
  \A t \in Tasks : /\ at[t] = "lock" => Unstarted(t)
                   /\ at[t] = "put" => Unstarted(t) \/ Continued(t)

WholeInv == StreamsWhole /\ OwnLine /\ HookInv

LEMMA BacklogIsSeq == TypeOK => Backlog \in Seq(Bytes) /\ Len(Backlog) \in Nat
<1> SUFFICES ASSUME TypeOK PROVE Backlog \in Seq(Bytes)
  BY LenProperties
<1>1. s_ring \in [Cells -> Bytes] /\ s_head \in Cells /\ s_tail \in Cells
  BY DEF TypeOK
<1> QED
  BY <1>1, BacklogUnfolds, BacklogValue

\* Steps that leave ring and datagram alone and take nobody into the lock or the hook.
LEMMA WholeElsewhere ==
  ASSUME TypeOK, WholeInv, UNCHANGED <<ringVars, todo, lines>>,
         \A t \in Tasks : at'[t] = at[t] \/ at'[t] \notin {"lock", "put"}
                          \/ (at[t] = "lock" /\ at'[t] = "put")
  PROVE  OwnLine' /\ HookInv'
<1>1. Backlog' = Backlog
  BY BacklogUnfolds DEF ringVars
<1> QED
  BY <1>1 DEF WholeInv, OwnLine, HookInv, InHook, Unstarted, Continued

LEMMA WholePut ==
  ASSUME TypeOK, RingIsLocked, WholeInv, NEW t \in Tasks, PutByte(t)
  PROVE  WholeInv'
<1> DEFINE b == ByteOf(t)
           kept == IF Len(Backlog) < RING_SIZE - 1 THEN Backlog ELSE Tail(Backlog)
           n == Len(kept)
<1>1. /\ Backlog \in Seq(Bytes) /\ Len(Backlog) \in Nat /\ b \in Bytes
      /\ Backlog' = Append(kept, b)
      /\ RING_SIZE \in Nat /\ RING_SIZE > 1
  BY PutByteAppends, RingAssumption
<1>2. b.line = todo[t].line /\ b.pos = todo[t].pos /\ todo[t].pos \in Nat /\ todo[t].line \in Nat
  BY DEF ByteOf, TypeOK
<1> HIDE DEF b
<1>3. Whole(Backlog)
  BY DEF WholeInv, StreamsWhole
\* What is kept of the ring is its end.
<1>4. /\ kept \in Seq(Bytes) /\ Whole(kept) /\ n \in Nat
      /\ \A i \in 1..n : \E j \in 1..Len(Backlog) : kept[i] = Backlog[j]
      /\ kept # <<>> => kept[n] = Backlog[Len(Backlog)] /\ n \in 1..n
  <2>1. CASE Len(Backlog) < RING_SIZE - 1
    <3>1. kept = Backlog
      BY <2>1
    <3> QED
      BY <1>1, <1>3, <3>1, EmptySeq
  <2>2. CASE ~(Len(Backlog) < RING_SIZE - 1)
    <3>1. Backlog # <<>> /\ kept = Tail(Backlog) /\ Len(Backlog) >= 1
      BY <1>1, <2>2, EmptySeq
    <3>2. /\ Whole(kept) /\ kept \in Seq(Bytes) /\ n = Len(Backlog) - 1
          /\ \A i \in 1..n : i + 1 \in 1..Len(Backlog) /\ kept[i] = Backlog[i + 1]
      BY <1>1, <1>3, <3>1, WholeTail
    <3>3. kept # <<>> => n \in 1..n /\ n + 1 = Len(Backlog)
      BY <1>1, <3>1, <3>2, EmptySeq
    <3> QED
      BY <1>1, <3>1, <3>2, <3>3
  <2> QED
    BY <2>1, <2>2
<1> HIDE DEF kept, n
<1>5. /\ Backlog' \in Seq(Bytes) /\ Len(Backlog') = n + 1 /\ Backlog' # <<>>
      /\ \A i \in 1..n : Backlog'[i] = kept[i]
      /\ Backlog'[n + 1] = b
  BY <1>1, <1>4, AppendProperties DEF n
<1>6. at[t] = "put" /\ (Unstarted(t) \/ Continued(t)) /\ s_lock = t
  BY DEF PutByte, WholeInv, HookInv, RingIsLocked
<1>7. kept # <<>> => Follows(kept[n], b)
  <2> SUFFICES ASSUME kept # <<>> PROVE Follows(Backlog[Len(Backlog)], b)
    BY <1>4
  <2>1. CASE Unstarted(t)
    <3>1. Len(Backlog) \in 1..Len(Backlog)
      BY <1>1, <1>4
    <3> QED
      BY <1>2, <2>1, <3>1 DEF Unstarted, Follows
  <2>2. CASE Continued(t)
    BY <1>2, <2>2 DEF Continued, Follows
  <2> QED
    BY <1>6, <2>1, <2>2
<1>8. Whole(Backlog')
  BY <1>1, <1>4, <1>7, WholeAppend DEF n
<1>9. sender # "get" /\ UNCHANGED <<sender, chunk, at, lines>>
  BY <1>6, HolderAssumption DEF RingIsLocked, PutByte
<1>10. StreamsWhole'
  BY <1>8, <1>9 DEF WholeInv, StreamsWhole
<1>11. /\ \A u \in Tasks : todo'[u].line = todo[u].line
       /\ \A u \in Tasks : u # t => todo'[u] = todo[u]
       /\ todo'[t].pos = todo[t].pos + 1
  BY DEF PutByte, TypeOK
<1>12. todo[t].line <= lines
  BY <1>6 DEF WholeInv, OwnLine, InHook
<1>13. \A i \in 1..Len(Backlog') : i = n + 1 \/ i \in 1..n
  BY <1>4, <1>5
<1>14. OwnLine'
  <2>1. \A i \in 1..Len(Backlog') : Backlog'[i].line <= lines
    BY <1>2, <1>4, <1>5, <1>12, <1>13 DEF WholeInv, OwnLine
  <2> QED
    BY <1>9, <1>11, <2>1 DEF WholeInv, OwnLine, InHook
<1>15. HookInv'
  <2>1. ASSUME NEW u \in Tasks, u # t PROVE at[u] # "put"
    BY <1>6, <2>1 DEF RingIsLocked
  <2>2. ASSUME NEW u \in Tasks, at[u] = "lock" PROVE (Unstarted(u))'
    <3>1. u # t /\ Unstarted(u) /\ todo[u].line # todo[t].line
      BY <1>6, <2>2 DEF WholeInv, HookInv, OwnLine, InHook
    <3>2. \A i \in 1..Len(Backlog') : Backlog'[i].line # todo[u].line
      BY <1>2, <1>4, <1>5, <1>13, <3>1 DEF Unstarted
    <3> QED
      BY <1>11, <3>1, <3>2 DEF Unstarted
  <2>3. (Continued(t))'
    BY <1>2, <1>5, <1>11 DEF Continued
  <2> QED
    BY <1>6, <1>9, <2>1, <2>2, <2>3 DEF HookInv
<1> QED
  BY <1>10, <1>14, <1>15 DEF WholeInv

LEMMA WholeGet ==
  ASSUME TypeOK, RingIsLocked, WholeInv, GetByte
  PROVE  WholeInv'
<1>1. /\ Backlog \in Seq(Bytes) /\ Backlog # <<>> /\ Backlog' = Tail(Backlog)
      /\ chunk' = Append(chunk, Head(Backlog)) /\ chunk \in Seq(Bytes)
      /\ Head(Backlog) \in Bytes /\ Len(Backlog) \in Nat
  BY GetByteTakes, HeadTailProperties, LenProperties DEF TypeOK
<1>2. Whole(Backlog) /\ Whole(chunk \o Backlog)
  BY DEF WholeInv, StreamsWhole, GetByte
<1>3. /\ Whole(Backlog') /\ Backlog' \in Seq(Bytes) /\ Len(Backlog') = Len(Backlog) - 1
      /\ \A i \in 1..(Len(Backlog) - 1) :
           i + 1 \in 1..Len(Backlog) /\ Backlog'[i] = Backlog[i + 1]
  BY <1>1, <1>2, WholeTail
<1>4. chunk' \o Backlog' = chunk \o Backlog /\ chunk' \in Seq(Bytes)
  BY <1>1, MoveOver, AppendProperties
<1>5. Whole(chunk')
  BY <1>2, <1>3, <1>4, WholeStart
<1>6. StreamsWhole'
  BY <1>2, <1>3, <1>4, <1>5 DEF StreamsWhole, GetByte
<1>7. UNCHANGED <<at, todo, lines>> /\ \A t \in Tasks : at[t] # "put"
  BY HolderAssumption DEF GetByte, RingIsLocked, hookVars
<1>8. OwnLine'
  BY <1>3, <1>7 DEF WholeInv, OwnLine, InHook
<1>9. HookInv'
  BY <1>3, <1>7 DEF WholeInv, HookInv, Unstarted
<1> QED
  BY <1>6, <1>8, <1>9 DEF WholeInv

LEMMA WholeFormat ==
  ASSUME TypeOK, WholeInv, NEW t \in Tasks, NEW len \in Lengths, Format(t, len)
  PROVE  WholeInv'
<1>1. Backlog' = Backlog /\ UNCHANGED <<chunk, sender>> /\ lines' = lines + 1 /\ lines \in Nat
  BY BacklogUnfolds DEF Format, ringVars, TypeOK
<1>2. StreamsWhole'
  BY <1>1 DEF WholeInv, StreamsWhole
<1>3. /\ todo'[t].line = lines + 1 /\ todo'[t].pos = 1 /\ at'[t] \in {"lock", "mirror"}
      /\ \A u \in Tasks : u # t => todo'[u] = todo[u] /\ at'[u] = at[u]
  BY DEF Format, TypeOK
<1>4. /\ \A u \in Tasks : todo[u].line \in Nat
      /\ \A i \in 1..Len(Backlog) : Backlog[i].line \in Nat /\ Backlog[i].line <= lines
  <2>1. \A u \in Tasks : todo[u].line \in Nat
    BY DEF TypeOK
  <2>2. \A i \in 1..Len(Backlog) : Backlog[i] \in Bytes
    BY BacklogIsSeq, ElementOfSeq
  <2> QED
    BY <2>1, <2>2 DEF Bytes, WholeInv, OwnLine
<1>5. \A u \in Tasks : InHook(u) => todo[u].line <= lines
  BY DEF WholeInv, OwnLine
<1>6. OwnLine'
  <2>1. \A u \in Tasks : (InHook(u))' => todo'[u].line <= lines'
    BY <1>1, <1>3, <1>4, <1>5 DEF InHook
  <2>2. ASSUME NEW u \in Tasks, NEW v \in Tasks, (InHook(u))', (InHook(v))', u # v
        PROVE  todo'[u].line # todo'[v].line
    <3>1. CASE u = t \/ v = t
      BY <1>1, <1>3, <1>4, <1>5, <2>2, <3>1 DEF InHook
    <3>2. CASE u # t /\ v # t
      BY <1>3, <2>2, <3>2 DEF InHook, WholeInv, OwnLine
    <3> QED
      BY <3>1, <3>2
  <2>3. \A i \in 1..Len(Backlog') : Backlog'[i].line <= lines'
    BY <1>1, <1>4
  <2> QED
    BY <2>1, <2>2, <2>3 DEF OwnLine
<1>7. HookInv'
  <2>1. (Unstarted(t))'
    BY <1>1, <1>3, <1>4 DEF Unstarted
  <2>2. ASSUME NEW u \in Tasks, u # t
        PROVE  /\ (Unstarted(u))' <=> Unstarted(u)
               /\ (Continued(u))' <=> Continued(u)
    BY <1>1, <1>3, <2>2 DEF Unstarted, Continued
  <2> QED
    BY <1>3, <2>1, <2>2 DEF WholeInv, HookInv
<1> QED
  BY <1>2, <1>6, <1>7 DEF WholeInv

LEMMA WholeStep == TypeOK /\ RingIsLocked /\ WholeInv /\ [Next]_vars => WholeInv'
<1> SUFFICES ASSUME TypeOK, RingIsLocked, WholeInv, [Next]_vars PROVE WholeInv'
  OBVIOUS
<1>1. UNCHANGED ringVars => Backlog' = Backlog
  BY BacklogUnfolds DEF ringVars
<1>2. CASE UNCHANGED vars \/ Detach \/ LinkUp \/ SenderUnlock
  <2>1. UNCHANGED <<ringVars, todo, lines, at, chunk>>
    BY <1>2 DEF vars, hookVars, Detach, LinkUp, SenderUnlock
  <2>2. sender' = sender \/ (sender = "wait" /\ sender' \in {"poll", "gone"}) \/ sender' = "send"
    BY <1>2 DEF vars, Detach, LinkUp, SenderUnlock
  <2>3. StreamsWhole'
    BY <1>1, <2>1, <2>2 DEF WholeInv, StreamsWhole
  <2> QED
    BY <2>1, <2>3, WholeElsewhere DEF WholeInv
<1>3. CASE SenderLock
  <2>1. /\ UNCHANGED <<ringVars, todo, lines, at, chunk>> /\ chunk = <<>> /\ sender' = "get"
        /\ Backlog' = Backlog
    BY <1>1, <1>3 DEF SenderLock, hookVars, WholeInv, StreamsWhole
  <2>2. chunk \o Backlog = Backlog
    BY <2>1, BacklogIsSeq, ConcatEmptySeq
  <2>3. StreamsWhole'
    BY <2>1, <2>2 DEF WholeInv, StreamsWhole
  <2> QED
    BY <2>1, <2>3, WholeElsewhere DEF WholeInv
<1>4. CASE Send
  <2>1. /\ UNCHANGED <<ringVars, todo, lines, at>> /\ chunk' = <<>> /\ sender' = "poll"
        /\ Backlog' = Backlog
    BY <1>1, <1>4 DEF Send, hookVars
  <2>2. Whole(<<>>)
    BY DEF Whole
  <2>3. StreamsWhole'
    BY <2>1, <2>2 DEF WholeInv, StreamsWhole
  <2> QED
    BY <2>1, <2>3, WholeElsewhere DEF WholeInv
<1>5. CASE GetByte
  BY <1>5, WholeGet
<1>6. ASSUME NEW t \in Tasks, TryLock(t) \/ Unlock(t) \/ Mirror(t) \/ Printed(t)
      PROVE  WholeInv'
  <2>1. UNCHANGED <<ringVars, todo, lines, chunk, sender>>
    BY <1>6 DEF TryLock, Unlock, Mirror, Printed
  <2>2. \A u \in Tasks : at'[u] = at[u] \/ at'[u] \notin {"lock", "put"}
                         \/ (at[u] = "lock" /\ at'[u] = "put")
    BY <1>6 DEF TryLock, Unlock, Mirror, Printed, TypeOK
  <2>3. StreamsWhole'
    BY <1>1, <2>1 DEF WholeInv, StreamsWhole
  <2> QED
    BY <2>1, <2>2, <2>3, WholeElsewhere DEF WholeInv
<1> QED
  BY <1>2, <1>3, <1>4, <1>5, <1>6, WholePut, WholeFormat DEF Next, UdpTask, Hook

LEMMA WholeInit == Init => WholeInv
<1> SUFFICES ASSUME Init PROVE WholeInv
  OBVIOUS
<1>1. Backlog = <<>> /\ chunk = <<>>
  BY InitRefines DEF Sink!Init
<1>2. Len(<<>>) = 0 /\ Whole(<<>>)
  BY DEF Whole
<1>3. \A t \in Tasks : at[t] = "idle"
  BY DEF Init
<1>4. sender = "wait"
  BY DEF Init
<1> QED
  BY <1>1, <1>2, <1>3, <1>4 DEF WholeInv, StreamsWhole, OwnLine, HookInv, InHook

LEMMA WholeEnough == TypeOK /\ WholeInv => LinesWhole
<1> SUFFICES ASSUME TypeOK, WholeInv, NEW i \in 1..(Len(chunk \o Backlog) - 1),
                    i # Len(chunk)
             PROVE  Follows((chunk \o Backlog)[i], (chunk \o Backlog)[i + 1])
  BY DEF LinesWhole, Follows
<1>1. /\ Len(chunk \o Backlog) = Len(chunk) + Len(Backlog)
      /\ Len(chunk) \in Nat /\ Len(Backlog) \in Nat
      /\ \A k \in 1..(Len(chunk) + Len(Backlog)) :
           (chunk \o Backlog)[k] = IF k <= Len(chunk) THEN chunk[k] ELSE Backlog[k - Len(chunk)]
  BY BacklogIsSeq, ConcatProperties, LenProperties DEF TypeOK
<1>2. Whole(chunk) /\ Whole(Backlog)
  BY DEF WholeInv, StreamsWhole
<1>3. CASE i < Len(chunk)
  <2>1. i \in 1..(Len(chunk) - 1)
    BY <1>1, <1>3
  <2>2. (chunk \o Backlog)[i] = chunk[i] /\ (chunk \o Backlog)[i + 1] = chunk[i + 1]
    BY <1>1, <1>3
  <2> QED
    BY <1>2, <2>1, <2>2 DEF Whole
<1>4. CASE i > Len(chunk)
  <2>1. i - Len(chunk) \in 1..(Len(Backlog) - 1) /\ (i + 1) - Len(chunk) = (i - Len(chunk)) + 1
    BY <1>1, <1>4
  <2>2. /\ (chunk \o Backlog)[i] = Backlog[i - Len(chunk)]
        /\ (chunk \o Backlog)[i + 1] = Backlog[(i - Len(chunk)) + 1]
    BY <1>1, <1>4, <2>1
  <2> QED
    BY <1>2, <2>1, <2>2 DEF Whole
<1> QED
  BY <1>1, <1>3, <1>4

\* Lines never mix, whatever tasks log at once and however full the ring: in the ring
\* and in a datagram a byte is followed by the next of its line or by the first of
\* another.
THEOREM LinesNeverMix == Spec => []LinesWhole
<1>1. Init => RingIsLocked
  BY HolderAssumption DEF Init, RingIsLocked
<1> QED
  BY <1>1, TypeInit, WholeInit, TypeStep, LockStep, WholeStep, WholeEnough, PTL DEF Spec
=============================================================================
