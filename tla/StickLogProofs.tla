--------------------------- MODULE StickLogProofs ---------------------------
(***************************************************************************)
(* Proofs about StickLog, for every size of ring, line and datagram, any   *)
(* tasks and any number of datagrams under way: the sink, datagrams lost   *)
(* and relay restarted notwithstanding, is the one of LogRing, so that     *)
(* what is proved of that one holds on the way into the container's log.   *)
(***************************************************************************)
EXTENDS StickLog, LogRingProofs, FiniteSetTheorems

\* Every step on the way is one of the sink, or leaves the sink alone.
LEMMA SinkPart == [PathNext]_pathVars => [Next]_vars
<1> SUFFICES ASSUME [PathNext]_pathVars PROVE [Next]_vars
  OBVIOUS
<1>1. CASE OnTheStick
  BY <1>1 DEF OnTheStick, Next, UdpTask, Hook
<1>2. CASE SendsOn
  BY <1>2 DEF SendsOn, Next, UdpTask
<1>3. CASE Relay \/ RelayStarts
  BY <1>3 DEF Relay, Receive, Split, Silence, RelayStarts
<1>4. ASSUME NEW t \in Tasks, SaysLine(t) \/ PutsByte(t) PROVE Next
  BY <1>4 DEF SaysLine, PutsByte, Next, Hook
<1>5. CASE UNCHANGED pathVars
  BY <1>5 DEF pathVars
<1> QED
  BY <1>1, <1>2, <1>3, <1>4, <1>5 DEF PathNext

LEMMA PathIsSink == PathSpec => Spec
<1>1. PathInit => Init
  BY DEF PathInit
<1> QED
  BY <1>1, SinkPart, PTL DEF PathSpec, Spec

\* Nothing is lost on the stick but the oldest bytes of a full ring, and what leaves
\* leaves once and in order, whatever becomes of it outside.
THEOREM PathHasBacklog == PathSpec => ImplementsBacklog
BY PathIsSink, RingIsBacklog, PTL

\* Nor are two tasks' lines mixed in what leaves: a byte is followed by the next of its
\* line or by the first of another.
THEOREM PathLinesNeverMix == PathSpec => []LinesWhole
BY PathIsSink, LinesNeverMix, PTL

-----------------------------------------------------------------------------
(* What is under way.                                                      *)

\* F is the datagrams of m, one after the other: off tells where each ends.
Ends(m, F, off) ==
  /\ off \in [0..Len(m) -> 0..Len(F)]
  /\ off[0] = 0 /\ off[Len(m)] = Len(F)
  /\ \A i \in 0..Len(m), j \in 0..Len(m) : i <= j => off[i] <= off[j]
  /\ \A i \in 1..Len(m) : /\ off[i] = off[i - 1] + Len(m[i])
                          /\ \A k \in 1..Len(m[i]) : F[off[i - 1] + k] = m[i][k]
Joined(m, F) == \E off \in [0..Len(m) -> 0..Len(F)] : Ends(m, F, off)

LEMMA JoinedNothing == Joined(<<>>, <<>>)
<1> DEFINE off == [i \in {0} |-> 0]
<1>1. Len(<<>>) = 0 /\ 0..0 = {0} /\ 1..0 = {}
  OBVIOUS
<1>2. off \in [{0} -> {0}] /\ off[0] = 0
  OBVIOUS
<1> HIDE DEF off
<1>3. Ends(<<>>, <<>>, off)
  BY <1>1, <1>2 DEF Ends
<1> QED
  BY <1>1, <1>2, <1>3 DEF Joined

LEMMA JoinedMore ==
  ASSUME NEW m \in Seq(Seq(Bytes)), NEW F \in Seq(Bytes), NEW c \in Seq(Bytes), Joined(m, F)
  PROVE  Joined(Append(m, c), F \o c)
<1> DEFINE n  == Len(m)
           l  == Len(F)
           x  == Len(c)
           m2 == Append(m, c)
           F2 == F \o c
<1>1. PICK off \in [0..n -> 0..l] : Ends(m, F, off)
  BY DEF Joined
<1>2. /\ n \in Nat /\ l \in Nat /\ x \in Nat
      /\ Len(m2) = n + 1 /\ m2[n + 1] = c /\ \A i \in 1..n : m2[i] = m[i]
      /\ Len(F2) = l + x
      /\ \A k \in 1..(l + x) : F2[k] = IF k <= l THEN F[k] ELSE c[k - l]
  BY AppendProperties, ConcatProperties, LenProperties
<1>3. \A i \in 1..n : Len(m[i]) \in Nat
  BY ElementOfSeq, LenProperties
<1>4. /\ off[0] = 0 /\ off[n] = l /\ \A i \in 0..n, j \in 0..n : i <= j => off[i] <= off[j]
      /\ \A i \in 0..n : off[i] \in 0..l
      /\ \A i \in 1..n : /\ off[i] = off[i - 1] + Len(m[i])
                         /\ \A k \in 1..Len(m[i]) : F[off[i - 1] + k] = m[i][k]
  BY <1>1 DEF Ends
<1> HIDE DEF n, l, m2, F2
<1> DEFINE off2 == [i \in 0..(n + 1) |-> IF i <= n THEN off[i] ELSE l + x]
<1> HIDE DEF x
<1>5. \A i \in 0..n : off2[i] = off[i] /\ off2[i] \in 0..(l + x)
  BY <1>2, <1>4
<1>6. off2[n + 1] = l + x
  BY <1>2
<1>7. off2 \in [0..(n + 1) -> 0..(l + x)]
  <2>1. \A i \in 0..(n + 1) : (IF i <= n THEN off[i] ELSE l + x) \in 0..(l + x)
    BY <1>2, <1>4
  <2> QED
    BY <2>1
<1> HIDE DEF off2
<1>8. \A i \in 0..(n + 1) : i \in 0..n \/ i = n + 1
  BY <1>2
<1>9. \A i \in 0..(n + 1), j \in 0..(n + 1) : i <= j => off2[i] <= off2[j]
  <2> SUFFICES ASSUME NEW i \in 0..(n + 1), NEW j \in 0..(n + 1), i <= j PROVE off2[i] <= off2[j]
    OBVIOUS
  <2>1. CASE j = n + 1
    <3>1. off2[j] = l + x /\ off2[i] \in 0..(l + x)
      BY <1>2, <1>6, <1>7, <2>1
    <3> QED
      BY <1>2, <3>1
  <2>2. CASE j # n + 1
    <3>1. i \in 0..n /\ j \in 0..n
      BY <1>2, <2>2
    <3> QED
      BY <1>4, <1>5, <3>1
  <2> QED
    BY <2>1, <2>2
<1>10. ASSUME NEW i \in 1..(n + 1)
       PROVE  /\ off2[i] = off2[i - 1] + Len(m2[i])
              /\ \A k \in 1..Len(m2[i]) : F2[off2[i - 1] + k] = m2[i][k]
  <2>1. CASE i \in 1..n
    <3>1. /\ off2[i] = off[i] /\ off2[i - 1] = off[i - 1] /\ m2[i] = m[i] /\ Len(m[i]) \in Nat
          /\ off[i - 1] \in 0..l /\ off[i] \in 0..l
      <4>1. i - 1 \in 0..n /\ i \in 0..n
        BY <1>2, <2>1
      <4> QED
        BY <1>2, <1>3, <1>4, <1>5, <2>1, <4>1
    <3>2. off[i] = off[i - 1] + Len(m[i]) /\ \A k \in 1..Len(m[i]) : F[off[i - 1] + k] = m[i][k]
      BY <1>4, <2>1
    <3>3. ASSUME NEW k \in 1..Len(m[i]) PROVE F2[off[i - 1] + k] = F[off[i - 1] + k]
      <4>1. off[i - 1] + k \in 1..(l + x) /\ off[i - 1] + k <= l
        <5>1. off[i] = off[i - 1] + Len(m[i]) /\ l \in Nat /\ x \in Nat
          BY <1>2, <3>2
        <5> QED
          BY <3>1, <5>1, SMTT(60)
      <4> QED
        BY <1>2, <4>1
    <3> QED
      BY <3>1, <3>2, <3>3
  <2>2. CASE i = n + 1
    <3>1. off2[i] = l + x /\ off2[i - 1] = l /\ m2[i] = c
      BY <1>2, <1>4, <1>5, <1>6, <2>2
    <3>2. ASSUME NEW k \in 1..x PROVE F2[l + k] = c[k]
      BY <1>2, SMTT(60)
    <3> QED
      BY <3>1, <3>2 DEF x
  <2>3. i \in 1..n \/ i = n + 1
    BY <1>2
  <2> QED
    BY <2>1, <2>2, <2>3
<1>11. Ends(m2, F2, off2)
  <2>1. off2[0] = 0
    BY <1>2, <1>4, <1>5
  <2> QED
    BY <1>2, <1>6, <1>7, <1>9, <1>10, <2>1 DEF Ends
<1> QED
  BY <1>2, <1>7, <1>11 DEF Joined, m2, F2

LEMMA JoinedLess ==
  ASSUME NEW m \in Seq(Seq(Bytes)), m # <<>>, NEW F \in Seq(Bytes), Joined(m, F)
  PROVE  \E G \in Seq(Bytes) : F = Head(m) \o G /\ Joined(Tail(m), G)
<1> DEFINE n == Len(m) - 1
           l == Len(F)
           h == m[1]
           x == Len(h)
           m2 == Tail(m)
<1>1. PICK off \in [0..Len(m) -> 0..l] : Ends(m, F, off)
  BY DEF Joined
<1>2. /\ n \in Nat /\ Len(m) = n + 1 /\ l \in Nat
      /\ Len(m2) = n /\ \A i \in 1..n : m2[i] = m[i + 1]
      /\ h \in Seq(Bytes) /\ x \in Nat
  BY HeadTailProperties, EmptySeq, LenProperties, ElementOfSeq
<1>3. Head(m) = h /\ \A i \in 1..(n + 1) : Len(m[i]) \in Nat
  BY <1>2, ElementOfSeq, LenProperties
<1>4. /\ off[0] = 0 /\ off[n + 1] = l
      /\ \A i \in 0..(n + 1), j \in 0..(n + 1) : i <= j => off[i] <= off[j]
      /\ \A i \in 0..(n + 1) : off[i] \in 0..l
      /\ \A i \in 1..(n + 1) : /\ off[i] = off[i - 1] + Len(m[i])
                               /\ \A k \in 1..Len(m[i]) : F[off[i - 1] + k] = m[i][k]
  BY <1>1, <1>2 DEF Ends
<1> HIDE DEF n, l, m2
<1>5. /\ off[1] = x /\ x <= l /\ \A k \in 1..x : F[k] = h[k]
      /\ \A i \in 0..n : off[i + 1] \in x..l
  <2>1. 1 \in 1..(n + 1) /\ 1 - 1 = 0
    BY <1>2
  <2>2. off[1] = off[0] + x /\ \A k \in 1..x : F[off[0] + k] = h[k]
    BY <1>4, <2>1
  <2>3. ASSUME NEW i \in 0..n PROVE off[1] <= off[i + 1] /\ off[i + 1] \in 0..l
    <3>1. i + 1 \in 0..(n + 1) /\ 1 \in 0..(n + 1) /\ 1 <= i + 1
      BY <1>2
    <3> QED
      BY <1>4, <3>1
  <2>4. \A k \in 1..x : F[k] = h[k]
    BY <1>2, <1>4, <2>2
  <2>5. off[1] = x
    BY <1>2, <1>4, <2>2
  <2>6. ASSUME NEW i \in 0..n PROVE off[i + 1] \in x..l
    BY <1>2, <2>3, <2>5
  <2>7. x <= l
    BY <1>2, <2>3, <2>5
  <2> QED
    BY <2>4, <2>5, <2>6, <2>7
<1> HIDE DEF h, x
<1>6. PICK G \in Seq(Bytes) : Len(G) = l - x /\ \A k \in 1..(l - x) : G[k] = F[x + k]
  <2> DEFINE N == l - x
             g == [k \in 1..N |-> F[x + k]]
  <2>1. l - x \in Nat /\ \A k \in 1..(l - x) : F[x + k] \in Bytes
    <3>1. \A k \in 1..l : F[k] \in Bytes
      BY ElementOfSeq DEF l
    <3> QED
      BY <1>2, <1>5, <3>1
  <2>2. g \in [1..N -> Bytes] /\ \A k \in 1..N : g[k] = F[x + k]
    BY <2>1
  <2>3. N \in Nat
    BY <2>1
  <2> HIDE DEF g, N
  <2>4. g \in Seq(Bytes)
    BY <2>2, <2>3, SeqDef
  <2>5. Len(g) = N
    BY <2>2, <2>3, <2>4, LenProperties
  <2> QED
    BY <2>2, <2>4, <2>5 DEF N
<1>7. F = h \o G
  <2> DEFINE H == h \o G
  <2>1. /\ H \in Seq(Bytes) /\ Len(H) = x + (l - x)
        /\ \A k \in 1..(x + (l - x)) : H[k] = IF k <= x THEN h[k] ELSE G[k - x]
    BY <1>2, <1>6, ConcatProperties, SMTT(60) DEF x
  <2> HIDE DEF H
  <2>2. Len(H) = l /\ 1..(x + (l - x)) = 1..l
    BY <1>2, <1>5, <2>1
  <2>3. ASSUME NEW k \in 1..l PROVE F[k] = H[k]
    <3>1. CASE k <= x
      <4>1. H[k] = h[k]
        BY <1>2, <2>1, <2>2, <3>1
      <4>2. k \in 1..x
        BY <1>2, <3>1
      <4> QED
        BY <1>5, <4>1, <4>2
    <3>2. CASE k > x
      <4>1. k - x \in 1..(l - x) /\ x + (k - x) = k
        BY <1>2, <1>5, <3>2
      <4>2. H[k] = G[k - x]
        BY <1>2, <2>1, <2>2, <3>2
      <4>3. G[k - x] = F[x + (k - x)]
        BY <1>6, <4>1
      <4> QED
        BY <4>1, <4>2, <4>3
    <3> QED
      BY <1>2, <3>1, <3>2
  <2>4. F = H
    BY <2>1, <2>2, <2>3, SeqEqual DEF l
  <2> QED
    BY <2>4 DEF H
<1> DEFINE off2 == [i \in 0..n |-> off[i + 1] - x]
<1>8. \A i \in 0..n : off2[i] = off[i + 1] - x
  OBVIOUS
<1>9. off2 \in [0..n -> 0..(l - x)]
  <2>1. ASSUME NEW i \in 0..n PROVE off[i + 1] - x \in 0..(l - x)
    BY <1>2, <1>5, SMTT(60)
  <2> QED
    BY <2>1
<1> HIDE DEF off2
<1>10. ASSUME NEW i \in 1..n
       PROVE  /\ off2[i] = off2[i - 1] + Len(m2[i])
              /\ \A k \in 1..Len(m2[i]) : G[off2[i - 1] + k] = m2[i][k]
  <2>1. i + 1 \in 1..(n + 1) /\ (i + 1) - 1 = i /\ i - 1 \in 0..n /\ i \in 0..n /\ (i - 1) + 1 = i
    BY <1>2
  <2>2. /\ off[i + 1] = off[i] + Len(m[i + 1])
        /\ \A k \in 1..Len(m[i + 1]) : F[off[i] + k] = m[i + 1][k]
    <3>1. /\ off[i + 1] = off[(i + 1) - 1] + Len(m[i + 1])
          /\ \A k \in 1..Len(m[i + 1]) : F[off[(i + 1) - 1] + k] = m[i + 1][k]
      BY <1>4, <2>1
    <3> QED
      BY <2>1, <3>1
  <2>3. off2[i] = off[i + 1] - x /\ m2[i] = m[i + 1] /\ off[i + 1] \in x..l
    BY <1>2, <1>5, <1>8, <2>1
  <2>4. off2[i - 1] = off[i] - x /\ off[i] \in x..l
    <3>1. off2[i - 1] = off[(i - 1) + 1] - x /\ off[(i - 1) + 1] \in x..l
      BY <1>5, <1>8, <2>1
    <3> QED
      BY <2>1, <3>1
  <2>5. Len(m[i + 1]) \in Nat
    BY <1>3, <2>1
  <2>6. ASSUME NEW k \in 1..Len(m[i + 1]) PROVE G[off2[i - 1] + k] = F[off[i] + k]
    <3>1. off2[i - 1] + k \in 1..(l - x) /\ x + (off2[i - 1] + k) = off[i] + k
      <4>1. off[i + 1] = off[i] + Len(m[i + 1])
        BY <2>2
      <4>2. x \in Nat /\ l \in Nat
        BY <1>2
      <4>3. \A p \in x..l, q \in x..l, w \in Nat : q = p + w /\ k \in 1..w =>
              (p - x) + k \in 1..(l - x) /\ x + ((p - x) + k) = p + k
        BY <4>2
      <4> QED
        BY <2>3, <2>4, <2>5, <4>1, <4>3
    <3>2. G[off2[i - 1] + k] = F[x + (off2[i - 1] + k)]
      BY <1>6, <3>1
    <3> QED
      BY <3>1, <3>2
  <2>7. off2[i] = off2[i - 1] + Len(m[i + 1])
    <3>1. off[i + 1] = off[i] + Len(m[i + 1])
      BY <2>2
    <3>2. x \in Nat /\ l \in Nat
      BY <1>2
    <3>3. \A p \in x..l, q \in x..l, w \in Nat : q = p + w => q - x = (p - x) + w
      BY <3>2
    <3> QED
      BY <2>3, <2>4, <2>5, <3>1, <3>3, SMTT(60)
  <2> QED
    BY <2>2, <2>3, <2>6, <2>7
<1>11. \A i \in 0..n, j \in 0..n : i <= j => off2[i] <= off2[j]
  <2> SUFFICES ASSUME NEW i \in 0..n, NEW j \in 0..n, i <= j PROVE off2[i] <= off2[j]
    OBVIOUS
  <2>1. i + 1 \in 0..(n + 1) /\ j + 1 \in 0..(n + 1) /\ i + 1 <= j + 1
    BY <1>2
  <2>2. off[i + 1] <= off[j + 1] /\ off[i + 1] \in x..l /\ off[j + 1] \in x..l
    BY <1>4, <1>5, <2>1
  <2>3. off2[i] = off[i + 1] - x /\ off2[j] = off[j + 1] - x
    BY <1>8
  <2>4. x \in Nat /\ l \in Nat
    BY <1>2
  <2> QED
    BY <2>2, <2>3, <2>4, SMTT(60)
<1>12. off2[0] = 0 /\ off2[n] = l - x
  <2>1. 0 \in 0..n /\ n \in 0..n /\ 0 + 1 = 1 /\ x - x = 0
    BY <1>2
  <2>2. off2[0] = off[0 + 1] - x /\ off2[n] = off[n + 1] - x
    BY <1>8, <2>1
  <2> QED
    BY <1>4, <1>5, <2>1, <2>2
<1>13. Ends(m2, G, off2)
  BY <1>2, <1>6, <1>9, <1>10, <1>11, <1>12 DEF Ends
<1>14. Joined(m2, G)
  BY <1>2, <1>6, <1>9, <1>13 DEF Joined
<1> QED
  BY <1>3, <1>7, <1>14 DEF m2

-----------------------------------------------------------------------------
(* Streams.                                                                *)

\* Every byte is of a line logged; a line's bytes lie together; before another line
\* begins, a line has ended or lost a byte; so has, at the end, a line that no task is
\* putting; and of the line being put the last byte is the one put last, if none is lost.
EndsIn(S, i, k) == \E j \in i..k : Newline(S[j]) /\ S[j].line = S[i].line
Known(S) == \A i \in 1..Len(S) : S[i].line \in 1..lines
Together(S) ==
  \A i, j, k \in 1..Len(S) : i < j /\ j < k /\ S[i].line = S[k].line => S[j].line = S[i].line
Separate(S, c) ==
  \A i, k \in 1..Len(S) :
    i < k /\ S[i].line # S[k].line => S[i].line \in c \/ EndsIn(S, i, k - 1)
Finished(S, c) ==
  \A i \in 1..Len(S) : \/ S[i].line \in c \/ EndsIn(S, i, Len(S))
                       \/ \E t \in Tasks : at[t] = "put" /\ todo[t].line = S[i].line
Putting(S, c) ==
  \A t \in Tasks, i \in 1..Len(S) :
    at[t] = "put" /\ S[i].line = todo[t].line =>
      /\ S[Len(S)].line = todo[t].line
      /\ todo[t].line \in c \/ S[Len(S)].pos + 1 = todo[t].pos
Waiting(S) == \A t \in Tasks, i \in 1..Len(S) : at[t] = "lock" => S[i].line # todo[t].line

StreamInv(S, c) ==
  /\ Known(S) /\ Together(S) /\ Separate(S, c) /\ Finished(S, c)
  /\ Putting(S, c) /\ Waiting(S)

\* R is S without the x bytes after the first a, which are its first or of lines of c.
Without(S, R, a, x, c) ==
  /\ Len(S) = Len(R) + x /\ a <= Len(R)
  /\ \A i \in 1..Len(R) : R[i] = S[IF i <= a THEN i ELSE i + x]
  /\ a = 0 \/ \A i \in (a + 1)..(a + x) : S[i].line \in c

LEMMA StreamWithout ==
  ASSUME NEW S \in Seq(Bytes), NEW R \in Seq(Bytes), NEW a \in Nat, NEW x \in Nat,
         NEW c, NEW d, c \subseteq d, Without(S, R, a, x, d), StreamInv(S, c)
  PROVE  StreamInv(R, d)
<1> DEFINE Old(i) == IF i <= a THEN i ELSE i + x
           n == Len(S)
           r == Len(R)
<1>1. /\ n \in Nat /\ r \in Nat /\ n = r + x /\ a <= r
      /\ \A i \in 1..r : R[i] = S[Old(i)]
      /\ a = 0 \/ \A i \in (a + 1)..(a + x) : S[i].line \in d
  BY LenProperties DEF Without
<1> HIDE DEF n, r
<1>2. /\ \A i \in 1..r : Old(i) \in 1..n /\ (Old(i) <= a \/ a + x < Old(i))
      /\ \A i, j \in 1..r : i < j => Old(i) < Old(j)
      /\ \A i \in 1..n : \/ \E j \in 1..r : Old(j) = i
                         \/ i \in (a + 1)..(a + x)
  <2>1. \A i \in 1..r : Old(i) \in 1..n /\ (Old(i) <= a \/ a + x < Old(i))
    BY <1>1
  <2>2. \A i, j \in 1..r : i < j => Old(i) < Old(j)
    BY <1>1
  <2>3. ASSUME NEW i \in 1..n, i \notin (a + 1)..(a + x) PROVE \E j \in 1..r : Old(j) = i
    <3>1. CASE i <= a
      BY <1>1, <3>1
    <3>2. CASE i > a
      <4>1. i - x \in 1..r /\ ~(i - x <= a) /\ (i - x) + x = i
        BY <1>1, <2>3, <3>2
      <4> QED
        BY <4>1
    <3> QED
      BY <1>1, <3>1, <3>2
  <2> QED
    BY <2>1, <2>2, <2>3
<1> HIDE DEF Old
\* A newline stays one, or its line has lost it.
<1>3. ASSUME NEW i \in 1..r, NEW k \in 1..n, EndsIn(S, Old(i), k)
      PROVE  \/ R[i].line \in d
             \/ \E j \in 1..r : i <= j /\ Old(j) <= k /\ Newline(R[j]) /\ R[j].line = R[i].line
  <2>1. PICK m \in Old(i)..k : Newline(S[m]) /\ S[m].line = S[Old(i)].line
    BY <1>3 DEF EndsIn
  <2>2. /\ m \in 1..n /\ m <= k /\ Old(i) <= m /\ R[i] = S[Old(i)]
        /\ Old(i) \in 1..n /\ (Old(i) <= a \/ a + x < Old(i))
    BY <1>1, <1>2
  <2>3. CASE m \in (a + 1)..(a + x)
    <3>1. Old(i) <= a /\ a # 0
      BY <1>1, <2>2, <2>3, SMTT(60)
    <3> QED
      BY <1>1, <2>1, <2>2, <2>3, <3>1
  <2>4. ASSUME NEW j \in 1..r, Old(j) = m
        PROVE  i <= j /\ Old(j) <= k /\ Newline(R[j]) /\ R[j].line = R[i].line
    <3>1. i <= j
      BY <1>1, <1>2, <2>2, <2>4
    <3> QED
      BY <1>1, <2>1, <2>2, <2>4, <3>1
  <2> QED
    BY <1>2, <2>2, <2>3, <2>4
<1>4. Known(R)
  BY <1>1, <1>2 DEF StreamInv, Known, n, r
<1>5. Together(R)
  <2> SUFFICES ASSUME NEW i \in 1..r, NEW j \in 1..r, NEW k \in 1..r,
                      i < j, j < k, R[i].line = R[k].line
               PROVE  R[j].line = R[i].line
    BY DEF Together, r
  <2>1. /\ Old(i) \in 1..n /\ Old(j) \in 1..n /\ Old(k) \in 1..n
        /\ Old(i) < Old(j) /\ Old(j) < Old(k)
        /\ R[i] = S[Old(i)] /\ R[j] = S[Old(j)] /\ R[k] = S[Old(k)]
    BY <1>1, <1>2
  <2> QED
    BY <2>1 DEF StreamInv, Together, n
<1>6. Separate(R, d)
  <2> SUFFICES ASSUME NEW i \in 1..r, NEW k \in 1..r, i < k, R[i].line # R[k].line
               PROVE  R[i].line \in d \/ EndsIn(R, i, k - 1)
    BY DEF Separate, r
  <2>1. /\ Old(i) \in 1..n /\ Old(k) \in 1..n /\ Old(i) < Old(k)
        /\ R[i] = S[Old(i)] /\ R[k] = S[Old(k)]
    BY <1>1, <1>2
  <2>2. R[i].line \in d \/ EndsIn(S, Old(i), Old(k) - 1)
    BY <2>1 DEF StreamInv, Separate, n
  <2>3. ASSUME EndsIn(S, Old(i), Old(k) - 1) PROVE R[i].line \in d \/ EndsIn(R, i, k - 1)
    <3>1. Old(k) - 1 \in 1..n
      BY <1>1, <2>1
    <3>2. \/ R[i].line \in d
          \/ \E j \in 1..r : /\ i <= j /\ Old(j) <= Old(k) - 1
                             /\ Newline(R[j]) /\ R[j].line = R[i].line
      BY <1>3, <2>3, <3>1
    <3>3. ASSUME NEW j \in 1..r, i <= j, Old(j) <= Old(k) - 1 PROVE j \in i..(k - 1)
      <4>1. Old(j) < Old(k) /\ Old(j) \in Nat /\ Old(k) \in Nat
        BY <1>1, <1>2, <2>1, <3>3, SMTT(60)
      <4>2. ~(k < j) /\ j # k
        BY <1>2, <4>1
      <4> QED
        BY <1>1, <3>3, <4>2
    <3> QED
      BY <3>2, <3>3 DEF EndsIn
  <2> QED
    BY <2>2, <2>3
<1>7. Finished(R, d)
  <2> SUFFICES ASSUME NEW i \in 1..r
               PROVE  \/ R[i].line \in d \/ EndsIn(R, i, r)
                      \/ \E t \in Tasks : at[t] = "put" /\ todo[t].line = R[i].line
    BY DEF Finished, r
  <2>1. Old(i) \in 1..n /\ R[i] = S[Old(i)] /\ n \in 1..n
    BY <1>1, <1>2
  <2>2. ASSUME EndsIn(S, Old(i), n) PROVE R[i].line \in d \/ EndsIn(R, i, r)
    <3>1. \/ R[i].line \in d
          \/ \E j \in 1..r : i <= j /\ Newline(R[j]) /\ R[j].line = R[i].line
      BY <1>3, <2>1, <2>2
    <3>2. \A j \in 1..r : i <= j => j \in i..r
      BY <1>1
    <3> QED
      BY <3>1, <3>2 DEF EndsIn
  <2> QED
    BY <2>1, <2>2 DEF StreamInv, Finished, n
<1>8. Putting(R, d)
  <2> SUFFICES ASSUME NEW t \in Tasks, NEW i \in 1..r, at[t] = "put", R[i].line = todo[t].line
               PROVE  /\ R[r].line = todo[t].line
                      /\ todo[t].line \in d \/ R[r].pos + 1 = todo[t].pos
    BY DEF Putting, r
  <2>1. /\ Old(i) \in 1..n /\ R[i] = S[Old(i)] /\ r \in 1..r /\ n \in 1..n
        /\ Old(r) \in 1..n /\ R[r] = S[Old(r)]
    BY <1>1, <1>2
  <2>2. S[n].line = todo[t].line /\ (todo[t].line \in d \/ S[n].pos + 1 = todo[t].pos)
    BY <2>1 DEF StreamInv, Putting, n
  <2>3. CASE Old(r) = n
    BY <2>1, <2>2, <2>3
  <2>4. CASE Old(r) # n
    <3>1. n \in (a + 1)..(a + x) /\ a # 0
      <4>1. ASSUME NEW j \in 1..r, Old(j) = n PROVE FALSE
        <5>1. j = r \/ j < r
          BY <1>1
        <5>2. Old(r) <= n
          BY <1>1, <2>1
        <5> QED
          BY <1>1, <1>2, <2>1, <2>4, <4>1, <5>1, <5>2
      <4>2. n \in (a + 1)..(a + x)
        BY <1>2, <2>1, <4>1
      <4>3. r = a
        BY <1>1, <4>2
      <4> QED
        BY <1>1, <2>1, <4>2, <4>3
    <3>2. S[n].line \in d
      BY <1>1, <3>1
    <3>3. R[r].line = todo[t].line
      <4>1. Old(i) < Old(r) \/ Old(i) = Old(r)
        <5>1. i = r \/ i < r
          BY <1>1
        <5> QED
          BY <1>2, <2>1, <5>1
      <4>2. Old(r) < n
        <5>1. n \in Nat
          BY <1>1
        <5> QED
          BY <2>1, <2>4, <5>1
      <4>3. Old(i) < Old(r) => S[Old(r)].line = S[Old(i)].line
        BY <2>1, <2>2, <4>2 DEF StreamInv, Together, n
      <4> QED
        BY <2>1, <4>1, <4>3
    <3> QED
      BY <2>2, <3>2, <3>3
  <2> QED
    BY <2>3, <2>4
<1>9. Waiting(R)
  BY <1>1, <1>2 DEF StreamInv, Waiting, n, r
<1> QED
  BY <1>4, <1>5, <1>6, <1>7, <1>8, <1>9 DEF StreamInv

-----------------------------------------------------------------------------
(* Tasks.                                                                  *)

\* A task inside the hook knows its line, and a line too long for the buffer is cut.
HookOK(c) ==
  \A t \in Tasks : InHook(t) =>
    /\ todo[t].line \in 1..lines
    /\ todo[t].len = Kept(said[todo[t].line].len) /\ todo[t].pos <= todo[t].len + 1
    /\ said[todo[t].line].len >= THBR_LINE_MAX => todo[t].line \in c

SaidOK == said \in [Numbers -> [len : Lengths \cup {0}, routine : BOOLEAN]]

\* A task takes its lock, puts no byte, or is done with its line; or a task begins.
LEMMA StreamAside ==
  ASSUME NEW S \in Seq(Bytes), NEW c, NEW d, c \subseteq d, StreamInv(S, c),
         lines \in Nat, lines' \in Nat, lines <= lines',
         \A i \in 1..Len(S) : Newline(S[i])' <=> Newline(S[i]),
         \A t \in Tasks : at'[t] = "put" => at[t] \in {"lock", "put"} /\ todo'[t] = todo[t],
         \A t \in Tasks : at'[t] = "lock" => \/ at[t] = "lock" /\ todo'[t] = todo[t]
                                             \/ \A i \in 1..Len(S) : S[i].line # todo'[t].line,
         \A t \in Tasks : at[t] = "put" =>
           \/ at'[t] = "put"
           \/ \A i \in 1..Len(S) : S[i].line = todo[t].line => S[i].line \in d \/ EndsIn(S, i, Len(S))
  PROVE  StreamInv(S, d)'
<1> DEFINE n == Len(S)
<1>1. n \in Nat
  BY LenProperties
<1> HIDE DEF n
<1>2. ASSUME NEW i \in 1..n, NEW k \in 1..n, EndsIn(S, i, k) PROVE EndsIn(S, i, k)'
  BY <1>1, <1>2 DEF EndsIn, n
<1>3. (Known(S))'
  BY DEF StreamInv, Known
<1>4. (Together(S))'
  BY DEF StreamInv, Together
<1>5. (Separate(S, d))'
  <2> SUFFICES ASSUME NEW i \in 1..n, NEW k \in 1..n, i < k, S[i].line # S[k].line
               PROVE  S[i].line \in d \/ (EndsIn(S, i, k - 1))'
    BY DEF Separate, n
  <2>1. k - 1 \in 1..n
    BY <1>1
  <2> QED
    BY <1>2, <2>1 DEF StreamInv, Separate, n
<1>6. (Finished(S, d))'
  <2> SUFFICES ASSUME NEW i \in 1..n
               PROVE  \/ S[i].line \in d \/ (EndsIn(S, i, n))'
                      \/ \E t \in Tasks : at'[t] = "put" /\ todo'[t].line = S[i].line
    BY DEF Finished, n
  <2>1. n \in 1..n
    BY <1>1
  <2>2. EndsIn(S, i, n) => (EndsIn(S, i, n))'
    BY <1>2, <2>1
  <2>3. ASSUME NEW t \in Tasks, at[t] = "put", todo[t].line = S[i].line
        PROVE  \/ S[i].line \in d \/ EndsIn(S, i, n)
               \/ at'[t] = "put" /\ todo'[t].line = S[i].line
    BY <2>3 DEF n
  <2> QED
    BY <2>2, <2>3 DEF StreamInv, Finished, n
<1>7. (Putting(S, d))'
  <2> SUFFICES ASSUME NEW t \in Tasks, NEW i \in 1..n, at'[t] = "put", S[i].line = todo'[t].line
               PROVE  /\ S[n].line = todo'[t].line
                      /\ todo'[t].line \in d \/ S[n].pos + 1 = todo'[t].pos
    BY DEF Putting, n
  <2>1. at[t] = "put" /\ todo'[t] = todo[t]
    BY DEF StreamInv, Waiting, n
  <2> QED
    BY <2>1 DEF StreamInv, Putting, n
<1>8. (Waiting(S))'
  BY DEF StreamInv, Waiting
<1> QED
  BY <1>3, <1>4, <1>5, <1>6, <1>7, <1>8 DEF StreamInv

\* A task puts its next byte.
LEMMA StreamAppend ==
  ASSUME TypeOK, RingIsLocked, OwnLine, NEW t \in Tasks, PutByte(t), said' = said,
         NEW S \in Seq(Bytes), NEW c, HookOK(c), StreamInv(S, c),
         NEW b \in Bytes, b = ByteOf(t)
  PROVE  StreamInv(Append(S, b), c)'
<1> DEFINE n == Len(S)
           R == Append(S, b)
<1>1. /\ n \in Nat /\ R \in Seq(Bytes) /\ Len(R) = n + 1 /\ R[n + 1] = b
      /\ \A i \in 1..n : R[i] = S[i]
  BY LenProperties, AppendProperties
<1> HIDE DEF n, R
<1>2. /\ at' = at /\ lines' = lines /\ at[t] = "put" /\ \A u \in Tasks : at[u] = "put" => u = t
      /\ b.line = todo[t].line /\ b.pos = todo[t].pos /\ todo'[t].line = todo[t].line
      /\ todo'[t].pos = todo[t].pos + 1
      /\ \A u \in Tasks : u # t => todo'[u] = todo[u]
  BY DEF PutByte, ByteOf, RingIsLocked, TypeOK
<1>3. \A u \in Tasks : todo'[u].line = todo[u].line
  BY <1>2
<1>4. \A i \in 1..(n + 1) : i \in 1..n \/ i = n + 1
  BY <1>1
<1>5. ASSUME NEW i \in 1..n, NEW k \in 1..n, EndsIn(S, i, k) PROVE (EndsIn(R, i, k))'
  <2>1. PICK j \in i..k : Newline(S[j]) /\ S[j].line = S[i].line
    BY <1>5 DEF EndsIn
  <2>2. j \in 1..n /\ R[j] = S[j] /\ R[i] = S[i]
    BY <1>1
  <2>3. (Newline(R[j]))'
    BY <2>1, <2>2 DEF Newline
  <2> QED
    BY <2>1, <2>2, <2>3 DEF EndsIn
<1>6. (Known(R))'
  <2>1. b.line \in 1..lines
    BY <1>2 DEF HookOK, InHook
  <2> QED
    BY <1>1, <1>2, <1>4, <2>1 DEF StreamInv, Known, n
<1>7. (Together(R))'
  <2> SUFFICES ASSUME NEW i \in 1..(n + 1), NEW j \in 1..(n + 1), NEW k \in 1..(n + 1),
                      i < j, j < k, R[i].line = R[k].line
               PROVE  R[j].line = R[i].line
    BY <1>1 DEF Together
  <2>1. i \in 1..n /\ j \in 1..n /\ R[i] = S[i] /\ R[j] = S[j] /\ n \in 1..n
    BY <1>1
  <2>2. CASE k \in 1..n
    BY <1>1, <2>1, <2>2 DEF StreamInv, Together, n
  <2>3. CASE k = n + 1
    <3>1. S[n].line = S[i].line
      BY <1>1, <1>2, <2>1, <2>3 DEF StreamInv, Putting, n
    <3>2. j = n \/ j < n
      BY <1>1, <2>1
    <3> QED
      BY <2>1, <3>1, <3>2 DEF StreamInv, Together, n
  <2> QED
    BY <1>4, <2>2, <2>3
<1>8. (Separate(R, c))'
  <2> SUFFICES ASSUME NEW i \in 1..(n + 1), NEW k \in 1..(n + 1), i < k, R[i].line # R[k].line
               PROVE  R[i].line \in c \/ (EndsIn(R, i, k - 1))'
    BY <1>1 DEF Separate
  <2>1. i \in 1..n /\ R[i] = S[i] /\ k - 1 \in 1..n
    BY <1>1
  <2>2. CASE k \in 1..n
    <3>1. S[i].line \in c \/ EndsIn(S, i, k - 1)
      BY <1>1, <2>1, <2>2 DEF StreamInv, Separate, n
    <3> QED
      BY <1>5, <2>1, <3>1
  <2>3. CASE k = n + 1
    <3>1. S[i].line \in c \/ EndsIn(S, i, n)
      BY <1>1, <1>2, <2>1, <2>3 DEF StreamInv, Finished, n
    <3>2. k - 1 = n
      BY <1>1, <2>3
    <3> QED
      BY <1>5, <2>1, <3>1, <3>2
  <2> QED
    BY <1>4, <2>2, <2>3
<1>9. (Finished(R, c))'
  <2> SUFFICES ASSUME NEW i \in 1..(n + 1)
               PROVE  \/ R[i].line \in c \/ (EndsIn(R, i, n + 1))'
                      \/ \E u \in Tasks : at'[u] = "put" /\ todo'[u].line = R[i].line
    BY <1>1 DEF Finished
  <2>1. CASE i \in 1..n
    <3>1. R[i] = S[i] /\ n \in 1..n
      BY <1>1, <2>1
    <3>2. \/ S[i].line \in c \/ EndsIn(S, i, n)
          \/ \E u \in Tasks : at[u] = "put" /\ todo[u].line = S[i].line
      BY <2>1 DEF StreamInv, Finished, n
    <3>3. (EndsIn(R, i, n))' => (EndsIn(R, i, n + 1))'
      <4>1. i..n \subseteq i..(n + 1)
        BY <1>1
      <4> QED
        BY <4>1 DEF EndsIn
    <3> QED
      BY <1>2, <1>3, <1>5, <2>1, <3>1, <3>2, <3>3
  <2>2. CASE i = n + 1
    BY <1>1, <1>2, <1>3, <2>2
  <2> QED
    BY <1>4, <2>1, <2>2
<1>10. (Putting(R, c))'
  <2>1. R[n + 1].line = todo'[t].line /\ R[n + 1].pos + 1 = todo'[t].pos
    BY <1>1, <1>2
  <2> QED
    BY <1>1, <1>2, <2>1 DEF Putting
<1>11. (Waiting(R))'
  <2> SUFFICES ASSUME NEW u \in Tasks, NEW i \in 1..(n + 1), at[u] = "lock"
               PROVE  R[i].line # todo[u].line
    BY <1>1, <1>2, <1>3 DEF Waiting
  <2>1. b.line # todo[u].line
    BY <1>2 DEF OwnLine, InHook
  <2> QED
    BY <1>1, <1>4, <2>1 DEF StreamInv, Waiting, n
<1> QED
  BY <1>6, <1>7, <1>8, <1>9, <1>10, <1>11 DEF StreamInv, R

LEMMA SaidLength ==
  ASSUME SaidOK, NEW n \in Numbers
  PROVE  said[n].len \in Nat
<1>1. said[n].len \in Lengths \cup {0}
  BY DEF SaidOK
<1>2. Lengths \cup {0} \subseteq Nat
  BY LengthAssumption
<1> QED
  BY <1>1, <1>2

\* A task that has put its last byte has ended its line, or cut it.
LEMMA LineEnds ==
  ASSUME TypeOK, SaidOK, NEW t \in Tasks, at[t] = "put", todo[t].pos > todo[t].len,
         NEW c, HookOK(c), NEW S \in Seq(Bytes), StreamInv(S, c),
         NEW i \in 1..Len(S), S[i].line = todo[t].line
  PROVE  S[i].line \in c \/ EndsIn(S, i, Len(S))
<1> DEFINE l == todo[t].line
           z == S[Len(S)]
<1>1. /\ l \in 1..lines /\ lines \in 0..MaxLines /\ todo[t].len = Kept(said[l].len)
      /\ todo[t].pos <= todo[t].len + 1
      /\ said[l].len >= THBR_LINE_MAX => l \in c
      /\ todo[t].len \in Nat /\ todo[t].pos \in Nat
  BY DEF HookOK, InHook, TypeOK
<1>2. said[l].len \in Nat /\ THBR_LINE_MAX \in Nat
  <2>1. l \in Numbers
    BY <1>1, RingAssumption DEF Numbers
  <2> QED
    BY <2>1, SaidLength, RingAssumption
<1>3. z.line = l /\ (l \in c \/ z.pos + 1 = todo[t].pos)
  BY DEF StreamInv, Putting
<1>4. Len(S) \in i..Len(S) /\ z \in Bytes
  BY LenProperties, ElementOfSeq
<1>5. z.pos \in Nat
  BY <1>4 DEF Bytes
<1> HIDE DEF l, z
<1>6. CASE l \in c
  BY <1>6 DEF l
<1>7. CASE l \notin c
  <2>1. said[l].len < THBR_LINE_MAX
    BY <1>1, <1>2, <1>7
  <2>2. todo[t].pos = todo[t].len + 1 /\ todo[t].len = said[l].len
    BY <1>1, <1>2, <2>1 DEF Kept
  <2>3. Newline(z) /\ z.line = S[i].line
    BY <1>1, <1>2, <1>3, <1>5, <1>7, <2>1, <2>2, SMTT(60) DEF Newline, l
  <2> QED
    BY <1>4, <2>3 DEF EndsIn, z
<1> QED
  BY <1>6, <1>7

-----------------------------------------------------------------------------
(* A line cut for each that is swallowed.                                  *)

\* A line of which nothing is under way or to come.
Past(n, S) ==
  /\ n \in 1..lines /\ \A i \in 1..Len(S) : S[i].line # n
  /\ \A t \in Tasks : InHook(t) => todo[t].line # n
Charged(S, c) == Cardinality(swallowed) <= Cardinality({n \in c : Past(n, S)})

LEMMA LinesOf ==
  ASSUME NEW X \in Seq(Bytes)
  PROVE  /\ \A i \in 1..Len(X) : X[i].line \in LinesIn(X)
         /\ \A n \in LinesIn(X) : \E i \in 1..Len(X) : X[i].line = n
BY LenProperties DEF LinesIn, ToSet

LEMMA FewNumbers ==
  ASSUME NEW A \in SUBSET Numbers
  PROVE  IsFiniteSet(A) /\ Cardinality(A) \in Nat
<1>1. IsFiniteSet(Numbers)
  BY RingAssumption, FS_Interval DEF Numbers
<1>2. IsFiniteSet(A)
  BY <1>1, FS_Subset
<1> QED
  BY <1>2, FS_CardinalityType

LEMMA NotMore ==
  ASSUME NEW A \in SUBSET Numbers, NEW B \in SUBSET A
  PROVE  Cardinality(B) <= Cardinality(A)
BY FewNumbers, FS_Subset

LEMMA ChargeStays ==
  ASSUME NEW S, NEW R, NEW c \in SUBSET Numbers, NEW d \in SUBSET Numbers, c \subseteq d,
         Charged(S, c), swallowed \subseteq Numbers, swallowed' = swallowed,
         \A n \in Numbers : Past(n, S) => Past(n, R)'
  PROVE  Charged(R, d)'
<1> DEFINE A == {n \in c : Past(n, S)}
           B == {n \in d : Past(n, R)'}
<1>1. Cardinality(swallowed) <= Cardinality(A)
  BY DEF Charged
<1>2. A \in SUBSET B /\ B \in SUBSET Numbers /\ A \in SUBSET Numbers
  OBVIOUS
<1> HIDE DEF A, B
<1>3. Cardinality(A) <= Cardinality(B)
  BY <1>2, NotMore
<1>4. Cardinality(swallowed) \in Nat /\ Cardinality(A) \in Nat /\ Cardinality(B) \in Nat
  BY <1>2, FewNumbers
<1>5. Cardinality(swallowed) <= Cardinality(B)
  BY <1>1, <1>3, <1>4
<1> QED
  BY <1>5 DEF Charged, B

\* What the relay prints at once takes at most as many lines out of the log as are cut
\* in it and done with: all but its last.
LEMMA ChargeEmits ==
  ASSUME NEW S \in Seq(Bytes), NEW R \in Seq(Bytes), NEW x \in Nat,
         NEW c \in SUBSET Numbers, Without(S, R, 0, x, c), StreamInv(S, c), Charged(S, c),
         NEW text \in Seq(Bytes), text # <<>>, Len(text) <= x,
         \A i \in 1..Len(text) : text[i] = S[i] /\ ~Newline(text[i]),
         said[text[1].line].routine, UNCHANGED <<at, todo, lines, said>>,
         lines \in Nat, lines <= MaxLines, swallowed \subseteq Numbers,
         swallowed' = swallowed \cup {n \in LinesIn(text) : ~said[n].routine}
  PROVE  Charged(R, c)'
<1> DEFINE k == Len(text)
           L == LinesIn(text)
           z == text[k].line
           r == text[1].line
           A == {n \in c : Past(n, S)}
           B == {n \in c : Past(n, R)'}
<1>1. k \in Nat /\ k >= 1 /\ k \in 1..k /\ 1 \in 1..k /\ k <= Len(S) /\ Len(S) \in Nat /\ Len(R) \in Nat
  BY EmptySeq, LenProperties DEF Without
<1>2. /\ L \in SUBSET Numbers /\ r \in L /\ z \in L
      /\ \A n \in L : n \in 1..lines /\ \E i \in 1..k : i \in 1..Len(S) /\ S[i].line = n
  <2>1. \A i \in 1..k : i \in 1..Len(S) /\ text[i] = S[i]
    BY <1>1
  <2>2. \A n \in L : \E i \in 1..k : text[i].line = n
    BY LinesOf
  <2>3. \A i \in 1..k : S[i].line \in 1..lines
    BY <2>1 DEF StreamInv, Known
  <2>4. 1..lines \subseteq Numbers
    BY RingAssumption DEF Numbers
  <2>5. r \in L /\ z \in L
    BY <1>1, LinesOf
  <2> QED
    BY <2>1, <2>2, <2>3, <2>4, <2>5, SMTT(60)
<1> HIDE DEF L
<1>3. ASSUME NEW n \in L, n # z PROVE n \in c /\ Past(n, R)' /\ ~Past(n, S)
  <2>1. PICK i \in 1..k : i \in 1..Len(S) /\ S[i].line = n
    BY <1>2
  <2>2. k \in 1..Len(S) /\ S[k].line = z /\ i < k
    BY <1>1, <1>3, <2>1
  <2>3. n \in c
    <3>1. n \in c \/ EndsIn(S, i, k - 1)
      BY <1>3, <2>1, <2>2 DEF StreamInv, Separate
    <3>2. \A j \in i..(k - 1) : ~Newline(S[j])
      BY <1>1, <2>1
    <3> QED
      BY <3>1, <3>2 DEF EndsIn
  <2>4. ASSUME NEW j \in 1..Len(S), k < j PROVE S[j].line # n
    BY <1>3, <2>1, <2>2, <2>4 DEF StreamInv, Together
  <2>5. ASSUME NEW j \in 1..Len(R) PROVE R[j].line # n
    <3>1. R[j] = S[j + x] /\ j + x \in 1..Len(S)
      BY <1>1, SMTT(60) DEF Without
    <3>2. k < j + x
      BY <1>1
    <3> QED
      BY <2>4, <3>1, <3>2
  <2>6. ASSUME NEW t \in Tasks, InHook(t) PROVE todo[t].line # n
    <3>1. CASE at[t] = "lock"
      BY <2>1, <3>1 DEF StreamInv, Waiting
    <3>2. CASE at[t] = "put"
      <4> SUFFICES ASSUME todo[t].line = n PROVE FALSE
        OBVIOUS
      <4>1. S[Len(S)].line = n
        BY <2>1, <3>2 DEF StreamInv, Putting
      <4>2. Len(S) = k \/ k < Len(S)
        BY <1>1
      <4>3. Len(S) \in 1..Len(S)
        BY <1>1
      <4> QED
        BY <1>3, <2>2, <2>4, <4>1, <4>2, <4>3
    <3> QED
      BY <2>6, <3>1, <3>2 DEF InHook
  <2>7. Past(n, R)'
    BY <1>2, <2>5, <2>6 DEF Past, InHook
  <2>8. ~Past(n, S)
    BY <2>1 DEF Past
  <2> QED
    BY <2>3, <2>7, <2>8
<1>4. \A n \in Numbers : Past(n, S) => Past(n, R)'
  <2> SUFFICES ASSUME NEW n \in Numbers, Past(n, S) PROVE Past(n, R)'
    OBVIOUS
  <2>1. \A j \in 1..Len(R) : R[j] = S[j + x] /\ j + x \in 1..Len(S)
    BY <1>1 DEF Without
  <2> QED
    BY <2>1 DEF Past, InHook
<1>5. /\ A \in SUBSET Numbers /\ B \in SUBSET Numbers /\ L \ {z} \in SUBSET Numbers
      /\ L \ {r} \in SUBSET Numbers /\ A \cup (L \ {z}) \in SUBSET B
      /\ A \cap (L \ {z}) = {}
  BY <1>2, <1>3, <1>4
<1>6. swallowed' \in SUBSET (swallowed \cup (L \ {r})) /\ swallowed \cup (L \ {r}) \in SUBSET Numbers
  BY <1>2, <1>5 DEF L
<1>7. Cardinality(swallowed) <= Cardinality(A)
  BY DEF Charged
<1> HIDE DEF A, B, z, r, k
<1>8. /\ IsFiniteSet(A) /\ IsFiniteSet(B) /\ IsFiniteSet(L) /\ IsFiniteSet(swallowed)
      /\ IsFiniteSet(L \ {z}) /\ IsFiniteSet(L \ {r})
      /\ Cardinality(A) \in Nat /\ Cardinality(B) \in Nat /\ Cardinality(L) \in Nat
      /\ Cardinality(swallowed) \in Nat
  BY <1>2, <1>5, FewNumbers
<1>9. Cardinality(L \ {z}) = Cardinality(L) - 1 /\ Cardinality(L \ {r}) = Cardinality(L) - 1
  BY <1>2, <1>8, FS_RemoveElement
<1>10. Cardinality(A \cup (L \ {z})) = Cardinality(A) + (Cardinality(L) - 1)
  <2>1. Cardinality(A \cup (L \ {z}))
          = Cardinality(A) + Cardinality(L \ {z}) - Cardinality(A \cap (L \ {z}))
    BY <1>8, FS_Union
  <2>2. Cardinality(A \cap (L \ {z})) = 0
    BY <1>5, FS_EmptySet
  <2> QED
    BY <1>8, <1>9, <2>1, <2>2
<1>11. Cardinality(swallowed \cup (L \ {r})) <= Cardinality(swallowed) + (Cardinality(L) - 1)
  <2> DEFINE M == swallowed \cap (L \ {r})
  <2>1. Cardinality(swallowed \cup (L \ {r}))
          = Cardinality(swallowed) + Cardinality(L \ {r}) - Cardinality(M)
    BY <1>8, FS_Union
  <2>2. M \in SUBSET Numbers
    BY <1>5
  <2>3. Cardinality(M) \in Nat
    BY <2>2, FewNumbers
  <2> HIDE DEF M
  <2> QED
    BY <1>8, <1>9, <2>1, <2>3
<1>12. Cardinality(swallowed') <= Cardinality(swallowed \cup (L \ {r}))
  BY <1>6, NotMore
<1>13. Cardinality(A \cup (L \ {z})) <= Cardinality(B)
  BY <1>5, NotMore
<1>14. Cardinality(swallowed') \in Nat /\ Cardinality(swallowed \cup (L \ {r})) \in Nat
  <2>1. swallowed' \in SUBSET Numbers
    BY <1>6
  <2> QED
    BY <1>6, <2>1, FewNumbers
<1>15. Cardinality(swallowed') <= Cardinality(B)
  BY <1>7, <1>8, <1>10, <1>11, <1>12, <1>13, <1>14
<1> QED
  BY <1>15 DEF Charged, B

-----------------------------------------------------------------------------
(* Pieces of the stream.                                                   *)

LEMMA CutOut ==
  ASSUME NEW A \in Seq(Bytes), NEW X \in Seq(Bytes), NEW B \in Seq(Bytes), NEW d,
         A = <<>> \/ LinesIn(X) \subseteq d
  PROVE  /\ A \o (X \o B) \in Seq(Bytes) /\ A \o B \in Seq(Bytes)
         /\ Without(A \o (X \o B), A \o B, Len(A), Len(X), d)
         /\ Len(A) \in Nat /\ Len(X) \in Nat
<1> DEFINE a == Len(A)
           x == Len(X)
           b == Len(B)
           V == X \o B
           S == A \o V
           R == A \o B
<1>1. /\ a \in Nat /\ x \in Nat /\ b \in Nat
      /\ V \in Seq(Bytes) /\ Len(V) = x + b
      /\ \A i \in 1..(x + b) : V[i] = IF i <= x THEN X[i] ELSE B[i - x]
  BY ConcatProperties, LenProperties
<1> HIDE DEF V
<1>2. /\ S \in Seq(Bytes) /\ Len(S) = a + (x + b)
      /\ \A i \in 1..(a + (x + b)) : S[i] = IF i <= a THEN A[i] ELSE V[i - a]
      /\ R \in Seq(Bytes) /\ Len(R) = a + b
      /\ \A i \in 1..(a + b) : R[i] = IF i <= a THEN A[i] ELSE B[i - a]
  <2>1. /\ A \o V \in Seq(Bytes) /\ Len(A \o V) = Len(A) + Len(V)
        /\ \A i \in 1..(Len(A) + Len(V)) : (A \o V)[i] = IF i <= Len(A) THEN A[i] ELSE V[i - Len(A)]
    <3>1. V \in Seq(Bytes)
      BY <1>1
    <3> QED
      BY <3>1, ConcatProperties
  <2>2. /\ A \o B \in Seq(Bytes) /\ Len(A \o B) = Len(A) + Len(B)
        /\ \A i \in 1..(Len(A) + Len(B)) : (A \o B)[i] = IF i <= Len(A) THEN A[i] ELSE B[i - Len(A)]
    BY ConcatProperties
  <2> QED
    BY <1>1, <2>1, <2>2
<1>3. A = <<>> => a = 0
  BY EmptySeq
<1> HIDE DEF a, x, b, S, R
<1>4. ASSUME NEW i \in 1..(a + b) PROVE R[i] = S[IF i <= a THEN i ELSE i + x]
  <2>1. CASE i <= a
    <3>1. i \in 1..(a + (x + b))
      BY <1>1
    <3> QED
      BY <1>2, <2>1, <3>1
  <2>2. CASE ~(i <= a)
    <3>1. /\ i + x \in 1..(a + (x + b)) /\ ~(i + x <= a)
          /\ (i + x) - a \in 1..(x + b) /\ ~((i + x) - a <= x) /\ ((i + x) - a) - x = i - a
      BY <1>1, <2>2
    <3>2. S[i + x] = V[(i + x) - a]
      BY <1>2, <3>1
    <3>3. V[(i + x) - a] = B[((i + x) - a) - x]
      BY <1>1, <3>1
    <3> QED
      BY <1>2, <2>2, <3>1, <3>2, <3>3
  <2> QED
    BY <2>1, <2>2
<1>5. ASSUME NEW i \in (a + 1)..(a + x) PROVE S[i].line \in LinesIn(X)
  <2>1. i \in 1..(a + (x + b)) /\ ~(i <= a) /\ i - a \in 1..(x + b) /\ i - a <= x /\ i - a \in 1..x
    BY <1>1
  <2>2. S[i] = X[i - a]
    <3>1. S[i] = V[i - a]
      BY <1>2, <2>1
    <3>2. V[i - a] = X[i - a]
      BY <1>1, <2>1
    <3> QED
      BY <3>1, <3>2
  <2> QED
    BY <2>1, <2>2, LinesOf DEF x
<1>6. Len(S) = Len(R) + x /\ a <= Len(R) /\ a + b = Len(R)
  BY <1>1, <1>2
<1>7. Without(S, R, a, x, d)
  BY <1>3, <1>4, <1>5, <1>6 DEF Without
<1> QED
  BY <1>1, <1>2, <1>7 DEF a, x, S, R, V

LEMMA Appended ==
  ASSUME NEW A \in Seq(Bytes), NEW B \in Seq(Bytes), NEW b \in Bytes
  PROVE  A \o Append(B, b) = Append(A \o B, b)
<1>1. /\ <<b>> \in Seq(Bytes) /\ A \o B \in Seq(Bytes)
      /\ Append(B, b) = B \o <<b>> /\ Append(A \o B, b) = (A \o B) \o <<b>>
  BY ConcatProperties
<1> QED
  BY <1>1, ConcatAssociative

LEMMA OneMore ==
  ASSUME NEW A \in Seq(Bytes), NEW b \in Bytes
  PROVE  \A i \in 1..Len(Append(A, b)) :
           Append(A, b)[i] = b \/ \E j \in 1..Len(A) : Append(A, b)[i] = A[j]
<1>1. /\ Len(Append(A, b)) = Len(A) + 1 /\ Len(A) \in Nat /\ Append(A, b)[Len(A) + 1] = b
      /\ \A j \in 1..Len(A) : Append(A, b)[j] = A[j]
  BY AppendProperties, LenProperties
<1>2. \A i \in 1..(Len(A) + 1) : i \in 1..Len(A) \/ i = Len(A) + 1
  BY <1>1
<1> QED
  BY <1>1, <1>2

-----------------------------------------------------------------------------
(* The stream as a whole.                                                  *)

\* What is under way: what the relay has, the datagrams, what the sender has, the ring.
Under(Y, F, C, B) == Y \o (F \o (C \o B))
Before(Y, F, C) == Y \o (F \o C)
\* Concatenation, by a name the provers leave alone.
Then(A, B) == A \o B
Longer(A, b) == Append(A, b)

LEMMA UnderBefore ==
  ASSUME NEW Y \in Seq(Bytes), NEW F \in Seq(Bytes), NEW C \in Seq(Bytes), NEW B \in Seq(Bytes)
  PROVE  /\ Under(Y, F, C, B) = Then(Before(Y, F, C), B)
         /\ Under(Y, F, C, B) \in Seq(Bytes) /\ Before(Y, F, C) \in Seq(Bytes)
<1>1. F \o C \in Seq(Bytes) /\ C \o B \in Seq(Bytes)
  BY ConcatProperties
<1>2. Y \o (F \o C) \in Seq(Bytes) /\ F \o (C \o B) \in Seq(Bytes)
  BY <1>1, ConcatProperties
<1>3. F \o (C \o B) = (F \o C) \o B
  BY ConcatAssociative, SMTT(60)
<1>4. Y \o ((F \o C) \o B) = (Y \o (F \o C)) \o B
  BY <1>1, ConcatAssociative, SMTT(60)
<1>5. Y \o (F \o (C \o B)) \in Seq(Bytes)
  BY <1>2, ConcatProperties
<1> QED
  BY <1>2, <1>3, <1>4, <1>5 DEF Under, Before, Then

LEMMA UnderGrows ==
  ASSUME NEW Y \in Seq(Bytes), NEW F \in Seq(Bytes), NEW C \in Seq(Bytes), NEW B \in Seq(Bytes),
         NEW b \in Bytes
  PROVE  Under(Y, F, C, Longer(B, b)) = Longer(Under(Y, F, C, B), b)
<1>1. C \o B \in Seq(Bytes) /\ C \o Append(B, b) = Append(C \o B, b)
  BY ConcatProperties, Appended
<1>2. F \o (C \o B) \in Seq(Bytes) /\ F \o Append(C \o B, b) = Append(F \o (C \o B), b)
  BY <1>1, ConcatProperties, Appended
<1>3. Y \o Append(F \o (C \o B), b) = Append(Y \o (F \o (C \o B)), b)
  BY <1>2, Appended
<1> QED
  BY <1>1, <1>2, <1>3 DEF Under, Longer

\* The relay has received a datagram, or looked at a part of it.
LEMMA UnderReceived ==
  ASSUME NEW Y \in Seq(Bytes), NEW H \in Seq(Bytes), NEW G \in Seq(Bytes),
         NEW C \in Seq(Bytes), NEW B \in Seq(Bytes)
  PROVE  /\ Under(Y, Then(H, G), C, B) = Under(Then(Y, H), G, C, B)
         /\ Under(Then(Y, H), G, C, B) = Then(Y, Under(H, G, C, B))
<1> DEFINE W == C \o B
           V == G \o W
<1>1. W \in Seq(Bytes)
  BY ConcatProperties
<1> HIDE DEF W
<1>2. V \in Seq(Bytes)
  BY <1>1, ConcatProperties, SMTT(60)
<1>3. (H \o G) \o W = H \o V
  BY <1>1, ConcatAssociative, SMTT(60)
<1> HIDE DEF V
<1>4. (Y \o H) \o V = Y \o (H \o V)
  BY <1>2, ConcatAssociative, SMTT(60)
<1>5. Under(Y, Then(H, G), C, B) = Y \o ((H \o G) \o W)
  BY DEF Under, Then, W
<1>6. Under(Then(Y, H), G, C, B) = (Y \o H) \o V
  BY DEF Under, Then, V, W
<1>7. Then(Y, Under(H, G, C, B)) = Y \o (H \o V)
  BY DEF Under, Then, V, W
<1> QED
  BY <1>3, <1>4, <1>5, <1>6, <1>7, Zenon

\* The sender's bytes have become a datagram, or have gone.
LEMMA UnderSent ==
  ASSUME NEW Y \in Seq(Bytes), NEW F \in Seq(Bytes), NEW C \in Seq(Bytes), NEW B \in Seq(Bytes)
  PROVE  /\ Under(Y, Then(F, C), <<>>, B) = Under(Y, F, C, B)
         /\ Under(Y, F, <<>>, B) = Then(Then(Y, F), B)
         /\ Under(Y, F, C, B) = Then(Then(Y, F), Then(C, B))
         /\ Then(Y, F) \in Seq(Bytes) /\ Then(C, B) \in Seq(Bytes)
<1> DEFINE W == C \o B
<1>1. W \in Seq(Bytes) /\ <<>> \o B = B /\ Y \o F \in Seq(Bytes)
  BY ConcatProperties, ConcatEmptySeq
<1>2. (F \o C) \o B = F \o W
  BY ConcatAssociative, SMTT(60)
<1> HIDE DEF W
<1>3. (Y \o F) \o B = Y \o (F \o B)
  BY ConcatAssociative, SMTT(60)
<1>4. (Y \o F) \o W = Y \o (F \o W)
  BY <1>1, ConcatAssociative, SMTT(60)
<1>5. /\ Under(Y, F \o C, <<>>, B) = Y \o ((F \o C) \o (<<>> \o B))
      /\ Under(Y, F, <<>>, B) = Y \o (F \o (<<>> \o B))
      /\ Under(Y, F, C, B) = Y \o (F \o W)
  BY DEF Under, W
<1> QED
  BY <1>1, <1>2, <1>3, <1>4, <1>5 DEF W, Then

LEMMA UnderNothing ==
  ASSUME NEW C \in Seq(Bytes), NEW B \in Seq(Bytes)
  PROVE  Under(<<>>, <<>>, C, B) = Then(C, B)
<1>1. C \o B \in Seq(Bytes)
  BY ConcatProperties
<1> QED
  BY <1>1, ConcatEmptySeq DEF Under, Then

LEMMA ThenThen ==
  ASSUME NEW A \in Seq(Bytes), NEW B \in Seq(Bytes), NEW C \in Seq(Bytes)
  PROVE  Then(Then(A, B), C) = Then(A, Then(B, C))
BY ConcatAssociative DEF Then

-----------------------------------------------------------------------------
(* Every step keeps the order.                                             *)

SinkInv == TypeOK /\ RingIsLocked /\ WholeInv

StreamIs(S) ==
  \E F \in Seq(Bytes) : Joined(mail, F) /\ S = Under(tail \o rest, F, chunk, Backlog)

PathTypes ==
  /\ SaidOK
  /\ mail \in Seq(Seq(Bytes)) /\ Len(mail) <= Datagrams
  /\ rest \in Seq(Bytes) /\ tail \in Seq(Bytes)

InOrder(S, c) ==
  c = cut /\ StreamIs(S) /\ StreamInv(S, c) /\ Charged(S, c) /\ HookOK(c)

PathInv ==
  /\ PathTypes
  /\ cut \subseteq 1..lines /\ swallowed \subseteq 1..lines
  /\ \A i \in 1..Len(tail) : ~Newline(tail[i])
  /\ \E S \in Seq(Bytes), c \in SUBSET Numbers : InOrder(S, c)

LEMMA SinkFacts ==
  ASSUME SinkInv
  PROVE  /\ chunk \in Seq(Bytes) /\ Backlog \in Seq(Bytes) /\ lines \in Nat
         /\ 1..lines \subseteq Numbers
<1>1. lines \in Nat /\ 1..lines \subseteq Numbers
  BY RingAssumption DEF SinkInv, TypeOK, Numbers
<1> QED
  BY <1>1, BacklogIsSeq DEF SinkInv, TypeOK

LEMMA SameStream ==
  ASSUME NEW S \in Seq(Bytes), NEW d
  PROVE  Without(S, S, 0, 0, d)
BY LenProperties DEF Without

\* What was under way goes, or goes on, and no task does anything to its line.
LEMMA MovesOn ==
  ASSUME SinkInv, UNCHANGED <<at, todo, lines, said>>,
         NEW S \in Seq(Bytes), NEW R \in Seq(Bytes), NEW a \in Nat, NEW x \in Nat,
         NEW c \in SUBSET Numbers, NEW d \in SUBSET Numbers, InOrder(S, c), c \subseteq d,
         d = cut', Without(S, R, a, x, d), StreamIs(R)',
         swallowed' # swallowed => Charged(R, d)', swallowed \subseteq 1..lines
  PROVE  InOrder(R, d)'
<1>1. StreamInv(R, d)
  BY StreamWithout DEF InOrder
<1>2. \A b \in Bytes : Newline(b)' <=> Newline(b)
  BY DEF Newline
<1>3. \A i \in 1..Len(R) : R[i] \in Bytes
  BY ElementOfSeq
<1>4. lines \in Nat
  BY SinkFacts
<1>5. StreamInv(R, d)'
  BY <1>1, <1>2, <1>3, <1>4, StreamAside
<1>6. HookOK(d)'
  BY DEF InOrder, HookOK, InHook
<1>7. Charged(R, d)'
  <2> SUFFICES ASSUME swallowed' = swallowed PROVE Charged(R, d)'
    OBVIOUS
  <2>1. ASSUME NEW n \in Numbers, Past(n, S) PROVE Past(n, R)'
    <3>1. \A i \in 1..Len(R) : \E j \in 1..Len(S) : R[i] = S[j]
      BY LenProperties DEF Without
    <3> QED
      BY <2>1, <3>1 DEF Past, InHook
  <2>2. swallowed \subseteq Numbers
    BY SinkFacts
  <2> QED
    BY <2>1, <2>2, ChargeStays DEF InOrder
<1> QED
  BY <1>5, <1>6, <1>7 DEF InOrder

\* What the relay had first has gone.
LEMMA FrontGone ==
  ASSUME NEW X \in Seq(Bytes), NEW B \in Seq(Bytes), NEW d
  PROVE  X \o B \in Seq(Bytes) /\ Without(X \o B, B, 0, Len(X), d) /\ Len(X) \in Nat
<1>1. /\ <<>> \in Seq(Bytes) /\ X \o B \in Seq(Bytes) /\ Len(<<>>) = 0
      /\ <<>> \o (X \o B) = X \o B /\ <<>> \o B = B
  BY EmptySeq, ConcatProperties, ConcatEmptySeq
<1>2. Without(<<>> \o (X \o B), <<>> \o B, Len(<<>>), Len(X), d) /\ Len(X) \in Nat
  BY <1>1, CutOut
<1> QED
  BY <1>1, <1>2

-----------------------------------------------------------------------------
(* On the stick.                                                           *)

LEMMA Speaks ==
  ASSUME SinkInv, PathInv, NEW t \in Tasks, SaysLine(t)
  PROVE  PathInv'
<1>1. PICK len \in Lengths, routine \in BOOLEAN :
        /\ Format(t, len)
        /\ said' = [said EXCEPT ![lines + 1] = [len |-> len, routine |-> routine]]
        /\ cut' = IF len < THBR_LINE_MAX THEN cut ELSE cut \cup {lines + 1}
  BY DEF SaysLine
<1>2. PICK S \in Seq(Bytes), c \in SUBSET Numbers : InOrder(S, c)
  BY DEF PathInv
<1>3. PICK F \in Seq(Bytes) : Joined(mail, F) /\ S = Under(tail \o rest, F, chunk, Backlog)
  BY <1>2 DEF InOrder, StreamIs
<1>4. /\ UNCHANGED <<mail, rest, tail, swallowed, chunk>> /\ Backlog' = Backlog
      /\ lines' = lines + 1 /\ lines \in Nat /\ lines + 1 \in Numbers
      /\ cut \subseteq 1..lines /\ swallowed \subseteq 1..lines
      /\ 1..lines \subseteq Numbers /\ Numbers \subseteq Nat
  BY <1>1, SinkFacts, BacklogUnfolds, RingAssumption
     DEF SaysLine, Format, relayVars, ringVars, PathInv, Numbers
<1>5. /\ todo'[t] = [line |-> lines + 1, pos |-> 1, len |-> Kept(len)]
      /\ at'[t] \in {"lock", "mirror"}
      /\ \A u \in Tasks : u # t => todo'[u] = todo[u] /\ at'[u] = at[u]
      /\ at[t] = "idle"
  BY <1>1 DEF Format, SinkInv, TypeOK
<1>6. /\ said'[lines + 1] = [len |-> len, routine |-> routine]
      /\ \A n \in 1..lines : said'[n] = said[n]
  BY <1>1, <1>4 DEF PathInv, PathTypes, SaidOK
<1>7. PICK d \in SUBSET Numbers : d = cut' /\ c \subseteq d /\ d \subseteq 1..lines'
  <2>1. cut' \subseteq Numbers /\ cut \subseteq cut' /\ cut' \subseteq 1..lines'
    <3>1. lines + 1 \in 1..lines' /\ 1..lines \subseteq 1..lines'
      BY <1>4
    <3> QED
      BY <1>1, <1>4, <3>1
  <2> QED
    BY <1>2, <2>1 DEF InOrder
<1>8. \A i \in 1..Len(S) : S[i].line \in 1..lines /\ S[i].line # lines + 1
  BY <1>2, <1>4 DEF InOrder, StreamInv, Known
<1>9. \A i \in 1..Len(S) : Newline(S[i])' <=> Newline(S[i])
  BY <1>6, <1>8 DEF Newline
<1>10. StreamInv(S, d)'
  <2>1. \A u \in Tasks : at'[u] = "put" => at[u] \in {"lock", "put"} /\ todo'[u] = todo[u]
    BY <1>5
  <2>2. \A u \in Tasks : at'[u] = "lock" => \/ at[u] = "lock" /\ todo'[u] = todo[u]
                                            \/ \A i \in 1..Len(S) : S[i].line # todo'[u].line
    BY <1>5, <1>8
  <2>3. \A u \in Tasks : at[u] = "put" => at'[u] = "put"
    BY <1>5
  <2>4. lines' \in Nat /\ lines <= lines'
    BY <1>4
  <2> QED
    BY <1>2, <1>4, <1>7, <1>9, <2>1, <2>2, <2>3, <2>4, StreamAside DEF InOrder
<1>11. HookOK(d)'
  <2> SUFFICES ASSUME NEW u \in Tasks, InHook(u)'
               PROVE  /\ todo'[u].line \in 1..lines'
                      /\ todo'[u].len = Kept(said'[todo'[u].line].len)
                      /\ todo'[u].pos <= todo'[u].len + 1
                      /\ said'[todo'[u].line].len >= THBR_LINE_MAX => todo'[u].line \in d
    BY DEF HookOK
  <2>1. CASE u = t
    <3>1. Kept(len) \in Nat
      BY LengthAssumption, KeptFits
    <3>2. len \in Nat /\ THBR_LINE_MAX \in Nat
      BY LengthAssumption, RingAssumption
    <3>3. len >= THBR_LINE_MAX => lines + 1 \in d
      BY <1>1, <1>7, <3>2
    <3>4. lines + 1 \in 1..lines'
      BY <1>4
    <3> QED
      BY <1>5, <1>6, <2>1, <3>1, <3>3, <3>4
  <2>2. CASE u # t
    <3>1. InHook(u) /\ todo'[u] = todo[u]
      BY <1>5, <2>2 DEF InHook
    <3>2. /\ todo[u].line \in 1..lines
          /\ todo[u].len = Kept(said[todo[u].line].len)
          /\ todo[u].pos <= todo[u].len + 1
          /\ said[todo[u].line].len >= THBR_LINE_MAX => todo[u].line \in c
      BY <1>2, <3>1 DEF InOrder, HookOK
    <3>3. todo[u].line \in 1..lines'
      BY <1>4, <3>2
    <3> QED
      BY <1>6, <1>7, <3>1, <3>2, <3>3
  <2> QED
    BY <2>1, <2>2
<1>12. Charged(S, d)'
  <2>1. ASSUME NEW n \in Numbers, Past(n, S) PROVE Past(n, S)'
    <3>1. n \in 1..lines /\ n # lines + 1 /\ n \in 1..lines'
      BY <1>4, <2>1 DEF Past
    <3> QED
      BY <1>5, <2>1, <3>1 DEF Past, InHook
  <2>2. swallowed \subseteq Numbers
    BY <1>4
  <2> QED
    BY <1>2, <1>4, <1>7, <2>1, <2>2, ChargeStays DEF InOrder
<1>13. StreamIs(S)'
  BY <1>3, <1>4 DEF StreamIs
<1>14. InOrder(S, d)'
  BY <1>7, <1>10, <1>11, <1>12, <1>13 DEF InOrder
<1>15. PathTypes'
  <2>1. said' \in [Numbers -> [len : Lengths \cup {0}, routine : BOOLEAN]]
    BY <1>1, <1>4 DEF PathInv, PathTypes, SaidOK
  <2> QED
    BY <1>4, <2>1 DEF PathInv, PathTypes, SaidOK
<1>16. (\A i \in 1..Len(tail) : ~Newline(tail[i]))'
  <2>1. ASSUME NEW i \in 1..Len(tail) PROVE tail[i].line \in 1..lines
    <3>1. /\ tail \in Seq(Bytes) /\ rest \in Seq(Bytes) /\ chunk \in Seq(Bytes)
          /\ Backlog \in Seq(Bytes)
      BY SinkFacts DEF PathInv, PathTypes
    <3>2. PICK V \in Seq(Bytes) : S = tail \o V
      <4>1. PICK Y \in Seq(Bytes), H \in Seq(Bytes), C \in Seq(Bytes), B \in Seq(Bytes) :
              Y = tail /\ H = rest /\ C = chunk /\ B = Backlog
        BY <3>1
      <4>2. Under(Then(Y, H), F, C, B) = Then(Y, Under(H, F, C, B))
        BY UnderReceived
      <4>3. Under(H, F, C, B) \in Seq(Bytes)
        BY UnderBefore
      <4> QED
        BY <1>3, <4>1, <4>2, <4>3 DEF Then
    <3>3. S[i] = tail[i] /\ i \in 1..Len(S)
      BY <3>1, <3>2, ConcatProperties, LenProperties
    <3> QED
      BY <1>8, <3>3
  <2> QED
    BY <1>4, <1>6, <2>1 DEF PathInv, Newline
<1> QED
  BY <1>4, <1>7, <1>14, <1>15, <1>16 DEF PathInv

LEMMA Puts ==
  ASSUME SinkInv, PathInv, NEW t \in Tasks, PutsByte(t)
  PROVE  PathInv'
<1>1. /\ PutByte(t) /\ UNCHANGED <<said, mail, rest, tail, swallowed, chunk, lines, at>>
      /\ cut' = IF s_tail' # s_tail THEN cut \cup {s_ring[s_tail].line} ELSE cut
  BY DEF PutsByte, PutByte, relayVars
<1>2. PICK S \in Seq(Bytes), c \in SUBSET Numbers : InOrder(S, c)
  BY DEF PathInv
<1>3. PICK F \in Seq(Bytes) : Joined(mail, F) /\ S = Under(tail \o rest, F, chunk, Backlog)
  BY <1>2 DEF InOrder, StreamIs
<1>4. /\ chunk \in Seq(Bytes) /\ Backlog \in Seq(Bytes) /\ tail \o rest \in Seq(Bytes)
      /\ lines \in Nat /\ 1..lines \subseteq Numbers
      /\ cut \subseteq 1..lines /\ swallowed \subseteq 1..lines
  BY SinkFacts, ConcatProperties DEF PathInv, PathTypes
<1>5. /\ ByteOf(t) \in Bytes
      /\ Len(Backlog) < RING_SIZE - 1 => Backlog' = Append(Backlog, ByteOf(t))
      /\ ~(Len(Backlog) < RING_SIZE - 1) => Backlog' = Append(Tail(Backlog), ByteOf(t))
  BY <1>1, PutByteAppends DEF SinkInv
<1>6. /\ ~(Len(Backlog) < RING_SIZE - 1) => s_tail' # s_tail
      /\ s_tail' # s_tail => Backlog # <<>> /\ Head(Backlog) = s_ring[s_tail]
  <2>1. /\ s_ring \in [Cells -> Bytes] /\ s_head \in Cells /\ s_tail \in Cells
        /\ RING_SIZE \in Nat /\ RING_SIZE > 1
        /\ s_tail' = IF After(s_head) = s_tail THEN After(s_tail) ELSE s_tail
    BY <1>1, RingAssumption DEF SinkInv, TypeOK, PutByte, TailAfterPut
  <2>2. /\ After(s_head) = (IF s_head = RING_SIZE - 1 THEN 0 ELSE s_head + 1)
        /\ After(s_tail) = (IF s_tail = RING_SIZE - 1 THEN 0 ELSE s_tail + 1)
        /\ s_head \in 0..(RING_SIZE - 1) /\ s_tail \in 0..(RING_SIZE - 1)
    BY <2>1, AfterIsCell DEF Cells
  <2>3. /\ Len(Backlog) = FilledOf(s_head, s_tail)
        /\ FilledOf(s_head, s_tail)
             = IF s_head >= s_tail THEN s_head - s_tail ELSE s_head + RING_SIZE - s_tail
    BY <2>1, BacklogUnfolds, BacklogValue, FilledValue
  <2>4. ~(Len(Backlog) < RING_SIZE - 1) => After(s_head) = s_tail
    BY <2>1, <2>2, <2>3
  <2>5. After(s_tail) # s_tail /\ After(s_head) # s_head
    BY <2>1, <2>2
  <2>6. s_head # s_tail => Backlog # <<>> /\ Head(Backlog) = s_ring[s_tail]
    BY <2>1, BacklogUnfolds, GetFromBacklog
  <2> QED
    BY <2>1, <2>4, <2>5, <2>6
<1>7. s_tail' # s_tail => s_ring[s_tail].line \in 1..lines
  <2> SUFFICES ASSUME Backlog # <<>> PROVE Head(Backlog).line \in 1..lines
    BY <1>6
  <2>2. PICK A \in Seq(Bytes) : S = A \o Backlog
    <3>1. PICK Y \in Seq(Bytes), C \in Seq(Bytes), B \in Seq(Bytes) :
            Y = tail \o rest /\ C = chunk /\ B = Backlog
      BY <1>4
    <3>2. Under(Y, F, C, B) = Then(Before(Y, F, C), B) /\ Before(Y, F, C) \in Seq(Bytes)
      BY UnderBefore, SMTT(60)
    <3> QED
      BY <1>3, <3>1, <3>2 DEF Then
  <2>3. /\ Len(A) \in Nat /\ Len(Backlog) \in Nat \ {0} /\ Head(Backlog) = Backlog[1]
        /\ Len(S) = Len(A) + Len(Backlog)
        /\ \A i \in 1..(Len(A) + Len(Backlog)) : S[i] = IF i <= Len(A) THEN A[i] ELSE Backlog[i - Len(A)]
    BY <1>4, <2>2, ConcatProperties, LenProperties, EmptySeq
  <2>4. /\ Len(A) + 1 \in 1..Len(S) /\ ~(Len(A) + 1 <= Len(A)) /\ (Len(A) + 1) - Len(A) = 1
    BY <2>3
  <2>5. S[Len(A) + 1] = Head(Backlog)
    BY <2>3, <2>4
  <2> QED
    BY <1>2, <2>4, <2>5 DEF InOrder, StreamInv, Known
<1>8. PICK d \in SUBSET Numbers : d = cut' /\ c \subseteq d /\ d \subseteq 1..lines
  BY <1>1, <1>2, <1>4, <1>7 DEF InOrder
<1>9. PICK b \in Bytes : b = ByteOf(t)
  BY <1>5
\* A full ring loses its oldest byte first.
<1>10. PICK K \in Seq(Bytes), a \in Nat, x \in Nat :
         /\ Backlog' = Append(K, b)
         /\ Under(tail \o rest, F, chunk, K) \in Seq(Bytes)
         /\ Without(S, Under(tail \o rest, F, chunk, K), a, x, d)
  <2>1. CASE Len(Backlog) < RING_SIZE - 1
    <3>1. Without(S, S, 0, 0, d) /\ Backlog' = Append(Backlog, b)
      BY <1>5, <1>9, <2>1, SameStream
    <3> QED
      BY <1>3, <1>4, <3>1
  <2>2. CASE ~(Len(Backlog) < RING_SIZE - 1)
    <3> DEFINE Y == Before(tail \o rest, F, chunk)
               T == Tail(Backlog)
               h == Head(Backlog)
    <3>1. /\ Backlog # <<>> /\ Backlog' = Append(T, b) /\ h.line \in d
          /\ h \in Bytes /\ T \in Seq(Bytes) /\ <<h>> \in Seq(Bytes)
      BY <1>1, <1>4, <1>5, <1>6, <1>8, <1>9, <2>2, HeadTailProperties
    <3>2. Backlog = <<h>> \o T
      <4>1. Append(<<>>, h) \o T = <<>> \o Backlog
        BY <1>4, <3>1, MoveOver, EmptySeq
      <4> QED
        BY <1>4, <4>1, ConcatEmptySeq
    <3>3. LinesIn(<<h>>) \subseteq d
      BY <3>1 DEF LinesIn, ToSet
    <3>4. S = Y \o Backlog /\ Y \in Seq(Bytes) /\ Under(tail \o rest, F, chunk, T) = Y \o T
      <4>1. PICK P \in Seq(Bytes), C \in Seq(Bytes), B \in Seq(Bytes), D \in Seq(Bytes) :
              P = tail \o rest /\ C = chunk /\ B = Backlog /\ D = T
        BY <1>4, <3>1
      <4>2. /\ Under(P, F, C, B) = Then(Before(P, F, C), B) /\ Before(P, F, C) \in Seq(Bytes)
            /\ Under(P, F, C, D) = Then(Before(P, F, C), D)
        BY UnderBefore
      <4> QED
        BY <1>3, <4>1, <4>2 DEF Then
    <3> HIDE DEF Y, T, h
    <3>5. /\ Without(Y \o (<<h>> \o T), Y \o T, Len(Y), Len(<<h>>), d) /\ Y \o T \in Seq(Bytes)
          /\ Len(Y) \in Nat /\ Len(<<h>>) \in Nat
      BY <3>1, <3>3, <3>4, CutOut
    <3> QED
      BY <3>1, <3>2, <3>4, <3>5
  <2> QED
    BY <2>1, <2>2
<1>11. PICK M \in Seq(Bytes) : M = Under(tail \o rest, F, chunk, K)
  BY <1>10
<1>12. StreamInv(M, d)
  BY <1>2, <1>8, <1>10, <1>11, StreamWithout DEF InOrder
<1>13. PICK R \in Seq(Bytes) : R = Append(M, b)
  BY AppendProperties
<1>14. HookOK(d)
  BY <1>2, <1>8 DEF InOrder, HookOK
<1>15. StreamInv(R, d)'
  BY <1>1, <1>9, <1>12, <1>13, <1>14, StreamAppend DEF SinkInv, WholeInv
<1>16. StreamIs(R)'
  <2>2. R = Under(tail \o rest, F, chunk, Append(K, b))
    <3>1. PICK Y \in Seq(Bytes), C \in Seq(Bytes) : Y = tail \o rest /\ C = chunk
      BY <1>4
    <3>2. Under(Y, F, C, Longer(K, b)) = Longer(Under(Y, F, C, K), b)
      BY UnderGrows
    <3> QED
      BY <1>11, <1>13, <3>1, <3>2 DEF Longer
  <2> QED
    BY <1>1, <1>3, <1>10, <2>2 DEF StreamIs
<1>17. /\ \A u \in Tasks : todo'[u].line = todo[u].line /\ todo'[u].len = todo[u].len
       /\ \A u \in Tasks : u # t => todo'[u] = todo[u]
       /\ todo'[t].pos = todo[t].pos + 1 /\ todo[t].pos <= todo[t].len
       /\ todo[t].pos \in Nat /\ todo[t].len \in Nat /\ at[t] = "put"
       /\ b.line = todo[t].line
  BY <1>1, <1>9, SMTT(60) DEF PutByte, SinkInv, TypeOK, ByteOf
<1>18. HookOK(d)'
  <2>1. ASSUME NEW u \in Tasks, InHook(u) PROVE todo'[u].pos <= todo'[u].len + 1
    <3>1. todo'[t].pos <= todo[t].len + 1
      BY <1>17, SMTT(60)
    <3>2. u # t => todo'[u].pos <= todo'[u].len + 1
      BY <1>14, <1>17, <2>1 DEF HookOK
    <3> QED
      BY <1>17, <3>1, <3>2
  <2> QED
    BY <1>1, <1>14, <1>17, <2>1 DEF HookOK, InHook
<1>19. Charged(R, d)'
  <2>1. ASSUME NEW n \in Numbers, Past(n, S) PROVE Past(n, R)'
    <3>1. \A i \in 1..Len(M) : \E j \in 1..Len(S) : M[i] = S[j]
      <4>1. Without(S, M, a, x, d)
        BY <1>10, <1>11
      <4>2. Len(S) = Len(M) + x /\ \A i \in 1..Len(M) : M[i] = S[IF i <= a THEN i ELSE i + x]
        BY <4>1 DEF Without
      <4>3. \A i \in 1..Len(M) : (IF i <= a THEN i ELSE i + x) \in 1..Len(S)
        BY <4>2, LenProperties
      <4> QED
        BY <4>2, <4>3
    <3>2. \A i \in 1..Len(R) : R[i] = b \/ \E j \in 1..Len(M) : R[i] = M[j]
      BY <1>13, OneMore
    <3>3. b.line # n
      BY <1>17, <2>1 DEF Past, InHook
    <3>4. \A i \in 1..Len(R) : R[i].line # n
      <4>1. \A j \in 1..Len(S) : S[j].line # n
        BY <2>1 DEF Past
      <4>2. ASSUME NEW i \in 1..Len(R), R[i] # b PROVE R[i].line # n
        <5>1. PICK j \in 1..Len(M) : R[i] = M[j]
          BY <3>2, <4>2
        <5>2. PICK k \in 1..Len(S) : M[j] = S[k]
          BY <3>1
        <5> QED
          BY <4>1, <5>1, <5>2
      <4> QED
        BY <3>3, <4>2
    <3>5. \A u \in Tasks : InHook(u)' => todo'[u].line # n
      BY <1>1, <1>17, <2>1 DEF Past, InHook
    <3> QED
      BY <1>1, <2>1, <3>4, <3>5 DEF Past
  <2>2. swallowed \subseteq Numbers
    BY <1>4
  <2> QED
    BY <1>1, <1>2, <1>8, <2>1, <2>2, ChargeStays DEF InOrder
<1>20. InOrder(R, d)'
  BY <1>8, <1>15, <1>16, <1>18, <1>19 DEF InOrder
<1>21. \A i \in 1..Len(tail) : ~Newline(tail[i])'
  BY <1>1 DEF PathInv, Newline
<1> QED
  BY <1>1, <1>4, <1>8, <1>20, <1>21 DEF PathInv, PathTypes, SaidOK

-----------------------------------------------------------------------------
(* Out of the stick and into the relay.                                    *)

\* A piece of the stream has only lines that were logged.
LEMMA PieceKnown ==
  ASSUME NEW A \in Seq(Bytes), NEW X \in Seq(Bytes), NEW B \in Seq(Bytes),
         Known(A \o (X \o B))
  PROVE  LinesIn(X) \subseteq 1..lines
<1> DEFINE a == Len(A)
           x == Len(X)
           V == X \o B
           S == A \o V
<1>1. /\ a \in Nat /\ x \in Nat /\ Len(B) \in Nat
      /\ V \in Seq(Bytes) /\ Len(V) = x + Len(B)
      /\ \A i \in 1..(x + Len(B)) : V[i] = IF i <= x THEN X[i] ELSE B[i - x]
  BY ConcatProperties, LenProperties
<1> HIDE DEF V
<1>2. /\ Len(S) = a + Len(V)
      /\ \A i \in 1..(a + Len(V)) : S[i] = IF i <= a THEN A[i] ELSE V[i - a]
  <2>1. V \in Seq(Bytes)
    BY <1>1
  <2> QED
    BY <2>1, ConcatProperties
<1> HIDE DEF S, a, x
<1>3. ASSUME NEW i \in 1..x PROVE X[i].line \in 1..lines
  <2>1. /\ a + i \in 1..Len(S) /\ a + i \in 1..(a + Len(V)) /\ ~(a + i <= a) /\ (a + i) - a = i
        /\ i \in 1..(x + Len(B)) /\ i <= x
    BY <1>1, <1>2
  <2>2. S[a + i] = X[i]
    BY <1>1, <1>2, <2>1
  <2>3. S[a + i].line \in 1..lines
    BY <2>1 DEF Known, S, V
  <2> QED
    BY <2>2, <2>3
<1> QED
  BY <1>3, LinesOf DEF x

LEMMA JoinedLines ==
  ASSUME NEW m \in Seq(Seq(Bytes)), NEW F \in Seq(Bytes), Joined(m, F),
         LinesIn(F) \subseteq 1..lines
  PROVE  UNION {LinesIn(text) : text \in ToSet(m)} \subseteq 1..lines
<1>1. PICK off \in [0..Len(m) -> 0..Len(F)] : Ends(m, F, off)
  BY DEF Joined
<1>2. ASSUME NEW i \in 1..Len(m) PROVE LinesIn(m[i]) \subseteq 1..lines
  <2>0. PICK text \in Seq(Bytes) : text = m[i]
    BY ElementOfSeq
  <2>1. Len(text) \in Nat /\ Len(m) \in Nat /\ Len(F) \in Nat
    BY ElementOfSeq, LenProperties
  <2>2. off[i] = off[i - 1] + Len(text) /\ \A k \in 1..Len(text) : F[off[i - 1] + k] = text[k]
    BY <1>1, <2>0 DEF Ends
  <2>3. off[i] \in 0..Len(F) /\ off[i - 1] \in 0..Len(F)
    <3>1. i \in 0..Len(m) /\ i - 1 \in 0..Len(m)
      BY <2>1
    <3> QED
      BY <3>1
  <2>4. ASSUME NEW k \in 1..Len(text) PROVE text[k].line \in 1..lines
    <3>1. off[i - 1] + k \in 1..Len(F)
      BY <2>1, <2>2, <2>3
    <3>2. F[off[i - 1] + k].line \in LinesIn(F)
      BY <3>1, LinesOf
    <3>3. F[off[i - 1] + k] = text[k]
      BY <2>2
    <3> QED
      BY <3>2, <3>3
  <2>5. \A n \in LinesIn(text) : \E k \in 1..Len(text) : text[k].line = n
    BY LinesOf
  <2>6. LinesIn(text) \subseteq 1..lines
    BY <2>4, <2>5, Zenon
  <2> QED
    BY <2>0, <2>6
<1>3. ToSet(m) = {m[i] : i \in 1..Len(m)}
  BY LenProperties DEF ToSet
<1> QED
  BY <1>2, <1>3, Zenon

\* What the steps of the relay and of the sender start from.
LEMMA Streaming ==
  ASSUME SinkInv, PathInv
  PROVE  \E S \in Seq(Bytes), F \in Seq(Bytes), Y \in Seq(Bytes), C \in Seq(Bytes),
            B \in Seq(Bytes), c \in SUBSET Numbers :
           /\ InOrder(S, c) /\ Joined(mail, F) /\ S = Under(Y, F, C, B)
           /\ Y = tail \o rest /\ C = chunk /\ B = Backlog
<1>1. PICK S \in Seq(Bytes), c \in SUBSET Numbers : InOrder(S, c)
  BY DEF PathInv
<1>2. PICK F \in Seq(Bytes) : Joined(mail, F) /\ S = Under(tail \o rest, F, chunk, Backlog)
  BY <1>1 DEF InOrder, StreamIs
<1>3. tail \o rest \in Seq(Bytes) /\ chunk \in Seq(Bytes) /\ Backlog \in Seq(Bytes)
  BY SinkFacts, ConcatProperties DEF PathInv, PathTypes
<1> QED
  BY <1>1, <1>2, <1>3

LEMMA Sends ==
  ASSUME SinkInv, PathInv, SendsOn
  PROVE  PathInv'
<1>1. PICK S \in Seq(Bytes), F \in Seq(Bytes), Y \in Seq(Bytes), C \in Seq(Bytes),
           B \in Seq(Bytes), c \in SUBSET Numbers :
        /\ InOrder(S, c) /\ Joined(mail, F) /\ S = Under(Y, F, C, B)
        /\ Y = tail \o rest /\ C = chunk /\ B = Backlog
  BY Streaming
<1>2. /\ chunk' = <<>> /\ Backlog' = B /\ tail' \o rest' = Y
      /\ UNCHANGED <<at, todo, lines, said, rest, tail, swallowed>>
      /\ \/ C = <<>> /\ UNCHANGED <<mail, cut>>
         \/ Len(mail) < Datagrams /\ mail' = Append(mail, C) /\ UNCHANGED cut
         \/ cut' = cut \cup LinesIn(C) /\ UNCHANGED mail
  BY <1>1, BacklogUnfolds DEF SendsOn, Send, ringVars, hookVars
<1>3. /\ lines \in Nat /\ 1..lines \subseteq Numbers
      /\ cut \subseteq 1..lines /\ swallowed \subseteq 1..lines /\ c = cut
      /\ mail \in Seq(Seq(Bytes)) /\ Len(mail) <= Datagrams
  BY <1>1, SinkFacts DEF PathInv, PathTypes, InOrder
<1>4. /\ Under(Y, Then(F, C), <<>>, B) = Under(Y, F, C, B)
      /\ Under(Y, F, <<>>, B) = Then(Then(Y, F), B)
      /\ Under(Y, F, C, B) = Then(Then(Y, F), Then(C, B))
      /\ Then(Y, F) \in Seq(Bytes)
  BY UnderSent
<1>5. PICK A \in Seq(Bytes) : A = Then(Y, F)
  BY <1>4
<1>6. LinesIn(C) \subseteq 1..lines
  <2>1. S = A \o (C \o B) /\ Known(S)
    BY <1>1, <1>4, <1>5 DEF InOrder, StreamInv, Then
  <2> QED
    BY <2>1, PieceKnown
<1>7. PICK d \in SUBSET Numbers : d = cut' /\ c \subseteq d /\ d \subseteq 1..lines
  BY <1>2, <1>3, <1>6
\* Nothing to send, sent, or lost.
<1>8. \E R \in Seq(Bytes), a \in Nat, x \in Nat : Without(S, R, a, x, d) /\ StreamIs(R)'
  <2>1. CASE C = <<>> /\ UNCHANGED <<mail, cut>>
    <3>1. StreamIs(S)'
      BY <1>1, <1>2, <2>1 DEF StreamIs
    <3> QED
      BY <3>1, SameStream
  <2>2. CASE mail' = Append(mail, C)
    <3>1. Joined(mail', Then(F, C))
      BY <1>1, <1>3, <2>2, JoinedMore DEF Then
    <3>2. Then(F, C) \in Seq(Bytes)
      BY ConcatProperties DEF Then
    <3>3. S = Under(tail' \o rest', Then(F, C), chunk', Backlog')
      BY <1>1, <1>2, <1>4
    <3>4. StreamIs(S)'
      BY <3>1, <3>2, <3>3 DEF StreamIs
    <3> QED
      BY <3>4, SameStream
  <2>3. CASE cut' = cut \cup LinesIn(C) /\ UNCHANGED mail
    <3>1. LinesIn(C) \subseteq d
      BY <1>7, <2>3
    <3>2. /\ A \o (C \o B) \in Seq(Bytes) /\ A \o B \in Seq(Bytes)
          /\ Without(A \o (C \o B), A \o B, Len(A), Len(C), d)
          /\ Len(A) \in Nat /\ Len(C) \in Nat
      BY <3>1, CutOut
    <3>3. S = A \o (C \o B) /\ Under(Y, F, <<>>, B) = A \o B
      BY <1>1, <1>4, <1>5 DEF Then
    <3>4. StreamIs(A \o B)'
      BY <1>1, <1>2, <2>3, <3>3 DEF StreamIs
    <3> QED
      BY <3>2, <3>3, <3>4
  <2> QED
    BY <1>2, <2>1, <2>2, <2>3
<1>9. PICK R \in Seq(Bytes), a \in Nat, x \in Nat : Without(S, R, a, x, d) /\ StreamIs(R)'
  BY <1>8
<1>10. InOrder(R, d)'
  BY <1>1, <1>2, <1>3, <1>7, <1>9, MovesOn
<1>11. mail' \in Seq(Seq(Bytes)) /\ Len(mail') <= Datagrams
  <2>1. CASE UNCHANGED mail
    BY <1>3, <2>1
  <2>2. CASE Len(mail) < Datagrams /\ mail' = Append(mail, C)
    <3>1. mail' \in Seq(Seq(Bytes)) /\ Len(mail') = Len(mail) + 1 /\ Len(mail) \in Nat
      BY <1>3, <2>2, AppendProperties, LenProperties
    <3> QED
      BY <2>2, <3>1, DatagramsAssumption
  <2> QED
    BY <1>2, <2>1, <2>2
<1>12. PathTypes'
  BY <1>2, <1>11 DEF PathInv, PathTypes, SaidOK
<1>13. \A i \in 1..Len(tail) : ~Newline(tail[i])'
  BY <1>2 DEF PathInv, Newline
<1> QED
  BY <1>2, <1>3, <1>7, <1>10, <1>12, <1>13 DEF PathInv

\* Everything else on the stick: bytes pass from the ring to the sender, and tasks take
\* the lock and leave it.
LEMMA Elsewhere ==
  ASSUME SinkInv, PathInv, OnTheStick
  PROVE  PathInv'
<1>1. PICK S \in Seq(Bytes), F \in Seq(Bytes), Y \in Seq(Bytes), C \in Seq(Bytes),
           B \in Seq(Bytes), c \in SUBSET Numbers :
        /\ InOrder(S, c) /\ Joined(mail, F) /\ S = Under(Y, F, C, B)
        /\ Y = tail \o rest /\ C = chunk /\ B = Backlog
  BY Streaming
<1>2. UNCHANGED <<said, mail, rest, tail, cut, swallowed, todo, lines>>
  BY DEF OnTheStick, relayVars, history, hookVars, Detach, LinkUp, SenderLock, GetByte,
         SenderUnlock, TryLock, Unlock, Mirror, Printed
<1>3. chunk' \o Backlog' = C \o B
  <2>1. CASE GetByte
    <3>1. Backlog # <<>> /\ Backlog' = Tail(Backlog) /\ chunk' = Append(chunk, Head(Backlog))
      BY <2>1, GetByteTakes DEF SinkInv
    <3> QED
      BY <1>1, <3>1, MoveOver
  <2>2. CASE ~GetByte
    BY <1>1, <2>2, BacklogUnfolds
       DEF OnTheStick, ringVars, Detach, LinkUp, SenderLock, SenderUnlock, TryLock, Unlock,
           Mirror, Printed
  <2> QED
    BY <2>1, <2>2
<1>4. \A t \in Tasks :
        /\ at'[t] = "put" => at[t] \in {"lock", "put"}
        /\ at'[t] = "lock" => at[t] = "lock"
        /\ at[t] = "put" => at'[t] = "put" \/ todo[t].pos > todo[t].len
  <2>1. CASE \E t \in Tasks : TryLock(t) \/ Unlock(t) \/ Mirror(t) \/ Printed(t)
    BY <2>1 DEF TryLock, Unlock, Mirror, Printed, SinkInv, TypeOK
  <2>2. CASE ~(\E t \in Tasks : TryLock(t) \/ Unlock(t) \/ Mirror(t) \/ Printed(t))
    BY <2>2 DEF OnTheStick, hookVars, Detach, LinkUp, SenderLock, GetByte, SenderUnlock
  <2> QED
    BY <2>1, <2>2
<1>5. HookOK(c) /\ StreamInv(S, c) /\ Charged(S, c) /\ c = cut /\ lines \in Nat
      /\ swallowed \subseteq Numbers /\ cut \subseteq 1..lines
  BY <1>1, SinkFacts DEF InOrder, PathInv
<1>6. \A i \in 1..Len(S) : Newline(S[i])' <=> Newline(S[i])
  BY <1>2 DEF Newline
<1>7. StreamInv(S, c)'
  <2>1. ASSUME NEW t \in Tasks, at[t] = "put", at'[t] # "put", NEW i \in 1..Len(S),
               S[i].line = todo[t].line
        PROVE  S[i].line \in c \/ EndsIn(S, i, Len(S))
    BY <1>4, <1>5, <2>1, LineEnds DEF SinkInv, PathInv, PathTypes
  <2>2. \A t \in Tasks : at[t] = "put" =>
          \/ at'[t] = "put"
          \/ \A i \in 1..Len(S) : S[i].line = todo[t].line => S[i].line \in c \/ EndsIn(S, i, Len(S))
    BY <2>1
  <2>3. lines' \in Nat /\ lines <= lines'
    BY <1>2, <1>5
  <2> QED
    BY <1>2, <1>4, <1>5, <1>6, <2>2, <2>3, StreamAside
<1>8. \A t \in Tasks : InHook(t)' => InHook(t)
  BY <1>4 DEF InHook
<1>9. HookOK(c)'
  BY <1>2, <1>5, <1>8 DEF HookOK
<1>10. Charged(S, c)'
  <2>1. \A n \in Numbers : Past(n, S) => Past(n, S)'
    BY <1>2, <1>8 DEF Past
  <2> QED
    BY <1>2, <1>5, <2>1, ChargeStays
<1>11. StreamIs(S)'
  <2>1. tail' \o rest' = Y /\ Joined(mail', F)
    BY <1>1, <1>2
  <2>2. S = Under(tail' \o rest', F, chunk', Backlog')
    BY <1>1, <1>3, <2>1 DEF Under
  <2> QED
    BY <2>1, <2>2 DEF StreamIs
<1>12. InOrder(S, c)'
  BY <1>2, <1>5, <1>7, <1>9, <1>10, <1>11 DEF InOrder
<1>13. PathTypes'
  BY <1>2 DEF PathInv, PathTypes, SaidOK
<1>14. \A i \in 1..Len(tail) : ~Newline(tail[i])'
  BY <1>2 DEF PathInv, Newline
<1> QED
  BY <1>2, <1>12, <1>13, <1>14 DEF PathInv

-----------------------------------------------------------------------------
(* log_relay.                                                              *)

\* Once received, bytes wait to be looked at.
LEMMA Receives ==
  ASSUME SinkInv, PathInv, Receive
  PROVE  PathInv'
<1>1. PICK S \in Seq(Bytes), F \in Seq(Bytes), Y \in Seq(Bytes), C \in Seq(Bytes),
           B \in Seq(Bytes), c \in SUBSET Numbers :
        /\ InOrder(S, c) /\ Joined(mail, F) /\ S = Under(Y, F, C, B)
        /\ Y = tail \o rest /\ C = chunk /\ B = Backlog
  BY Streaming
<1>2. /\ UNCHANGED <<at, todo, lines, said, tail, cut, swallowed, chunk>> /\ Backlog' = B
      /\ rest = <<>> /\ mail # <<>> /\ rest' = Head(mail) /\ mail' = Tail(mail)
  BY <1>1, BacklogUnfolds DEF Receive, vars, ringVars, hookVars, history
<1>3. /\ cut \subseteq 1..lines /\ swallowed \subseteq 1..lines /\ c = cut
      /\ mail \in Seq(Seq(Bytes)) /\ Len(mail) <= Datagrams /\ tail \in Seq(Bytes)
  BY <1>1 DEF PathInv, PathTypes, InOrder
<1>4. Y = tail
  BY <1>1, <1>2, <1>3, ConcatEmptySeq
<1>5. PICK H \in Seq(Bytes) : H = Head(mail)
  <2>1. mail[1] \in Seq(Bytes) /\ Head(mail) = mail[1]
    BY <1>2, <1>3, HeadTailProperties, EmptySeq, LenProperties, ElementOfSeq
  <2> QED
    BY <2>1
<1>6. PICK G \in Seq(Bytes) : F = Then(H, G) /\ Joined(mail', G)
  BY <1>1, <1>2, <1>3, <1>5, JoinedLess DEF Then
<1>7. Under(Y, Then(H, G), C, B) = Under(Then(Y, H), G, C, B)
  BY UnderReceived
<1>8. tail' \o rest' = Then(Y, H)
  BY <1>2, <1>4, <1>5 DEF Then
<1>9. S = Under(tail' \o rest', G, chunk', Backlog')
  BY <1>1, <1>2, <1>6, <1>7, <1>8
<1>10. StreamIs(S)'
  BY <1>6, <1>9 DEF StreamIs
<1>11. InOrder(S, c)'
  BY <1>1, <1>2, <1>3, <1>10, SameStream, MovesOn
<1>12. mail' \in Seq(Seq(Bytes)) /\ Len(mail') <= Datagrams
  <2>1. /\ mail' \in Seq(Seq(Bytes)) /\ Len(mail') = Len(mail) - 1 /\ Len(mail) \in Nat
    BY <1>2, <1>3, HeadTailProperties, LenProperties
  <2> QED
    BY <1>3, <2>1, DatagramsAssumption
<1>13. PathTypes'
  BY <1>2, <1>5, <1>12 DEF PathInv, PathTypes, SaidOK
<1>14. \A i \in 1..Len(tail) : ~Newline(tail[i])'
  BY <1>2 DEF PathInv, Newline
<1> QED
  BY <1>2, <1>3, <1>11, <1>13, <1>14 DEF PathInv

\* What is printed, or left out, is what the relay had first.
LEMMA Prints ==
  ASSUME SinkInv, UNCHANGED <<at, todo, lines, said>>, NEW S \in Seq(Bytes),
         NEW c \in SUBSET Numbers, InOrder(S, c), swallowed \subseteq 1..lines,
         NEW T \in Seq(Bytes), \A i \in 1..Len(T) : ~Newline(T[i]),
         NEW X \in Seq(Bytes), NEW R \in Seq(Bytes), S = X \o R,
         Len(T) <= Len(X), \A i \in 1..Len(T) : X[i] = T[i],
         Emit(T), StreamIs(R)'
  PROVE  InOrder(R, c)' /\ swallowed' \subseteq 1..lines
<1>1. Without(S, R, 0, Len(X), c) /\ Len(X) \in Nat
  BY FrontGone
<1>2. \A i \in 1..Len(T) : T[i] = S[i] /\ i \in 1..Len(S)
  <2>1. /\ Len(S) = Len(X) + Len(R) /\ Len(X) \in Nat /\ Len(R) \in Nat /\ Len(T) \in Nat
        /\ \A i \in 1..(Len(X) + Len(R)) : S[i] = IF i <= Len(X) THEN X[i] ELSE R[i - Len(X)]
    BY ConcatProperties, LenProperties
  <2>2. \A i \in 1..Len(T) : i \in 1..(Len(X) + Len(R)) /\ i <= Len(X)
    BY <2>1
  <2> QED
    BY <2>1, <2>2
<1>3. cut' = cut /\ c = cut
  BY DEF Emit, InOrder
<1>4. lines \in 0..MaxLines
  BY DEF SinkInv, TypeOK
<1>5. swallowed' # swallowed => Charged(R, c)'
  <2> SUFFICES ASSUME LeftOut(T) PROVE Charged(R, c)'
    BY DEF Emit
  <2>1. /\ T # <<>> /\ said[T[1].line].routine
        /\ swallowed' = swallowed \cup {n \in LinesIn(T) : ~said[n].routine}
    BY DEF Emit, LeftOut
  <2>2. StreamInv(S, c) /\ Charged(S, c) /\ swallowed \subseteq Numbers
    BY SinkFacts DEF InOrder
  <2>3. lines \in Nat /\ lines <= MaxLines
    BY <1>4, RingAssumption
  <2>4. \A i \in 1..Len(T) : T[i] = S[i] /\ ~Newline(T[i])
    BY <1>2
  <2> QED
    BY <1>1, <2>1, <2>2, <2>3, <2>4, ChargeEmits
<1>6. InOrder(R, c)'
  BY <1>1, <1>3, <1>5, MovesOn
<1>7. swallowed' \subseteq 1..lines
  <2>1. \A i \in 1..Len(T) : T[i].line \in 1..lines
    BY <1>2 DEF InOrder, StreamInv, Known
  <2>2. LinesIn(T) \subseteq 1..lines
    BY <2>1, LinesOf
  <2> QED
    BY <2>2 DEF Emit
<1> QED
  BY <1>6, <1>7

LEMMA StillOpen ==
  ASSUME NEW T \in Seq(Bytes), NEW h \in Bytes, ~Newline(h), \A i \in 1..Len(T) : ~Newline(T[i])
  PROVE  \A i \in 1..Len(Append(T, h)) : Append(T, h)[i] \in Bytes /\ ~Newline(Append(T, h)[i])
<1>1. /\ Len(Append(T, h)) = Len(T) + 1 /\ Len(T) \in Nat /\ Append(T, h)[Len(T) + 1] = h
      /\ \A k \in 1..Len(T) : Append(T, h)[k] = T[k] /\ T[k] \in Bytes
  BY AppendProperties, LenProperties, ElementOfSeq
<1>2. \A i \in 1..Len(Append(T, h)) : i \in 1..Len(T) \/ i = Len(T) + 1
  BY <1>1
<1> QED
  BY <1>1, <1>2

LEMMA Splits ==
  ASSUME SinkInv, PathInv, Split
  PROVE  PathInv'
<1>1. /\ rest # <<>> /\ rest' = Tail(rest) /\ tail \in Seq(Bytes) /\ rest \in Seq(Bytes)
      /\ \A i \in 1..Len(tail) : ~Newline(tail[i])
  BY DEF Split, PathInv, PathTypes
<1>2. PICK T \in Seq(Bytes), h \in Bytes, Q \in Seq(Bytes) :
        T = tail /\ h = Head(rest) /\ Q = Tail(rest)
  BY <1>1, HeadTailProperties
<1>3. PICK X \in Seq(Bytes) : X = Append(T, h)
  BY AppendProperties
<1>4. X \o Q = tail \o rest
  BY <1>1, <1>2, <1>3, MoveOver
<1>5. \A F, C, B \in Seq(Bytes) :
        /\ Under(X \o Q, F, C, B) = X \o Under(Q, F, C, B)
        /\ Under(Q, F, C, B) \in Seq(Bytes)
  <2> TAKE F, C, B \in Seq(Bytes)
  <2>1. Under(Then(X, Q), F, C, B) = Then(X, Under(Q, F, C, B))
    BY UnderReceived
  <2>2. Under(Q, F, C, B) \in Seq(Bytes)
    BY UnderBefore
  <2> QED
    BY <2>1, <2>2 DEF Then
<1>6. Len(T) <= Len(X) /\ \A i \in 1..Len(T) : X[i] = T[i]
  BY <1>3, AppendProperties, LenProperties
<1>7. PICK S \in Seq(Bytes), F \in Seq(Bytes), Y \in Seq(Bytes), C \in Seq(Bytes),
           B \in Seq(Bytes), c \in SUBSET Numbers :
        /\ InOrder(S, c) /\ Joined(mail, F) /\ S = Under(Y, F, C, B)
        /\ Y = tail \o rest /\ C = chunk /\ B = Backlog
  BY Streaming
<1>8. /\ UNCHANGED <<at, todo, lines, said, mail, cut, chunk>> /\ Backlog' = B /\ rest' = Q
      /\ cut \subseteq 1..lines /\ swallowed \subseteq 1..lines /\ c = cut
  BY <1>1, <1>2, <1>7, BacklogUnfolds
     DEF Split, vars, ringVars, hookVars, history, Emit, PathInv, InOrder
<1>9. \A b \in Bytes : Newline(b)' <=> Newline(b)
  BY <1>8 DEF Newline
<1>10. CASE Newline(h)
  <2>1. Emit(T) /\ tail' = <<>>
    BY <1>2, <1>10 DEF Split, AfterNewline
  <2>2. PICK R \in Seq(Bytes) : R = Under(Q, F, C, B) /\ S = X \o R
    <3>1. /\ Under(X \o Q, F, C, B) = X \o Under(Q, F, C, B)
          /\ Under(Q, F, C, B) \in Seq(Bytes)
      BY <1>5
    <3> QED
      BY <1>4, <1>7, <3>1
  <2>3. StreamIs(R)'
    <3>1. tail' \o rest' = Q
      BY <1>8, <2>1, ConcatEmptySeq
    <3> QED
      BY <1>7, <1>8, <2>2, <3>1 DEF StreamIs
  <2>4. \A i \in 1..Len(T) : ~Newline(T[i])
    BY <1>1, <1>2
  <2>5. InOrder(R, c)' /\ swallowed' \subseteq 1..lines
    BY <1>6, <1>7, <1>8, <2>1, <2>2, <2>3, <2>4, Prints
  <2>6. tail' \in Seq(Bytes) /\ (\A i \in 1..Len(tail) : ~Newline(tail[i]))'
    BY <2>1, EmptySeq
  <2>7. PathTypes'
    BY <1>8, <2>6 DEF PathInv, PathTypes, SaidOK
  <2> QED
    BY <1>8, <2>5, <2>6, <2>7 DEF PathInv
<1>11. CASE ~Newline(h)
  <2>1. tail' = X /\ UNCHANGED swallowed
    BY <1>2, <1>3, <1>11 DEF Split, history
  <2>2. StreamIs(S)'
    BY <1>4, <1>7, <1>8, <2>1 DEF StreamIs
  <2>3. InOrder(S, c)'
    BY <1>7, <1>8, <2>1, <2>2, SameStream, MovesOn
  <2>4. \A i \in 1..Len(X) : X[i] \in Bytes /\ ~Newline(X[i])
    BY <1>1, <1>2, <1>3, <1>11, StillOpen
  <2>5. (\A i \in 1..Len(tail) : ~Newline(tail[i]))'
    <3>1. \A i \in 1..Len(X) : ~(Newline(X[i])')
      BY <1>9, <2>4
    <3> QED
      BY <2>1, <3>1 DEF Newline
  <2>6. PathTypes'
    BY <1>8, <2>1 DEF PathInv, PathTypes, SaidOK
  <2> QED
    BY <1>8, <2>1, <2>3, <2>5, <2>6 DEF PathInv
<1> QED
  BY <1>10, <1>11

LEMMA FallsSilent ==
  ASSUME SinkInv, PathInv, Silence
  PROVE  PathInv'
<1>1. PICK S \in Seq(Bytes), F \in Seq(Bytes), Y \in Seq(Bytes), C \in Seq(Bytes),
           B \in Seq(Bytes), c \in SUBSET Numbers :
        /\ InOrder(S, c) /\ Joined(mail, F) /\ S = Under(Y, F, C, B)
        /\ Y = tail \o rest /\ C = chunk /\ B = Backlog
  BY Streaming
<1>2. /\ UNCHANGED <<at, todo, lines, said, mail, rest, cut, chunk>> /\ Backlog' = B
      /\ rest = <<>> /\ tail' = <<>> /\ Emit(tail)
  BY <1>1, BacklogUnfolds DEF Silence, vars, ringVars, hookVars, history, Emit, Flushed
<1>3. /\ cut \subseteq 1..lines /\ swallowed \subseteq 1..lines /\ c = cut
      /\ tail \in Seq(Bytes) /\ \A i \in 1..Len(tail) : ~Newline(tail[i])
  BY <1>1 DEF PathInv, PathTypes, InOrder
<1>4. PICK T \in Seq(Bytes), N \in Seq(Bytes) : T = tail /\ N = <<>>
  BY <1>3, EmptySeq
<1>5. PICK R \in Seq(Bytes) : R = Under(N, F, C, B)
  BY UnderBefore
<1>6. S = T \o R
  <2>1. Under(Then(T, N), F, C, B) = Then(T, Under(N, F, C, B))
    BY UnderReceived
  <2>2. Then(T, N) = Y
    BY <1>1, <1>2, <1>4 DEF Then
  <2> QED
    BY <1>1, <1>5, <2>1, <2>2 DEF Then
<1>7. StreamIs(R)'
  <2>1. tail' \o rest' = N
    BY <1>2, <1>4, ConcatEmptySeq
  <2> QED
    BY <1>1, <1>2, <1>5, <2>1 DEF StreamIs
<1>8. Len(T) <= Len(T) /\ Emit(T) /\ \A i \in 1..Len(T) : ~Newline(T[i])
  BY <1>2, <1>3, <1>4, LenProperties
<1>9. InOrder(R, c)' /\ swallowed' \subseteq 1..lines
  BY <1>1, <1>2, <1>3, <1>6, <1>7, <1>8, Prints
<1>10. tail' \in Seq(Bytes) /\ (\A i \in 1..Len(tail) : ~Newline(tail[i]))'
  BY <1>2, EmptySeq
<1>11. PathTypes'
  BY <1>2, <1>10 DEF PathInv, PathTypes, SaidOK
<1> QED
  BY <1>2, <1>3, <1>9, <1>10, <1>11 DEF PathInv

\* What the old relay had, and what was in its socket, is gone.
LEMMA StartsAgain ==
  ASSUME SinkInv, PathInv, RelayStarts
  PROVE  PathInv'
<1>1. PICK S \in Seq(Bytes), F \in Seq(Bytes), Y \in Seq(Bytes), C \in Seq(Bytes),
           B \in Seq(Bytes), c \in SUBSET Numbers :
        /\ InOrder(S, c) /\ Joined(mail, F) /\ S = Under(Y, F, C, B)
        /\ Y = tail \o rest /\ C = chunk /\ B = Backlog
  BY Streaming
<1>2. /\ UNCHANGED <<at, todo, lines, said, swallowed, chunk>> /\ Backlog' = B
      /\ mail' = <<>> /\ rest' = <<>> /\ tail' = <<>>
      /\ cut' = cut \cup LinesIn(tail \o rest) \cup UNION {LinesIn(text) : text \in ToSet(mail)}
  BY <1>1, BacklogUnfolds DEF RelayStarts, vars, ringVars, hookVars
<1>3. /\ 1..lines \subseteq Numbers
      /\ cut \subseteq 1..lines /\ swallowed \subseteq 1..lines /\ c = cut
      /\ mail \in Seq(Seq(Bytes))
  BY <1>1, SinkFacts DEF PathInv, PathTypes, InOrder
<1>4. /\ Under(Y, F, C, B) = Then(Then(Y, F), Then(C, B))
      /\ Under(<<>>, <<>>, C, B) = Then(C, B)
      /\ Then(Y, F) \in Seq(Bytes) /\ Then(C, B) \in Seq(Bytes)
  <2>1. Under(Y, F, C, B) = Then(Then(Y, F), Then(C, B))
    BY UnderSent
  <2>2. Then(Y, F) \in Seq(Bytes) /\ Then(C, B) \in Seq(Bytes)
    BY ConcatProperties DEF Then
  <2> QED
    BY <2>1, <2>2, UnderNothing
<1>5. PICK X \in Seq(Bytes), R \in Seq(Bytes) : X = Then(Y, F) /\ R = Then(C, B)
  BY <1>4
<1>6. S = X \o R
  BY <1>1, <1>4, <1>5 DEF Then
<1>7. LinesIn(Y) \subseteq 1..lines /\ LinesIn(F) \subseteq 1..lines
  <2>1. Known(S)
    BY <1>1 DEF InOrder, StreamInv
  <2>2. PICK E \in Seq(Bytes), W \in Seq(Bytes) : E = <<>> /\ W = F \o R
    BY EmptySeq, ConcatProperties
  <2>3. S = Y \o (F \o R)
    <3>1. Then(Then(Y, F), R) = Then(Y, Then(F, R))
      BY ThenThen
    <3> QED
      BY <1>5, <1>6, <3>1 DEF Then
  <2>4. S = E \o (Y \o W)
    <3>1. Y \o W \in Seq(Bytes)
      BY ConcatProperties
    <3> QED
      BY <2>2, <2>3, <3>1, ConcatEmptySeq
  <2>5. LinesIn(F) \subseteq 1..lines
    BY <2>1, <2>3, PieceKnown
  <2>6. LinesIn(Y) \subseteq 1..lines
    BY <2>1, <2>4, PieceKnown
  <2> QED
    BY <2>5, <2>6
<1>8. UNION {LinesIn(text) : text \in ToSet(mail)} \subseteq 1..lines
  BY <1>1, <1>3, <1>7, JoinedLines
<1>9. PICK d \in SUBSET Numbers : d = cut' /\ c \subseteq d /\ d \subseteq 1..lines
  BY <1>1, <1>2, <1>3, <1>7, <1>8
<1>10. Without(S, R, 0, Len(X), d) /\ Len(X) \in Nat
  BY <1>6, FrontGone
<1>11. StreamIs(R)'
  <2>1. tail' \o rest' = <<>> /\ Joined(mail', <<>>) /\ <<>> \in Seq(Bytes)
    BY <1>2, JoinedNothing, EmptySeq, ConcatEmptySeq
  <2>2. R = Under(tail' \o rest', <<>>, chunk', Backlog')
    BY <1>1, <1>2, <1>4, <1>5, <2>1
  <2> QED
    BY <2>1, <2>2 DEF StreamIs
<1>12. InOrder(R, d)'
  BY <1>1, <1>2, <1>3, <1>9, <1>10, <1>11, MovesOn
<1>13. /\ tail' \in Seq(Bytes) /\ rest' \in Seq(Bytes) /\ mail' \in Seq(Seq(Bytes))
       /\ Len(mail') <= Datagrams /\ (\A i \in 1..Len(tail) : ~Newline(tail[i]))'
  BY <1>2, EmptySeq, DatagramsAssumption
<1>14. PathTypes'
  BY <1>2, <1>13 DEF PathInv, PathTypes, SaidOK
<1> QED
  BY <1>2, <1>3, <1>9, <1>12, <1>13, <1>14 DEF PathInv

-----------------------------------------------------------------------------
(* Together.                                                               *)

LEMMA PathStarts == PathInit => PathInv
<1> SUFFICES ASSUME PathInit PROVE PathInv
  OBVIOUS
<1>1. /\ mail = <<>> /\ rest = <<>> /\ tail = <<>> /\ cut = {} /\ swallowed = {}
      /\ said = [n \in Numbers |-> [len |-> 0, routine |-> FALSE]]
  BY DEF PathInit
<1>2. chunk = <<>> /\ Backlog = <<>>
  BY InitRefines DEF PathInit, Sink!Init
<1>3. at = [t \in Tasks |-> "idle"]
  BY DEF PathInit, Init
<1>4. PathTypes
  <2>1. SaidOK
    BY <1>1 DEF SaidOK
  <2> QED
    BY <1>1, <2>1, EmptySeq, DatagramsAssumption DEF PathTypes
<1>5. Len(<<>>) = 0 /\ <<>> \in Seq(Bytes) /\ 1..0 = {}
  BY EmptySeq
<1>6. StreamIs(<<>>)
  BY <1>1, <1>2, <1>5, JoinedNothing, ConcatEmptySeq DEF StreamIs, Under
<1>7. StreamInv(<<>>, {})
  BY <1>5 DEF StreamInv, Known, Together, Separate, Finished, Putting, Waiting
<1>8. HookOK({})
  BY <1>3 DEF HookOK, InHook
<1>9. Charged(<<>>, {})
  <2>1. {n \in {} : Past(n, <<>>)} = {} /\ Cardinality({}) = 0
    BY FS_EmptySet
  <2> QED
    BY <1>1, <2>1 DEF Charged
<1>10. InOrder(<<>>, {})
  BY <1>1, <1>6, <1>7, <1>8, <1>9 DEF InOrder
<1>11. {} \in SUBSET Numbers
  OBVIOUS
<1> QED
  BY <1>1, <1>4, <1>5, <1>10, <1>11 DEF PathInv

LEMMA PathStands ==
  ASSUME SinkInv, PathInv, UNCHANGED pathVars
  PROVE  PathInv'
<1>1. PICK S \in Seq(Bytes), c \in SUBSET Numbers : InOrder(S, c)
  BY DEF PathInv
<1>2. /\ UNCHANGED <<at, todo, lines, said, mail, rest, tail, cut, swallowed, chunk>>
      /\ Backlog' = Backlog
  BY BacklogUnfolds DEF pathVars, vars, ringVars, hookVars, relayVars, history
<1>3. StreamIs(S)'
  BY <1>1, <1>2 DEF InOrder, StreamIs
<1>4. swallowed \subseteq 1..lines /\ c = cut
  BY <1>1 DEF PathInv, InOrder
<1>5. InOrder(S, c)'
  BY <1>1, <1>2, <1>3, <1>4, SameStream, MovesOn
<1>6. PathTypes'
  BY <1>2 DEF PathInv, PathTypes, SaidOK
<1>7. \A i \in 1..Len(tail) : ~Newline(tail[i])'
  BY <1>2 DEF PathInv, Newline
<1> QED
  BY <1>2, <1>5, <1>6, <1>7 DEF PathInv

LEMMA PathStep == SinkInv /\ PathInv /\ [PathNext]_pathVars => PathInv'
<1> SUFFICES ASSUME SinkInv, PathInv, [PathNext]_pathVars PROVE PathInv'
  OBVIOUS
<1>1. CASE OnTheStick
  BY <1>1, Elsewhere
<1>2. CASE SendsOn
  BY <1>2, Sends
<1>3. CASE Relay
  BY <1>3, Receives, Splits, FallsSilent DEF Relay
<1>4. CASE RelayStarts
  BY <1>4, StartsAgain
<1>5. ASSUME NEW t \in Tasks, SaysLine(t) \/ PutsByte(t) PROVE PathInv'
  BY <1>5, Speaks, Puts
<1>6. CASE UNCHANGED pathVars
  BY <1>6, PathStands
<1> QED
  BY <1>1, <1>2, <1>3, <1>4, <1>5, <1>6 DEF PathNext

LEMMA SinkStands == PathSpec => []SinkInv
<1>1. Init => SinkInv
  BY TypeInit, WholeInit, HolderAssumption DEF SinkInv, Init, RingIsLocked
<1>2. SinkInv /\ [Next]_vars => SinkInv'
  BY TypeStep, LockStep, WholeStep DEF SinkInv
<1>3. Spec => []SinkInv
  BY <1>1, <1>2, PTL DEF Spec
<1> QED
  BY <1>3, PathIsSink, PTL

LEMMA PathHolds == PathSpec => []PathInv
BY PathStarts, PathStep, SinkStands, PTL DEF PathSpec

\* Whatever is logged, lost and restarted, every byte under way is one of a line that
\* was logged.
THEOREM PathTypesCorrect == PathSpec => []PathTypeOK
<1>1. SinkInv /\ PathInv => PathTypeOK
  BY SinkFacts DEF SinkInv, PathInv, PathTypes, SaidOK, PathTypeOK
<1> QED
  BY <1>1, SinkStands, PathHolds, PTL

\* A line that lost bytes takes at most one line that was worth printing out of the
\* container's log, however many run into each other.
THEOREM CutsTakeNoMore == PathSpec => []OneCutOneLine
<1>1. SinkInv /\ PathInv => OneCutOneLine
  <2> SUFFICES ASSUME SinkInv, PathInv PROVE Cardinality(swallowed) <= Cardinality(cut)
    BY DEF OneCutOneLine
  <2>1. PICK S \in Seq(Bytes), c \in SUBSET Numbers : InOrder(S, c)
    BY DEF PathInv
  <2>2. PICK A \in SUBSET c : A = {n \in c : Past(n, S)}
    OBVIOUS
  <2>3. PICK w \in SUBSET Numbers : w = swallowed
    BY SinkFacts DEF PathInv
  <2>4. Cardinality(w) <= Cardinality(A) /\ c = cut
    BY <2>1, <2>2, <2>3 DEF InOrder, Charged
  <2>5. /\ Cardinality(A) <= Cardinality(c) /\ Cardinality(w) \in Nat
        /\ Cardinality(A) \in Nat /\ Cardinality(c) \in Nat
    BY FewNumbers, NotMore
  <2> QED
    BY <2>3, <2>4, <2>5
<1> QED
  BY <1>1, SinkStands, PathHolds, PTL

=============================================================================
