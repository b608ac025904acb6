----------------------------- MODULE SlipProofs -----------------------------
(***************************************************************************)
(* Proofs about the serial framing, for frames of any length, every MIN    *)
(* and MAX, and any number of frames and faults: what the encoders write,  *)
(* byte by byte, and that each decoder, fed with it, is in step.           *)
(***************************************************************************)
EXTENDS Slip, SequenceTheorems, WellFoundedInduction, TLAPS

-----------------------------------------------------------------------------
(* FlattenSeq, by induction over how much of the frame is laid out: the    *)
(* least length at which the claim would fail does not exist.              *)

\* A set of numbers that is not empty has a least one.
LEMMA Least ==
  ASSUME NEW T \in SUBSET Nat, T # {}
  PROVE  \E n \in T : \A m \in T : n <= m
<1> DEFINE R == {ss \in Nat \X Nat : ss[1] < ss[2]}
<1>1. IsWellFoundedOn(R, Nat)
  BY NatLessThanWellFounded DEF OpToRel
<1>2. \A x, y \in Nat : <<y, x>> \in R <=> y < x
  OBVIOUS
<1> HIDE DEF R
<1>3. \E x \in T : \A y \in T : ~ (<<y, x>> \in R)
  BY <1>1, WFMin
<1>4. PICK x \in T : \A y \in T : ~ (<<y, x>> \in R)
  BY <1>3
<1>5. \A y \in T : ~(y < x)
  BY <1>2, <1>4
<1> QED
  BY <1>5

\* g[k] joins the first k of the sequences m, as FlattenSeq does.
IsFlat(m, g, k) == g = [i \in 1..k |-> IF i = 1 THEN m[i] ELSE g[i - 1] \o m[i]]

\* There is such a function, however many sequences there are.
LEMMA FlatExists ==
  ASSUME NEW m, NEW n \in Nat \ {0}
  PROVE  \E g : IsFlat(m, g, n)
<1> DEFINE P(k) == \E g : IsFlat(m, g, k)
<1>1. P(1)
  <2> DEFINE g == [i \in 1..1 |-> m[i]]
  <2>1. IsFlat(m, g, 1)
    BY DEF IsFlat
  <2> QED
    BY <2>1
<1>2. ASSUME NEW k \in Nat \ {0}, P(k) PROVE P(k + 1)
  <2>1. PICK f : IsFlat(m, f, k)
    BY <1>2
  <2> DEFINE g == [i \in 1..(k + 1) |-> IF i <= k THEN f[i] ELSE f[k] \o m[k + 1]]
  <2>2. ASSUME NEW i \in 1..(k + 1) PROVE g[i] = IF i = 1 THEN m[i] ELSE g[i - 1] \o m[i]
    <3>1. CASE i <= k
      <4>1. f[i] = IF i = 1 THEN m[i] ELSE f[i - 1] \o m[i]
        <5>1. i \in 1..k
          BY <3>1
        <5>2. f = [j \in 1..k |-> IF j = 1 THEN m[j] ELSE f[j - 1] \o m[j]]
          BY <2>1 DEF IsFlat
        <5>3. f[i] = [j \in 1..k |-> IF j = 1 THEN m[j] ELSE f[j - 1] \o m[j]][i]
          BY <5>2, Zenon
        <5> QED
          BY <5>1, <5>3
      <4>2. i # 1 => i - 1 \in 1..(k + 1) /\ i - 1 <= k
        BY <3>1
      <4> QED
        BY <3>1, <4>1, <4>2
    <3>2. CASE i = k + 1
      <4>1. k \in 1..(k + 1) /\ k <= k /\ ~(k + 1 <= k) /\ i # 1 /\ i - 1 = k
        BY <3>2
      <4> QED
        BY <3>2, <4>1
    <3>3. i <= k \/ i = k + 1
      OBVIOUS
    <3> QED
      BY <3>1, <3>2, <3>3
  <2>3. g = [i \in 1..(k + 1) |-> g[i]]
    OBVIOUS
  <2> HIDE DEF g
  <2>4. IsFlat(m, g, k + 1)
    BY <2>2, <2>3, Zenon DEF IsFlat
  <2> QED
    BY <2>4
<1> HIDE DEF P
<1>3. P(n)
  <2> SUFFICES ASSUME ~P(n) PROVE FALSE
    OBVIOUS
  <2> DEFINE T == {k \in Nat \ {0} : ~P(k)}
  <2>1. PICK k \in T : \A j \in T : k <= j
    <3>1. T \in SUBSET Nat /\ T # {}
      OBVIOUS
    <3> HIDE DEF T
    <3> QED
      BY <3>1, Least
  <2>2. k \in Nat \ {0} /\ ~P(k) /\ k # 1
    BY <1>1
  <2>3. k - 1 \in Nat \ {0} /\ (k - 1) + 1 = k /\ ~(k <= k - 1)
    BY <2>2
  <2>4. P(k - 1)
    BY <2>1, <2>3
  <2> QED
    BY <1>2, <2>2, <2>3, <2>4
<1> QED
  BY <1>3 DEF P

\* What FlattenSeq computes.
LEMMA FlattenIs ==
  ASSUME NEW m, Len(m) \in Nat \ {0}
  PROVE  \E g : IsFlat(m, g, Len(m)) /\ FlattenSeq(m) = g[Len(m)]
<1> DEFINE n == Len(m)
           h == CHOOSE g : g = [i \in 1..n |-> IF i = 1 THEN m[i] ELSE g[i - 1] \o m[i]]
<1>1. \E g : g = [i \in 1..n |-> IF i = 1 THEN m[i] ELSE g[i - 1] \o m[i]]
  BY FlatExists DEF IsFlat
<1>2. h = [i \in 1..n |-> IF i = 1 THEN m[i] ELSE h[i - 1] \o m[i]]
  BY <1>1
<1>3. FlattenSeq(m) = h[n]
  BY DEF FlattenSeq
<1> QED
  BY <1>2, <1>3 DEF IsFlat

-----------------------------------------------------------------------------
(* The encoding of a frame.                                                *)

Special(b) == b \in {"END", "ESC"}
Width(b) == IF Special(b) THEN 2 ELSE 1
First(b) == IF Special(b) THEN "ESC" ELSE b
Second(b) == IF b = "END" THEN "ESC_END" ELSE "ESC_ESC"

\* F encodes the first k bytes of f: off tells where each ends.
Laid(f, k, F, off) ==
  /\ F \in Seq(Octets) /\ \A p \in 1..Len(F) : F[p] # "END"
  /\ off \in [0..k -> 0..Len(F)] /\ off[0] = 0 /\ off[k] = Len(F)
  /\ \A i \in 1..k : /\ off[i] = off[i - 1] + Width(f[i])
                     /\ F[off[i - 1] + 1] = First(f[i])
                     /\ Special(f[i]) => F[off[i - 1] + 2] = Second(f[i])

\* One byte as Escape writes it.
LEMMA EscapeIs ==
  ASSUME NEW b \in Octets
  PROVE  /\ Escape(b) \in Seq(Octets) /\ Len(Escape(b)) = Width(b)
         /\ Escape(b)[1] = First(b) /\ (Special(b) => Escape(b)[2] = Second(b))
         /\ \A p \in 1..Len(Escape(b)) : Escape(b)[p] # "END"
         /\ Width(b) \in {1, 2} /\ (Special(b) <=> Width(b) = 2)
<1>1. CASE b = "END"
  BY <1>1 DEF Escape, Width, Special, First, Second, Octets
<1>2. CASE b = "ESC"
  BY <1>2 DEF Escape, Width, Special, First, Second, Octets
<1>3. CASE ~Special(b)
  BY <1>3 DEF Escape, Width, Special, First, Second, Octets
<1> QED
  BY <1>1, <1>2, <1>3 DEF Special

\* One byte more of the frame is laid out behind the others.
LEMMA LaidMore ==
  ASSUME NEW f \in Seq(Octets), NEW k \in Nat, k + 1 <= Len(f), NEW F, NEW off,
         Laid(f, k, F, off)
  PROVE  \E off2 : Laid(f, k + 1, F \o Escape(f[k + 1]), off2)
<1>1. PICK b \in Octets, c \in Seq(Octets) : b = f[k + 1] /\ c = Escape(b)
  <2>1. f[k + 1] \in Octets
    BY ElementOfSeq, LenProperties
  <2> QED
    BY <2>1, EscapeIs
<1> DEFINE l == Len(F)
           F2 == F \o c
<1>2. /\ F \in Seq(Octets) /\ l \in Nat /\ off[0] = 0 /\ off[k] = l
      /\ \A i \in 0..k : off[i] \in 0..l
      /\ \A p \in 1..l : F[p] # "END"
      /\ \A i \in 1..k : /\ off[i] = off[i - 1] + Width(f[i])
                         /\ F[off[i - 1] + 1] = First(f[i])
                         /\ Special(f[i]) => F[off[i - 1] + 2] = Second(f[i])
  BY LenProperties DEF Laid
<1>3. PICK w \in {1, 2} :
        /\ w = Width(b) /\ Len(c) = w /\ c[1] = First(b) /\ (Special(b) => c[2] = Second(b))
        /\ (Special(b) <=> w = 2) /\ \A p \in 1..w : c[p] # "END"
  BY <1>1, EscapeIs
<1>4. /\ F2 \in Seq(Octets) /\ Len(F2) = l + w
      /\ \A p \in 1..(l + w) : F2[p] = IF p <= l THEN F[p] ELSE c[p - l]
  <2>1. F \in Seq(Octets) /\ c \in Seq(Octets)
    BY <1>2
  <2>2. /\ F2 \in Seq(Octets) /\ Len(F2) = Len(F) + Len(c)
        /\ \A p \in 1..(Len(F) + Len(c)) : F2[p] = IF p <= Len(F) THEN F[p] ELSE c[p - Len(F)]
    BY <2>1, ConcatProperties
  <2> QED
    BY <1>3, <2>2
<1> HIDE DEF l, F2
<1> DEFINE off2 == [i \in 0..(k + 1) |-> IF i <= k THEN off[i] ELSE l + w]
<1>5. /\ off2 \in [0..(k + 1) -> 0..(l + w)] /\ off2[k + 1] = l + w
      /\ \A i \in 0..k : off2[i] = off[i]
  <2>1. \A i \in 0..(k + 1) : (IF i <= k THEN off[i] ELSE l + w) \in 0..(l + w)
    BY <1>2
  <2> QED
    BY <2>1
<1> HIDE DEF off2
<1>6. \A p \in 1..(l + w) : F2[p] # "END"
  <2> SUFFICES ASSUME NEW p \in 1..(l + w) PROVE F2[p] # "END"
    OBVIOUS
  <2>1. p <= l => p \in 1..l
    BY <1>2
  <2>2. ~(p <= l) => p - l \in 1..w
    BY <1>2
  <2> QED
    BY <1>2, <1>3, <1>4, <2>1, <2>2
<1>7. ASSUME NEW i \in 1..(k + 1)
      PROVE  /\ off2[i] = off2[i - 1] + Width(f[i])
             /\ F2[off2[i - 1] + 1] = First(f[i])
             /\ Special(f[i]) => F2[off2[i - 1] + 2] = Second(f[i])
  <2>1. CASE i \in 1..k
    <3>1. i - 1 \in 0..k /\ i \in 0..k
      BY <2>1
    <3>2. /\ off2[i] = off[i] /\ off2[i - 1] = off[i - 1] /\ off[i] \in 0..l /\ off[i - 1] \in 0..l
          /\ off[i] = off[i - 1] + Width(f[i])
      BY <1>2, <1>5, <2>1, <3>1
    <3>3. f[i] \in Octets
      BY <2>1, ElementOfSeq, LenProperties
    <3>4. Width(f[i]) \in {1, 2} /\ (Special(f[i]) <=> Width(f[i]) = 2)
      BY <3>3, EscapeIs
    <3>5. off[i - 1] + 1 \in 1..l /\ (Special(f[i]) => off[i - 1] + 2 \in 1..l)
      <4>1. \A x, y \in 0..l, w2 \in {1, 2} : y = x + w2 => x + 1 \in 1..l /\ (w2 = 2 => x + 2 \in 1..l)
        BY <1>2
      <4>2. off[i] \in 0..l /\ off[i - 1] \in 0..l /\ off[i] = off[i - 1] + Width(f[i])
        BY <3>2
      <4> QED
        BY <3>4, <4>1, <4>2
    <3>6. \A p \in 1..l : F2[p] = F[p]
      BY <1>2, <1>4
    <3> QED
      BY <1>2, <2>1, <3>2, <3>5, <3>6
  <2>2. CASE i = k + 1
    <3>1. off2[i] = l + w /\ off2[i - 1] = l /\ f[i] = b
      BY <1>1, <1>2, <1>5, <2>2
    <3>2. F2[l + 1] = c[1] /\ (w = 2 => F2[l + 2] = c[2])
      <4>1. \A q \in 1..w : F2[l + q] = c[q]
        <5> SUFFICES ASSUME NEW q \in 1..w PROVE F2[l + q] = c[q]
          OBVIOUS
        <5>1. l + q \in 1..(l + w) /\ ~(l + q <= l) /\ (l + q) - l = q
          BY <1>2
        <5> QED
          BY <1>4, <5>1
      <4>2. 1 \in 1..w /\ (w = 2 => 2 \in 1..w)
        OBVIOUS
      <4> QED
        BY <4>1, <4>2
    <3> QED
      BY <1>3, <3>1, <3>2
  <2> QED
    BY <2>1, <2>2
<1>8. Laid(f, k + 1, F2, off2)
  <2>1. off2[0] = 0 /\ Len(F2) = l + w
    BY <1>2, <1>4, <1>5
  <2> QED
    BY <1>4, <1>5, <1>6, <1>7, <2>1 DEF Laid
<1> QED
  BY <1>1, <1>8 DEF F2

\* The whole frame, between an END and an END.
LEMMA FrameLaid ==
  ASSUME NEW f \in Seq(Octets), Len(f) \in Nat \ {0}
  PROVE  \E F, off : /\ Laid(f, Len(f), F, off)
                     /\ Encode(f) = (<<"END">> \o F) \o <<"END">>
<1> DEFINE n == Len(f)
           m == [i \in DOMAIN f |-> Escape(f[i])]
<1>1. DOMAIN f = 1..n /\ \A i \in 1..n : m[i] = Escape(f[i]) /\ m[i] \in Seq(Octets)
  BY LenProperties, ElementOfSeq, EscapeIs
<1>2. m \in Seq(Seq(Octets)) /\ Len(m) = n
  <2>1. m = [i \in 1..n |-> Escape(f[i])]
    BY <1>1
  <2>2. m \in [1..n -> Seq(Octets)] /\ n \in Nat
    BY <1>1, <2>1
  <2>3. m \in Seq(Seq(Octets))
    BY <2>2, SeqDef
  <2> QED
    BY <2>2, <2>3, LenProperties
<1> HIDE DEF m
<1>3. PICK g : IsFlat(m, g, n) /\ FlattenSeq(m) = g[n]
  BY <1>2, FlattenIs
<1> HIDE DEF n
<1>4. \A i \in 1..n : g[i] = IF i = 1 THEN m[i] ELSE g[i - 1] \o m[i]
  BY <1>3 DEF IsFlat
<1> DEFINE P(k) == \E off : Laid(f, k, g[k], off)
<1>5. P(1)
  <2> DEFINE off == [i \in 0..0 |-> 0]
  <2>1. Laid(f, 0, <<>>, off)
    BY EmptySeq DEF Laid
  <2>2. \E off2 : Laid(f, 0 + 1, <<>> \o Escape(f[0 + 1]), off2)
    <3>1. 0 + 1 <= Len(f)
      OBVIOUS
    <3> HIDE DEF off
    <3> QED
      BY <2>1, <3>1, LaidMore
  <2>3. 1 \in 1..n
    BY DEF n
  <2>4. g[1] = <<>> \o Escape(f[1])
    BY <1>1, <1>4, <2>3, ConcatEmptySeq
  <2> QED
    BY <2>2, <2>4
<1>6. ASSUME NEW k \in 1..n, k + 1 <= n, P(k) PROVE P(k + 1)
  <2>1. k + 1 \in 1..n /\ k + 1 # 1 /\ (k + 1) - 1 = k
    BY <1>6 DEF n
  <2>2. g[k + 1] = g[k] \o Escape(f[k + 1])
    BY <1>1, <1>4, <2>1
  <2>3. PICK off : Laid(f, k, g[k], off)
    BY <1>6
  <2>4. \E off2 : Laid(f, k + 1, g[k] \o Escape(f[k + 1]), off2)
    BY <1>6, <2>3, LaidMore DEF n
  <2> QED
    BY <2>2, <2>4
<1> HIDE DEF P
<1>7. P(n)
  <2> SUFFICES ASSUME ~P(n) PROVE FALSE
    OBVIOUS
  <2> DEFINE T == {k \in 1..n : ~P(k)}
  <2>1. PICK k \in T : \A j \in T : k <= j
    <3>1. T \in SUBSET Nat /\ T # {}
      BY DEF n
    <3> HIDE DEF T
    <3> QED
      BY <3>1, Least
  <2>2. k \in 1..n /\ ~P(k) /\ k # 1
    BY <1>5
  <2>3. k - 1 \in 1..n /\ (k - 1) + 1 = k /\ ~(k <= k - 1) /\ (k - 1) + 1 <= n
    BY <2>2 DEF n
  <2>4. P(k - 1)
    BY <2>1, <2>3
  <2> QED
    BY <1>6, <2>2, <2>3, <2>4
<1>8. Encode(f) = (<<"END">> \o g[n]) \o <<"END">>
  BY <1>3 DEF Encode, m
<1> QED
  BY <1>7, <1>8 DEF P, n

\* Where the bytes of a frame are in its encoding.
Layout(f, E, off) ==
  /\ E \in Seq(Octets) /\ Len(E) = off[Len(f)] + 2 /\ E[1] = "END" /\ E[Len(E)] = "END"
  /\ \A p \in 2..(Len(E) - 1) : E[p] # "END"
  /\ \A i \in 0..Len(f) : off[i] \in 0..(Len(E) - 2)
  /\ off[0] = 0
  /\ \A i \in 1..Len(f) : /\ off[i] = off[i - 1] + Width(f[i])
                          /\ E[off[i - 1] + 2] = First(f[i])
                          /\ Special(f[i]) => E[off[i - 1] + 3] = Second(f[i])
Off(f) == CHOOSE off : Layout(f, Encode(f), off)

\* Encode lays a frame out like that.
LEMMA EncodeIs ==
  ASSUME NEW f \in Frames
  PROVE  Layout(f, Encode(f), Off(f))
<1> DEFINE n == Len(f)
           E == Encode(f)
<1>1. f \in Seq(Octets) /\ n \in Nat \ {0}
  BY SlipAssumption
<1>2. PICK F, off : Laid(f, n, F, off) /\ E = (<<"END">> \o F) \o <<"END">>
  BY <1>1, FrameLaid
<1> HIDE DEF n, E
<1> DEFINE l == Len(F)
           a == <<"END">>
           A == a \o F
<1>3. F \in Seq(Octets) /\ l \in Nat /\ a \in Seq(Octets) /\ Len(a) = 1 /\ a[1] = "END"
  BY <1>2, LenProperties DEF Laid, Octets
<1> HIDE DEF a
<1>4. /\ A \in Seq(Octets) /\ Len(A) = 1 + l
      /\ \A p \in 1..(1 + l) : A[p] = IF p <= 1 THEN a[p] ELSE F[p - 1]
  <2>1. F \in Seq(Octets) /\ a \in Seq(Octets)
    BY <1>3
  <2>2. /\ A \in Seq(Octets) /\ Len(A) = Len(a) + Len(F)
        /\ \A p \in 1..(Len(a) + Len(F)) : A[p] = IF p <= Len(a) THEN a[p] ELSE F[p - Len(a)]
    BY <2>1, ConcatProperties
  <2> QED
    BY <1>3, <2>2
<1> HIDE DEF A
<1>5. /\ E \in Seq(Octets) /\ Len(E) = (1 + l) + 1
      /\ \A p \in 1..((1 + l) + 1) : E[p] = IF p <= 1 + l THEN A[p] ELSE a[p - (1 + l)]
  <2>1. E = A \o a /\ A \in Seq(Octets) /\ a \in Seq(Octets)
    BY <1>2, <1>3, <1>4 DEF A, a
  <2>2. /\ E \in Seq(Octets) /\ Len(E) = Len(A) + Len(a)
        /\ \A p \in 1..(Len(A) + Len(a)) : E[p] = IF p <= Len(A) THEN A[p] ELSE a[p - Len(A)]
    BY <2>1, ConcatProperties
  <2> QED
    BY <1>3, <1>4, <2>2
<1> HIDE DEF l
<1>6. /\ E[1] = "END" /\ E[l + 2] = "END" /\ Len(E) = l + 2
      /\ \A p \in 1..l : E[p + 1] = F[p]
  <2>1. E[1] = "END"
    <3>1. 1 \in 1..(1 + l) /\ 1 \in 1..((1 + l) + 1) /\ 1 <= 1 + l
      BY <1>3
    <3>2. E[1] = A[1] /\ A[1] = a[1]
      BY <1>4, <1>5, <3>1
    <3> QED
      BY <1>3, <3>2
  <2>2. E[l + 2] = "END" /\ Len(E) = l + 2
    <3>1. /\ l + 2 \in 1..((1 + l) + 1) /\ ~(l + 2 <= 1 + l) /\ (l + 2) - (1 + l) = 1
          /\ (1 + l) + 1 = l + 2
      BY <1>3
    <3> QED
      BY <1>3, <1>5, <3>1
  <2>3. ASSUME NEW p \in 1..l PROVE E[p + 1] = F[p]
    <3>1. p + 1 \in 1..(1 + l) /\ p + 1 \in 1..((1 + l) + 1) /\ ~(p + 1 <= 1) /\ (p + 1) - 1 = p
          /\ p + 1 <= 1 + l
      BY <1>3
    <3> QED
      BY <1>4, <1>5, <3>1
  <2> QED
    BY <2>1, <2>2, <2>3
<1>7. /\ off[0] = 0 /\ off[n] = l /\ \A i \in 0..n : off[i] \in 0..l
      /\ \A p \in 1..l : F[p] # "END"
      /\ \A i \in 1..n : /\ off[i] = off[i - 1] + Width(f[i])
                         /\ F[off[i - 1] + 1] = First(f[i])
                         /\ Special(f[i]) => F[off[i - 1] + 2] = Second(f[i])
  BY <1>2 DEF Laid, l
<1>8. \A p \in 2..(Len(E) - 1) : E[p] # "END"
  <2>1. \A p \in 2..(Len(E) - 1) : p - 1 \in 1..l /\ (p - 1) + 1 = p
    BY <1>3, <1>6
  <2> QED
    BY <1>6, <1>7, <2>1
<1>9. ASSUME NEW i \in 1..n
      PROVE  /\ E[off[i - 1] + 2] = First(f[i])
             /\ Special(f[i]) => E[off[i - 1] + 3] = Second(f[i])
  <2>1. i \in 0..n /\ i - 1 \in 0..n
    BY <1>1
  <2>2. f[i] \in Octets
    BY <1>1, ElementOfSeq, LenProperties DEF n
  <2>3. Width(f[i]) \in {1, 2} /\ (Special(f[i]) <=> Width(f[i]) = 2)
    BY <2>2, EscapeIs
  <2>4. off[i] \in 0..l /\ off[i - 1] \in 0..l /\ off[i] = off[i - 1] + Width(f[i])
    BY <1>7, <2>1
  <2>5. off[i - 1] + 1 \in 1..l /\ (off[i - 1] + 1) + 1 = off[i - 1] + 2
    BY <1>3, <2>3, <2>4
  <2>6. Special(f[i]) => off[i - 1] + 2 \in 1..l /\ (off[i - 1] + 2) + 1 = off[i - 1] + 3
    BY <1>3, <2>3, <2>4
  <2> QED
    BY <1>6, <1>7, <2>5, <2>6
<1>10. Layout(f, E, off)
  <2>1. \A i \in 0..n : off[i] \in 0..(Len(E) - 2)
    BY <1>3, <1>6, <1>7
  <2> QED
    BY <1>5, <1>6, <1>7, <1>8, <1>9, <2>1 DEF Layout, n
<1> QED
  BY <1>10 DEF Off, E

-----------------------------------------------------------------------------
(* What is still to come of an encoding.                                   *)

\* w is the end of E.
Piece(E, w) ==
  /\ w \in Seq(Octets) /\ Len(w) <= Len(E)
  /\ \A j \in 1..Len(w) : w[j] = E[(Len(E) - Len(w)) + j]

\* Nothing is gone yet.
LEMMA PieceAll ==
  ASSUME NEW E \in Seq(Octets)
  PROVE  Piece(E, E)
BY LenProperties DEF Piece

\* One byte is taken from the front.
LEMMA PieceTail ==
  ASSUME NEW E \in Seq(Octets), NEW w, Piece(E, w), w # <<>>
  PROVE  /\ Len(E) \in Nat /\ Len(w) \in 1..Len(E)
         /\ Head(w) = E[(Len(E) - Len(w)) + 1] /\ Head(w) \in Octets
         /\ Piece(E, Tail(w)) /\ Len(Tail(w)) = Len(w) - 1
         /\ (Tail(w) = <<>> <=> Len(w) = 1)
<1>1. w \in Seq(Octets) /\ Len(w) <= Len(E) /\ \A j \in 1..Len(w) : w[j] = E[(Len(E) - Len(w)) + j]
  BY DEF Piece
<1>2. Len(E) \in Nat
  BY LenProperties
<1>3. Len(w) \in Nat \ {0}
  BY <1>1, EmptySeq
<1>4. /\ Head(w) \in Octets /\ Tail(w) \in Seq(Octets) /\ Len(Tail(w)) = Len(w) - 1
      /\ \A i \in 1..Len(Tail(w)) : Tail(w)[i] = w[i + 1]
  BY <1>1, HeadTailProperties
<1>5. Head(w) = w[1]
  BY <1>1
<1>6. Head(w) = E[(Len(E) - Len(w)) + 1]
  BY <1>1, <1>3, <1>5
<1>7. ASSUME NEW j \in 1..Len(Tail(w))
      PROVE  Tail(w)[j] = E[(Len(E) - Len(Tail(w))) + j]
  <2>1. j + 1 \in 1..Len(w) /\ (Len(E) - Len(Tail(w))) + j = (Len(E) - Len(w)) + (j + 1)
    BY <1>2, <1>3, <1>4
  <2>2. QED
    BY <1>1, <1>4, <2>1
<1>8. Piece(E, Tail(w))
  BY <1>1, <1>2, <1>3, <1>4, <1>7 DEF Piece
<1>9. Tail(w) = <<>> <=> Len(w) = 1
  <2>1. \A v \in Seq(Octets) : v = <<>> <=> Len(v) = 0
    BY EmptySeq
  <2>2. Tail(w) = <<>> <=> Len(Tail(w)) = 0
    BY <1>4, <2>1
  <2>3. QED
    BY <1>3, <1>4, <2>2
<1>10. QED
  BY <1>1, <1>2, <1>3, <1>4, <1>6, <1>8, <1>9

\* A burst is taken from the front.
LEMMA PieceCut ==
  ASSUME NEW E \in Seq(Octets), NEW w, Piece(E, w), NEW k \in 1..Len(w)
  PROVE  SubSeq(w, k + 1, Len(w)) \in Seq(Octets) /\ Piece(E, SubSeq(w, k + 1, Len(w)))
<1> DEFINE v == SubSeq(w, k + 1, Len(w))
<1>1. w \in Seq(Octets) /\ Len(w) <= Len(E) /\ \A j \in 1..Len(w) : w[j] = E[(Len(E) - Len(w)) + j]
  BY DEF Piece
<1>2. Len(E) \in Nat /\ Len(w) \in Nat /\ k \in Nat /\ k <= Len(w)
  BY <1>1, LenProperties
<1>3. \A i \in (k + 1)..Len(w) : w[i] \in Octets
  BY <1>1, <1>2, ElementOfSeq
<1>4. /\ v \in Seq(Octets) /\ Len(v) = (IF k + 1 <= Len(w) THEN Len(w) - (k + 1) + 1 ELSE 0)
      /\ \A i \in 1..(Len(w) - (k + 1) + 1) : v[i] = w[(k + 1) + i - 1]
  <2>1. k + 1 \in Int /\ Len(w) \in Int
    BY <1>2
  <2> QED
    BY <1>3, <2>1, SubSeqProperties
<1>5. Len(v) = Len(w) - k
  BY <1>2, <1>4
<1> HIDE DEF v
<1>6. ASSUME NEW j \in 1..Len(v) PROVE v[j] = E[(Len(E) - Len(v)) + j]
  <2>1. /\ j \in 1..(Len(w) - (k + 1) + 1) /\ (k + 1) + j - 1 \in 1..Len(w)
        /\ (Len(E) - Len(w)) + ((k + 1) + j - 1) = (Len(E) - Len(v)) + j
    BY <1>2, <1>5
  <2>2. QED
    BY <1>1, <1>4, <2>1
<1>7. Len(v) <= Len(E)
  BY <1>1, <1>2, <1>5
<1>8. QED
  BY <1>4, <1>6, <1>7 DEF Piece, v

-----------------------------------------------------------------------------
(* The decoders on one byte.                                               *)

Decoders == [buf : Seq(Octets), esc : BOOLEAN]
Fed(s, b) == {StickFeed(s, b), PumpFeed(s, b)}

\* Both decoders alike: a byte outside an escape ...
LEMMA FeedPlain ==
  ASSUME NEW s \in Decoders, ~s.esc, Len(s.buf) < MAX, NEW b \in Octets \ {"END"},
         NEW s2 \in Fed(s, b)
  PROVE  /\ b = "ESC" => s2.buf = s.buf /\ s2.esc
         /\ b # "ESC" => s2.buf = Append(s.buf, b) /\ ~s2.esc
<1>1. s.buf \in Seq(Octets) /\ [s EXCEPT !.esc = TRUE].buf = s.buf /\ [s EXCEPT !.esc = TRUE].esc
  BY DEF Decoders
<1>2. b # "END" /\ ~(Len(s.buf) >= MAX)
  BY <1>1, SlipAssumption, LenProperties
<1>3. Literal(s, b) = b /\ ~BadEscape(s, b)
  BY DEF Literal, BadEscape
<1>4. \A u : [buf |-> u, esc |-> FALSE].buf = u /\ ~[buf |-> u, esc |-> FALSE].esc
  OBVIOUS
<1>5. CASE b = "ESC"
  <2>1. StickFeed(s, b) = [s EXCEPT !.esc = TRUE]
    BY <1>2, <1>5 DEF StickFeed
  <2>2. PumpFeed(s, b) = [s EXCEPT !.esc = TRUE]
    BY <1>2, <1>3, <1>5 DEF PumpFeed
  <2>3. QED
    BY <1>1, <1>5, <2>1, <2>2 DEF Fed
<1>6. CASE b # "ESC"
  <2>1. StickFeed(s, b) = [buf |-> Append(s.buf, b), esc |-> FALSE]
    BY <1>2, <1>3, <1>6 DEF StickFeed
  <2>2. PumpFeed(s, b) = [buf |-> Append(s.buf, b), esc |-> FALSE]
    BY <1>2, <1>3, <1>6 DEF PumpFeed
  <2>3. QED
    BY <1>4, <1>6, <2>1, <2>2 DEF Fed
<1>7. QED
  BY <1>5, <1>6

\* ... and the byte behind an ESC.
LEMMA FeedEscaped ==
  ASSUME NEW s \in Decoders, s.esc, Len(s.buf) < MAX, NEW c, Special(c),
         NEW s2 \in Fed(s, Second(c))
  PROVE  s2.buf = Append(s.buf, c) /\ ~s2.esc
<1> DEFINE b == Second(c)
<1>1. b \in {"ESC_END", "ESC_ESC"} /\ b # "END" /\ b # "ESC"
  BY DEF Second
<1>2. Literal(s, b) = c /\ ~BadEscape(s, b)
  BY DEF Literal, BadEscape, Special, Second
<1>3. \A u : [buf |-> u, esc |-> FALSE].buf = u /\ ~[buf |-> u, esc |-> FALSE].esc
  OBVIOUS
<1> HIDE DEF b
<1>4. StickFeed(s, b) = [buf |-> Append(s.buf, c), esc |-> FALSE]
  BY <1>1, <1>2 DEF StickFeed
<1>5. PumpFeed(s, b) = [buf |-> Append(s.buf, c), esc |-> FALSE]
  BY <1>1, <1>2 DEF PumpFeed
<1>6. s2 = [buf |-> Append(s.buf, c), esc |-> FALSE]
  BY <1>4, <1>5 DEF Fed, b
<1>7. QED
  BY <1>3, <1>6

\* An END empties the buffer; the stick forgets an escape as well, the pump only when
\* the buffer held something.
LEMMA FeedEnd ==
  ASSUME NEW s
  PROVE  /\ StickFeed(s, "END") = Empty
         /\ s.buf # <<>> \/ s = Empty => PumpFeed(s, "END") = Empty
BY DEF StickFeed, StickEnd, PumpFeed, PumpEnd, AfterBadEscape

\* Whatever comes in, and the stick's buffer holds no more than a frame.
LEMMA FeedType ==
  ASSUME NEW s \in Decoders, NEW b \in Octets
  PROVE  /\ StickFeed(s, b) \in Decoders /\ PumpFeed(s, b) \in Decoders
         /\ Len(s.buf) <= MAX => Len(StickFeed(s, b).buf) <= MAX
<1>1. s.buf \in Seq(Octets) /\ s.esc \in BOOLEAN /\ Literal(s, b) \in Octets
  BY DEF Decoders, Literal, Octets
<1>2. \A e \in Octets : /\ Append(s.buf, e) \in Seq(Octets)
                        /\ Len(Append(s.buf, e)) = Len(s.buf) + 1
  BY <1>1, AppendProperties
<1>3. Empty \in Decoders /\ Empty.buf = <<>>
  BY EmptySeq DEF Empty, Decoders
<1>4. Len(<<>>) = 0 /\ <<>> \in Seq(Octets) /\ MAX \in Nat
  BY EmptySeq, SlipAssumption
<1>5. Len(s.buf) \in Nat
  BY <1>1, LenProperties
<1>6. [s EXCEPT !.esc = TRUE] \in Decoders /\ [s EXCEPT !.esc = TRUE].buf = s.buf
  BY DEF Decoders
<1>7. \A u \in Seq(Octets) : [buf |-> u, esc |-> FALSE] \in Decoders /\ [buf |-> u, esc |-> FALSE].buf = u
  BY DEF Decoders
<1>8. StickFeed(s, b) \in Decoders /\ (Len(s.buf) <= MAX => Len(StickFeed(s, b).buf) <= MAX)
  <2>1. CASE b = "END"
    BY <1>3, <1>4, <2>1 DEF StickFeed, StickEnd
  <2>2. CASE b = "ESC" /\ ~s.esc
    BY <1>6, <2>2 DEF StickFeed
  <2>3. CASE b # "END" /\ ~(b = "ESC" /\ ~s.esc)
    <3>1. PICK u : u = IF Len(s.buf) < MAX THEN Append(s.buf, Literal(s, b)) ELSE <<>>
      OBVIOUS
    <3>2. u \in Seq(Octets) /\ Len(u) <= MAX
      BY <1>1, <1>2, <1>4, <1>5, <3>1
    <3>3. StickFeed(s, b) = [buf |-> u, esc |-> FALSE]
      BY <2>3, <3>1 DEF StickFeed
    <3>4. QED
      BY <1>7, <3>2, <3>3
  <2>4. QED
    BY <2>1, <2>2, <2>3
<1>9. PumpFeed(s, b) \in Decoders
  <2>1. CASE b = "END"
    BY <1>3, <2>1 DEF PumpFeed, PumpEnd, AfterBadEscape
  <2>2. CASE b # "END" /\ BadEscape(s, b)
    BY <1>3, <2>2 DEF PumpFeed, BadEscape, AfterBadEscape
  <2>3. CASE b # "END" /\ ~BadEscape(s, b) /\ s.esc
    BY <1>1, <1>2, <1>7, <2>3 DEF PumpFeed, BadEscape
  <2>4. CASE b # "END" /\ ~BadEscape(s, b) /\ ~s.esc /\ b = "ESC"
    BY <1>6, <2>4 DEF PumpFeed
  <2>5. CASE b # "END" /\ ~BadEscape(s, b) /\ ~s.esc /\ b # "ESC"
    <3>1. PICK u : u = IF Len(s.buf) >= MAX THEN <<>> ELSE Append(s.buf, b)
      OBVIOUS
    <3>2. u \in Seq(Octets)
      BY <1>2, <1>4, <3>1
    <3>3. PumpFeed(s, b) = [buf |-> u, esc |-> FALSE]
      BY <2>5, <3>1 DEF PumpFeed
    <3>4. QED
      BY <1>7, <3>2, <3>3
  <2>6. QED
    BY <2>1, <2>2, <2>3, <2>4, <2>5
<1>10. QED
  BY <1>8, <1>9
-----------------------------------------------------------------------------
(* A decoder that reads an encoding from its first byte.                   *)

\* After t bytes of the encoding of f the decoder s holds the first k bytes of f, and
\* the ESC of the next if that is a special one.
Reading(f, k, s, t) ==
  /\ s.buf = SubSeq(f, 1, k)
  /\ \/ ~s.esc /\ t = Off(f)[k] + 1
     \/ s.esc /\ k < Len(f) /\ Special(f[k + 1]) /\ t = Off(f)[k] + 2

\* It reads on, or has read the END that hands the whole frame on.
LEMMA ReadOn ==
  ASSUME NEW f \in Frames, NEW s \in Decoders, NEW k \in 0..Len(f), NEW t, Reading(f, k, s, t),
         NEW s2 \in Fed(s, Encode(f)[t + 1])
  PROVE  /\ t \in Nat /\ t < Len(Encode(f))
         /\ \/ /\ Encode(f)[t + 1] # "END" /\ t + 1 < Len(Encode(f))
               /\ \E j \in 0..Len(f) : Reading(f, j, s2, t + 1)
            \/ /\ Encode(f)[t + 1] = "END" /\ t + 1 = Len(Encode(f))
               /\ s.buf = f /\ s2 = Empty
<1> DEFINE n == Len(f)
           E == Encode(f)
           off == Off(f)
<1>1. f \in Seq(Octets) /\ n \in Nat /\ n >= 1 /\ n <= MAX /\ MAX \in Nat /\ k \in Nat /\ k <= n
  BY SlipAssumption
<1>2. Layout(f, E, off)
  BY EncodeIs
<1> HIDE DEF E, off
<1>3. /\ Len(E) \in Nat /\ Len(E) = off[n] + 2 /\ E[Len(E)] = "END" /\ off[n] \in Nat
      /\ off[k] \in 0..(Len(E) - 2)
  <2>1. Len(E) \in Nat
    BY <1>2, LenProperties DEF Layout
  <2>2. n \in 0..Len(f)
    BY <1>1
  <2>3. off[n] \in 0..(Len(E) - 2) /\ off[k] \in 0..(Len(E) - 2)
    BY <1>2, <2>2 DEF Layout
  <2>4. Len(E) = off[n] + 2 /\ E[Len(E)] = "END"
    BY <1>2 DEF Layout
  <2>5. QED
    BY <2>1, <2>3, <2>4
<1>4. /\ s.buf \in Seq(Octets) /\ Len(s.buf) = k /\ s.buf = SubSeq(f, 1, k)
  <2>1. \A i \in 1..k : f[i] \in Octets
    BY <1>1, ElementOfSeq
  <2>2. SubSeq(f, 1, k) \in Seq(Octets) /\ Len(SubSeq(f, 1, k)) = IF 1 <= k THEN k - 1 + 1 ELSE 0
    BY <1>1, <2>1, SubSeqProperties
  <2>3. QED
    BY <1>1, <2>2 DEF Reading
<1>5. CASE k = n
  <2>1. ~s.esc /\ t = off[n] + 1
    BY <1>1, <1>5 DEF Reading, off
  <2>2. t + 1 = Len(E) /\ E[t + 1] = "END" /\ t \in Nat /\ t < Len(E)
    BY <1>3, <2>1
  <2>3. s.buf = f
    BY <1>1, <1>4, <1>5, SubSeqFull
  <2>4. s.buf # <<>>
    BY <1>1, <1>4, <1>5, EmptySeq
  <2>5. s2 = Empty
    BY <2>2, <2>4, FeedEnd DEF Fed, E
  <2>6. QED
    BY <2>2, <2>3, <2>5 DEF E
<1>6. CASE k < n
  <2>1. PICK c \in Octets : c = f[k + 1]
    BY <1>1, <1>6, ElementOfSeq
  <2>2. PICK m : m = k + 1
    OBVIOUS
  <2>3. m \in 1..n /\ m - 1 = k /\ m \in 0..n /\ m \in Nat
    BY <1>1, <1>6, <2>2
  <2>4. /\ off[m] = off[k] + Width(c) /\ E[off[k] + 2] = First(c)
        /\ Special(c) => E[off[k] + 3] = Second(c)
        /\ off[m] \in 0..(Len(E) - 2)
    BY <1>2, <2>1, <2>2, <2>3 DEF Layout
  <2>5. Width(c) = (IF Special(c) THEN 2 ELSE 1)
    BY DEF Width
  <2>6. SubSeq(f, 1, m) = Append(s.buf, c)
    <3>1. 1 \in 1..Len(f) /\ m \in 1..Len(f)
      BY <1>1, <2>3
    <3>2. SubSeq(f, 1, m) = SubSeq(f, 1, m - 1) \o <<f[m]>>
      BY <1>1, <3>1, SubSeqRecursiveSecond
    <3>3. SubSeq(f, 1, m) = s.buf \o <<c>>
      BY <1>4, <2>1, <2>2, <2>3, <3>2
    <3>4. QED
      BY <1>4, <3>3, AppendIsConcat
  <2>7. Len(s.buf) < MAX
    BY <1>1, <1>4, <1>6
  <2>8. CASE ~s.esc
    <3>1. t = off[k] + 1 /\ t + 1 = off[k] + 2
      BY <1>3, <2>8 DEF Reading, off
    <3>2. t \in Nat /\ t < Len(E)
      BY <1>3, <3>1
    <3>3. E[t + 1] = First(c)
      BY <2>4, <3>1
    <3>4. First(c) \in Octets \ {"END"} /\ (First(c) = "ESC" <=> Special(c)) /\ (~Special(c) => First(c) = c)
      BY DEF First, Special, Octets
    <3>5. /\ Special(c) => s2.buf = s.buf /\ s2.esc
          /\ ~Special(c) => s2.buf = Append(s.buf, c) /\ ~s2.esc
      <4>1. s2 \in Fed(s, First(c))
        BY <3>3 DEF E
      <4>2. /\ First(c) = "ESC" => s2.buf = s.buf /\ s2.esc
            /\ First(c) # "ESC" => s2.buf = Append(s.buf, First(c)) /\ ~s2.esc
        BY <2>7, <2>8, <3>4, <4>1, FeedPlain
      <4>3. QED
        BY <3>4, <4>2
    <3>6. CASE Special(c)
      <4>1. t + 1 = off[k] + 2 /\ t + 1 < Len(E)
        BY <1>3, <2>4, <2>5, <3>1, <3>6
      <4>2. Reading(f, k, s2, t + 1)
        BY <1>4, <1>6, <2>1, <3>5, <3>6, <4>1 DEF Reading, off
      <4>3. QED
        BY <3>2, <3>3, <3>4, <4>1, <4>2 DEF E
    <3>7. CASE ~Special(c)
      <4>1. t + 1 = off[m] + 1 /\ t + 1 < Len(E)
        BY <1>3, <2>4, <2>5, <3>1, <3>7
      <4>2. Reading(f, m, s2, t + 1)
        BY <2>6, <3>5, <3>7, <4>1 DEF Reading, off
      <4>3. QED
        BY <2>3, <3>2, <3>3, <3>4, <4>1, <4>2 DEF E
    <3>8. QED
      BY <3>6, <3>7
  <2>9. CASE s.esc
    <3>1. t = off[k] + 2 /\ t + 1 = off[k] + 3 /\ Special(c)
      BY <1>3, <2>1, <2>9 DEF Reading, off
    <3>2. off[m] = off[k] + 2
      BY <2>4, <2>5, <3>1
    <3>3. t \in Nat /\ t < Len(E) /\ t + 1 = off[m] + 1 /\ t + 1 < Len(E)
      BY <1>3, <2>4, <3>1, <3>2
    <3>4. E[t + 1] = Second(c) /\ Second(c) # "END"
      BY <2>4, <3>1 DEF Second
    <3>5. s2.buf = Append(s.buf, c) /\ ~s2.esc
      <4>1. s2 \in Fed(s, Second(c))
        BY <3>4 DEF E
      <4>2. QED
        BY <2>7, <2>9, <3>1, <4>1, FeedEscaped
    <3>6. Reading(f, m, s2, t + 1)
      BY <2>6, <3>3, <3>5 DEF Reading, off
    <3>7. QED
      BY <2>3, <3>3, <3>4, <3>6 DEF E
  <2>10. QED
    BY <2>8, <2>9
<1>7. QED
  BY <1>1, <1>5, <1>6

-----------------------------------------------------------------------------
(* The decoder and the wire.                                               *)

WireOK == wire # <<>> => frame \in Frames /\ Piece(Encode(frame), wire)

\* Bytes of the frame's encoding that are gone from the wire.
Gone == Len(Encode(frame)) - Len(wire)

Afresh == wire # <<>> /\ Gone = 0
InStep == wire # <<>> /\ \E k \in 0..Len(frame) : Reading(frame, k, d, Gone)

\* The decoder holds nothing that the next frame would be joined to.
Synced == \/ d = Empty /\ (wire = <<>> \/ Afresh)
          \/ InStep

\* The decoder at the end that is followed.
LEMMA FeedIs ==
  ASSUME TypeOK, NEW b \in Octets
  PROVE  /\ Feed(b) \in Fed(d, b) /\ Feed(b) \in Decoders
         /\ side = "stick" => Len(Feed(b).buf) <= MAX
         /\ side = "stick" => Feed(b) = StickFeed(d, b)
<1>1. Feed(b) = IF side = "stick" THEN StickFeed(d, b) ELSE PumpFeed(d, b)
  BY DEF Feed
<1>2. d \in Decoders /\ (side = "stick" => Len(d.buf) <= MAX)
  BY DEF TypeOK, Decoders
<1>3. QED
  BY <1>1, <1>2, FeedType DEF Fed

\* A byte leaves the wire.
LEMMA WireMoves ==
  ASSUME TypeOK, WireOK, wire # <<>>, frame' = frame, wire' = Tail(wire)
  PROVE  /\ Gone \in Nat /\ Gone < Len(Encode(frame)) /\ Len(Encode(frame)) \in Nat
         /\ Head(wire) = Encode(frame)[Gone + 1] /\ Head(wire) \in Octets
         /\ WireOK' /\ wire' \in Seq(Octets)
         /\ Gone' = Gone + 1 /\ (wire' = <<>> <=> Gone + 1 = Len(Encode(frame)))
<1> DEFINE E == Encode(frame)
<1>1. frame \in Frames /\ Piece(E, wire)
  BY DEF WireOK
<1>2. E \in Seq(Octets)
  BY <1>1, EncodeIs DEF Layout
<1> HIDE DEF E
<1>3. /\ Len(E) \in Nat /\ Len(wire) \in 1..Len(E)
      /\ Head(wire) = E[(Len(E) - Len(wire)) + 1] /\ Head(wire) \in Octets
      /\ Piece(E, Tail(wire)) /\ Len(Tail(wire)) = Len(wire) - 1
      /\ (Tail(wire) = <<>> <=> Len(wire) = 1)
  BY <1>1, <1>2, PieceTail
<1>4. Gone = Len(E) - Len(wire)
  BY DEF Gone, E
<1>5. UNCHANGED E
  BY DEF E
<1>6. Gone' = Len(E) - Len(Tail(wire))
  BY <1>5 DEF Gone, E
<1>7. WireOK' /\ wire' \in Seq(Octets)
  <2>1. Piece(Encode(frame'), wire')
    BY <1>3 DEF E
  <2>2. QED
    BY <1>1, <2>1 DEF WireOK, Piece
<1>8. Gone \in Nat /\ Gone < Len(E) /\ Gone' = Gone + 1
  BY <1>3, <1>4, <1>6
<1>9. wire' = <<>> <=> Gone + 1 = Len(E)
  BY <1>3, <1>4
<1>10. QED
  BY <1>3, <1>4, <1>7, <1>8, <1>9 DEF E

\* From its first byte on, a frame is read by a decoder that is empty then.
LEMMA Begins ==
  ASSUME TypeOK, WireOK, Afresh, frame' = frame, wire' = Tail(wire), d' = Empty
  PROVE  InStep' /\ Head(wire) = "END"
<1>1. wire # <<>> /\ Gone = 0 /\ frame \in Frames
  BY DEF Afresh, WireOK
<1>2. /\ Head(wire) = Encode(frame)[Gone + 1] /\ Gone' = Gone + 1
      /\ (wire' = <<>> <=> Gone + 1 = Len(Encode(frame))) /\ Len(Encode(frame)) \in Nat
  BY <1>1, WireMoves
<1>3. Layout(frame, Encode(frame), Off(frame))
  BY <1>1, EncodeIs
<1>4. /\ Encode(frame)[1] = "END" /\ Off(frame)[0] = 0
      /\ Off(frame)[Len(frame)] \in Nat /\ Len(Encode(frame)) = Off(frame)[Len(frame)] + 2
  <2>1. Len(frame) \in Nat /\ Len(frame) \in 0..Len(frame)
    BY <1>1, SlipAssumption
  <2>2. Off(frame)[Len(frame)] \in 0..(Len(Encode(frame)) - 2)
    BY <1>3, <2>1 DEF Layout
  <2>3. QED
    BY <1>2, <1>3, <2>2 DEF Layout
<1>5. Head(wire) = "END" /\ wire' # <<>> /\ Gone' = 1
  BY <1>1, <1>2, <1>4
<1>6. Reading(frame, 0, d', Gone')
  <2>1. SubSeq(frame, 1, 0) = <<>>
    BY SubSeqEmpty
  <2>2. d'.buf = <<>> /\ ~d'.esc
    BY DEF Empty
  <2>3. QED
    BY <1>4, <1>5, <2>1, <2>2 DEF Reading
<1>7. 0 \in 0..Len(frame)
  BY <1>1, SlipAssumption
<1>8. QED
  BY <1>5, <1>6, <1>7 DEF InStep

\* A decoder in step stays so, until the END that hands the whole frame on.
LEMMA Goes ==
  ASSUME TypeOK, WireOK, InStep, frame' = frame, wire' = Tail(wire), d' = Feed(Head(wire))
  PROVE  \/ Head(wire) # "END" /\ InStep'
         \/ Head(wire) = "END" /\ wire' = <<>> /\ d.buf = frame /\ d' = Empty
<1>1. PICK k \in 0..Len(frame) : Reading(frame, k, d, Gone)
  BY DEF InStep
<1>2. wire # <<>> /\ frame \in Frames
  BY DEF InStep, WireOK
<1>3. /\ Head(wire) = Encode(frame)[Gone + 1] /\ Head(wire) \in Octets /\ Gone' = Gone + 1
      /\ (wire' = <<>> <=> Gone + 1 = Len(Encode(frame))) /\ Len(Encode(frame)) \in Nat
      /\ Gone \in Nat
  BY <1>2, WireMoves
<1>4. d' \in Fed(d, Encode(frame)[Gone + 1]) /\ d \in Decoders
  BY <1>3, FeedIs DEF TypeOK, Decoders
<1>5. \/ /\ Encode(frame)[Gone + 1] # "END" /\ Gone + 1 < Len(Encode(frame))
         /\ \E j \in 0..Len(frame) : Reading(frame, j, d', Gone + 1)
      \/ /\ Encode(frame)[Gone + 1] = "END" /\ Gone + 1 = Len(Encode(frame))
         /\ d.buf = frame /\ d' = Empty
  <2> DEFINE f == frame
             s == d
             g == Gone
             s2 == d'
  <2>1. f \in Frames /\ s \in Decoders /\ k \in 0..Len(f) /\ Reading(f, k, s, g)
        /\ s2 \in Fed(s, Encode(f)[g + 1])
    BY <1>1, <1>2, <1>4
  <2> HIDE DEF f, s, g, s2
  <2>2. \/ /\ Encode(f)[g + 1] # "END" /\ g + 1 < Len(Encode(f))
           /\ \E j \in 0..Len(f) : Reading(f, j, s2, g + 1)
        \/ /\ Encode(f)[g + 1] = "END" /\ g + 1 = Len(Encode(f))
           /\ s.buf = f /\ s2 = Empty
    BY <2>1, ReadOn
  <2>3. QED
    BY <2>2 DEF f, s, g, s2
<1>6. CASE /\ Encode(frame)[Gone + 1] # "END" /\ Gone + 1 < Len(Encode(frame))
           /\ \E j \in 0..Len(frame) : Reading(frame, j, d', Gone + 1)
  <2>1. wire' # <<>>
    BY <1>3, <1>6
  <2>2. \E j \in 0..Len(frame') : Reading(frame', j, d', Gone')
    BY <1>3, <1>6
  <2>3. QED
    BY <1>3, <1>6, <2>1, <2>2 DEF InStep
<1>7. QED
  BY <1>3, <1>5, <1>6

\* The byte before the last is not an ESC, and there is one between the two END.
LEMMA NoEscAtEnd ==
  ASSUME NEW f \in Frames
  PROVE  /\ Len(Encode(f)) \in Nat /\ Len(Encode(f)) > 2
         /\ Encode(f)[Len(Encode(f)) - 1] # "ESC"
<1> DEFINE E == Encode(f)
           off == Off(f)
           n == Len(f)
<1>1. f \in Seq(Octets) /\ n \in Nat \ {0} /\ n \in 1..n /\ n \in 0..n /\ n - 1 \in 0..n
  BY SlipAssumption
<1>2. Layout(f, E, off)
  BY EncodeIs
<1> HIDE DEF E, off
<1>3. /\ Len(E) = off[n] + 2 /\ off[n - 1] \in 0..(Len(E) - 2)
      /\ off[n] = off[n - 1] + Width(f[n])
      /\ E[off[n - 1] + 2] = First(f[n])
      /\ Special(f[n]) => E[off[n - 1] + 3] = Second(f[n])
  <2> HIDE DEF n
  <2> QED
    BY <1>1, <1>2 DEF Layout, n
<1>4. Len(E) \in Nat
  BY <1>2, LenProperties DEF Layout
<1>5. CASE Special(f[n])
  <2>1. Width(f[n]) = 2 /\ E[off[n - 1] + 3] \in {"ESC_END", "ESC_ESC"}
    BY <1>3, <1>5 DEF Width, Second
  <2>2. off[n - 1] \in Nat /\ Len(E) = off[n - 1] + 4 /\ Len(E) - 1 = off[n - 1] + 3
    BY <1>3, <1>4, <2>1
  <2>3. QED
    BY <1>4, <2>1, <2>2 DEF E
<1>6. CASE ~Special(f[n])
  <2>1. Width(f[n]) = 1 /\ E[off[n - 1] + 2] # "ESC"
    BY <1>3, <1>6 DEF Width, First, Special
  <2>2. off[n - 1] \in Nat /\ Len(E) = off[n - 1] + 3 /\ Len(E) - 1 = off[n - 1] + 2
    BY <1>3, <1>4, <2>1
  <2>3. QED
    BY <1>4, <2>1, <2>2 DEF E
<1>7. QED
  BY <1>5, <1>6

\* An escape stands open only behind an ESC, but for an END that found nothing.
LEMMA FeedEsc ==
  ASSUME NEW s, NEW b, b # "END", NEW s2 \in Fed(s, b), s2.esc
  PROVE  b = "ESC"
<1>1. CASE s2 = StickFeed(s, b)
  BY <1>1 DEF StickFeed, StickEnd, Empty
<1>2. CASE s2 = PumpFeed(s, b)
  BY <1>2 DEF PumpFeed, PumpEnd, Empty, AfterBadEscape
<1>3. QED
  BY <1>1, <1>2 DEF Fed

\* Only the first byte and the last are an END.
LEMMA EndIsEdge ==
  ASSUME TypeOK, WireOK, wire # <<>>, frame' = frame, wire' = Tail(wire), Head(wire) = "END"
  PROVE  Afresh \/ wire' = <<>>
<1>1. frame \in Frames
  BY DEF WireOK
<1>2. /\ Head(wire) = Encode(frame)[Gone + 1]
      /\ (wire' = <<>> <=> Gone + 1 = Len(Encode(frame))) /\ Len(Encode(frame)) \in Nat
      /\ Gone \in Nat /\ Gone < Len(Encode(frame))
  BY WireMoves
<1>3. \A p \in 2..(Len(Encode(frame)) - 1) : Encode(frame)[p] # "END"
  BY <1>1, EncodeIs DEF Layout
<1>4. Gone + 1 \notin 2..(Len(Encode(frame)) - 1)
  BY <1>2, <1>3
<1>5. QED
  BY <1>2, <1>4 DEF Afresh

-----------------------------------------------------------------------------
(* The inductive invariant.                                                *)

SentOK ==
  /\ sent > 0 => frame \in Frames
  /\ wire # <<>> => sent > 0
DamageOK == bogus <= faults /\ (bogus = faults => Synced)
Expected == IF Len(frame) >= MIN THEN <<frame>> ELSE <<>>
RoundOK == faults = 0 /\ sent > 0 => got = IF wire = <<>> THEN Expected ELSE <<>>
StickOK == side = "stick" /\ whole =>
  \/ Afresh \/ InStep
  \/ wire = <<>> /\ d = Empty /\ (Len(frame) >= MIN => got # <<>> /\ got[Len(got)] = frame)

\* Within a frame that has suffered nothing, an escape stands open only behind an ESC of
\* its own, one that was left over before it ends with its first byte: the END that
\* closes the frame leaves an empty decoder.
SettledOK == whole =>
  IF wire = <<>> THEN d = Empty
                 ELSE Gone >= 2 /\ d.esc => Encode(frame)[Gone] = "ESC"

\* The next frame is then read from its beginning to its end.
CleanOK == whole /\ before =>
  \/ Afresh /\ d = Empty /\ got = <<>>
  \/ InStep /\ got = <<>>
  \/ wire = <<>> /\ (sent > 0 => got = Expected)

IInv == /\ TypeOK /\ WireOK /\ SentOK /\ DamageOK /\ RoundOK /\ StickOK
        /\ SettledOK /\ CleanOK

LEMMA InitInv == Init => IInv
<1> SUFFICES ASSUME Init PROVE IInv
  OBVIOUS
<1>1. TypeOK
  <2>1. <<>> \in Seq(Octets) /\ <<>> \in Seq(Seq(Octets)) /\ Len(<<>>) = 0
    BY EmptySeq
  <2>2. Empty \in [buf : Seq(Octets), esc : BOOLEAN] /\ Empty.buf = <<>>
    BY <2>1 DEF Empty
  <2>3. 0 \in 0..MaxFrames /\ 0 \in 0..MaxFaults /\ 0 <= MAX
    BY SlipAssumption
  <2>4. QED
    BY <2>1, <2>2, <2>3 DEF Init, TypeOK
<1>2. WireOK /\ SentOK /\ RoundOK /\ StickOK
  <2>1. ~(Len(<<>>) >= MIN)
    BY EmptySeq, SlipAssumption
  <2>2. QED
    BY <2>1 DEF Init, WireOK, SentOK, RoundOK, StickOK
<1>3. DamageOK
  BY DEF Init, DamageOK, Synced
<1>4. SettledOK /\ CleanOK
  BY DEF Init, SettledOK, CleanOK
<1>5. QED
  BY <1>1, <1>2, <1>3, <1>4 DEF IInv

\* The next frame starts behind whatever the last one left.
LEMMA SendStep ==
  ASSUME IInv, NEW f \in Frames, Send(f)
  PROVE  IInv'
<1>1. /\ TypeOK /\ WireOK /\ SentOK /\ DamageOK /\ SettledOK
      /\ wire = <<>> /\ sent < MaxFrames /\ sent' = sent + 1 /\ frame' = f /\ wire' = Encode(f)
      /\ got' = <<>> /\ before' = whole /\ whole' = TRUE /\ UNCHANGED <<side, d, faults, bogus>>
  BY DEF IInv, Send
<1>2. f \in Seq(Octets) /\ Encode(f) \in Seq(Octets) /\ Len(Encode(f)) \in Nat /\ Len(Encode(f)) > 0
  <2>1. Layout(f, Encode(f), Off(f))
    BY EncodeIs
  <2>2. f \in Seq(Octets) /\ Len(f) \in Nat /\ Len(f) \in 0..Len(f)
    BY SlipAssumption
  <2>3. Encode(f) \in Seq(Octets) /\ Len(Encode(f)) = Off(f)[Len(f)] + 2
        /\ Off(f)[Len(f)] \in 0..(Len(Encode(f)) - 2)
    BY <2>1, <2>2 DEF Layout
  <2>4. Len(Encode(f)) \in Nat
    BY <2>3, LenProperties
  <2>5. QED
    BY <2>2, <2>3, <2>4
<1>3. wire' # <<>>
  <2>1. Len(<<>>) = 0
    BY EmptySeq
  <2>2. QED
    BY <1>1, <1>2, <2>1
<1>4. sent \in Nat /\ sent' \in 0..MaxFrames /\ sent' > 0
  <2>1. sent \in 0..MaxFrames /\ MaxFrames \in Nat
    BY <1>1, SlipAssumption DEF TypeOK
  <2>2. QED
    BY <1>1, <2>1
<1>5. TypeOK'
  <2>1. got' \in Seq(Seq(Octets))
    BY <1>1, EmptySeq
  <2>2. QED
    BY <1>1, <1>2, <1>4, <2>1 DEF TypeOK
<1>6. WireOK'
  BY <1>1, <1>2, PieceAll DEF WireOK
<1>7. SentOK'
  BY <1>1, <1>4 DEF SentOK
<1>8. Afresh'
  <2>1. Gone' = Len(Encode(f)) - Len(Encode(f))
    BY <1>1 DEF Gone
  <2>2. QED
    BY <1>2, <1>3, <2>1 DEF Afresh
<1>9. DamageOK'
  <2>1. Synced => d = Empty
    BY <1>1 DEF Synced, InStep
  <2>2. Synced => Synced'
    BY <1>1, <1>8, <2>1 DEF Synced
  <2>3. QED
    BY <1>1, <2>2 DEF DamageOK
<1>10. RoundOK' /\ StickOK'
  BY <1>1, <1>3, <1>8 DEF RoundOK, StickOK
<1>11. SettledOK' /\ CleanOK'
  BY <1>1, <1>8 DEF SettledOK, CleanOK, Afresh
<1>12. QED
  BY <1>5, <1>6, <1>7, <1>9, <1>10, <1>11 DEF IInv

\* A byte arrives.
LEMMA ArriveStep ==
  ASSUME IInv, Arrive
  PROVE  IInv'
<1> DEFINE b == Head(wire)
<1>1. /\ TypeOK /\ WireOK /\ SentOK /\ DamageOK /\ RoundOK /\ StickOK /\ SettledOK /\ CleanOK
      /\ wire # <<>> /\ wire' = Tail(wire) /\ d' = Feed(b)
      /\ UNCHANGED <<side, frame, sent, faults, whole, before>>
  BY DEF IInv, Arrive, Take, history
<1>2. IF HandedOn(b)
      THEN got' = Append(got, d.buf) /\ bogus' = IF d.buf = frame THEN bogus ELSE bogus + 1
      ELSE UNCHANGED <<got, bogus>>
  BY DEF Arrive, Take
<1>3. b \in Octets /\ WireOK' /\ wire' \in Seq(Octets)
  BY <1>1, WireMoves
<1>4. frame \in Frames /\ frame \in Seq(Octets) /\ Len(frame) \in Nat /\ MIN \in Nat \ {0}
  BY <1>1, SlipAssumption, LenProperties DEF WireOK
<1>5. /\ bogus \in Nat /\ faults \in Nat /\ d.buf \in Seq(Octets) /\ Len(d.buf) \in Nat
      /\ got \in Seq(Seq(Octets)) /\ side \in {"stick", "pump"}
  <2>1. faults \in 0..MaxFaults /\ MaxFaults \in Nat /\ Sides \subseteq {"stick", "pump"}
    BY <1>1, SlipAssumption DEF TypeOK
  <2>2. d.buf \in Seq(Octets)
    BY <1>1 DEF TypeOK
  <2>3. QED
    BY <1>1, <2>1, <2>2, LenProperties DEF TypeOK
<1> HIDE DEF b
<1>6. HandedOn(b) <=> b = "END" /\ Len(d.buf) >= MIN
  BY DEF HandedOn
<1>7. TypeOK'
  <2>1. d' \in Decoders /\ (side = "stick" => Len(d'.buf) <= MAX)
    BY <1>1, <1>3, FeedIs
  <2>2. got' \in Seq(Seq(Octets)) /\ bogus' \in Nat
    <3>1. Append(got, d.buf) \in Seq(Seq(Octets))
      BY <1>5, AppendProperties
    <3>2. bogus + 1 \in Nat
      BY <1>5
    <3>3. QED
      BY <1>2, <1>5, <3>1, <3>2
  <2>3. QED
    BY <1>1, <1>3, <2>1, <2>2 DEF TypeOK, Decoders
<1>8. SentOK'
  BY <1>1 DEF SentOK
\* The first byte of a frame hands nothing on to a decoder that held nothing.
<1>9. Len(Empty.buf) = 0
  BY EmptySeq DEF Empty
<1>10. ASSUME Afresh, d = Empty \/ side = "stick"
       PROVE  InStep' /\ b = "END" /\ (d = Empty => ~HandedOn(b))
  <2>1. b = "END"
    <3>1. Gone = 0 /\ b = Encode(frame)[Gone + 1]
      BY <1>1, <1>10, WireMoves DEF Afresh, b
    <3>2. Encode(frame)[1] = "END"
      BY <1>4, EncodeIs DEF Layout
    <3>3. QED
      BY <3>1, <3>2
  <2>2. d' = Empty
    BY <1>1, <1>10, <2>1, FeedEnd DEF Feed
  <2>3. InStep'
    BY <1>1, <1>10, <2>2, Begins
  <2>4. d = Empty => ~HandedOn(b)
    BY <1>4, <1>6, <1>9
  <2>5. QED
    BY <2>1, <2>3, <2>4
<1>11. ASSUME InStep
       PROVE  \/ b # "END" /\ ~HandedOn(b) /\ InStep'
              \/ /\ b = "END" /\ wire' = <<>> /\ d.buf = frame /\ d' = Empty
                 /\ HandedOn(b) <=> Len(frame) >= MIN
  BY <1>1, <1>6, <1>11, Goes DEF b
<1>12. DamageOK'
  <2>1. CASE bogus = faults
    <3>1. Synced
      BY <1>1, <2>1 DEF DamageOK
    <3>2. CASE Afresh /\ d = Empty
      BY <1>1, <1>2, <1>5, <1>10, <2>1, <3>2 DEF DamageOK, Synced
    <3>3. CASE InStep
      <4>1. Synced'
        BY <1>11, <3>3 DEF Synced
      <4>2. bogus' = bogus
        BY <1>2, <1>11, <3>3
      <4>3. QED
        BY <1>1, <2>1, <4>1, <4>2 DEF DamageOK
    <3>4. QED
      BY <1>1, <3>1, <3>2, <3>3 DEF Synced
  <2>2. CASE bogus # faults /\ ~HandedOn(b)
    BY <1>1, <1>2, <2>2 DEF DamageOK
  <2>3. CASE bogus # faults /\ HandedOn(b)
    <3>1. bogus' <= faults
      BY <1>1, <1>2, <1>5, <2>3 DEF DamageOK
    <3>2. b = "END" /\ d.buf # <<>>
      BY <1>4, <1>6, <2>3, EmptySeq
    <3>3. d' = Empty
      BY <1>1, <3>2, FeedEnd DEF Feed
    <3>4. Synced'
      <4>1. Afresh \/ wire' = <<>>
        BY <1>1, <3>2, EndIsEdge DEF b
      <4>2. Afresh => InStep'
        BY <1>1, <3>3, Begins
      <4>3. QED
        BY <3>3, <4>1, <4>2 DEF Synced
    <3>5. QED
      BY <1>1, <3>1, <3>4 DEF DamageOK
  <2>4. QED
    BY <2>1, <2>2, <2>3
<1>13. RoundOK'
  <2>1. SUFFICES ASSUME faults = 0, sent > 0
                 PROVE  got' = IF wire' = <<>> THEN Expected ELSE <<>>
    BY <1>1 DEF RoundOK, Expected
  <2>2. got = <<>> /\ Synced
    <3>1. bogus = faults
      BY <1>1, <1>5, <2>1 DEF DamageOK
    <3>2. QED
      BY <1>1, <2>1, <3>1 DEF RoundOK, DamageOK
  <2>3. CASE Afresh /\ d = Empty
    <3>1. wire' # <<>> /\ got' = got
      BY <1>2, <1>10, <2>3 DEF InStep
    <3>2. QED
      BY <2>2, <3>1
  <2>4. CASE InStep
    <3>1. CASE b # "END" /\ ~HandedOn(b) /\ InStep'
      BY <1>2, <2>2, <3>1 DEF InStep
    <3>2. CASE b = "END" /\ wire' = <<>> /\ d.buf = frame /\ (HandedOn(b) <=> Len(frame) >= MIN)
      <4>1. Append(<<>>, frame) = <<frame>>
        BY <1>4
      <4>2. QED
        BY <1>2, <2>2, <3>2, <4>1 DEF Expected
    <3>3. QED
      BY <1>11, <2>4, <3>1, <3>2
  <2>5. QED
    BY <1>1, <2>2, <2>3, <2>4 DEF Synced
<1>14. StickOK'
  <2>1. SUFFICES ASSUME side = "stick", whole
                 PROVE  \/ InStep'
                        \/ /\ wire' = <<>> /\ d' = Empty
                           /\ Len(frame) >= MIN => got' # <<>> /\ got'[Len(got')] = frame
    BY <1>1 DEF StickOK
  <2>2. Afresh \/ InStep
    BY <1>1, <2>1 DEF StickOK
  <2>3. CASE Afresh
    BY <1>10, <2>1, <2>3
  <2>4. CASE InStep
    <3>1. CASE b = "END" /\ wire' = <<>> /\ d.buf = frame /\ d' = Empty
               /\ (HandedOn(b) <=> Len(frame) >= MIN)
      <4>1. \A e \in Seq(Octets) : /\ Append(got, e) # <<>>
                                   /\ Append(got, e)[Len(Append(got, e))] = e
        <5>1. TAKE e \in Seq(Octets)
        <5>2. /\ Append(got, e) # <<>> /\ Len(Append(got, e)) = Len(got) + 1
              /\ Append(got, e)[Len(got) + 1] = e
          BY <1>5, AppendProperties
        <5>3. QED
          BY <5>2
      <4>2. QED
        BY <1>2, <1>4, <3>1, <4>1
    <3>2. QED
      BY <1>11, <2>4, <3>1
  <2>5. QED
    BY <2>2, <2>3, <2>4
<1>15. SettledOK'
  <2>1. SUFFICES ASSUME whole
                 PROVE  IF wire' = <<>> THEN d' = Empty
                        ELSE Gone' >= 2 /\ d'.esc => Encode(frame)[Gone'] = "ESC"
    BY <1>1 DEF SettledOK
  <2>2. /\ Gone \in Nat /\ Gone < Len(Encode(frame)) /\ Len(Encode(frame)) \in Nat
        /\ b = Encode(frame)[Gone + 1] /\ Gone' = Gone + 1
        /\ wire' = <<>> <=> Gone + 1 = Len(Encode(frame))
    BY <1>1, WireMoves DEF b
  <2>3. Len(Encode(frame)) > 2 /\ Encode(frame)[Len(Encode(frame)) - 1] # "ESC"
    BY <1>4, NoEscAtEnd
  <2>4. CASE wire' = <<>>
    <3>1. b = "END"
      <4>1. Encode(frame)[Len(Encode(frame))] = "END"
        BY <1>4, EncodeIs DEF Layout
      <4>2. QED
        BY <2>2, <2>4, <4>1
    <3>2. Gone >= 2 /\ Encode(frame)[Gone] # "ESC"
      BY <2>2, <2>3, <2>4
    <3>3. ~d.esc
      BY <1>1, <2>1, <3>2 DEF SettledOK
    <3>4. d.buf # <<>> \/ d = Empty
      BY <1>1, <3>3 DEF TypeOK, Empty
    <3>5. d' = Empty
      BY <1>1, <3>1, <3>4, FeedEnd DEF Feed
    <3>6. QED
      BY <2>4, <3>5
  <2>5. CASE wire' # <<>>
    <3>1. SUFFICES ASSUME Gone' >= 2, d'.esc PROVE Encode(frame)[Gone'] = "ESC"
      BY <2>5
    <3>2. b # "END"
      <4>1. \A p \in 2..(Len(Encode(frame)) - 1) : Encode(frame)[p] # "END"
        BY <1>4, EncodeIs DEF Layout
      <4>2. Gone + 1 \in 2..(Len(Encode(frame)) - 1)
        BY <2>2, <2>5, <3>1
      <4>3. QED
        BY <2>2, <4>1, <4>2
    <3>3. d' \in Fed(d, b)
      BY <1>1, <1>3, FeedIs
    <3>4. b = "ESC"
      BY <3>1, <3>2, <3>3, FeedEsc
    <3>5. QED
      BY <2>2, <3>4
  <2>6. QED
    BY <2>4, <2>5
<1>16. CleanOK'
  <2>1. SUFFICES ASSUME whole, before
                 PROVE  \/ InStep' /\ got' = <<>>
                        \/ wire' = <<>> /\ got' = Expected
    BY <1>1 DEF CleanOK, Expected
  <2>2. CASE Afresh /\ d = Empty /\ got = <<>>
    BY <1>2, <1>10, <2>2
  <2>3. CASE InStep /\ got = <<>>
    <3>1. CASE b # "END" /\ ~HandedOn(b) /\ InStep'
      BY <1>2, <2>3, <3>1
    <3>2. CASE b = "END" /\ wire' = <<>> /\ d.buf = frame /\ (HandedOn(b) <=> Len(frame) >= MIN)
      <4>1. Append(<<>>, frame) = <<frame>>
        BY <1>4
      <4>2. QED
        BY <1>2, <2>3, <3>2, <4>1 DEF Expected
    <3>3. QED
      BY <1>11, <2>3, <3>1, <3>2
  <2>4. QED
    BY <1>1, <2>1, <2>2, <2>3 DEF CleanOK
<1>17. QED
  BY <1>3, <1>7, <1>8, <1>12, <1>13, <1>14, <1>15, <1>16 DEF IInv

\* A fault: whatever the decoder then holds, the fault pays for it.
LEMMA FaultStep ==
  ASSUME IInv, Fault, TypeOK', WireOK', frame' = frame, sent' = sent,
         bogus' = bogus, wire' # <<>> => sent > 0
  PROVE  IInv'
<1>1. bogus \in Nat /\ faults \in Nat /\ faults' = faults + 1 /\ bogus <= faults
  <2>1. faults \in 0..MaxFaults /\ bogus \in Nat /\ MaxFaults \in Nat
    BY SlipAssumption DEF IInv, TypeOK
  <2>2. QED
    BY <2>1 DEF IInv, DamageOK, Fault
<1>2. DamageOK' /\ RoundOK'
  BY <1>1 DEF DamageOK, RoundOK
<1>3. StickOK' /\ SentOK' /\ SettledOK' /\ CleanOK'
  BY DEF IInv, Fault, StickOK, SentOK, SettledOK, CleanOK
<1>4. QED
  BY <1>2, <1>3 DEF IInv

\* One fault more is still within the bound.
LEMMA FaultType ==
  ASSUME TypeOK, Fault
  PROVE  faults' \in 0..MaxFaults
<1>1. faults \in 0..MaxFaults /\ MaxFaults \in Nat
  BY SlipAssumption DEF TypeOK
<1>2. QED
  BY <1>1 DEF Fault

\* The four faults.
LEMMA LoseStep ==
  ASSUME IInv, NEW k \in 1..Len(wire), Lose(k)
  PROVE  IInv'
<1>1. /\ TypeOK /\ WireOK /\ SentOK /\ Fault /\ k \in 1..Len(wire)
      /\ wire' = SubSeq(wire, k + 1, Len(wire)) /\ whole' = FALSE /\ before' = before
      /\ UNCHANGED <<side, frame, d, got, sent, bogus>>
  BY DEF IInv, Lose, Fault
<1>2. wire # <<>>
  <2>1. Len(<<>>) = 0
    BY EmptySeq
  <2>2. Len(wire) # 0
    BY <1>1
  <2>3. QED
    BY <2>1, <2>2
<1>3. frame \in Frames /\ Piece(Encode(frame), wire) /\ sent > 0
  BY <1>1, <1>2 DEF WireOK, SentOK
<1>4. Encode(frame) \in Seq(Octets)
  BY <1>3, EncodeIs DEF Layout
<1>5. wire' \in Seq(Octets) /\ Piece(Encode(frame), wire')
  BY <1>1, <1>3, <1>4, PieceCut
<1>6. TypeOK'
  BY <1>1, <1>5, FaultType DEF TypeOK
<1>7. WireOK'
  BY <1>1, <1>3, <1>5 DEF WireOK
<1>8. QED
  BY <1>1, <1>3, <1>6, <1>7, FaultStep

LEMMA NoMemoryStep ==
  ASSUME IInv, NoMemory
  PROVE  IInv'
<1>1. /\ TypeOK /\ WireOK /\ SentOK /\ Fault /\ wire # <<>> /\ wire' = Tail(wire)
      /\ d' = Feed(Head(wire)) /\ whole' = FALSE /\ before' = before
      /\ UNCHANGED <<side, frame, got, sent, bogus>>
  BY DEF IInv, NoMemory, Fault
<1>2. Head(wire) \in Octets /\ WireOK' /\ wire' \in Seq(Octets)
  BY <1>1, WireMoves
<1>3. d' \in Decoders /\ (side = "stick" => Len(d'.buf) <= MAX)
  BY <1>1, <1>2, FeedIs
<1>4. TypeOK'
  BY <1>1, <1>2, <1>3, FaultType DEF TypeOK, Decoders
<1>5. sent > 0
  BY <1>1 DEF SentOK
<1>6. QED
  BY <1>1, <1>2, <1>4, <1>5, FaultStep

LEMMA BannerStep ==
  ASSUME IInv, Banner
  PROVE  IInv'
<1>1. /\ TypeOK /\ WireOK /\ SentOK /\ Fault /\ side = "pump" /\ d' = Feed("x")
      /\ whole' = FALSE /\ before' = before /\ UNCHANGED <<side, frame, wire, got, sent, bogus>>
  BY DEF IInv, Banner, Take, HandedOn, Fault
<1>2. d' \in Decoders
  BY <1>1, FeedIs DEF Octets
<1>3. TypeOK'
  BY <1>1, <1>2, FaultType DEF TypeOK, Decoders
<1>4. WireOK'
  BY <1>1 DEF WireOK
<1>5. QED
  BY <1>1, <1>3, <1>4, FaultStep DEF SentOK

LEMMA ReopenStep ==
  ASSUME IInv, Reopen
  PROVE  IInv'
<1>1. /\ TypeOK /\ Fault /\ d' = Empty /\ wire' = <<>> /\ whole' = FALSE /\ before' = before
      /\ UNCHANGED <<side, frame, got, sent, bogus>>
  BY DEF IInv, Reopen, Fault
<1>2. <<>> \in Seq(Octets) /\ Len(<<>>) = 0 /\ MAX \in Nat
  BY EmptySeq, SlipAssumption
<1>3. Empty \in [buf : Seq(Octets), esc : BOOLEAN] /\ Empty.buf = <<>>
  BY <1>2 DEF Empty
<1>4. TypeOK'
  <2>1. d' \in [buf : Seq(Octets), esc : BOOLEAN] /\ Len(d'.buf) <= MAX
    BY <1>1, <1>2, <1>3
  <2>2. QED
    BY <1>1, <1>2, <2>1, FaultType DEF TypeOK
<1>5. WireOK'
  BY <1>1 DEF WireOK
<1>6. QED
  BY <1>1, <1>4, <1>5, FaultStep

LEMMA StepInv == IInv /\ [Next]_vars => IInv'
<1> SUFFICES ASSUME IInv, [Next]_vars PROVE IInv'
  OBVIOUS
<1>1. ASSUME NEW f \in Frames, Send(f) PROVE IInv'
  BY <1>1, SendStep
<1>2. CASE Arrive
  BY <1>2, ArriveStep
<1>3. CASE NoMemory
  BY <1>3, NoMemoryStep
<1>4. CASE Banner
  BY <1>4, BannerStep
<1>5. CASE Reopen
  BY <1>5, ReopenStep
<1>6. ASSUME NEW k \in 1..Len(wire), Lose(k) PROVE IInv'
  BY <1>6, LoseStep
<1>7. CASE UNCHANGED vars
  <2>1. UNCHANGED <<TypeOK, WireOK, SentOK>>
    BY <1>7 DEF vars, history, TypeOK, WireOK, SentOK
  <2>2. UNCHANGED <<Gone, Afresh, InStep, Synced>>
    BY <1>7 DEF vars, Afresh, InStep, Synced, Gone
  <2>3. UNCHANGED <<DamageOK, RoundOK, StickOK, SettledOK, CleanOK>>
    BY <1>7, <2>2 DEF vars, history, DamageOK, RoundOK, StickOK, SettledOK, CleanOK, Expected
  <2>4. QED
    BY <2>1, <2>3 DEF IInv
<1>8. QED
  BY <1>1, <1>2, <1>3, <1>4, <1>5, <1>6, <1>7 DEF Next

THEOREM Invariance == Spec => []IInv
BY InitInv, StepInv, PTL DEF Spec

\* The buffers and counts of both decoders keep their types, and the stick's buffer never
\* grows beyond the longest frame, for all frames, sizes and bounds on the faults.
THEOREM TypeCorrect == Spec => []TypeOK
<1>1. IInv => TypeOK
  BY DEF IInv
<1>2. QED
  BY <1>1, Invariance, PTL

\* Both decoders undo both encoders over a port that loses nothing, for every frame of
\* every length up to the longest, several in a row.
THEOREM EncodingUndone == Spec => []RoundTrip
<1>1. IInv => RoundTrip
  BY DEF IInv, RoundOK, RoundTrip, Expected
<1>2. QED
  BY <1>1, Invariance, PTL

\* The stick hands on every frame of which nothing was lost, whatever was lost before it.
THEOREM StickResynchronises == Spec => []StickFindsFrames
<1>1. ASSUME IInv PROVE StickFindsFrames
  BY <1>1 DEF IInv, StickOK, StickFindsFrames, Afresh, InStep
<1>2. QED
  BY <1>1, Invariance, PTL

\* A fault of the port spoils its own frame and at most the next: behind a frame that has
\* suffered nothing both decoders are empty, whatever they held when it began.
THEOREM DamageEnds == Spec => []DamageIsLocal
<1>1. IInv => DamageIsLocal
  BY DEF IInv, CleanOK, DamageIsLocal, Afresh, InStep, Expected
<1>2. QED
  BY <1>1, Invariance, PTL

\* Frames that nobody sent are handed on at most once for each fault, at either end.
THEOREM FakesAreFew == Spec => []FewFakes
<1>1. IInv => FewFakes
  BY DEF IInv, DamageOK, FewFakes
<1>2. QED
  BY <1>1, Invariance, PTL
=============================================================================
