-------------------------- MODULE ServerStore_proofs --------------------------
(***************************************************************************)
(* Proofs about ServerFile and ServerStore, for every value of the         *)
(* constants: what LoadFromBuffer makes of the cells that SaveToFile       *)
(* wrote, for files of any sizes; and what programs find in files that     *)
(* others wrote, for any number of paths and of programs.                  *)
(***************************************************************************)
EXTENDS ServerStore, SequenceTheorems, Numbers


-----------------------------------------------------------------------------
(* Sequences that are put end to end *)

LEMMA ConcatCells ==
    ASSUME NEW S, NEW s \in Seq(S), NEW t \in Seq(S)
    PROVE  s \o t \in Seq(S) /\ Len(s \o t) = Len(s) + Len(t)
  BY ConcatProperties, Zenon

\* Two parts are what has their cells.
LEMMA TwoParts ==
    ASSUME NEW S, NEW s \in Seq(S), NEW t \in Seq(S), NEW u \in Seq(S),
           Len(u) = Len(s) + Len(t),
           \A i \in 1 .. Len(s) + Len(t) : u[i] = IF i <= Len(s) THEN s[i] ELSE t[i - Len(s)]
    PROVE  s \o t = u
<1>1. /\ s \o t \in Seq(S) /\ Len(s \o t) = Len(s) + Len(t)
      /\ \A i \in 1 .. Len(s) + Len(t) :
            (s \o t)[i] = IF i <= Len(s) THEN s[i] ELSE t[i - Len(s)]
  BY ConcatProperties, Zenon
<1> DEFINE v == s \o t
<1>2. v \in Seq(S) /\ Len(v) = Len(u) /\ \A i \in 1 .. Len(v) : v[i] = u[i]
  BY <1>1, Zenon
<1> HIDE DEF v
<1>3. v = u
  BY <1>2, SeqEqual, Zenon
<1> QED BY <1>3 DEF v

\* The function that FlattenSeq takes the last value of.
Joins(f, seqs, n) ==
    f = [i \in 1 .. n |-> IF i = 1 THEN seqs[i] ELSE f[i - 1] \o seqs[i]]

LEMMA JoinsAt ==
    ASSUME NEW f, NEW seqs, NEW n, Joins(f, seqs, n), NEW i \in 1 .. n
    PROVE  f[i] = IF i = 1 THEN seqs[i] ELSE f[i - 1] \o seqs[i]
  BY Zenon DEF Joins

\* There is one, of any length.
LEMMA JoinsExist ==
    ASSUME NEW seqs
    PROVE  \A n \in Nat : \E f : Joins(f, seqs, n)
<1> DEFINE T == {n \in Nat : \E f : Joins(f, seqs, n)}
<1>1. 0 \in T
  <2> DEFINE none == [i \in 1 .. 0 |-> seqs]
  <2>1. Joins(none, seqs, 0)
    BY DEF Joins
  <2> QED BY <2>1
<1>2. ASSUME NEW n \in Nat, n \in T
      PROVE  n + 1 \in T
  <2>1. PICK f : Joins(f, seqs, n)
    BY <1>2
  <2> DEFINE g == [i \in 1 .. n + 1 |->
                     IF i <= n THEN f[i] ELSE IF i = 1 THEN seqs[i] ELSE f[i - 1] \o seqs[i]]
  <2>2. ASSUME NEW i \in 1 .. n + 1
        PROVE  g[i] = IF i = 1 THEN seqs[i] ELSE g[i - 1] \o seqs[i]
    <3>1. CASE i <= n
      <4>0. i \in 1 .. n
        BY <3>1
      <4>1. f[i] = IF i = 1 THEN seqs[i] ELSE f[i - 1] \o seqs[i]
        BY <2>1, <4>0, JoinsAt
      <4>2. g[i] = f[i] /\ (i # 1 => g[i - 1] = f[i - 1])
        BY <3>1
      <4> QED BY <4>1, <4>2
    <3>2. CASE i = n + 1
      <4>1. i # 1 => g[i - 1] = f[i - 1]
        BY <3>2
      <4> QED BY <4>1, <3>2
    <3> QED BY <3>1, <3>2
  <2>3. Joins(g, seqs, n + 1)
    BY <2>2, Zenon DEF Joins
  <2> QED BY <2>3
<1> HIDE DEF T
<1>3. \A n \in Nat : n \in T
  BY <1>1, <1>2, NatInd
<1> QED BY <1>3 DEF T

\* Multiples, as the provers need them.
LEMMA Multiples ==
    /\ \A c, i \in Nat : c * i \in Nat
    /\ \A c, i \in Nat : c * (i + 1) = c * i + c
    /\ \A c, i, k \in Nat : i <= k => c * i <= c * k
<1>1. \A c, i \in Nat : c * i \in Nat
  OBVIOUS
<1>2. \A c, i \in Nat : c * (i + 1) = c * i + c
  OBVIOUS
<1>3. \A c, i, k \in Nat : i <= k => c * i <= c * k
  OBVIOUS
<1> QED BY <1>1, <1>2, <1>3

\* What parts of one length, put end to end, come to.
Uniform(flat, S, seqs, c, n) ==
    /\ flat \in Seq(S) /\ Len(flat) = c * n
    /\ \A k \in 1 .. n, j \in 1 .. c : flat[c * (k - 1) + j] = seqs[k][j]

LEMMA JoinsUniform ==
    ASSUME NEW S, NEW n \in Nat, NEW c \in Nat, NEW seqs, NEW f, Joins(f, seqs, n),
           \A k \in 1 .. n : seqs[k] \in Seq(S) /\ Len(seqs[k]) = c
    PROVE  \A i \in 1 .. n : Uniform(f[i], S, seqs, c, i)
<1> DEFINE T == {i \in Nat : i \in 1 .. n => Uniform(f[i], S, seqs, c, i)}
<1>1. 0 \in T
  OBVIOUS
<1>2. ASSUME NEW m \in Nat, m \in T
      PROVE  m + 1 \in T
  <2>1. SUFFICES ASSUME m + 1 \in 1 .. n
                 PROVE  Uniform(f[m + 1], S, seqs, c, m + 1)
    OBVIOUS
  <2>2. f[m + 1] = IF m = 0 THEN seqs[m + 1] ELSE f[m] \o seqs[m + 1]
    <3>1. m + 1 - 1 = m /\ (m + 1 = 1 <=> m = 0)
      OBVIOUS
    <3> QED BY <2>1, <3>1, JoinsAt
  <2>3. seqs[m + 1] \in Seq(S) /\ Len(seqs[m + 1]) = c
    BY <2>1
  <2>4. CASE m = 0
    <3>1. f[m + 1] = seqs[m + 1]
      BY <2>2, <2>4
    <3>2. c * (m + 1) = c
      BY <2>4
    <3>3. ASSUME NEW k \in 1 .. m + 1, NEW j \in 1 .. c
          PROVE  f[m + 1][c * (k - 1) + j] = seqs[k][j]
      <4>1. k = m + 1 /\ c * (k - 1) + j = j
        BY <2>4
      <4> QED BY <4>1, <3>1
    <3> QED BY <3>1, <3>2, <3>3, <2>3 DEF Uniform
  <2>5. CASE m # 0
    <3>1. m \in 1 .. n /\ f[m + 1] = f[m] \o seqs[m + 1]
      <4>1. m \in 1 .. n
        BY <2>1, <2>5
      <4>2. f[m + 1] = f[m] \o seqs[m + 1]
        BY <2>2, <2>5, Zenon
      <4> QED BY <4>1, <4>2
    <3>2. Uniform(f[m], S, seqs, c, m)
      BY <3>1, <1>2
    <3>3. /\ f[m] \in Seq(S) /\ Len(f[m]) = c * m /\ c * m \in Nat
          /\ c * (m + 1) = c * m + c
      BY <3>2, Multiples DEF Uniform
    <3>4. /\ f[m + 1] \in Seq(S) /\ Len(f[m + 1]) = c * m + c
          /\ \A q \in 1 .. c * m + c :
                f[m + 1][q] = IF q <= c * m THEN f[m][q] ELSE seqs[m + 1][q - c * m]
      <4> DEFINE s1 == f[m]
                 s2 == seqs[m + 1]
      <4>1. s1 \in Seq(S) /\ s2 \in Seq(S) /\ Len(s1) = c * m /\ Len(s2) = c
        BY <3>3, <2>3
      <4> HIDE DEF s1, s2
      <4>2. /\ s1 \o s2 \in Seq(S) /\ Len(s1 \o s2) = c * m + c
            /\ \A q \in 1 .. c * m + c :
                  (s1 \o s2)[q] = IF q <= c * m THEN s1[q] ELSE s2[q - c * m]
        <5> DEFINE d == c * m
        <5>1. Len(s1) = d /\ d + c = c * m + c
          BY <4>1
        <5> HIDE DEF d
        <5>2. /\ s1 \o s2 \in Seq(S) /\ Len(s1 \o s2) = d + c
              /\ \A q \in 1 .. d + c : (s1 \o s2)[q] = IF q <= d THEN s1[q] ELSE s2[q - d]
          BY <4>1, <5>1, ConcatProperties, Zenon
        <5> QED BY <5>2 DEF d
      <4> QED BY <4>2, <3>1 DEF s1, s2
    <3>5. ASSUME NEW k \in 1 .. m + 1, NEW j \in 1 .. c
          PROVE  f[m + 1][c * (k - 1) + j] = seqs[k][j]
      <4>1. CASE k = m + 1
        <5>1. c * (k - 1) = c * m
          BY <4>1
        <5> DEFINE q == c * m + j
        <5>2. q \in 1 .. c * m + c /\ ~(q <= c * m) /\ q - c * m = j
          BY <3>3
        <5>3. f[m + 1][q] = seqs[m + 1][q - c * m]
          BY <5>2, <3>4
        <5> QED BY <5>1, <5>2, <5>3, <4>1
      <4>2. CASE k # m + 1
        <5>1. k \in 1 .. m /\ k - 1 \in Nat
          BY <4>2
        <5> DEFINE q == c * (k - 1) + j
        <5>2. c * (k - 1) \in Nat /\ c * (k - 1) + c = c * (k - 1 + 1) /\ c * k <= c * m
          BY <5>1, Multiples
        <5>3. k - 1 + 1 = k
          OBVIOUS
        <5>4. q \in 1 .. c * m + c /\ q <= c * m
          <6> DEFINE low == c * (k - 1)
                     mid == c * m
          <6>1. low \in Nat /\ mid \in Nat /\ low + c <= mid
            BY <5>2, <5>3, <3>3
          <6> HIDE DEF low, mid
          <6>2. low + j \in 1 .. mid + c /\ low + j <= mid
            BY <6>1
          <6> QED BY <6>2 DEF low, mid
        <5>5. f[m + 1][q] = f[m][q]
          BY <5>4, <3>4
        <5>6. f[m][c * (k - 1) + j] = seqs[k][j]
          BY <5>1, <3>2 DEF Uniform
        <5> QED BY <5>5, <5>6
      <4> QED BY <4>1, <4>2
    <3> QED BY <3>3, <3>4, <3>5 DEF Uniform
  <2> QED BY <2>4, <2>5
<1> HIDE DEF T
<1>3. \A m \in Nat : m \in T
  BY <1>1, <1>2, NatInd
<1> QED BY <1>3 DEF T

LEMMA FlattenUniform ==
    ASSUME NEW S, NEW c \in Nat, NEW seqs \in Seq(Seq(S)),
           \A k \in 1 .. Len(seqs) : Len(seqs[k]) = c
    PROVE  Uniform(FlattenSeq(seqs), S, seqs, c, Len(seqs))
<1> DEFINE n == Len(seqs)
           f  == CHOOSE ff : ff = [i \in 1 .. n |-> IF i = 1 THEN seqs[i] ELSE ff[i - 1] \o seqs[i]]
<1>1. n \in Nat /\ \A k \in 1 .. n : seqs[k] \in Seq(S)
  BY LenProperties, ElementOfSeq
<1>2. CASE n = 0
  <2>1. FlattenSeq(seqs) = seqs /\ seqs = <<>>
    BY <1>2, LenProperties DEF FlattenSeq
  <2> QED BY <2>1, <1>2 DEF Uniform
<1>3. CASE n # 0
  <2>1. FlattenSeq(seqs) = f[n]
    BY <1>3, Zenon DEF FlattenSeq
  <2>2. Joins(f, seqs, n)
    <3>1. PICK g : Joins(g, seqs, n)
      BY <1>1, JoinsExist
    <3> QED BY <3>1, Zenon DEF Joins
  <2> HIDE DEF f
  <2>3. Uniform(f[n], S, seqs, c, n)
    BY <1>1, <1>3, <2>2, JoinsUniform
  <2> QED BY <2>1, <2>3
<1> QED BY <1>2, <1>3

-----------------------------------------------------------------------------
(* Buffers that hold some cells at some place *)

Holds(b, p, cells) ==
    \A i \in 1 .. Len(cells) : p + i - 1 <= Len(b) /\ b[p + i - 1] = cells[i]

LEMMA HoldsItself ==
    ASSUME NEW S, NEW b \in Seq(S)
    PROVE  Holds(b, 1, b)
  BY LenProperties DEF Holds

LEMMA HoldsRead ==
    ASSUME NEW S, NEW b, NEW p \in Nat \ {0}, NEW cells \in Seq(S), Holds(b, p, cells),
           NEW i \in 1 .. Len(cells)
    PROVE  At(b, p + i - 1) = cells[i] /\ DataAt(b, p + i - 1) = cells[i]
  BY DEF Holds, At, DataAt

LEMMA HoldsConcat ==
    ASSUME NEW S, NEW b, NEW p \in Nat \ {0}, NEW s \in Seq(S), NEW t \in Seq(S),
           Holds(b, p, s \o t)
    PROVE  Holds(b, p, s) /\ p + Len(s) \in Nat \ {0} /\ Holds(b, p + Len(s), t)
<1>1. Len(s) \in Nat /\ Len(t) \in Nat
  BY LenProperties
<1>2. /\ Len(s \o t) = Len(s) + Len(t)
      /\ \A i \in 1 .. Len(s) + Len(t) :
            (s \o t)[i] = IF i <= Len(s) THEN s[i] ELSE t[i - Len(s)]
  BY ConcatProperties, Zenon
<1>3. \A i \in 1 .. Len(s) + Len(t) : p + i - 1 <= Len(b) /\ b[p + i - 1] = (s \o t)[i]
  BY <1>2 DEF Holds
<1>4. Holds(b, p, s)
  BY <1>1, <1>2, <1>3 DEF Holds
<1>5. ASSUME NEW i \in 1 .. Len(t)
      PROVE  p + Len(s) + i - 1 <= Len(b) /\ b[p + Len(s) + i - 1] = t[i]
  <2> DEFINE q == Len(s) + i
  <2>1. q \in 1 .. Len(s) + Len(t) /\ ~(q <= Len(s)) /\ q - Len(s) = i
        /\ p + q - 1 = p + Len(s) + i - 1
    BY <1>1
  <2> HIDE DEF q
  <2> QED BY <2>1, <1>2, <1>3
<1> QED BY <1>1, <1>4, <1>5 DEF Holds

LEMMA HoldsFlat ==
    ASSUME NEW S, NEW b, NEW p \in Nat \ {0}, NEW c \in Nat, NEW n \in Nat, NEW seqs, NEW flat,
           Uniform(flat, S, seqs, c, n), Holds(b, p, flat), NEW k \in 1 .. n,
           seqs[k] \in Seq(S), Len(seqs[k]) = c
    PROVE  p + c * (k - 1) \in Nat \ {0} /\ Holds(b, p + c * (k - 1), seqs[k])
<1> DEFINE d == c * (k - 1)
<1>1. d \in Nat /\ d + c <= c * n
  <2>1. k - 1 \in Nat /\ k - 1 + 1 = k /\ k \in Nat /\ k <= n
    OBVIOUS
  <2>2. c * (k - 1) \in Nat /\ c * (k - 1 + 1) = c * (k - 1) + c /\ c * k <= c * n
    BY <2>1, Multiples
  <2> QED BY <2>1, <2>2
<1>2. \A j \in 1 .. c : flat[d + j] = seqs[k][j]
  BY DEF Uniform
<1>3. Len(flat) = c * n /\ c * n \in Nat
  BY Multiples DEF Uniform
<1> HIDE DEF d
<1>4. ASSUME NEW j \in 1 .. c
      PROVE  p + d + j - 1 <= Len(b) /\ b[p + d + j - 1] = seqs[k][j]
  <2>1. d + j \in 1 .. Len(flat) /\ p + (d + j) - 1 = p + d + j - 1
    BY <1>1, <1>3
  <2> QED BY <2>1, <1>2 DEF Holds
<1>5. p + d \in Nat \ {0} /\ Holds(b, p + d, seqs[k])
  BY <1>1, <1>4 DEF Holds
<1> QED BY <1>5 DEF d

-----------------------------------------------------------------------------
(* Polynomials *)

LEMMA PolyCells ==
    ASSUME NEW S, Nat \subseteq S, NEW data \in S
    PROVE  Poly(data) \in Seq(S) /\ Len(Poly(data)) = 3
  BY DEF Poly

LEMMA PolyLoads ==
    ASSUME NEW S, Nat \subseteq S, NEW data \in S,
           NEW b, NEW p \in Nat \ {0}, Holds(b, p, Poly(data))
    PROVE  PolyAt(b, p) = data
<1>1. Poly(data) \in Seq(S) /\ Len(Poly(data)) = 3
  BY PolyCells
<1>2. At(b, p) = 1 /\ At(b, p + 1) = 1 /\ DataAt(b, p + 2) = data
  <2>1. ASSUME NEW i \in 1 .. 3
        PROVE  At(b, p + i - 1) = Poly(data)[i] /\ DataAt(b, p + i - 1) = Poly(data)[i]
    <3>1. i \in 1 .. Len(Poly(data))
      BY <1>1
    <3> QED BY <3>1 DEF Holds, At, DataAt
  <2>2. Poly(data)[1] = 1 /\ Poly(data)[2] = 1 /\ Poly(data)[3] = data
    BY DEF Poly
  <2>3. p + 1 - 1 = p /\ p + 2 - 1 = p + 1 /\ p + 3 - 1 = p + 2
    OBVIOUS
  <2> QED BY <2>1, <2>2, <2>3
<1> QED BY <1>2 DEF PolyAt

LEMMA PolysCells ==
    ASSUME NEW S, Nat \subseteq S, NEW polys \in Seq(S)
    PROVE  LET seqs == [j \in DOMAIN polys |-> Poly(polys[j])]
           IN  /\ seqs \in Seq(Seq(S)) /\ Len(seqs) = Len(polys)
               /\ \A j \in 1 .. Len(polys) : seqs[j] = Poly(polys[j]) /\ Len(seqs[j]) = 3
               /\ Uniform(FlattenSeq(seqs), S, seqs, 3, Len(polys))
               /\ Polys(polys) = <<Len(polys)>> \o FlattenSeq(seqs)
               /\ Polys(polys) \in Seq(S) /\ Len(Polys(polys)) = 1 + 3 * Len(polys)
<1> DEFINE seqs == [j \in DOMAIN polys |-> Poly(polys[j])]
<1>1. Len(polys) \in Nat /\ DOMAIN polys = 1 .. Len(polys)
      /\ \A j \in 1 .. Len(polys) : polys[j] \in S
  BY LenProperties, ElementOfSeq
<1>2. \A j \in 1 .. Len(polys) : seqs[j] \in Seq(S) /\ Len(seqs[j]) = 3
  BY <1>1, PolyCells
<1>3. seqs \in Seq(Seq(S)) /\ Len(seqs) = Len(polys)
  BY <1>1, <1>2
<1>4. \A j \in 1 .. Len(polys) : seqs[j] = Poly(polys[j])
  BY <1>1
<1>5. Polys(polys) = <<Len(polys)>> \o FlattenSeq(seqs)
  BY DEF Polys
<1> HIDE DEF seqs
<1>6. Uniform(FlattenSeq(seqs), S, seqs, 3, Len(polys))
  BY <1>2, <1>3, FlattenUniform
<1>7. FlattenSeq(seqs) \in Seq(S) /\ Len(FlattenSeq(seqs)) = 3 * Len(polys)
  BY <1>6 DEF Uniform
<1>8. <<Len(polys)>> \in Seq(S) /\ Len(<<Len(polys)>>) = 1
  BY <1>1
<1>9. Polys(polys) \in Seq(S) /\ Len(Polys(polys)) = 1 + 3 * Len(polys)
  <2> DEFINE head == <<Len(polys)>>
             flat == FlattenSeq(seqs)
  <2>1. head \in Seq(S) /\ Len(head) = 1 /\ flat \in Seq(S) /\ Len(flat) = 3 * Len(polys)
    BY <1>7, <1>8
  <2> HIDE DEF head, flat
  <2>2. head \o flat \in Seq(S) /\ Len(head \o flat) = Len(head) + Len(flat)
    BY <2>1, ConcatCells, Zenon
  <2> QED BY <1>5, <2>1, <2>2 DEF head, flat
<1> QED BY <1>2, <1>3, <1>4, <1>5, <1>6, <1>9 DEF seqs

\* A list of polynomials is read back, and found to end where it ends.
LEMMA PolysLoads ==
    ASSUME NEW S, Nat \subseteq S, NEW polys \in Seq(S),
           NEW b, NEW p \in Nat \ {0}, Holds(b, p, Polys(polys))
    PROVE  /\ At(b, p) = Len(polys) /\ PolysAt(b, p) = polys
           /\ AfterPolys(b, p) = p + 1 + 3 * Len(polys)
<1> DEFINE seqs == [j \in DOMAIN polys |-> Poly(polys[j])]
           flat == FlattenSeq(seqs)
<1>1. /\ \A j \in 1 .. Len(polys) : seqs[j] = Poly(polys[j]) /\ Len(seqs[j]) = 3
      /\ Uniform(flat, S, seqs, 3, Len(polys))
      /\ Polys(polys) = <<Len(polys)>> \o flat
  BY PolysCells, Zenon
<1>2. Len(polys) \in Nat /\ \A j \in 1 .. Len(polys) : polys[j] \in S
  BY LenProperties, ElementOfSeq
<1> HIDE DEF seqs, flat
<1>3. flat \in Seq(S)
  BY <1>1 DEF Uniform
<1>4. <<Len(polys)>> \in Seq(S) /\ Len(<<Len(polys)>>) = 1
  BY <1>2
<1>5. Holds(b, p, <<Len(polys)>>) /\ Holds(b, p + 1, flat)
  <2> DEFINE head == <<Len(polys)>>
  <2>1. head \in Seq(S) /\ Len(head) = 1 /\ Holds(b, p, head \o flat)
    BY <1>1, <1>4
  <2> HIDE DEF head
  <2>2. Holds(b, p, head) /\ Holds(b, p + Len(head), flat)
    BY <1>3, <2>1, HoldsConcat
  <2> QED BY <2>1, <2>2 DEF head
<1>6. At(b, p) = Len(polys)
  BY <1>5 DEF Holds, At
<1>7. ASSUME NEW j \in 1 .. Len(polys)
      PROVE  PolyAt(b, PolyStart(p, j)) = polys[j]
  <2>1. Poly(polys[j]) \in Seq(S) /\ seqs[j] \in Seq(S) /\ Len(seqs[j]) = 3
    BY <1>1, <1>2, PolyCells
  <2>2. p + 1 \in Nat \ {0}
    OBVIOUS
  <2>3. p + 1 + 3 * (j - 1) \in Nat \ {0} /\ Holds(b, p + 1 + 3 * (j - 1), seqs[j])
    BY <1>1, <1>2, <1>5, <2>1, <2>2, HoldsFlat
  <2>4. PolyStart(p, j) = p + 1 + 3 * (j - 1)
    BY DEF PolyStart
  <2> QED BY <1>1, <1>2, <2>3, <2>4, PolyLoads
<1>8. PolysAt(b, p) = [j \in 1 .. Len(polys) |-> polys[j]]
  BY <1>6, <1>7 DEF PolysAt
<1>9. polys = [j \in 1 .. Len(polys) |-> polys[j]]
  BY LenProperties
<1> QED BY <1>6, <1>8, <1>9 DEF AfterPolys

-----------------------------------------------------------------------------
(* Slices and shards *)

Outputs(S) == [a : S, t : [1 .. Digits -> S]]
SliceLen == 4 + 3 * Digits

LEMMA SliceCells ==
    ASSUME NEW S, Nat \subseteq S, NEW out \in Outputs(S)
    PROVE  /\ out.a \in S /\ out.t \in Seq(S) /\ Len(out.t) = Digits
           /\ SliceLen \in Nat
           /\ Slice(out) \in Seq(S) /\ Len(Slice(out)) = SliceLen
<1>1. Digits \in Nat /\ SliceLen \in Nat
  BY FileAssumption DEF SliceLen
<1>2. out.a \in S /\ out.t \in [1 .. Digits -> S]
  BY DEF Outputs
<1>3. out.t \in Seq(S) /\ Len(out.t) = Digits
  BY <1>1, <1>2
<1>4. Poly(out.a) \in Seq(S) /\ Len(Poly(out.a)) = 3
  BY <1>2, PolyCells
<1>5. Polys(out.t) \in Seq(S) /\ Len(Polys(out.t)) = 1 + 3 * Len(out.t)
  BY <1>3, PolysCells
<1>6. Slice(out) \in Seq(S) /\ Len(Slice(out)) = SliceLen
  <2>1. Slice(out) = Poly(out.a) \o Polys(out.t)
    BY DEF Slice
  <2>2. 3 + (1 + 3 * Digits) = SliceLen
    BY <1>1 DEF SliceLen
  <2> DEFINE one == Poly(out.a)
             two == Polys(out.t)
  <2>3. one \in Seq(S) /\ Len(one) = 3 /\ two \in Seq(S) /\ Len(two) = 1 + 3 * Digits
    BY <1>3, <1>4, <1>5
  <2> HIDE DEF one, two
  <2>4. one \o two \in Seq(S) /\ Len(one \o two) = 3 + (1 + 3 * Digits)
    <3>1. one \o two \in Seq(S) /\ Len(one \o two) = Len(one) + Len(two)
      BY <2>3, ConcatCells, Zenon
    <3> QED BY <2>3, <3>1
  <2> QED BY <2>1, <2>2, <2>4 DEF one, two
<1> QED BY <1>1, <1>2, <1>3, <1>6

LEMMA SliceLoads ==
    ASSUME NEW S, Nat \subseteq S, NEW out \in Outputs(S),
           NEW b, NEW p \in Nat \ {0}, Holds(b, p, Slice(out))
    PROVE  SliceAt(b, p) = out /\ AfterPolys(b, p + 3) = p + SliceLen
<1>1. /\ out.a \in S /\ out.t \in Seq(S) /\ Len(out.t) = Digits
  BY SliceCells
<1>2. Poly(out.a) \in Seq(S) /\ Len(Poly(out.a)) = 3 /\ Polys(out.t) \in Seq(S)
  BY <1>1, PolyCells, PolysCells
<1>3. Holds(b, p, Poly(out.a)) /\ p + 3 \in Nat \ {0} /\ Holds(b, p + 3, Polys(out.t))
  BY <1>2, HoldsConcat DEF Slice
<1>4. PolyAt(b, p) = out.a
  BY <1>1, <1>3, PolyLoads
<1>5. PolysAt(b, p + 3) = out.t /\ AfterPolys(b, p + 3) = p + 3 + 1 + 3 * Digits
  BY <1>1, <1>3, PolysLoads
<1>6. out = [a |-> out.a, t |-> out.t]
  BY DEF Outputs
<1>7. p + 3 + 1 + 3 * Digits = p + SliceLen
  BY FileAssumption DEF SliceLen
<1> QED BY <1>4, <1>5, <1>6, <1>7 DEF SliceAt

\* A count, and then as many parts of one length.
LEMMA CountedLoads ==
    ASSUME NEW S, Nat \subseteq S, NEW n \in Nat, NEW c \in Nat, NEW seqs,
           \A k \in 1 .. n : seqs[k] \in Seq(S) /\ Len(seqs[k]) = c,
           NEW flat, Uniform(flat, S, seqs, c, n),
           NEW b, NEW p \in Nat \ {0}, Holds(b, p, <<n>> \o flat)
    PROVE  /\ At(b, p) = n
           /\ \A k \in 1 .. n : /\ p + 1 + c * (k - 1) \in Nat \ {0}
                                /\ Holds(b, p + 1 + c * (k - 1), seqs[k])
<1> DEFINE head == <<n>>
<1>1. head \in Seq(S) /\ Len(head) = 1 /\ head[1] = n /\ flat \in Seq(S)
  BY DEF Uniform
<1> HIDE DEF head
<1>2. Holds(b, p, head) /\ Holds(b, p + Len(head), flat)
  BY <1>1, HoldsConcat DEF head
<1>3. Holds(b, p + 1, flat) /\ p + 1 \in Nat \ {0}
  BY <1>1, <1>2
<1>4. At(b, p) = n
  BY <1>1, <1>2 DEF Holds, At
<1>5. ASSUME NEW k \in 1 .. n
      PROVE  /\ p + 1 + c * (k - 1) \in Nat \ {0}
             /\ Holds(b, p + 1 + c * (k - 1), seqs[k])
  BY <1>3, HoldsFlat
<1> QED BY <1>4, <1>5

ShardLen == 1 + SliceLen * Slices

LEMMA ShardCells ==
    ASSUME NEW S, Nat \subseteq S, NEW slices \in [1 .. Slices -> Outputs(S)]
    PROVE  LET seqs == [i \in DOMAIN slices |-> Slice(slices[i])]
           IN  /\ \A i \in 1 .. Slices : seqs[i] = Slice(slices[i])
               /\ \A i \in 1 .. Slices : seqs[i] \in Seq(S) /\ Len(seqs[i]) = SliceLen
               /\ Uniform(FlattenSeq(seqs), S, seqs, SliceLen, Slices)
               /\ Shard(slices) = <<Slices>> \o FlattenSeq(seqs)
               /\ ShardLen \in Nat
               /\ Shard(slices) \in Seq(S) /\ Len(Shard(slices)) = ShardLen
<1> DEFINE seqs == [i \in DOMAIN slices |-> Slice(slices[i])]
<1>1. Slices \in Nat /\ SliceLen \in Nat
  BY FileAssumption DEF SliceLen
<1>2. Len(slices) = Slices /\ DOMAIN slices = 1 .. Slices
      /\ \A i \in 1 .. Slices : slices[i] \in Outputs(S)
  BY <1>1
<1>3. \A i \in 1 .. Slices : seqs[i] \in Seq(S) /\ Len(seqs[i]) = SliceLen
  BY <1>2, SliceCells
<1>4. seqs \in Seq(Seq(S)) /\ Len(seqs) = Slices
  BY <1>1, <1>2, <1>3
<1>5. \A i \in 1 .. Slices : seqs[i] = Slice(slices[i])
  BY <1>2
<1>6. Shard(slices) = <<Slices>> \o FlattenSeq(seqs)
  BY <1>2 DEF Shard
<1> HIDE DEF seqs
<1>7. Uniform(FlattenSeq(seqs), S, seqs, SliceLen, Slices)
  BY <1>1, <1>3, <1>4, FlattenUniform
<1>8. ShardLen \in Nat
  BY <1>1, Multiples DEF ShardLen
<1>9. Shard(slices) \in Seq(S) /\ Len(Shard(slices)) = ShardLen
  <2> DEFINE head == <<Slices>>
             flat == FlattenSeq(seqs)
  <2>1. head \in Seq(S) /\ Len(head) = 1 /\ flat \in Seq(S) /\ Len(flat) = SliceLen * Slices
    BY <1>1, <1>7 DEF Uniform
  <2> HIDE DEF head, flat
  <2>2. head \o flat \in Seq(S) /\ Len(head \o flat) = Len(head) + Len(flat)
    BY <2>1, ConcatCells, Zenon
  <2> QED BY <1>6, <2>1, <2>2 DEF head, flat, ShardLen
<1> QED BY <1>3, <1>5, <1>6, <1>7, <1>8, <1>9 DEF seqs

\* Where the slices are, if they are there.
LEMMA SliceStartsAt ==
    ASSUME NEW b, NEW p \in Nat, NEW n \in Nat, At(b, p) = n, SliceLen \in Nat,
           \A i \in 1 .. n :
               AfterPolys(b, p + 1 + SliceLen * (i - 1) + 3) = p + 1 + SliceLen * (i - 1) + SliceLen
    PROVE  \A i \in 0 .. n : SliceStarts(b, p)[i] = p + 1 + SliceLen * i
<1> DEFINE Fits(f) == f = [i \in 0 .. n |-> IF i = 0 THEN p + 1 ELSE AfterPolys(b, f[i - 1] + 3)]
           there == [i \in 0 .. n |-> p + 1 + SliceLen * i]
           start == SliceStarts(b, p)
<1>1. ASSUME NEW i \in 0 .. n
      PROVE  there[i] = IF i = 0 THEN p + 1 ELSE AfterPolys(b, there[i - 1] + 3)
  <2>1. CASE i = 0
    BY <2>1
  <2>2. CASE i # 0
    <3>1. i \in 1 .. n /\ i - 1 \in 0 .. n /\ i - 1 \in Nat /\ i - 1 + 1 = i
      BY <2>2
    <3>2. SliceLen * (i - 1 + 1) = SliceLen * (i - 1) + SliceLen /\ SliceLen * (i - 1) \in Nat
      BY <3>1, Multiples
    <3>3. there[i - 1] = p + 1 + SliceLen * (i - 1)
      BY <3>1
    <3>4. AfterPolys(b, there[i - 1] + 3) = p + 1 + SliceLen * (i - 1) + SliceLen
      BY <3>1, <3>3
    <3> HIDE DEF there
    <3>5. there[i] = p + 1 + SliceLen * i
      BY DEF there
    <3> QED BY <2>2, <3>1, <3>2, <3>4, <3>5
  <2> QED BY <2>1, <2>2
<1>2. Fits(there)
  BY <1>1, Zenon
<1>3. Fits(start)
  BY <1>2, Zenon DEF SliceStarts
<1> HIDE DEF start
<1>4. ASSUME NEW i \in 0 .. n
      PROVE  start[i] = IF i = 0 THEN p + 1 ELSE AfterPolys(b, start[i - 1] + 3)
  BY <1>3, Zenon
<1> DEFINE T == {i \in Nat : i \in 0 .. n => start[i] = there[i]}
<1>5. 0 \in T
  <2>1. 0 \in 0 .. n
    OBVIOUS
  <2>2. start[0] = p + 1 /\ there[0] = p + 1
    BY <1>1, <1>4, <2>1, Zenon
  <2> QED BY <2>2
<1>6. ASSUME NEW m \in Nat, m \in T
      PROVE  m + 1 \in T
  <2>1. SUFFICES ASSUME m + 1 \in 0 .. n
                 PROVE  start[m + 1] = there[m + 1]
    OBVIOUS
  <2>2. m \in 0 .. n /\ m + 1 # 0 /\ m + 1 - 1 = m
    BY <2>1
  <2>3. start[m] = there[m]
    BY <1>6, <2>2
  <2> HIDE DEF there
  <2> QED BY <1>1, <1>4, <2>1, <2>2, <2>3
<1> HIDE DEF T
<1>7. \A m \in Nat : m \in T
  BY <1>5, <1>6, NatInd
<1> HIDE DEF there
<1>8. \A i \in 0 .. n : start[i] = there[i]
  <2> SUFFICES ASSUME NEW i \in 0 .. n
               PROVE  start[i] = there[i]
    OBVIOUS
  <2>1. i \in Nat /\ i \in T
    BY <1>7
  <2> QED BY <2>1 DEF T
<1> QED BY <1>8 DEF start, there

\* A shard is read back, and found to end where it ends.
LEMMA ShardLoads ==
    ASSUME NEW S, Nat \subseteq S, NEW slices \in [1 .. Slices -> Outputs(S)],
           NEW b, NEW p \in Nat \ {0}, Holds(b, p, Shard(slices))
    PROVE  /\ ShardAt(b, p) = slices
           /\ SliceStarts(b, p)[At(b, p)] = p + ShardLen
<1> DEFINE seqs == [i \in DOMAIN slices |-> Slice(slices[i])]
           flat == FlattenSeq(seqs)
<1>1. /\ \A i \in 1 .. Slices : seqs[i] = Slice(slices[i])
      /\ \A i \in 1 .. Slices : seqs[i] \in Seq(S) /\ Len(seqs[i]) = SliceLen
      /\ Uniform(flat, S, seqs, SliceLen, Slices)
      /\ Shard(slices) = <<Slices>> \o flat
  BY ShardCells, Zenon
<1>2. Slices \in Nat \ {0} /\ SliceLen \in Nat
  BY FileAssumption DEF SliceLen
<1> HIDE DEF seqs, flat
<1>3. /\ At(b, p) = Slices
      /\ \A i \in 1 .. Slices : /\ p + 1 + SliceLen * (i - 1) \in Nat \ {0}
                                /\ Holds(b, p + 1 + SliceLen * (i - 1), seqs[i])
  <2>1. Holds(b, p, <<Slices>> \o flat)
    BY <1>1
  <2> QED BY <1>1, <1>2, <2>1, CountedLoads
<1>4. ASSUME NEW i \in 1 .. Slices
      PROVE  LET q == p + 1 + SliceLen * (i - 1)
             IN  SliceAt(b, q) = slices[i] /\ AfterPolys(b, q + 3) = q + SliceLen
  <2> DEFINE q == p + 1 + SliceLen * (i - 1)
  <2>1. slices[i] \in Outputs(S) /\ q \in Nat \ {0} /\ Holds(b, q, Slice(slices[i]))
    BY <1>1, <1>3
  <2> HIDE DEF q
  <2>2. SliceAt(b, q) = slices[i] /\ AfterPolys(b, q + 3) = q + SliceLen
    BY <2>1, SliceLoads
  <2> QED BY <2>2 DEF q
<1>5. \A i \in 0 .. Slices : SliceStarts(b, p)[i] = p + 1 + SliceLen * i
  <2>1. \A i \in 1 .. Slices :
            AfterPolys(b, p + 1 + SliceLen * (i - 1) + 3) = p + 1 + SliceLen * (i - 1) + SliceLen
    BY <1>4
  <2> QED BY <1>2, <1>3, <2>1, SliceStartsAt
<1>6. SliceStarts(b, p)[At(b, p)] = p + ShardLen
  <2>1. SliceStarts(b, p)[Slices] = p + 1 + SliceLen * Slices /\ SliceLen * Slices \in Nat
    BY <1>2, <1>5, Multiples
  <2> QED BY <1>3, <2>1 DEF ShardLen
<1>7. \A i \in 1 .. Slices : SliceAt(b, SliceStarts(b, p)[i - 1]) = slices[i]
  <2> SUFFICES ASSUME NEW i \in 1 .. Slices
               PROVE  SliceAt(b, SliceStarts(b, p)[i - 1]) = slices[i]
    OBVIOUS
  <2>1. SliceStarts(b, p)[i - 1] = p + 1 + SliceLen * (i - 1)
    BY <1>2, <1>5
  <2> QED BY <1>4, <2>1
<1>8. ShardAt(b, p) = [i \in 1 .. Slices |-> slices[i]]
  BY <1>3, <1>7 DEF ShardAt
<1> QED BY <1>6, <1>8

-----------------------------------------------------------------------------
(* The packing outputs of all shards *)

OutputLen == 2 + ShardLen * Shards

LEMMA OutputCellsOf ==
    ASSUME NEW S, Nat \subseteq S, NEW outs \in [1 .. Shards -> [1 .. Slices -> Outputs(S)]]
    PROVE  LET seqs == [k \in DOMAIN outs |-> Shard(outs[k])]
           IN  /\ \A k \in 1 .. Shards : seqs[k] = Shard(outs[k])
               /\ \A k \in 1 .. Shards : seqs[k] \in Seq(S) /\ Len(seqs[k]) = ShardLen
               /\ Uniform(FlattenSeq(seqs), S, seqs, ShardLen, Shards)
               /\ OutputCells(outs) = <<1, Shards>> \o FlattenSeq(seqs)
               /\ OutputLen \in Nat
               /\ OutputCells(outs) \in Seq(S) /\ Len(OutputCells(outs)) = OutputLen
<1> DEFINE seqs == [k \in DOMAIN outs |-> Shard(outs[k])]
<1>1. Shards \in Nat /\ ShardLen \in Nat
  <2>1. Shards \in Nat /\ Slices \in Nat /\ SliceLen \in Nat
    BY FileAssumption DEF SliceLen
  <2> QED BY <2>1, Multiples DEF ShardLen
<1>2. Len(outs) = Shards /\ DOMAIN outs = 1 .. Shards
      /\ \A k \in 1 .. Shards : outs[k] \in [1 .. Slices -> Outputs(S)]
  BY <1>1
<1>3. \A k \in 1 .. Shards : seqs[k] \in Seq(S) /\ Len(seqs[k]) = ShardLen
  BY <1>2, ShardCells, Zenon
<1>4. seqs \in Seq(Seq(S)) /\ Len(seqs) = Shards
  BY <1>1, <1>2, <1>3
<1>5. \A k \in 1 .. Shards : seqs[k] = Shard(outs[k])
  BY <1>2
<1>6. OutputCells(outs) = <<1, Shards>> \o FlattenSeq(seqs)
  BY <1>2 DEF OutputCells
<1> HIDE DEF seqs
<1>7. Uniform(FlattenSeq(seqs), S, seqs, ShardLen, Shards)
  BY <1>1, <1>3, <1>4, FlattenUniform
<1>8. OutputLen \in Nat
  BY <1>1, Multiples DEF OutputLen
<1>9. OutputCells(outs) \in Seq(S) /\ Len(OutputCells(outs)) = OutputLen
  <2> DEFINE head == <<1, Shards>>
             flat == FlattenSeq(seqs)
  <2>1. head \in Seq(S) /\ Len(head) = 2 /\ flat \in Seq(S) /\ Len(flat) = ShardLen * Shards
    BY <1>1, <1>7 DEF Uniform
  <2> HIDE DEF head, flat
  <2>2. head \o flat \in Seq(S) /\ Len(head \o flat) = Len(head) + Len(flat)
    BY <2>1, ConcatCells, Zenon
  <2> QED BY <1>6, <2>1, <2>2 DEF head, flat, OutputLen
<1> QED BY <1>3, <1>5, <1>6, <1>7, <1>8, <1>9 DEF seqs

\* Where the shards are, if they are there.
LEMMA ShardStartsAt ==
    ASSUME NEW b, OutputStart(b) \in Nat, At(b, OutputStart(b) + 1) \in Nat, ShardLen \in Nat,
           \A k \in 1 .. At(b, OutputStart(b) + 1) :
               LET q == OutputStart(b) + 2 + ShardLen * (k - 1)
               IN  SliceStarts(b, q)[At(b, q)] = q + ShardLen
    PROVE  \A k \in 0 .. At(b, OutputStart(b) + 1) :
               ShardStarts(b)[k] = OutputStart(b) + 2 + ShardLen * k
<1> DEFINE o == OutputStart(b)
           n == At(b, o + 1)
           Fits(f) == f = [k \in 0 .. n |-> IF k = 0 THEN o + 2
                                            ELSE SliceStarts(b, f[k - 1])[At(b, f[k - 1])]]
           there == [k \in 0 .. n |-> o + 2 + ShardLen * k]
           start == ShardStarts(b)
<1>0. /\ o \in Nat /\ n \in Nat /\ ShardLen \in Nat
      /\ \A k \in 1 .. n : LET q == o + 2 + ShardLen * (k - 1)
                          IN  SliceStarts(b, q)[At(b, q)] = q + ShardLen
  OBVIOUS
<1> HIDE DEF o, n
<1>1. ASSUME NEW k \in 0 .. n
      PROVE  there[k] = IF k = 0 THEN o + 2
                        ELSE SliceStarts(b, there[k - 1])[At(b, there[k - 1])]
  <2>1. CASE k = 0
    BY <1>0, <2>1
  <2>2. CASE k # 0
    <3>1. k \in 1 .. n /\ k - 1 \in 0 .. n /\ k - 1 \in Nat /\ k - 1 + 1 = k
      BY <1>0, <2>2
    <3>2. ShardLen * (k - 1 + 1) = ShardLen * (k - 1) + ShardLen /\ ShardLen * (k - 1) \in Nat
      BY <1>0, <3>1, Multiples
    <3>3. there[k - 1] = o + 2 + ShardLen * (k - 1)
      BY <3>1
    <3>4. SliceStarts(b, there[k - 1])[At(b, there[k - 1])] = o + 2 + ShardLen * (k - 1) + ShardLen
      BY <1>0, <3>1, <3>3
    <3> HIDE DEF there
    <3>5. there[k] = o + 2 + ShardLen * k
      BY DEF there
    <3> QED BY <1>0, <2>2, <3>1, <3>2, <3>4, <3>5
  <2> QED BY <2>1, <2>2
<1>2. Fits(there)
  BY <1>1, Zenon
<1>3. Fits(start)
  BY <1>2, Zenon DEF ShardStarts, o, n
<1> HIDE DEF start
<1>4. ASSUME NEW k \in 0 .. n
      PROVE  start[k] = IF k = 0 THEN o + 2
                        ELSE SliceStarts(b, start[k - 1])[At(b, start[k - 1])]
  BY <1>3, Zenon
<1> DEFINE T == {k \in Nat : k \in 0 .. n => start[k] = there[k]}
<1>5. 0 \in T
  <2>1. 0 \in 0 .. n
    BY <1>0
  <2>2. start[0] = o + 2 /\ there[0] = o + 2
    BY <1>0, <1>1, <1>4, <2>1, Zenon
  <2> QED BY <2>2
<1>6. ASSUME NEW m \in Nat, m \in T
      PROVE  m + 1 \in T
  <2>1. SUFFICES ASSUME m + 1 \in 0 .. n
                 PROVE  start[m + 1] = there[m + 1]
    OBVIOUS
  <2>2. m \in 0 .. n /\ m + 1 # 0 /\ m + 1 - 1 = m
    BY <1>0, <2>1
  <2>3. start[m] = there[m]
    BY <1>6, <2>2
  <2> HIDE DEF there
  <2> QED BY <1>1, <1>4, <2>1, <2>2, <2>3
<1> HIDE DEF T
<1>7. \A m \in Nat : m \in T
  BY <1>5, <1>6, NatInd
<1> HIDE DEF there
<1>8. \A k \in 0 .. n : start[k] = there[k]
  <2> SUFFICES ASSUME NEW k \in 0 .. n
               PROVE  start[k] = there[k]
    OBVIOUS
  <2>1. k \in Nat /\ k \in T
    BY <1>0, <1>7
  <2> QED BY <2>1 DEF T
<1> QED BY <1>8 DEF start, there, o, n

\* The outputs are read back, and found to end where they end.
LEMMA OutputsLoad ==
    ASSUME NEW S, Nat \subseteq S, NEW outs \in [1 .. Shards -> [1 .. Slices -> Outputs(S)]],
           NEW b, OutputStart(b) \in Nat \ {0}, Holds(b, OutputStart(b), OutputCells(outs))
    PROVE  OutsAt(b) = outs /\ SecondStart(b) = OutputStart(b) + OutputLen
<1> DEFINE seqs == [k \in DOMAIN outs |-> Shard(outs[k])]
           flat == FlattenSeq(seqs)
           o    == OutputStart(b)
           head == <<1, Shards>>
<1>1. /\ \A k \in 1 .. Shards : seqs[k] = Shard(outs[k])
      /\ \A k \in 1 .. Shards : seqs[k] \in Seq(S) /\ Len(seqs[k]) = ShardLen
      /\ Uniform(flat, S, seqs, ShardLen, Shards)
      /\ OutputCells(outs) = head \o flat
  BY OutputCellsOf, Zenon
<1>2. Shards \in Nat \ {0} /\ ShardLen \in Nat
  <2>1. Shards \in Nat \ {0} /\ Slices \in Nat /\ SliceLen \in Nat
    BY FileAssumption DEF SliceLen
  <2> QED BY <2>1, Multiples DEF ShardLen
<1> HIDE DEF seqs, flat, o
<1>3. head \in Seq(S) /\ Len(head) = 2 /\ head[2] = Shards /\ flat \in Seq(S) /\ o \in Nat \ {0}
  BY <1>1, <1>2 DEF Uniform, o
<1> HIDE DEF head
<1>4. Holds(b, o, head) /\ Holds(b, o + Len(head), flat)
  <2>1. Holds(b, o, head \o flat)
    BY <1>1 DEF o
  <2> QED BY <1>3, <2>1, HoldsConcat
<1>5. Holds(b, o + 2, flat) /\ o + 2 \in Nat \ {0}
  BY <1>3, <1>4
<1>6. At(b, o + 1) = Shards
  <2>1. o + 2 - 1 <= Len(b) /\ b[o + 2 - 1] = Shards /\ o + 2 - 1 = o + 1
    BY <1>3, <1>4 DEF Holds
  <2> QED BY <2>1 DEF At
<1>7. ASSUME NEW k \in 1 .. Shards
      PROVE  LET q == o + 2 + ShardLen * (k - 1)
             IN  ShardAt(b, q) = outs[k] /\ SliceStarts(b, q)[At(b, q)] = q + ShardLen
  <2> DEFINE q == o + 2 + ShardLen * (k - 1)
  <2>1. q \in Nat \ {0} /\ Holds(b, q, seqs[k])
    BY <1>1, <1>2, <1>5, HoldsFlat
  <2>2. outs[k] \in [1 .. Slices -> Outputs(S)] /\ Holds(b, q, Shard(outs[k]))
    BY <1>1, <2>1
  <2> HIDE DEF q
  <2>3. ShardAt(b, q) = outs[k] /\ SliceStarts(b, q)[At(b, q)] = q + ShardLen
    BY <2>1, <2>2, ShardLoads
  <2> QED BY <2>3 DEF q
<1>8. \A k \in 0 .. Shards : ShardStarts(b)[k] = o + 2 + ShardLen * k
  <2>1. \A k \in 1 .. Shards :
            LET q == o + 2 + ShardLen * (k - 1)
            IN  SliceStarts(b, q)[At(b, q)] = q + ShardLen
    BY <1>7, Zenon
  <2> QED BY <1>2, <1>3, <1>6, <2>1, ShardStartsAt DEF o
<1>9. SecondStart(b) = o + OutputLen
  <2>1. ShardStarts(b)[Shards] = o + 2 + ShardLen * Shards /\ ShardLen * Shards \in Nat
    BY <1>2, <1>8, Multiples
  <2>2. SecondStart(b) = ShardStarts(b)[Shards]
    BY <1>6 DEF SecondStart, o
  <2> QED BY <1>3, <2>1, <2>2 DEF OutputLen
<1>10. \A k \in 1 .. Shards : ShardAt(b, ShardStarts(b)[k - 1]) = outs[k]
  <2> SUFFICES ASSUME NEW k \in 1 .. Shards
               PROVE  ShardAt(b, ShardStarts(b)[k - 1]) = outs[k]
    OBVIOUS
  <2>1. ShardStarts(b)[k - 1] = o + 2 + ShardLen * (k - 1)
    BY <1>2, <1>8
  <2> QED BY <1>7, <2>1
<1>11. OutsAt(b) = [k \in 1 .. Shards |-> outs[k]]
  BY <1>6, <1>10 DEF OutsAt, o
<1> QED BY <1>9, <1>11 DEF o

-----------------------------------------------------------------------------
(* The packing matrix *)

Phys == PackCols \div PerWord

LEMMA PackSizes ==
    /\ PackRows \in Nat \ {0} /\ PackCols \in Nat \ {0} /\ Phys \in Nat \ {0}
    /\ PerWord \in {1, 2} /\ PackCols = PerWord * Phys
    /\ PackRows * Phys \in Nat /\ PackRows * PackCols \in Nat \ {0}
    /\ PackRows * PackCols = PerWord * (PackRows * Phys)
    /\ (PackRows * PackCols) \div PerWord = PackRows * Phys
<1>1. PackRows \in Nat \ {0} /\ PackCols \in Nat \ {0} /\ PerWord \in {1, 2}
      /\ PackCols % PerWord = 0
  BY FileAssumption
<1>2. PackCols = PerWord * Phys /\ Phys \in Nat \ {0}
  <2>1. CASE PerWord = 1
    BY <1>1, <2>1 DEF Phys
  <2>2. CASE PerWord = 2
    BY <1>1, <2>2 DEF Phys
  <2> QED BY <1>1, <2>1, <2>2
<1>3. PackRows * Phys \in Nat \ {0}
  BY <1>1, <1>2
<1>4. PackRows * PackCols = PerWord * (PackRows * Phys)
  <2>1. CASE PerWord = 1
    BY <1>1, <1>2, <2>1
  <2>2. CASE PerWord = 2
    BY <1>1, <1>2, <2>2
  <2> QED BY <1>1, <2>1, <2>2
<1>5. PackRows * PackCols \in Nat \ {0} /\ (PackRows * PackCols) \div PerWord = PackRows * Phys
  <2> DEFINE all   == PackRows * PackCols
             words == PackRows * Phys
  <2>1. all = PerWord * words /\ words \in Nat \ {0}
    BY <1>3, <1>4
  <2> HIDE DEF all, words
  <2>2. all \in Nat \ {0} /\ all \div PerWord = words
    <3>1. CASE PerWord = 1
      BY <2>1, <3>1
    <3>2. CASE PerWord = 2
      BY <2>1, <3>2
    <3> QED BY <1>1, <3>1, <3>2
  <2> QED BY <2>2 DEF all, words
<1> QED BY <1>1, <1>2, <1>3, <1>4, <1>5

\* Entry k of word w is an entry of the matrix.
LEMMA PackWords ==
    ASSUME NEW db
    PROVE  /\ FreshPack(db).words =
                 [w \in 1 .. PackRows * Phys |->
                    [k \in 1 .. PerWord |-> PackEntries(db)[PerWord * (w - 1) + k]]]
           /\ Len(FreshPack(db).words) = PackRows * Phys
           /\ FreshPack(db).rows = PackRows /\ FreshPack(db).cols = PackCols
           /\ FreshPack(db).phys = Phys /\ FreshPack(db).per = PerWord
<1>1. Len(PackEntries(db)) = PackRows * PackCols
  BY PackSizes DEF PackEntries
<1>2. FreshPack(db) = [rows |-> PackRows, cols |-> PackCols, phys |-> Phys, per |-> PerWord,
                       words |-> WordsOf(PackEntries(db), PerWord)]
  BY DEF FreshPack, PackEntries, Phys
<1>3. FreshPack(db).words = [w \in 1 .. PackRows * Phys |->
                    [k \in 1 .. PerWord |-> PackEntries(db)[PerWord * (w - 1) + k]]]
  <2>1. FreshPack(db).words = WordsOf(PackEntries(db), PerWord)
    BY <1>2
  <2>2. Len(PackEntries(db)) \div PerWord = PackRows * Phys
    BY <1>1, PackSizes
  <2> QED BY <2>1, <2>2, Zenon DEF WordsOf
<1>4. Len(FreshPack(db).words) = PackRows * Phys
  BY <1>3, PackSizes
<1> QED BY <1>2, <1>3, <1>4

\* Rows of a size d: which of them an entry is in, and at which place.
LEMMA RowOf ==
    ASSUME NEW a \in Nat, NEW d \in Nat \ {0}
    PROVE  /\ a \div d \in Nat /\ a % d \in 0 .. d - 1
           /\ a = d * (a \div d) + (a % d)
  OBVIOUS

LEMMA RowsBelow ==
    ASSUME NEW a \in Nat, NEW d \in Nat \ {0}, NEW n \in Nat, a < n * d
    PROVE  a \div d < n
<1>1. a \div d \in Nat /\ d * (a \div d) <= a
  BY Division
<1>2. a \div d >= n => d * n <= d * (a \div d)
  BY <1>1, Multiples
<1>3. d * n = n * d
  OBVIOUS
<1> QED BY <1>1, <1>2, <1>3

\* What is saved of a fresh matrix are its entries.
LEMMA PackSaved ==
    ASSUME NEW db
    PROVE  Saved(FreshPack(db)) = PackEntries(db)
<1> DEFINE pack == FreshPack(db)
           all  == PackRows * PackCols
<1>1. /\ pack.words = [w \in 1 .. PackRows * Phys |->
                         [k \in 1 .. PerWord |-> PackEntries(db)[PerWord * (w - 1) + k]]]
      /\ Len(pack.words) = PackRows * Phys
      /\ pack.rows = PackRows /\ pack.cols = PackCols /\ pack.phys = Phys /\ pack.per = PerWord
  BY PackWords
<1>2. PackEntries(db) = [e \in 1 .. all |-> PackEntries(db)[e]]
  BY DEF PackEntries
<1> HIDE DEF pack
<1>3. CASE PerWord = 1
  <2>1. DOMAIN pack.words = 1 .. all
    BY <1>1, <1>3, PackSizes
  <2>2. ASSUME NEW w \in 1 .. all
        PROVE  pack.words[w][1] = PackEntries(db)[w]
    <3>1. w \in 1 .. PackRows * Phys /\ PerWord * (w - 1) + 1 = w
      BY <1>3, PackSizes
    <3> QED BY <1>1, <3>1, <1>3
  <2> QED BY <1>1, <1>2, <1>3, <2>1, <2>2 DEF Saved, pack
<1>4. CASE PerWord = 2
  <2>1. ASSUME NEW e \in 1 .. all
        PROVE  Entry(pack, Phys, (e - 1) \div PackCols, (e - 1) % PackCols) = PackEntries(db)[e]
    <3> DEFINE r == (e - 1) \div PackCols
               c == (e - 1) % PackCols
               w == r * Phys + c \div 2 + 1
               h == c \div 2
    <3>1. /\ e - 1 \in Nat /\ e - 1 < PackRows * PackCols /\ PackCols \in Nat \ {0}
          /\ PackRows \in Nat /\ Phys \in Nat \ {0}
          /\ PackCols = 2 * Phys
      BY <1>4, PackSizes
    <3>2. /\ r \in Nat /\ r < PackRows /\ c \in 0 .. PackCols - 1
          /\ e - 1 = PackCols * r + c
      BY <3>1, RowOf, RowsBelow
    <3> HIDE DEF r, c
    <3>3. h \in 0 .. Phys - 1 /\ c % 2 \in 0 .. 1 /\ c = 2 * h + (c % 2)
      <4>1. c \in Nat /\ c < 2 * Phys
        BY <3>1, <3>2
      <4>2. c \div 2 \in Nat /\ c % 2 \in 0 .. 1 /\ c = 2 * (c \div 2) + (c % 2)
        BY <4>1, Division
      <4> QED BY <4>1, <4>2, <3>1
    <3>4. PackCols * r = 2 * (r * Phys) /\ r * Phys \in Nat
      BY <3>1, <3>2
    <3>5. r * Phys + Phys <= PackRows * Phys
      <4>1. Phys * (r + 1) = Phys * r + Phys /\ Phys * (r + 1) <= Phys * PackRows
        BY <3>1, <3>2, Multiples
      <4>2. Phys * r = r * Phys /\ Phys * PackRows = PackRows * Phys
        BY <3>1, <3>2
      <4> QED BY <4>1, <4>2, <3>4
    <3>6. w \in 1 .. PackRows * Phys /\ 2 * (w - 1) + ((c % 2) + 1) = e
      <4> DEFINE x == r * Phys
                 y == PackRows * Phys
                 z == PackCols * r
                 m == c % 2
      <4>1. x \in Nat /\ y \in Nat /\ x + Phys <= y /\ z = 2 * x
        BY <3>4, <3>5, PackSizes
      <4>2. e - 1 = z + c /\ c = 2 * h + m /\ m \in 0 .. 1 /\ h \in 0 .. Phys - 1
        BY <3>2, <3>3
      <4> HIDE DEF x, y, z, h, m
      <4>3. w = x + h + 1
        BY DEF x, h
      <4> HIDE DEF w
      <4>5. w \in 1 .. y /\ 2 * (w - 1) + (m + 1) = e
        BY <3>1, <4>1, <4>2, <4>3
      <4> QED BY <4>5 DEF m, y
    <3>7. pack.words[w][(c % 2) + 1] = PackEntries(db)[e]
      BY <1>1, <1>4, <3>3, <3>6
    <3>8. Entry(pack, Phys, r, c) = IF w <= Len(pack.words) THEN pack.words[w][(c % 2) + 1] ELSE Unknown
      BY <1>1, <1>4 DEF Entry
    <3>9. Entry(pack, Phys, r, c) = PackEntries(db)[e]
      <4> HIDE DEF w
      <4> QED BY <1>1, <3>6, <3>7, <3>8
    <3> QED BY <3>9 DEF r, c
  <2>2. Saved(pack) = Entries(pack, Phys)
    BY <1>1, <1>4 DEF Saved
  <2>3. Entries(pack, Phys) = [e \in 1 .. all |-> PackEntries(db)[e]]
    BY <1>1, <2>1, Zenon DEF Entries
  <2> QED BY <1>2, <2>2, <2>3 DEF pack
<1> QED BY <1>3, <1>4, PackSizes

LEMMA PackCellsOf ==
    ASSUME NEW S, Nat \subseteq S, NEW db, PackEntries(db) \in S, PackEntries(db) # Nothing
    PROVE  /\ PackCells(FreshPack(db)) =
                 <<PackRows, PackCols, Phys, PerWord - 1, PackCols, 1, 1, PackEntries(db)>>
           /\ PackCells(FreshPack(db)) \in Seq(S) /\ Len(PackCells(FreshPack(db))) = 8
<1> DEFINE pack == FreshPack(db)
           data == PackEntries(db)
<1>1. /\ pack.rows = PackRows /\ pack.cols = PackCols /\ pack.phys = Phys /\ pack.per = PerWord
      /\ Saved(pack) = data
  BY PackWords, PackSaved
<1>2. Len(data) = PackRows * PackCols
  BY PackSizes DEF PackEntries
<1>3. data # <<>>
  BY <1>2, PackSizes
<1> HIDE DEF pack, data
<1>4. PackCells(pack) = <<PackRows, PackCols, Phys, PerWord - 1, PackCols, 1>> \o <<1, data>>
  BY <1>1, <1>3 DEF PackCells, Vector, data
<1>5. PackRows \in S /\ PackCols \in S /\ Phys \in S /\ PerWord - 1 \in S /\ 1 \in S /\ data \in S
  BY PackSizes DEF data
<1>6. <<PackRows, PackCols, Phys, PerWord - 1, PackCols, 1>> \o <<1, data>>
      = <<PackRows, PackCols, Phys, PerWord - 1, PackCols, 1, 1, data>>
  <2> DEFINE s == <<PackRows, PackCols, Phys, PerWord - 1, PackCols, 1>>
             t == <<1, data>>
             u == <<PackRows, PackCols, Phys, PerWord - 1, PackCols, 1, 1, data>>
  <2>1. /\ s \in Seq(S) /\ Len(s) = 6 /\ t \in Seq(S) /\ Len(t) = 2
        /\ u \in Seq(S) /\ Len(u) = 8
        /\ \A i \in 1 .. 8 : u[i] = IF i <= 6 THEN s[i] ELSE t[i - 6]
    BY <1>5
  <2> HIDE DEF s, t, u
  <2>2. Len(u) = Len(s) + Len(t)
        /\ \A i \in 1 .. Len(s) + Len(t) : u[i] = IF i <= Len(s) THEN s[i] ELSE t[i - Len(s)]
    BY <2>1
  <2>3. s \o t = u
    BY <2>1, <2>2, TwoParts, Zenon
  <2> QED BY <2>3 DEF s, t, u
<1>7. /\ <<PackRows, PackCols, Phys, PerWord - 1, PackCols, 1, 1, data>> \in Seq(S)
      /\ Len(<<PackRows, PackCols, Phys, PerWord - 1, PackCols, 1, 1, data>>) = 8
  BY <1>5
<1> QED BY <1>4, <1>6, <1>7 DEF pack, data

\* The matrix is put together again, with its logical width for its physical one.
LEMMA PackLoads ==
    ASSUME NEW S, Nat \subseteq S, NEW db, PackEntries(db) \in S,
           PackEntries(db) \notin {Nothing, Zeros},
           NEW b, PackStart(b) \in Nat \ {0}, Holds(b, PackStart(b), PackCells(FreshPack(db)))
    PROVE  /\ PackAt(b) = [FreshPack(db) EXCEPT !.phys = PackCols]
           /\ ~PackUndefined(b)
           /\ OutputStart(b) = PackStart(b) + 8
<1> DEFINE p     == PackStart(b)
           data  == PackEntries(db)
           cells == <<PackRows, PackCols, Phys, PerWord - 1, PackCols, 1, 1, data>>
<1>1. PackCells(FreshPack(db)) = cells /\ Len(cells) = 8
  BY PackCellsOf
<1>2. p \in Nat \ {0} /\ Holds(b, p, cells)
  BY <1>1
<1> HIDE DEF p
<1>3. /\ At(b, p) = PackRows /\ At(b, p + 1) = PackCols /\ At(b, p + 2) = Phys
      /\ At(b, p + 3) = PerWord - 1 /\ At(b, p + 4) = PackCols
      /\ At(b, p + 5) = 1 /\ At(b, p + 6) = 1 /\ DataAt(b, p + 7) = data
  <2>1. \A i \in 1 .. 8 : At(b, p + i - 1) = cells[i] /\ DataAt(b, p + i - 1) = cells[i]
    BY <1>1, <1>2 DEF Holds, At, DataAt
  <2> QED BY <1>2, <2>1
<1>4. OutputStart(b) = p + 8 /\ ~PackUndefined(b)
  <2>1. p + 6 + 2 = p + 8
    BY <1>2
  <2> QED BY <1>3, <2>1 DEF OutputStart, PackUndefined, AfterVector, p
<1> HIDE DEF cells
<1>5. \A e : UnpackedAt(b, e) = data[e]
  BY <1>3 DEF UnpackedAt, p
<1> HIDE DEF data
<1>6. At(b, p + 3) + 1 = PerWord /\ (IF PerWord = 1 THEN PackCols ELSE At(b, p + 2)) = Phys
  BY <1>3, PackSizes
<1>7. ASSUME NEW v \in 1 .. PackRows * Phys, NEW k \in 1 .. PerWord
      PROVE  LET r == (v - 1) \div Phys
                 w == (v - 1) % Phys
             IN  (IF PerWord * w + k <= PackCols THEN UnpackedAt(b, r * PackCols + PerWord * w + k)
                  ELSE Zeros) = data[PerWord * (v - 1) + k]
  <2> DEFINE r == (v - 1) \div Phys
             w == (v - 1) % Phys
  <2>1. v - 1 \in Nat /\ Phys \in Nat \ {0}
    BY PackSizes
  <2>2. r \in Nat /\ w \in 0 .. Phys - 1 /\ v - 1 = Phys * r + w
    BY <2>1, RowOf
  <2> HIDE DEF r, w
  <2>3. PerWord * w + k <= PackCols /\ r * PackCols + PerWord * w + k = PerWord * (v - 1) + k
    <3>1. CASE PerWord = 1
      BY <2>1, <2>2, <3>1, PackSizes
    <3>2. CASE PerWord = 2
      BY <2>1, <2>2, <3>2, PackSizes
    <3> QED BY <3>1, <3>2, PackSizes
  <2>4. UnpackedAt(b, r * PackCols + PerWord * w + k) = data[PerWord * (v - 1) + k]
    BY <1>5, <2>3
  <2> QED BY <2>3, <2>4 DEF r, w
<1> DEFINE rows  == At(b, p)
           cols  == At(b, p + 1)
           per   == At(b, p + 3) + 1
           phys  == IF per = 1 THEN cols ELSE At(b, p + 2)
           words == [v \in 1 .. rows * phys |-> [k \in 1 .. per |->
                       IF per * ((v - 1) % phys) + k <= cols
                       THEN UnpackedAt(b, ((v - 1) \div phys) * cols + per * ((v - 1) % phys) + k)
                       ELSE Zeros]]
<1>8. PackAt(b) = [rows |-> rows, cols |-> At(b, p + 4), phys |-> cols, per |-> per,
                   words |-> words]
  BY Zenon DEF PackAt, p
<1>9. words = FreshPack(db).words
  <2>1. FreshPack(db).words = [v \in 1 .. PackRows * Phys |->
                                 [k \in 1 .. PerWord |-> data[PerWord * (v - 1) + k]]]
    BY PackWords DEF data
  <2>2. rows = PackRows /\ cols = PackCols /\ per = PerWord /\ phys = Phys
    BY <1>3, <1>6
  <2> HIDE DEF rows, cols, per, phys
  <2>3. ASSUME NEW v \in 1 .. PackRows * Phys
        PROVE  words[v] = [k \in 1 .. PerWord |-> data[PerWord * (v - 1) + k]]
    BY <1>7, <2>2
  <2> QED BY <2>1, <2>2, <2>3
<1> HIDE DEF words
<1>10. PackAt(b) = [FreshPack(db) EXCEPT !.phys = PackCols]
  BY <1>3, <1>6, <1>8, <1>9, PackWords DEF FreshPack
<1> QED BY <1>4, <1>10 DEF p

-----------------------------------------------------------------------------
(* The whole file of a server that was made from preprocessing *)

\* What its cells are.
Cells(db) ==
    Nat \cup PolysOf(Fresh(db)) \cup {Fresh(db).db.data, Saved(Fresh(db).pack)}

LEMMA FreshParts ==
    ASSUME NEW db, Apart(db)
    PROVE  /\ Nat \subseteq Cells(db)
           /\ Fresh(db).db = [dims |-> <<1, 1, 1, 1>>, data |-> Fresh(db).db.data]
           /\ Fresh(db).db.data \in Cells(db) /\ Fresh(db).db.data # Nothing
           /\ Fresh(db).pack = FreshPack(db)
           /\ PackEntries(db) \in Cells(db) /\ PackEntries(db) \notin {Nothing, Zeros}
           /\ Fresh(db).outs \in [1 .. Shards -> [1 .. Slices -> Outputs(Cells(db))]]
           /\ Fresh(db).second \in Seq(Cells(db)) /\ Len(Fresh(db).second) = SecondDim
           /\ Unknown \notin Cells(db)
<1> DEFINE server == Fresh(db)
           polys  == PolysOf(server)
<1>1. Nat \subseteq Cells(db) /\ polys \subseteq Cells(db)
  BY DEF Cells
<1>2. server.db = [dims |-> <<1, 1, 1, 1>>, data |-> server.db.data]
      /\ server.pack = FreshPack(db)
  BY DEF Fresh
<1>3. Saved(server.pack) = PackEntries(db)
  BY <1>2, PackSaved
<1>4. /\ server.db.data \in Cells(db) /\ PackEntries(db) \in Cells(db)
      /\ server.db.data # Nothing /\ PackEntries(db) \notin {Nothing, Zeros}
      /\ Unknown \notin polys /\ Unknown \notin Nat
      /\ Unknown # server.db.data /\ Unknown # PackEntries(db)
  <2>1. server.db.data \in Cells(db) /\ PackEntries(db) \in Cells(db)
    BY <1>3 DEF Cells
  <2> HIDE DEF server, polys
  <2>2. {Nothing, Zeros, Unknown, Refused, Undefined}
            \cap (Nat \cup polys \cup Range(PackEntries(db))
                    \cup {server.db.data, PackEntries(db), Reloaded(db)}) = {}
    BY <1>3 DEF Apart, server, polys
  <2> QED BY <2>1, <2>2
<1>5. Unknown \notin Cells(db)
  BY <1>3, <1>4 DEF Cells
<1>6. server.second = [j \in 1 .. SecondDim |-> Tag(db, <<"second", j>>)]
      /\ server.outs = [k \in 1 .. Shards |-> [i \in 1 .. Slices |->
                          [a |-> Tag(db, <<"a", k, i>>),
                           t |-> [j \in 1 .. Digits |-> Tag(db, <<"t", k, i, j>>)]]]]
  BY DEF Fresh
<1> HIDE DEF server
<1>7. server.second \in Seq(Cells(db)) /\ Len(server.second) = SecondDim
  <2>1. \A j \in 1 .. SecondDim : server.second[j] \in Range(server.second)
    BY <1>6 DEF Range
  <2>2. Range(server.second) \subseteq polys
    BY Zenon DEF PolysOf
  <2>3. \A j \in 1 .. SecondDim : server.second[j] \in Cells(db)
    BY <1>1, <2>1, <2>2
  <2>4. server.second = [j \in 1 .. SecondDim |-> server.second[j]] /\ SecondDim \in Nat
    BY <1>6, FileAssumption
  <2> QED BY <2>3, <2>4
<1>8. ASSUME NEW k \in 1 .. Shards, NEW i \in 1 .. Slices
      PROVE  server.outs[k][i] \in Outputs(Cells(db))
  <2> DEFINE out == server.outs[k][i]
  <2>1. out = [a |-> Tag(db, <<"a", k, i>>),
               t |-> [j \in 1 .. Digits |-> Tag(db, <<"t", k, i, j>>)]]
    BY <1>6
  <2>2. out \in Range(server.outs[k]) /\ k \in DOMAIN server.outs
    BY <1>6 DEF Range
  <2> HIDE DEF out
  <2>3. {out.a} \cup Range(out.t) \subseteq polys
    BY <2>2 DEF PolysOf
  <2>4. out.a \in Cells(db) /\ \A j \in 1 .. Digits : out.t[j] \in Cells(db)
    <3>1. \A j \in 1 .. Digits : out.t[j] \in Range(out.t)
      BY <2>1 DEF Range
    <3> QED BY <1>1, <2>3, <3>1
  <2>5. out = [a |-> out.a, t |-> out.t] /\ out.t = [j \in 1 .. Digits |-> out.t[j]]
    BY <2>1
  <2>6. out \in Outputs(Cells(db))
    BY <2>4, <2>5 DEF Outputs
  <2> QED BY <2>6 DEF out
<1>9. server.outs \in [1 .. Shards -> [1 .. Slices -> Outputs(Cells(db))]]
  <2>1. server.outs = [k \in 1 .. Shards |-> [i \in 1 .. Slices |-> server.outs[k][i]]]
    BY <1>6
  <2> QED BY <1>8, <2>1
<1> QED BY <1>1, <1>2, <1>4, <1>5, <1>7, <1>9 DEF server

ContentLen == 15 + OutputLen + 3 * SecondDim

\* How long the file is does not depend on the database.
LEMMA ContentOf ==
    ASSUME NEW db, Apart(db)
    PROVE  LET b == Content(Fresh(db))
           IN  /\ b \in Seq(Cells(db)) /\ Len(b) = ContentLen
               /\ Holds(b, 1, <<1, 1, 1, 1, 1, Fresh(db).db.data>>)
               /\ Holds(b, 7, PackCells(FreshPack(db)))
               /\ Holds(b, 15, OutputCells(Fresh(db).outs))
               /\ OutputLen \in Nat
               /\ Holds(b, 15 + OutputLen, Polys(Fresh(db).second))
<1> DEFINE S    == Cells(db)
           b    == Content(Fresh(db))
           data == Fresh(db).db.data
           c1   == <<1, 1, 1, 1, 1, data>>
           c2   == PackCells(FreshPack(db))
           c3   == OutputCells(Fresh(db).outs)
           c4   == Polys(Fresh(db).second)
<1>1. /\ data \in S /\ Nat \subseteq S /\ data # Nothing
      /\ PackEntries(db) \in S /\ PackEntries(db) # Nothing
      /\ Fresh(db).outs \in [1 .. Shards -> [1 .. Slices -> Outputs(S)]]
      /\ Fresh(db).second \in Seq(S) /\ Len(Fresh(db).second) = SecondDim
  BY FreshParts
<1>2. DbCells(Fresh(db).db) = c1
  <2> HIDE DEF data
  <2>1. Fresh(db).db = [dims |-> <<1, 1, 1, 1>>, data |-> data]
    BY FreshParts DEF data
  <2>2. DbCells(Fresh(db).db) = <<1, 1, 1, 1>> \o <<1, data>>
    BY <1>1, <2>1 DEF DbCells, Vector
  <2> DEFINE s == <<1, 1, 1, 1>>
             t == <<1, data>>
  <2>3. /\ s \in Seq(S) /\ Len(s) = 4 /\ t \in Seq(S) /\ Len(t) = 2
        /\ c1 \in Seq(S) /\ Len(c1) = 6
        /\ \A i \in 1 .. 6 : c1[i] = IF i <= 4 THEN s[i] ELSE t[i - 4]
    BY <1>1
  <2> HIDE DEF s, t, c1
  <2>4. Len(c1) = Len(s) + Len(t)
        /\ \A i \in 1 .. Len(s) + Len(t) : c1[i] = IF i <= Len(s) THEN s[i] ELSE t[i - Len(s)]
    BY <2>3
  <2>5. s \o t = c1
    BY <2>3, <2>4, TwoParts, Zenon
  <2> QED BY <2>2, <2>5 DEF s, t
<1>3. c1 \in Seq(S) /\ Len(c1) = 6
  BY <1>1
<1>4. c2 \in Seq(S) /\ Len(c2) = 8
  BY <1>1, PackCellsOf, Zenon
<1>5. c3 \in Seq(S) /\ Len(c3) = OutputLen /\ OutputLen \in Nat
  BY <1>1, OutputCellsOf, Zenon
<1>6. c4 \in Seq(S) /\ Len(c4) = 1 + 3 * SecondDim /\ SecondDim \in Nat
  <2>1. c4 \in Seq(S) /\ Len(c4) = 1 + 3 * Len(Fresh(db).second)
    BY <1>1, PolysCells, Zenon
  <2> QED BY <1>1, <2>1, FileAssumption
<1>7. b = ((c1 \o c2) \o c3) \o c4
  <2>1. Fresh(db).pack = FreshPack(db)
    BY FreshParts
  <2> HIDE DEF c1
  <2> QED BY <1>2, <2>1 DEF Content
<1> HIDE DEF S, b, c1, c2, c3, c4
<1>8. c1 \o c2 \in Seq(S) /\ Len(c1 \o c2) = 14
  <2>1. c1 \o c2 \in Seq(S) /\ Len(c1 \o c2) = Len(c1) + Len(c2)
    BY <1>3, <1>4, ConcatCells
  <2> QED BY <1>3, <1>4, <2>1
<1> DEFINE c12 == c1 \o c2
<1>9. c12 \o c3 \in Seq(S) /\ Len(c12 \o c3) = 14 + OutputLen
  <2>1. c12 \o c3 \in Seq(S) /\ Len(c12 \o c3) = Len(c12) + Len(c3)
    BY <1>5, <1>8, ConcatCells, Zenon
  <2> QED BY <1>5, <1>8, <2>1
<1> DEFINE c123 == c12 \o c3
<1>10. b \in Seq(S) /\ Len(b) = ContentLen
  <2>1. c123 \o c4 \in Seq(S) /\ Len(c123 \o c4) = Len(c123) + Len(c4)
    BY <1>6, <1>9, ConcatCells, Zenon
  <2>2. ContentLen = 14 + OutputLen + (1 + 3 * SecondDim)
    BY <1>5, <1>6 DEF ContentLen
  <2> HIDE DEF c123
  <2>3. b = c123 \o c4 /\ Len(c123) = 14 + OutputLen
    BY <1>7, <1>9 DEF c123
  <2> QED BY <1>6, <2>1, <2>2, <2>3
<1> HIDE DEF c12, c123
<1>11. Holds(b, 1, c123 \o c4)
  <2>1. Holds(b, 1, b)
    BY <1>10, HoldsItself
  <2> QED BY <1>7, <2>1 DEF c12, c123
<1>12. Holds(b, 1, c123) /\ Holds(b, 1 + Len(c123), c4)
  <2>1. c123 \in Seq(S) /\ 1 \in Nat \ {0}
    BY <1>9 DEF c123
  <2> QED BY <1>6, <1>11, <2>1, HoldsConcat, Zenon
<1>13. Holds(b, 1, c12) /\ Holds(b, 1 + Len(c12), c3)
  <2>1. Holds(b, 1, c12 \o c3) /\ c12 \in Seq(S)
    BY <1>8, <1>12 DEF c12, c123
  <2> QED BY <1>5, <2>1, HoldsConcat
<1>14. Holds(b, 1, c1) /\ Holds(b, 1 + Len(c1), c2)
  <2>1. Holds(b, 1, c1 \o c2)
    BY <1>13 DEF c12
  <2>2. 1 \in Nat \ {0}
    OBVIOUS
  <2> QED BY <1>3, <1>4, <2>1, <2>2, HoldsConcat, Zenon
<1>15. 1 + Len(c1) = 7 /\ 1 + Len(c12) = 15 /\ 1 + Len(c123) = 15 + OutputLen
  BY <1>3, <1>5, <1>8, <1>9 DEF c12, c123
<1>16. Holds(b, 7, c2) /\ Holds(b, 15, c3) /\ Holds(b, 15 + OutputLen, c4)
  BY <1>12, <1>13, <1>14, <1>15
<1> QED BY <1>5, <1>10, <1>14, <1>16 DEF S, b, c1, c2, c3, c4

\* What SaveToFile writes of a server that was made from preprocessing,
\* LoadFromBuffer makes into that server, for any numbers of shards, slices and
\* digits and for any packing matrix: every count on the way leads it to where
\* the next part begins, and the words of a condensed matrix are put together
\* from the same entries.
THEOREM RoundTrip ==
    ASSUME NEW db, Apart(db)
    PROVE  Load(Content(Fresh(db))) = Reloaded(db)
<1> DEFINE S == Cells(db)
           b == Content(Fresh(db))
           data == Fresh(db).db.data
           head == <<1, 1, 1, 1, 1, data>>
<1>1. /\ Nat \subseteq S /\ Unknown \notin S
      /\ Fresh(db).db = [dims |-> <<1, 1, 1, 1>>, data |-> data]
      /\ Fresh(db).outs \in [1 .. Shards -> [1 .. Slices -> Outputs(S)]]
      /\ Fresh(db).second \in Seq(S) /\ Len(Fresh(db).second) = SecondDim
      /\ PackEntries(db) \in S /\ PackEntries(db) \notin {Nothing, Zeros}
      /\ Fresh(db).pack = FreshPack(db)
  BY FreshParts
<1>2. /\ b \in Seq(S) /\ Len(b) = ContentLen /\ Holds(b, 1, head)
      /\ Holds(b, 7, PackCells(FreshPack(db)))
      /\ Holds(b, 15, OutputCells(Fresh(db).outs))
      /\ OutputLen \in Nat
      /\ Holds(b, 15 + OutputLen, Polys(Fresh(db).second))
  BY ContentOf, Zenon
<1> HIDE DEF S, b, data
<1>3. /\ \A i \in 1 .. 4 : At(b, i) = 1
      /\ At(b, 5) = 1 /\ DataAt(b, 6) = data
  <2>1. Len(head) = 6 /\ \A i \in 1 .. 5 : head[i] = 1
    OBVIOUS
  <2>2. \A i \in 1 .. 6 : At(b, 1 + i - 1) = head[i] /\ DataAt(b, 1 + i - 1) = head[i]
    BY <1>2, <2>1 DEF Holds, At, DataAt
  <2>3. \A i \in 1 .. 6 : At(b, i) = head[i] /\ DataAt(b, i) = head[i]
    BY <2>2
  <2> QED BY <2>1, <2>3
<1>4. DbAt(b) = Fresh(db).db
  <2>1. [p \in 1 .. 4 |-> At(b, p)] = <<1, 1, 1, 1>>
    BY <1>3
  <2>2. DbAt(b).data = data /\ DbAt(b) = [dims |-> [p \in 1 .. 4 |-> At(b, p)], data |-> DbAt(b).data]
    BY <1>3 DEF DbAt
  <2> QED BY <1>1, <2>1, <2>2
<1>5. PackStart(b) = 7
  BY <1>3 DEF PackStart, AfterVector
<1>6. PackAt(b) = [FreshPack(db) EXCEPT !.phys = PackCols] /\ ~PackUndefined(b)
      /\ OutputStart(b) = 15
  <2>1. PackStart(b) \in Nat \ {0} /\ Holds(b, PackStart(b), PackCells(FreshPack(db)))
        /\ PackStart(b) + 8 = 15
    BY <1>2, <1>5
  <2> QED BY <1>1, <2>1, PackLoads
<1>7. OutsAt(b) = Fresh(db).outs /\ SecondStart(b) = 15 + OutputLen
  <2>1. OutputStart(b) \in Nat \ {0} /\ Holds(b, OutputStart(b), OutputCells(Fresh(db).outs))
    BY <1>2, <1>6
  <2> QED BY <1>1, <1>6, <2>1, OutputsLoad
<1>8. PolysAt(b, SecondStart(b)) = Fresh(db).second
  <2>1. 15 + OutputLen \in Nat \ {0}
    BY <1>2
  <2> QED BY <1>1, <1>2, <1>7, <2>1, PolysLoads
<1> DEFINE server == [db |-> DbAt(b), pack |-> PackAt(b), outs |-> OutsAt(b),
                      second |-> PolysAt(b, SecondStart(b))]
<1>9. server = Reloaded(db) /\ PolysOf(server) = PolysOf(Fresh(db))
  <2>1. Reloaded(db) = [db |-> Fresh(db).db, pack |-> [FreshPack(db) EXCEPT !.phys = PackCols],
                        outs |-> Fresh(db).outs, second |-> Fresh(db).second]
    <3> DEFINE fresh == Fresh(db)
    <3>1. fresh = [db |-> fresh.db, pack |-> fresh.pack, outs |-> fresh.outs,
                   second |-> fresh.second]
      BY DEF Fresh
    <3> HIDE DEF fresh
    <3>2. [fresh EXCEPT !.pack.phys = PackCols]
          = [db |-> fresh.db, pack |-> [fresh.pack EXCEPT !.phys = PackCols],
             outs |-> fresh.outs, second |-> fresh.second]
      BY <3>1
    <3>3. fresh.pack = FreshPack(db)
      BY <1>1 DEF fresh
    <3> QED BY <3>2, <3>3, Zenon DEF Reloaded, fresh
  <2>2. server = Reloaded(db)
    BY <1>4, <1>6, <1>7, <1>8, <2>1
  <2>3. server.outs = Fresh(db).outs /\ server.second = Fresh(db).second
    BY <1>7, <1>8
  <2> HIDE DEF server
  <2>4. PolysOf(server) = PolysOf(Fresh(db))
    BY <2>3, Zenon DEF PolysOf
  <2> QED BY <2>2, <2>4
<1>10. Unknown \notin Range(b)
  <2>1. \A p \in DOMAIN b : b[p] \in S
    BY <1>2, LenProperties, ElementOfSeq
  <2> QED BY <1>1, <2>1 DEF Range
<1>11. Undefined \notin PolysOf(server) /\ Refused \notin PolysOf(server)
  <2>1. Undefined \notin PolysOf(Fresh(db)) /\ Refused \notin PolysOf(Fresh(db))
    <3> DEFINE polys == PolysOf(Fresh(db))
    <3> HIDE DEF polys
    <3>1. {Nothing, Zeros, Unknown, Refused, Undefined}
            \cap (Nat \cup polys \cup Range(PackEntries(db))
                    \cup {Fresh(db).db.data, PackEntries(db), Reloaded(db)}) = {}
      BY DEF Apart, polys
    <3>2. Undefined \notin polys /\ Refused \notin polys
      BY <3>1
    <3> QED BY <3>2 DEF polys
  <2> HIDE DEF server
  <2> QED BY <1>9, <2>1
<1>12. Load(b) = server
  BY <1>6, <1>10, <1>11, Zenon DEF Load
<1> HIDE DEF server
<1>13. Load(b) = Reloaded(db)
  BY <1>9, <1>12
<1> QED BY <1>13 DEF b

-----------------------------------------------------------------------------
(* Saving what was loaded *)

\* If words hold one entry each, the logical width is the physical one, and a
\* server that was loaded can be saved and loaded for ever.
THEOREM ResavedPlain ==
    ASSUME NEW db, Apart(db), PerWord = 1
    PROVE  Load(Content(Reloaded(db))) = Reloaded(db)
<1> DEFINE fresh == Fresh(db)
<1>1. fresh = [db |-> fresh.db, pack |-> fresh.pack, outs |-> fresh.outs, second |-> fresh.second]
      /\ fresh.pack = FreshPack(db)
  BY DEF Fresh
<1>2. Phys = PackCols
  BY PackSizes
<1>3. FreshPack(db).phys = PackCols
  BY <1>2, PackWords
<1>4. [FreshPack(db) EXCEPT !.phys = PackCols] = FreshPack(db)
  <2> DEFINE pack == FreshPack(db)
  <2>1. pack = [rows |-> pack.rows, cols |-> pack.cols, phys |-> pack.phys, per |-> pack.per,
                words |-> pack.words]
    BY DEF FreshPack
  <2>2. pack.phys = PackCols
    BY <1>3
  <2> HIDE DEF pack
  <2>3. [pack EXCEPT !.phys = PackCols] = pack
    BY <2>1, <2>2
  <2> QED BY <2>3 DEF pack
<1> HIDE DEF fresh
<1>5. [fresh EXCEPT !.pack.phys = PackCols] = fresh
  <2>1. [fresh.pack EXCEPT !.phys = PackCols] = fresh.pack
    BY <1>1, <1>4
  <2> QED BY <1>1, <2>1
<1>6. Reloaded(db) = Fresh(db)
  BY <1>5 DEF Reloaded, fresh
<1> QED BY <1>6, RoundTrip

\* If they hold two, SaveToFile takes the width that a loaded matrix gives itself
\* for its words, and what it writes is another matrix, whatever the sizes: the
\* first entry of the second row is the first of the third, or beyond the end.
THEOREM ResavedCondensed ==
    ASSUME NEW db, Apart(db), PerWord = 2, PackRows > 1
    PROVE  Saved(Reloaded(db).pack) # Saved(Fresh(db).pack)
<1> DEFINE fresh == Fresh(db)
           pack  == [FreshPack(db) EXCEPT !.phys = PackCols]
           words == FreshPack(db).words
           e     == PackCols + 1
<1>1. Reloaded(db).pack = pack /\ Fresh(db).pack = FreshPack(db)
  <2>1. fresh = [db |-> fresh.db, pack |-> fresh.pack, outs |-> fresh.outs, second |-> fresh.second]
        /\ fresh.pack = FreshPack(db)
    BY DEF Fresh
  <2> HIDE DEF fresh
  <2>2. [fresh EXCEPT !.pack.phys = PackCols].pack = [fresh.pack EXCEPT !.phys = PackCols]
    BY <2>1
  <2> QED BY <2>1, <2>2 DEF Reloaded, fresh
<1>2. Saved(Fresh(db).pack) = PackEntries(db)
  BY <1>1, PackSaved
<1>3. /\ words = [w \in 1 .. PackRows * Phys |->
                    [k \in 1 .. PerWord |-> PackEntries(db)[PerWord * (w - 1) + k]]]
      /\ Len(words) = PackRows * Phys
      /\ pack.rows = PackRows /\ pack.cols = PackCols /\ pack.phys = PackCols /\ pack.per = 2
      /\ pack.words = words
  <2> DEFINE old == FreshPack(db)
  <2>1. old = [rows |-> old.rows, cols |-> old.cols, phys |-> old.phys, per |-> old.per,
               words |-> old.words]
    BY DEF FreshPack
  <2>2. /\ old.rows = PackRows /\ old.cols = PackCols /\ old.per = 2
        /\ Len(words) = PackRows * Phys
        /\ words = [w \in 1 .. PackRows * Phys |->
                      [k \in 1 .. PerWord |-> PackEntries(db)[PerWord * (w - 1) + k]]]
    BY PackWords
  <2> HIDE DEF old, words
  <2>3. /\ [old EXCEPT !.phys = PackCols].rows = old.rows /\ [old EXCEPT !.phys = PackCols].cols = old.cols
        /\ [old EXCEPT !.phys = PackCols].per = old.per /\ [old EXCEPT !.phys = PackCols].words = old.words
        /\ [old EXCEPT !.phys = PackCols].phys = PackCols
    BY <2>1
  <2> QED BY <2>2, <2>3 DEF old, words
<1> HIDE DEF pack, words
<1>4. e \in 1 .. PackRows * PackCols /\ 2 * PackCols <= PackRows * PackCols
  <2>1. PackCols * 2 <= PackCols * PackRows /\ PackRows * PackCols = PackCols * PackRows
    BY PackSizes, Multiples
  <2> QED BY <2>1, PackSizes
<1>5. (e - 1) \div PackCols = 1 /\ (e - 1) % PackCols = 0
  <2>1. e - 1 = PackCols * 1 + 0 /\ 0 \in 0 .. PackCols - 1 /\ e - 1 \in Nat
    BY PackSizes
  <2> QED BY <2>1, PackSizes, DivisionOf
<1>6. Saved(pack)[e] = Entry(pack, PackCols, 1, 0)
  BY <1>3, <1>4, <1>5 DEF Saved, Entries
<1>7. Entry(pack, PackCols, 1, 0) = IF PackCols + 1 <= PackRows * Phys THEN words[PackCols + 1][1]
                                    ELSE Unknown
  <2>1. 0 \div pack.per = 0 /\ (0 % pack.per) + 1 = 1
    BY <1>3
  <2>2. 1 * PackCols + 0 + 1 = PackCols + 1
    BY PackSizes
  <2> QED BY <1>3, <2>1, <2>2 DEF Entry
<1>8. PackEntries(db)[e] = Tag(db, <<"entry", e>>) /\ PackEntries(db)[e] \in Range(PackEntries(db))
  BY <1>4 DEF PackEntries, Range
<1>9. CASE PackCols + 1 <= PackRows * Phys
  <2>1. PackCols + 1 \in 1 .. PackRows * Phys /\ PerWord * (PackCols + 1 - 1) + 1 = 2 * PackCols + 1
    BY <1>9, PackSizes
  <2>2. words[PackCols + 1][1] = PackEntries(db)[2 * PackCols + 1]
    <3>1. 1 \in 1 .. PerWord
      OBVIOUS
    <3> DEFINE v == PackCols + 1
    <3>2. v \in 1 .. PackRows * Phys /\ PerWord * (v - 1) + 1 = 2 * PackCols + 1
      BY <1>9, PackSizes
    <3> HIDE DEF v
    <3>3. words[v][1] = PackEntries(db)[PerWord * (v - 1) + 1]
      BY <1>3, <3>1, <3>2
    <3> QED BY <3>2, <3>3 DEF v
  <2>3. 2 * PackCols + 1 \in 1 .. PackRows * PackCols
    BY <1>9, PackSizes
  <2>4. PackEntries(db)[2 * PackCols + 1] = Tag(db, <<"entry", 2 * PackCols + 1>>)
    BY <2>3 DEF PackEntries
  <2>5. 2 * PackCols + 1 # e
    BY PackSizes
  <2>6. Tag(db, <<"entry", 2 * PackCols + 1>>) # Tag(db, <<"entry", e>>)
    BY <2>5 DEF Tag
  <2>7. Saved(pack)[e] # PackEntries(db)[e]
    BY <1>6, <1>7, <1>8, <1>9, <2>2, <2>4, <2>6
  <2> QED BY <1>1, <1>2, <2>7
<1>10. CASE ~(PackCols + 1 <= PackRows * Phys)
  <2>1. Unknown \notin Range(PackEntries(db))
    <3> DEFINE entries == Range(PackEntries(db))
               polys   == PolysOf(Fresh(db))
    <3>1. {Nothing, Zeros, Unknown, Refused, Undefined}
            \cap (Nat \cup polys \cup entries
                    \cup {Fresh(db).db.data, PackEntries(db), Reloaded(db)}) = {}
      BY <1>2 DEF Apart
    <3> HIDE DEF entries, polys
    <3>2. Unknown \notin entries
      BY <3>1
    <3> QED BY <3>2 DEF entries
  <2>2. Saved(pack)[e] # PackEntries(db)[e]
    BY <1>6, <1>7, <1>8, <1>10, <2>1
  <2> QED BY <1>1, <1>2, <2>2
<1> QED BY <1>9, <1>10


-----------------------------------------------------------------------------
(* What always holds of the files and of the tool *)

TypeOK ==
    /\ disk = [path \in Paths |-> disk[path]]
    /\ owner = [path \in Paths |-> owner[path]]
    /\ jobs \in 0 .. MaxJobs

\* The file of a server, to its end.
WholeFile(server) == File(Content(server), FALSE)

\* A save that returned OK is still on the disk.
OwnedOnDisk ==
    \A path \in Paths :
        owner[path] # None => disk[path] = WholeFile(owner[path])

Holding(path, db) == disk[path] = WholeFile(Fresh(db))

ToolFields == {"kind", "db", "next", "own", "size", "buffer", "served"}

\* The tool has its database from its number, and what it saved is on the disk.
\* When it reads, it saves no more: the first file is still the one that its buffer
\* was made for, and the last answer came from the file it was made from.
ToolInOrder ==
    Tool =>
        /\ job = [field \in ToolFields |-> job[field]]
        /\ job.db = jobs /\ jobs # 0
        /\ \A path \in job.own : path \in Paths /\ Holding(path, job.db)
        /\ job.size # None =>
               /\ job.next \notin Paths
               /\ job.size = disk[0]
               /\ DOMAIN job.buffer = DOMAIN disk[0].cells
        /\ job.served # None =>
               /\ job.size # None /\ job.served.path \in Paths
               /\ \A one, other \in 1 .. MaxJobs :
                      Holding(0, one) /\ Holding(job.served.path, other) =>
                          job.served.server = Reloaded(other)

Inv == TypeOK /\ OwnedOnDisk /\ ToolInOrder

-----------------------------------------------------------------------------
(* Lemmas *)

LEMMA Bounds ==
    /\ MaxJobs \in Nat /\ NumDatabases \in Nat \ {0} /\ 0 \in Paths /\ Paths \subseteq Nat
    /\ \A db \in 1 .. MaxJobs : Apart(db)
  BY StoreAssumption DEF Paths

\* A server that comes back is one that no request tells from the one saved.
LEMMA ReloadedSame ==
    ASSUME NEW db \in 1 .. MaxJobs
    PROVE  SameServer(Reloaded(db), Fresh(db))
<1> DEFINE fresh == Fresh(db)
           again == [fresh EXCEPT !.pack.phys = PackCols]
<1>1. fresh = [db |-> fresh.db, pack |-> fresh.pack, outs |-> fresh.outs, second |-> fresh.second]
  BY DEF Fresh
<1>2. fresh.pack = FreshPack(db)
  BY DEF Fresh
<1> HIDE DEF fresh
<1>3. /\ again.db = fresh.db /\ again.outs = fresh.outs /\ again.second = fresh.second
      /\ again.pack = [fresh.pack EXCEPT !.phys = PackCols]
  BY <1>1
<1>4. /\ again.pack.rows = fresh.pack.rows /\ again.pack.cols = fresh.pack.cols
      /\ again.pack.per = fresh.pack.per /\ again.pack.words = fresh.pack.words
  <2> DEFINE pack == FreshPack(db)
  <2>1. pack = [rows |-> pack.rows, cols |-> pack.cols, phys |-> pack.phys, per |-> pack.per,
                words |-> pack.words]
    BY DEF FreshPack
  <2>2. fresh.pack = pack
    BY <1>2
  <2> HIDE DEF pack, again
  <2> QED BY <1>3, <2>1, <2>2
<1>5. Reloaded(db) = again
  BY DEF Reloaded, fresh
<1> HIDE DEF again
<1>6. Multiplied(again.pack) = Multiplied(fresh.pack)
  BY <1>4, Zenon DEF Multiplied, Entries, Entry
<1>7. Reloaded(db) \notin {Refused, Undefined}
  <2>1. {Nothing, Zeros, Unknown, Refused, Undefined}
          \cap (Nat \cup PolysOf(Fresh(db)) \cup Range(PackEntries(db))
                 \cup {Fresh(db).db.data, PackEntries(db), Reloaded(db)}) = {}
    BY Bounds DEF Apart
  <2> QED BY <2>1
<1>8. Usable(Reloaded(db))
  BY <1>7 DEF Usable
<1> QED BY <1>3, <1>5, <1>6, <1>8 DEF SameServer, fresh

\* All the servers that are made from preprocessing have files of one length.
LEMMA OneLength ==
    ASSUME NEW one \in 1 .. MaxJobs, NEW other \in 1 .. MaxJobs
    PROVE  /\ DOMAIN Content(Fresh(one)) = DOMAIN Content(Fresh(other))
           /\ Content(Fresh(other)) = [p \in DOMAIN Content(Fresh(other)) |-> Content(Fresh(other))[p]]
           /\ Len(Content(Fresh(other))) \in Nat
           /\ \A p \in DOMAIN Content(Fresh(other)) : p \in Nat /\ p <= Len(Content(Fresh(other)))
<1>1. Content(Fresh(one)) \in Seq(Cells(one)) /\ Len(Content(Fresh(one))) = ContentLen
  BY Bounds, ContentOf, Zenon
<1>2. Content(Fresh(other)) \in Seq(Cells(other)) /\ Len(Content(Fresh(other))) = ContentLen
  BY Bounds, ContentOf, Zenon
<1> DEFINE a == Content(Fresh(one))
           b == Content(Fresh(other))
<1>3. a \in Seq(Cells(one)) /\ b \in Seq(Cells(other)) /\ Len(a) = Len(b)
  BY <1>1, <1>2
<1> HIDE DEF a, b
<1>4. DOMAIN a = 1 .. Len(a) /\ DOMAIN b = 1 .. Len(b) /\ b = [p \in DOMAIN b |-> b[p]]
  BY <1>3, LenProperties
<1>5. /\ DOMAIN a = DOMAIN b /\ Len(b) \in Nat
      /\ \A p \in DOMAIN b : p \in Nat /\ p <= Len(b)
  BY <1>3, <1>4, LenProperties
<1> QED BY <1>4, <1>5 DEF a, b

LEMMA FileFields ==
    ASSUME NEW server, NEW file, file = WholeFile(server)
    PROVE  file.cells = Content(server) /\ file.torn = FALSE
  BY DEF WholeFile, File

-----------------------------------------------------------------------------
(* Saving *)

\* What a save leaves behind is still what its owner says.
LEMMA SaveOKOwned ==
    ASSUME TypeOK, OwnedOnDisk, NEW path \in Paths, NEW server, SaveOK(path, server)
    PROVE  /\ OwnedOnDisk'
           /\ disk' = [other \in Paths |-> disk'[other]] /\ owner' = [other \in Paths |-> owner'[other]]
           /\ disk'[path] = WholeFile(server)
           /\ \A other \in Paths : other # path => disk'[other] = disk[other]
<1>1. /\ disk' = [disk EXCEPT ![path] = WholeFile(server)]
      /\ owner' = [owner EXCEPT ![path] = server]
      /\ DOMAIN disk = Paths /\ DOMAIN owner = Paths
  BY DEF SaveOK, TypeOK, WholeFile
<1>2. /\ disk'[path] = WholeFile(server) /\ owner'[path] = server
      /\ \A other \in Paths : other # path => disk'[other] = disk[other] /\ owner'[other] = owner[other]
  BY <1>1
<1>3. disk' = [other \in Paths |-> disk'[other]] /\ owner' = [other \in Paths |-> owner'[other]]
  BY <1>1
<1>4. OwnedOnDisk'
  BY <1>2 DEF OwnedOnDisk
<1> QED BY <1>2, <1>3, <1>4

LEMMA SaveStopsOwned ==
    ASSUME TypeOK, OwnedOnDisk, NEW path \in Paths, NEW server, SaveStops(path, server)
    PROVE  /\ OwnedOnDisk'
           /\ disk' = [other \in Paths |-> disk'[other]] /\ owner' = [other \in Paths |-> owner'[other]]
<1>1. PICK file \in CutFiles(Content(server)) : disk' = [disk EXCEPT ![path] = file]
  BY DEF SaveStops
<1>2. /\ owner' = [owner EXCEPT ![path] = None]
      /\ DOMAIN disk = Paths /\ DOMAIN owner = Paths
  BY DEF SaveStops, TypeOK
<1>3. /\ owner'[path] = None
      /\ \A other \in Paths : other # path => disk'[other] = disk[other] /\ owner'[other] = owner[other]
  BY <1>1, <1>2
<1>4. disk' = [other \in Paths |-> disk'[other]] /\ owner' = [other \in Paths |-> owner'[other]]
  BY <1>1, <1>2
<1>5. OwnedOnDisk'
  BY <1>3 DEF OwnedOnDisk
<1> QED BY <1>4, <1>5

-----------------------------------------------------------------------------
(* The steps *)

LEMMA InitInv == Init => Inv
<1> SUFFICES ASSUME Init PROVE Inv
  OBVIOUS
<1>1. TypeOK
  BY Bounds DEF Init, TypeOK
<1>2. OwnedOnDisk /\ ToolInOrder
  BY DEF Init, OwnedOnDisk, ToolInOrder, Tool
<1> QED BY <1>1, <1>2 DEF Inv

\* Steps after which no tool runs.
LEMMA NoToolInv ==
    ASSUME Inv, ~Tool', TypeOK', OwnedOnDisk'
    PROVE  Inv'
  BY DEF Inv, ToolInOrder

LEMMA StartToolInv ==
    ASSUME Inv, StartTool
    PROVE  Inv'
<1>1. /\ jobs < MaxJobs /\ jobs' = jobs + 1 /\ UNCHANGED <<disk, owner>>
      /\ job' = [kind |-> "tool", db |-> jobs', next |-> 0, own |-> {},
                 size |-> None, buffer |-> <<>>, served |-> None]
  BY DEF StartTool
<1>2. TypeOK' /\ jobs' # 0
  BY <1>1, Bounds DEF Inv, TypeOK
<1>3. OwnedOnDisk'
  BY <1>1 DEF Inv, OwnedOnDisk
<1>4. ToolInOrder'
  <2>1. /\ job'.db = jobs' /\ job'.own = {} /\ job'.size = None /\ job'.served = None
        /\ job' = [field \in ToolFields |-> job'[field]]
    BY <1>1 DEF ToolFields
  <2> QED BY <1>2, <2>1 DEF ToolInOrder
<1> QED BY <1>2, <1>3, <1>4 DEF Inv

\* A tool that changes none of its fields but these.
LEMMA KeepFileInv ==
    ASSUME Inv, KeepFile
    PROVE  Inv'
<1>1. /\ Tool /\ job.next \in Paths /\ UNCHANGED <<disk, jobs, owner>>
      /\ job' = [job EXCEPT !.next = @ + 1]
  BY DEF KeepFile, Saving
<1>2. /\ job = [field \in ToolFields |-> job[field]]
      /\ job.db = jobs /\ jobs # 0 /\ job.size = None /\ job.served = None
      /\ \A path \in job.own : path \in Paths /\ Holding(path, job.db)
  BY <1>1 DEF Inv, ToolInOrder
<1>3. /\ job' = [field \in ToolFields |-> job'[field]]
      /\ job'.db = jobs /\ job'.size = None /\ job'.served = None /\ job'.own = job.own
  BY <1>1, <1>2 DEF ToolFields
<1>4. ToolInOrder'
  BY <1>1, <1>2, <1>3 DEF ToolInOrder, Holding
<1>5. TypeOK' /\ OwnedOnDisk'
  BY <1>1 DEF Inv, TypeOK, OwnedOnDisk
<1> QED BY <1>4, <1>5 DEF Inv

LEMMA SaveFileInv ==
    ASSUME Inv, SaveFile
    PROVE  Inv'
<1>1. /\ Tool /\ job.next \in Paths /\ SaveOK(job.next, Fresh(job.db)) /\ jobs' = jobs
      /\ job' = [job EXCEPT !.next = @ + 1, !.own = @ \cup {job.next}]
  BY DEF SaveFile, Saving
<1>2. /\ job = [field \in ToolFields |-> job[field]]
      /\ job.db = jobs /\ jobs # 0 /\ job.size = None /\ job.served = None
      /\ \A path \in job.own : path \in Paths /\ Holding(path, job.db)
  BY <1>1 DEF Inv, ToolInOrder
<1>3. /\ job' = [field \in ToolFields |-> job'[field]]
      /\ job'.db = job.db /\ job'.size = None /\ job'.served = None
      /\ job'.own = job.own \cup {job.next}
  BY <1>1, <1>2 DEF ToolFields
<1>4. /\ OwnedOnDisk'
      /\ disk' = [other \in Paths |-> disk'[other]] /\ owner' = [other \in Paths |-> owner'[other]]
      /\ disk'[job.next] = WholeFile(Fresh(job.db))
      /\ \A other \in Paths : other # job.next => disk'[other] = disk[other]
  BY <1>1, SaveOKOwned DEF Inv
<1>5. \A path \in job'.own : path \in Paths /\ disk'[path] = WholeFile(Fresh(job'.db))
  BY <1>1, <1>2, <1>3, <1>4 DEF Holding
<1>6. ToolInOrder'
  BY <1>1, <1>2, <1>3, <1>5 DEF ToolInOrder, Holding
<1>7. TypeOK'
  BY <1>1, <1>4 DEF Inv, TypeOK
<1> QED BY <1>4, <1>6, <1>7 DEF Inv

LEMMA AllocateInv ==
    ASSUME Inv, Allocate
    PROVE  Inv'
<1>1. /\ Tool /\ job.next \notin Paths /\ job.size = None /\ UNCHANGED <<disk, jobs, owner>>
      /\ job' = [job EXCEPT !.size = disk[0], !.buffer = [p \in DOMAIN disk[0].cells |-> Unknown]]
  BY DEF Allocate, Saving
<1>2. /\ job = [field \in ToolFields |-> job[field]]
      /\ job.db = jobs /\ jobs # 0 /\ job.served = None
      /\ \A path \in job.own : path \in Paths /\ Holding(path, job.db)
  BY <1>1 DEF Inv, ToolInOrder
<1>3. /\ job' = [field \in ToolFields |-> job'[field]]
      /\ job'.db = jobs /\ job'.served = None /\ job'.own = job.own /\ job'.next = job.next
      /\ job'.size = disk[0] /\ job'.buffer = [p \in DOMAIN disk[0].cells |-> Unknown]
  BY <1>1, <1>2 DEF ToolFields
<1>4. ToolInOrder'
  BY <1>1, <1>2, <1>3 DEF ToolInOrder, Holding
<1>5. TypeOK' /\ OwnedOnDisk'
  BY <1>1 DEF Inv, TypeOK, OwnedOnDisk
<1> QED BY <1>4, <1>5 DEF Inv

\* A buffer of the right size, filled from a file that is whole.
LEMMA OverlaidWhole ==
    ASSUME NEW one \in 1 .. MaxJobs, NEW other \in 1 .. MaxJobs, NEW buffer, NEW half,
           NEW first, DOMAIN buffer = DOMAIN first.cells, first = WholeFile(Fresh(one)),
           NEW file, file = WholeFile(Fresh(other))
    PROVE  Overlaid(buffer, file, half) = Content(Fresh(other))
<1> DEFINE content == Content(Fresh(other))
<1>0. DOMAIN buffer = DOMAIN Content(Fresh(one))
  BY FileFields
<1>1. /\ DOMAIN buffer = DOMAIN content
      /\ content = [p \in DOMAIN content |-> content[p]]
      /\ Len(content) \in Nat /\ \A p \in DOMAIN content : p \in Nat /\ p <= Len(content)
  BY <1>0, OneLength
<1>2. file.cells = content /\ file.torn = FALSE
  BY FileFields
<1> HIDE DEF content
<1>3. ASSUME NEW p \in DOMAIN buffer
      PROVE  Overlaid(buffer, file, half)[p] = content[p]
  <2>1. p <= Len(file.cells) /\ p # Len(file.cells) + 1
    <3>1. p \in Nat /\ p <= Len(content) /\ Len(content) \in Nat
      BY <1>1
    <3>2. p <= Len(content) /\ p # Len(content) + 1
      BY <3>1
    <3> QED BY <1>2, <3>2
  <2>2. Overlaid(buffer, file, half)[p] =
            CASE p <= Len(file.cells)                 -> file.cells[p]
              [] file.torn /\ p = Len(file.cells) + 1 -> half
              [] OTHER                                -> buffer[p]
    BY DEF Overlaid
  <2>3. Overlaid(buffer, file, half)[p] = file.cells[p]
    BY <2>1, <2>2
  <2> QED BY <1>2, <2>3
<1>4. Overlaid(buffer, file, half) = [p \in DOMAIN buffer |-> content[p]]
  BY <1>3 DEF Overlaid
<1>5. Overlaid(buffer, file, half) = content
  BY <1>1, <1>4
<1> QED BY <1>5 DEF content

LEMMA ServeInv ==
    ASSUME Inv, NEW path \in Paths, Serve(path)
    PROVE  Inv'
<1>1. Tool /\ job.size # None /\ UNCHANGED <<disk, jobs, owner>>
  BY DEF Serve
<1>2. PICK half :
          LET buffer == Overlaid(job.buffer, disk[path], half)
          IN  \E server \in Loads(buffer, job.size) :
                  job' = [job EXCEPT !.buffer = buffer,
                                     !.served = [path |-> path, server |-> server]]
  BY DEF Serve
<1> DEFINE buffer == Overlaid(job.buffer, disk[path], half)
<1>3. PICK server \in Loads(buffer, job.size) :
          job' = [job EXCEPT !.buffer = buffer, !.served = [path |-> path, server |-> server]]
  BY <1>2
<1>4. /\ job = [field \in ToolFields |-> job[field]]
      /\ job.db = jobs /\ jobs # 0
      /\ \A other \in job.own : other \in Paths /\ Holding(other, job.db)
      /\ job.next \notin Paths /\ job.size = disk[0]
      /\ DOMAIN job.buffer = DOMAIN disk[0].cells
  BY <1>1 DEF Inv, ToolInOrder
<1>5. DOMAIN buffer = DOMAIN job.buffer
  BY DEF Overlaid
<1>6. ASSUME NEW one \in 1 .. MaxJobs, NEW other \in 1 .. MaxJobs,
             Holding(0, one), Holding(path, other)
      PROVE  server = Reloaded(other)
  <2>1. DOMAIN job.buffer = DOMAIN Content(Fresh(one)) /\ job.size.torn = FALSE
    <3>1. disk[0].cells = Content(Fresh(one)) /\ disk[0].torn = FALSE
      BY <1>6, FileFields DEF Holding
    <3> QED BY <1>4, <3>1
  <2>2. buffer = Content(Fresh(other))
    <3>1. disk[path] = WholeFile(Fresh(other))
      BY <1>6 DEF Holding
    <3>2. disk[0] = WholeFile(Fresh(one))
      BY <1>6 DEF Holding
    <3>3. Overlaid(job.buffer, disk[path], half) = Content(Fresh(other))
      BY <1>4, <3>1, <3>2, OverlaidWhole
    <3> QED BY <3>3
  <2>3. server = Load(buffer)
    BY <1>3, <2>1 DEF Loads
  <2>4. Load(Content(Fresh(other))) = Reloaded(other)
    BY Bounds, RoundTrip
  <2> QED BY <2>2, <2>3, <2>4
<1> HIDE DEF buffer
<1>7. /\ job' = [field \in ToolFields |-> job'[field]]
      /\ job'.db = jobs /\ job'.own = job.own /\ job'.next = job.next
      /\ job'.size = job.size /\ job'.buffer = buffer
      /\ job'.served = [path |-> path, server |-> server]
  BY <1>3, <1>4 DEF ToolFields
<1>8. job'.served.path = path /\ job'.served.server = server
  BY <1>7
<1>9. ToolInOrder'
  <2>1. \A one, other \in 1 .. MaxJobs :
            Holding(0, one)' /\ Holding(job.served.path, other)' =>
                (job.served.server = Reloaded(other))'
    BY <1>1, <1>6, <1>8 DEF Holding
  <2> QED BY <1>1, <1>4, <1>5, <1>7, <1>8, <2>1 DEF ToolInOrder, Holding
<1>10. TypeOK' /\ OwnedOnDisk'
  BY <1>1 DEF Inv, TypeOK, OwnedOnDisk
<1> QED BY <1>9, <1>10 DEF Inv

LEMMA LoadFromFileInv ==
    ASSUME Inv, NEW path \in Paths, LoadFromFile(path)
    PROVE  Inv'
<1>1. /\ jobs < MaxJobs /\ jobs' = jobs + 1 /\ UNCHANGED <<disk, owner>>
      /\ \E server : job' = [kind |-> "library", server |-> server]
  BY DEF LoadFromFile
<1>2. TypeOK'
  BY <1>1, Bounds DEF Inv, TypeOK
<1>5. OwnedOnDisk'
  BY <1>1 DEF Inv, OwnedOnDisk
<1>3. job'.kind = "library"
  BY <1>1
<1>4. ~Tool'
  BY <1>3 DEF Tool
<1> QED BY <1>2, <1>4, <1>5, NoToolInv

LEMMA SaveToFileInv ==
    ASSUME Inv, NEW path \in Paths, SaveToFile(path)
    PROVE  Inv'
<1>1. Library /\ SaveOK(path, job.server) /\ UNCHANGED <<job, jobs>>
  BY DEF SaveToFile
<1>2. /\ OwnedOnDisk'
      /\ disk' = [other \in Paths |-> disk'[other]] /\ owner' = [other \in Paths |-> owner'[other]]
  BY <1>1, SaveOKOwned DEF Inv
<1>3. TypeOK'
  BY <1>1, <1>2 DEF Inv, TypeOK
<1>4. ~Tool'
  BY <1>1 DEF Tool, Library
<1> QED BY <1>2, <1>3, <1>4, NoToolInv

\* Saves that stop, and programs that end.
LEMMA StopInv ==
    ASSUME Inv,
           \/ StopSaveFile
           \/ \E path \in Paths : StopSaveToFile(path)
           \/ EndJob
    PROVE  Inv'
<1>1. job' = None /\ jobs' = jobs
  BY DEF StopSaveFile, StopSaveToFile, EndJob
<1>2. ~Tool'
  BY <1>1 DEF Tool
<1>3. TypeOK' /\ OwnedOnDisk'
  <2>1. ASSUME NEW path \in Paths, NEW server, SaveStops(path, server)
        PROVE  TypeOK' /\ OwnedOnDisk'
    <3>1. /\ OwnedOnDisk'
          /\ disk' = [other \in Paths |-> disk'[other]]
          /\ owner' = [other \in Paths |-> owner'[other]]
      BY <2>1, SaveStopsOwned DEF Inv
    <3> QED BY <1>1, <3>1 DEF Inv, TypeOK
  <2>2. CASE StopSaveFile
    BY <2>1, <2>2 DEF StopSaveFile, Saving
  <2>3. CASE \E path \in Paths : StopSaveToFile(path)
    BY <2>1, <2>3 DEF StopSaveToFile
  <2>4. CASE EndJob
    BY <2>4 DEF EndJob, Inv, TypeOK, OwnedOnDisk
  <2> QED BY <2>2, <2>3, <2>4
<1> QED BY <1>2, <1>3, NoToolInv

-----------------------------------------------------------------------------
(* The theorems *)

\* The invariant that the others follow from: a save that returned OK is on the
\* disk as it was written, and a tool that reads has the buffer of the first file
\* and the answer of the last one.
THEOREM Invariant == Spec => []Inv
<1>1. Inv /\ [Next]_vars => Inv'
  <2> SUFFICES ASSUME Inv, [Next]_vars
               PROVE  Inv'
    OBVIOUS
  <2>1. CASE StartTool
    BY <2>1, StartToolInv
  <2>2. CASE KeepFile
    BY <2>2, KeepFileInv
  <2>3. CASE SaveFile
    BY <2>3, SaveFileInv
  <2>4. CASE Allocate
    BY <2>4, AllocateInv
  <2>5. CASE StopSaveFile \/ (\E path \in Paths : StopSaveToFile(path)) \/ EndJob
    BY <2>5, StopInv
  <2>6. CASE \E path \in Paths : Serve(path)
    BY <2>6, ServeInv
  <2>7. CASE \E path \in Paths : LoadFromFile(path)
    BY <2>7, LoadFromFileInv
  <2>8. CASE \E path \in Paths : SaveToFile(path)
    BY <2>8, SaveToFileInv
  <2>9. CASE UNCHANGED vars
    BY <2>9 DEF vars, Inv, TypeOK, OwnedOnDisk, ToolInOrder, Tool, Holding
  <2> QED BY <2>1, <2>2, <2>3, <2>4, <2>5, <2>6, <2>7, <2>8, <2>9 DEF Next
<1> QED BY InitInv, <1>1, PTL DEF Spec

\* A server that was made from preprocessing comes back from its file: for files
\* of any sizes and whatever was at the path before, SaveToFile and then
\* LoadFromBuffer make a server that no request tells from the one saved.
THEOREM ComesBack == Spec => []SavedComesBack
<1>1. Inv => SavedComesBack
  <2> SUFFICES ASSUME Inv, NEW path \in Paths, owner[path] # None,
                      NEW db \in 1 .. jobs, owner[path] = Fresh(db)
               PROVE  SameServer(Load(disk[path].cells), owner[path])
    BY DEF SavedComesBack, Preprocessed
  <2>1. db \in 1 .. MaxJobs
    BY Bounds DEF Inv, TypeOK
  <2>2. disk[path] = WholeFile(Fresh(db))
    BY DEF Inv, OwnedOnDisk
  <2>3. disk[path].cells = Content(Fresh(db))
    BY <2>2, FileFields
  <2>4. Load(Content(Fresh(db))) = Reloaded(db)
    BY <2>1, Bounds, RoundTrip
  <2>5. SameServer(Reloaded(db), Fresh(db))
    BY <2>1, ReloadedSame
  <2> QED BY <2>3, <2>4, <2>5
<1> QED BY Invariant, <1>1, PTL

\* The buffer that the tool reads every file into carries nothing over: from a
\* file that was saved to its end, next to such a first file, the server is that
\* file's, whatever torn or shorter files were read into the buffer before.
THEOREM WholeFiles == Spec => []WholeFilesServe
<1>1. Inv => WholeFilesServe
  <2> SUFFICES ASSUME Inv, Tool, job.served # None, owner[0] # None,
                      owner[job.served.path] # None,
                      NEW one \in 1 .. jobs, owner[0] = Fresh(one),
                      NEW other \in 1 .. jobs, owner[job.served.path] = Fresh(other)
               PROVE  SameServer(job.served.server, owner[job.served.path])
    BY DEF WholeFilesServe, Preprocessed
  <2>1. one \in 1 .. MaxJobs /\ other \in 1 .. MaxJobs
    BY Bounds DEF Inv, TypeOK
  <2>2. job.served.path \in Paths /\ 0 \in Paths
    BY Bounds DEF Inv, ToolInOrder
  <2>3. Holding(0, one) /\ Holding(job.served.path, other)
    BY <2>2 DEF Inv, OwnedOnDisk, Holding
  <2>4. job.served.server = Reloaded(other)
    BY <2>1, <2>3 DEF Inv, ToolInOrder
  <2>5. SameServer(Reloaded(other), Fresh(other))
    BY <2>1, ReloadedSame
  <2> QED BY <2>4, <2>5
<1> QED BY Invariant, <1>1, PTL

\* The tool compares an answer with its own database: that is right whenever the
\* first file and the one answered from are files that it saved itself.
THEOREM Own == Spec => []OwnDatabase
<1>1. Inv => OwnDatabase
  <2> SUFFICES ASSUME Inv, Tool, job.served # None, {0, job.served.path} \subseteq job.own
               PROVE  SameServer(job.served.server, Fresh(job.db))
    BY DEF OwnDatabase
  <2>1. job.db \in 1 .. MaxJobs
    BY Bounds DEF Inv, TypeOK, ToolInOrder
  <2>2. Holding(0, job.db) /\ Holding(job.served.path, job.db)
    BY DEF Inv, ToolInOrder
  <2>3. job.served.server = Reloaded(job.db)
    BY <2>1, <2>2 DEF Inv, ToolInOrder
  <2> QED BY <2>1, <2>3, ReloadedSame
<1> QED BY Invariant, <1>1, PTL
=============================================================================
