------------------------ MODULE PirAlgorithms_proofs ------------------------
(***************************************************************************)
(* Proofs about single algorithms of InsPIRe, and about the automorphisms  *)
(* of the ring, for every ring, every width of the coefficients and every  *)
(* gadget.                                                                 *)
(***************************************************************************)
EXTENDS PirAlgorithms, FiniteSetTheorems, Numbers

(***************************************************************************)
(* Sums over finite sets                                                   *)
(***************************************************************************)

Pick(s) == CHOOSE x \in s : TRUE

\* The function whose value at S MapThenSumSet takes for the sum of f over S.
Sums(it, f, S) ==
    it = [s \in SUBSET S |-> IF s = {} THEN 0 ELSE f[Pick(s)] + it[s \ {Pick(s)}]]

Total(f, S) == MapThenSumSet(LAMBDA x : f[x], S)

LEMMA SumsOver ==
    ASSUME NEW f, NEW S
    PROVE  SumFunctionOnSet(f, S) = Total(f, S)
  BY Zenon DEF SumFunctionOnSet, FoldFunctionOnSet, Total, MapThenSumSet

LEMMA SumsAt ==
    ASSUME NEW S, NEW f, NEW it, Sums(it, f, S), NEW s \in SUBSET S
    PROVE  /\ s = {} => it[s] = 0
           /\ s # {} => it[s] = f[Pick(s)] + it[s \ {Pick(s)}]
<1>1. it[s] = IF s = {} THEN 0 ELSE f[Pick(s)] + it[s \ {Pick(s)}]
  BY Zenon DEF Sums
<1> QED BY <1>1

\* What is left of a set without the element that is taken first.
LEMMA PickOf ==
    ASSUME NEW s, s # {}, IsFiniteSet(s)
    PROVE  /\ Pick(s) \in s /\ IsFiniteSet(s \ {Pick(s)})
           /\ Cardinality(s) \in Nat \ {0} /\ Cardinality(s \ {Pick(s)}) = Cardinality(s) - 1
<1>1. Pick(s) \in s
  BY Zenon DEF Pick
<1>2. Cardinality(s) \in Nat
  BY FS_CardinalityType
<1>3. Cardinality(s) # 0
  BY FS_EmptySet
<1>4. IsFiniteSet(s \ {Pick(s)}) /\ Cardinality(s \ {Pick(s)}) = Cardinality(s) - 1
  BY <1>1, FS_RemoveElement
<1> QED BY <1>1, <1>2, <1>3, <1>4

\* It is the same for a set on its own and for one that is part of another.
LEMMA SumsUnique ==
    ASSUME NEW S, IsFiniteSet(S), NEW R \in SUBSET S, NEW f,
           NEW it, Sums(it, f, S), NEW at, Sums(at, f, R)
    PROVE  \A s \in SUBSET R : it[s] = at[s]
<1> DEFINE T == {n \in Nat : \A s \in SUBSET R : Cardinality(s) = n => it[s] = at[s]}
<1>1. ASSUME NEW s \in SUBSET R
      PROVE  IsFiniteSet(s) /\ Cardinality(s) \in Nat /\ s \in SUBSET S
  BY FS_Subset, FS_CardinalityType
<1>2. 0 \in T
  <2> SUFFICES ASSUME NEW s \in SUBSET R, Cardinality(s) = 0
               PROVE  it[s] = at[s]
    OBVIOUS
  <2>1. s = {}
    BY <1>1, FS_EmptySet
  <2>2. it[s] = 0 /\ at[s] = 0
    BY <1>1, <2>1, SumsAt
  <2> QED BY <2>2
<1>3. ASSUME NEW n \in Nat, n \in T
      PROVE  n + 1 \in T
  <2> SUFFICES ASSUME NEW s \in SUBSET R, Cardinality(s) = n + 1
               PROVE  it[s] = at[s]
    OBVIOUS
  <2>1. s # {}
    BY FS_EmptySet
  <2> DEFINE r == s \ {Pick(s)}
  <2>2. r \in SUBSET R /\ Cardinality(r) = n
    BY <1>1, <2>1, PickOf
  <2>3. it[r] = at[r]
    BY <1>3, <2>2
  <2>4. it[s] = f[Pick(s)] + it[r] /\ at[s] = f[Pick(s)] + at[r]
    <3>1. s \in SUBSET S
      BY <1>1
    <3>2. \A v \in SUBSET S : v # {} => it[v] = f[Pick(v)] + it[v \ {Pick(v)}]
      BY SumsAt
    <3>3. at[s] = f[Pick(s)] + at[r]
      BY <2>1, SumsAt
    <3>4. it[s] = f[Pick(s)] + it[r]
      BY <2>1, <3>1, <3>2, Zenon
    <3> QED BY <3>3, <3>4
  <2> QED BY <2>3, <2>4
<1> HIDE DEF T
<1>4. \A n \in Nat : n \in T
  BY <1>2, <1>3, NatInd
<1> QED BY <1>1, <1>4 DEF T

\* There is such a function.
LEMMA SumsExist ==
    ASSUME NEW S, IsFiniteSet(S), NEW f
    PROVE  \E it : Sums(it, f, S)
<1> DEFINE Small(n) == {s \in SUBSET S : Cardinality(s) <= n}
           Part(it, n) ==
               it = [s \in Small(n) |-> IF s = {} THEN 0 ELSE f[Pick(s)] + it[s \ {Pick(s)}]]
           T == {n \in Nat : \E it : Part(it, n)}
<1>1. ASSUME NEW s \in SUBSET S
      PROVE  IsFiniteSet(s) /\ Cardinality(s) \in Nat /\ Cardinality(s) <= Cardinality(S)
  BY FS_Subset, FS_CardinalityType
<1>2. 0 \in T
  <2> DEFINE g == [s \in Small(0) |-> 0]
  <2>1. \A s \in Small(0) : s = {}
    BY <1>1, FS_EmptySet
  <2>2. g = [s \in Small(0) |-> IF s = {} THEN 0 ELSE f[Pick(s)] + g[s \ {Pick(s)}]]
    BY <2>1
  <2> QED BY <2>2
<1>3. ASSUME NEW n \in Nat, n \in T
      PROVE  n + 1 \in T
  <2>1. PICK it : Part(it, n)
    BY <1>3
  <2> DEFINE g == [s \in Small(n + 1) |-> IF s = {} THEN 0 ELSE f[Pick(s)] + it[s \ {Pick(s)}]]
  <2>2. ASSUME NEW s \in Small(n + 1), s # {}
        PROVE  g[s \ {Pick(s)}] = it[s \ {Pick(s)}]
    <3> DEFINE r == s \ {Pick(s)}
    <3>1. r \in Small(n) /\ r \in Small(n + 1)
      BY <1>1, <2>2, PickOf
    <3>2. it[r] = IF r = {} THEN 0 ELSE f[Pick(r)] + it[r \ {Pick(r)}]
      <4> HIDE DEF r, Small
      <4> QED BY <2>1, <3>1, Zenon
    <3>3. g[r] = IF r = {} THEN 0 ELSE f[Pick(r)] + it[r \ {Pick(r)}]
      <4> HIDE DEF r, Small
      <4> QED BY <3>1, Zenon
    <3> QED BY <3>2, <3>3
  <2>3. g = [s \in Small(n + 1) |-> IF s = {} THEN 0 ELSE f[Pick(s)] + g[s \ {Pick(s)}]]
    <3>1. g = [s \in Small(n + 1) |-> g[s]]
      OBVIOUS
    <3>2. \A s \in Small(n + 1) : g[s] = IF s = {} THEN 0 ELSE f[Pick(s)] + it[s \ {Pick(s)}]
      OBVIOUS
    <3>3. \A s \in Small(n + 1) : g[s] = IF s = {} THEN 0 ELSE f[Pick(s)] + g[s \ {Pick(s)}]
      <4> HIDE DEF g, Small
      <4> QED BY <2>2, <3>2
    <3> HIDE DEF g, Small
    <3> QED BY <3>1, <3>3, Zenon
  <2>4. Part(g, n + 1)
    <3> HIDE DEF g, Small
    <3> QED BY <2>3, Zenon
  <2>5. n + 1 \in Nat
    OBVIOUS
  <2> HIDE DEF g, Part
  <2> QED BY <2>4, <2>5
<1> HIDE DEF T
<1>4. \A n \in Nat : n \in T
  BY <1>2, <1>3, NatInd
<1>5. Cardinality(S) \in Nat
  BY FS_CardinalityType
<1>6. PICK it : Part(it, Cardinality(S))
  BY <1>4, <1>5 DEF T
<1>7. Small(Cardinality(S)) = SUBSET S
  BY <1>1
<1>8. Sums(it, f, S)
  <2> HIDE DEF Small
  <2> QED BY <1>6, <1>7 DEF Sums
<1> QED BY <1>8

\* So any such function has the sum for its last value.
LEMMA SumIs ==
    ASSUME NEW S, IsFiniteSet(S), NEW f, NEW it, Sums(it, f, S)
    PROVE  it[S] = Total(f, S)
<1> DEFINE at == CHOOSE g : Sums(g, f, S)
<1>1. Total(f, S) = at[S]
  BY Zenon DEF Total, MapThenSumSet, MapThenFoldSet, Sums, Pick
<1>2. Sums(at, f, S)
  BY SumsExist, Zenon
<1> HIDE DEF at
<1>3. S \in SUBSET S
  OBVIOUS
<1>4. \A s \in SUBSET S : it[s] = at[s]
  BY <1>2, <1>3, SumsUnique
<1> QED BY <1>1, <1>3, <1>4

\* Taking the first element out.
LEMMA SumPick ==
    ASSUME NEW S, IsFiniteSet(S), NEW f
    PROVE  /\ S = {} => Total(f, S) = 0
           /\ S # {} => Total(f, S) = f[Pick(S)] + Total(f, S \ {Pick(S)})
<1>1. PICK it : Sums(it, f, S)
  BY SumsExist
<1>2. it[S] = Total(f, S)
  BY <1>1, SumIs
<1>3. \A v \in SUBSET S : /\ v = {} => it[v] = 0
                          /\ v # {} => it[v] = f[Pick(v)] + it[v \ {Pick(v)}]
  <2> SUFFICES ASSUME NEW v \in SUBSET S
               PROVE  /\ v = {} => it[v] = 0
                      /\ v # {} => it[v] = f[Pick(v)] + it[v \ {Pick(v)}]
    OBVIOUS
  <2> QED BY <1>1, SumsAt
<1>4. S \in SUBSET S
  OBVIOUS
<1>5. ASSUME S # {}
      PROVE  Total(f, S) = f[Pick(S)] + Total(f, S \ {Pick(S)})
  <2> DEFINE R == S \ {Pick(S)}
  <2>1. R \in SUBSET S /\ IsFiniteSet(R)
    BY <1>5, PickOf
  <2>2. PICK at : Sums(at, f, R)
    BY <2>1, SumsExist
  <2>3. at[R] = Total(f, R)
    BY <2>1, <2>2, SumIs
  <2> HIDE DEF R
  <2>4. \A s \in SUBSET R : it[s] = at[s]
    BY <1>1, <2>1, <2>2, SumsUnique
  <2>5. it[R] = at[R]
    BY <2>4
  <2>6. it[S] = f[Pick(S)] + it[R]
    BY <1>3, <1>4, <1>5, Zenon DEF R
  <2> QED BY <1>2, <2>3, <2>5, <2>6 DEF R
<1> QED BY <1>2, <1>3, <1>4, <1>5

\* Sums of integers are integers, and any element may be taken out first.
LEMMA SumWith ==
    ASSUME NEW S, IsFiniteSet(S), NEW f, \A x \in S : f[x] \in Int
    PROVE  /\ Total(f, S) \in Int
           /\ \A y \in S : Total(f, S) = f[y] + Total(f, S \ {y})
<1> DEFINE Good(s) == /\ Total(f, s) \in Int
                      /\ \A y \in s : Total(f, s) = f[y] + Total(f, s \ {y})
           T == {n \in Nat : \A s \in SUBSET S : Cardinality(s) <= n => Good(s)}
<1>1. ASSUME NEW s \in SUBSET S
      PROVE  IsFiniteSet(s) /\ Cardinality(s) \in Nat
  BY FS_Subset, FS_CardinalityType
<1>2. 0 \in T
  <2> SUFFICES ASSUME NEW s \in SUBSET S, Cardinality(s) <= 0
               PROVE  Good(s)
    OBVIOUS
  <2>1. s = {}
    BY <1>1, FS_EmptySet
  <2>2. Total(f, s) = 0
    BY <1>1, <2>1, SumPick
  <2> QED BY <2>1, <2>2
<1>3. ASSUME NEW n \in Nat, n \in T
      PROVE  n + 1 \in T
  <2> SUFFICES ASSUME NEW s \in SUBSET S, Cardinality(s) = n + 1
               PROVE  Good(s)
    BY <1>1, <1>3
  <2>0. \A v \in SUBSET S : Cardinality(v) <= n => Good(v)
    BY <1>3
  <2>1. IsFiniteSet(s) /\ s # {}
    BY <1>1, FS_EmptySet
  <2> DEFINE c == Pick(s)
             r == s \ {c}
  <2>2. c \in s /\ r \in SUBSET S /\ Cardinality(r) = n
    <3>1. c \in s /\ Cardinality(r) = Cardinality(s) - 1
      BY <2>1, PickOf
    <3> QED BY <3>1
  <2>3. Good(r)
    <3> HIDE DEF Good
    <3>1. Cardinality(r) <= n
      BY <2>2
    <3> QED BY <2>0, <2>2, <3>1
  <2>4. Total(f, s) = f[c] + Total(f, r)
    BY <2>1, SumPick
  <2> HIDE DEF c
  <2>5. f[c] \in Int
    BY <2>2
  <2>6. ASSUME NEW y \in s, y # c
        PROVE  Total(f, s) = f[y] + Total(f, s \ {y})
    <3> DEFINE u == s \ {y}
               v == r \ {y}
    <3>1. u \in SUBSET S /\ Cardinality(u) = n
      <4>1. IsFiniteSet(u) /\ Cardinality(u) = Cardinality(s) - 1
        BY <2>1, FS_RemoveElement
      <4> QED BY <4>1
    <3>2. Good(u)
      <4> HIDE DEF Good
      <4>1. Cardinality(u) <= n
        BY <3>1
      <4> QED BY <2>0, <3>1, <4>1
    <3>3. c \in u /\ u \ {c} = v /\ y \in r
      BY <2>2, <2>6
    <3>4. Total(f, u) = f[c] + Total(f, v)
      <4>1. \A z \in u : Total(f, u) = f[z] + Total(f, u \ {z})
        BY <3>2
      <4> HIDE DEF u, v
      <4> QED BY <3>3, <4>1
    <3>5. Total(f, r) = f[y] + Total(f, v)
      <4>1. \A z \in r : Total(f, r) = f[z] + Total(f, r \ {z})
        BY <2>3
      <4> HIDE DEF r
      <4> QED BY <3>3, <4>1
    <3>6. f[y] \in Int /\ Total(f, r) \in Int /\ Total(f, u) \in Int
      BY <2>3, <3>2
    <3>7. v \in SUBSET S /\ Total(f, v) \in Int
      <4>1. v \in SUBSET r /\ r \in SUBSET S /\ v \in SUBSET S
        BY <2>2
      <4>2. IsFiniteSet(r) /\ Cardinality(v) <= Cardinality(r) /\ Cardinality(v) \in Nat
        BY <1>1, <4>1, FS_Subset
      <4>3. Good(v)
        <5> HIDE DEF Good
        <5>1. Cardinality(v) <= n
          BY <2>2, <4>2
        <5> QED BY <2>0, <4>1, <5>1
      <4> QED BY <4>1, <4>3
    <3>8. Total(f, s) = f[y] + Total(f, u)
      <4> HIDE DEF u, v, r
      <4> QED BY <2>4, <2>5, <3>4, <3>5, <3>6, <3>7
    <3> QED BY <3>8
  <2>7. Total(f, s) \in Int
    <3>1. Total(f, r) \in Int
      BY <2>3
    <3> HIDE DEF r
    <3> QED BY <2>4, <2>5, <3>1
  <2> QED BY <2>4, <2>6, <2>7
<1> HIDE DEF T
<1>4. \A n \in Nat : n \in T
  BY <1>2, <1>3, NatInd
<1>5. S \in SUBSET S /\ Cardinality(S) \in Nat
  BY FS_CardinalityType
<1> QED BY <1>4, <1>5 DEF T

\* The sums on the way from f[0] to f[n - 1].
RunningSums(run, f, n) ==
    /\ run[0] = 0
    /\ \A k \in 0 .. n - 1 : f[k] \in Int /\ run[k + 1] = f[k] + run[k]

\* A sum of the values at 0 .. n - 1 is the last of them.
LEMMA SumUpTo ==
    ASSUME NEW n \in Nat, NEW f, NEW run, RunningSums(run, f, n)
    PROVE  Total(f, 0 .. n - 1) = run[n]
<1>0. run[0] = 0 /\ \A k \in 0 .. n - 1 : f[k] \in Int /\ run[k + 1] = f[k] + run[k]
  BY DEF RunningSums
<1> DEFINE T == {m \in Nat : m <= n => Total(f, 0 .. m - 1) = run[m]}
<1>1. 0 \in T
  <2>1. 0 .. 0 - 1 = {}
    OBVIOUS
  <2>2. Total(f, {}) = 0
    BY FS_EmptySet, SumPick
  <2> QED BY <1>0, <2>1, <2>2
<1>2. ASSUME NEW m \in Nat, m \in T
      PROVE  m + 1 \in T
  <2> SUFFICES ASSUME m + 1 <= n
               PROVE  Total(f, 0 .. (m + 1) - 1) = run[m + 1]
    OBVIOUS
  <2> DEFINE S == 0 .. m
  <2>1. S = 0 .. (m + 1) - 1 /\ m \in S /\ S \ {m} = 0 .. m - 1
    OBVIOUS
  <2>2. IsFiniteSet(S)
    BY FS_Interval
  <2>3. \A x \in S : f[x] \in Int
    BY <1>0
  <2> HIDE DEF S
  <2>4. Total(f, S) = f[m] + Total(f, S \ {m})
    BY <2>1, <2>2, <2>3, SumWith
  <2>5. Total(f, 0 .. m - 1) = run[m] /\ run[m + 1] = f[m] + run[m]
    BY <1>0, <1>2
  <2> QED BY <2>1, <2>4, <2>5
<1> HIDE DEF T
<1>3. \A m \in Nat : m \in T
  BY <1>1, <1>2, NatInd
<1> QED BY <1>3 DEF T

(***************************************************************************)
(* Polynomials                                                             *)
(***************************************************************************)

LEMMA TabulatedIs ==
    ASSUME NEW f
    PROVE  Tabulated(f) = f
  BY Zenon DEF Tabulated

\* Powers of two as far as a gadget reaches.
LEMMA Powers ==
    ASSUME NEW g \in Gadgets
    PROVE  \E n \in Nat : /\ PowersUpTo(n) /\ 2 * CoeffBits <= n
                          /\ g.numDigits * g.logDigit <= n
<1> DEFINE width == g.numDigits * g.logDigit
<1>1. width \in Nat /\ 2 * CoeffBits \in Nat
  BY GadgetsAssumption, PolynomialsAssumption
<1>2. \A k \in 1 .. 2 * CoeffBits : 2 ^ k = 2 * 2 ^ (k - 1)
  BY PowersAssumption
<1>3. \A k \in 1 .. width : 2 ^ k = 2 * 2 ^ (k - 1)
  BY PowersAssumption
<1> HIDE DEF width
<1>4. CASE width <= 2 * CoeffBits
  BY <1>1, <1>2, <1>4, PowersAssumption DEF PowersUpTo, width
<1>5. CASE ~(width <= 2 * CoeffBits)
  BY <1>1, <1>3, <1>5, PowersAssumption DEF PowersUpTo, width
<1> QED BY <1>4, <1>5

LEMMA CoeffPowers == 2 * CoeffBits \in Nat /\ PowersUpTo(2 * CoeffBits)
  BY PolynomialsAssumption, PowersAssumption DEF PowersUpTo

(***************************************************************************)
(* Numbers in two's complement                                             *)
(***************************************************************************)

\* A number that the bits can hold is read back.
LEMMA SignedWithin ==
    ASSUME NEW n \in Nat, PowersUpTo(n), NEW bits \in 1 .. n, NEW v \in Int,
           -(2 ^ (bits - 1)) <= v, v < 2 ^ (bits - 1)
    PROVE  Signed(v % 2 ^ bits, bits) = v
<1> DEFINE half == 2 ^ (bits - 1)
           all == 2 ^ bits
<1>1. half \in Nat \ {0} /\ all = 2 * half
  <2>1. bits - 1 \in 0 .. n /\ bits \in Nat
    OBVIOUS
  <2>2. half \in Nat \ {0}
    BY <2>1, PowerPositive
  <2>3. all = 2 * half
    BY DEF PowersUpTo
  <2> QED BY <2>2, <2>3
<1> HIDE DEF half, all
<1>2. -half <= v /\ v < half
  BY DEF half
<1>3. CASE v >= 0
  <2>1. v % all = v
    BY <1>1, <1>2, <1>3
  <2>2. Signed(v, bits) = IF v % all >= half THEN (v % all) - all ELSE v % all
    BY DEF Signed, all, half
  <2>3. Signed(v, bits) = v
    BY <1>1, <1>2, <1>3, <2>1, <2>2
  <2> QED BY <2>1, <2>3 DEF all
<1>4. CASE v < 0
  <2> DEFINE w == v + all
  <2>1. w \in 0 .. all - 1 /\ w >= half
    BY <1>1, <1>2, <1>4
  <2>2. v % all = w /\ w % all = w
    BY <1>1, <1>2, <1>4
  <2>3. Signed(w, bits) = IF w % all >= half THEN (w % all) - all ELSE w % all
    BY DEF Signed, all, half
  <2> HIDE DEF w
  <2>4. Signed(w, bits) = w - all
    BY <2>1, <2>2, <2>3
  <2>5. w - all = v
    BY <1>1 DEF w
  <2> QED BY <2>2, <2>4, <2>5 DEF all
<1> QED BY <1>3, <1>4

LEMMA SignedBack ==
    ASSUME NEW bits \in 1 .. 2 * CoeffBits, NEW v \in Int,
           -(2 ^ (bits - 1)) <= v, v < 2 ^ (bits - 1)
    PROVE  Signed(v % 2 ^ bits, bits) = v
  BY CoeffPowers, SignedWithin

\* What is near to a multiple of q is of a small size modulo q.
LEMMA NearMultiple ==
    ASSUME NEW d \in Int, NEW c \in Int, NEW h \in Nat, 2 * h <= Modulus, -h <= d, d <= h
    PROVE  Magnitude(Signed(d + Modulus * c, LogModulus)) <= h
<1> DEFINE half == 2 ^ (LogModulus - 1)
           x == d + Modulus * c
<1>1. half \in Nat \ {0} /\ Modulus = 2 * half /\ Modulus \in Nat \ {0}
  <2>1. LogModulus \in 1 .. 2 * CoeffBits /\ LogModulus - 1 \in 0 .. 2 * CoeffBits
    BY RlweAssumption, PolynomialsAssumption
  <2>2. half \in Nat \ {0}
    BY <2>1, CoeffPowers, PowerPositive
  <2>3. Modulus = 2 * half
    BY <2>1, CoeffPowers DEF PowersUpTo, Modulus
  <2> QED BY <2>2, <2>3
<1>2. x % Modulus = d % Modulus
  BY <1>1, SameResidue
<1>3. Signed(x, LogModulus) = IF x % Modulus >= half THEN (x % Modulus) - Modulus ELSE x % Modulus
  BY DEF Signed, Modulus
<1> HIDE DEF half, x
<1>4. CASE d >= 0
  <2>1. d % Modulus = d
    BY <1>1, <1>4
  <2> QED BY <1>1, <1>2, <1>3, <1>4, <2>1 DEF Magnitude, x
<1>5. CASE d < 0
  <2>1. d % Modulus = d + Modulus
    BY <1>1, <1>5
  <2> QED BY <1>1, <1>2, <1>3, <1>5, <2>1 DEF Magnitude, x
<1> QED BY <1>4, <1>5

(***************************************************************************)
(* Digits                                                                  *)
(***************************************************************************)

LEMMA RightShiftAt ==
    ASSUME NEW p, NEW amount, NEW i \in Positions
    PROVE  RightShift(p, amount)[i] = p[i] \div 2 ^ amount
<1> DEFINE f == [x \in Positions |-> p[x] \div 2 ^ amount]
<1>1. RightShift(p, amount) = f
  BY TabulatedIs, Zenon DEF RightShift, Poly
<1>2. f[i] = p[i] \div 2 ^ amount
  OBVIOUS
<1> QED BY <1>1, <1>2

LEMMA LowBitsAt ==
    ASSUME NEW p, NEW amount, NEW i \in Positions
    PROVE  LowBits(p, amount)[i] = p[i] % 2 ^ amount
<1> DEFINE f == [x \in Positions |-> p[x] % 2 ^ amount]
<1>1. LowBits(p, amount) = f
  BY TabulatedIs, Zenon DEF LowBits, Poly
<1>2. f[i] = p[i] % 2 ^ amount
  OBVIOUS
<1> QED BY <1>1, <1>2

\* What a gadget splits of a coefficient and what it leaves out.
LEMMA GadgetOf ==
    ASSUME NEW g \in Gadgets
    PROVE  /\ g.numDigits \in Nat \ {0} /\ g.logDigit \in 1 .. CoeffBits - 1
           /\ LogModulus \in 1 .. CoeffBits /\ CoeffBits \in Nat \ {0}
           /\ g.numDigits * g.logDigit \in Nat \ {0}
           /\ Excluded(g) \in Nat /\ Excluded(g) < LogModulus
           /\ Excluded(g) > 0 => Excluded(g) = LogModulus - g.numDigits * g.logDigit
           /\ Excluded(g) = 0 => LogModulus <= g.numDigits * g.logDigit
           /\ \A k : GadgetShift(g, k) = k * g.logDigit + Excluded(g)
<1> DEFINE width == g.numDigits * g.logDigit
<1>1. /\ g.numDigits \in Nat \ {0} /\ g.logDigit \in 1 .. CoeffBits - 1
      /\ LogModulus \in 1 .. CoeffBits /\ CoeffBits \in Nat \ {0}
  BY GadgetsAssumption, RlweAssumption, PolynomialsAssumption
<1>2. width \in Nat \ {0}
  BY <1>1
<1>3. Excluded(g) = IF LogModulus - width > 0 THEN LogModulus - width ELSE 0
  BY Zenon DEF Excluded
<1>4. \A k : GadgetShift(g, k) = k * g.logDigit + Excluded(g)
  BY Zenon DEF Excluded, GadgetShift
<1> HIDE DEF width
<1>5. /\ Excluded(g) \in Nat /\ Excluded(g) < LogModulus
      /\ Excluded(g) > 0 => Excluded(g) = LogModulus - width
      /\ Excluded(g) = 0 => LogModulus <= width
  BY <1>1, <1>2, <1>3
<1> QED BY <1>1, <1>2, <1>4, <1>5 DEF width

\* The digits d and the quotients q of a number in base B with the powers P.
InBase(d, q, P, B, n) ==
    /\ P[0] = 1
    /\ \A k \in 0 .. n : P[k] \in Int /\ q[k] \in Int
    /\ \A k \in 0 .. n - 1 : /\ P[k + 1] = P[k] * B /\ d[k] \in Int
                              /\ q[k] = B * q[k + 1] + d[k]

\* What the digits stand for, in units of U.
Weighted(d, P, U, n) == [k \in 0 .. n - 1 |-> d[k] * (P[k] * U)]

\* Taking digits off a number, whatever their range, leaves a multiple of what
\* the next digit would stand for.
LEMMA DigitSums ==
    ASSUME NEW n \in Nat, NEW B \in Int, NEW P, NEW q, NEW d, NEW U \in Int,
           InBase(d, q, P, B, n)
    PROVE  Total(Weighted(d, P, U, n), 0 .. n - 1) = q[0] * U - (P[n] * U) * q[n]
<1> DEFINE f == [k \in 0 .. n - 1 |-> d[k] * (P[k] * U)]
           run == [k \in 0 .. n |-> q[0] * U - (P[k] * U) * q[k]]
<1>0. /\ P[0] = 1
      /\ \A k \in 0 .. n : P[k] \in Int /\ q[k] \in Int
      /\ \A k \in 0 .. n - 1 : /\ P[k + 1] = P[k] * B /\ d[k] \in Int
                                /\ q[k] = B * q[k + 1] + d[k]
  BY DEF InBase
<1>1. \A k \in 0 .. n - 1 : f[k] = d[k] * (P[k] * U) /\ f[k] \in Int
  <2> TAKE k \in 0 .. n - 1
  <2>1. f[k] = d[k] * (P[k] * U)
    OBVIOUS
  <2>2. d[k] \in Int /\ P[k] \in Int
    BY <1>0
  <2> QED BY <2>1, <2>2
<1>2. \A k \in 0 .. n : run[k] = q[0] * U - (P[k] * U) * q[k]
  OBVIOUS
<1> HIDE DEF f, run
<1>3. run[0] = 0
  <2>1. run[0] = q[0] * U - (1 * U) * q[0]
    BY <1>0, <1>2
  <2>2. q[0] \in Int
    BY <1>0
  <2>3. (1 * U) * q[0] = q[0] * U
    BY <2>2
  <2> QED BY <2>1, <2>2, <2>3
<1>4. ASSUME NEW k \in 0 .. n - 1
      PROVE  run[k + 1] = f[k] + run[k]
  <2>1. k \in 0 .. n /\ k + 1 \in 0 .. n
    OBVIOUS
  <2>2. /\ run[k] = q[0] * U - (P[k] * U) * q[k]
        /\ run[k + 1] = q[0] * U - (P[k + 1] * U) * q[k + 1]
    BY <1>2, <2>1
  <2>3. /\ q[0] \in Int /\ P[k] \in Int /\ q[k + 1] \in Int /\ d[k] \in Int
        /\ P[k + 1] = P[k] * B /\ q[k] = B * q[k + 1] + d[k]
    BY <1>0, <2>1
  <2>4. ASSUME NEW a \in Int, NEW w \in Int, NEW x \in Int, NEW y \in Int
        PROVE  a - ((w * B) * U) * x = y * (w * U) + (a - (w * U) * (B * x + y))
    <3>1. (w * U) * (B * x + y) = ((w * B) * U) * x + y * (w * U)
      OBVIOUS
    <3>2. (w * U) * (B * x + y) \in Int /\ ((w * B) * U) * x \in Int /\ y * (w * U) \in Int
      OBVIOUS
    <3> QED BY <3>1, <3>2
  <2>5. q[0] * U \in Int
    BY <2>3
  <2>6. q[0] * U - ((P[k] * B) * U) * q[k + 1]
            = d[k] * (P[k] * U) + (q[0] * U - (P[k] * U) * (B * q[k + 1] + d[k]))
    BY <2>3, <2>4, <2>5
  <2> QED BY <1>1, <2>2, <2>3, <2>6
<1>5. Total(f, 0 .. n - 1) = run[n]
  <2>1. RunningSums(run, f, n)
    BY <1>1, <1>3, <1>4 DEF RunningSums
  <2> QED BY <2>1, SumUpTo
<1> QED BY <1>2, <1>5 DEF f, Weighted

\* The sum that Recomposed takes.
LEMMA RecomposedIs ==
    ASSUME NEW g \in Gadgets, NEW d
    PROVE  Recomposed(d, g) = Total([k \in 0 .. g.numDigits - 1 |-> d[k] * 2 ^ GadgetShift(g, k)],
                                    0 .. g.numDigits - 1)
<1> DEFINE f == [k \in 0 .. g.numDigits - 1 |-> d[k] * 2 ^ GadgetShift(g, k)]
<1>1. Recomposed(d, g) = SumFunctionOnSet(f, 0 .. g.numDigits - 1)
  BY Zenon DEF Recomposed, SumOf
<1> QED BY <1>1, SumsOver

\* The powers of two that the digits of a gadget stand for.
LEMMA GadgetPowers ==
    ASSUME NEW g \in Gadgets
    PROVE  /\ 2 ^ Excluded(g) \in Nat \ {0} /\ 2 ^ g.logDigit \in Nat \ {0}
           /\ Modulus \in Nat \ {0} /\ Modulus <= 2 ^ CoeffBits
           /\ RoundingError(g) \in Nat /\ 2 * RoundingError(g) <= Modulus
           /\ 2 ^ (0 * g.logDigit) = 1
           /\ \A k \in 0 .. g.numDigits : 2 ^ (k * g.logDigit) \in Nat \ {0}
           /\ \A k \in 0 .. g.numDigits - 1 :
                  /\ 2 ^ ((k + 1) * g.logDigit) = 2 ^ (k * g.logDigit) * 2 ^ g.logDigit
                  /\ 2 ^ GadgetShift(g, k) = 2 ^ (k * g.logDigit) * 2 ^ Excluded(g)
           /\ \E m \in Int : 2 ^ (g.numDigits * g.logDigit) * 2 ^ Excluded(g) = Modulus * m
<1> DEFINE n == g.numDigits
           l == g.logDigit
           e == Excluded(g)
<1>1. /\ n \in Nat \ {0} /\ l \in Nat \ {0} /\ l < CoeffBits
      /\ LogModulus \in Nat \ {0} /\ LogModulus <= CoeffBits /\ CoeffBits \in Nat \ {0}
      /\ n * l \in Nat \ {0} /\ e \in Nat /\ e < LogModulus
      /\ e > 0 => e = LogModulus - n * l
      /\ e = 0 => LogModulus <= n * l
      /\ \A k : GadgetShift(g, k) = k * l + e
  BY GadgetOf
<1>2. PICK N \in Nat : PowersUpTo(N) /\ 2 * CoeffBits <= N /\ n * l <= N
  BY Powers
<1> HIDE DEF n, l, e
<1>3. ASSUME NEW k \in Nat, k <= N PROVE 2 ^ k \in Nat \ {0}
  BY <1>2, <1>3, PowerPositive
<1>4. 2 ^ e \in Nat \ {0} /\ 2 ^ l \in Nat \ {0} /\ Modulus \in Nat \ {0}
  BY <1>1, <1>2, <1>3 DEF Modulus
<1>5. Modulus <= 2 ^ CoeffBits /\ 2 * 2 ^ e <= Modulus
  <2>1. LogModulus <= CoeffBits /\ CoeffBits <= N /\ LogModulus <= N /\ e < LogModulus
    BY <1>1, <1>2
  <2> QED BY <1>1, <1>2, <2>1, PowerOrder DEF Modulus
<1>6. RoundingError(g) \in Nat /\ 2 * RoundingError(g) <= Modulus
  <2>1. RoundingError(g) = 2 ^ e \div 2
    BY DEF RoundingError, e
  <2> QED BY <1>4, <1>5, <2>1
<1>7. ASSUME NEW k \in 0 .. n PROVE k * l \in Nat /\ k * l <= n * l
  <2>1. k \in Nat /\ k <= n /\ l \in Nat /\ n \in Nat
    BY <1>1
  <2> QED BY <2>1
<1>8. ASSUME NEW k \in 0 .. n - 1
      PROVE  2 ^ ((k + 1) * l) = 2 ^ (k * l) * 2 ^ l /\ 2 ^ GadgetShift(g, k) = 2 ^ (k * l) * 2 ^ e
  <2>1. k \in 0 .. n /\ k + 1 \in 0 .. n /\ (k + 1) * l = k * l + l
    BY <1>1
  <2>2. k * l \in Nat /\ k * l + l <= N /\ k * l <= n * l
    BY <1>2, <1>1, <1>7, <2>1
  <2>3. k * l + e <= N
    <3> DEFINE x == k * l
               y == n * l
    <3>1. x \in Nat /\ y \in Nat /\ x <= y /\ y <= N
      BY <1>1, <1>2, <2>2
    <3>2. e > 0 => e = LogModulus - y
      BY <1>1
    <3> HIDE DEF x, y
    <3>3. x + e <= N
      BY <1>1, <1>2, <3>1, <3>2
    <3> QED BY <3>3 DEF x
  <2>4. 2 ^ (k * l + l) = 2 ^ (k * l) * 2 ^ l
    BY <1>1, <1>2, <2>2, PowerSum
  <2>5. 2 ^ (k * l + e) = 2 ^ (k * l) * 2 ^ e
    BY <1>1, <1>2, <2>2, <2>3, PowerSum
  <2>6. GadgetShift(g, k) = k * l + e
    BY <1>1
  <2> QED BY <2>1, <2>4, <2>5, <2>6
<1>9. \A k \in 0 .. n : 2 ^ (k * l) \in Nat \ {0}
  <2> TAKE k \in 0 .. n
  <2>1. k * l \in Nat /\ k * l <= N
    BY <1>1, <1>2, <1>7
  <2> QED BY <1>3, <2>1
<1>10. \E m \in Int : 2 ^ (n * l) * 2 ^ e = Modulus * m
  <2> DEFINE w == n * l
  <2>1. w \in Nat \ {0} /\ w <= N /\ (e > 0 => e = LogModulus - w) /\ (e = 0 => LogModulus <= w)
    BY <1>1, <1>2
  <2> HIDE DEF w
  <2>2. CASE e > 0
    <3>1. w + e = LogModulus /\ w + e <= N
      BY <1>1, <1>2, <2>1, <2>2
    <3>2. 2 ^ (w + e) = 2 ^ w * 2 ^ e
      BY <1>1, <1>2, <2>1, <3>1, PowerSum
    <3>3. 2 ^ w * 2 ^ e = Modulus * 1
      BY <1>4, <3>1, <3>2 DEF Modulus
    <3> QED BY <3>3 DEF w
  <2>3. CASE e = 0
    <3> DEFINE c == w - LogModulus
    <3>1. c \in Nat /\ LogModulus + c = w /\ c <= N /\ 2 ^ e = 1
      BY <1>1, <1>2, <2>1, <2>3 DEF PowersUpTo
    <3> HIDE DEF c
    <3>2. 2 ^ w = 2 ^ LogModulus * 2 ^ c
      BY <1>1, <1>2, <2>1, <3>1, PowerSum
    <3>3. 2 ^ c \in Nat /\ 2 ^ w \in Nat
      BY <1>3, <2>1, <3>1
    <3>4. 2 ^ w * 2 ^ e = Modulus * 2 ^ c
      BY <3>1, <3>2, <3>3 DEF Modulus
    <3> QED BY <3>3, <3>4 DEF w
  <2> QED BY <1>1, <2>2, <2>3
<1>11. 2 ^ (0 * l) = 1
  <2>1. 0 * l = 0
    BY <1>1
  <2> QED BY <1>2, <2>1 DEF PowersUpTo
<1> QED BY <1>4, <1>5, <1>6, <1>8, <1>9, <1>10, <1>11 DEF n, l, e

\* What is left of a coefficient when the bits a gadget leaves out are rounded.
LEMMA RoundedNear ==
    ASSUME NEW g \in Gadgets, NEW p, NEW i \in Positions, p[i] \in 0 .. Modulus - 1
    PROVE  LET r == Rounded(p, LogModulus - g.numDigits * g.logDigit)[i]
           IN  /\ r \in Nat
               /\ -RoundingError(g) <= r * 2 ^ Excluded(g) - p[i]
               /\ r * 2 ^ Excluded(g) - p[i] <= RoundingError(g)
<1> DEFINE e == LogModulus - g.numDigits * g.logDigit
           x == p[i]
           r == Rounded(p, e)[i]
           U == 2 ^ Excluded(g)
<1>1. /\ LogModulus \in Nat /\ LogModulus <= CoeffBits /\ CoeffBits \in Nat
      /\ e \in Int /\ Excluded(g) \in Nat /\ Excluded(g) < LogModulus
      /\ Excluded(g) = IF e > 0 THEN e ELSE 0
  <2>1. Excluded(g) = IF e > 0 THEN e ELSE 0
    BY Zenon DEF Excluded
  <2>2. g.numDigits * g.logDigit \in Nat
    BY GadgetOf
  <2> QED BY <2>1, <2>2, GadgetOf
<1>2. /\ U \in Nat \ {0} /\ Modulus \in Nat \ {0} /\ Modulus <= 2 ^ CoeffBits
      /\ 2 * RoundingError(g) <= Modulus
  BY GadgetPowers
<1>3. RoundingError(g) = U \div 2
  BY DEF RoundingError
<1>4. x \in Nat /\ x < Modulus
  BY <1>2
<1>5. CASE e <= 0
  <2>1. U = 1
    BY <1>1, <1>5, PowersAssumption
  <2>2. r = x
    <3>1. ~(e > 0)
      BY <1>1, <1>5
    <3> QED BY <3>1, Zenon DEF Rounded
  <2> HIDE DEF e, U, x, r
  <2>3. r \in Nat /\ r * U - x = 0 /\ RoundingError(g) = 0
    BY <1>3, <1>4, <2>1, <2>2
  <2> QED BY <2>3 DEF e, U, x, r
<1>6. CASE e > 0
  <2> DEFINE half == 2 ^ (e - 1)
             y == (x + half) \div U
  <2>1. Excluded(g) = e /\ U = 2 ^ e
    BY <1>1, <1>6
  <2>2. half \in Nat \ {0} /\ U = 2 * half
    <3>1. e \in 1 .. 2 * CoeffBits /\ e - 1 \in 0 .. 2 * CoeffBits
      BY <1>1, <1>6, <2>1
    <3>2. half \in Nat \ {0}
      BY <3>1, CoeffPowers, PowerPositive
    <3>3. 2 ^ e = 2 * half
      BY <3>1, CoeffPowers DEF PowersUpTo
    <3> QED BY <2>1, <3>2, <3>3
  <2>3. r = y % 2 ^ CoeffBits
    <3> DEFINE f == [z \in Positions |-> ToCoeff((p[z] + 2 ^ (e - 1)) \div 2 ^ e)]
    <3> HIDE DEF e
    <3>1. Rounded(p, e) = f
      BY <1>6, TabulatedIs, Zenon DEF Rounded, Poly
    <3>2. f[i] = ToCoeff((p[i] + 2 ^ (e - 1)) \div 2 ^ e)
      OBVIOUS
    <3> QED BY <2>1, <3>1, <3>2 DEF ToCoeff
  <2> HIDE DEF e, U, x, r, half, y
  <2>4. y \in Nat /\ U * y <= x + half /\ x + half < U * y + U
    <3> DEFINE v == x + half
               t == v % U
               z == U * y
    <3>1. v \in Int /\ v >= 0 /\ U \in Nat \ {0}
      BY <1>2, <1>4, <2>2
    <3>2. y = v \div U
      BY DEF y
    <3> HIDE DEF v
    <3>3. y \in Nat /\ t \in 0 .. U - 1 /\ v = z + t
      BY <3>1, <3>2, Division
    <3>4. z \in Int
      BY <3>1, <3>3
    <3> HIDE DEF t, z
    <3>5. z <= v /\ v < z + U
      BY <3>1, <3>3, <3>4
    <3> QED BY <3>3, <3>5 DEF z, v
  <2>6. RoundingError(g) = half /\ 2 * half <= Modulus
    BY <1>2, <1>3, <2>2
  <2>7. y < Modulus
    <3>1. U * y >= 2 * y
      BY <2>2, <2>4
    <3> QED BY <1>2, <1>4, <2>2, <2>4, <2>6, <3>1
  <2>8. r = y
    <3> DEFINE all == 2 ^ CoeffBits
    <3>1. all \in Nat \ {0}
      <4>1. CoeffBits \in 0 .. 2 * CoeffBits
        BY <1>1
      <4> QED BY <4>1, CoeffPowers, PowerPositive
    <3>2. y < all /\ r = y % all
      BY <1>2, <2>3, <2>7, <2>4, <3>1
    <3> HIDE DEF all
    <3> QED BY <2>4, <3>1, <3>2
  <2>9. -half <= y * U - x /\ y * U - x <= half
    <3>1. y * U = U * y /\ U * y \in Int
      BY <1>2, <2>4
    <3> QED BY <1>4, <2>2, <2>4, <3>1
  <2> QED BY <2>4, <2>6, <2>8, <2>9 DEF x, r, U, e
<1> QED BY <1>1, <1>5, <1>6

\* Digits with the promised remainders recompose to the coefficient.
LEMMA DigitsClose ==
    ASSUME NEW g \in Gadgets, NEW x \in 0 .. Modulus - 1, NEW d, NEW q,
           \A k \in 0 .. g.numDigits : q[k] \in Int,
           \A k \in 0 .. g.numDigits - 1 :
               d[k] \in Int /\ q[k] = 2 ^ g.logDigit * q[k + 1] + d[k],
           -RoundingError(g) <= q[0] * 2 ^ Excluded(g) - x,
           q[0] * 2 ^ Excluded(g) - x <= RoundingError(g)
    PROVE  Magnitude(Signed(Recomposed(d, g) - x, LogModulus)) <= RoundingError(g)
<1> DEFINE n == g.numDigits
           B == 2 ^ g.logDigit
           U == 2 ^ Excluded(g)
           P == [k \in 0 .. n |-> 2 ^ (k * g.logDigit)]
           S == 0 .. n - 1
<1>1. n \in Nat \ {0}
  BY GadgetOf
<1>2. /\ B \in Nat \ {0} /\ U \in Nat \ {0} /\ Modulus \in Nat \ {0}
      /\ RoundingError(g) \in Nat /\ 2 * RoundingError(g) <= Modulus
  BY GadgetPowers
<1>3. P[0] = 1 /\ \A k \in 0 .. n : P[k] \in Int
  BY <1>1, GadgetPowers
<1>4. \A k \in 0 .. n - 1 : /\ P[k + 1] = P[k] * B
                            /\ 2 ^ GadgetShift(g, k) = P[k] * U
  <2> TAKE k \in 0 .. n - 1
  <2>1. k \in 0 .. n /\ k + 1 \in 0 .. n
    BY <1>1
  <2>2. P[k] = 2 ^ (k * g.logDigit) /\ P[k + 1] = 2 ^ ((k + 1) * g.logDigit)
    BY <2>1
  <2> QED BY <2>2, GadgetPowers
<1>5. PICK m \in Int : P[n] * U = Modulus * m
  <2>1. P[n] = 2 ^ (n * g.logDigit)
    BY <1>1
  <2> QED BY <2>1, GadgetPowers
<1>6. Recomposed(d, g) = Total(Weighted(d, P, U, n), S)
  <2>1. [k \in S |-> d[k] * 2 ^ GadgetShift(g, k)] = [k \in S |-> d[k] * (P[k] * U)]
    BY <1>4
  <2>2. Recomposed(d, g) = Total([k \in S |-> d[k] * 2 ^ GadgetShift(g, k)], S)
    BY RecomposedIs
  <2> HIDE DEF P, S, U
  <2> QED BY <2>1, <2>2 DEF Weighted, S
<1> HIDE DEF n, B, U, P
<1>7. \A k \in 0 .. n - 1 : d[k] \in Int /\ q[k] = B * q[k + 1] + d[k]
  BY DEF n, B
<1>8. \A k \in 0 .. n : P[k] \in Int /\ q[k] \in Int
  BY <1>3 DEF n
<1>9. Recomposed(d, g) = q[0] * U - (P[n] * U) * q[n]
  <2>1. Total(Weighted(d, P, U, n), 0 .. n - 1) = q[0] * U - (P[n] * U) * q[n]
    <3>1. InBase(d, q, P, B, n)
      BY <1>3, <1>4, <1>7, <1>8 DEF InBase
    <3>2. n \in Nat /\ B \in Int /\ U \in Int
      BY <1>1, <1>2
    <3> QED BY <3>1, <3>2, DigitSums
  <2> QED BY <1>6, <2>1
<1>10. q[0] \in Int /\ q[n] \in Int
  BY <1>1, <1>8
<1> DEFINE a == q[0] * U
           c == -(m * q[n])
<1>11. a \in Int /\ c \in Int
  BY <1>2, <1>5, <1>10
<1>12. Recomposed(d, g) = a + Modulus * c
  <2>1. (Modulus * m) * q[n] = Modulus * (m * q[n]) /\ m * q[n] \in Int
    BY <1>2, <1>5, <1>10
  <2>2. Modulus * (m * q[n]) = -(Modulus * c)
    BY <1>2, <2>1
  <2>3. Modulus * c \in Int
    BY <1>2, <1>11
  <2> HIDE DEF a, c
  <2>4. Recomposed(d, g) = a - Modulus * (m * q[n])
    BY <1>5, <1>9, <2>1 DEF a
  <2> QED BY <1>11, <2>2, <2>3, <2>4
<1>13. -RoundingError(g) <= a - x /\ a - x <= RoundingError(g)
  BY DEF U
<1> HIDE DEF a, c
<1>14. Recomposed(d, g) - x = (a - x) + Modulus * c /\ a - x \in Int
  <2>1. x \in Int /\ Modulus * c \in Int
    BY <1>2, <1>11
  <2> QED BY <1>11, <1>12, <2>1
<1> QED BY <1>2, <1>11, <1>13, <1>14, NearMultiple

\* The digits of GadgetInv are those of the number in base 2^logDigit.
LEMMA GadgetInvAt ==
    ASSUME NEW g \in Gadgets, NEW p, NEW k \in 0 .. g.numDigits - 1, NEW i \in Positions
    PROVE  GadgetInv(p, LogModulus, g)[k][i]
               = ((Rounded(p, LogModulus - g.numDigits * g.logDigit)[i] \div 2 ^ (k * g.logDigit))
                  % 2 ^ g.logDigit)
<1> DEFINE r == Rounded(p, LogModulus - g.numDigits * g.logDigit)
           f == [j \in 0 .. g.numDigits - 1 |->
                    LowBits(RightShift(r, j * g.logDigit), g.logDigit)]
<1>1. GadgetInv(p, LogModulus, g) = f
  BY TabulatedIs, Zenon DEF GadgetInv, Vector
<1>2. f[k] = LowBits(RightShift(r, k * g.logDigit), g.logDigit)
  OBVIOUS
<1> HIDE DEF f, r
<1>3. GadgetInv(p, LogModulus, g)[k][i] = (RightShift(r, k * g.logDigit)[i] % 2 ^ g.logDigit)
  BY <1>1, <1>2, LowBitsAt
<1>4. RightShift(r, k * g.logDigit)[i] = (r[i] \div 2 ^ (k * g.logDigit))
  BY RightShiftAt
<1> QED BY <1>3, <1>4 DEF r

\* Dividing twice.
LEMMA TwoQuotients ==
    ASSUME NEW r \in Nat, NEW a \in Nat \ {0}, NEW b \in Nat \ {0}
    PROVE  r \div a = b * (r \div (a * b)) + ((r \div a) % b)
<1> DEFINE x == r \div a
           u == r % a
           y == x \div b
           v == x % b
<1>1. x \in Nat /\ u \in 0 .. a - 1 /\ r = a * x + u
  <2>1. r \in Int /\ r >= 0
    OBVIOUS
  <2> HIDE DEF x, u
  <2> QED BY <2>1, Division DEF x, u
<1> HIDE DEF x, u
<1>2. y \in Nat /\ v \in 0 .. b - 1 /\ x = b * y + v
  <2>1. x \in Int /\ x >= 0
    BY <1>1
  <2> QED BY <2>1, Division
<1> HIDE DEF y, v
<1> DEFINE w == a * v + u
           ab == a * b
<1>3. w \in 0 .. ab - 1
  <2>1. v \in Nat /\ v <= b - 1 /\ u \in Nat /\ u <= a - 1
    BY <1>1, <1>2
  <2>2. a * v <= a * (b - 1) /\ a * v \in Nat
    BY <2>1
  <2>3. a * (b - 1) = ab - a /\ ab \in Nat
    OBVIOUS
  <2> QED BY <2>1, <2>2, <2>3
<1>4. r = ab * y + w
  <2>1. a * (b * y + v) = ab * y + a * v
    BY <1>2
  <2>2. ab * y \in Int /\ a * v \in Int /\ u \in Int
    BY <1>1, <1>2
  <2> QED BY <1>1, <1>2, <2>1, <2>2
<1>5. ab \in Nat \ {0}
  OBVIOUS
<1> HIDE DEF w, ab
<1>6. r \div ab = y
  BY <1>2, <1>3, <1>4, <1>5, DivisionOf
<1> QED BY <1>2, <1>6 DEF x, y, v, ab

\* What SignedGadgetInv has left at each digit.
LEMMA SignedGadgetInvAt ==
    ASSUME NEW g \in Gadgets, NEW p
    PROVE  \E rest :
        /\ rest[0] = Rounded(p, LogModulus - g.numDigits * g.logDigit)
        /\ \A k \in 1 .. g.numDigits - 1 : \A i \in Positions :
               rest[k][i] = (rest[k - 1][i] \div 2 ^ g.logDigit)
                            + (IF rest[k - 1][i] % 2 ^ g.logDigit >= 2 ^ g.logDigit \div 2
                               THEN 1 ELSE 0)
        /\ \A k \in 0 .. g.numDigits - 1 : \A i \in Positions :
               SignedGadgetInv(p, LogModulus, g)[k][i] = ToCoeff(Signed(rest[k][i], g.logDigit))
<1> DEFINE base == 2 ^ g.logDigit
           First == Rounded(p, LogModulus - g.numDigits * g.logDigit)
           Following(digits) ==
               Poly(LAMBDA i :
                   (digits[i] \div base) + (IF digits[i] % base >= base \div 2 THEN 1 ELSE 0))
           Body(h, n) == [k \in 0 .. n |-> IF k = 0 THEN First ELSE Following(h[k - 1])]
           T == {n \in Nat : \E h : h = Body(h, n)}
           last == g.numDigits - 1
<1>1. last \in Nat
  BY GadgetsAssumption
<1> HIDE DEF First, Following, last
<1>2. 0 \in T
  <2> DEFINE h == [k \in 0 .. 0 |-> First]
  <2>1. h = Body(h, 0)
    <3>1. \A k \in 0 .. 0 : k = 0
      OBVIOUS
    <3> QED BY <3>1
  <2> QED BY <2>1
<1>3. ASSUME NEW n \in Nat, n \in T PROVE n + 1 \in T
  <2>1. PICK old : old = Body(old, n)
    BY <1>3
  <2> DEFINE h == [k \in 0 .. n + 1 |-> IF k = n + 1 THEN Following(old[n]) ELSE old[k]]
  <2>2. \A k \in 0 .. n + 1 : h[k] = IF k = n + 1 THEN Following(old[n]) ELSE old[k]
    OBVIOUS
  <2>3. \A k \in 0 .. n : old[k] = IF k = 0 THEN First ELSE Following(old[k - 1])
    BY <2>1
  <2>4. ASSUME NEW k \in 0 .. n + 1
        PROVE  h[k] = IF k = 0 THEN First ELSE Following(h[k - 1])
    <3> HIDE DEF h
    <3>1. CASE k = n + 1
      <4>1. h[k] = Following(old[n]) /\ k - 1 = n /\ k # 0 /\ h[k - 1] = old[n]
        BY <2>2, <3>1
      <4> QED BY <3>1, <4>1
    <3>2. CASE k # n + 1
      <4>1. k \in 0 .. n /\ h[k] = old[k]
        BY <2>2, <3>2
      <4>2. k # 0 => h[k - 1] = old[k - 1]
        BY <2>2, <4>1
      <4> QED BY <2>3, <4>1, <4>2
    <3> QED BY <3>1, <3>2
  <2>5. h = Body(h, n + 1)
    <3>1. h = [k \in 0 .. n + 1 |-> h[k]]
      OBVIOUS
    <3> HIDE DEF h
    <3>2. [k \in 0 .. n + 1 |-> h[k]] = Body(h, n + 1)
      BY <2>4, Zenon
    <3> HIDE DEF Body
    <3> QED BY <3>1, <3>2
  <2>6. n + 1 \in Nat
    OBVIOUS
  <2> HIDE DEF h, Body
  <2> QED BY <2>5, <2>6
<1> HIDE DEF T
<1>4. \A n \in Nat : n \in T
  BY <1>2, <1>3, NatInd
<1> DEFINE rest == CHOOSE h : h = Body(h, last)
<1>5. rest = Body(rest, last)
  <2>1. \E h : h = Body(h, last)
    BY <1>1, <1>4 DEF T
  <2> HIDE DEF Body
  <2> QED BY <2>1, Zenon
<1> DEFINE Lowest(digits) == Poly(LAMBDA i : ToCoeff(Signed(digits[i], g.logDigit)))
           f == [k \in 0 .. last |-> Lowest(rest[k])]
<1>6. SignedGadgetInv(p, LogModulus, g) = f
  BY TabulatedIs, Zenon DEF SignedGadgetInv, Vector, First, Following, last
<1> HIDE DEF rest
<1>7. \A k \in 0 .. last : rest[k] = IF k = 0 THEN First ELSE Following(rest[k - 1])
  BY <1>5
<1>8. rest[0] = First
  BY <1>1, <1>7
<1>9. ASSUME NEW k \in 1 .. last, NEW i \in Positions
      PROVE  rest[k][i] = (rest[k - 1][i] \div base)
                          + (IF rest[k - 1][i] % base >= base \div 2 THEN 1 ELSE 0)
  <2>1. rest[k] = Following(rest[k - 1])
    <3>1. k \in 0 .. last /\ k # 0
      BY <1>1
    <3> QED BY <1>7, <3>1
  <2> DEFINE d == rest[k - 1]
             e == [x \in Positions |->
                      (d[x] \div base) + (IF d[x] % base >= base \div 2 THEN 1 ELSE 0)]
  <2>2. Following(d) = e
    BY TabulatedIs, Zenon DEF Following, Poly
  <2>3. e[i] = (d[i] \div base) + (IF d[i] % base >= base \div 2 THEN 1 ELSE 0)
    OBVIOUS
  <2> QED BY <2>1, <2>2, <2>3
<1>10. ASSUME NEW k \in 0 .. last, NEW i \in Positions
       PROVE  f[k][i] = ToCoeff(Signed(rest[k][i], g.logDigit))
  <2> DEFINE d == rest[k]
             e == [x \in Positions |-> ToCoeff(Signed(d[x], g.logDigit))]
  <2>1. Lowest(d) = e
    BY TabulatedIs, Zenon DEF Lowest, Poly
  <2>2. e[i] = ToCoeff(Signed(d[i], g.logDigit)) /\ f[k] = Lowest(d)
    OBVIOUS
  <2> QED BY <2>1, <2>2
<1> HIDE DEF f
<1>11. /\ rest[0] = First
       /\ \A k \in 1 .. last : \A i \in Positions :
              rest[k][i] = (rest[k - 1][i] \div base)
                           + (IF rest[k - 1][i] % base >= base \div 2 THEN 1 ELSE 0)
       /\ \A k \in 0 .. last : \A i \in Positions :
              SignedGadgetInv(p, LogModulus, g)[k][i] = ToCoeff(Signed(rest[k][i], g.logDigit))
  BY <1>6, <1>8, <1>9, <1>10
<1> QED BY <1>11 DEF First, last

\* A signed digit is what is left when the next digit has borrowed from it.
LEMMA SignedStep ==
    ASSUME NEW bits \in 1 .. 2 * CoeffBits, NEW v \in Int
    PROVE  LET base == 2 ^ bits
               next == (v \div base) + (IF v % base >= base \div 2 THEN 1 ELSE 0)
           IN  /\ base \div 2 = 2 ^ (bits - 1) /\ base \div 2 \in Nat
               /\ next \in Int /\ v = base * next + Signed(v, bits)
               /\ Signed(v, bits) \in -(base \div 2) .. base \div 2 - 1
<1> DEFINE base == 2 ^ bits
           half == 2 ^ (bits - 1)
           q == v \div base
           low == v % base
           next == q + (IF low >= base \div 2 THEN 1 ELSE 0)
<1>1. half \in Nat \ {0} /\ base = 2 * half
  <2>1. bits - 1 \in 0 .. 2 * CoeffBits
    BY CoeffPowers
  <2>2. half \in Nat \ {0}
    BY <2>1, CoeffPowers, PowerPositive
  <2>3. base = 2 * half
    BY CoeffPowers DEF PowersUpTo
  <2> QED BY <2>2, <2>3
<1>2. Signed(v, bits) = IF low >= half THEN low - base ELSE low
  BY Zenon DEF Signed
<1> HIDE DEF base, half
<1>3. base \in Nat \ {0} /\ base \div 2 = half
  BY <1>1
<1>4. q \in Int /\ low \in 0 .. base - 1 /\ v = base * q + low
  BY <1>3, Division
<1> HIDE DEF q, low
<1>5. CASE low >= half
  <2>1. next = q + 1 /\ Signed(v, bits) = low - base
    BY <1>2, <1>3, <1>5
  <2>2. base * (q + 1) = base * q + base /\ base * q \in Int
    BY <1>3, <1>4
  <2>3. v = base * (q + 1) + (low - base)
    BY <1>3, <1>4, <2>2
  <2> QED BY <1>1, <1>3, <1>4, <1>5, <2>1, <2>3 DEF q, low, half, base
<1>6. CASE low < half
  <2>1. next = q /\ Signed(v, bits) = low
    <3>1. ~(low >= half)
      BY <1>1, <1>4, <1>6
    <3> QED BY <1>2, <1>3, <1>4, <3>1
  <2> QED BY <1>1, <1>3, <1>4, <1>6, <2>1 DEF q, low, half, base
<1> QED BY <1>1, <1>4, <1>5, <1>6

\* The digits of GadgetInv.
LEMMA PlainDigits ==
    ASSUME NEW g \in Gadgets, NEW p, NEW i \in Positions, p[i] \in 0 .. Modulus - 1, NEW d,
           \A k \in 0 .. g.numDigits - 1 : d[k] = GadgetInv(p, LogModulus, g)[k][i]
    PROVE  /\ \A k \in 0 .. g.numDigits - 1 : d[k] \in 0 .. 2 ^ g.logDigit - 1
           /\ Magnitude(Signed(Recomposed(d, g) - p[i], LogModulus)) <= RoundingError(g)
<1> DEFINE n == g.numDigits
           B == 2 ^ g.logDigit
           r == Rounded(p, LogModulus - g.numDigits * g.logDigit)[i]
           P(k) == 2 ^ (k * g.logDigit)
           q == [k \in 0 .. n |-> r \div P(k)]
<1>1. n \in Nat \ {0} /\ B \in Nat \ {0}
  BY GadgetOf, GadgetPowers
<1>2. \A k \in 0 .. n : P(k) \in Nat \ {0}
  BY GadgetPowers
<1>3. \A k \in 0 .. n - 1 : P(k + 1) = P(k) * B
  BY GadgetPowers
<1>4. P(0) = 1
  BY GadgetPowers
<1>5. /\ r \in Nat
      /\ -RoundingError(g) <= r * 2 ^ Excluded(g) - p[i]
      /\ r * 2 ^ Excluded(g) - p[i] <= RoundingError(g)
  BY RoundedNear
<1>6. \A k \in 0 .. n - 1 : d[k] = (r \div P(k)) % B
  BY GadgetInvAt
<1> HIDE DEF n, B, r, P
<1>7. \A k \in 0 .. n : q[k] = r \div P(k) /\ q[k] \in Int
  BY <1>2, <1>5
<1>8. q[0] = r
  BY <1>1, <1>4, <1>5, <1>7
<1>9. ASSUME NEW k \in 0 .. n - 1
      PROVE  d[k] \in 0 .. B - 1 /\ q[k] = B * q[k + 1] + d[k]
  <2>1. k \in 0 .. n /\ k + 1 \in 0 .. n
    BY <1>1
  <2>2. P(k) \in Nat \ {0} /\ P(k + 1) = P(k) * B /\ d[k] = (r \div P(k)) % B
    BY <1>2, <1>3, <1>6, <2>1
  <2>3. r \div P(k) = B * (r \div (P(k) * B)) + ((r \div P(k)) % B)
    BY <1>1, <1>5, <2>2, TwoQuotients
  <2>4. q[k] = r \div P(k) /\ q[k + 1] = r \div (P(k) * B) /\ q[k] \in Int
    BY <1>7, <2>1, <2>2
  <2> HIDE DEF q
  <2>5. d[k] = q[k] % B
    BY <2>2, <2>4
  <2> QED BY <1>1, <2>3, <2>4, <2>5
<1> HIDE DEF q
<1>10. /\ \A k \in 0 .. g.numDigits : q[k] \in Int
       /\ \A k \in 0 .. g.numDigits - 1 :
              d[k] \in Int /\ q[k] = 2 ^ g.logDigit * q[k + 1] + d[k]
  BY <1>7, <1>9 DEF n, B
<1>11. Magnitude(Signed(Recomposed(d, g) - p[i], LogModulus)) <= RoundingError(g)
  BY <1>5, <1>8, <1>10, DigitsClose
<1> QED BY <1>9, <1>11 DEF n, B

\* The digits of SignedGadgetInv as the FFT reads them.
LEMMA SignedDigits ==
    ASSUME NEW g \in Gadgets, NEW p, NEW i \in Positions, p[i] \in 0 .. Modulus - 1, NEW d,
           \A k \in 0 .. g.numDigits - 1 :
               d[k] = Signed(SignedGadgetInv(p, LogModulus, g)[k][i], CoeffBits)
    PROVE  /\ \A k \in 0 .. g.numDigits - 1 :
                  d[k] \in -(2 ^ g.logDigit \div 2) .. 2 ^ g.logDigit \div 2 - 1
           /\ Magnitude(Signed(Recomposed(d, g) - p[i], LogModulus)) <= RoundingError(g)
<1> DEFINE n == g.numDigits
           l == g.logDigit
           B == 2 ^ l
           r == Rounded(p, LogModulus - g.numDigits * g.logDigit)[i]
           Next1(v) == (v \div B) + (IF v % B >= B \div 2 THEN 1 ELSE 0)
<1>1. n \in Nat \ {0} /\ l \in 1 .. CoeffBits - 1 /\ CoeffBits \in Nat \ {0} /\ B \in Nat \ {0}
  BY GadgetOf, GadgetPowers
<1>2. l \in 1 .. 2 * CoeffBits /\ CoeffBits \in 1 .. 2 * CoeffBits
  BY <1>1
<1>3. /\ r \in Nat
      /\ -RoundingError(g) <= r * 2 ^ Excluded(g) - p[i]
      /\ r * 2 ^ Excluded(g) - p[i] <= RoundingError(g)
  BY RoundedNear
<1>4. PICK rest :
        /\ rest[0] = Rounded(p, LogModulus - g.numDigits * g.logDigit)
        /\ \A k \in 1 .. g.numDigits - 1 : \A j \in Positions :
               rest[k][j] = (rest[k - 1][j] \div 2 ^ g.logDigit)
                            + (IF rest[k - 1][j] % 2 ^ g.logDigit >= 2 ^ g.logDigit \div 2
                               THEN 1 ELSE 0)
        /\ \A k \in 0 .. g.numDigits - 1 : \A j \in Positions :
               SignedGadgetInv(p, LogModulus, g)[k][j] = ToCoeff(Signed(rest[k][j], g.logDigit))
  BY SignedGadgetInvAt
<1>5. /\ rest[0][i] = r
      /\ \A k \in 1 .. n - 1 : rest[k][i] = Next1(rest[k - 1][i])
      /\ \A k \in 0 .. n - 1 : d[k] = Signed(ToCoeff(Signed(rest[k][i], l)), CoeffBits)
  BY <1>4
<1>6. ASSUME NEW v \in Int
      PROVE  /\ Next1(v) \in Int /\ v = B * Next1(v) + Signed(v, l)
             /\ Signed(v, l) \in -(B \div 2) .. B \div 2 - 1
             /\ Signed(ToCoeff(Signed(v, l)), CoeffBits) = Signed(v, l)
  <2>1. /\ Next1(v) \in Int /\ v = B * Next1(v) + Signed(v, l)
        /\ Signed(v, l) \in -(B \div 2) .. B \div 2 - 1
        /\ B \div 2 = 2 ^ (l - 1) /\ B \div 2 \in Nat
    BY <1>2, SignedStep
  <2> DEFINE s == Signed(v, l)
             half == 2 ^ (l - 1)
             most == 2 ^ (CoeffBits - 1)
  <2>2. half <= most /\ half \in Nat /\ most \in Nat
    <3>1. /\ l - 1 \in Nat /\ CoeffBits - 1 \in Nat /\ l - 1 <= CoeffBits - 1
          /\ CoeffBits - 1 <= 2 * CoeffBits /\ 2 * CoeffBits \in Nat
      BY <1>1
    <3>2. half <= most
      BY <3>1, CoeffPowers, PowerOrder
    <3>3. half \in Nat /\ most \in Nat
      BY <3>1, CoeffPowers, PowerPositive
    <3> QED BY <3>2, <3>3
  <2>3. s \in -half .. half - 1
    BY <2>1
  <2> HIDE DEF s, half, most
  <2>4. s \in Int /\ -most <= s /\ s < most
    BY <2>2, <2>3
  <2>5. Signed(s % 2 ^ CoeffBits, CoeffBits) = s
    BY <1>2, <2>4, SignedBack DEF most
  <2> QED BY <2>1, <2>5 DEF ToCoeff, s
<1> DEFINE q == [k \in 0 .. n |-> IF k = n THEN Next1(rest[n - 1][i]) ELSE rest[k][i]]
           T == {k \in Nat : k <= n - 1 => rest[k][i] \in Int}
<1> HIDE DEF n, l, B, r, Next1
<1>7. \A k \in 0 .. n - 1 : rest[k][i] \in Int
  <2>1. 0 \in T
    BY <1>3, <1>5
  <2>2. ASSUME NEW k \in Nat, k \in T PROVE k + 1 \in T
    <3> SUFFICES ASSUME k + 1 <= n - 1 PROVE rest[k + 1][i] \in Int
      OBVIOUS
    <3>1. rest[k][i] \in Int /\ k + 1 \in 1 .. n - 1 /\ (k + 1) - 1 = k
      BY <1>1, <2>2
    <3> QED BY <1>5, <1>6, <3>1
  <2> HIDE DEF T
  <2>3. \A k \in Nat : k \in T
    BY <2>1, <2>2, NatInd
  <2> QED BY <2>3 DEF T
<1>8. ASSUME NEW k \in 0 .. n - 1
      PROVE  q[k] = rest[k][i] /\ q[k + 1] = Next1(rest[k][i])
  <2>1. k \in 0 .. n /\ k # n /\ k + 1 \in 0 .. n
    BY <1>1
  <2>2. q[k] = rest[k][i]
    BY <2>1
  <2>3. CASE k + 1 = n
    BY <1>1, <2>1, <2>3
  <2>4. CASE k + 1 # n
    <3>1. k + 1 \in 1 .. n - 1 /\ (k + 1) - 1 = k
      BY <1>1, <2>4
    <3>2. q[k + 1] = rest[k + 1][i]
      BY <2>1, <2>4
    <3> QED BY <1>5, <2>2, <3>1, <3>2
  <2> QED BY <2>2, <2>3, <2>4
<1> HIDE DEF q
<1>9. ASSUME NEW k \in 0 .. n - 1
      PROVE  /\ q[k] \in Int /\ q[k + 1] \in Int /\ q[k] = B * q[k + 1] + d[k]
             /\ d[k] \in -(B \div 2) .. B \div 2 - 1
  BY <1>5, <1>6, <1>7, <1>8
<1>10. q[0] = r /\ \A k \in 0 .. n : q[k] \in Int
  <2>1. 0 \in 0 .. n - 1
    BY <1>1
  <2>2. q[0] = r
    BY <1>5, <1>8, <2>1
  <2>3. ASSUME NEW k \in 0 .. n PROVE q[k] \in Int
    <3>1. CASE k \in 0 .. n - 1
      BY <1>9, <3>1
    <3>2. CASE k = n
      <4>1. n - 1 \in 0 .. n - 1 /\ (n - 1) + 1 = n
        BY <1>1
      <4> QED BY <1>9, <3>2, <4>1
    <3> QED BY <1>1, <3>1, <3>2
  <2> QED BY <2>2, <2>3
<1>11. B \div 2 \in Int
  BY <1>1
<1>12. /\ \A k \in 0 .. g.numDigits : q[k] \in Int
       /\ \A k \in 0 .. g.numDigits - 1 :
              d[k] \in Int /\ q[k] = 2 ^ g.logDigit * q[k + 1] + d[k]
  BY <1>9, <1>10, <1>11 DEF n, B, l
<1>13. Magnitude(Signed(Recomposed(d, g) - p[i], LogModulus)) <= RoundingError(g)
  BY <1>3, <1>10, <1>12, DigitsClose
<1> QED BY <1>9, <1>13 DEF n, B, l

(***************************************************************************)
(* The invariants                                                          *)
(***************************************************************************)

AllCases == Cases \cup {NoCase}

\* A behaviour evaluates one of the cases.
LEMMA CasesInvariant == Spec => [](case \in AllCases)
<1>1. Init => case \in AllCases
  BY DEF Init, AllCases
<1>2. case \in AllCases /\ [Next]_case => (case \in AllCases)'
  BY Zenon DEF Next, AllCases
<1> QED BY <1>1, <1>2, PTL DEF Spec

\* A case of digits has a gadget.
LEMMA DigitsCase ==
    ASSUME case \in AllCases, case.op = "digits"
    PROVE  case.gadget \in Gadgets /\ case.block \in DigitBlocks
<1>1. case # NoCase
  BY DEF NoCase
<1>2. case \in [op : {"digits"}, gadget : Gadgets, block : DigitBlocks]
  BY <1>1 DEF AllCases, Cases
<1> QED BY <1>2

\* Both decompositions of every coefficient have digits of the promised range
\* and recompose to it, exactly modulo q or within half of what the gadget
\* leaves out, for every ring, every width and every gadget.
THEOREM Recompositions == Spec => []DigitsRecompose
<1>1. case \in AllCases => DigitsRecompose
  <2> SUFFICES ASSUME case \in AllCases, case.op = "digits",
                      NEW low \in 0 .. (2 ^ 10 \div Degree) - 1
               PROVE  LET g == case.gadget
                          base == 2 ^ g.logDigit
                          p == Poly(LAMBDA i : (case.block * 2 ^ 10 + low * Degree + i) % Modulus)
                          plain == GadgetInv(p, LogModulus, g)
                          signed == SignedGadgetInv(p, LogModulus, g)
                          Close(x, y) == Magnitude(Signed(x - y, LogModulus)) <= RoundingError(g)
                      IN  \A i \in Positions :
                              LET digit(k) == Signed(signed[k][i], CoeffBits)
                              IN  /\ \A k \in 0 .. g.numDigits - 1 :
                                        /\ plain[k][i] \in 0 .. base - 1
                                        /\ digit(k) \in -(base \div 2) .. base \div 2 - 1
                                  /\ Close(Recomposed(Vector(g.numDigits, LAMBDA k : plain[k][i]), g), p[i])
                                  /\ Close(Recomposed(Vector(g.numDigits, LAMBDA k : digit(k)), g), p[i])
    BY Zenon DEF DigitsRecompose
  <2> DEFINE g == case.gadget
             p == Poly(LAMBDA i : (case.block * 2 ^ 10 + low * Degree + i) % Modulus)
             start == case.block * 2 ^ 10 + low * Degree
  <2>1. g \in Gadgets /\ case.block \in Nat
    BY DigitsCase, CasesAssumption
  <2>2. start \in Int
    <3>1. case.block \in Int /\ low \in Int /\ Degree \in Int /\ 2 ^ 10 \in Int
      BY <2>1, PolynomialsAssumption
    <3> QED BY <3>1
  <2>3. \A i \in Positions : p[i] \in 0 .. Modulus - 1
    <3> DEFINE f == [i \in Positions |-> (case.block * 2 ^ 10 + low * Degree + i) % Modulus]
    <3>1. p = f
      BY TabulatedIs, Zenon DEF Poly
    <3>2. ASSUME NEW i \in Positions PROVE f[i] \in 0 .. Modulus - 1
      <4>1. f[i] = (start + i) % Modulus
        OBVIOUS
      <4>2. i \in Int /\ Modulus \in Nat \ {0}
        BY <2>1, GadgetPowers, PolynomialsAssumption DEF Positions
      <4> HIDE DEF start, f
      <4> QED BY <2>2, <4>1, <4>2
    <3> HIDE DEF f, p
    <3> QED BY <3>1, <3>2
  <2> HIDE DEF g, p, start
  <2> SUFFICES ASSUME NEW i \in Positions
               PROVE  LET base == 2 ^ g.logDigit
                          plain == GadgetInv(p, LogModulus, g)
                          signed == SignedGadgetInv(p, LogModulus, g)
                          Close(x, y) == Magnitude(Signed(x - y, LogModulus)) <= RoundingError(g)
                          digit(k) == Signed(signed[k][i], CoeffBits)
                      IN  /\ \A k \in 0 .. g.numDigits - 1 :
                                /\ plain[k][i] \in 0 .. base - 1
                                /\ digit(k) \in -(base \div 2) .. base \div 2 - 1
                          /\ Close(Recomposed(Vector(g.numDigits, LAMBDA k : plain[k][i]), g), p[i])
                          /\ Close(Recomposed(Vector(g.numDigits, LAMBDA k : digit(k)), g), p[i])
    BY Zenon DEF g, p
  <2> DEFINE plain == Vector(g.numDigits, LAMBDA k : GadgetInv(p, LogModulus, g)[k][i])
             signed == Vector(g.numDigits, LAMBDA k :
                           Signed(SignedGadgetInv(p, LogModulus, g)[k][i], CoeffBits))
  <2>4. \A k \in 0 .. g.numDigits - 1 : plain[k] = GadgetInv(p, LogModulus, g)[k][i]
    <3> DEFINE f == [k \in 0 .. g.numDigits - 1 |-> GadgetInv(p, LogModulus, g)[k][i]]
    <3>1. plain = f
      BY TabulatedIs, Zenon DEF Vector
    <3>2. \A k \in 0 .. g.numDigits - 1 : f[k] = GadgetInv(p, LogModulus, g)[k][i]
      OBVIOUS
    <3> HIDE DEF plain, f
    <3> QED BY <3>1, <3>2
  <2>5. \A k \in 0 .. g.numDigits - 1 :
            signed[k] = Signed(SignedGadgetInv(p, LogModulus, g)[k][i], CoeffBits)
    <3> DEFINE f == [k \in 0 .. g.numDigits - 1 |->
                        Signed(SignedGadgetInv(p, LogModulus, g)[k][i], CoeffBits)]
    <3>1. signed = f
      BY TabulatedIs, Zenon DEF Vector
    <3>2. \A k \in 0 .. g.numDigits - 1 :
              f[k] = Signed(SignedGadgetInv(p, LogModulus, g)[k][i], CoeffBits)
      OBVIOUS
    <3> HIDE DEF signed, f
    <3> QED BY <3>1, <3>2
  <2>6. p[i] \in 0 .. Modulus - 1
    BY <2>3
  <2> HIDE DEF plain, signed
  <2>7. /\ \A k \in 0 .. g.numDigits - 1 : plain[k] \in 0 .. 2 ^ g.logDigit - 1
        /\ Magnitude(Signed(Recomposed(plain, g) - p[i], LogModulus)) <= RoundingError(g)
    BY <2>1, <2>4, <2>6, PlainDigits
  <2>8. /\ \A k \in 0 .. g.numDigits - 1 :
               signed[k] \in -(2 ^ g.logDigit \div 2) .. 2 ^ g.logDigit \div 2 - 1
        /\ Magnitude(Signed(Recomposed(signed, g) - p[i], LogModulus)) <= RoundingError(g)
    BY <2>1, <2>5, <2>6, SignedDigits
  <2>9. \A k \in 0 .. g.numDigits - 1 :
            /\ GadgetInv(p, LogModulus, g)[k][i] \in 0 .. 2 ^ g.logDigit - 1
            /\ Signed(SignedGadgetInv(p, LogModulus, g)[k][i], CoeffBits)
                   \in -(2 ^ g.logDigit \div 2) .. 2 ^ g.logDigit \div 2 - 1
    BY <2>4, <2>5, <2>7, <2>8
  <2> QED BY <2>7, <2>8, <2>9 DEF plain, signed
<1> QED BY <1>1, CasesInvariant, PTL

(***************************************************************************)
(* Parameters                                                              *)
(***************************************************************************)

LEMMA CeilLog2Of ==
    ASSUME NEW k \in 0 .. CoeffBits
    PROVE  CeilLog2(2 ^ k) = k
<1> DEFINE Fits(j) == 2 ^ j >= 2 ^ k /\ (j = 0 \/ 2 ^ (j - 1) < 2 ^ k)
<1>1. CoeffBits \in Nat /\ CoeffBits <= 2 * CoeffBits
  BY PolynomialsAssumption
<1>2. ASSUME NEW a \in 0 .. CoeffBits, NEW b \in 0 .. CoeffBits, a <= b
      PROVE  /\ 2 ^ a \in Nat \ {0} /\ 2 ^ b \in Nat \ {0} /\ 2 ^ a <= 2 ^ b
             /\ a < b => 2 ^ a < 2 ^ b
  <2>1. a \in 0 .. 2 * CoeffBits /\ b \in 0 .. 2 * CoeffBits
    BY <1>1
  <2>2. 2 ^ a \in Nat \ {0} /\ 2 ^ b \in Nat \ {0}
    BY <2>1, CoeffPowers, PowerPositive
  <2>3. 2 ^ a <= 2 ^ b /\ (a < b => 2 * 2 ^ a <= 2 ^ b)
    BY <1>2, <2>1, CoeffPowers, PowerOrder
  <2> QED BY <2>2, <2>3
<1>3. Fits(k)
  <2>1. k # 0 => k - 1 \in 0 .. CoeffBits
    BY <1>1
  <2> QED BY <1>2, <2>1
<1>4. ASSUME NEW j \in 0 .. CoeffBits, Fits(j)
      PROVE  j = k
  <2>1. ~(j < k)
    BY <1>2, <1>4
  <2>2. ~(k < j)
    <3> SUFFICES ASSUME k < j PROVE FALSE
      OBVIOUS
    <3>1. j - 1 \in 0 .. CoeffBits /\ k <= j - 1 /\ j # 0
      BY <1>1
    <3> QED BY <1>2, <1>4, <3>1
  <2> QED BY <2>1, <2>2
<1>5. CeilLog2(2 ^ k) = CHOOSE j \in 0 .. CoeffBits : Fits(j)
  BY Zenon DEF CeilLog2
<1> HIDE DEF Fits
<1> QED BY <1>3, <1>4, <1>5

\* A modulus comes back from its width.
LEMMA ModulusBack ==
    ASSUME NEW m \in PowersOfTwo \cup {0}
    PROVE  ModulusOf(BitSize(m)) = m
<1>1. CASE m = 0
  BY <1>1 DEF ModulusOf, BitSize
<1>2. CASE m # 0
  <2>1. PICK k \in 0 .. CoeffBits - 1 : m = 2 ^ k
    BY <1>2 DEF PowersOfTwo
  <2>2. k \in 0 .. CoeffBits /\ k # CoeffBits
    BY PolynomialsAssumption
  <2>3. BitSize(m) = k
    BY <1>2, <2>1, <2>2, CeilLog2Of DEF BitSize
  <2> QED BY <2>1, <2>2, <2>3 DEF ModulusOf
<1> QED BY <1>1, <1>2

\* Parameters that were accepted come back from their encoding, for every width
\* of the coefficients.
THEOREM Parameters == Spec => []ParametersSurviveStorage
<1>1. ASSUME NEW p, p = [degree |-> p.degree, modulus |-> p.modulus,
                         modulus1 |-> p.modulus1, modulus2 |-> p.modulus2],
             RlweParamsOK(p)
      PROVE  RlweParamsFromProto(RlweParamsToProto(p)) = p
  <2>1. PICK k \in 0 .. CoeffBits : p.degree = 2 ^ k
    BY <1>1 DEF RlweParamsOK
  <2>2. 2 ^ CeilLog2(p.degree) = p.degree
    BY <2>1, CeilLog2Of
  <2>3. /\ p.modulus \in PowersOfTwo \cup {0} /\ p.modulus1 \in PowersOfTwo \cup {0}
        /\ p.modulus2 \in PowersOfTwo \cup {0}
    BY <1>1 DEF RlweParamsOK
  <2>4. /\ ModulusOf(BitSize(p.modulus)) = p.modulus
        /\ ModulusOf(BitSize(p.modulus1)) = p.modulus1
        /\ ModulusOf(BitSize(p.modulus2)) = p.modulus2
    BY <2>3, ModulusBack
  <2>5. RlweParamsFromProto(RlweParamsToProto(p))
            = [degree |-> 2 ^ CeilLog2(p.degree), modulus |-> ModulusOf(BitSize(p.modulus)),
               modulus1 |-> ModulusOf(BitSize(p.modulus1)),
               modulus2 |-> ModulusOf(BitSize(p.modulus2))]
    BY DEF RlweParamsFromProto, RlweParamsToProto
  <2> QED BY <1>1, <2>2, <2>4, <2>5
<1>2. ParametersSurviveStorage
  <2> SUFFICES ASSUME NEW modulus1, NEW modulus2, NEW degree
               PROVE  LET p == [degree |-> degree, modulus |-> case.modulus,
                                modulus1 |-> modulus1, modulus2 |-> modulus2]
                      IN  RlweParamsOK(p) => RlweParamsFromProto(RlweParamsToProto(p)) = p
    BY Zenon DEF ParametersSurviveStorage
  <2> DEFINE p == [degree |-> degree, modulus |-> case.modulus,
                   modulus1 |-> modulus1, modulus2 |-> modulus2]
  <2>1. p = [degree |-> p.degree, modulus |-> p.modulus,
             modulus1 |-> p.modulus1, modulus2 |-> p.modulus2]
    OBVIOUS
  <2> HIDE DEF p
  <2>2. RlweParamsOK(p) => RlweParamsFromProto(RlweParamsToProto(p)) = p
    BY <1>1, <2>1
  <2> QED BY <2>2 DEF p
<1> QED BY <1>2, PTL

(***************************************************************************)
(* Decryption                                                              *)
(***************************************************************************)

\* Powers of two of at most twice the width of a coefficient.
LEMMA SmallPower ==
    ASSUME NEW k \in Nat, k <= 2 * CoeffBits
    PROVE  2 ^ k \in Nat \ {0}
<1>1. k \in 0 .. 2 * CoeffBits
  BY CoeffPowers
<1> QED BY <1>1, CoeffPowers, PowerPositive

\* The most an error may be.
Budget == (Modulus - PlaintextModulus) \div (2 * PlaintextModulus)

\* A number in units of D holds a message up to an error w.
Holds(v, D, log, m, w, t) ==
    /\ Modulus = 2 ^ log * D
    /\ -Budget <= w /\ w <= Budget
    /\ v * D = Scaled(m) + w + Modulus * t

\* It is decoded to the message.
LEMMA DecodedBack ==
    ASSUME NEW log \in 1 .. CoeffBits, NEW D \in Nat \ {0},
           NEW m \in 0 .. PlaintextModulus - 1, NEW w \in Int, NEW t \in Int, NEW v \in Int,
           Holds(v, D, log, m, w, t)
    PROVE  Decoded(v, log) = m
<1> DEFINE p == PlaintextModulus
           q == Modulus
           q2 == 2 ^ log
           half == 2 ^ (log - 1)
           S == Scaled(m)
           c == p \div 2
           B == Budget
<1>1. p \in Nat /\ p >= 2
  BY RlweAssumption
<1>2. half \in Nat \ {0} /\ q2 = 2 * half /\ q2 \in Nat \ {0} /\ q2 \div 2 = half
  <2>1. log \in 1 .. 2 * CoeffBits /\ log - 1 \in Nat /\ log - 1 <= 2 * CoeffBits
    BY PolynomialsAssumption
  <2>2. half \in Nat \ {0}
    BY <2>1, SmallPower
  <2>3. q2 = 2 * half
    BY <2>1, CoeffPowers DEF PowersUpTo
  <2> HIDE DEF half, q2
  <2> QED BY <2>2, <2>3
<1> HIDE DEF half
<1>3. q = q2 * D /\ q \in Nat \ {0}
  <2>1. q = q2 * D
    BY DEF Holds
  <2> HIDE DEF q, q2
  <2> QED BY <1>2, <2>1
<1>4. S = (m * q + c) \div p
  BY DEF Scaled, Modulus
<1>5. B = (q - p) \div (2 * p)
  BY DEF Budget
<1>6. Decoded(v, log) = ((v * p + q2 \div 2) \div q2) % p
  BY DEF Decoded
<1> HIDE DEF p, q, q2, S, B
<1>7. c \in Nat /\ 2 * c <= p /\ c < p
  BY <1>1
<1>8. m \in Nat /\ m < p
  BY <1>1 DEF p
<1> HIDE DEF c
<1>9. PICK u \in 0 .. p - 1 : m * q + c = p * S + u /\ S \in Int
  <2> DEFINE x == m * q + c
             u == x % p
  <2>1. x \in Int
    BY <1>3, <1>7, <1>8
  <2>2. p \in Nat \ {0}
    BY <1>1
  <2>3. S = x \div p
    BY <1>4
  <2> HIDE DEF x
  <2>4. S \in Int /\ u \in 0 .. p - 1 /\ x = p * S + u
    BY <2>1, <2>2, <2>3, Division
  <2> QED BY <2>4 DEF x
<1>10. B \in Int /\ 2 * (p * B) <= q - p
  <2>1. q - p \in Int /\ 2 * p \in Nat \ {0}
    BY <1>1, <1>3
  <2> DEFINE x == q - p
             d == 2 * p
             z == x % d
  <2>2. B = x \div d
    BY <1>5
  <2>3. x \in Int /\ d \in Nat \ {0}
    BY <2>1
  <2> HIDE DEF x, d
  <2>4. B \in Int /\ z \in 0 .. d - 1 /\ x = d * B + z
    BY <2>2, <2>3, Division
  <2>5. d * B = 2 * (p * B) /\ p * B \in Int
    BY <1>1, <2>4 DEF d
  <2> HIDE DEF z
  <2> QED BY <2>3, <2>4, <2>5 DEF x
<1>11. -(p * B) <= p * w /\ p * w <= p * B /\ p * w \in Int /\ p * B \in Int
  <2>1. -B <= w /\ w <= B
    BY DEF B, Holds
  <2>2. p * (B - w) >= 0 /\ p * (B + w) >= 0
    BY <1>1, <1>10, <2>1
  <2>3. p * (B - w) = p * B - p * w /\ p * (B + w) = p * B + p * w
    BY <1>1, <1>10
  <2>4. p * w \in Int /\ p * B \in Int
    BY <1>1, <1>10
  <2> QED BY <2>2, <2>3, <2>4
<1> DEFINE pB == p * B
           pw == p * w
           pS == p * S
           mq == m * q
           h == half * D
           rem == pS - mq + pw + h
<1>12. pS \in Int /\ mq \in Int /\ h \in Int /\ q = 2 * h
  <2>1. q = (2 * half) * D
    BY <1>2, <1>3
  <2>2. (2 * half) * D = 2 * (half * D)
    BY <1>2
  <2>3. half * D \in Int /\ pS \in Int /\ mq \in Int
    BY <1>1, <1>2, <1>3, <1>8, <1>9
  <2> QED BY <2>1, <2>2, <2>3
<1>13. 2 * pB = q - p => pS = mq
  <2> SUFFICES ASSUME 2 * pB = q - p PROVE pS = mq
    OBVIOUS
  <2>1. q = p * (2 * B + 1)
    <3>1. p * (2 * B + 1) = 2 * (p * B) + p /\ p * B \in Int
      BY <1>1, <1>10
    <3> QED BY <1>1, <1>3, <3>1
  <2> DEFINE k == m * (2 * B + 1)
  <2>2. mq = p * k /\ k \in Int
    BY <1>1, <1>8, <1>10, <2>1
  <2> HIDE DEF k
  <2> DEFINE x == p * k + c
  <2>3. x = p * S + u
    BY <1>9, <2>2
  <2>4. p \in Nat \ {0} /\ x \in Int /\ c \in 0 .. p - 1
    BY <1>1, <1>7, <2>2
  <2>5. x = p * k + c
    OBVIOUS
  <2> HIDE DEF x
  <2>6. x \div p = S
    BY <1>9, <2>3, <2>4, DivisionOf
  <2>7. x \div p = k
    BY <2>2, <2>4, <2>5, DivisionOf
  <2> QED BY <2>2, <2>6, <2>7
<1> HIDE DEF pB, pw, pS, mq, h
<1>14. rem \in 0 .. q - 1
  <2>1. mq + c = pS + u /\ -pB <= pw /\ pw <= pB /\ 2 * pB <= q - p /\ pB \in Int /\ pw \in Int
    BY <1>9, <1>10, <1>11 DEF mq, pS, pB, pw
  <2>2. 2 * c <= p /\ 2 * c >= p - 1 /\ c \in Nat
    BY <1>1, <1>7 DEF c
  <2> QED BY <1>1, <1>3, <1>12, <1>13, <2>1, <2>2
<1> DEFINE M == m + t * p
           r2 == v * p + half - q2 * M
<1>15. M \in Int /\ r2 \in Int
  <2>1. M \in Int
    BY <1>1, <1>8
  <2> HIDE DEF M
  <2>2. v * p \in Int /\ q2 * M \in Int
    BY <1>1, <1>2, <2>1
  <2> QED BY <1>2, <2>1, <2>2
<1>16. D * r2 = rem
  <2>1. D * (v * p + half - q2 * M) = (v * D) * p + half * D - (q2 * D) * M
    <3> HIDE DEF M
    <3> DEFINE vp == v * p
               qM == q2 * M
    <3>1. vp \in Int /\ qM \in Int /\ half \in Int
      BY <1>1, <1>2, <1>15
    <3>2. D * vp = (v * D) * p /\ D * qM = (q2 * D) * M
      BY <1>1, <1>2, <1>15
    <3> HIDE DEF vp, qM
    <3>3. D * (vp + half - qM) = D * vp + half * D - D * qM
      BY <3>1
    <3> QED BY <3>2, <3>3 DEF vp, qM
  <2>2. (v * D) * p = pS + pw + (q * t) * p
    <3>1. v * D = S + w + q * t
      BY DEF S, q, Holds
    <3>2. q * t \in Int
      BY <1>3
    <3>3. (S + w + q * t) * p = p * S + p * w + (q * t) * p
      <4> DEFINE x == q * t
      <4> HIDE DEF x
      <4>1. x \in Int
        BY <3>2 DEF x
      <4>2. (S + w + x) * p = p * S + p * w + x * p
        BY <1>1, <1>9, <4>1
      <4> QED BY <4>2 DEF x
    <3> QED BY <3>1, <3>3 DEF pS, pw
  <2>3. (q2 * D) * M = mq + (q * t) * p
    <3>1. (q2 * D) * M = q * (m + t * p)
      BY <1>3
    <3>2. q * (m + t * p) = m * q + (q * t) * p
      BY <1>1, <1>3, <1>8
    <3> QED BY <3>1, <3>2 DEF mq
  <2>4. (q * t) * p \in Int /\ pw \in Int
    BY <1>1, <1>3, <1>11 DEF pw
  <2> HIDE DEF M
  <2> QED BY <1>12, <2>1, <2>2, <2>3, <2>4 DEF h
<1> HIDE DEF rem, r2
<1>17. r2 \in 0 .. q2 - 1
  <2>1. D * 0 <= D * r2 /\ D * r2 < D * q2
    BY <1>2, <1>3, <1>14, <1>16
  <2>2. 0 <= r2 /\ r2 < q2
    BY <1>2, <1>15, <2>1, Cancel
  <2> QED BY <1>2, <1>15, <2>2
<1>18. (v * p + half) \div q2 = M
  <2> DEFINE x == v * p + half
  <2>1. x = q2 * M + r2 /\ x \in Int
    <3>1. v * p \in Int /\ q2 * M \in Int /\ half \in Int
      BY <1>1, <1>2, <1>15
    <3> QED BY <3>1 DEF r2
  <2>2. q2 \in Nat \ {0}
    BY <1>2
  <2> HIDE DEF x, M
  <2>3. x \div q2 = M
    BY <1>15, <1>17, <2>1, <2>2, DivisionOf
  <2> QED BY <2>3 DEF x
<1>19. M % p = m
  <2>1. M = p * t + m /\ M \in Int /\ m \in 0 .. p - 1 /\ p \in Nat \ {0}
    BY <1>1, <1>8
  <2> HIDE DEF M
  <2> QED BY <2>1, DivisionOf
<1> QED BY <1>2, <1>6, <1>18, <1>19

\* Sums of numbers that are near to each other.
Near(f, g, D, h, S) == \A x \in S : f[x] \in Int /\ g[x] \in Int
                                    /\ -h <= D * f[x] - g[x] /\ D * f[x] - g[x] <= h

LEMMA NearTotals ==
    ASSUME NEW S, IsFiniteSet(S), NEW f, NEW g, NEW D \in Int, NEW h \in Nat, Near(f, g, D, h, S)
    PROVE  /\ Total(f, S) \in Int /\ Total(g, S) \in Int
           /\ -(h * Cardinality(S)) <= D * Total(f, S) - Total(g, S)
           /\ D * Total(f, S) - Total(g, S) <= h * Cardinality(S)
<1> DEFINE Good(s) == /\ Total(f, s) \in Int /\ Total(g, s) \in Int
                      /\ -(h * Cardinality(s)) <= D * Total(f, s) - Total(g, s)
                      /\ D * Total(f, s) - Total(g, s) <= h * Cardinality(s)
           T == {n \in Nat : \A s \in SUBSET S : Cardinality(s) = n => Good(s)}
<1>1. ASSUME NEW s \in SUBSET S
      PROVE  IsFiniteSet(s) /\ Cardinality(s) \in Nat
  BY FS_Subset, FS_CardinalityType
<1>2. 0 \in T
  <2> SUFFICES ASSUME NEW s \in SUBSET S, Cardinality(s) = 0
               PROVE  Good(s)
    OBVIOUS
  <2>1. s = {}
    BY <1>1, FS_EmptySet
  <2>2. Total(f, s) = 0 /\ Total(g, s) = 0
    BY <1>1, <2>1, SumPick
  <2> QED BY <2>2
<1>3. ASSUME NEW n \in Nat, n \in T
      PROVE  n + 1 \in T
  <2> SUFFICES ASSUME NEW s \in SUBSET S, Cardinality(s) = n + 1
               PROVE  Good(s)
    OBVIOUS
  <2>1. IsFiniteSet(s) /\ s # {}
    BY <1>1, FS_EmptySet
  <2> DEFINE c == Pick(s)
             r == s \ {c}
  <2>2. c \in s /\ r \in SUBSET S /\ Cardinality(r) = n
    <3>1. c \in s /\ Cardinality(r) = Cardinality(s) - 1
      BY <2>1, PickOf
    <3> QED BY <3>1
  <2>3. Good(r)
    <3> HIDE DEF Good
    <3> QED BY <1>3, <2>2
  <2>4. Total(f, s) = f[c] + Total(f, r) /\ Total(g, s) = g[c] + Total(g, r)
    BY <2>1, SumPick
  <2> HIDE DEF c, r
  <2>5. /\ f[c] \in Int /\ g[c] \in Int
        /\ -h <= D * f[c] - g[c] /\ D * f[c] - g[c] <= h
    BY <2>2 DEF Near
  <2> DEFINE F == Total(f, r)
             G == Total(g, r)
  <2>6. /\ F \in Int /\ G \in Int
        /\ -(h * n) <= D * F - G /\ D * F - G <= h * n
    BY <2>2, <2>3
  <2> HIDE DEF F, G
  <2>7. D * (f[c] + F) = D * f[c] + D * F /\ h * (n + 1) = h * n + h
    BY <2>5, <2>6
  <2>8. D * F \in Int /\ D * f[c] \in Int /\ h * n \in Int
    BY <2>5, <2>6
  <2>9. /\ f[c] + F \in Int /\ g[c] + G \in Int
        /\ -(h * (n + 1)) <= D * (f[c] + F) - (g[c] + G)
        /\ D * (f[c] + F) - (g[c] + G) <= h * (n + 1)
    BY <2>5, <2>6, <2>7, <2>8
  <2> QED BY <2>4, <2>9 DEF F, G
<1> HIDE DEF T
<1>4. \A n \in Nat : n \in T
  BY <1>2, <1>3, NatInd
<1>5. S \in SUBSET S /\ Cardinality(S) \in Nat
  BY FS_CardinalityType
<1> QED BY <1>4, <1>5 DEF T

\* The products that make up a coefficient of the product with a key.
KeyTerms(p, s, j) ==
    [x \in Positions |-> IF x <= j THEN p[x] * Ternary(s[j - x])
                                   ELSE -(p[x] * Ternary(s[Degree + j - x]))]

LEMMA PositionsOf ==
    /\ Degree \in Nat \ {0} /\ IsFiniteSet(Positions) /\ Cardinality(Positions) = Degree
<1>1. Degree \in Nat \ {0}
  BY PolynomialsAssumption
<1>2. 0 \in Int /\ Degree - 1 \in Int /\ ~(0 > Degree - 1) /\ Degree - 1 - 0 + 1 = Degree
  BY <1>1
<1>3. /\ IsFiniteSet(0 .. Degree - 1)
      /\ Cardinality(0 .. Degree - 1) = IF 0 > Degree - 1 THEN 0 ELSE Degree - 1 - 0 + 1
  BY <1>2, FS_Interval
<1> QED BY <1>1, <1>2, <1>3 DEF Positions

\* The terms of a negacyclic product.
NegacyclicTerms(p, r, j) ==
    [x \in Positions |-> IF x <= j THEN p[x] * r[j - x] ELSE -(p[x] * r[Degree + j - x])]

LEMMA NegacyclicIs ==
    ASSUME NEW p, NEW r, NEW j
    PROVE  NegacyclicAt(p, r, j) = Total(NegacyclicTerms(p, r, j), Positions)
<1>1. NegacyclicAt(p, r, j) = SumFunctionOnSet(NegacyclicTerms(p, r, j), Positions)
  BY Zenon DEF NegacyclicAt, NegacyclicTerms
<1> QED BY <1>1, SumsOver

\* The place that meets x in coefficient j.
LEMMA Partner ==
    ASSUME NEW j \in Positions, NEW x \in Positions
    PROVE  IF x <= j THEN j - x \in Positions ELSE Degree + j - x \in Positions
  BY PolynomialsAssumption DEF Positions

\* NttMult takes the sum of the terms of the key.
LEMMA NttMultAt ==
    ASSUME NEW p, NEW s, NEW j \in Positions
    PROVE  NttMult(p, s)[j] = ToCoeff(Total(KeyTerms(p, s, j), Positions))
<1> DEFINE r == Poly(LAMBDA y : Ternary(s[y]))
           h == [y \in Positions |-> Ternary(s[y])]
           g == [y \in Positions |-> ToCoeff(NegacyclicAt(p, r, y))]
<1>1. NttMult(p, s) = g
  BY TabulatedIs, Zenon DEF NttMult, Poly
<1>2. g[j] = ToCoeff(NegacyclicAt(p, r, j))
  OBVIOUS
<1>3. r = h
  BY TabulatedIs, Zenon DEF Poly
<1> HIDE DEF r, g
<1>4. \A y \in Positions : r[y] = Ternary(s[y])
  BY <1>3
<1>5. NegacyclicTerms(p, r, j) = KeyTerms(p, s, j)
  BY <1>4, Partner DEF NegacyclicTerms, KeyTerms
<1> QED BY <1>1, <1>2, <1>5, NegacyclicIs

\* A product with a key at its place.
KeyProduct(p, s, j) == Total(KeyTerms(p, s, j), Positions)

\* Half of what is cut off and its double.
LEMMA HalfOf ==
    ASSUME NEW D \in Nat \ {0}
    PROVE  D \div 2 \in Nat /\ 2 * (D \div 2) <= D
  OBVIOUS

\* The width a ciphertext is switched from is the one it is switched to, times
\* what is cut off.
LEMMA WidthSplit ==
    ASSUME NEW from \in 1 .. CoeffBits, NEW to \in 1 .. from
    PROVE  /\ 2 ^ from \in Nat \ {0} /\ 2 ^ to \in Nat \ {0} /\ 2 ^ (from - to) \in Nat \ {0}
           /\ 2 ^ from = 2 ^ to * 2 ^ (from - to)
           /\ from > to => 2 ^ (from - to) = 2 * (2 ^ (from - to) \div 2)
           /\ from = to => 2 ^ (from - to) = 1
           /\ 2 ^ from = 2 * (2 ^ from \div 2)
           /\ 2 ^ from <= 2 ^ CoeffBits /\ 2 ^ CoeffBits \in Nat \ {0}
<1>1. /\ from \in Nat \ {0} /\ to \in Nat /\ from - to \in Nat /\ CoeffBits \in Nat
      /\ from <= 2 * CoeffBits /\ to <= 2 * CoeffBits /\ from - to <= 2 * CoeffBits
      /\ from <= CoeffBits /\ CoeffBits <= 2 * CoeffBits
      /\ to + (from - to) = from
  BY PolynomialsAssumption
<1>2. /\ 2 ^ from \in Nat \ {0} /\ 2 ^ to \in Nat \ {0} /\ 2 ^ (from - to) \in Nat \ {0}
      /\ 2 ^ CoeffBits \in Nat \ {0}
  BY <1>1, SmallPower
<1>3. 2 ^ from = 2 ^ to * 2 ^ (from - to)
  BY <1>1, CoeffPowers, PowerSum
<1>4. ASSUME NEW k \in Nat \ {0}, k <= 2 * CoeffBits
      PROVE  2 ^ k = 2 * (2 ^ k \div 2)
  <2>1. k \in 1 .. 2 * CoeffBits /\ k - 1 \in Nat /\ k - 1 <= 2 * CoeffBits
    BY <1>4, CoeffPowers
  <2>2. 2 ^ k = 2 * 2 ^ (k - 1) /\ 2 ^ (k - 1) \in Nat
    BY <2>1, CoeffPowers, SmallPower DEF PowersUpTo
  <2> QED BY <2>2
<1>5. 2 ^ from = 2 * (2 ^ from \div 2)
  BY <1>1, <1>4
<1>6. from > to => 2 ^ (from - to) = 2 * (2 ^ (from - to) \div 2)
  BY <1>1, <1>4
<1>7. from = to => 2 ^ (from - to) = 1
  <2>1. from = to => from - to = 0
    BY <1>1
  <2> QED BY <2>1, CoeffPowers DEF PowersUpTo
<1>8. 2 ^ from <= 2 ^ CoeffBits
  BY <1>1, CoeffPowers, PowerOrder
<1> QED BY <1>2, <1>3, <1>5, <1>6, <1>7, <1>8

\* A coefficient that is switched to a smaller modulus is off by half of what is
\* cut off, and at the top it may reach the smaller modulus itself.
LEMMA RescaledNear ==
    ASSUME NEW from \in 1 .. CoeffBits, NEW to \in 1 .. from, NEW p, NEW i \in Positions,
           p[i] \in 0 .. 2 ^ from - 1
    PROVE  LET y == Rescale(p, from, to)[i]
               D == 2 ^ (from - to)
           IN  /\ y \in Nat /\ D * y - p[i] \in Int
               /\ -(D \div 2) <= D * y - p[i] /\ D * y - p[i] <= D \div 2
<1> DEFINE D == 2 ^ (from - to)
           F == 2 ^ from
           T == 2 ^ to
           x == p[i]
           y == Rescale(p, from, to)[i]
           all == 2 ^ CoeffBits
           h == D \div 2
           e == F \div 2
           num == x * T + e
           z == num \div F
<1>1. /\ F \in Nat \ {0} /\ T \in Nat \ {0} /\ D \in Nat \ {0} /\ F = T * D
      /\ from > to => D = 2 * h
      /\ from = to => D = 1
      /\ F = 2 * e /\ F <= all /\ all \in Nat \ {0}
  BY WidthSplit
<1>2. x \in Nat /\ x < F
  BY <1>1
<1>3. y = z % all
  <2> DEFINE f == [j \in Positions |-> ToCoeff((p[j] * 2 ^ to + 2 ^ from \div 2) \div 2 ^ from)]
  <2>1. Rescale(p, from, to) = f
    BY TabulatedIs, Zenon DEF Rescale, Poly
  <2>2. f[i] = ToCoeff((p[i] * 2 ^ to + 2 ^ from \div 2) \div 2 ^ from)
    OBVIOUS
  <2> QED BY <2>1, <2>2 DEF ToCoeff
<1>4. from > to \/ from = to
  OBVIOUS
<1> HIDE DEF D, F, T, x, y, all, e
<1>5. h \in Nat /\ e \in Nat
  BY <1>1, HalfOf DEF e
<1>6. D = 1 => h = 0
  OBVIOUS
<1> HIDE DEF h
<1> DEFINE xT == x * T
           hT == T * h
<1>7. xT \in Nat /\ hT \in Nat /\ (from > to => e = hT)
  <2>1. xT \in Nat /\ hT \in Nat
    BY <1>1, <1>2, <1>5
  <2>2. from > to => e = hT
    <3> SUFFICES ASSUME from > to PROVE e = hT
      OBVIOUS
    <3>1. 2 * e = T * (2 * h)
      BY <1>1
    <3>2. T * (2 * h) = 2 * (T * h)
      BY <1>1, <1>5
    <3> QED BY <1>5, <2>1, <3>1, <3>2
  <2> QED BY <2>1, <2>2
<1> DEFINE u == num % F
<1>8. z \in Nat /\ u \in 0 .. F - 1 /\ num = F * z + u
  <2>1. num \in Int /\ num >= 0
    BY <1>5, <1>7
  <2> HIDE DEF num
  <2> QED BY <1>1, <2>1, Division
<1>9. num = xT + e
  OBVIOUS
<1> HIDE DEF u, z, num
<1>10. z < all /\ D * z - x \in Int /\ -h <= D * z - x /\ D * z - x <= h
  <2>1. CASE from = to
    <3>1. D = 1 /\ T = F /\ h = 0
      BY <1>1, <1>6, <2>1
    <3>2. xT = F * x
      BY <1>1, <1>2, <3>1
    <3>3. num = F * x + e /\ e \in 0 .. F - 1 /\ num \in Int /\ x \in Int
      BY <1>1, <1>2, <1>5, <1>7, <1>9, <3>2
    <3>4. num \div F = x
      BY <1>1, <3>3, DivisionOf
    <3>5. num \div F = z
      <4>1. num \in Int /\ z \in Int
        BY <1>8, <3>3
      <4> QED BY <1>1, <1>8, <4>1, DivisionOf
    <3> QED BY <1>1, <1>2, <3>1, <3>4, <3>5
  <2>2. CASE from > to
    <3>1. D = 2 * h /\ e = hT /\ h >= 1
      BY <1>1, <1>5, <1>7, <2>2
    <3> DEFINE Dz == D * z
    <3>2. Dz \in Nat /\ F * z = T * Dz
      BY <1>1, <1>8
    <3> HIDE DEF Dz
    <3>3. T * Dz <= T * (x + h) /\ T * (x + h) < T * (Dz + D)
      <4>1. T * (x + h) = xT + hT
        BY <1>1, <1>2, <1>5
      <4>2. T * (Dz + D) = T * Dz + F
        BY <1>1, <3>2
      <4>3. T * Dz \in Int
        BY <1>1, <3>2
      <4>4. xT + hT = T * Dz + u
        BY <1>8, <1>9, <3>1, <3>2
      <4> HIDE DEF xT, hT
      <4> QED BY <1>1, <1>7, <1>8, <4>1, <4>2, <4>3, <4>4
    <3>4. Dz <= x + h /\ x + h < Dz + D
      <4>1. x + h \in Int /\ Dz \in Int /\ Dz + D \in Int
        BY <1>1, <1>2, <1>5, <3>2
      <4> QED BY <1>1, <3>3, <4>1, Cancel
    <3>5. z < F
      <4>1. D >= 2 /\ D * z >= 2 * z
        <5>1. D * z = 2 * (h * z) /\ h * z >= z /\ h * z \in Int
          BY <1>5, <1>8, <3>1
        <5> QED BY <1>5, <1>8, <3>1, <5>1
      <4>2. h < F
        <5>1. T * D >= D
          BY <1>1
        <5> QED BY <1>1, <1>5, <3>1, <5>1
      <4> QED BY <1>1, <1>2, <1>5, <1>8, <3>4, <4>1, <4>2 DEF Dz
    <3> QED BY <1>1, <1>2, <1>5, <1>8, <3>1, <3>2, <3>4, <3>5 DEF Dz
  <2> QED BY <1>4, <2>1, <2>2
<1>11. y = z
  BY <1>1, <1>3, <1>8, <1>10
<1> QED BY <1>8, <1>10, <1>11 DEF y, x, D, h

\* Wrapping to the width of a coefficient, or to fewer bits, keeps a number
\* modulo a smaller power of two.
LEMMA Wraps ==
    ASSUME NEW log \in 1 .. CoeffBits, NEW x \in Int
    PROVE  /\ ToCoeff(x) \in Int /\ x % 2 ^ log \in 0 .. 2 ^ log - 1
           /\ \E k \in Int : ToCoeff(x) = x + 2 ^ log * k
           /\ \E k \in Int : x % 2 ^ log = x + 2 ^ log * k
<1> DEFINE m == 2 ^ log
           rest == 2 ^ (CoeffBits - log)
           all == 2 ^ CoeffBits
<1>1. m \in Nat \ {0} /\ rest \in Nat \ {0} /\ all \in Nat \ {0} /\ all = m * rest
  <2>1. CoeffBits \in 1 .. CoeffBits /\ log \in 1 .. CoeffBits
    BY PolynomialsAssumption
  <2> QED BY <2>1, WidthSplit
<1>2. ToCoeff(x) = x % all
  BY DEF ToCoeff
<1> HIDE DEF m, rest, all
<1> DEFINE a == x \div all
           b == x \div m
           c == x % all
           d == x % m
<1>3. a \in Int /\ c \in Int /\ x = all * a + c
  <2>1. x \div all \in Int /\ x % all \in 0 .. all - 1 /\ x = all * (x \div all) + (x % all)
    BY <1>1, Division
  <2> QED BY <1>1, <2>1
<1>4. b \in Int /\ d \in 0 .. m - 1 /\ d \in Int /\ x = m * b + d
  <2>1. x \div m \in Int /\ x % m \in 0 .. m - 1 /\ x = m * (x \div m) + (x % m)
    BY <1>1, Division
  <2> QED BY <1>1, <2>1
<1> HIDE DEF a, b, c, d
<1>5. c = x + m * (-(rest * a)) /\ -(rest * a) \in Int
  <2>1. all * a = m * (rest * a) /\ rest * a \in Int
    BY <1>1, <1>3
  <2> DEFINE y == rest * a
  <2> HIDE DEF y
  <2>2. m * (-y) = -(m * y) /\ m * y \in Int /\ y \in Int
    BY <1>1, <2>1 DEF y
  <2>3. x = m * y + c
    BY <1>3, <2>1 DEF y
  <2>4. c = x + m * (-y)
    BY <1>3, <2>2, <2>3
  <2> QED BY <2>2, <2>4 DEF y
<1>6. d = x + m * (-b) /\ -b \in Int
  <2>1. m * (-b) = -(m * b) /\ m * b \in Int
    BY <1>1, <1>4
  <2> QED BY <1>4, <2>1
<1>7. ToCoeff(x) = c
  BY <1>2 DEF c
<1> QED BY <1>3, <1>4, <1>5, <1>6, <1>7 DEF d, m

\* The a half of a ciphertext and a key, as the code keeps them.
Keyed(a, s) == /\ \A x \in Positions : a[x] \in Int
               /\ \A x \in Positions : s[x] \in Nat

LEMMA KeyTermsOf ==
    ASSUME NEW a, NEW s, Keyed(a, s), NEW j \in Positions
    PROVE  /\ \A x \in Positions : KeyTerms(a, s, j)[x] \in Int
           /\ \A x \in Positions : \E t \in {-1, 0, 1} : KeyTerms(a, s, j)[x] = a[x] * t
<1> SUFFICES ASSUME NEW x \in Positions
             PROVE  /\ KeyTerms(a, s, j)[x] \in Int
                    /\ \E t \in {-1, 0, 1} : KeyTerms(a, s, j)[x] = a[x] * t
  OBVIOUS
<1>1. a[x] \in Int /\ \A y \in Positions : Ternary(s[y]) \in {-1, 0, 1}
  BY DEF Keyed, Ternary
<1>2. KeyTerms(a, s, j)[x] = IF x <= j THEN a[x] * Ternary(s[j - x])
                                       ELSE -(a[x] * Ternary(s[Degree + j - x]))
  BY Zenon DEF KeyTerms
<1>3. CASE x <= j
  <2>1. j - x \in Positions
    BY <1>3, PolynomialsAssumption DEF Positions
  <2> QED BY <1>1, <1>2, <1>3, <2>1
<1>4. CASE ~(x <= j)
  <2>1. Degree + j - x \in Positions
    BY <1>4, PolynomialsAssumption DEF Positions
  <2> DEFINE t == Ternary(s[Degree + j - x])
  <2>2. t \in {-1, 0, 1} /\ KeyTerms(a, s, j)[x] = -(a[x] * t)
    BY <1>1, <1>2, <1>4, <2>1
  <2> HIDE DEF t
  <2>3. -(a[x] * t) = a[x] * (-t) /\ -t \in {-1, 0, 1}
    BY <1>1, <2>2
  <2> QED BY <1>1, <2>2, <2>3
<1> QED BY <1>3, <1>4

LEMMA KeyProductOf ==
    ASSUME NEW a, NEW s, Keyed(a, s), NEW j \in Positions
    PROVE  KeyProduct(a, s, j) \in Int /\ NttMult(a, s)[j] = ToCoeff(KeyProduct(a, s, j))
<1>1. \A x \in Positions : KeyTerms(a, s, j)[x] \in Int
  BY KeyTermsOf
<1> DEFINE f == KeyTerms(a, s, j)
<1> HIDE DEF f
<1>2. Total(f, Positions) \in Int
  BY <1>1, PositionsOf, SumWith DEF f
<1> QED BY <1>2, NttMultAt DEF f, KeyProduct

\* Products with a key of numbers that are near to each other.
LEMMA KeyProductsNear ==
    ASSUME NEW a, NEW b, NEW s, Keyed(a, s), Keyed(b, s), NEW j \in Positions,
           NEW D \in Nat, NEW h \in Nat, Near(b, a, D, h, Positions)
    PROVE  /\ D * KeyProduct(b, s, j) - KeyProduct(a, s, j) \in Int
           /\ -(h * Degree) <= D * KeyProduct(b, s, j) - KeyProduct(a, s, j)
           /\ D * KeyProduct(b, s, j) - KeyProduct(a, s, j) <= h * Degree
<1> DEFINE f == KeyTerms(b, s, j)
           g == KeyTerms(a, s, j)
<1>1. Near(f, g, D, h, Positions)
  <2> SUFFICES ASSUME NEW x \in Positions
               PROVE  f[x] \in Int /\ g[x] \in Int /\ -h <= D * f[x] - g[x] /\ D * f[x] - g[x] <= h
    BY DEF Near
  <2>1. f[x] = IF x <= j THEN b[x] * Ternary(s[j - x]) ELSE -(b[x] * Ternary(s[Degree + j - x]))
    BY Zenon DEF KeyTerms
  <2>2. g[x] = IF x <= j THEN a[x] * Ternary(s[j - x]) ELSE -(a[x] * Ternary(s[Degree + j - x]))
    BY Zenon DEF KeyTerms
  <2>3. \E t \in {-1, 0, 1} : f[x] = b[x] * t /\ g[x] = a[x] * t
    <3>1. b[x] \in Int /\ a[x] \in Int /\ \A y \in Positions : Ternary(s[y]) \in {-1, 0, 1}
      BY DEF Keyed, Ternary
    <3>2. CASE x <= j
      <4>1. j - x \in Positions
        BY <3>2, PolynomialsAssumption DEF Positions
      <4> QED BY <2>1, <2>2, <3>1, <3>2, <4>1
    <3>3. CASE ~(x <= j)
      <4>1. Degree + j - x \in Positions
        BY <3>3, PolynomialsAssumption DEF Positions
      <4> DEFINE t == Ternary(s[Degree + j - x])
      <4>2. t \in {-1, 0, 1} /\ f[x] = -(b[x] * t) /\ g[x] = -(a[x] * t)
        BY <2>1, <2>2, <3>1, <3>3, <4>1
      <4> HIDE DEF t, f, g
      <4>3. -(b[x] * t) = b[x] * (-t) /\ -(a[x] * t) = a[x] * (-t) /\ -t \in {-1, 0, 1}
        BY <3>1, <4>2
      <4> QED BY <4>2, <4>3
    <3> QED BY <3>2, <3>3
  <2>4. b[x] \in Int /\ a[x] \in Int /\ -h <= D * b[x] - a[x] /\ D * b[x] - a[x] <= h
    BY DEF Near
  <2> HIDE DEF f, g
  <2>5. PICK t \in {-1, 0, 1} : f[x] = b[x] * t /\ g[x] = a[x] * t
    BY <2>3
  <2> DEFINE v == b[x]
             w == a[x]
  <2>6. v \in Int /\ w \in Int /\ -h <= D * v - w /\ D * v - w <= h
    BY <2>4
  <2>7. f[x] = v * t /\ g[x] = w * t
    BY <2>5
  <2> HIDE DEF v, w
  <2>8. CASE t = 0
    BY <2>6, <2>7, <2>8
  <2>9. CASE t = 1
    BY <2>6, <2>7, <2>9
  <2>10. CASE t = -1
    <3>1. f[x] = -v /\ g[x] = -w /\ D * (-v) = -(D * v) /\ D * v \in Int
      BY <2>6, <2>7, <2>10
    <3> QED BY <2>6, <3>1
  <2> QED BY <2>8, <2>9, <2>10
<1> HIDE DEF f, g
<1>2. /\ Total(f, Positions) \in Int /\ Total(g, Positions) \in Int
      /\ -(h * Cardinality(Positions)) <= D * Total(f, Positions) - Total(g, Positions)
      /\ D * Total(f, Positions) - Total(g, Positions) <= h * Cardinality(Positions)
  <2>1. D \in Int
    OBVIOUS
  <2> QED BY <1>1, <2>1, PositionsOf, NearTotals
<1> QED BY <1>2, PositionsOf DEF f, g, KeyProduct

\* A ciphertext, which is below the modulus, with a phase that holds m up to the
\* error e.
Encrypts(ct, s, j, m, e) ==
    /\ \A x \in Positions : ct.a[x] \in 0 .. Modulus - 1
    /\ \A x \in Positions : s[x] \in Nat
    /\ ct.b[j] \in 0 .. Modulus - 1
    /\ \E t \in Int : ct.b[j] + KeyProduct(ct.a, s, j) = Scaled(m) + e + Modulus * t

LEMMA ModulusPositive == Modulus \in Nat \ {0} /\ LogModulus \in 1 .. CoeffBits
  BY RlweAssumption, WidthSplit DEF Modulus

LEMMA ScaledOf ==
    ASSUME NEW m \in 0 .. PlaintextModulus - 1
    PROVE  Scaled(m) \in Int
<1> DEFINE x == m * 2 ^ LogModulus + PlaintextModulus \div 2
<1>1. PlaintextModulus \in Nat \ {0} /\ 2 ^ LogModulus \in Nat /\ m \in Nat
  BY RlweAssumption, ModulusPositive DEF Modulus
<1>2. x \in Int
  BY <1>1
<1>3. Scaled(m) = x \div PlaintextModulus
  BY DEF Scaled
<1> HIDE DEF x
<1> QED BY <1>1, <1>2, <1>3

\* Encrypting.
LEMMA EncryptedIs ==
    ASSUME NEW a, \A x \in Positions : a[x] \in 0 .. Modulus - 1,
           NEW s, \A x \in Positions : s[x] \in Nat, NEW e, NEW m, NEW j \in Positions,
           e[j] \in Int, m[j] \in 0 .. PlaintextModulus - 1
    PROVE  Encrypts(EncryptFromRlweSample(RlweSample(a, e, s), m), s, j, m[j], e[j])
<1> DEFINE sample == RlweSample(a, e, s)
           ct == EncryptFromRlweSample(sample, m)
           as == NttMult(a, s)[j]
           K == KeyProduct(a, s, j)
           S == Scaled(m[j])
           q == Modulus
<1>1. ct.a = a
  BY DEF EncryptFromRlweSample, RlweSample, Ciphertext
<1>2. sample.b[j] = ToRing(ToCoeff(e[j] - as))
  <2> DEFINE f == [i \in Positions |-> ToRing(ToCoeff(e[i] - NttMult(a, s)[i]))]
  <2>1. sample.b = f
    BY TabulatedIs, Zenon DEF RlweSample, Ciphertext, Poly
  <2>2. f[j] = ToRing(ToCoeff(e[j] - NttMult(a, s)[j]))
    OBVIOUS
  <2> HIDE DEF f, sample
  <2> QED BY <2>1, <2>2
<1>3. ct.b[j] = ToRing(sample.b[j] + S)
  <2> DEFINE f == [i \in Positions |-> ToRing(sample.b[i] + Scaled(m[i]))]
  <2> HIDE DEF sample
  <2>1. ct.b = f
    BY TabulatedIs, Zenon DEF EncryptFromRlweSample, Ciphertext, Poly
  <2>2. f[j] = ToRing(sample.b[j] + Scaled(m[j]))
    OBVIOUS
  <2> HIDE DEF f, ct
  <2> QED BY <2>1, <2>2
<1>4. q \in Nat \ {0} /\ LogModulus \in 1 .. CoeffBits /\ S \in Int
  BY ModulusPositive, ScaledOf
<1>5. \A x \in Positions : a[x] \in Int
  BY <1>4
<1>6. K \in Int /\ as = ToCoeff(K)
  BY <1>5, KeyProductOf DEF Keyed
<1>7. ASSUME NEW x \in Int
      PROVE  /\ ToCoeff(x) \in Int /\ ToRing(x) \in 0 .. q - 1
             /\ \E k \in Int : ToCoeff(x) = x + q * k
             /\ \E k \in Int : ToRing(x) = x + q * k
  BY <1>4, Wraps DEF ToRing, Modulus
<1> HIDE DEF sample, ct, as, K, S, q
<1>8. PICK k1 \in Int : as = K + q * k1 /\ as \in Int
  BY <1>6, <1>7
<1>9. e[j] - as \in Int
  BY <1>8
<1>10. PICK k2 \in Int : ToCoeff(e[j] - as) = e[j] - as + q * k2 /\ ToCoeff(e[j] - as) \in Int
  BY <1>7, <1>9
<1> DEFINE y == ToCoeff(e[j] - as)
<1>11. y \in Int /\ y = e[j] - as + q * k2
  BY <1>10
<1> HIDE DEF y
<1>12. PICK k3 \in Int : ToRing(y) = y + q * k3 /\ ToRing(y) \in 0 .. q - 1
  BY <1>7, <1>11
<1> DEFINE z == ToRing(y)
<1>13. z \in Int /\ z = y + q * k3 /\ sample.b[j] = z
  <2>1. z \in 0 .. q - 1 /\ z = y + q * k3
    BY <1>12
  <2>2. sample.b[j] = z
    BY <1>2 DEF y
  <2> HIDE DEF z
  <2> QED BY <1>4, <2>1, <2>2
<1> HIDE DEF z
<1>14. z + S \in Int
  BY <1>4, <1>13
<1>15. PICK k4 \in Int : ToRing(z + S) = z + S + q * k4 /\ ToRing(z + S) \in 0 .. q - 1
  BY <1>7, <1>14
<1> DEFINE b == ct.b[j]
<1>16. b \in 0 .. q - 1 /\ b = z + S + q * k4
  BY <1>3, <1>13, <1>15
<1> HIDE DEF b
<1> DEFINE t == k2 + k3 + k4 - k1
<1>17. t \in Int /\ q * t = q * k2 + q * k3 + q * k4 - q * k1
  BY <1>4
<1>18. q * k1 \in Int /\ q * k2 \in Int /\ q * k3 \in Int /\ q * k4 \in Int
  BY <1>4
<1>19. b + K = S + e[j] + q * t
  <2> DEFINE p1 == q * k1
             p2 == q * k2
             p3 == q * k3
             p4 == q * k4
             p == q * t
  <2>1. /\ p1 \in Int /\ p2 \in Int /\ p3 \in Int /\ p4 \in Int /\ p = p2 + p3 + p4 - p1
        /\ as = K + p1 /\ y = e[j] - as + p2 /\ z = y + p3 /\ b = z + S + p4
        /\ K \in Int /\ as \in Int /\ y \in Int /\ z \in Int /\ S \in Int
    BY <1>4, <1>6, <1>8, <1>11, <1>13, <1>16, <1>17, <1>18
  <2> HIDE DEF p1, p2, p3, p4, p
  <2>2. b + K = S + e[j] + p
    BY <2>1
  <2> QED BY <2>2 DEF p
<1> HIDE DEF t
<1>20. Encrypts(ct, s, j, m[j], e[j])
  BY <1>1, <1>16, <1>17, <1>19 DEF Encrypts, b, K, S, q
<1> QED BY <1>20 DEF ct, sample

\* Decrypting.
LEMMA DecryptedIs ==
    ASSUME NEW ct, NEW s, NEW j \in Positions, NEW m \in 0 .. PlaintextModulus - 1, NEW e \in Int,
           Encrypts(ct, s, j, m, e), -Budget <= e, e <= Budget
    PROVE  Decrypt(ct, s)[j] = m
<1> DEFINE v == Phase(ct, s)[j]
           as == NttMult(ct.a, s)[j]
           K == KeyProduct(ct.a, s, j)
           S == Scaled(m)
           q == Modulus
           b == ct.b[j]
<1>1. Decrypt(ct, s)[j] = Decoded(v, LogModulus)
  <2> DEFINE f == [i \in Positions |-> Decoded(Phase(ct, s)[i], LogModulus)]
  <2>1. Decrypt(ct, s) = f
    BY TabulatedIs, Zenon DEF Decrypt, Poly
  <2>2. f[j] = Decoded(Phase(ct, s)[j], LogModulus)
    OBVIOUS
  <2> HIDE DEF f
  <2> QED BY <2>1, <2>2
<1>2. v = ToCoeff(b + as) % 2 ^ LogModulus
  <2> DEFINE f == [i \in Positions |-> ToCoeff(ct.b[i] + NttMult(ct.a, s)[i])]
  <2>1. PolyAdd(ct.b, NttMult(ct.a, s)) = f
    BY TabulatedIs, Zenon DEF PolyAdd, Poly
  <2>2. f[j] = ToCoeff(ct.b[j] + NttMult(ct.a, s)[j])
    OBVIOUS
  <2> HIDE DEF f
  <2>3. v = (f[j] % 2 ^ LogModulus)
    BY <2>1, LowBitsAt DEF Phase
  <2> QED BY <2>2, <2>3
<1>3. q \in Nat \ {0} /\ LogModulus \in 1 .. CoeffBits /\ S \in Int
  BY ModulusPositive, ScaledOf
<1>4. Keyed(ct.a, s)
  BY <1>3 DEF Encrypts, Keyed
<1>5. K \in Int /\ as = ToCoeff(K)
  BY <1>4, KeyProductOf
<1>6. PICK t \in Int : b + K = S + e + q * t
  BY DEF Encrypts
<1>7. b \in Int
  BY <1>3 DEF Encrypts
<1>8. ASSUME NEW x \in Int
      PROVE  /\ ToCoeff(x) \in Int /\ x % 2 ^ LogModulus \in Int
             /\ \E k \in Int : ToCoeff(x) = x + q * k
             /\ \E k \in Int : x % 2 ^ LogModulus = x + q * k
  <2>1. q = 2 ^ LogModulus
    BY DEF Modulus
  <2> HIDE DEF q
  <2>2. /\ ToCoeff(x) \in Int /\ x % 2 ^ LogModulus \in 0 .. 2 ^ LogModulus - 1
        /\ \E k \in Int : ToCoeff(x) = x + 2 ^ LogModulus * k
        /\ \E k \in Int : x % 2 ^ LogModulus = x + 2 ^ LogModulus * k
    BY <1>3, Wraps
  <2> DEFINE r == x % 2 ^ LogModulus
  <2>3. /\ r \in 0 .. q - 1
        /\ \E k \in Int : ToCoeff(x) = x + q * k
        /\ \E k \in Int : r = x + q * k
    BY <2>1, <2>2
  <2> HIDE DEF r
  <2>4. r \in Int
    BY <1>3, <2>3
  <2> QED BY <2>2, <2>3, <2>4 DEF r
<1> HIDE DEF v, as, K, S, q, b
<1>9. PICK k1 \in Int : as = K + q * k1 /\ as \in Int
  BY <1>5, <1>8
<1>10. b + as \in Int
  BY <1>7, <1>9
<1>11. PICK k2 \in Int : ToCoeff(b + as) = b + as + q * k2 /\ ToCoeff(b + as) \in Int
  BY <1>8, <1>10
<1> DEFINE y == ToCoeff(b + as)
<1>12. y \in Int /\ y = b + as + q * k2
  BY <1>11
<1> HIDE DEF y
<1>13. PICK k3 \in Int : y % 2 ^ LogModulus = y + q * k3
  BY <1>8, <1>12
<1>14. v = y + q * k3
  BY <1>2, <1>13 DEF y
<1> DEFINE k == t + k1 + k2 + k3
<1>15. k \in Int /\ q * k = q * t + q * k1 + q * k2 + q * k3
  BY <1>3
<1>16. q * k1 \in Int /\ q * k2 \in Int /\ q * k3 \in Int /\ q * t \in Int
  BY <1>3
<1> HIDE DEF k
<1>17. v = S + e + q * k /\ v \in Int
  BY <1>3, <1>5, <1>6, <1>7, <1>9, <1>12, <1>14, <1>15, <1>16
<1>18. Holds(v, 1, LogModulus, m, e, k)
  <2>1. v * 1 = v /\ 2 ^ LogModulus * 1 = 2 ^ LogModulus
    BY <1>3, <1>17 DEF q, Modulus
  <2> QED BY <1>17, <2>1 DEF Holds, S, q, Modulus
<1>19. Decoded(v, LogModulus) = m
  <2>1. 1 \in Nat \ {0}
    OBVIOUS
  <2> QED BY <1>3, <1>15, <1>17, <1>18, <2>1, DecodedBack
<1> QED BY <1>1, <1>19

\* A sum of roundings, in units of D and modulo q2 = q / D, in units of one.
Summed(D, q, q2, b1, c, k2, v) ==
    /\ D \in Int /\ q \in Int /\ q2 \in Int /\ b1 \in Int /\ c \in Int /\ k2 \in Int
    /\ q = q2 * D /\ v = b1 + c + q2 * k2

LEMMA SummedIs ==
    ASSUME NEW D, NEW q, NEW q2, NEW b1, NEW c, NEW k2, NEW v, Summed(D, q, q2, b1, c, k2, v)
    PROVE  v * D = D * b1 + D * c + q * k2
<1>1. (b1 + c + q2 * k2) * D = D * b1 + D * c + (q2 * D) * k2
  BY DEF Summed
<1> QED BY <1>1 DEF Summed

\* A product with a key that was wrapped modulo q1 = q / D1, and is rounded in
\* units of D12 then, against the product itself.
Twice(D, D1, D12, q, q1, K1, k1, x1, c) ==
    /\ D \in Int /\ D1 \in Int /\ D12 \in Int /\ q \in Int /\ q1 \in Int
    /\ K1 \in Int /\ k1 \in Int /\ x1 \in Int /\ c \in Int
    /\ D = D12 * D1 /\ q = q1 * D1 /\ x1 = K1 + q1 * k1

LEMMA TwiceIs ==
    ASSUME NEW D, NEW D1, NEW D12, NEW q, NEW q1, NEW K1, NEW k1, NEW x1, NEW c,
           Twice(D, D1, D12, q, q1, K1, k1, x1, c)
    PROVE  D1 * (D12 * c - x1) = D * c - D1 * K1 - q * k1
<1>1. D1 * (D12 * c - x1) = (D12 * D1) * c - D1 * x1
  BY DEF Twice
<1>2. D1 * (K1 + q1 * k1) = D1 * K1 + (q1 * D1) * k1
  BY DEF Twice
<1>3. D1 * K1 \in Int /\ (q1 * D1) * k1 \in Int /\ (D12 * D1) * c \in Int
  BY DEF Twice
<1> QED BY <1>1, <1>2, <1>3 DEF Twice

\* How much the roundings add to an error.
LEMMA SwitchedError ==
    ASSUME NEW D \in Nat \ {0}, NEW D1 \in Nat \ {0}, NEW D12 \in Nat \ {0}, D = D12 * D1,
           NEW d \in Nat, NEW x \in Int, -(D \div 2) <= x, x <= D \div 2,
           NEW y \in Int, -((D1 \div 2) * d) <= y, y <= (D1 \div 2) * d,
           NEW z \in Int, -(D12 \div 2) <= z, z <= D12 \div 2
    PROVE  LET r == D + (d * D1) \div 2
           IN  r \in Nat /\ -r <= x + y + D1 * z /\ x + y + D1 * z <= r
<1> DEFINE h == D \div 2
           h1 == D1 \div 2
           h12 == D12 \div 2
           r == (d * D1) \div 2
<1>1. h \in Nat /\ 2 * h <= D /\ h1 \in Nat /\ 2 * h1 <= D1 /\ h12 \in Nat /\ 2 * h12 <= D12
  BY HalfOf
<1>2. r \in Nat /\ d * D1 <= 2 * r + 1
  <2>1. d * D1 \in Nat
    OBVIOUS
  <2> QED BY <2>1
<1> HIDE DEF h, h1, h12, r
<1>3. h1 * d \in Nat /\ h1 * d <= r
  <2>1. h1 * d \in Nat /\ 2 * (h1 * d) = (2 * h1) * d
    BY <1>1
  <2>2. (2 * h1) * d <= D1 * d
    BY <1>1
  <2>3. D1 * d = d * D1 /\ D1 * d \in Nat
    OBVIOUS
  <2> QED BY <1>2, <2>1, <2>2, <2>3
<1>4. D1 * h12 \in Nat /\ 2 * (D1 * h12) <= D
  <2>1. D1 * h12 \in Nat /\ 2 * (D1 * h12) = D1 * (2 * h12)
    BY <1>1
  <2>2. D1 * (2 * h12) <= D1 * D12
    BY <1>1
  <2> QED BY <2>1, <2>2
<1>5. D1 * z \in Int /\ -(D1 * h12) <= D1 * z /\ D1 * z <= D1 * h12
  <2>1. -h12 <= z /\ z <= h12
    BY DEF h12
  <2>2. D1 * (h12 - z) >= 0 /\ D1 * (h12 + z) >= 0
    BY <1>1, <2>1
  <2>3. D1 * (h12 - z) = D1 * h12 - D1 * z /\ D1 * (h12 + z) = D1 * h12 + D1 * z
    BY <1>1
  <2>4. D1 * z \in Int
    OBVIOUS
  <2> QED BY <1>4, <2>2, <2>3, <2>4
<1>6. -h <= x /\ x <= h /\ -(h1 * d) <= y /\ y <= h1 * d
  BY DEF h, h1
<1> DEFINE p == h1 * d
           o == D1 * h12
           w == D1 * z
<1> HIDE DEF p, o, w
<1>7. /\ p \in Nat /\ p <= r /\ o \in Nat /\ 2 * o <= D /\ w \in Int /\ -o <= w /\ w <= o
      /\ -p <= y /\ y <= p
  BY <1>3, <1>4, <1>5, <1>6 DEF p, o, w
<1>8. D + r \in Nat /\ -(D + r) <= x + y + w /\ x + y + w <= D + r
  BY <1>1, <1>2, <1>6, <1>7
<1> QED BY <1>8 DEF w, r

\* What the roundings take off the budget.
Rounding == 2 ^ (LogModulus - LogModulus2) + (Degree * 2 ^ (LogModulus - LogModulus1)) \div 2

\* Decrypting after both halves have been switched.
LEMMA SwitchedDecryptedIs ==
    ASSUME NEW ct, \A x \in Positions : ct.b[x] \in 0 .. Modulus - 1,
           NEW s, NEW j \in Positions, NEW m \in 0 .. PlaintextModulus - 1, NEW e \in Int,
           Encrypts(ct, s, j, m, e), -(Budget - Rounding) <= e, e <= Budget - Rounding
    PROVE  DecryptAfterModulusSwitch(Switched(ct), s)[j] = m
<1> DEFINE L == LogModulus
           L1 == LogModulus1
           L2 == LogModulus2
           D == 2 ^ (L - L2)
           D1 == 2 ^ (L - L1)
           D12 == 2 ^ (L1 - L2)
           q == Modulus
           q1 == 2 ^ L1
           q2 == 2 ^ L2
           S == Scaled(m)
           K == KeyProduct(ct.a, s, j)
           b == ct.b[j]
           a1 == Rescale(ct.a, L, L1)
           K1 == KeyProduct(a1, s, j)
           as == LowBits(NttMult(a1, s), L1)
           x1 == as[j]
           c == Rescale(as, L1, L2)[j]
           b1 == Rescale(ct.b, L, L2)[j]
           v == ToCoeff(b1 + c) % q2
<1>1. /\ L \in 1 .. CoeffBits /\ L1 \in 1 .. CoeffBits /\ L2 \in 1 .. CoeffBits
      /\ L1 \in 1 .. L /\ L2 \in 1 .. L /\ L2 \in 1 .. L1
  BY RlweAssumption, PolynomialsAssumption
<1>2. /\ q \in Nat \ {0} /\ q1 \in Nat \ {0} /\ q2 \in Nat \ {0}
      /\ D \in Nat \ {0} /\ D1 \in Nat \ {0} /\ D12 \in Nat \ {0}
      /\ q = q1 * D1 /\ q = q2 * D
  BY <1>1, WidthSplit DEF Modulus
<1>3. D = D12 * D1
  <2>1. /\ L1 - L2 \in Nat /\ L - L1 \in Nat /\ (L1 - L2) + (L - L1) = L - L2
        /\ L - L2 <= 2 * CoeffBits
    BY <1>1, PolynomialsAssumption
  <2> QED BY <2>1, CoeffPowers, PowerSum
<1>4. S \in Int
  BY ScaledOf
<1>5. DecryptAfterModulusSwitch(Switched(ct), s)[j] = Decoded(v, L2)
  <2> DEFINE ct1 == Switched(ct)
             b1s == Rescale(ct.b, L, L2)
             cs == Rescale(as, L1, L2)
             f == [i \in Positions |-> ToCoeff(b1s[i] + cs[i])]
             noisy == LowBits(PolyAdd(b1s, cs), L2)
             g == [i \in Positions |-> Decoded(noisy[i], L2)]
  <2>1. ct1.a = a1 /\ ct1.b = b1s
    BY DEF Switched, Ciphertext
  <2>2. DecryptAfterModulusSwitch(ct1, s) = g
    <3> HIDE DEF ct1
    <3>1. DecryptAfterModulusSwitch(ct1, s)
              = Poly(LAMBDA i : Decoded(LowBits(PolyAdd(ct1.b,
                         Rescale(LowBits(NttMult(ct1.a, s), L1), L1, L2)), L2)[i], L2))
      BY Zenon DEF DecryptAfterModulusSwitch
    <3>2. noisy = LowBits(PolyAdd(ct1.b, Rescale(LowBits(NttMult(ct1.a, s), L1), L1, L2)), L2)
      BY <2>1
    <3> HIDE DEF noisy
    <3>3. DecryptAfterModulusSwitch(ct1, s) = Poly(LAMBDA i : Decoded(noisy[i], L2))
      BY <3>1, <3>2
    <3> QED BY <3>3, TabulatedIs, Zenon DEF Poly
  <2> HIDE DEF b1s, cs
  <2>3. PolyAdd(b1s, cs) = f
    BY TabulatedIs, Zenon DEF PolyAdd, Poly
  <2>4. f[j] = ToCoeff(b1s[j] + cs[j])
    OBVIOUS
  <2>5. g[j] = Decoded(noisy[j], L2)
    OBVIOUS
  <2>6. noisy[j] = f[j] % 2 ^ L2
    <3> HIDE DEF f
    <3> QED BY <2>3, LowBitsAt
  <2> HIDE DEF f, g, noisy
  <2>7. noisy[j] = v
    BY <2>4, <2>6 DEF b1s, cs
  <2> QED BY <2>2, <2>5, <2>7
<1>6. Near(a1, ct.a, D1, D1 \div 2, Positions) /\ Keyed(a1, s) /\ Keyed(ct.a, s)
  <2>1. \A x \in Positions : ct.a[x] \in 0 .. 2 ^ L - 1 /\ ct.a[x] \in Int /\ s[x] \in Nat
    BY <1>2 DEF Encrypts, Modulus
  <2>2. \A x \in Positions : /\ a1[x] \in Nat
                             /\ -(D1 \div 2) <= D1 * a1[x] - ct.a[x]
                             /\ D1 * a1[x] - ct.a[x] <= D1 \div 2
    BY <1>1, <2>1, RescaledNear
  <2> HIDE DEF a1, D1
  <2> QED BY <2>1, <2>2 DEF Near, Keyed
<1>7. /\ K \in Int /\ K1 \in Int /\ D1 * K1 - K \in Int
      /\ -((D1 \div 2) * Degree) <= D1 * K1 - K
      /\ D1 * K1 - K <= (D1 \div 2) * Degree
  <2>1. D1 \in Nat /\ D1 \div 2 \in Nat
    BY <1>2, HalfOf
  <2> HIDE DEF a1, D1
  <2> QED BY <1>6, <2>1, KeyProductsNear, KeyProductOf
<1>8. x1 \in 0 .. q1 - 1 /\ \E k \in Int : x1 = K1 + q1 * k
  <2>1. x1 = ToCoeff(K1) % 2 ^ L1
    <3> HIDE DEF a1
    <3> QED BY <1>6, LowBitsAt, KeyProductOf
  <2> HIDE DEF x1, K1
  <2>2. PICK k \in Int : ToCoeff(K1) = K1 + q1 * k /\ ToCoeff(K1) \in Int
    BY <1>1, <1>7, Wraps
  <2> DEFINE y == ToCoeff(K1)
  <2>3. y \in Int /\ y = K1 + q1 * k
    BY <2>2
  <2> HIDE DEF y
  <2>4. PICK l \in Int : y % 2 ^ L1 = y + q1 * l /\ (y % 2 ^ L1) \in 0 .. 2 ^ L1 - 1
    BY <1>1, <2>3, Wraps
  <2>5. x1 \in 0 .. q1 - 1 /\ x1 = y + q1 * l
    BY <2>1, <2>4 DEF y
  <2> HIDE DEF q1
  <2>6. q1 * (k + l) = q1 * k + q1 * l /\ q1 * k \in Int /\ q1 * l \in Int
    BY <1>2
  <2>7. x1 = K1 + q1 * (k + l) /\ k + l \in Int
    BY <1>7, <2>3, <2>5, <2>6
  <2> QED BY <2>5, <2>7
<1>9. /\ c \in Nat /\ D12 * c - x1 \in Int
      /\ -(D12 \div 2) <= D12 * c - x1 /\ D12 * c - x1 <= D12 \div 2
  <2> HIDE DEF as
  <2> QED BY <1>1, <1>8, RescaledNear
<1>10. /\ b \in 0 .. q - 1 /\ b1 \in Nat /\ D * b1 - b \in Int
       /\ -(D \div 2) <= D * b1 - b /\ D * b1 - b <= D \div 2
  <2>1. ct.b[j] \in 0 .. 2 ^ L - 1
    BY DEF Modulus
  <2> QED BY <1>1, <2>1, RescaledNear DEF Modulus
<1> HIDE DEF c, b1, x1, K1, K, as, a1, S, q, q1, q2, D, D1, D12
<1>11. PICK t \in Int : b + K = S + e + q * t
  BY DEF Encrypts, K, S, q
<1>12. PICK k1 \in Int : x1 = K1 + q1 * k1
  BY <1>8
<1>13. v \in Int /\ \E k2 \in Int : v = b1 + c + q2 * k2
  <2> DEFINE u == b1 + c
             y == ToCoeff(u)
  <2>1. u \in Int
    BY <1>9, <1>10
  <2> HIDE DEF u
  <2>2. PICK k \in Int : y = u + q2 * k /\ y \in Int
    BY <1>1, <2>1, Wraps DEF q2
  <2>3. y \in Int
    BY <2>2
  <2> HIDE DEF y
  <2>4. PICK l \in Int : (y % q2) = y + q2 * l
    BY <1>1, <2>3, Wraps DEF q2
  <2>5. v = y % q2
    BY DEF y, u
  <2>6. q2 * (k + l) = q2 * k + q2 * l /\ q2 * k \in Int /\ q2 * l \in Int
    BY <1>2
  <2> HIDE DEF v
  <2>7. v = u + q2 * (k + l) /\ k + l \in Int /\ v \in Int
    BY <2>1, <2>2, <2>3, <2>4, <2>5, <2>6
  <2> QED BY <2>7 DEF u
<1> HIDE DEF v
<1>14. PICK k2 \in Int : v = b1 + c + q2 * k2
  BY <1>13
<1> DEFINE x == D * b1 - b
           y == D1 * K1 - K
           z == D12 * c - x1
           w == e + x + y + D1 * z
           k == t + k1 + k2
<1>15. b \in Int /\ b1 \in Int /\ c \in Int /\ x1 \in Int
  BY <1>2, <1>8, <1>9, <1>10
<1>16. v * D = S + w + q * k
  <2>1. v * D = D * b1 + D * c + q * k2
    <3>1. Summed(D, q, q2, b1, c, k2, v)
      BY <1>2, <1>14, <1>15 DEF Summed
    <3> QED BY <3>1, SummedIs
  <2>2. D1 * z = D * c - D1 * K1 - q * k1
    <3>1. Twice(D, D1, D12, q, q1, K1, k1, x1, c)
      BY <1>2, <1>3, <1>7, <1>12, <1>15 DEF Twice
    <3> QED BY <3>1, TwiceIs
  <2>3. q * k = q * t + q * k1 + q * k2
    BY <1>2
  <2> DEFINE Db == D * b1
             Dc == D * c
             DK == D1 * K1
             Dz == D1 * z
             qt == q * t
             qk1 == q * k1
             qk2 == q * k2
             qk == q * k
             vD == v * D
  <2>4. /\ Db \in Int /\ Dc \in Int /\ DK \in Int /\ qt \in Int /\ qk1 \in Int /\ qk2 \in Int
        /\ S \in Int /\ K \in Int /\ b \in Int
    BY <1>2, <1>4, <1>7, <1>15
  <2>5. /\ vD = Db + Dc + qk2 /\ Dz = Dc - DK - qk1 /\ qk = qt + qk1 + qk2
        /\ b + K = S + e + qt /\ x = Db - b /\ y = DK - K /\ w = e + x + y + Dz
    BY <1>11, <2>1, <2>2, <2>3
  <2> HIDE DEF Db, Dc, DK, Dz, qt, qk1, qk2, qk, vD, w, x, y, z, k
  <2>6. vD = S + w + qk
    BY <2>4, <2>5
  <2> QED BY <2>6 DEF vD, qk
<1>17. x \in Int /\ y \in Int /\ z \in Int /\ D1 * z \in Int /\ k \in Int
  BY <1>2, <1>7, <1>9, <1>10
<1>18. LET r == D + (Degree * D1) \div 2
       IN  r \in Nat /\ -r <= x + y + D1 * z /\ x + y + D1 * z <= r
  <2>1. Degree \in Nat
    BY PolynomialsAssumption
  <2>2. /\ -(D \div 2) <= x /\ x <= D \div 2
        /\ -((D1 \div 2) * Degree) <= y /\ y <= (D1 \div 2) * Degree
        /\ -(D12 \div 2) <= z /\ z <= D12 \div 2
    BY <1>7, <1>9, <1>10
  <2> HIDE DEF x, y, z
  <2> QED BY <1>2, <1>3, <1>17, <2>1, <2>2, SwitchedError
<1> DEFINE o == x + y + D1 * z
<1>19. w = e + o /\ o \in Int /\ Rounding \in Nat /\ -Rounding <= o /\ o <= Rounding
  <2>1. Rounding = D + (Degree * D1) \div 2
    BY DEF Rounding, D, D1
  <2> HIDE DEF x, y, z
  <2>2. D1 * z \in Int
    BY <1>17
  <2> QED BY <1>17, <1>18, <2>1, <2>2
<1>20. Budget \in Int
  <2>1. Modulus - PlaintextModulus \in Int /\ 2 * PlaintextModulus \in Nat \ {0}
    BY ModulusPositive, RlweAssumption
  <2> QED BY <2>1 DEF Budget
<1> HIDE DEF w, o, k
<1>21. w \in Int /\ -Budget <= w /\ w <= Budget
  BY <1>19, <1>20
<1>22. Holds(v, D, L2, m, w, k)
  BY <1>2, <1>16, <1>21 DEF Holds, S, q, q2
<1>23. Decoded(v, L2) = m
  BY <1>1, <1>2, <1>13, <1>17, <1>21, <1>22, DecodedBack
<1> QED BY <1>5, <1>23 DEF v, c, b1, as, a1, q2

(***************************************************************************)
(* The cases of decryption                                                 *)
(***************************************************************************)

LEMMA ScatteredOf ==
    ASSUME NEW k \in Int, NEW n \in Nat \ {0}
    PROVE  Scattered(k, n) \in 0 .. n - 1
<1> DEFINE u == k % 211
           v == k % 509
           x == u * u * 131 + v * 7919 + 4242
<1>1. u \in Int /\ v \in Int
  OBVIOUS
<1>2. Scattered(k, n) = (x \div 3) % n
  BY DEF Scattered
<1> HIDE DEF u, v
<1>3. u * u \in Int
  BY <1>1
<1>4. x \in Int
  BY <1>1, <1>3
<1> HIDE DEF x
<1> DEFINE y == x \div 3
<1>5. y \in Int
  BY <1>4
<1> HIDE DEF y
<1>6. y % n \in 0 .. n - 1
  BY <1>5, Division
<1> QED BY <1>2, <1>6 DEF y

\* The a components of the cases are below the modulus.
LEMMA AnyPolyOf ==
    ASSUME NEW k \in Int, NEW n \in Nat \ {0}, NEW x \in Positions
    PROVE  AnyPoly(k, n)[x] \in 0 .. n - 1
<1> DEFINE f == [i \in Positions |-> Scattered(k * Degree + i, n)]
<1>1. AnyPoly(k, n) = f
  BY TabulatedIs, Zenon DEF AnyPoly, Poly
<1>2. f[x] = Scattered(k * Degree + x, n)
  OBVIOUS
<1>3. k * Degree + x \in Int
  BY PolynomialsAssumption DEF Positions
<1> HIDE DEF f
<1>4. Scattered(k * Degree + x, n) \in 0 .. n - 1
  BY <1>3, ScatteredOf
<1> QED BY <1>1, <1>2, <1>4

\* And the coefficients of their keys.
LEMMA AnyKeyOf ==
    ASSUME NEW k \in Int, NEW x \in Positions
    PROVE  AnyKey(k)[x] \in Nat
<1> DEFINE f == [i \in Positions |-> Scattered(k + 31 * i, 3) - 1]
           g == [i \in Positions |-> ToRing(f[i])]
<1>1. AnyKey(k) = g
  <2> DEFINE h == Poly(LAMBDA i : Scattered(k + 31 * i, 3) - 1)
  <2>1. h = f
    BY TabulatedIs, Zenon DEF Poly
  <2>2. AnyKey(k) = SecretKey(h)
    BY Zenon DEF AnyKey
  <2> HIDE DEF h, f
  <2>3. SecretKey(f) = g
    BY TabulatedIs, Zenon DEF SecretKey, Poly
  <2> QED BY <2>1, <2>2, <2>3
<1>2. f[x] \in Int
  <2>1. k + 31 * x \in Int /\ 3 \in Nat \ {0}
    BY PolynomialsAssumption DEF Positions
  <2>2. Scattered(k + 31 * x, 3) \in 0 .. 3 - 1
    BY <2>1, ScatteredOf
  <2> QED BY <2>2
<1> HIDE DEF f
<1>3. g[x] = f[x] % 2 ^ LogModulus
  BY DEF ToRing
<1>4. f[x] % 2 ^ LogModulus \in 0 .. 2 ^ LogModulus - 1
  BY <1>2, ModulusPositive, Wraps
<1> HIDE DEF g
<1> QED BY <1>1, <1>3, <1>4

\* Both ways to decrypt give polynomials.
LEMMA DecryptIsPoly ==
    ASSUME NEW ct, NEW s
    PROVE  /\ Decrypt(ct, s) = [i \in Positions |-> Decrypt(ct, s)[i]]
           /\ DecryptAfterModulusSwitch(ct, s)
                  = [i \in Positions |-> DecryptAfterModulusSwitch(ct, s)[i]]
<1>1. ASSUME NEW f, NEW P(_), f = Poly(P)
      PROVE  f = [i \in Positions |-> f[i]]
  <2> DEFINE g == [i \in Positions |-> P(i)]
  <2>1. f = g
    BY <1>1, TabulatedIs, Zenon DEF Poly
  <2>2. g = [i \in Positions |-> g[i]]
    OBVIOUS
  <2> HIDE DEF g
  <2> QED BY <2>1, <2>2
<1> QED BY <1>1 DEF Decrypt, DecryptAfterModulusSwitch

\* A case of decryption has a seed and a sign.
LEMMA RlweCase ==
    ASSUME case \in AllCases, case.op = "rlwe"
    PROVE  case.seed \in Int /\ case.sign \in {-1, 1}
<1>1. case # NoCase
  BY DEF NoCase
<1>2. case \in [op : {"rlwe"}, seed : Seeds, sign : {-1, 1}]
  BY <1>1 DEF AllCases, Cases
<1>3. case.seed \in Seeds /\ case.sign \in {-1, 1}
  BY <1>2
<1>4. Seeds \subseteq Nat
  BY CasesAssumption, Zenon
<1>5. \A k \in Seeds : k \in Int
  BY <1>4
<1> QED BY <1>3, <1>5, Zenon

LEMMA RoundingOf == Rounding \in Nat
<1> DEFINE d == Degree * 2 ^ (LogModulus - LogModulus1)
<1>1. 2 ^ (LogModulus - LogModulus2) \in Nat /\ 2 ^ (LogModulus - LogModulus1) \in Nat
  BY RlweAssumption, PolynomialsAssumption, WidthSplit
<1>2. d \in Nat
  BY <1>1, PolynomialsAssumption
<1> HIDE DEF d
<1>3. d \div 2 \in Nat
  BY <1>2
<1> QED BY <1>1, <1>3 DEF Rounding, d

\* Any error that leaves half the distance between two messages is decrypted
\* away, in whatever coefficient, and so is any that leaves it what switching
\* the moduli takes, for every ring, mask, key, message, plaintext modulus and
\* width.
THEOREM AnyErrorDecrypts ==
    ASSUME NEW a, \A i \in Positions : a[i] \in 0 .. Modulus - 1,
           NEW s, \A i \in Positions : s[i] \in Nat,
           NEW e, \A i \in Positions : e[i] \in Int,
           NEW m \in [Positions -> 0 .. PlaintextModulus - 1]
    PROVE  LET ct == EncryptFromRlweSample(RlweSample(a, e, s), m)
               Bounded(size) == \A i \in Positions : -size <= e[i] /\ e[i] <= size
           IN  /\ Bounded(Budget) => Decrypt(ct, s) = m
               /\ Bounded(Budget - Rounding) => DecryptAfterModulusSwitch(Switched(ct), s) = m
<1> DEFINE ct == EncryptFromRlweSample(RlweSample(a, e, s), m)
           Bounded(size) == \A i \in Positions : -size <= e[i] /\ e[i] <= size
           switched == Switched(ct)
<1>1. \A j \in Positions : m[j] \in 0 .. PlaintextModulus - 1
  OBVIOUS
<1>2. \A j \in Positions : Encrypts(ct, s, j, m[j], e[j])
  BY <1>1, EncryptedIs
<1> HIDE DEF ct
<1>3. m = [j \in Positions |-> m[j]]
  OBVIOUS
<1>4. ASSUME Bounded(Budget)
      PROVE  Decrypt(ct, s) = m
  <2>1. \A j \in Positions : Decrypt(ct, s)[j] = m[j]
    BY <1>1, <1>2, <1>4, DecryptedIs
  <2>2. Decrypt(ct, s) = [j \in Positions |-> Decrypt(ct, s)[j]]
    BY DecryptIsPoly
  <2> QED BY <1>3, <2>1, <2>2
<1>5. ASSUME Bounded(Budget - Rounding)
      PROVE  DecryptAfterModulusSwitch(switched, s) = m
  <2> DEFINE answer == DecryptAfterModulusSwitch(switched, s)
  <2>1. \A x \in Positions : ct.b[x] \in 0 .. Modulus - 1
    BY <1>2 DEF Encrypts
  <2>2. \A j \in Positions : answer[j] = m[j]
    BY <1>1, <1>2, <1>5, <2>1, SwitchedDecryptedIs
  <2>3. answer = [j \in Positions |-> answer[j]]
    BY DecryptIsPoly
  <2> HIDE DEF answer
  <2>4. answer = m
    BY <1>3, <2>2, <2>3
  <2> QED BY <2>4 DEF answer
<1> QED BY <1>4, <1>5 DEF ct

\* So are the errors of the cases, for every seed.
THEOREM Decryption == Spec => []BudgetedNoiseDecrypts
<1> DEFINE s == AnyKey(case.seed)
           a == AnyPoly(case.seed * 23, Modulus)
           E(size) == Poly(LAMBDA i : case.sign * size)
           M(shift) == Poly(LAMBDA i : (i + shift) % PlaintextModulus)
           Encrypted(m, size) == EncryptFromRlweSample(RlweSample(a, E(size), s), m)
<1>1. ASSUME case \in AllCases, case.op = "rlwe"
      PROVE  /\ \A x \in Positions : a[x] \in 0 .. Modulus - 1
             /\ \A x \in Positions : s[x] \in Nat
  <2>1. case.seed \in Int /\ case.seed * 23 \in Int
    BY <1>1, RlweCase
  <2> QED BY <2>1, AnyPolyOf, AnyKeyOf, ModulusPositive
<1>2. ASSUME NEW shift \in Int
      PROVE  M(shift) \in [Positions -> 0 .. PlaintextModulus - 1]
  <2> DEFINE f == [i \in Positions |-> (i + shift) % PlaintextModulus]
  <2>1. M(shift) = f
    BY TabulatedIs, Zenon DEF Poly
  <2>2. ASSUME NEW i \in Positions
        PROVE  (i + shift) % PlaintextModulus \in 0 .. PlaintextModulus - 1
    <3>1. i + shift \in Int /\ PlaintextModulus \in Nat \ {0}
      BY RlweAssumption DEF Positions
    <3> QED BY <3>1, Division
  <2>3. f \in [Positions -> 0 .. PlaintextModulus - 1]
    BY <2>2
  <2> HIDE DEF f, M
  <2> QED BY <2>1, <2>3
<1>3. ASSUME NEW size, NEW j \in Positions
      PROVE  E(size)[j] = case.sign * size
  <2> DEFINE f == [i \in Positions |-> case.sign * size]
  <2>1. E(size) = f
    BY TabulatedIs, Zenon DEF Poly
  <2>2. f[j] = case.sign * size
    OBVIOUS
  <2> HIDE DEF f, E
  <2> QED BY <2>1, <2>2
<1> HIDE DEF s, a, E, M
<1>4. ASSUME case \in AllCases, case.op = "rlwe", NEW size \in Int, 0 <= size,
             NEW j \in Positions
      PROVE  E(size)[j] \in Int /\ -size <= E(size)[j] /\ E(size)[j] <= size
  <2>1. case.sign \in {-1, 1}
    BY <1>4, RlweCase
  <2> QED BY <1>3, <1>4, <2>1
<1>5. Budget \in Int /\ Rounding \in Nat
  <2>1. Modulus - PlaintextModulus \in Int /\ 2 * PlaintextModulus \in Nat \ {0}
    BY ModulusPositive, RlweAssumption
  <2> QED BY <2>1, RoundingOf DEF Budget
<1>6. ASSUME case \in AllCases, case.op = "rlwe", NEW shift \in Int, 0 <= Budget
      PROVE  Decrypt(Encrypted(M(shift), Budget), s) = M(shift)
  <2>1. \A j \in Positions : /\ E(Budget)[j] \in Int
                             /\ -Budget <= E(Budget)[j] /\ E(Budget)[j] <= Budget
    BY <1>4, <1>5, <1>6
  <2> QED BY <1>1, <1>2, <1>6, <2>1, AnyErrorDecrypts
<1>7. ASSUME case \in AllCases, case.op = "rlwe", NEW shift \in Int, Rounding <= Budget
      PROVE  DecryptAfterModulusSwitch(Switched(Encrypted(M(shift), Budget - Rounding)), s)
                 = M(shift)
  <2> DEFINE size == Budget - Rounding
  <2>1. size \in Int /\ 0 <= size
    BY <1>5, <1>7
  <2> HIDE DEF size
  <2>2. \A j \in Positions : E(size)[j] \in Int /\ -size <= E(size)[j] /\ E(size)[j] <= size
    BY <1>4, <1>7, <2>1
  <2>3. size = Budget - Rounding
    BY DEF size
  <2>4. DecryptAfterModulusSwitch(Switched(Encrypted(M(shift), size)), s) = M(shift)
    BY <1>1, <1>2, <1>7, <2>2, <2>3, AnyErrorDecrypts
  <2> QED BY <2>4 DEF size
<1>8. case \in AllCases => BudgetedNoiseDecrypts
  <2> SUFFICES ASSUME case \in AllCases, case.op = "rlwe",
                      NEW shift \in 0 .. PlaintextModulus - 1
               PROVE  /\ 0 <= Budget => Decrypt(Encrypted(M(shift), Budget), s) = M(shift)
                      /\ Rounding <= Budget =>
                             DecryptAfterModulusSwitch(
                                 Switched(Encrypted(M(shift), Budget - Rounding)), s) = M(shift)
    BY Zenon DEF BudgetedNoiseDecrypts, Budget, Rounding, s, a, E, M
  <2>1. shift \in Int
    BY RlweAssumption
  <2> QED BY <1>6, <1>7, <2>1
<1> QED BY <1>8, CasesInvariant, PTL

(***************************************************************************)
(* Products of polynomials                                                 *)
(***************************************************************************)

\* H is F plus c times G, modulo M, or exactly if M is 0.
Combined(H, F, c, G, M) ==
    H \in Int /\ F \in Int /\ G \in Int /\ \E k \in Int : H = F + c * G + M * k

\* At every place of S.
Combines(h, f, c, g, M, S) == \A x \in S : Combined(h[x], f[x], c, g[x], M)

\* So are their sums.
LEMMA CombinedTotals ==
    ASSUME NEW S, IsFiniteSet(S), NEW h, NEW f, NEW g, NEW c \in Int, NEW M \in Int,
           Combines(h, f, c, g, M, S)
    PROVE  Combined(Total(h, S), Total(f, S), c, Total(g, S), M)
<1> DEFINE Good(s) == Combined(Total(h, s), Total(f, s), c, Total(g, s), M)
           T == {n \in Nat : \A s \in SUBSET S : Cardinality(s) = n => Good(s)}
<1>1. ASSUME NEW s \in SUBSET S
      PROVE  IsFiniteSet(s) /\ Cardinality(s) \in Nat
  BY FS_Subset, FS_CardinalityType
<1> HIDE DEF Good, Combined
<1>2. 0 \in T
  <2> SUFFICES ASSUME NEW s \in SUBSET S, Cardinality(s) = 0
               PROVE  Good(s)
    OBVIOUS
  <2>1. s = {}
    BY <1>1, FS_EmptySet
  <2>2. Total(h, s) = 0 /\ Total(f, s) = 0 /\ Total(g, s) = 0
    BY <1>1, <2>1, SumPick
  <2>3. 0 = 0 + c * 0 + M * 0 /\ 0 \in Int
    OBVIOUS
  <2> QED BY <2>2, <2>3 DEF Good, Combined
<1>3. ASSUME NEW n \in Nat, n \in T
      PROVE  n + 1 \in T
  <2> SUFFICES ASSUME NEW s \in SUBSET S, Cardinality(s) = n + 1
               PROVE  Good(s)
    OBVIOUS
  <2>1. IsFiniteSet(s) /\ s # {}
    BY <1>1, FS_EmptySet
  <2> DEFINE p == Pick(s)
             r == s \ {p}
  <2>2. p \in s /\ p \in S /\ r \in SUBSET S /\ Cardinality(r) = n
    <3>1. p \in s /\ Cardinality(r) = Cardinality(s) - 1
      BY <2>1, PickOf
    <3> QED BY <3>1
  <2>3. Good(r)
    BY <1>3, <2>2
  <2>4. /\ Total(h, s) = h[p] + Total(h, r) /\ Total(f, s) = f[p] + Total(f, r)
        /\ Total(g, s) = g[p] + Total(g, r)
    BY <2>1, SumPick
  <2> HIDE DEF p, r
  <2>5. h[p] \in Int /\ f[p] \in Int /\ g[p] \in Int
    BY <2>2 DEF Combines, Combined
  <2>6. PICK k \in Int : h[p] = f[p] + c * g[p] + M * k
    BY <2>2 DEF Combines, Combined
  <2> DEFINE H == Total(h, r)
             F == Total(f, r)
             G == Total(g, r)
  <2>7. H \in Int /\ F \in Int /\ G \in Int
    BY <2>3 DEF Good, Combined
  <2>8. PICK l \in Int : H = F + c * G + M * l
    BY <2>3 DEF Good, Combined
  <2> HIDE DEF H, F, G
  <2>9. /\ c * (g[p] + G) = c * g[p] + c * G /\ M * (k + l) = M * k + M * l
        /\ c * g[p] \in Int /\ c * G \in Int /\ M * k \in Int /\ M * l \in Int
    BY <2>5, <2>7
  <2>10. h[p] + H = (f[p] + F) + c * (g[p] + G) + M * (k + l)
    BY <2>5, <2>6, <2>7, <2>8, <2>9
  <2>11. /\ h[p] + H \in Int /\ f[p] + F \in Int /\ g[p] + G \in Int /\ k + l \in Int
    BY <2>5, <2>7
  <2> QED BY <2>4, <2>10, <2>11 DEF H, F, G, Good, Combined
<1> HIDE DEF T
<1>4. \A n \in Nat : n \in T
  BY <1>2, <1>3, NatInd
<1>5. S \in SUBSET S /\ Cardinality(S) \in Nat
  BY FS_CardinalityType
<1> QED BY <1>4, <1>5 DEF T, Good

\* A product with a combination is the combination of the products.
LEMMA CombinedRight ==
    ASSUME NEW p, \A x \in Positions : p[x] \in Int, NEW h, NEW f, NEW g,
           NEW c \in Int, NEW M \in Int, Combines(h, f, c, g, M, Positions),
           NEW j \in Positions
    PROVE  Combines(NegacyclicTerms(p, h, j), NegacyclicTerms(p, f, j), c,
                    NegacyclicTerms(p, g, j), M, Positions)
<1> SUFFICES ASSUME NEW x \in Positions
             PROVE  Combined(NegacyclicTerms(p, h, j)[x], NegacyclicTerms(p, f, j)[x], c,
                             NegacyclicTerms(p, g, j)[x], M)
  BY DEF Combines
<1> DEFINE y == IF x <= j THEN j - x ELSE Degree + j - x
           a == p[x]
<1>1. y \in Positions
  BY Partner
<1>2. ASSUME NEW r
      PROVE  NegacyclicTerms(p, r, j)[x] = IF x <= j THEN a * r[y] ELSE -(a * r[y])
  BY DEF NegacyclicTerms
<1>3. a \in Int
  OBVIOUS
<1> HIDE DEF y, a
<1>4. h[y] \in Int /\ f[y] \in Int /\ g[y] \in Int
  BY <1>1 DEF Combines, Combined
<1>5. PICK k \in Int : h[y] = f[y] + c * g[y] + M * k
  BY <1>1 DEF Combines, Combined
<1> DEFINE H == a * h[y]
           F == a * f[y]
           G == a * g[y]
           K == a * k
<1>6. H \in Int /\ F \in Int /\ G \in Int /\ K \in Int
  BY <1>3, <1>4
<1>7. H = F + c * G + M * K
  <2>1. c * g[y] \in Int /\ M * k \in Int
    BY <1>4
  <2>2. a * (f[y] + c * g[y] + M * k) = a * f[y] + a * (c * g[y]) + a * (M * k)
    BY <1>3, <1>4, <2>1
  <2>3. a * (c * g[y]) = c * (a * g[y]) /\ a * (M * k) = M * (a * k)
    BY <1>3, <1>4
  <2> QED BY <1>5, <2>2, <2>3
<1> HIDE DEF H, F, G, K
<1>8. -H = -F + c * (-G) + M * (-K) /\ -K \in Int
  <2>1. c * (-G) = -(c * G) /\ M * (-K) = -(M * K) /\ c * G \in Int /\ M * K \in Int
    BY <1>6
  <2> QED BY <1>6, <1>7, <2>1
<1>9. CASE x <= j
  <2>1. /\ NegacyclicTerms(p, h, j)[x] = H /\ NegacyclicTerms(p, f, j)[x] = F
        /\ NegacyclicTerms(p, g, j)[x] = G
    BY <1>2, <1>9 DEF H, F, G
  <2> QED BY <1>6, <1>7, <2>1 DEF Combined
<1>10. CASE ~(x <= j)
  <2>1. /\ NegacyclicTerms(p, h, j)[x] = -H /\ NegacyclicTerms(p, f, j)[x] = -F
        /\ NegacyclicTerms(p, g, j)[x] = -G
    BY <1>2, <1>10 DEF H, F, G
  <2>2. -H \in Int /\ -F \in Int /\ -G \in Int
    BY <1>6
  <2>3. \E k1 \in Int : -H = -F + c * (-G) + M * k1
    BY <1>8
  <2>4. Combined(-H, -F, c, -G, M)
    BY <2>2, <2>3 DEF Combined
  <2> QED BY <2>1, <2>4
<1> QED BY <1>9, <1>10

LEMMA CombinedLeft ==
    ASSUME NEW p, \A x \in Positions : p[x] \in Int, NEW h, NEW f, NEW g,
           NEW c \in Int, NEW M \in Int, Combines(h, f, c, g, M, Positions),
           NEW j \in Positions
    PROVE  Combines(NegacyclicTerms(h, p, j), NegacyclicTerms(f, p, j), c,
                    NegacyclicTerms(g, p, j), M, Positions)
<1> SUFFICES ASSUME NEW x \in Positions
             PROVE  Combined(NegacyclicTerms(h, p, j)[x], NegacyclicTerms(f, p, j)[x], c,
                             NegacyclicTerms(g, p, j)[x], M)
  BY DEF Combines
<1> DEFINE y == IF x <= j THEN j - x ELSE Degree + j - x
           b == IF x <= j THEN p[y] ELSE -p[y]
<1>1. y \in Positions
  BY Partner
<1>2. p[y] \in Int /\ b \in Int
  BY <1>1
<1>3. h[x] \in Int /\ f[x] \in Int /\ g[x] \in Int
  BY DEF Combines, Combined
<1>4. ASSUME NEW r, r[x] \in Int
      PROVE  NegacyclicTerms(r, p, j)[x] = r[x] * b /\ r[x] * b \in Int
  <2>1. NegacyclicTerms(r, p, j)[x] = IF x <= j THEN r[x] * p[y] ELSE -(r[x] * p[y])
    BY DEF NegacyclicTerms
  <2>2. -(r[x] * p[y]) = r[x] * (-p[y])
    BY <1>2, <1>4
  <2> HIDE DEF y
  <2> QED BY <1>2, <1>4, <2>1, <2>2
<1>5. PICK k \in Int : h[x] = f[x] + c * g[x] + M * k
  BY DEF Combines, Combined
<1> HIDE DEF y, b
<1>6. h[x] * b = f[x] * b + c * (g[x] * b) + M * (k * b) /\ k * b \in Int
  <2>1. c * g[x] \in Int /\ M * k \in Int /\ k * b \in Int
    BY <1>2, <1>3
  <2>2. (f[x] + c * g[x] + M * k) * b = f[x] * b + (c * g[x]) * b + (M * k) * b
    BY <1>2, <1>3, <2>1
  <2>3. (c * g[x]) * b = c * (g[x] * b) /\ (M * k) * b = M * (k * b)
    BY <1>2, <1>3
  <2> QED BY <1>5, <2>1, <2>2, <2>3
<1> QED BY <1>3, <1>4, <1>6 DEF Combined

\* The sum over I of the products of two vectors of polynomials.
ConvolutionTerms(P, R, I, j) == [i \in I |-> NegacyclicAt(P[i], R[i], j)]

Convolved(P, R, I, j) == Total(ConvolutionTerms(P, R, I, j), I)

Integral(P, I) == \A i \in I : \A x \in Positions : P[i][x] \in Int

CombinesAll(H, F, c, G, M, I) == \A i \in I : Combines(H[i], F[i], c, G[i], M, Positions)

LEMMA ConvolvedRight ==
    ASSUME NEW I, IsFiniteSet(I), NEW P, Integral(P, I), NEW H, NEW F, NEW G,
           NEW c \in Int, NEW M \in Int, CombinesAll(H, F, c, G, M, I), NEW j \in Positions
    PROVE  Combined(Convolved(P, H, I, j), Convolved(P, F, I, j), c,
                    Convolved(P, G, I, j), M)
<1> DEFINE h == ConvolutionTerms(P, H, I, j)
           f == ConvolutionTerms(P, F, I, j)
           g == ConvolutionTerms(P, G, I, j)
<1>1. ASSUME NEW i \in I
      PROVE  Combined(h[i], f[i], c, g[i], M)
  <2> DEFINE hi == NegacyclicTerms(P[i], H[i], j)
             fi == NegacyclicTerms(P[i], F[i], j)
             gi == NegacyclicTerms(P[i], G[i], j)
  <2>1. /\ h[i] = NegacyclicAt(P[i], H[i], j) /\ f[i] = NegacyclicAt(P[i], F[i], j)
        /\ g[i] = NegacyclicAt(P[i], G[i], j)
    BY DEF ConvolutionTerms
  <2>2. /\ h[i] = Total(hi, Positions) /\ f[i] = Total(fi, Positions)
        /\ g[i] = Total(gi, Positions)
    BY <2>1, NegacyclicIs
  <2>3. Combines(hi, fi, c, gi, M, Positions)
    <3>1. Combines(H[i], F[i], c, G[i], M, Positions)
      BY DEF CombinesAll
    <3>2. \A x \in Positions : P[i][x] \in Int
      BY DEF Integral
    <3> QED BY <3>1, <3>2, CombinedRight
  <2> HIDE DEF hi, fi, gi, h, f, g
  <2>4. IsFiniteSet(Positions)
    BY PositionsOf
  <2> QED BY <2>2, <2>3, <2>4, CombinedTotals
<1> HIDE DEF h, f, g
<1>2. Combines(h, f, c, g, M, I)
  BY <1>1 DEF Combines, Combined
<1>3. Combined(Total(h, I), Total(f, I), c, Total(g, I), M)
  BY <1>2, CombinedTotals
<1> QED BY <1>3, Zenon DEF Convolved, h, f, g

LEMMA ConvolvedLeft ==
    ASSUME NEW I, IsFiniteSet(I), NEW P, Integral(P, I), NEW H, NEW F, NEW G,
           NEW c \in Int, NEW M \in Int, CombinesAll(H, F, c, G, M, I), NEW j \in Positions
    PROVE  Combined(Convolved(H, P, I, j), Convolved(F, P, I, j), c,
                    Convolved(G, P, I, j), M)
<1> DEFINE h == ConvolutionTerms(H, P, I, j)
           f == ConvolutionTerms(F, P, I, j)
           g == ConvolutionTerms(G, P, I, j)
<1>1. ASSUME NEW i \in I
      PROVE  Combined(h[i], f[i], c, g[i], M)
  <2> DEFINE hi == NegacyclicTerms(H[i], P[i], j)
             fi == NegacyclicTerms(F[i], P[i], j)
             gi == NegacyclicTerms(G[i], P[i], j)
  <2>1. /\ h[i] = NegacyclicAt(H[i], P[i], j) /\ f[i] = NegacyclicAt(F[i], P[i], j)
        /\ g[i] = NegacyclicAt(G[i], P[i], j)
    BY DEF ConvolutionTerms
  <2>2. /\ h[i] = Total(hi, Positions) /\ f[i] = Total(fi, Positions)
        /\ g[i] = Total(gi, Positions)
    BY <2>1, NegacyclicIs
  <2>3. Combines(hi, fi, c, gi, M, Positions)
    <3>1. Combines(H[i], F[i], c, G[i], M, Positions)
      BY DEF CombinesAll
    <3>2. \A x \in Positions : P[i][x] \in Int
      BY DEF Integral
    <3> QED BY <3>1, <3>2, CombinedLeft
  <2> HIDE DEF hi, fi, gi, h, f, g
  <2>4. IsFiniteSet(Positions)
    BY PositionsOf
  <2> QED BY <2>2, <2>3, <2>4, CombinedTotals
<1> HIDE DEF h, f, g
<1>2. Combines(h, f, c, g, M, I)
  BY <1>1 DEF Combines, Combined
<1>3. Combined(Total(h, I), Total(f, I), c, Total(g, I), M)
  BY <1>2, CombinedTotals
<1> QED BY <1>3, Zenon DEF Convolved, h, f, g

\* The low bits of a number and the bits above them.
Splits(x, s, w) ==
    /\ (x % 2 ^ (s + w)) = (x % 2 ^ s) + 2 ^ s * ((x \div 2 ^ s) % 2 ^ w)
    /\ (x % 2 ^ s) \in 0 .. 2 ^ s - 1 /\ ((x \div 2 ^ s) % 2 ^ w) \in 0 .. 2 ^ w - 1
    /\ 2 ^ s \in Nat \ {0} /\ 2 ^ w \in Nat \ {0} /\ 2 ^ (s + w) = 2 ^ s * 2 ^ w

LEMMA LowStep ==
    ASSUME NEW x \in Nat, NEW s \in Nat, NEW w \in Nat, s + w <= 2 * CoeffBits
    PROVE  Splits(x, s, w)
<1> DEFINE A == 2 ^ s
           B == 2 ^ w
           q == x \div A
           r == x % A
           d == q \div B
           l == q % B
<1>1. s <= 2 * CoeffBits /\ w <= 2 * CoeffBits /\ 2 * CoeffBits \in Nat
  BY PolynomialsAssumption
<1>2. A \in Nat \ {0} /\ B \in Nat \ {0}
  BY <1>1, SmallPower
<1>3. 2 ^ (s + w) = A * B
  BY <1>1, CoeffPowers, PowerSum
<1> HIDE DEF A, B
<1>4. q \in Nat /\ r \in 0 .. A - 1 /\ x = A * q + r
  <2>1. x \in Int /\ x >= 0
    OBVIOUS
  <2> QED BY <1>2, <2>1, Division
<1> HIDE DEF q, r
<1>5. d \in Nat /\ l \in 0 .. B - 1 /\ q = B * d + l
  <2>1. q \in Int /\ q >= 0
    BY <1>4
  <2> QED BY <1>2, <2>1, Division
<1> HIDE DEF d, l
<1>6. x = (A * B) * d + (r + A * l)
  <2>1. A * (B * d + l) = (A * B) * d + A * l
    BY <1>2, <1>5
  <2>2. (A * B) * d \in Int /\ A * l \in Int
    BY <1>2, <1>5
  <2> QED BY <1>4, <1>5, <2>1, <2>2
<1>7. r + A * l \in 0 .. A * B - 1
  <2>1. A * l <= A * (B - 1)
    BY <1>2, <1>5
  <2>2. A * (B - 1) = A * B - A /\ A * l \in Nat /\ A * B \in Nat
    BY <1>2, <1>5
  <2> QED BY <1>2, <1>4, <2>1, <2>2
<1>8. (x % (A * B)) = r + A * l
  <2> DEFINE D == A * B
             y == r + A * l
  <2>1. D \in Nat \ {0}
    BY <1>2
  <2>2. y \in 0 .. D - 1 /\ x = D * d + y
    BY <1>6, <1>7
  <2> HIDE DEF D, y
  <2>3. (x % D) = y
    BY <1>5, <2>1, <2>2, DivisionOf
  <2> QED BY <2>3 DEF D, y
<1> QED BY <1>2, <1>3, <1>4, <1>5, <1>8 DEF r, l, q, A, B, Splits

\* How many chunks there are.
LEMMA ChunksOf ==
    ASSUME NEW bits \in 1 .. CoeffBits
    PROVE  LET n == NumChunks(bits)
           IN  /\ n \in Nat \ {0} /\ ChunkBits * (n - 1) \in Nat
               /\ bits - ChunkBits * (n - 1) \in 1 .. ChunkBits
               /\ bits <= ChunkBits * n /\ ChunkBits * n <= 2 * CoeffBits
<1> DEFINE C == ChunkBits
           a == bits + C - 1
           b == CoeffBits + C - 1
           n == a \div C
           m == b \div C
<1>1. C \in Nat \ {0} /\ C <= CoeffBits /\ CoeffBits \in Nat \ {0}
  BY ProductsAssumption, PolynomialsAssumption
<1>2. a \in Nat /\ b \in Nat /\ a <= b
  BY <1>1
<1>3. NumChunks(bits) = IF n > m THEN m ELSE n
  BY DEF NumChunks
<1>4. bits \in Nat \ {0} /\ a = bits + C - 1 /\ b = CoeffBits + C - 1 /\ bits <= CoeffBits
  BY <1>1
<1> HIDE DEF a, b
<1>5. n \in Nat /\ C * n <= a /\ a < C * n + C
  <2>1. n \in Nat /\ (a % C) \in 0 .. C - 1 /\ a = C * n + (a % C)
    <3>1. a \in Int /\ a >= 0
      BY <1>2
    <3> QED BY <1>1, <3>1, Division
  <2> QED BY <1>1, <1>2, <2>1
<1>6. m \in Nat /\ C * m <= b /\ b < C * m + C
  <2>1. m \in Nat /\ (b % C) \in 0 .. C - 1 /\ b = C * m + (b % C)
    <3>1. b \in Int /\ b >= 0
      BY <1>2
    <3> QED BY <1>1, <3>1, Division
  <2> QED BY <1>1, <1>2, <2>1
<1> HIDE DEF n, m, C
<1>7. ~(n > m)
  <2>1. C * n < C * (m + 1)
    <3>1. C * (m + 1) = C * m + C
      BY <1>1, <1>6
    <3> QED BY <1>1, <1>2, <1>5, <1>6, <3>1
  <2>2. n < m + 1
    BY <1>1, <1>5, <1>6, <2>1, Cancel
  <2> QED BY <1>5, <1>6, <2>2
<1>8. C * (n - 1) = C * n - C
  BY <1>1, <1>5
<1> DEFINE p == C * n
<1>9. p \in Nat /\ p <= a /\ a < p + C
  BY <1>1, <1>5
<1> HIDE DEF p
<1>10. bits <= p /\ p <= bits + C - 1
  BY <1>1, <1>4, <1>9
<1>11. n # 0
  <2>1. n = 0 => p = 0
    BY <1>1 DEF p
  <2> QED BY <1>4, <1>10, <2>1
<1>12. p - C \in Nat
  <2>1. n - 1 \in Nat
    BY <1>5, <1>11
  <2>2. C * (n - 1) \in Nat
    BY <1>1, <2>1
  <2> QED BY <1>8, <2>2 DEF p
<1>13. bits - (p - C) \in 1 .. C /\ p <= 2 * CoeffBits
  BY <1>1, <1>4, <1>9, <1>10, <1>12
<1>14. NumChunks(bits) = n
  BY <1>3, <1>7
<1>15. C = ChunkBits
  BY DEF C
<1> QED BY <1>5, <1>8, <1>10, <1>11, <1>12, <1>13, <1>14, <1>15 DEF p

\* The numbers of X come up from zero by adding, step by step, the multiples
\* c[k] of those of C.
Builds(X, C, c, n, I) ==
    /\ \A i \in I : \A x \in Positions : X[0][i][x] = 0
    /\ \A k \in 0 .. n - 1 : c[k] \in Int /\ CombinesAll(X[k + 1], X[k], c[k], C[k], 0, I)

\* A product can be taken with the pieces instead.
LEMMA BuiltRight ==
    ASSUME NEW I, IsFiniteSet(I), NEW P, Integral(P, I), NEW n \in Nat, NEW X, NEW C, NEW c,
           Builds(X, C, c, n, I), NEW j \in Positions
    PROVE  /\ Total([k \in 0 .. n - 1 |-> c[k] * Convolved(P, C[k], I, j)], 0 .. n - 1)
                  = Convolved(P, X[n], I, j)
           /\ \A k \in 0 .. n - 1 : Convolved(P, C[k], I, j) \in Int
<1> DEFINE run == [k \in 0 .. n |-> Convolved(P, X[k], I, j)]
           f == [k \in 0 .. n - 1 |-> c[k] * Convolved(P, C[k], I, j)]
<1>1. Convolved(P, X[0], I, j) = 0
  <2>1. CombinesAll(X[0], X[0], 1, X[0], 0, I)
    <3>1. Combined(0, 0, 1, 0, 0)
      BY DEF Combined
    <3>2. \A i \in I : \A x \in Positions : X[0][i][x] = 0
      BY DEF Builds
    <3> QED BY <3>1, <3>2 DEF CombinesAll, Combines
  <2> DEFINE H == Convolved(P, X[0], I, j)
  <2>2. Combined(H, H, 1, H, 0)
    BY <2>1, ConvolvedRight
  <2> HIDE DEF H
  <2>3. H = 0
    BY <2>2 DEF Combined
  <2> QED BY <2>3 DEF H
<1>2. ASSUME NEW k \in 0 .. n - 1
      PROVE  /\ c[k] * Convolved(P, C[k], I, j) \in Int /\ Convolved(P, C[k], I, j) \in Int
             /\ Convolved(P, X[k + 1], I, j)
                    = c[k] * Convolved(P, C[k], I, j) + Convolved(P, X[k], I, j)
  <2>1. c[k] \in Int /\ CombinesAll(X[k + 1], X[k], c[k], C[k], 0, I)
    BY DEF Builds
  <2> DEFINE H == Convolved(P, X[k + 1], I, j)
             F == Convolved(P, X[k], I, j)
             G == Convolved(P, C[k], I, j)
             d == c[k]
  <2>2. Combined(H, F, d, G, 0)
    BY <2>1, ConvolvedRight
  <2>3. d \in Int
    BY <2>1
  <2> HIDE DEF H, F, G, d
  <2>4. d * G \in Int /\ G \in Int /\ H = d * G + F
    BY <2>2, <2>3 DEF Combined
  <2> QED BY <2>4 DEF H, F, G, d
<1>3. RunningSums(run, f, n)
  <2>1. run[0] = 0
    BY <1>1
  <2>2. ASSUME NEW k \in 0 .. n - 1
        PROVE  f[k] \in Int /\ run[k + 1] = f[k] + run[k]
    <3>1. k \in 0 .. n /\ k + 1 \in 0 .. n
      OBVIOUS
    <3>2. /\ f[k] = c[k] * Convolved(P, C[k], I, j) /\ run[k] = Convolved(P, X[k], I, j)
          /\ run[k + 1] = Convolved(P, X[k + 1], I, j)
      BY <3>1
    <3> QED BY <1>2, <3>2
  <2> QED BY <2>1, <2>2 DEF RunningSums
<1>4. run[n] = Convolved(P, X[n], I, j)
  OBVIOUS
<1> HIDE DEF run, f
<1>5. Total(f, 0 .. n - 1) = run[n]
  BY <1>3, SumUpTo
<1> QED BY <1>2, <1>4, <1>5 DEF f

LEMMA BuiltLeft ==
    ASSUME NEW I, IsFiniteSet(I), NEW P, Integral(P, I), NEW n \in Nat, NEW X, NEW C, NEW c,
           Builds(X, C, c, n, I), NEW j \in Positions
    PROVE  /\ Total([k \in 0 .. n - 1 |-> c[k] * Convolved(C[k], P, I, j)], 0 .. n - 1)
                  = Convolved(X[n], P, I, j)
           /\ \A k \in 0 .. n - 1 : Convolved(C[k], P, I, j) \in Int
<1> DEFINE run == [k \in 0 .. n |-> Convolved(X[k], P, I, j)]
           f == [k \in 0 .. n - 1 |-> c[k] * Convolved(C[k], P, I, j)]
<1>1. Convolved(X[0], P, I, j) = 0
  <2>1. CombinesAll(X[0], X[0], 1, X[0], 0, I)
    <3>1. Combined(0, 0, 1, 0, 0)
      BY DEF Combined
    <3>2. \A i \in I : \A x \in Positions : X[0][i][x] = 0
      BY DEF Builds
    <3> QED BY <3>1, <3>2 DEF CombinesAll, Combines
  <2> DEFINE H == Convolved(X[0], P, I, j)
  <2>2. Combined(H, H, 1, H, 0)
    BY <2>1, ConvolvedLeft
  <2> HIDE DEF H
  <2>3. H = 0
    BY <2>2 DEF Combined
  <2> QED BY <2>3 DEF H
<1>2. ASSUME NEW k \in 0 .. n - 1
      PROVE  /\ c[k] * Convolved(C[k], P, I, j) \in Int /\ Convolved(C[k], P, I, j) \in Int
             /\ Convolved(X[k + 1], P, I, j)
                    = c[k] * Convolved(C[k], P, I, j) + Convolved(X[k], P, I, j)
  <2>1. c[k] \in Int /\ CombinesAll(X[k + 1], X[k], c[k], C[k], 0, I)
    BY DEF Builds
  <2> DEFINE H == Convolved(X[k + 1], P, I, j)
             F == Convolved(X[k], P, I, j)
             G == Convolved(C[k], P, I, j)
             d == c[k]
  <2>2. Combined(H, F, d, G, 0)
    BY <2>1, ConvolvedLeft
  <2>3. d \in Int
    BY <2>1
  <2> HIDE DEF H, F, G, d
  <2>4. d * G \in Int /\ G \in Int /\ H = d * G + F
    BY <2>2, <2>3 DEF Combined
  <2> QED BY <2>4 DEF H, F, G, d
<1>3. RunningSums(run, f, n)
  <2>1. run[0] = 0
    BY <1>1
  <2>2. ASSUME NEW k \in 0 .. n - 1
        PROVE  f[k] \in Int /\ run[k + 1] = f[k] + run[k]
    <3>1. k \in 0 .. n /\ k + 1 \in 0 .. n
      OBVIOUS
    <3>2. /\ f[k] = c[k] * Convolved(C[k], P, I, j) /\ run[k] = Convolved(X[k], P, I, j)
          /\ run[k + 1] = Convolved(X[k + 1], P, I, j)
      BY <3>1
    <3> QED BY <1>2, <3>2
  <2> QED BY <2>1, <2>2 DEF RunningSums
<1>4. run[n] = Convolved(X[n], P, I, j)
  OBVIOUS
<1> HIDE DEF run, f
<1>5. Total(f, 0 .. n - 1) = run[n]
  BY <1>3, SumUpTo
<1> QED BY <1>2, <1>4, <1>5 DEF f

\* A sum of multiples, modulo M.
Scales(h, c, g, M, S) == \A x \in S : Combined(h[x], 0, c, g[x], M)

LEMMA Multiples ==
    ASSUME NEW S, IsFiniteSet(S), NEW h, NEW g, NEW c \in Int, NEW M \in Int,
           Scales(h, c, g, M, S)
    PROVE  Combined(Total(h, S), 0, c, Total(g, S), M)
<1> DEFINE z == [x \in S |-> 0]
           zeros == Total(z, S)
<1>1. \A x \in S : z[x] = 0
  OBVIOUS
<1> HIDE DEF z
<1>2. Combines(z, z, 1, z, 0, S)
  <2>1. Combined(0, 0, 1, 0, 0)
    BY DEF Combined
  <2> QED BY <1>1, <2>1 DEF Combines
<1>3. Combined(zeros, zeros, 1, zeros, 0)
  BY <1>2, CombinedTotals
<1> HIDE DEF zeros
<1>4. zeros = 0
  BY <1>3 DEF Combined
<1>5. Combines(h, z, c, g, M, S)
  BY <1>1 DEF Combines, Scales
<1>6. Combined(Total(h, S), zeros, c, Total(g, S), M)
  BY <1>5, CombinedTotals DEF zeros
<1> QED BY <1>4, <1>6

\* An operand of so many bits, and one that stands for signed numbers of them.
Operand(v, bits, I) == \A i \in I : \A x \in Positions : v[i][x] \in 0 .. 2 ^ bits - 1

SignedOperand(v, bits, I) ==
    \A i \in I : \A x \in Positions :
        \E d \in -(2 ^ (bits - 1)) .. 2 ^ (bits - 1) - 1 : v[i][x] = ToCoeff(d)

LeftOperand(v, bits, signed, I) ==
    IF signed THEN SignedOperand(v, bits, I) ELSE Operand(v, bits, I)

\* The low bits, the bits of the first n chunks.
Low(x, n) == x % 2 ^ (ChunkBits * n)

\* A chunk more.
LEMMA LowChunk ==
    ASSUME NEW x \in Nat, NEW n \in Nat, ChunkBits * n + ChunkBits <= 2 * CoeffBits
    PROVE  /\ Combined(Low(x, n + 1), Low(x, n), 2 ^ (ChunkBits * n), Chunk(x, n), 0)
           /\ 2 ^ (ChunkBits * n) \in Nat \ {0} /\ Low(x, 0) = 0
<1> DEFINE s == ChunkBits * n
<1>1. s \in Nat /\ ChunkBits \in Nat /\ s + ChunkBits <= 2 * CoeffBits
      /\ ChunkBits * (n + 1) = s + ChunkBits
  BY PolynomialsAssumption
<1> HIDE DEF s
<1> DEFINE A == 2 ^ s
           r == x % A
           l == (x \div A) % 2 ^ ChunkBits
           y == x % 2 ^ (s + ChunkBits)
<1>2. /\ y = r + A * l /\ r \in 0 .. A - 1 /\ l \in 0 .. 2 ^ ChunkBits - 1
      /\ A \in Nat \ {0} /\ 2 ^ ChunkBits \in Nat \ {0}
  <2>1. Splits(x, s, ChunkBits)
    BY <1>1, LowStep
  <2> QED BY <2>1 DEF Splits
<1>3. Low(x, n + 1) = y /\ Low(x, n) = r /\ Chunk(x, n) = l
  BY <1>1 DEF Low, Chunk, s
<1> HIDE DEF A, r, l, y
<1>4. r \in Int /\ l \in Int /\ A \in Int /\ A * l \in Int
  BY <1>2
<1>5. y \in Int /\ y = r + A * l + 0 * 0
  BY <1>2, <1>4
<1>6. Combined(y, r, A, l, 0)
  BY <1>4, <1>5 DEF Combined
<1>7. Low(x, 0) = 0
  <2>1. ChunkBits * 0 = 0 /\ 2 ^ 0 = 1
    BY PolynomialsAssumption, CoeffPowers DEF PowersUpTo
  <2>2. (x % 1) = 0
    OBVIOUS
  <2> QED BY <2>1, <2>2 DEF Low
<1> QED BY <1>2, <1>3, <1>6, <1>7 DEF A, s

\* What a number of at most so many bits is below.
LEMMA LowAll ==
    ASSUME NEW bits \in 1 .. CoeffBits, NEW x \in 0 .. 2 ^ bits - 1, NEW n \in Nat,
           bits <= ChunkBits * n, ChunkBits * n <= 2 * CoeffBits
    PROVE  Low(x, n) = x
<1> DEFINE s == ChunkBits * n
<1>1. s \in Nat /\ s <= 2 * CoeffBits /\ bits \in Nat /\ bits <= s
  BY PolynomialsAssumption
<1> HIDE DEF s
<1>2. 2 ^ s \in Nat \ {0} /\ 2 ^ bits <= 2 ^ s /\ 2 ^ bits \in Nat
  BY <1>1, SmallPower, PowerOrder, CoeffPowers
<1> DEFINE A == 2 ^ s
<1>3. A \in Nat \ {0} /\ x \in 0 .. A - 1
  BY <1>2
<1> HIDE DEF A
<1>4. (x % A) = x
  BY <1>3
<1> QED BY <1>4 DEF A, Low, s

\* The low bits of a signed operand and its last chunk, sign-extended, are the
\* number it stands for.
LEMMA SignedWhole ==
    ASSUME NEW bits \in 1 .. CoeffBits, NEW d \in -(2 ^ (bits - 1)) .. 2 ^ (bits - 1) - 1,
           NEW n \in Nat, bits - ChunkBits * n \in 1 .. ChunkBits
    PROVE  LET x == ToCoeff(d)
           IN  /\ x \in Nat
               /\ Signed(Chunk(x, n), bits - ChunkBits * n) \in Int
               /\ d = Low(x, n) + 2 ^ (ChunkBits * n) * Signed(Chunk(x, n), bits - ChunkBits * n)
               /\ Low(x, n) \in Int /\ 2 ^ (ChunkBits * n) \in Int
               /\ \E k \in Int : x = d + 2 ^ CoeffBits * k
<1> DEFINE s == ChunkBits * n
           w == bits - s
           x == ToCoeff(d)
<1>0. bits \in Nat \ {0} /\ CoeffBits \in Nat \ {0} /\ bits <= CoeffBits /\ ChunkBits \in Nat \ {0}
      /\ ChunkBits <= CoeffBits
  BY PolynomialsAssumption, ProductsAssumption
<1>1. s \in Nat /\ w \in 1 .. ChunkBits /\ s + w = bits /\ s + (w - 1) = bits - 1
  BY <1>0
<1> HIDE DEF s, w
<1>2. s <= CoeffBits /\ w <= CoeffBits /\ w - 1 <= 2 * CoeffBits
      /\ w \in Nat /\ w - 1 \in Nat /\ s <= 2 * CoeffBits
      /\ w <= 2 * CoeffBits /\ s + (w - 1) <= 2 * CoeffBits /\ s + w <= 2 * CoeffBits
      /\ s + ChunkBits <= 2 * CoeffBits
  BY <1>0, <1>1
<1> DEFINE A == 2 ^ s
           B == 2 ^ w
           B2 == 2 ^ (w - 1)
           all == 2 ^ bits
           half == 2 ^ (bits - 1)
           W == 2 ^ CoeffBits
<1>3. /\ A \in Nat \ {0} /\ B \in Nat \ {0} /\ B2 \in Nat \ {0} /\ B = 2 * B2
      /\ all = A * B /\ half = A * B2
  <2>1. A \in Nat \ {0} /\ B \in Nat \ {0} /\ B2 \in Nat \ {0}
    BY <1>1, <1>2, SmallPower
  <2>2. B = 2 * B2
    BY <1>1, <1>2, CoeffPowers DEF PowersUpTo
  <2>3. all = A * B
    BY <1>1, <1>2, CoeffPowers, PowerSum
  <2>4. half = A * B2
    BY <1>1, <1>2, CoeffPowers, PowerSum
  <2> QED BY <2>1, <2>2, <2>3, <2>4
<1>4. d \in Int /\ -half <= d /\ d < half
  <2>1. half \in Nat
    BY <1>3
  <2> HIDE DEF half
  <2>2. d \in -half .. half - 1
    BY DEF half
  <2> QED BY <2>1, <2>2
<1>5. /\ x \in Int /\ \E k \in Int : x = d + W * k
      /\ \E k \in Int : x = d + all * k
  <2>1. CoeffBits \in 1 .. CoeffBits
    BY <1>0
  <2> QED BY <1>4, <2>1, Wraps
<1>6. x \in Nat
  <2>1. W \in Nat \ {0}
    BY <1>0, SmallPower
  <2>2. x = d % W
    BY DEF ToCoeff
  <2> HIDE DEF W, x
  <2> QED BY <1>4, <2>1, <2>2, Division
<1>7. Signed(x % all, bits) = d
  <2>1. Signed(d % all, bits) = d
    <3>1. bits \in 1 .. 2 * CoeffBits
      BY <1>0
    <3> QED BY <1>4, <3>1, SignedBack
  <2>2. all \in Nat \ {0}
    BY <1>0, SmallPower
  <2>3. (x % all) = (d % all)
    <3>1. PICK k \in Int : x = d + all * k
      BY <1>5
    <3> HIDE DEF x, all
    <3> QED BY <1>4, <2>2, <3>1, SameResidue
  <2> QED BY <2>1, <2>3
<1> DEFINE r == x % A
           q == x \div A
           l == q % B
           c == q % 2 ^ ChunkBits
<1> HIDE DEF x, A, B, B2, all, half, W
<1>8. x % all = r + A * l /\ r \in 0 .. A - 1 /\ l \in 0 .. B - 1
  <2>1. Splits(x, s, w)
    BY <1>1, <1>2, <1>6, LowStep
  <2> QED BY <1>1, <2>1 DEF Splits, A, B, all, q
<1>9. q \in Nat
  <2>1. x \in Int /\ x >= 0
    BY <1>6
  <2> QED BY <1>3, <2>1, Division
<1>10. (c % B) = l
  <2> DEFINE D == 2 ^ ChunkBits
             e == q \div D
             R == 2 ^ (ChunkBits - w)
  <2>1. D \in Nat \ {0} /\ R \in Nat \ {0} /\ D = B * R
    <3>1. ChunkBits - w \in Nat /\ w + (ChunkBits - w) = ChunkBits /\ ChunkBits <= 2 * CoeffBits
          /\ ChunkBits - w <= 2 * CoeffBits /\ w \in Nat
      BY <1>0, <1>1
    <3>2. D \in Nat \ {0} /\ R \in Nat \ {0}
      BY <1>0, <3>1, SmallPower
    <3>3. 2 ^ (w + (ChunkBits - w)) = B * R
      BY <3>1, CoeffPowers, PowerSum DEF B
    <3> QED BY <3>1, <3>2, <3>3
  <2>2. q \in Int /\ q >= 0
    BY <1>9
  <2> HIDE DEF D, R, q
  <2>3. q = D * e + (q % D) /\ e \in Int /\ (q % D) \in 0 .. D - 1
    BY <2>1, <2>2, Division
  <2> HIDE DEF e
  <2>4. c = (q % D)
    BY DEF D
  <2> HIDE DEF c
  <2>5. q = c + B * (R * e) /\ R * e \in Int /\ c \in Int
    <3>1. (B * R) * e = B * (R * e) /\ R * e \in Int /\ B * (R * e) \in Int
      BY <1>3, <2>1, <2>3
    <3> QED BY <2>1, <2>3, <2>4, <3>1
  <2>6. ((c + B * (R * e)) % B) = (c % B)
    BY <1>3, <2>5, SameResidue
  <2>7. l = q % B
    OBVIOUS
  <2> QED BY <2>5, <2>6, <2>7
<1>11. Signed(c, w) = IF l >= B2 THEN l - B ELSE l
  BY <1>10 DEF Signed, B, B2
<1>12. Signed(x % all, bits) = IF x % all >= half THEN (x % all) - all ELSE x % all
  <2> DEFINE y == x % all
  <2>1. y \in Int /\ 0 <= y /\ y < all
    <3>1. all \in Nat \ {0}
      BY <1>0, SmallPower DEF all
    <3> HIDE DEF r, l
    <3>2. y \in 0 .. all - 1
      BY <1>6, <3>1, Division
    <3> QED BY <3>1, <3>2
  <2>2. Signed(y, bits) = IF y % all >= half THEN (y % all) - all ELSE y % all
    BY DEF Signed, all, half
  <2>3. all \in Nat \ {0}
    BY <1>0, SmallPower DEF all
  <2> HIDE DEF y
  <2>4. (y % all) = y
    BY <2>1, <2>3
  <2> QED BY <2>2, <2>4 DEF y
<1> DEFINE y == x % all
           m == Signed(c, w)
<1>13. y = r + A * l
  BY <1>8
<1>14. Signed(y, bits) = d /\ Signed(y, bits) = IF y >= half THEN y - all ELSE y
  BY <1>7, <1>12
<1> HIDE DEF y, r, l, c, m
<1>15. A * l \in Nat /\ r \in Nat /\ l \in Nat /\ A * B2 \in Nat
  BY <1>3, <1>8
<1>16. CASE l >= B2
  <2>1. m = l - B
    BY <1>11, <1>16 DEF m
  <2>2. A * l >= A * B2
    BY <1>3, <1>15, <1>16
  <2>3. y >= half
    BY <1>3, <1>13, <1>15, <2>2
  <2>4. d = r + A * l - A * B
    <3>1. d = y - all
      BY <1>14, <2>3
    <3> QED BY <1>3, <1>13, <1>15, <3>1
  <2>5. A * (l - B) = A * l - A * B /\ m \in Int
    BY <1>3, <1>15, <2>1
  <2>6. A * B \in Int
    BY <1>3
  <2>7. d = r + A * m /\ m \in Int
    BY <1>15, <2>1, <2>4, <2>5, <2>6
  <2> QED BY <1>3, <1>5, <1>6, <1>15, <2>7 DEF r, m, c, q, x, A, s, w, W, Low, Chunk
<1>17. CASE ~(l >= B2)
  <2>1. m = l
    BY <1>11, <1>17 DEF m
  <2>2. A * (l + 1) <= A * B2
    BY <1>3, <1>15, <1>17
  <2>3. A * (l + 1) = A * l + A
    BY <1>3, <1>15
  <2>4. y < half
    BY <1>3, <1>8, <1>13, <1>15, <2>2, <2>3
  <2>5. d = r + A * m /\ m \in Int
    BY <1>3, <1>13, <1>14, <1>15, <2>1, <2>4
  <2> QED BY <1>3, <1>5, <1>6, <1>15, <2>5 DEF r, m, c, q, x, A, s, w, W, Low, Chunk
<1> QED BY <1>16, <1>17

\* The pieces of the right operand.
Chunks(v, I) == [k \in Nat |-> [i \in I |-> [x \in Positions |-> Chunk(v[i][x], k)]]]

Lows(v, I) == [k \in Nat |-> [i \in I |-> [x \in Positions |-> Low(v[i][x], k)]]]

Weights == [k \in Nat |-> 2 ^ (ChunkBits * k)]

\* Every number of chunks that a coefficient may need.
LEMMA LowsBuild ==
    ASSUME NEW I, NEW v, NEW n \in Nat, ChunkBits * n <= 2 * CoeffBits,
           \A i \in I : \A x \in Positions : v[i][x] \in Nat
    PROVE  Builds(Lows(v, I), Chunks(v, I), Weights, n, I)
<1> DEFINE X == Lows(v, I)
           C == Chunks(v, I)
<1>1. ASSUME NEW k \in Nat, NEW i \in I, NEW x \in Positions
      PROVE  X[k][i][x] = Low(v[i][x], k) /\ C[k][i][x] = Chunk(v[i][x], k)
  BY DEF Lows, Chunks
<1>2. \A k \in Nat : Weights[k] = 2 ^ (ChunkBits * k)
  BY DEF Weights
<1> HIDE DEF X, C
<1>3. ASSUME NEW i \in I, NEW x \in Positions
      PROVE  X[0][i][x] = 0
  <2>1. ChunkBits * 0 + ChunkBits <= 2 * CoeffBits /\ 0 \in Nat
    BY PolynomialsAssumption, ProductsAssumption
  <2>2. v[i][x] \in Nat
    OBVIOUS
  <2>3. Low(v[i][x], 0) = 0
    BY <2>1, <2>2, LowChunk
  <2> QED BY <1>1, <2>3
<1>4. ASSUME NEW k \in 0 .. n - 1
      PROVE  Weights[k] \in Int /\ CombinesAll(X[k + 1], X[k], Weights[k], C[k], 0, I)
  <2>1. k \in Nat /\ k + 1 \in Nat
    OBVIOUS
  <2>2. ChunkBits * k + ChunkBits <= 2 * CoeffBits
    <3>1. ChunkBits * (k + 1) <= ChunkBits * n
      BY PolynomialsAssumption
    <3>2. ChunkBits * (k + 1) = ChunkBits * k + ChunkBits /\ ChunkBits * k \in Nat
      BY PolynomialsAssumption
    <3>3. ChunkBits * n \in Nat /\ ChunkBits \in Nat /\ CoeffBits \in Nat
      BY PolynomialsAssumption
    <3> QED BY <3>1, <3>2, <3>3
  <2>3. ASSUME NEW i \in I, NEW x \in Positions
        PROVE  Combined(X[k + 1][i][x], X[k][i][x], Weights[k], C[k][i][x], 0)
    <3>1. v[i][x] \in Nat
      OBVIOUS
    <3>2. Combined(Low(v[i][x], k + 1), Low(v[i][x], k), 2 ^ (ChunkBits * k),
                   Chunk(v[i][x], k), 0)
      BY <2>1, <2>2, <3>1, LowChunk
    <3> QED BY <1>1, <1>2, <2>1, <3>2
  <2>4. Weights[k] \in Int
    <3>1. Degree \in Nat \ {0} /\ 0 \in Nat
      BY PolynomialsAssumption
    <3>2. 2 ^ (ChunkBits * k) \in Nat \ {0}
      BY <2>1, <2>2, LowChunk, <3>1
    <3> QED BY <1>2, <2>1, <3>2
  <2> QED BY <2>3, <2>4 DEF CombinesAll, Combines
<1> QED BY <1>3, <1>4 DEF Builds, X, C

\* The product with the right operand is that with its chunks.
LEMMA RightChunks ==
    ASSUME NEW I, IsFiniteSet(I), NEW P, Integral(P, I), NEW bits \in 1 .. CoeffBits, NEW v,
           Operand(v, bits, I), NEW j \in Positions
    PROVE  LET n == NumChunks(bits)
           IN  /\ Total([k \in 0 .. n - 1 |-> Weights[k] * Convolved(P, Chunks(v, I)[k], I, j)],
                        0 .. n - 1) = Convolved(P, v, I, j)
               /\ \A k \in 0 .. n - 1 : Convolved(P, Chunks(v, I)[k], I, j) \in Int
<1> DEFINE n == NumChunks(bits)
           X == Lows(v, I)
<1>1. n \in Nat /\ bits <= ChunkBits * n /\ ChunkBits * n <= 2 * CoeffBits
  BY ChunksOf
<1>2. ASSUME NEW i \in I, NEW x \in Positions
      PROVE  v[i][x] \in Nat /\ v[i][x] \in 0 .. 2 ^ bits - 1
  BY DEF Operand
<1> HIDE DEF n
<1>3. Builds(X, Chunks(v, I), Weights, n, I)
  BY <1>1, <1>2, LowsBuild
<1>4. ASSUME NEW i \in I, NEW x \in Positions
      PROVE  Combined(v[i][x], X[n][i][x], 0, X[n][i][x], 0)
  <2>1. X[n][i][x] = Low(v[i][x], n)
    BY <1>1 DEF Lows
  <2>2. Low(v[i][x], n) = v[i][x] /\ v[i][x] \in Int
    BY <1>1, <1>2, LowAll
  <2>3. ASSUME NEW y \in Int
        PROVE  Combined(y, y, 0, y, 0)
    <3>1. y = y + 0 * y + 0 * 0
      OBVIOUS
    <3> QED BY <3>1 DEF Combined
  <2> QED BY <2>1, <2>2, <2>3
<1> HIDE DEF X
<1>5. CombinesAll(v, X[n], 0, X[n], 0, I)
  BY <1>4 DEF CombinesAll, Combines
<1> DEFINE V == Convolved(P, v, I, j)
           Y == Convolved(P, X[n], I, j)
<1>6. Combined(V, Y, 0, Y, 0)
  BY <1>5, ConvolvedRight
<1> HIDE DEF V, Y
<1>7. V = Y
  BY <1>6 DEF Combined
<1>8. /\ Total([k \in 0 .. n - 1 |-> Weights[k] * Convolved(P, Chunks(v, I)[k], I, j)],
               0 .. n - 1) = Convolved(P, X[n], I, j)
      /\ \A k \in 0 .. n - 1 : Convolved(P, Chunks(v, I)[k], I, j) \in Int
  BY <1>1, <1>3, BuiltRight
<1> QED BY <1>7, <1>8 DEF V, Y, n

\* The pieces of the left operand, the last one with its sign.
LeftChunks(u, bits, signed, I) ==
    [k \in Nat |-> [i \in I |-> [x \in Positions |-> SignedChunk(u[i][x], k, bits, signed)]]]

\* The product with the left operand is that with its chunks, as far as a
\* coefficient shows.
LeftSum(u, P, bits, signed, I, j) ==
    LET n == NumChunks(bits)
    IN  Total([k \in 0 .. n - 1 |->
                  Weights[k] * Convolved(LeftChunks(u, bits, signed, I)[k], P, I, j)], 0 .. n - 1)

LeftTerms(u, P, bits, signed, I, j) ==
    \A k \in 0 .. NumChunks(bits) - 1 :
        Convolved(LeftChunks(u, bits, signed, I)[k], P, I, j) \in Int

LEMMA UnsignedLeft ==
    ASSUME NEW I, IsFiniteSet(I), NEW P, Integral(P, I), NEW bits \in 1 .. CoeffBits, NEW u,
           Operand(u, bits, I), NEW j \in Positions
    PROVE  /\ Combined(Convolved(u, P, I, j), LeftSum(u, P, bits, FALSE, I, j), 0, 0,
                       2 ^ CoeffBits)
           /\ LeftTerms(u, P, bits, FALSE, I, j)
<1> DEFINE n == NumChunks(bits)
           X == Lows(u, I)
           C == LeftChunks(u, bits, FALSE, I)
<1>1. n \in Nat /\ bits <= ChunkBits * n /\ ChunkBits * n <= 2 * CoeffBits
  BY ChunksOf
<1>2. ASSUME NEW i \in I, NEW x \in Positions
      PROVE  u[i][x] \in Nat /\ u[i][x] \in 0 .. 2 ^ bits - 1
  BY DEF Operand
<1>3. C = Chunks(u, I)
  BY DEF LeftChunks, Chunks, SignedChunk
<1> HIDE DEF n, C
<1>4. Builds(X, C, Weights, n, I)
  BY <1>1, <1>2, <1>3, LowsBuild
<1>5. ASSUME NEW i \in I, NEW x \in Positions
      PROVE  Combined(u[i][x], X[n][i][x], 0, X[n][i][x], 0)
  <2>1. X[n][i][x] = Low(u[i][x], n)
    BY <1>1 DEF Lows
  <2>2. Low(u[i][x], n) = u[i][x] /\ u[i][x] \in Int
    BY <1>1, <1>2, LowAll
  <2>3. ASSUME NEW y \in Int
        PROVE  Combined(y, y, 0, y, 0)
    <3>1. y = y + 0 * y + 0 * 0
      OBVIOUS
    <3> QED BY <3>1 DEF Combined
  <2> QED BY <2>1, <2>2, <2>3
<1> HIDE DEF X
<1>6. CombinesAll(u, X[n], 0, X[n], 0, I)
  BY <1>5 DEF CombinesAll, Combines
<1> DEFINE U == Convolved(u, P, I, j)
           Y == Convolved(X[n], P, I, j)
           S == Total([k \in 0 .. n - 1 |-> Weights[k] * Convolved(C[k], P, I, j)], 0 .. n - 1)
<1>7. Combined(U, Y, 0, Y, 0)
  BY <1>6, ConvolvedLeft
<1>8. S = Y /\ \A k \in 0 .. n - 1 : Convolved(C[k], P, I, j) \in Int
  BY <1>1, <1>4, BuiltLeft
<1>9. S = LeftSum(u, P, bits, FALSE, I, j)
  BY DEF LeftSum, n, C
<1> HIDE DEF U, Y, S
<1>10. Combined(U, S, 0, 0, 2 ^ CoeffBits)
  <2> DEFINE W == 2 ^ CoeffBits
  <2>1. W \in Int
    BY PolynomialsAssumption, SmallPower
  <2> HIDE DEF W
  <2>2. U = Y /\ U \in Int
    BY <1>7 DEF Combined
  <2>3. U = S + 0 * 0 + W * 0
    BY <1>8, <2>1, <2>2
  <2>4. Combined(U, S, 0, 0, W)
    BY <1>8, <2>2, <2>3 DEF Combined
  <2> QED BY <2>4 DEF W
<1> QED BY <1>8, <1>9, <1>10 DEF LeftTerms, U, n, C

LEMMA SignedLeft ==
    ASSUME NEW I, IsFiniteSet(I), NEW P, Integral(P, I), NEW bits \in 1 .. CoeffBits, NEW u,
           SignedOperand(u, bits, I), NEW j \in Positions
    PROVE  /\ Combined(Convolved(u, P, I, j), LeftSum(u, P, bits, TRUE, I, j), 0, 0,
                       2 ^ CoeffBits)
           /\ LeftTerms(u, P, bits, TRUE, I, j)
<1> DEFINE n == NumChunks(bits)
           e == n - 1
           last == [i \in I |-> [x \in Positions |->
                       Low(u[i][x], e)
                       + 2 ^ (ChunkBits * e) * Signed(Chunk(u[i][x], e), bits - ChunkBits * e)]]
           X == [k \in Nat |-> IF k = n THEN last ELSE Lows(u, I)[k]]
           C == LeftChunks(u, bits, TRUE, I)
           W == 2 ^ CoeffBits
<1>1. /\ n \in Nat \ {0} /\ e \in Nat /\ ChunkBits * e \in Nat
      /\ bits - ChunkBits * e \in 1 .. ChunkBits /\ ChunkBits * n <= 2 * CoeffBits
      /\ ChunkBits * e <= 2 * CoeffBits
  <2>1. /\ n \in Nat \ {0} /\ ChunkBits * e \in Nat
        /\ bits - ChunkBits * e \in 1 .. ChunkBits /\ ChunkBits * n <= 2 * CoeffBits
    BY ChunksOf
  <2>2. ChunkBits * e <= 2 * CoeffBits
    BY <2>1, PolynomialsAssumption, ProductsAssumption
  <2> QED BY <2>1, <2>2
<1>2. ASSUME NEW i \in I, NEW x \in Positions
      PROVE  /\ u[i][x] \in Nat
             /\ Combined(last[i][x], Low(u[i][x], e), 2 ^ (ChunkBits * e),
                         Signed(Chunk(u[i][x], e), bits - ChunkBits * e), 0)
             /\ Combined(u[i][x], last[i][x], 0, last[i][x], W)
             /\ 2 ^ (ChunkBits * e) \in Int
  <2>1. PICK d \in -(2 ^ (bits - 1)) .. 2 ^ (bits - 1) - 1 : u[i][x] = ToCoeff(d)
    BY DEF SignedOperand
  <2> DEFINE v == u[i][x]
             A == 2 ^ (ChunkBits * e)
             s == Signed(Chunk(v, e), bits - ChunkBits * e)
             l == Low(v, e)
  <2>2. last[i][x] = l + A * s
    OBVIOUS
  <2> HIDE DEF n, e, last
  <2>3. /\ v \in Nat /\ s \in Int /\ d = l + A * s /\ l \in Int /\ A \in Int
        /\ \E k \in Int : v = d + W * k
    BY <1>1, <2>1, SignedWhole
  <2>4. d \in Int
    <3>1. A * s \in Int
      BY <2>3
    <3> QED BY <2>3, <3>1
  <2>5. W \in Int
    BY PolynomialsAssumption, SmallPower
  <2> HIDE DEF v, s, l, A, W
  <2>6. Combined(d, l, A, s, 0)
    <3>1. A * s \in Int /\ d = l + A * s + 0 * 0
      BY <2>3
    <3> QED BY <2>3, <2>4, <3>1 DEF Combined
  <2>7. Combined(v, d, 0, d, W)
    <3>1. PICK k \in Int : v = d + W * k
      BY <2>3
    <3>2. v = d + 0 * d + W * k
      BY <2>4, <2>5, <3>1
    <3> QED BY <2>3, <2>4, <3>2 DEF Combined
  <2>8. last[i][x] = d
    BY <2>2, <2>3
  <2> QED BY <2>3, <2>6, <2>7, <2>8 DEF v, s, l, A
<1>3. ASSUME NEW k \in Nat, NEW i \in I, NEW x \in Positions
      PROVE  /\ k = e => C[k][i][x] = Signed(Chunk(u[i][x], k), bits - ChunkBits * k)
             /\ k # e => C[k][i][x] = Chunks(u, I)[k][i][x]
  BY DEF LeftChunks, Chunks, SignedChunk
<1>4. ASSUME NEW k \in Nat
      PROVE  /\ k = n => X[k] = last
             /\ k # n => X[k] = Lows(u, I)[k]
  OBVIOUS
<1>5. Builds(Lows(u, I), Chunks(u, I), Weights, e, I)
  BY <1>1, <1>2, LowsBuild
<1>6. Lows(u, I)[e] = [i \in I |-> [x \in Positions |-> Low(u[i][x], e)]]
  BY <1>1 DEF Lows
<1>7. e + 1 = n /\ e # n /\ \A k \in 0 .. n - 1 : k \in Nat /\ (k # e => k \in 0 .. e - 1)
                                                /\ k # n /\ (k # e => k + 1 # n)
  BY <1>1
<1>8. n # 0
  BY <1>1
<1>9. Weights[e] = 2 ^ (ChunkBits * e)
  BY <1>1 DEF Weights
<1> HIDE DEF n, e, last, X, C
<1>10. Builds(X, C, Weights, n, I)
  <2>1. ASSUME NEW i \in I, NEW x \in Positions
        PROVE  X[0][i][x] = 0
    <3>1. X[0] = Lows(u, I)[0]
      BY <1>4, <1>8
    <3> QED BY <1>5, <3>1 DEF Builds
  <2>2. ASSUME NEW k \in 0 .. n - 1, k # e
        PROVE  Weights[k] \in Int /\ CombinesAll(X[k + 1], X[k], Weights[k], C[k], 0, I)
    <3>1. k \in Nat /\ k \in 0 .. e - 1 /\ k + 1 \in Nat /\ k # n /\ k + 1 # n
      BY <1>7, <2>2
    <3>2. /\ Weights[k] \in Int
          /\ CombinesAll(Lows(u, I)[k + 1], Lows(u, I)[k], Weights[k], Chunks(u, I)[k], 0, I)
      BY <1>5, <3>1 DEF Builds
    <3>3. X[k] = Lows(u, I)[k] /\ X[k + 1] = Lows(u, I)[k + 1]
      BY <1>4, <3>1
    <3>4. \A i \in I : \A x \in Positions : C[k][i][x] = Chunks(u, I)[k][i][x]
      BY <1>3, <2>2, <3>1
    <3> QED BY <3>2, <3>3, <3>4 DEF CombinesAll, Combines
  <2>3. Weights[e] \in Int /\ CombinesAll(X[e + 1], X[e], Weights[e], C[e], 0, I)
    <3>1. X[e + 1] = last /\ X[e] = Lows(u, I)[e]
      BY <1>1, <1>4, <1>7
    <3>2. ASSUME NEW i \in I, NEW x \in Positions
          PROVE  Combined(X[e + 1][i][x], X[e][i][x], Weights[e], C[e][i][x], 0)
      <4>1. C[e][i][x] = Signed(Chunk(u[i][x], e), bits - ChunkBits * e)
        BY <1>1, <1>3
      <4>2. X[e][i][x] = Low(u[i][x], e)
        BY <1>6, <3>1
      <4> QED BY <1>2, <1>9, <3>1, <4>1, <4>2
    <3>3. Combined(0, 0, 1, 0, 0)
      BY DEF Combined
    <3>4. Weights[e] \in Int
      BY <1>1, <1>9, SmallPower
    <3> QED BY <3>2, <3>4 DEF CombinesAll, Combines
  <2>4. \A k \in 0 .. n - 1 :
            Weights[k] \in Int /\ CombinesAll(X[k + 1], X[k], Weights[k], C[k], 0, I)
    BY <2>2, <2>3
  <2> QED BY <2>1, <2>4 DEF Builds
<1>11. CombinesAll(u, X[n], 0, X[n], W, I)
  <2>1. X[n] = last
    BY <1>1, <1>4
  <2> QED BY <1>2, <2>1 DEF CombinesAll, Combines
<1>12. W \in Int
  BY PolynomialsAssumption, SmallPower
<1> DEFINE U == Convolved(u, P, I, j)
           Y == Convolved(X[n], P, I, j)
           S == Total([k \in 0 .. n - 1 |-> Weights[k] * Convolved(C[k], P, I, j)], 0 .. n - 1)
<1> HIDE DEF W
<1>13. Combined(U, Y, 0, Y, W)
  BY <1>11, <1>12, ConvolvedLeft
<1>14. S = Y /\ \A k \in 0 .. n - 1 : Convolved(C[k], P, I, j) \in Int
  BY <1>1, <1>10, BuiltLeft
<1>15. S = LeftSum(u, P, bits, TRUE, I, j)
  BY DEF LeftSum, n, C
<1> HIDE DEF U, Y, S
<1>16. Combined(U, S, 0, 0, W)
  <2>1. PICK k \in Int : U = Y + 0 * Y + W * k
    BY <1>13 DEF Combined
  <2>2. U \in Int /\ Y \in Int
    BY <1>13 DEF Combined
  <2>3. U = S + 0 * 0 + W * k
    BY <1>12, <1>14, <2>1, <2>2
  <2> QED BY <1>14, <2>2, <2>3 DEF Combined
<1> QED BY <1>14, <1>15, <1>16 DEF LeftTerms, U, n, C, W

\* A left shift multiplies, as far as a coefficient shows.
LEMMA ShiftLeftIs ==
    ASSUME NEW x \in Int, NEW s \in Nat, s < CoeffBits
    PROVE  Combined(ShiftLeft(x, s), 0, 2 ^ s, x, 2 ^ CoeffBits)
<1> DEFINE A == 2 ^ s
           B == 2 ^ (CoeffBits - s)
           W == 2 ^ CoeffBits
           q == x \div B
           r == x % B
<1>1. A \in Nat \ {0} /\ B \in Nat \ {0} /\ W = A * B
  <2>1. /\ s <= 2 * CoeffBits /\ CoeffBits - s \in Nat /\ CoeffBits - s <= 2 * CoeffBits
        /\ s + (CoeffBits - s) = CoeffBits /\ CoeffBits <= 2 * CoeffBits
    BY PolynomialsAssumption
  <2>2. A \in Nat \ {0} /\ B \in Nat \ {0}
    BY <2>1, SmallPower
  <2>3. 2 ^ (s + (CoeffBits - s)) = A * B
    BY <2>1, CoeffPowers, PowerSum
  <2> QED BY <2>1, <2>2, <2>3
<1>2. ShiftLeft(x, s) = r * A
  BY PolynomialsAssumption DEF ShiftLeft
<1> HIDE DEF A, B, W
<1>3. q \in Int /\ r \in Int /\ x = B * q + r
  BY <1>1, Division
<1> HIDE DEF q, r
<1>4. r * A = 0 + A * x + W * (-q)
  <2>1. A * (B * q + r) = (A * B) * q + r * A /\ (A * B) * (-q) = -((A * B) * q)
    BY <1>1, <1>3
  <2>2. (A * B) * q \in Int /\ r * A \in Int /\ A * B \in Int
    BY <1>1, <1>3
  <2> QED BY <1>1, <1>3, <2>1, <2>2
<1>5. r * A \in Int /\ -q \in Int /\ 0 \in Int
  BY <1>1, <1>3
<1>6. Combined(r * A, 0, A, x, W)
  BY <1>4, <1>5 DEF Combined
<1> QED BY <1>2, <1>6 DEF A, W

\* The product of a pair of chunks at its place, or nothing where it would be
\* past the width of a coefficient, which is where it shows nothing.
PairAt(x, a, b) == IF LeftOut(a, b) THEN 0 ELSE ShiftLeft(x, ChunkBits * (a + b))

LEMMA PairIs ==
    ASSUME NEW x \in Int, NEW a \in Nat, NEW b \in Nat,
           ChunkBits * a <= CoeffBits, ChunkBits * b <= CoeffBits
    PROVE  Combined(PairAt(x, a, b), 0, Weights[a], Weights[b] * x, 2 ^ CoeffBits)
<1> DEFINE s == ChunkBits * a
           t == ChunkBits * b
           A == 2 ^ s
           B == 2 ^ t
           W == 2 ^ CoeffBits
<1>1. /\ s \in Nat /\ t \in Nat /\ s <= CoeffBits /\ t <= CoeffBits /\ ChunkBits * (a + b) = s + t
      /\ CoeffBits \in Nat \ {0}
  BY PolynomialsAssumption
<1>2. Weights[a] = A /\ Weights[b] = B
  BY DEF Weights
<1> HIDE DEF s, t
<1>3. A \in Nat \ {0} /\ B \in Nat \ {0} /\ W \in Nat \ {0}
  <2>1. s <= 2 * CoeffBits /\ t <= 2 * CoeffBits /\ CoeffBits <= 2 * CoeffBits
    BY <1>1
  <2> QED BY <1>1, <2>1, SmallPower
<1>4. 2 ^ (s + t) = A * B
  <2>1. s + t <= 2 * CoeffBits
    BY <1>1
  <2> QED BY <1>1, <2>1, CoeffPowers, PowerSum
<1>5. A * (B * x) = (A * B) * x /\ B * x \in Int /\ (A * B) * x \in Int
  BY <1>3
<1>6. CASE LeftOut(a, b)
  <2>1. s + t >= CoeffBits
    BY <1>1, <1>6 DEF LeftOut
  <2> DEFINE R == 2 ^ (s + t - CoeffBits)
  <2>2. R \in Nat \ {0} /\ A * B = W * R
    <3>1. /\ s + t - CoeffBits \in Nat /\ s + t - CoeffBits <= 2 * CoeffBits
          /\ CoeffBits + (s + t - CoeffBits) = s + t /\ s + t <= 2 * CoeffBits
      BY <1>1, <2>1
    <3>2. R \in Nat \ {0}
      BY <3>1, SmallPower
    <3>3. 2 ^ (CoeffBits + (s + t - CoeffBits)) = W * R
      BY <1>1, <3>1, CoeffPowers, PowerSum
    <3> QED BY <1>4, <3>1, <3>2, <3>3
  <2> HIDE DEF A, B, R, W
  <2>3. (A * B) * x + W * (-(R * x)) = 0 /\ -(R * x) \in Int
    <3>1. (W * R) * x = W * (R * x) /\ R * x \in Int
      BY <1>3, <2>2
    <3>2. W * (-(R * x)) = -(W * (R * x)) /\ W * (R * x) \in Int
      BY <1>3, <3>1
    <3> QED BY <2>2, <3>1, <3>2
  <2>4. 0 = 0 + A * (B * x) + W * (-(R * x))
    BY <1>5, <2>3
  <2>5. Combined(0, 0, A, B * x, W)
    BY <1>5, <2>3, <2>4 DEF Combined
  <2>6. PairAt(x, a, b) = 0
    BY <1>6 DEF PairAt
  <2> QED BY <1>2, <2>5, <2>6 DEF W
<1>7. CASE ~LeftOut(a, b)
  <2>1. s + t < CoeffBits /\ s + t \in Nat
    BY <1>1, <1>7 DEF LeftOut
  <2>2. PairAt(x, a, b) = ShiftLeft(x, s + t)
    BY <1>1, <1>7 DEF PairAt
  <2>3. Combined(ShiftLeft(x, s + t), 0, A * B, x, W)
    <3>1. Combined(ShiftLeft(x, s + t), 0, 2 ^ (s + t), x, W)
      BY <2>1, ShiftLeftIs
    <3> QED BY <1>4, <3>1
  <2> DEFINE H == ShiftLeft(x, s + t)
  <2> HIDE DEF A, B, W, H
  <2>4. H \in Int /\ 0 \in Int
    BY <2>3 DEF Combined, H
  <2>5. PICK k \in Int : H = 0 + (A * B) * x + W * k
    BY <2>3 DEF Combined, H
  <2>6. H = 0 + A * (B * x) + W * k
    BY <1>5, <2>5
  <2>7. Combined(H, 0, A, B * x, W)
    BY <1>5, <2>4, <2>6 DEF Combined
  <2> QED BY <1>2, <2>2, <2>7 DEF H, W
<1> QED BY <1>6, <1>7

\* The products of chunk a of the left operand with those of the right one.
RowTerms(L, R, I, j, a, m) == [b \in 0 .. m - 1 |-> PairAt(Convolved(L[a], R[b], I, j), a, b)]

RowSums(L, R, I, j, n, m) ==
    [a \in 0 .. n - 1 |-> Total(RowTerms(L, R, I, j, a, m), 0 .. m - 1)]

\* Cutting into chunks, entry by entry.
AreChunks(h, u, bits, signed) ==
    /\ DOMAIN h = 0 .. NumChunks(bits) - 1
    /\ \A a \in 0 .. NumChunks(bits) - 1 :
           h[a] = [i \in DOMAIN u |->
                      [x \in Positions |-> SignedChunk(u[i][x], a, bits, signed)]]

LEMMA InChunksIs ==
    ASSUME NEW u, NEW bits, NEW signed
    PROVE  AreChunks(InChunks(u, bits, signed), u, bits, signed)
<1> DEFINE n == NumChunks(bits)
           h == [k \in 0 .. n - 1 |-> Tabulated([i \in DOMAIN u |->
                    Poly(LAMBDA x : SignedChunk(u[i][x], k, bits, signed))])]
<1>1. InChunks(u, bits, signed) = h
  BY TabulatedIs, Zenon DEF InChunks, Vector
<1>2. DOMAIN h = 0 .. n - 1
  BY Zenon
<1>3. ASSUME NEW a \in 0 .. n - 1
      PROVE  h[a] = [i \in DOMAIN u |->
                        [x \in Positions |-> SignedChunk(u[i][x], a, bits, signed)]]
  <2>1. h[a] = Tabulated([i \in DOMAIN u |->
                   Poly(LAMBDA x : SignedChunk(u[i][x], a, bits, signed))])
    BY Zenon
  <2>2. h[a] = [i \in DOMAIN u |-> Poly(LAMBDA x : SignedChunk(u[i][x], a, bits, signed))]
    BY <2>1, TabulatedIs, Zenon
  <2>3. ASSUME NEW i \in DOMAIN u
        PROVE  Poly(LAMBDA x : SignedChunk(u[i][x], a, bits, signed))
                   = [x \in Positions |-> SignedChunk(u[i][x], a, bits, signed)]
    BY TabulatedIs, Zenon DEF Poly
  <2> HIDE DEF h
  <2> QED BY <2>2, <2>3, Zenon
<1> HIDE DEF h
<1> QED BY <1>1, <1>2, <1>3, Zenon DEF AreChunks

LEMMA InnerProductAt ==
    ASSUME NEW u, NEW v, DOMAIN v = DOMAIN u, NEW uBits, NEW vBits, NEW signed,
           NEW j \in Positions
    PROVE  InnerProductFft(u, v, uBits, vBits, signed)[j]
               = ToCoeff(Total(RowSums(LeftChunks(u, uBits, signed, DOMAIN u),
                                       Chunks(v, DOMAIN u), DOMAIN u, j,
                                       NumChunks(uBits), NumChunks(vBits)),
                               0 .. NumChunks(uBits) - 1))
<1> DEFINE I == DOMAIN u
           n == NumChunks(uBits)
           m == NumChunks(vBits)
           L == LeftChunks(u, uBits, signed, I)
           R == Chunks(v, I)
           left == InChunks(u, uBits, signed)
           no == FALSE
           right == InChunks(v, vBits, no)
           g == [y \in Positions |->
                    ToCoeff(SumFunctionOnSet([a \in DOMAIN left |-> RowSumAt(left, right, a, y)],
                                             DOMAIN left))]
<1>1. InnerProductFft(u, v, uBits, vBits, signed) = g
  BY TabulatedIs, Zenon DEF InnerProductFft, SumOfPairs, Poly
<1> HIDE DEF no
<1>2. AreChunks(left, u, uBits, signed) /\ AreChunks(right, v, vBits, no)
  BY InChunksIs
<1>3. DOMAIN left = 0 .. n - 1 /\ DOMAIN right = 0 .. m - 1
  BY <1>2, Zenon DEF AreChunks
<1>4. g[j] = ToCoeff(SumFunctionOnSet([a \in DOMAIN left |-> RowSumAt(left, right, a, j)],
                                      DOMAIN left))
  BY Zenon
<1>5. ASSUME NEW a \in 0 .. n - 1
      PROVE  left[a] = L[a] /\ DOMAIN left[a] = I
  <2>1. a \in Nat
    OBVIOUS
  <2>2. L[a] = [i \in I |-> [x \in Positions |-> SignedChunk(u[i][x], a, uBits, signed)]]
    BY <2>1, Zenon DEF LeftChunks
  <2> HIDE DEF left, L
  <2> QED BY <1>2, <2>2, Zenon DEF AreChunks
<1>6. ASSUME NEW b \in 0 .. m - 1
      PROVE  right[b] = R[b]
  <2>1. b \in Nat
    OBVIOUS
  <2>2. R[b] = [i \in I |-> [x \in Positions |-> Chunk(v[i][x], b)]]
    BY <2>1, Zenon DEF Chunks
  <2>3. \A i \in I : \A x \in Positions :
            SignedChunk(v[i][x], b, vBits, no) = Chunk(v[i][x], b)
    BY Zenon DEF SignedChunk, no
  <2> HIDE DEF right, R, n, m, left, L
  <2>4. right[b] = [i \in I |-> [x \in Positions |-> SignedChunk(v[i][x], b, vBits, no)]]
    BY <1>2, m = NumChunks(vBits), Zenon DEF AreChunks, m
  <2> QED BY <2>2, <2>3, <2>4, Zenon
<1> HIDE DEF left, right, L, R, g
<1>7. ASSUME NEW a \in 0 .. n - 1, NEW b \in 0 .. m - 1
      PROVE  ShiftedAt(left, right, a, b, j) = PairAt(Convolved(L[a], R[b], I, j), a, b)
  <2>1. ConvolutionAt(left[a], right[b], j)
            = SumFunctionOnSet(ConvolutionTerms(L[a], R[b], I, j), I)
    BY <1>5, <1>6, Zenon DEF ConvolutionTerms, ConvolutionAt
  <2>2. ConvolutionAt(left[a], right[b], j) = Convolved(L[a], R[b], I, j)
    BY <2>1, SumsOver DEF Convolved
  <2> QED BY <2>2 DEF PairAt, ShiftedAt
<1>8. ASSUME NEW a \in 0 .. n - 1
      PROVE  RowSumAt(left, right, a, j) = Total(RowTerms(L, R, I, j, a, m), 0 .. m - 1)
  <2>1. [b \in DOMAIN right |-> ShiftedAt(left, right, a, b, j)] = RowTerms(L, R, I, j, a, m)
    BY <1>3, <1>7, Zenon DEF RowTerms
  <2> QED BY <1>3, <2>1, SumsOver DEF RowSumAt
<1>9. [a \in DOMAIN left |-> RowSumAt(left, right, a, j)] = RowSums(L, R, I, j, n, m)
  BY <1>3, <1>8, Zenon DEF RowSums
<1>10. g[j] = ToCoeff(Total(RowSums(L, R, I, j, n, m), 0 .. n - 1))
  BY <1>3, <1>4, <1>9, SumsOver
<1> QED BY <1>1, <1>10 DEF L, R, no

\* Chunks below the number of them.
LEMMA ChunkBelow ==
    ASSUME NEW bits \in 1 .. CoeffBits, NEW k \in 0 .. NumChunks(bits) - 1
    PROVE  k \in Nat /\ ChunkBits * k <= CoeffBits
<1> DEFINE n == NumChunks(bits)
<1>1. /\ n \in Nat \ {0} /\ ChunkBits * (n - 1) \in Nat
      /\ bits - ChunkBits * (n - 1) \in 1 .. ChunkBits
  BY ChunksOf
<1>2. bits <= CoeffBits /\ CoeffBits \in Nat /\ ChunkBits \in Nat \ {0} /\ bits \in Nat
  BY PolynomialsAssumption
<1>3. k \in 0 .. n - 1
  OBVIOUS
<1> HIDE DEF n
<1>4. k \in Nat /\ n - 1 \in Nat /\ k <= n - 1
  BY <1>1, <1>3
<1>5. ChunkBits * k <= ChunkBits * (n - 1)
  BY <1>2, <1>4
<1>6. ChunkBits * k \in Nat
  BY <1>2, <1>4
<1> QED BY <1>1, <1>2, <1>4, <1>5, <1>6

\* The chunked inner product is the inner product, as far as a coefficient
\* shows, for operands of the widths it is told.
THEOREM InnerProductIs ==
    ASSUME NEW u, NEW v, NEW uBits \in 1 .. CoeffBits, NEW vBits \in 1 .. CoeffBits,
           NEW signed \in BOOLEAN, IsFiniteSet(DOMAIN u), DOMAIN v = DOMAIN u,
           LeftOperand(u, uBits, signed, DOMAIN u), Operand(v, vBits, DOMAIN u),
           NEW j \in Positions
    PROVE  InnerProductFft(u, v, uBits, vBits, signed)[j]
               = ToCoeff(Convolved(u, v, DOMAIN u, j))
<1> DEFINE I == DOMAIN u
           n == NumChunks(uBits)
           m == NumChunks(vBits)
           L == LeftChunks(u, uBits, signed, I)
           R == Chunks(v, I)
           W == 2 ^ CoeffBits
           U == Convolved(u, v, I, j)
           S == LeftSum(u, v, uBits, signed, I, j)
           T == Total(RowSums(L, R, I, j, n, m), 0 .. n - 1)
<1>1. Integral(v, I)
  BY DEF Integral, Operand
<1>2. Combined(U, S, 0, 0, W) /\ LeftTerms(u, v, uBits, signed, I, j)
  <2>1. CASE signed = TRUE
    BY <1>1, <2>1, SignedLeft DEF LeftOperand
  <2>2. CASE signed = FALSE
    BY <1>1, <2>2, UnsignedLeft DEF LeftOperand
  <2> QED BY <2>1, <2>2
<1>3. W \in Nat \ {0}
  BY PolynomialsAssumption, SmallPower
<1> HIDE DEF W
<1>4. ASSUME NEW a \in 0 .. n - 1
      PROVE  /\ Combined(RowSums(L, R, I, j, n, m)[a], 0, 1,
                         Weights[a] * Convolved(L[a], v, I, j), W)
             /\ Convolved(L[a], v, I, j) \in Int
  <2> DEFINE P == L[a]
             f == [k \in 0 .. m - 1 |-> Weights[k] * Convolved(P, R[k], I, j)]
             h == RowTerms(L, R, I, j, a, m)
             c == Weights[a]
             F == Convolved(P, v, I, j)
  <2>1. a \in Nat /\ ChunkBits * a <= CoeffBits
    BY ChunkBelow
  <2>2. Integral(P, I)
    <3> SUFFICES ASSUME NEW i \in I, NEW x \in Positions
                 PROVE  P[i][x] \in Int
      BY DEF Integral
    <3>1. P[i][x] = SignedChunk(u[i][x], a, uBits, signed)
      BY <2>1 DEF LeftChunks
    <3>2. SignedChunk(u[i][x], a, uBits, signed) \in Int
      <4>1. u[i][x] \in Nat
        <5>1. CASE signed = TRUE
          <6>1. PICK d \in -(2 ^ (uBits - 1)) .. 2 ^ (uBits - 1) - 1 : u[i][x] = ToCoeff(d)
            BY <5>1 DEF LeftOperand, SignedOperand
          <6>2. d \in Int
            <7>1. uBits - 1 \in Nat /\ uBits - 1 <= 2 * CoeffBits
              BY PolynomialsAssumption
            <7>2. 2 ^ (uBits - 1) \in Nat
              BY <7>1, SmallPower
            <7> QED BY <7>2
          <6>3. d % W \in Nat
            BY <1>3, <6>2, Division
          <6> QED BY <6>1, <6>3 DEF ToCoeff, W
        <5>2. CASE signed = FALSE
          BY <5>2 DEF LeftOperand, Operand
        <5> QED BY <5>1, <5>2
      <4> DEFINE y == u[i][x]
                 s == ChunkBits * a
      <4>2. s \in Nat /\ s <= 2 * CoeffBits /\ s + ChunkBits <= 2 * CoeffBits /\ ChunkBits \in Nat
        BY <2>1, PolynomialsAssumption, ProductsAssumption
      <4>3. Chunk(y, a) \in Int
        <5> HIDE DEF s, y
        <5>1. Splits(y, s, ChunkBits)
          BY <4>1, <4>2, LowStep DEF y
        <5>2. /\ ((y \div 2 ^ s) % 2 ^ ChunkBits) \in 0 .. 2 ^ ChunkBits - 1
              /\ 2 ^ ChunkBits \in Nat \ {0}
          BY <5>1 DEF Splits
        <5>3. Chunk(y, a) = (y \div 2 ^ s) % 2 ^ ChunkBits
          BY DEF Chunk, s
        <5> HIDE DEF Chunk
        <5> QED BY <5>2, <5>3
      <4>4. ASSUME a = n - 1
            PROVE  Signed(Chunk(y, a), uBits - ChunkBits * a) \in Int
        <5>1. uBits - ChunkBits * a \in 1 .. ChunkBits
          BY <4>4, ChunksOf
        <5> DEFINE w == uBits - ChunkBits * a
                   B == 2 ^ w
                   z == Chunk(y, a)
        <5>2. w \in Nat /\ w <= 2 * CoeffBits
          BY <5>1, PolynomialsAssumption, ProductsAssumption
        <5>3. B \in Nat \ {0}
          BY <5>2, SmallPower
        <5> HIDE DEF w, B, z, y
        <5>4. z \in Int
          BY <4>3 DEF z
        <5>5. z % B \in Int /\ (z % B) - B \in Int
          BY <5>3, <5>4, Division
        <5>6. Signed(z, w) \in {z % B, (z % B) - B}
          BY DEF Signed, B
        <5> QED BY <5>5, <5>6 DEF z, w
      <4> QED BY <4>3, <4>4 DEF SignedChunk
    <3> QED BY <3>1, <3>2
  <2>3. Total(f, 0 .. m - 1) = F /\ \A k \in 0 .. m - 1 : Convolved(P, R[k], I, j) \in Int
    BY <2>2, RightChunks
  <2>4. ASSUME NEW b \in 0 .. m - 1
        PROVE  Combined(h[b], 0, c, f[b], W)
    <3>1. h[b] = PairAt(Convolved(P, R[b], I, j), a, b)
      BY DEF RowTerms
    <3>2. f[b] = Weights[b] * Convolved(P, R[b], I, j)
      OBVIOUS
    <3>3. b \in Nat /\ ChunkBits * b <= CoeffBits
      BY ChunkBelow
    <3> DEFINE x == Convolved(P, R[b], I, j)
    <3>4. x \in Int
      BY <2>3
    <3> HIDE DEF x, h, f, P, n, m
    <3>5. Combined(PairAt(x, a, b), 0, Weights[a], Weights[b] * x, W)
      BY <2>1, <3>3, <3>4, PairIs DEF W
    <3> QED BY <3>1, <3>2, <3>5 DEF x
  <2>5. c \in Int
    <3>1. ChunkBits * a \in Nat /\ ChunkBits * a <= 2 * CoeffBits
      BY <2>1, PolynomialsAssumption
    <3>2. 2 ^ (ChunkBits * a) \in Nat
      BY <3>1, SmallPower
    <3> QED BY <2>1, <3>2 DEF Weights
  <2>6. IsFiniteSet(0 .. m - 1)
    <3>1. m - 1 \in Int
      BY ChunksOf
    <3> QED BY <3>1, FS_Interval
  <2>7. RowSums(L, R, I, j, n, m)[a] = Total(h, 0 .. m - 1)
    BY DEF RowSums
  <2>8. F \in Int
    BY <1>2 DEF LeftTerms
  <2> HIDE DEF f, h, c, F, n, m, P
  <2>9. Combined(Total(h, 0 .. m - 1), 0, c, Total(f, 0 .. m - 1), W)
    <3> DEFINE D == 0 .. m - 1
    <3>1. Scales(h, c, f, W, D) /\ IsFiniteSet(D) /\ W \in Int
      BY <1>3, <2>4, <2>6 DEF Scales
    <3> HIDE DEF D
    <3>2. Combined(Total(h, D), 0, c, Total(f, D), W)
      BY <2>5, <3>1, Multiples
    <3> QED BY <3>2 DEF D
  <2> DEFINE H == Total(h, 0 .. m - 1)
  <2>10. Combined(H, 0, c, F, W)
    BY <2>3, <2>9
  <2> HIDE DEF H
  <2>11. Combined(H, 0, 1, c * F, W)
    <3>1. c * F \in Int /\ H \in Int /\ 0 \in Int /\ 1 * (c * F) = c * F
      BY <2>5, <2>8, <2>10 DEF Combined
    <3>2. PICK k \in Int : H = 0 + c * F + W * k
      BY <2>10 DEF Combined
    <3>3. H = 0 + 1 * (c * F) + W * k
      BY <3>1, <3>2
    <3> QED BY <3>1, <3>3 DEF Combined
  <2> QED BY <2>7, <2>8, <2>11 DEF H, F, c, P
<1> DEFINE g == [k \in 0 .. n - 1 |-> Weights[k] * Convolved(L[k], v, I, j)]
           h == RowSums(L, R, I, j, n, m)
<1>5. S = Total(g, 0 .. n - 1)
  BY DEF LeftSum
<1>6. \A a \in 0 .. n - 1 : Combined(h[a], 0, 1, g[a], W)
  BY <1>4
<1>7. IsFiniteSet(0 .. n - 1)
  <2>1. n - 1 \in Int
    BY ChunksOf
  <2> QED BY <2>1, FS_Interval
<1>8. InnerProductFft(u, v, uBits, vBits, signed)[j] = ToCoeff(T)
  BY InnerProductAt
<1>9. T = Total(h, 0 .. n - 1)
  OBVIOUS
<1> HIDE DEF g, h, n, m, L, R, U, S, T
<1>10. Combined(T, 0, 1, S, W)
  <2>1. Combined(Total(h, 0 .. n - 1), 0, 1, Total(g, 0 .. n - 1), W)
    <3> DEFINE D == 0 .. n - 1
    <3>1. Scales(h, 1, g, W, D) /\ IsFiniteSet(D) /\ W \in Int /\ 1 \in Int
      BY <1>3, <1>6, <1>7 DEF Scales
    <3> HIDE DEF D
    <3>2. Combined(Total(h, D), 0, 1, Total(g, D), W)
      BY <3>1, Multiples
    <3> QED BY <3>2 DEF D
  <2> QED BY <1>5, <1>9, <2>1
<1>11. T % W = U % W
  <2>1. PICK k \in Int : T = 0 + 1 * S + W * k
    BY <1>10 DEF Combined
  <2>2. PICK l \in Int : U = S + 0 * 0 + W * l
    BY <1>2 DEF Combined
  <2>3. S \in Int
    BY <1>2 DEF Combined
  <2>4. T = S + W * k /\ U = S + W * l
    BY <1>3, <2>1, <2>2, <2>3
  <2>5. ((S + W * k) % W) = (S % W) /\ ((S + W * l) % W) = (S % W)
    BY <1>3, <2>3, SameResidue
  <2> QED BY <2>4, <2>5
<1> QED BY <1>8, <1>11 DEF ToCoeff, W, U

\* A product of polynomials of numbers is a number, and so is what Times keeps.
LEMMA TimesAt ==
    ASSUME NEW p, NEW r, \A x \in Positions : p[x] \in Int /\ r[x] \in Int, NEW j \in Positions
    PROVE  NegacyclicAt(p, r, j) \in Int /\ Times(p, r)[j] = ToCoeff(NegacyclicAt(p, r, j))
<1>1. Combines(r, r, 0, r, 0, Positions)
  <2>1. ASSUME NEW y \in Int
        PROVE  Combined(y, y, 0, y, 0)
    <3>1. y = y + 0 * y + 0 * 0
      OBVIOUS
    <3> QED BY <3>1 DEF Combined
  <2> QED BY <2>1 DEF Combines
<1> DEFINE t == NegacyclicTerms(p, r, j)
           N == Total(t, Positions)
<1>2. Combines(t, t, 0, t, 0, Positions)
  BY <1>1, CombinedRight
<1> HIDE DEF t
<1>3. Combined(N, N, 0, N, 0)
  BY <1>2, PositionsOf, CombinedTotals
<1>4. N \in Int
  BY <1>3 DEF Combined
<1>5. NegacyclicAt(p, r, j) = N
  BY NegacyclicIs DEF t
<1>6. Times(p, r)[j] = ToCoeff(NegacyclicAt(p, r, j))
  <2> DEFINE f == [x \in Positions |-> ToCoeff(NegacyclicAt(p, r, x))]
  <2>1. Times(p, r) = f
    BY TabulatedIs, Zenon DEF Times, Poly
  <2>2. f[j] = ToCoeff(NegacyclicAt(p, r, j))
    OBVIOUS
  <2> HIDE DEF f
  <2> QED BY <2>1, <2>2
<1> QED BY <1>4, <1>5, <1>6

\* The results are polynomials.
LEMMA ProductsArePolys ==
    ASSUME NEW p, NEW r, NEW u, NEW v, NEW uBits, NEW vBits, NEW signed
    PROVE  /\ Times(p, r) = [j \in Positions |-> Times(p, r)[j]]
           /\ InnerProductFft(u, v, uBits, vBits, signed)
                  = [j \in Positions |-> InnerProductFft(u, v, uBits, vBits, signed)[j]]
<1>1. ASSUME NEW f, NEW Q(_), f = Poly(Q)
      PROVE  f = [i \in Positions |-> f[i]]
  <2> DEFINE g == [i \in Positions |-> Q(i)]
  <2>1. f = g
    BY <1>1, TabulatedIs, Zenon DEF Poly
  <2>2. g = [i \in Positions |-> g[i]]
    OBVIOUS
  <2> HIDE DEF g
  <2> QED BY <2>1, <2>2
<1> QED BY <1>1 DEF Times, InnerProductFft, SumOfPairs

LEMMA FullProduct ==
    ASSUME NEW p, NEW r,
           \A x \in Positions : p[x] \in 0 .. 2 ^ CoeffBits - 1 /\ r[x] \in 0 .. 2 ^ CoeffBits - 1
    PROVE  MultFft(p, r) = Times(p, r)
<1> DEFINE u == <<p>>
           v == <<r>>
           P == InnerProductFft(u, v, CoeffBits, CoeffBits, FALSE)
<1>1. DOMAIN u = {1} /\ DOMAIN v = {1} /\ u[1] = p /\ v[1] = r
  OBVIOUS
<1>2. MultFft(p, r) = P
  BY Zenon DEF MultFft
<1> HIDE DEF u, v
<1>3. IsFiniteSet({1}) /\ Cardinality({1}) = 1 /\ IsFiniteSet({})
  BY FS_Singleton, FS_EmptySet
<1>4. Operand(u, CoeffBits, {1}) /\ Operand(v, CoeffBits, {1})
  BY <1>1 DEF Operand
<1>5. \A x \in Positions : p[x] \in Int /\ r[x] \in Int
  <2>1. 2 ^ CoeffBits \in Nat
    BY PolynomialsAssumption, SmallPower
  <2> QED BY <2>1
<1>6. ASSUME NEW j \in Positions
      PROVE  P[j] = Times(p, r)[j]
  <2>1. P[j] = ToCoeff(Convolved(u, v, {1}, j))
    <3> DEFINE no == FALSE
    <3>1. /\ CoeffBits \in 1 .. CoeffBits /\ no \in BOOLEAN
          /\ LeftOperand(u, CoeffBits, no, {1})
      BY <1>4, PolynomialsAssumption DEF LeftOperand
    <3>2. P[j] = InnerProductFft(u, v, CoeffBits, CoeffBits, no)[j]
      OBVIOUS
    <3> HIDE DEF no, P
    <3> QED BY <1>1, <1>3, <1>4, <3>1, <3>2, InnerProductIs
  <2> DEFINE t == ConvolutionTerms(u, v, {1}, j)
  <2>2. t[1] = NegacyclicAt(p, r, j)
    BY <1>1 DEF ConvolutionTerms
  <2>3. NegacyclicAt(p, r, j) \in Int /\ Times(p, r)[j] = ToCoeff(NegacyclicAt(p, r, j))
    BY <1>5, TimesAt
  <2> HIDE DEF t
  <2>4. Total(t, {1}) = t[1] + Total(t, {1} \ {1})
    BY <1>3, <2>2, <2>3, SumWith
  <2>5. {1} \ {1} = {} /\ Total(t, {}) = 0
    BY <1>3, SumPick
  <2>6. Convolved(u, v, {1}, j) = NegacyclicAt(p, r, j)
    BY <2>2, <2>3, <2>4, <2>5 DEF Convolved, t
  <2> QED BY <2>1, <2>3, <2>6
<1> HIDE DEF P
<1>7. P = [j \in Positions |-> P[j]] /\ Times(p, r) = [j \in Positions |-> Times(p, r)[j]]
  BY ProductsArePolys DEF P
<1> QED BY <1>2, <1>6, <1>7

\* The inner product of two pairs of polynomials.
PairProduct(u, v) ==
    Poly(LAMBDA j : ToCoeff(Times(u[0], v[0])[j] + Times(u[1], v[1])[j]))

LEMMA PairProductIs ==
    ASSUME NEW u, NEW v, NEW uBits \in 1 .. CoeffBits, NEW vBits \in 1 .. CoeffBits,
           NEW signed \in BOOLEAN, DOMAIN u = 0 .. 1, DOMAIN v = 0 .. 1,
           LeftOperand(u, uBits, signed, 0 .. 1),
           \A i \in 0 .. 1 : \A x \in Positions : u[i][x] \in Int,
           Operand(v, vBits, 0 .. 1)
    PROVE  InnerProductFft(u, v, uBits, vBits, signed) = PairProduct(u, v)
<1> DEFINE I == 0 .. 1
           P == InnerProductFft(u, v, uBits, vBits, signed)
           W == 2 ^ CoeffBits
           g == [j \in Positions |-> ToCoeff(Times(u[0], v[0])[j] + Times(u[1], v[1])[j])]
<1>1. IsFiniteSet(I) /\ 0 \in I /\ 1 \in I /\ I \ {1} = {0} /\ {0} \ {0} = {}
  <2>1. IsFiniteSet(0 .. 1)
    <3> DEFINE last == 1
    <3>1. last \in Int
      OBVIOUS
    <3> HIDE DEF last
    <3>2. IsFiniteSet(0 .. last)
      BY <3>1, FS_Interval
    <3> QED BY <3>2 DEF last
  <2>2. (0 .. 1) \ {1} = {0} /\ {0} \ {0} = {}
    OBVIOUS
  <2> QED BY <2>1, <2>2
<1>2. IsFiniteSet({0}) /\ IsFiniteSet({})
  BY FS_Singleton, FS_EmptySet
<1>3. W \in Nat \ {0}
  BY PolynomialsAssumption, SmallPower
<1>4. ASSUME NEW i \in I
      PROVE  \A x \in Positions : u[i][x] \in Int /\ v[i][x] \in Int
  <2>1. 2 ^ vBits \in Nat
    BY PolynomialsAssumption, SmallPower
  <2> QED BY <2>1 DEF Operand
<1>5. DOMAIN u = I /\ DOMAIN v = I
  OBVIOUS
<1>6. LeftOperand(u, uBits, signed, I)
  OBVIOUS
<1>7. Operand(v, vBits, I)
  OBVIOUS
<1> HIDE DEF I, W
<1>8. ASSUME NEW j \in Positions
      PROVE  P[j] = g[j]
  <2>1. P[j] = ToCoeff(Convolved(u, v, I, j))
    BY <1>1, <1>5, <1>6, <1>7, InnerProductIs
  <2> DEFINE t == ConvolutionTerms(u, v, I, j)
             A == NegacyclicAt(u[0], v[0], j)
             B == NegacyclicAt(u[1], v[1], j)
             a == Times(u[0], v[0])[j]
             b == Times(u[1], v[1])[j]
  <2>2. t[0] = A /\ t[1] = B /\ \A i \in I : t[i] = NegacyclicAt(u[i], v[i], j)
    BY <1>1 DEF ConvolutionTerms
  <2>3. ASSUME NEW i \in I
        PROVE  /\ NegacyclicAt(u[i], v[i], j) \in Int
               /\ Times(u[i], v[i])[j] = ToCoeff(NegacyclicAt(u[i], v[i], j))
    BY <1>4, TimesAt
  <2>4. A \in Int /\ B \in Int /\ a = A % W /\ b = B % W /\ \A i \in I : t[i] \in Int
    BY <1>1, <2>2, <2>3 DEF ToCoeff, W
  <2>5. Convolved(u, v, I, j) = Total(t, I)
    BY DEF Convolved
  <2>6. g[j] = (a + b) % W
    BY DEF ToCoeff, W
  <2>7. P[j] = Convolved(u, v, I, j) % W
    BY <2>1 DEF ToCoeff, W
  <2> HIDE DEF t, A, B, a, b, P, g
  <2>8. Total(t, I) = t[1] + Total(t, {0})
    <3>1. Total(t, I) = t[1] + Total(t, I \ {1})
      BY <1>1, <2>4, SumWith
    <3> QED BY <1>1, <3>1
  <2>9. Total(t, {0}) = t[0] + Total(t, {})
    BY <1>1, <1>2, <2>4, SumWith
  <2>10. Total(t, {}) = 0
    BY <1>2, SumPick
  <2>11. Convolved(u, v, I, j) = A + B
    BY <2>2, <2>4, <2>5, <2>8, <2>9, <2>10
  <2> DEFINE ka == A \div W
             kb == B \div W
  <2>12. a \in Int /\ b \in Int /\ ka \in Int /\ kb \in Int /\ A = W * ka + a /\ B = W * kb + b
    BY <1>3, <2>4, Division
  <2> HIDE DEF ka, kb
  <2>13. A + B = (a + b) + W * (ka + kb)
    <3>1. W * (ka + kb) = W * ka + W * kb /\ W * ka \in Int /\ W * kb \in Int
      BY <1>3, <2>12
    <3> QED BY <2>12, <3>1
  <2>14. (((a + b) + W * (ka + kb)) % W) = ((a + b) % W)
    <3>1. a + b \in Int /\ ka + kb \in Int
      BY <2>12
    <3> QED BY <1>3, <3>1, SameResidue
  <2> QED BY <2>6, <2>7, <2>11, <2>13, <2>14
<1>9. PairProduct(u, v) = g
  BY TabulatedIs, Zenon DEF PairProduct, Poly
<1>10. P = [j \in Positions |-> P[j]]
  BY ProductsArePolys
<1>11. g = [j \in Positions |-> g[j]]
  OBVIOUS
<1> HIDE DEF P, g
<1> QED BY <1>8, <1>9, <1>10, <1>11 DEF P

\* The polynomials of the cases.
LEMMA AnyPolysOf ==
    ASSUME NEW k \in Int, NEW bits \in 1 .. CoeffBits
    PROVE  LET u == AnyPolys(k, 2, 2 ^ bits)
           IN  /\ DOMAIN u = 0 .. 1 /\ Operand(u, bits, 0 .. 1)
               /\ \A i \in 0 .. 1 : \A x \in Positions :
                      u[i][x] \in Int /\ u[i][x] \in 0 .. 2 ^ bits - 1
<1> DEFINE n == 2 ^ bits
           u == AnyPolys(k, 2, n)
           f == [i \in 0 .. 1 |-> AnyPoly(k + i, n)]
<1>1. u = f
  <2> DEFINE g == [i \in 0 .. 2 - 1 |-> AnyPoly(k + i, n)]
  <2>1. u = g
    BY TabulatedIs, Zenon DEF AnyPolys, Vector
  <2>2. 2 - 1 = 1
    OBVIOUS
  <2> HIDE DEF u
  <2> QED BY <2>1, <2>2
<1>2. n \in Nat \ {0}
  <2>1. bits \in Nat /\ bits <= 2 * CoeffBits
    BY PolynomialsAssumption
  <2> QED BY <2>1, SmallPower
<1>3. ASSUME NEW i \in 0 .. 1, NEW x \in Positions
      PROVE  u[i][x] \in Int /\ u[i][x] \in 0 .. n - 1
  <2>1. u[i] = AnyPoly(k + i, n)
    BY <1>1
  <2>2. k + i \in Int
    OBVIOUS
  <2> HIDE DEF u, n
  <2>3. AnyPoly(k + i, n)[x] \in 0 .. n - 1
    BY <1>2, <2>2, AnyPolyOf
  <2>4. u[i][x] \in 0 .. n - 1
    BY <2>1, <2>3
  <2> QED BY <1>2, <2>4
<1>4. DOMAIN u = 0 .. 1
  BY <1>1
<1> HIDE DEF u
<1>5. Operand(u, bits, 0 .. 1)
  BY <1>3 DEF Operand
<1> QED BY <1>3, <1>4, <1>5 DEF u, n

\* The signed digits of the cases.
AnyDigits(bits) ==
    Vector(2, LAMBDA k : Poly(LAMBDA i :
        ToCoeff(Scattered(case.seed * 5 + k * Degree + i, 2 ^ bits) - 2 ^ (bits - 1))))

LEMMA AnyDigitsOf ==
    ASSUME case.seed \in Int, NEW bits \in 1 .. CoeffBits
    PROVE  LET u == AnyDigits(bits)
           IN  /\ DOMAIN u = 0 .. 1 /\ SignedOperand(u, bits, 0 .. 1)
               /\ \A i \in 0 .. 1 : \A x \in Positions : u[i][x] \in Int
<1> DEFINE n == 2 ^ bits
           h == 2 ^ (bits - 1)
           D(k, i) == ToCoeff(Scattered(case.seed * 5 + k * Degree + i, n) - h)
           u == AnyDigits(bits)
           f == [k \in 0 .. 1 |-> Poly(LAMBDA i : D(k, i))]
<1>1. u = f
  <2> DEFINE g == [k \in 0 .. 2 - 1 |-> Poly(LAMBDA i : D(k, i))]
  <2>1. u = g
    BY TabulatedIs, Zenon DEF AnyDigits, Vector
  <2>2. 2 - 1 = 1
    OBVIOUS
  <2> HIDE DEF u
  <2> QED BY <2>1, <2>2, Zenon
<1>2. DOMAIN u = 0 .. 1
  BY <1>1
<1>3. n \in Nat \ {0} /\ h \in Nat \ {0} /\ n = 2 * h
  <2>1. /\ bits \in Nat /\ bits - 1 \in Nat /\ bits <= 2 * CoeffBits /\ bits - 1 <= 2 * CoeffBits
        /\ bits \in 1 .. 2 * CoeffBits
    BY PolynomialsAssumption
  <2>2. n \in Nat \ {0} /\ h \in Nat \ {0}
    BY <2>1, SmallPower
  <2>3. n = 2 * h
    BY <2>1, CoeffPowers DEF PowersUpTo
  <2> QED BY <2>2, <2>3
<1>4. 2 ^ CoeffBits \in Nat \ {0}
  BY PolynomialsAssumption, SmallPower
<1>5. ASSUME NEW i \in 0 .. 1, NEW x \in Positions
      PROVE  /\ u[i][x] \in Int
             /\ \E d \in -h .. h - 1 : u[i][x] = ToCoeff(d)
  <2> DEFINE p == [y \in Positions |-> D(i, y)]
             k == case.seed * 5 + i * Degree + x
             d == Scattered(k, n) - h
  <2>1. u[i] = Poly(LAMBDA y : D(i, y))
    BY <1>1, Zenon
  <2>2. Poly(LAMBDA y : D(i, y)) = p
    BY TabulatedIs, Zenon DEF Poly
  <2>3. p[x] = ToCoeff(d)
    BY Zenon
  <2>4. k \in Int
    <3>1. case.seed * 5 \in Int /\ i * Degree \in Int /\ x \in Int
      BY PolynomialsAssumption DEF Positions
    <3> QED BY <3>1
  <2> HIDE DEF k, p, u, n, h, D
  <2>5. Scattered(k, n) \in 0 .. n - 1
    BY <1>3, <2>4, ScatteredOf
  <2>6. d \in -h .. h - 1 /\ d \in Int
    BY <1>3, <2>5
  <2> HIDE DEF d
  <2>7. u[i][x] = ToCoeff(d)
    BY <2>1, <2>2, <2>3
  <2>8. ToCoeff(d) \in Int
    <3> DEFINE W == 2 ^ CoeffBits
    <3>1. W \in Nat \ {0} /\ ToCoeff(d) = d % W
      BY <1>4 DEF ToCoeff
    <3> HIDE DEF W
    <3>2. d % W \in 0 .. W - 1
      BY <2>6, <3>1, Division
    <3> QED BY <3>1, <3>2
  <2> QED BY <2>6, <2>7, <2>8
<1> HIDE DEF u
<1>6. SignedOperand(u, bits, 0 .. 1)
  BY <1>5 DEF SignedOperand
<1> QED BY <1>2, <1>5, <1>6 DEF u

\* Some cases have a seed.
SeededOps == {"product", "automorphism", "condensed", "hint"}

LEMMA SeededCase ==
    ASSUME case \in AllCases, case.op \in SeededOps
    PROVE  case.seed \in Int
<1>1. case # NoCase
  BY DEF NoCase, SeededOps
<1>2. case \in [op : SeededOps, seed : Seeds]
  BY <1>1 DEF AllCases, Cases, SeededOps
<1>3. case.seed \in Seeds
  BY <1>2
<1>4. Seeds \subseteq Nat
  BY CasesAssumption, Zenon
<1>5. \A k \in Seeds : k \in Int
  BY <1>4
<1> QED BY <1>3, <1>5, Zenon

\* Nothing is lost of the products of the cases, whatever the widths of the
\* coefficients, of the chunks and of the digits.
THEOREM ChunkedProducts == Spec => []ChunkedProductExact
<1> DEFINE full == AnyPolys(7 * case.seed, 2, 2 ^ CoeffBits)
           low == AnyPolys(13 * case.seed, 2, Modulus)
<1>1. ASSUME case \in AllCases, case.op = "product"
      PROVE  /\ MultFft(full[0], full[1]) = Times(full[0], full[1])
             /\ InnerProductFft(full, low, CoeffBits, LogModulus, FALSE) = PairProduct(full, low)
             /\ \A bits \in SignedWidths :
                    InnerProductFft(AnyDigits(bits), low, bits, LogModulus, TRUE)
                        = PairProduct(AnyDigits(bits), low)
  <2>1. case.seed \in Int /\ 7 * case.seed \in Int /\ 13 * case.seed \in Int
    BY <1>1, SeededCase DEF SeededOps
  <2>2. /\ CoeffBits \in 1 .. CoeffBits /\ LogModulus \in 1 .. CoeffBits
        /\ Modulus = 2 ^ LogModulus
    BY PolynomialsAssumption, ModulusPositive DEF Modulus
  <2>3. /\ DOMAIN full = 0 .. 1 /\ Operand(full, CoeffBits, 0 .. 1)
        /\ \A i \in 0 .. 1 : \A x \in Positions :
               full[i][x] \in Int /\ full[i][x] \in 0 .. 2 ^ CoeffBits - 1
    BY <2>1, <2>2, AnyPolysOf
  <2>4. DOMAIN low = 0 .. 1 /\ Operand(low, LogModulus, 0 .. 1)
    BY <2>1, <2>2, AnyPolysOf
  <2> HIDE DEF full, low
  <2>5. MultFft(full[0], full[1]) = Times(full[0], full[1])
    BY <2>3, FullProduct
  <2>6. InnerProductFft(full, low, CoeffBits, LogModulus, FALSE) = PairProduct(full, low)
    <3> DEFINE no == FALSE
    <3>1. no \in BOOLEAN /\ LeftOperand(full, CoeffBits, no, 0 .. 1)
      BY <2>3 DEF LeftOperand
    <3> HIDE DEF no
    <3>2. InnerProductFft(full, low, CoeffBits, LogModulus, no) = PairProduct(full, low)
      BY <2>2, <2>3, <2>4, <3>1, PairProductIs
    <3> QED BY <3>2 DEF no
  <2>7. ASSUME NEW bits \in SignedWidths
        PROVE  InnerProductFft(AnyDigits(bits), low, bits, LogModulus, TRUE)
                   = PairProduct(AnyDigits(bits), low)
    <3> DEFINE yes == TRUE
               u == AnyDigits(bits)
    <3>1. bits \in 1 .. CoeffBits
      BY PolynomialsAssumption, ProductsAssumption DEF SignedWidths
    <3>2. /\ DOMAIN u = 0 .. 1 /\ SignedOperand(u, bits, 0 .. 1)
          /\ \A i \in 0 .. 1 : \A x \in Positions : u[i][x] \in Int
      BY <2>1, <3>1, AnyDigitsOf
    <3> HIDE DEF u
    <3>3. yes \in BOOLEAN /\ LeftOperand(u, bits, yes, 0 .. 1)
      BY <3>2 DEF LeftOperand
    <3> HIDE DEF yes
    <3>4. InnerProductFft(u, low, bits, LogModulus, yes) = PairProduct(u, low)
      BY <2>2, <2>4, <3>1, <3>2, <3>3, PairProductIs
    <3> QED BY <3>4 DEF yes, u
  <2> QED BY <2>5, <2>6, <2>7
<1>2. case \in AllCases => ChunkedProductExact
  <2> SUFFICES ASSUME case \in AllCases, case.op = "product"
               PROVE  /\ MultFft(full[0], full[1]) = Times(full[0], full[1])
                      /\ InnerProductFft(full, low, CoeffBits, LogModulus, FALSE)
                             = PairProduct(full, low)
                      /\ \A bits \in SignedWidths :
                             InnerProductFft(AnyDigits(bits), low, bits, LogModulus, TRUE)
                                 = PairProduct(AnyDigits(bits), low)
    BY Zenon DEF ChunkedProductExact, PairProduct, AnyDigits
  <2> QED BY <1>1
<1> QED BY <1>2, CasesInvariant, PTL

(***************************************************************************)
(* Sums of sums                                                            *)
(***************************************************************************)

IntegerOver(f, S) == \A x \in S : f[x] \in Int

\* The order of two sums does not matter.
Inner(F, S, T) == [x \in S |-> Total(F[x], T)]

Across(F, S, T) == [y \in T |-> Total([x \in S |-> F[x][y]], S)]

LEMMA TotalsEqual ==
    ASSUME NEW S, IsFiniteSet(S), NEW f, NEW g, \A x \in S : f[x] = g[x] /\ f[x] \in Int
    PROVE  Total(f, S) = Total(g, S) /\ Total(f, S) \in Int
<1>1. Combines(g, f, 0, f, 0, S)
  <2>1. ASSUME NEW y \in Int
        PROVE  Combined(y, y, 0, y, 0)
    <3>1. y = y + 0 * y + 0 * 0
      OBVIOUS
    <3> QED BY <3>1 DEF Combined
  <2> QED BY <2>1 DEF Combines
<1> DEFINE F == Total(f, S)
           G == Total(g, S)
<1>2. Combined(G, F, 0, F, 0)
  BY <1>1, CombinedTotals
<1> HIDE DEF F, G
<1>3. G = F /\ F \in Int
  BY <1>2 DEF Combined
<1> QED BY <1>3 DEF F, G

\* The sum of sums is the sum of the values.
LEMMA SumOfTwo ==
    ASSUME NEW S, IsFiniteSet(S), NEW h, NEW f, NEW g,
           \A x \in S : f[x] \in Int /\ g[x] \in Int /\ h[x] = f[x] + g[x]
    PROVE  Total(h, S) = Total(f, S) + Total(g, S)
<1>1. Combines(h, f, 1, g, 0, S)
  <2>1. ASSUME NEW y \in Int, NEW z \in Int
        PROVE  Combined(y + z, y, 1, z, 0)
    <3>1. y + z = y + 1 * z + 0 * 0 /\ y + z \in Int
      OBVIOUS
    <3> QED BY <3>1 DEF Combined
  <2> QED BY <2>1 DEF Combines
<1> DEFINE H == Total(h, S)
           F == Total(f, S)
           G == Total(g, S)
<1>2. Combined(H, F, 1, G, 0)
  BY <1>1, CombinedTotals
<1> HIDE DEF H, F, G
<1>3. H = F + G
  BY <1>2 DEF Combined
<1> QED BY <1>3 DEF H, F, G

LEMMA SumOfZeros ==
    ASSUME NEW S, IsFiniteSet(S), NEW f, \A x \in S : f[x] = 0
    PROVE  Total(f, S) = 0
<1>1. \A x \in S : f[x] \in Int /\ f[x] \in Int /\ f[x] = f[x] + f[x]
  OBVIOUS
<1>2. Total(f, S) = Total(f, S) + Total(f, S)
  BY <1>1, SumOfTwo
<1>3. \A x \in S : f[x] = f[x] /\ f[x] \in Int
  BY <1>1
<1>4. Total(f, S) \in Int
  BY <1>3, TotalsEqual, Zenon
<1>5. PICK z : z = Total(f, S)
  OBVIOUS
<1>6. z \in Int /\ z = z + z
  BY <1>2, <1>4, <1>5, Zenon
<1>7. z = 0
  BY <1>6
<1> QED BY <1>5, <1>7, Zenon

LEMMA Exchange ==
    ASSUME NEW S, IsFiniteSet(S), NEW T, IsFiniteSet(T), NEW F,
           \A x \in S : IntegerOver(F[x], T)
    PROVE  Total(Inner(F, S, T), S) = Total(Across(F, S, T), T)
<1> DEFINE Good(t) == Total(Inner(F, S, t), S) = Total(Across(F, S, T), t)
           N == {n \in Nat : \A t \in SUBSET T : Cardinality(t) = n => Good(t)}
<1>1. ASSUME NEW t \in SUBSET T
      PROVE  IsFiniteSet(t) /\ Cardinality(t) \in Nat
  BY FS_Subset, FS_CardinalityType
<1>2. ASSUME NEW t \in SUBSET T, NEW x \in S
      PROVE  \A y \in t : F[x][y] \in Int
  BY DEF IntegerOver
<1> HIDE DEF Good
<1>3. 0 \in N
  <2> SUFFICES ASSUME NEW t \in SUBSET T, Cardinality(t) = 0
               PROVE  Good(t)
    OBVIOUS
  <2>1. t = {}
    BY <1>1, FS_EmptySet
  <2>2. ASSUME NEW f
        PROVE  Total(f, t) = 0
    BY <1>1, <2>1, SumPick
  <2>3. Total(Inner(F, S, t), S) = 0
    <3>1. \A x \in S : Inner(F, S, t)[x] = 0
      BY <2>2 DEF Inner
    <3> QED BY <3>1, SumOfZeros
  <2> QED BY <2>2, <2>3 DEF Good
<1>4. ASSUME NEW n \in Nat, n \in N
      PROVE  n + 1 \in N
  <2> SUFFICES ASSUME NEW t \in SUBSET T, Cardinality(t) = n + 1
               PROVE  Good(t)
    OBVIOUS
  <2>1. IsFiniteSet(t) /\ t # {}
    BY <1>1, FS_EmptySet
  <2> DEFINE p == Pick(t)
             r == t \ {p}
  <2>2. p \in t /\ p \in T /\ r \in SUBSET T /\ Cardinality(r) = n
    <3>1. p \in t /\ Cardinality(r) = Cardinality(t) - 1
      BY <2>1, PickOf
    <3> QED BY <3>1
  <2>3. Good(r)
    BY <1>4, <2>2
  <2>4. ASSUME NEW f
        PROVE  Total(f, t) = f[p] + Total(f, r)
    BY <2>1, SumPick
  <2> HIDE DEF p, r
  <2>5. ASSUME NEW x \in S
        PROVE  /\ F[x][p] \in Int /\ Inner(F, S, r)[x] \in Int
               /\ Inner(F, S, t)[x] = F[x][p] + Inner(F, S, r)[x]
    <3>1. Inner(F, S, t)[x] = Total(F[x], t) /\ Inner(F, S, r)[x] = Total(F[x], r)
      BY DEF Inner
    <3>2. IsFiniteSet(r) /\ \A y \in r : F[x][y] = F[x][y] /\ F[x][y] \in Int
      BY <1>1, <1>2, <2>2
    <3>3. Total(F[x], r) \in Int
      BY <3>2, TotalsEqual
    <3>4. F[x][p] \in Int
      BY <1>2, <2>2
    <3> QED BY <2>4, <3>1, <3>3, <3>4
  <2> DEFINE c == [x \in S |-> F[x][p]]
  <2>6. \A x \in S : c[x] = F[x][p]
    OBVIOUS
  <2>7. Across(F, S, T)[p] = Total(c, S)
    BY <2>2 DEF Across
  <2> HIDE DEF c
  <2>8. Total(Inner(F, S, t), S) = Total(c, S) + Total(Inner(F, S, r), S)
    BY <2>5, <2>6, SumOfTwo
  <2> QED BY <2>3, <2>4, <2>7, <2>8 DEF Good
<1> HIDE DEF N
<1>5. \A n \in Nat : n \in N
  BY <1>3, <1>4, NatInd
<1>6. T \in SUBSET T /\ Cardinality(T) \in Nat
  BY FS_CardinalityType
<1> QED BY <1>5, <1>6 DEF N, Good

\* Nor do the names of the places.
Renamed(f, m, S) == [x \in S |-> f[m[x]]]

Injective(m, S) == \A x, y \in S : m[x] = m[y] => x = y

LEMMA Renaming ==
    ASSUME NEW S, IsFiniteSet(S), NEW R, IsFiniteSet(R), NEW m, \A x \in S : m[x] \in R,
           Injective(m, S), NEW f, IntegerOver(f, R),
           \A y \in R : \E x \in S : m[x] = y
    PROVE  Total(Renamed(f, m, S), S) = Total(f, R)
<1> DEFINE Image(s) == {m[x] : x \in s}
           Good(s) == Total(Renamed(f, m, S), s) = Total(f, Image(s))
           N == {n \in Nat : \A s \in SUBSET S : Cardinality(s) = n => Good(s)}
<1>1. ASSUME NEW s \in SUBSET S
      PROVE  /\ IsFiniteSet(s) /\ Cardinality(s) \in Nat /\ IsFiniteSet(Image(s))
             /\ \A y \in Image(s) : f[y] \in Int
  <2>1. Image(s) \in SUBSET R
    OBVIOUS
  <2> HIDE DEF Image
  <2> QED BY <2>1, FS_Subset, FS_CardinalityType DEF IntegerOver
<1>2. Image({}) = {}
  OBVIOUS
<1>3. ASSUME NEW s \in SUBSET S, NEW p \in s
      PROVE  m[p] \in Image(s) /\ Image(s) \ {m[p]} = Image(s \ {p})
  BY DEF Injective
<1>4. Image(S) = R
  OBVIOUS
<1>5. \A x \in S : Renamed(f, m, S)[x] = f[m[x]]
  BY DEF Renamed
<1> HIDE DEF Good, Image
<1>6. 0 \in N
  <2> SUFFICES ASSUME NEW s \in SUBSET S, Cardinality(s) = 0
               PROVE  Good(s)
    OBVIOUS
  <2>1. s = {}
    BY <1>1, FS_EmptySet
  <2>2. ASSUME NEW g
        PROVE  Total(g, {}) = 0
    BY FS_EmptySet, SumPick
  <2> QED BY <1>2, <2>1, <2>2 DEF Good
<1>7. ASSUME NEW n \in Nat, n \in N
      PROVE  n + 1 \in N
  <2> SUFFICES ASSUME NEW s \in SUBSET S, Cardinality(s) = n + 1
               PROVE  Good(s)
    OBVIOUS
  <2>1. IsFiniteSet(s) /\ s # {}
    BY <1>1, FS_EmptySet
  <2> DEFINE p == Pick(s)
             r == s \ {p}
  <2>2. p \in s /\ p \in S /\ r \in SUBSET S /\ Cardinality(r) = n
    <3>1. p \in s /\ Cardinality(r) = Cardinality(s) - 1
      BY <2>1, PickOf
    <3> QED BY <3>1
  <2>3. Good(r)
    BY <1>7, <2>2
  <2>4. Total(Renamed(f, m, S), s) = Renamed(f, m, S)[p] + Total(Renamed(f, m, S), r)
    BY <2>1, SumPick
  <2>5. m[p] \in Image(s) /\ Image(s) \ {m[p]} = Image(r)
    BY <1>3, <2>2
  <2> HIDE DEF p, r
  <2>6. Total(f, Image(s)) = f[m[p]] + Total(f, Image(s) \ {m[p]})
    BY <1>1, <2>5, SumWith
  <2> QED BY <1>5, <2>2, <2>3, <2>4, <2>5, <2>6 DEF Good
<1> HIDE DEF N
<1>8. \A n \in Nat : n \in N
  BY <1>6, <1>7, NatInd
<1>9. S \in SUBSET S /\ Cardinality(S) \in Nat
  BY FS_CardinalityType
<1> QED BY <1>4, <1>8, <1>9 DEF N, Good

\* The stretches between stops on the way from 0.
Stops(t, n) == /\ t[0] = 0
               /\ \A k \in 0 .. n : t[k] \in Nat
               /\ \A k \in 0 .. n - 1 : t[k] <= t[k + 1]

Stretch(f, t, k) == [b \in 0 .. t[k + 1] - t[k] - 1 |-> f[t[k] + b]]

StretchSum(f, t, k) == Total(Stretch(f, t, k), 0 .. t[k + 1] - t[k] - 1)

\* No stop is behind the last one.
LEMMA StopsBelow ==
    ASSUME NEW n \in Nat, NEW t, Stops(t, n)
    PROVE  \A k \in 0 .. n : t[k] \in Nat /\ t[k] <= t[n]
<1> DEFINE N == {m \in Nat : m <= n => t[n - m] <= t[n]}
<1>1. 0 \in N
  <2>1. n - 0 = n /\ n \in 0 .. n
    OBVIOUS
  <2>2. t[n] \in Nat
    BY <2>1 DEF Stops
  <2> QED BY <2>1, <2>2
<1>2. ASSUME NEW m \in Nat, m \in N
      PROVE  m + 1 \in N
  <2> SUFFICES ASSUME m + 1 <= n
               PROVE  t[n - (m + 1)] <= t[n]
    OBVIOUS
  <2> DEFINE k == n - (m + 1)
  <2>1. k \in 0 .. n - 1 /\ k + 1 = n - m /\ k \in 0 .. n /\ k + 1 \in 0 .. n /\ n \in 0 .. n
    OBVIOUS
  <2> HIDE DEF k
  <2>2. t[k] <= t[k + 1] /\ t[k] \in Nat /\ t[k + 1] \in Nat /\ t[n] \in Nat
    BY <2>1 DEF Stops
  <2>3. t[k + 1] <= t[n]
    BY <1>2, <2>1
  <2>4. t[k] <= t[n]
    BY <2>2, <2>3
  <2> QED BY <2>4 DEF k
<1> HIDE DEF N
<1>3. \A m \in Nat : m \in N
  BY <1>1, <1>2, NatInd
<1>4. ASSUME NEW k \in 0 .. n
      PROVE  t[k] <= t[n]
  <2>1. n - k \in Nat /\ n - k <= n /\ n - (n - k) = k
    OBVIOUS
  <2> QED BY <1>3, <2>1 DEF N
<1> QED BY <1>4 DEF Stops

\* A sum is the sum of those of its stretches.
LEMMA SumInStretches ==
    ASSUME NEW n \in Nat, NEW t, Stops(t, n), NEW f, IntegerOver(f, 0 .. t[n] - 1)
    PROVE  /\ Total(f, 0 .. t[n] - 1)
                  = Total([k \in 0 .. n - 1 |-> StretchSum(f, t, k)], 0 .. n - 1)
           /\ \A k \in 0 .. n - 1 : StretchSum(f, t, k) \in Int
<1> DEFINE all == t[n]
           run == [m \in 0 .. all |-> Total(f, 0 .. m - 1)]
           part == [k \in 0 .. n - 1 |-> StretchSum(f, t, k)]
           stop == [k \in 0 .. n |-> run[t[k]]]
<1>1. all \in Nat
  <2>1. n \in 0 .. n
    OBVIOUS
  <2> QED BY <2>1 DEF Stops
<1>2. ASSUME NEW m \in 0 .. all
      PROVE  run[m] = Total(f, 0 .. m - 1) /\ run[m] \in Int
  <2>1. IsFiniteSet(0 .. m - 1)
    <3>1. m - 1 \in Int
      BY <1>1
    <3> QED BY <3>1, FS_Interval
  <2>2. \A x \in 0 .. m - 1 : f[x] \in Int
    <3> HIDE DEF run
    <3>1. \A x \in 0 .. m - 1 : x \in 0 .. all - 1
      BY <1>1
    <3> QED BY <3>1 DEF IntegerOver
  <2>3. Total(f, 0 .. m - 1) \in Int
    BY <2>1, <2>2, SumWith
  <2> QED BY <2>3
<1>3. run[0] = 0
  <2>1. 0 .. 0 - 1 = {} /\ 0 \in 0 .. all
    BY <1>1
  <2>2. Total(f, {}) = 0
    BY FS_EmptySet, SumPick
  <2> QED BY <2>1, <2>2
<1>4. ASSUME NEW m \in 0 .. all - 1
      PROVE  run[m + 1] = f[m] + run[m] /\ f[m] \in Int
  <2> DEFINE S == 0 .. m
  <2>1. S = 0 .. (m + 1) - 1 /\ m \in S /\ S \ {m} = 0 .. m - 1
    BY <1>1
  <2>2. IsFiniteSet(S)
    BY <1>1, FS_Interval
  <2>3. \A x \in S : f[x] \in Int
    BY <1>1 DEF IntegerOver
  <2>4. m + 1 \in 0 .. all /\ m \in 0 .. all
    BY <1>1
  <2> HIDE DEF S
  <2>5. Total(f, S) = f[m] + Total(f, S \ {m})
    BY <2>1, <2>2, <2>3, SumWith
  <2>6. run[m + 1] = Total(f, 0 .. (m + 1) - 1) /\ run[m] = Total(f, 0 .. m - 1)
    BY <2>4
  <2> QED BY <2>1, <2>3, <2>5, <2>6
<1>5. ASSUME NEW k \in 0 .. n - 1
      PROVE  /\ k \in 0 .. n /\ k + 1 \in 0 .. n /\ t[k] \in Nat /\ t[k + 1] \in Nat
             /\ t[k] <= t[k + 1] /\ t[k + 1] <= all /\ t[k] \in 0 .. all
             /\ t[k + 1] \in 0 .. all
  <2>1. k \in 0 .. n /\ k + 1 \in 0 .. n
    OBVIOUS
  <2>2. t[k] \in Nat /\ t[k + 1] \in Nat /\ t[k] <= t[k + 1]
    BY <2>1 DEF Stops
  <2>3. t[k] <= all /\ t[k + 1] <= all
    BY <2>1, StopsBelow
  <2> HIDE DEF all
  <2> QED BY <1>1, <2>1, <2>2, <2>3
<1> HIDE DEF run, part, all
<1>6. ASSUME NEW k \in 0 .. n - 1
      PROVE  StretchSum(f, t, k) = run[t[k + 1]] - run[t[k]] /\ StretchSum(f, t, k) \in Int
  <2> DEFINE a == t[k]
             l == t[k + 1] - a
             g == Stretch(f, t, k)
             path == [b \in 0 .. l |-> run[a + b] - run[a]]
  <2>1. l \in Nat /\ a \in Nat /\ a + l = t[k + 1] /\ a + l <= all /\ a \in 0 .. all
        /\ a + l \in 0 .. all
    BY <1>5
  <2>2. ASSUME NEW b \in 0 .. l - 1
        PROVE  g[b] = f[a + b]
    BY DEF Stretch
  <2>3. StretchSum(f, t, k) = Total(g, 0 .. l - 1)
    BY DEF StretchSum
  <2>4. \A b \in 0 .. l : path[b] = run[a + b] - run[a]
    OBVIOUS
  <2> HIDE DEF a, l, g, path
  <2>5. run[a] \in Int /\ run[a + l] \in Int
    BY <1>2, <2>1
  <2>6. path[0] = 0
    <3>1. 0 \in 0 .. l /\ a + 0 = a
      BY <2>1
    <3> QED BY <2>4, <2>5, <3>1
  <2>7. ASSUME NEW b \in 0 .. l - 1
        PROVE  g[b] \in Int /\ path[b + 1] = g[b] + path[b]
    <3>1. /\ a + b \in 0 .. all - 1 /\ a + (b + 1) = (a + b) + 1 /\ b \in 0 .. l
          /\ b + 1 \in 0 .. l /\ a + b \in 0 .. all
      BY <1>1, <2>1
    <3>2. run[(a + b) + 1] = f[a + b] + run[a + b] /\ f[a + b] \in Int
      BY <1>4, <3>1
    <3>3. run[a + b] \in Int
      BY <1>2, <3>1
    <3>4. path[b + 1] = run[(a + b) + 1] - run[a] /\ path[b] = run[a + b] - run[a]
      BY <2>4, <3>1
    <3> QED BY <2>2, <2>5, <3>2, <3>3, <3>4
  <2>8. RunningSums(path, g, l)
    BY <2>6, <2>7 DEF RunningSums
  <2>9. Total(g, 0 .. l - 1) = path[l]
    BY <2>1, <2>8, SumUpTo
  <2>10. path[l] = run[a + l] - run[a]
    <3>1. l \in 0 .. l
      BY <2>1
    <3> QED BY <2>4, <3>1
  <2> QED BY <2>1, <2>3, <2>5, <2>9, <2>10 DEF a
<1>7. \A k \in 0 .. n - 1 : part[k] = StretchSum(f, t, k)
  BY DEF part
<1>8. \A k \in 0 .. n : stop[k] = run[t[k]]
  OBVIOUS
<1> HIDE DEF stop
<1>9. RunningSums(stop, part, n)
  <2>1. stop[0] = 0
    <3>1. 0 \in 0 .. n /\ t[0] = 0
      BY DEF Stops
    <3> QED BY <1>3, <1>8, <3>1
  <2>2. ASSUME NEW k \in 0 .. n - 1
        PROVE  part[k] \in Int /\ stop[k + 1] = part[k] + stop[k]
    <3>1. stop[k] = run[t[k]] /\ stop[k + 1] = run[t[k + 1]]
      BY <1>5, <1>8
    <3>2. run[t[k]] \in Int /\ run[t[k + 1]] \in Int
      BY <1>2, <1>5
    <3> QED BY <1>6, <1>7, <3>1, <3>2
  <2> QED BY <2>1, <2>2 DEF RunningSums
<1>10. Total(part, 0 .. n - 1) = stop[n]
  BY <1>9, SumUpTo
<1>11. stop[n] = Total(f, 0 .. all - 1)
  <2>1. n \in 0 .. n /\ all \in 0 .. all
    BY <1>1
  <2>2. stop[n] = run[all]
    BY <1>8, <2>1 DEF all
  <2> QED BY <1>2, <2>1, <2>2
<1> QED BY <1>6, <1>10, <1>11 DEF part, all

(***************************************************************************)
(* Products and their adjoints                                             *)
(***************************************************************************)

\* The place that meets y in coefficient x.
Meets(x) == [y \in Positions |-> IF y <= x THEN x - y ELSE Degree + x - y]

LEMMA MeetsOf ==
    ASSUME NEW x \in Positions
    PROVE  /\ \A y \in Positions : Meets(x)[y] \in Positions
           /\ Injective(Meets(x), Positions)
           /\ \A z \in Positions : \E y \in Positions : Meets(x)[y] = z
<1>1. ASSUME NEW y \in Positions
      PROVE  Meets(x)[y] = IF y <= x THEN x - y ELSE Degree + x - y
  BY DEF Meets
<1>2. ASSUME NEW y \in Positions
      PROVE  Meets(x)[y] \in Positions /\ Meets(x)[Meets(x)[y]] = y
  <2>1. /\ y \in Int /\ x \in Int /\ 0 <= y /\ y < Degree /\ 0 <= x /\ x < Degree
        /\ Degree \in Nat \ {0}
    BY PolynomialsAssumption DEF Positions
  <2>2. Meets(x)[y] \in Positions
    BY <1>1, Partner
  <2> DEFINE z == Meets(x)[y]
  <2>3. z = IF y <= x THEN x - y ELSE Degree + x - y
    BY <1>1
  <2>4. Meets(x)[z] = IF z <= x THEN x - z ELSE Degree + x - z
    BY <1>1, <2>2
  <2> HIDE DEF z
  <2>5. Meets(x)[z] = y
    BY <2>1, <2>3, <2>4
  <2> QED BY <2>2, <2>5 DEF z
<1>3. Injective(Meets(x), Positions)
  BY <1>2 DEF Injective
<1> QED BY <1>2, <1>3

\* Products commute.
LEMMA Commutes ==
    ASSUME NEW p, NEW r, \A x \in Positions : p[x] \in Int /\ r[x] \in Int, NEW j \in Positions
    PROVE  NegacyclicAt(p, r, j) = NegacyclicAt(r, p, j) /\ NegacyclicAt(p, r, j) \in Int
<1> DEFINE f == NegacyclicTerms(p, r, j)
           g == NegacyclicTerms(r, p, j)
           m == Meets(j)
<1>1. ASSUME NEW x \in Positions
      PROVE  /\ m[x] = IF x <= j THEN j - x ELSE Degree + j - x
             /\ m[x] \in Positions
             /\ f[x] = IF x <= j THEN p[x] * r[m[x]] ELSE -(p[x] * r[m[x]])
             /\ g[x] = IF x <= j THEN r[x] * p[m[x]] ELSE -(r[x] * p[m[x]])
  <2>1. m[x] = IF x <= j THEN j - x ELSE Degree + j - x
    BY DEF Meets
  <2>2. m[x] \in Positions
    BY MeetsOf
  <2> QED BY <2>1, <2>2 DEF NegacyclicTerms
<1>2. ASSUME NEW x \in Positions
      PROVE  m[m[x]] = x /\ (m[x] <= j <=> x <= j)
  <2>1. /\ x \in Int /\ j \in Int /\ 0 <= x /\ x < Degree /\ 0 <= j /\ j < Degree
        /\ Degree \in Nat \ {0}
    BY PolynomialsAssumption DEF Positions
  <2> DEFINE y == m[x]
  <2>2. y = IF x <= j THEN j - x ELSE Degree + j - x
    BY <1>1
  <2>3. m[y] = IF y <= j THEN j - y ELSE Degree + j - y
    BY <1>1
  <2> HIDE DEF y, m
  <2>4. m[y] = x /\ (y <= j <=> x <= j)
    BY <2>1, <2>2, <2>3
  <2> QED BY <2>4 DEF y
<1> HIDE DEF f, g
<1>3. ASSUME NEW x \in Positions
      PROVE  /\ Renamed(f, m, Positions)[x] = g[x] /\ g[x] \in Int /\ f[x] \in Int
             /\ Renamed(f, m, Positions)[x] \in Int
  <2>1. Renamed(f, m, Positions)[x] = f[m[x]]
    BY DEF Renamed
  <2> DEFINE y == m[x]
  <2>2. f[y] = IF y <= j THEN p[y] * r[m[y]] ELSE -(p[y] * r[m[y]])
    BY <1>1
  <2>3. m[y] = x /\ (y <= j <=> x <= j) /\ y \in Positions
    BY <1>1, <1>2
  <2>4. g[x] = IF x <= j THEN r[x] * p[y] ELSE -(r[x] * p[y])
    BY <1>1
  <2>5. f[x] = IF x <= j THEN p[x] * r[y] ELSE -(p[x] * r[y])
    BY <1>1
  <2> HIDE DEF y, m
  <2>6. p[x] \in Int /\ r[x] \in Int /\ p[y] \in Int /\ r[y] \in Int
    BY <2>3
  <2>7. p[y] * r[x] = r[x] * p[y] /\ r[x] * p[y] \in Int /\ p[x] * r[y] \in Int
    BY <2>6
  <2>8. f[y] = g[x] /\ g[x] \in Int /\ f[x] \in Int
    BY <2>2, <2>3, <2>4, <2>5, <2>7
  <2> QED BY <2>1, <2>8 DEF y
<1>4. IsFiniteSet(Positions)
  BY PositionsOf
<1>5. Total(Renamed(f, m, Positions), Positions) = Total(f, Positions)
  <2>1. IntegerOver(f, Positions)
    BY <1>3 DEF IntegerOver
  <2>2. /\ \A y \in Positions : m[y] \in Positions
        /\ Injective(m, Positions)
        /\ \A z \in Positions : \E y \in Positions : m[y] = z
    BY MeetsOf
  <2> HIDE DEF m
  <2> QED BY <1>4, <2>1, <2>2, Renaming
<1>6. /\ Total(Renamed(f, m, Positions), Positions) = Total(g, Positions)
      /\ Total(Renamed(f, m, Positions), Positions) \in Int
  <2> DEFINE h == Renamed(f, m, Positions)
  <2>1. \A x \in Positions : h[x] = g[x] /\ h[x] \in Int
    BY <1>3
  <2> HIDE DEF h, m
  <2>2. Total(h, Positions) = Total(g, Positions) /\ Total(h, Positions) \in Int
    BY <1>4, <2>1, TotalsEqual
  <2> QED BY <2>2 DEF h
<1> QED BY <1>5, <1>6, NegacyclicIs DEF f, g

(***************************************************************************)
(* Numbers that a coefficient cannot tell apart                            *)
(***************************************************************************)

Congruent(x, y) == x \in Int /\ y \in Int /\ \E k \in Int : x = y + 2 ^ CoeffBits * k

LEMMA CongruentIs ==
    ASSUME NEW x, NEW y
    PROVE  /\ Congruent(x, y) <=> Combined(x, y, 0, 0, 2 ^ CoeffBits)
           /\ 2 ^ CoeffBits \in Nat \ {0}
<1> DEFINE W == 2 ^ CoeffBits
<1>1. W \in Nat \ {0}
  BY PolynomialsAssumption, SmallPower
<1> HIDE DEF W
<1>2. ASSUME Congruent(x, y)
      PROVE  Combined(x, y, 0, 0, W)
  <2>1. x \in Int /\ y \in Int /\ \E k \in Int : x = y + W * k
    BY <1>2 DEF Congruent, W
  <2>2. PICK k \in Int : x = y + W * k
    BY <2>1
  <2>3. y = y + 0 * 0 /\ x = y + 0 * 0 + W * k
    BY <1>1, <2>1, <2>2
  <2> QED BY <2>1, <2>3 DEF Combined
<1>3. ASSUME Combined(x, y, 0, 0, W)
      PROVE  Congruent(x, y)
  <2>1. x \in Int /\ y \in Int
    BY <1>3 DEF Combined
  <2>2. PICK k \in Int : x = y + 0 * 0 + W * k
    BY <1>3 DEF Combined
  <2>3. x = y + W * k
    BY <1>1, <2>1, <2>2
  <2> QED BY <2>1, <2>3 DEF Congruent, W
<1> QED BY <1>1, <1>2, <1>3 DEF W

LEMMA CongruentRules ==
    /\ \A x \in Int : Congruent(x, x) /\ Congruent(ToCoeff(x), x)
    /\ \A x, y : Congruent(x, y) => Congruent(y, x) /\ ToCoeff(x) = ToCoeff(y)
    /\ \A x, y, z : Congruent(x, y) /\ Congruent(y, z) => Congruent(x, z)
    /\ \A x, y : Congruent(x, y) => \A c \in Int : Congruent(c * x, c * y)
<1> DEFINE W == 2 ^ CoeffBits
<1>1. W \in Nat \ {0}
  BY PolynomialsAssumption, SmallPower
<1>2. ASSUME NEW x, NEW y
      PROVE  Congruent(x, y) <=> x \in Int /\ y \in Int /\ \E k \in Int : x = y + W * k
  BY DEF Congruent
<1>3. \A x : ToCoeff(x) = x % W
  BY DEF ToCoeff
<1> HIDE DEF W
<1>4. ASSUME NEW x \in Int
      PROVE  Congruent(x, x) /\ Congruent(ToCoeff(x), x)
  <2>1. x = x + W * 0 /\ 0 \in Int
    BY <1>1
  <2>2. (x % W) \in Int /\ x = W * (x \div W) + (x % W) /\ (x \div W) \in Int
    <3>1. (x % W) \in 0 .. W - 1 /\ (x \div W) \in Int /\ x = W * (x \div W) + (x % W)
      BY <1>1, Division
    <3> QED BY <3>1
  <2>3. (x % W) = x + W * (-(x \div W)) /\ -(x \div W) \in Int
    BY <1>1, <2>2
  <2> QED BY <1>2, <1>3, <2>1, <2>2, <2>3
<1>5. ASSUME NEW x, NEW y, Congruent(x, y)
      PROVE  Congruent(y, x) /\ ToCoeff(x) = ToCoeff(y)
  <2>1. x \in Int /\ y \in Int
    BY <1>2, <1>5
  <2>2. PICK k \in Int : x = y + W * k
    BY <1>2, <1>5
  <2>3. y = x + W * (-k) /\ -k \in Int
    BY <1>1, <2>1, <2>2
  <2>4. (y + W * k) % W = y % W
    BY <1>1, <2>1, SameResidue
  <2> QED BY <1>2, <1>3, <2>1, <2>2, <2>3, <2>4
<1>6. ASSUME NEW x, NEW y, NEW z, Congruent(x, y), Congruent(y, z)
      PROVE  Congruent(x, z)
  <2>1. x \in Int /\ y \in Int /\ z \in Int
    BY <1>2, <1>6
  <2>2. PICK k \in Int : x = y + W * k
    BY <1>2, <1>6
  <2>3. PICK l \in Int : y = z + W * l
    BY <1>2, <1>6
  <2>4. x = z + W * (k + l) /\ k + l \in Int
    BY <1>1, <2>1, <2>2, <2>3
  <2> QED BY <1>2, <2>1, <2>4
<1>7. ASSUME NEW x, NEW y, Congruent(x, y), NEW c \in Int
      PROVE  Congruent(c * x, c * y)
  <2>1. x \in Int /\ y \in Int
    BY <1>2, <1>7
  <2>2. PICK k \in Int : x = y + W * k
    BY <1>2, <1>7
  <2>3. c * x = c * y + W * (c * k) /\ c * k \in Int /\ c * x \in Int /\ c * y \in Int
    BY <1>1, <2>1, <2>2
  <2> QED BY <1>2, <2>3
<1> QED BY <1>4, <1>5, <1>6, <1>7

LEMMA CongruentTotals ==
    ASSUME NEW S, IsFiniteSet(S), NEW f, NEW g, \A x \in S : Congruent(f[x], g[x])
    PROVE  Congruent(Total(f, S), Total(g, S))
<1> DEFINE W == 2 ^ CoeffBits
           zero == [x \in S |-> 0]
<1>1. W \in Int
  BY CongruentIs
<1>2. \A x \in S : Combined(f[x], g[x], 0, 0, W)
  BY CongruentIs
<1> HIDE DEF W
<1>3. Combines(f, g, 0, g, W, S)
  <2> SUFFICES ASSUME NEW x \in S
               PROVE  Combined(f[x], g[x], 0, g[x], W)
    BY DEF Combines
  <2>1. f[x] \in Int /\ g[x] \in Int
    BY <1>2 DEF Combined
  <2>2. PICK k \in Int : f[x] = g[x] + 0 * 0 + W * k
    BY <1>2 DEF Combined
  <2>3. f[x] = g[x] + 0 * g[x] + W * k
    BY <2>1, <2>2
  <2> QED BY <2>1, <2>3 DEF Combined
<1> DEFINE F == Total(f, S)
           G == Total(g, S)
<1>4. Combined(F, G, 0, G, W)
  BY <1>1, <1>3, CombinedTotals
<1> HIDE DEF F, G
<1>5. F \in Int /\ G \in Int
  BY <1>4 DEF Combined
<1>6. PICK k \in Int : F = G + 0 * G + W * k
  BY <1>4 DEF Combined
<1>7. F = G + W * k
  BY <1>1, <1>5, <1>6
<1> QED BY <1>5, <1>7 DEF Congruent, W, F, G

\* A constant factor.
IsMultiple(h, c, g, S) == \A x \in S : g[x] \in Int /\ h[x] = c * g[x]

LEMMA TimesTotal ==
    ASSUME NEW S, IsFiniteSet(S), NEW h, NEW g, NEW c \in Int, IsMultiple(h, c, g, S)
    PROVE  Total(h, S) = c * Total(g, S) /\ Total(h, S) \in Int /\ Total(g, S) \in Int
<1>1. Scales(h, c, g, 0, S)
  <2> SUFFICES ASSUME NEW x \in S
               PROVE  Combined(h[x], 0, c, g[x], 0)
    BY DEF Scales
  <2>1. g[x] \in Int /\ h[x] = c * g[x] /\ c * g[x] \in Int
    BY DEF IsMultiple
  <2>2. h[x] = 0 + c * g[x] + 0 * 0
    BY <2>1
  <2> QED BY <2>1, <2>2 DEF Combined
<1> DEFINE H == Total(h, S)
           G == Total(g, S)
<1>2. Combined(H, 0, c, G, 0)
  BY <1>1, Multiples
<1> HIDE DEF H, G
<1>3. H \in Int /\ G \in Int /\ \E k \in Int : H = 0 + c * G + 0 * k
  BY <1>2 DEF Combined
<1>4. H = c * G
  BY <1>3
<1> QED BY <1>3, <1>4 DEF H, G

\* The terms of an inner product of a product with S: what coefficient j gets
\* from coefficient x of B.
AdjointTerms(B, a, S) ==
    [j \in Positions |-> [x \in Positions |-> S[j] * NegacyclicTerms(B, Inverted(a), j)[x]]]

InvertedAt(a, y) == IF y = 0 THEN a[0] ELSE ToCoeff(-a[Degree - y])

\* They are those that coefficient x gets from coefficient j of S.
LEMMA AdjointTerm ==
    ASSUME NEW B, NEW a, NEW S,
           \A x \in Positions : B[x] \in Int /\ a[x] \in Int /\ S[x] \in Int,
           NEW j \in Positions, NEW x \in Positions
    PROVE  /\ NegacyclicTerms(B, Inverted(a), j)[x] \in Int
           /\ AdjointTerms(B, a, S)[j][x] \in Int /\ NegacyclicTerms(S, a, x)[j] \in Int
           /\ Congruent(AdjointTerms(B, a, S)[j][x], B[x] * NegacyclicTerms(S, a, x)[j])
<1> DEFINE I == Inverted(a)
           b == B[x]
           s == S[j]
           y == IF x <= j THEN j - x ELSE Degree + j - x
           z == IF j <= x THEN x - j ELSE Degree + x - j
           u == a[z]
           v == I[y]
           t == NegacyclicTerms(B, I, j)[x]
           r == NegacyclicTerms(S, a, x)[j]
           f == AdjointTerms(B, a, S)[j][x]
<1>1. /\ j \in Int /\ 0 <= j /\ j < Degree /\ x \in Int /\ 0 <= x /\ x < Degree
      /\ Degree \in Nat \ {0}
  BY PolynomialsAssumption DEF Positions
<1>2. y \in Positions /\ z \in Positions
  BY Partner
<1>3. \A i \in Positions : I[i] = InvertedAt(a, i)
  <2>1. Inverted(a) = [i \in Positions |-> IF i = 0 THEN a[0] ELSE ToCoeff(-a[Degree - i])]
    BY TabulatedIs, Zenon DEF Inverted, Poly
  <2> QED BY <2>1, Zenon DEF InvertedAt
<1>4. v = InvertedAt(a, y)
  BY <1>2, <1>3
<1>5. t = IF x <= j THEN b * v ELSE -(b * v)
  BY DEF NegacyclicTerms
<1>6. r = IF j <= x THEN s * u ELSE -(s * u)
  BY DEF NegacyclicTerms
<1>7. f = s * t
  BY Zenon DEF AdjointTerms
<1>8. b \in Int /\ s \in Int /\ u \in Int
  BY <1>2
<1>9. /\ x = j => y = 0 /\ z = 0
      /\ x # j => y # 0 /\ Degree - y = z
  BY <1>1
<1> HIDE DEF b, s, y, z, I, v, u, t, r, f
<1>10. IF x = j THEN v = u ELSE v = ToCoeff(-u)
  BY <1>4, <1>9 DEF InvertedAt, u
<1>11. Congruent(v, IF x = j THEN u ELSE -u)
  <2>1. u \in Int /\ -u \in Int
    BY <1>8
  <2> QED BY <1>10, <2>1, CongruentRules
<1>12. v \in Int
  BY <1>11 DEF Congruent
<1>13. t \in Int /\ f \in Int /\ r \in Int
  <2>1. b * v \in Int /\ s * u \in Int
    BY <1>8, <1>12
  <2>2. t \in Int /\ r \in Int
    BY <1>5, <1>6, <2>1
  <2> QED BY <1>7, <1>8, <2>2
<1> DEFINE c == IF x <= j THEN s * b ELSE -(s * b)
           w == IF x = j THEN u ELSE -u
<1>14. c \in Int /\ w \in Int
  <2>1. s * b \in Int
    BY <1>8
  <2> QED BY <1>8, <2>1
<1>15. f = c * v
  <2>1. s * (b * v) = (s * b) * v /\ s * (-(b * v)) = -((s * b) * v)
        /\ (-(s * b)) * v = -((s * b) * v)
    BY <1>8, <1>12
  <2> QED BY <1>5, <1>7, <2>1
<1>16. b * r = c * w
  <2> DEFINE e == (s * b) * u
  <2>1. b * (s * u) = e /\ b * (-(s * u)) = -e /\ (s * b) * (-u) = -e /\ (-(s * b)) * (-u) = e
        /\ (-(s * b)) * u = -e /\ (s * b) * u = e
    BY <1>8
  <2>2. CASE x = j
    BY <1>1, <1>6, <2>1, <2>2
  <2>3. CASE x < j
    BY <1>1, <1>6, <2>1, <2>3
  <2>4. CASE x > j
    BY <1>1, <1>6, <2>1, <2>4
  <2> QED BY <1>1, <2>2, <2>3, <2>4
<1> HIDE DEF c, w
<1>17. Congruent(c * v, c * w)
  BY <1>11, <1>14, CongruentRules DEF w
<1> QED BY <1>13, <1>15, <1>16, <1>17 DEF t, f, r, b, I

\* The inner product of S with a product by an inverted component is that of
\* the other factor with the product of the component by S.
LEMMA Adjoint ==
    ASSUME NEW B, NEW a, NEW S,
           \A x \in Positions : B[x] \in Int /\ a[x] \in Int /\ S[x] \in Int
    PROVE  Congruent(Total([j \in Positions |-> S[j] * NegacyclicAt(B, Inverted(a), j)],
                           Positions),
                     Total([x \in Positions |-> B[x] * NegacyclicAt(S, a, x)], Positions))
<1> DEFINE F == AdjointTerms(B, a, S)
           P == Positions
           left == [j \in P |-> S[j] * NegacyclicAt(B, Inverted(a), j)]
           right == [x \in P |-> B[x] * NegacyclicAt(S, a, x)]
<1>1. IsFiniteSet(P)
  BY PositionsOf
<1>2. ASSUME NEW j \in P
      PROVE  Total(F[j], P) = left[j] /\ IntegerOver(F[j], P)
  <2> DEFINE g == NegacyclicTerms(B, Inverted(a), j)
             h == F[j]
  <2>1. \A x \in P : g[x] \in Int /\ h[x] \in Int /\ h[x] = S[j] * g[x]
    <3>1. \A x \in P : h[x] = S[j] * g[x]
      BY Zenon DEF AdjointTerms
    <3> QED BY <3>1, AdjointTerm
  <2>2. left[j] = S[j] * Total(g, P)
    BY NegacyclicIs, Zenon
  <2>3. S[j] \in Int
    OBVIOUS
  <2> HIDE DEF g, h, left, P
  <2>4. Total(h, P) = S[j] * Total(g, P)
    BY <1>1, <2>1, <2>3, TimesTotal DEF IsMultiple
  <2> QED BY <2>1, <2>2, <2>4 DEF h, IntegerOver
<1>3. ASSUME NEW x \in P
      PROVE  Congruent(Across(F, P, P)[x], right[x])
  <2> DEFINE g == NegacyclicTerms(S, a, x)
             h == [j \in P |-> F[j][x]]
             k == [j \in P |-> B[x] * g[j]]
  <2>1. \A j \in P : h[j] = F[j][x] /\ k[j] = B[x] * g[j]
    BY Zenon
  <2>2. \A j \in P : g[j] \in Int /\ Congruent(h[j], k[j])
    BY <2>1, AdjointTerm
  <2>3. right[x] = B[x] * Total(g, P)
    BY NegacyclicIs, Zenon
  <2>4. Across(F, P, P)[x] = Total(h, P)
    BY Zenon DEF Across
  <2>5. B[x] \in Int
    OBVIOUS
  <2> HIDE DEF g, h, k, F, right, P
  <2>6. Total(k, P) = B[x] * Total(g, P)
    BY <1>1, <2>1, <2>2, <2>5, TimesTotal DEF IsMultiple
  <2>7. Congruent(Total(h, P), Total(k, P))
    BY <1>1, <2>2, CongruentTotals
  <2> QED BY <2>3, <2>4, <2>6, <2>7
<1>4. Inner(F, P, P) = left
  BY <1>2, Zenon DEF Inner
<1> HIDE DEF F, P, right, left
<1>5. Total(left, P) = Total(Across(F, P, P), P)
  BY <1>1, <1>2, <1>4, Exchange
<1>6. Congruent(Total(Across(F, P, P), P), Total(right, P))
  BY <1>1, <1>3, CongruentTotals
<1> QED BY <1>5, <1>6 DEF left, right, P

(***************************************************************************)
(* Hints                                                                   *)
(***************************************************************************)

\* A block of the columns of a row.
BlockAt(db, r, k) == [x \in Positions |-> Entry(db, r, k * Degree + x)]

\* What ComputeHintMatrix computes in one go.
BatchBlocks(db, safeN, n, r, start) ==
    Vector(Min({safeN, n - start}),
           LAMBDA b : Poly(LAMBDA x : Entry(db, r, (start + b) * Degree + x)))

BatchComponents(halves, safeN, n, start) ==
    Vector(Min({safeN, n - start}), LAMBDA b : Inverted(halves[start + b]))

HintBatch(db, halves, dbBits, aBits, safeN, n, r, start) ==
    InnerProductFft(BatchBlocks(db, safeN, n, r, start), BatchComponents(halves, safeN, n, start),
                    dbBits, aBits, FALSE)

HintRow(db, halves, dbBits, aBits, safeN, n, r) ==
    LET batches == (n + safeN - 1) \div safeN
        parts == Vector(batches,
                        LAMBDA k : HintBatch(db, halves, dbBits, aBits, safeN, n, r, k * safeN))
    IN  Poly(LAMBDA j : ToCoeff(SumFunctionOnSet([k \in 0 .. batches - 1 |-> parts[k][j]],
                                                 0 .. batches - 1)))

HintRows(db, halves, dbBits, aBits, safeN, n) ==
    [r \in 0 .. db.rows - 1 |-> HintRow(db, halves, dbBits, aBits, safeN, n, r)]

LEMMA HintInRows ==
    ASSUME NEW db, NEW halves, NEW dbBits, NEW aBits, NEW safeN, NEW n,
           n = Cardinality(DOMAIN halves)
    PROVE  ComputeHintMatrix(db, halves, dbBits, aBits, safeN)
               = HintRows(db, halves, dbBits, aBits, safeN, n)
<1> DEFINE c == Cardinality(DOMAIN halves)
<1>1. ComputeHintMatrix(db, halves, dbBits, aBits, safeN)
          = Vector(db.rows, LAMBDA r : HintRow(db, halves, dbBits, aBits, safeN, c, r))
  BY Zenon DEF ComputeHintMatrix, HintRow, HintBatch, BatchBlocks, BatchComponents
<1>2. Vector(db.rows, LAMBDA r : HintRow(db, halves, dbBits, aBits, safeN, c, r))
          = HintRows(db, halves, dbBits, aBits, safeN, c)
  BY TabulatedIs, Zenon DEF Vector, HintRows
<1>3. n = c
  OBVIOUS
<1> HIDE DEF c
<1> QED BY <1>1, <1>2, <1>3

BatchTerms(db, halves, dbBits, aBits, safeN, n, m, r, j) ==
    [k \in 0 .. m - 1 |-> HintBatch(db, halves, dbBits, aBits, safeN, n, r, k * safeN)[j]]

IsNumBatches(m, n, safeN) == m = (n + safeN - 1) \div safeN

IsRow(db, r) == r \in 0 .. db.rows - 1

HintCase(hint, db, halves, dbBits, aBits, safeN, n, m, r) ==
    /\ n = Cardinality(DOMAIN halves) /\ IsRow(db, r) /\ IsNumBatches(m, n, safeN)
    /\ hint = ComputeHintMatrix(db, halves, dbBits, aBits, safeN)

IsPoly(p) == p = [x \in Positions |-> p[x]]

LEMMA HintInBatches ==
    ASSUME NEW hint, NEW db, NEW halves, NEW dbBits, NEW aBits, NEW safeN, NEW n, NEW m, NEW r,
           HintCase(hint, db, halves, dbBits, aBits, safeN, n, m, r), NEW j \in Positions
    PROVE  /\ hint[r][j]
                  = ToCoeff(Total(BatchTerms(db, halves, dbBits, aBits, safeN, n, m, r, j),
                                  0 .. m - 1))
           /\ DOMAIN hint = 0 .. db.rows - 1
           /\ IsPoly(hint[r])
<1> DEFINE Part(k) == HintBatch(db, halves, dbBits, aBits, safeN, n, r, k * safeN)
           parts == Vector(m, LAMBDA k : Part(k))
           row == HintRow(db, halves, dbBits, aBits, safeN, n, r)
           Sum(x) == ToCoeff(SumFunctionOnSet([k \in 0 .. m - 1 |-> parts[k][x]], 0 .. m - 1))
           h == [x \in Positions |-> Sum(x)]
<1>1. hint[r] = row /\ DOMAIN hint = 0 .. db.rows - 1
  <2> DEFINE rows == HintRows(db, halves, dbBits, aBits, safeN, n)
  <2>1. ComputeHintMatrix(db, halves, dbBits, aBits, safeN) = rows
    BY HintInRows DEF HintCase
  <2>2. rows[r] = row /\ DOMAIN rows = 0 .. db.rows - 1
    BY Zenon DEF HintRows, IsRow, HintCase
  <2> HIDE DEF rows, row
  <2> QED BY <2>1, <2>2 DEF HintCase
<1>2. row = h
  <2> DEFINE M == (n + safeN - 1) \div safeN
             whole == Vector(M, LAMBDA k : Part(k))
  <2>1. row = [x \in Positions |->
                  ToCoeff(SumFunctionOnSet([k \in 0 .. M - 1 |-> whole[k][x]], 0 .. M - 1))]
    BY TabulatedIs, Zenon DEF HintRow, Poly
  <2>2. m = M
    BY DEF IsNumBatches, HintCase
  <2> HIDE DEF row, M, Part
  <2> QED BY <2>1, <2>2
<1>3. parts = [k \in 0 .. m - 1 |-> Part(k)]
  BY TabulatedIs, Zenon DEF Vector
<1>4. h[j] = Sum(j) /\ h = [x \in Positions |-> h[x]]
  BY Zenon
<1> HIDE DEF row, h, Part, parts
<1>5. [k \in 0 .. m - 1 |-> parts[k][j]] = [k \in 0 .. m - 1 |-> Part(k)[j]]
  BY <1>3
<1>6. Sum(j) = ToCoeff(Total([k \in 0 .. m - 1 |-> Part(k)[j]], 0 .. m - 1))
  BY <1>5, SumsOver, Zenon
<1>7. [k \in 0 .. m - 1 |-> Part(k)[j]] = BatchTerms(db, halves, dbBits, aBits, safeN, n, m, r, j)
  BY Zenon DEF Part, BatchTerms
<1>8. hint[r][j]
          = ToCoeff(Total(BatchTerms(db, halves, dbBits, aBits, safeN, n, m, r, j), 0 .. m - 1))
  BY <1>1, <1>2, <1>4, <1>6, <1>7, Zenon
<1>9. IsPoly(hint[r])
  BY <1>1, <1>2, <1>4, Zenon DEF IsPoly
<1> QED BY <1>1, <1>8, <1>9, Zenon

\* Entries of n blocks, and components of so many.
EntriesFit(db, r, n, bits) ==
    \A k \in 0 .. n - 1 : \A x \in Positions : Entry(db, r, k * Degree + x) \in 0 .. 2 ^ bits - 1

\* What row r gets from block k at coefficient j.
BlockProducts(db, halves, r, n, j) ==
    [k \in 0 .. n - 1 |-> NegacyclicAt(BlockAt(db, r, k), Inverted(halves[k]), j)]

LEMMA SmallerOf ==
    ASSUME NEW a \in Int, NEW b \in Int
    PROVE  Min({a, b}) = IF a <= b THEN a ELSE b
<1> DEFINE m == IF a <= b THEN a ELSE b
           S == {a, b}
           Q(x) == \A y \in S : x <= y
<1>1. m \in S /\ Q(m)
  OBVIOUS
<1>2. Min(S) \in S /\ Q(Min(S))
  BY <1>1, Zenon DEF Min
<1>3. S = {a, b} /\ Min(S) = Min({a, b})
  OBVIOUS
<1> QED BY <1>1, <1>2

LEMMA InvertedOf ==
    ASSUME NEW a, \A x \in Positions : a[x] \in 0 .. 2 ^ CoeffBits - 1, NEW y \in Positions
    PROVE  Inverted(a)[y] \in 0 .. 2 ^ CoeffBits - 1
<1> DEFINE W == 2 ^ CoeffBits
           f == [i \in Positions |-> IF i = 0 THEN a[0] ELSE ToCoeff(-a[Degree - i])]
<1>1. Inverted(a) = f
  BY TabulatedIs, Zenon DEF Inverted, Poly
<1>2. f[y] = IF y = 0 THEN a[0] ELSE (-a[Degree - y]) % W
  BY DEF ToCoeff
<1>3. W \in Nat \ {0}
  BY PolynomialsAssumption, SmallPower
<1>4. 0 \in Positions /\ (y # 0 => Degree - y \in Positions)
  BY PolynomialsAssumption DEF Positions
<1>5. \A x \in Positions : a[x] \in 0 .. W - 1
  OBVIOUS
<1> HIDE DEF W, f
<1>6. ASSUME y # 0
      PROVE  ((-a[Degree - y]) % W) \in 0 .. W - 1
  <2>1. -a[Degree - y] \in Int
    BY <1>3, <1>4, <1>5, <1>6
  <2> QED BY <1>3, <2>1, Division
<1>7. f[y] \in 0 .. W - 1
  BY <1>2, <1>4, <1>5, <1>6
<1> QED BY <1>1, <1>7 DEF W

\* The values of a function from a place on.
From(f, start, size) == [b \in 0 .. size - 1 |-> f[start + b]]

IsBatchSize(size, n, safeN, start) == size = IF safeN <= n - start THEN safeN ELSE n - start

BatchCase(n, safeN, start, size, db, halves, r, bits) ==
    /\ n \in Nat /\ safeN \in Nat \ {0} /\ start \in 0 .. n - 1
    /\ IsBatchSize(size, n, safeN, start)
    /\ bits \in 1 .. CoeffBits
    /\ EntriesFit(db, r, n, bits) /\ Operand(halves, CoeffBits, 0 .. n - 1)

LEMMA BatchIs ==
    ASSUME NEW n, NEW safeN, NEW start, NEW size, NEW db, NEW halves, NEW r, NEW bits,
           BatchCase(n, safeN, start, size, db, halves, r, bits), NEW j \in Positions
    PROVE  HintBatch(db, halves, bits, CoeffBits, safeN, n, r, start)[j]
               = ToCoeff(Total(From(BlockProducts(db, halves, r, n, j), start, size),
                               0 .. size - 1))
<1> DEFINE u == BatchBlocks(db, safeN, n, r, start)
           v == BatchComponents(halves, safeN, n, start)
           I == 0 .. size - 1
           B == BlockProducts(db, halves, r, n, j)
           f == From(B, start, size)
           no == FALSE
           smaller == Min({safeN, n - start})
<1>0. /\ n \in Nat /\ safeN \in Nat \ {0} /\ start \in 0 .. n - 1
      /\ IsBatchSize(size, n, safeN, start)
      /\ bits \in 1 .. CoeffBits
      /\ EntriesFit(db, r, n, bits) /\ Operand(halves, CoeffBits, 0 .. n - 1)
  BY DEF BatchCase
<1>1. size \in Nat /\ smaller = size /\ IsFiniteSet(I)
  <2>1. safeN \in Int /\ n - start \in Int /\ size \in Nat
    BY <1>0 DEF IsBatchSize
  <2>2. smaller = size
    BY <1>0, <2>1, SmallerOf DEF IsBatchSize
  <2>3. size - 1 \in Int
    BY <2>1
  <2>4. IsFiniteSet(I)
    <3> DEFINE last == size - 1
    <3>1. last \in Int /\ 0 \in Int /\ I = 0 .. last
      BY <2>3
    <3> HIDE DEF last, I
    <3>2. IsFiniteSet(0 .. last)
      BY <3>1, FS_Interval
    <3> QED BY <3>1, <3>2
  <2> QED BY <2>1, <2>2, <2>4
<1>2. ASSUME NEW b \in I
      PROVE  start + b \in 0 .. n - 1
  <2>1. size <= n - start /\ size \in Nat
    BY <1>0 DEF IsBatchSize
  <2> QED BY <1>0, <2>1
<1>3. u = [b \in 0 .. smaller - 1 |->
              [x \in Positions |-> Entry(db, r, (start + b) * Degree + x)]]
  BY TabulatedIs, Zenon DEF BatchBlocks, Vector, Poly
<1>4. v = [b \in 0 .. smaller - 1 |-> Inverted(halves[start + b])]
  BY TabulatedIs, Zenon DEF BatchComponents, Vector
<1> HIDE DEF u, v, smaller
<1>5. /\ DOMAIN u = I /\ DOMAIN v = I
      /\ \A b \in I : u[b] = BlockAt(db, r, start + b) /\ v[b] = Inverted(halves[start + b])
  <2>1. u = [b \in I |-> [x \in Positions |-> Entry(db, r, (start + b) * Degree + x)]]
        /\ v = [b \in I |-> Inverted(halves[start + b])]
    BY <1>1, <1>3, <1>4
  <2> QED BY <2>1, Zenon DEF BlockAt
<1>6. Operand(u, bits, I)
  <2> SUFFICES ASSUME NEW b \in I, NEW x \in Positions
               PROVE  u[b][x] \in 0 .. 2 ^ bits - 1
    BY DEF Operand
  <2>1. u[b][x] = Entry(db, r, (start + b) * Degree + x)
    BY <1>5 DEF BlockAt
  <2> QED BY <1>0, <1>2, <2>1 DEF EntriesFit
<1>7. Operand(v, CoeffBits, I)
  <2> SUFFICES ASSUME NEW b \in I, NEW x \in Positions
               PROVE  v[b][x] \in 0 .. 2 ^ CoeffBits - 1
    BY DEF Operand
  <2>1. \A y \in Positions : halves[start + b][y] \in 0 .. 2 ^ CoeffBits - 1
    BY <1>0, <1>2 DEF Operand
  <2>2. v[b] = Inverted(halves[start + b])
    BY <1>5
  <2> QED BY <2>1, <2>2, InvertedOf
<1>8. CoeffBits \in 1 .. CoeffBits /\ no \in BOOLEAN
  BY PolynomialsAssumption
<1>9. LeftOperand(u, bits, no, I)
  BY <1>6 DEF LeftOperand
<1>10. HintBatch(db, halves, bits, CoeffBits, safeN, n, r, start)
           = InnerProductFft(u, v, bits, CoeffBits, no)
  BY Zenon DEF HintBatch, u, v
<1> HIDE DEF no
<1>11. InnerProductFft(u, v, bits, CoeffBits, no)[j] = ToCoeff(Convolved(u, v, I, j))
  <2> HIDE DEF I
  <2> QED BY <1>0, <1>1, <1>5, <1>7, <1>8, <1>9, InnerProductIs
<1>12. ConvolutionTerms(u, v, I, j) = f
  <2>1. \A b \in I : NegacyclicAt(u[b], v[b], j) = B[start + b]
    BY <1>2, <1>5 DEF BlockProducts
  <2> QED BY <2>1 DEF ConvolutionTerms, From
<1>13. Convolved(u, v, I, j) = Total(f, I)
  BY <1>12 DEF Convolved
<1> QED BY <1>10, <1>11, <1>13

LEMMA BlockProductsOf ==
    ASSUME NEW n \in Nat, NEW db, NEW halves, NEW r, NEW bits \in 1 .. CoeffBits,
           EntriesFit(db, r, n, bits), Operand(halves, CoeffBits, 0 .. n - 1), NEW j \in Positions
    PROVE  /\ IntegerOver(BlockProducts(db, halves, r, n, j), 0 .. n - 1)
           /\ \A k \in 0 .. n - 1 : \A x \in Positions :
                  BlockAt(db, r, k)[x] \in Int /\ halves[k][x] \in Int
<1> DEFINE V == 2 ^ bits
           W == 2 ^ CoeffBits
<1>1. V \in Nat /\ W \in Nat
  BY PolynomialsAssumption, SmallPower
<1>2. ASSUME NEW k \in 0 .. n - 1, NEW x \in Positions
      PROVE  BlockAt(db, r, k)[x] \in Int /\ halves[k][x] \in Int /\ Inverted(halves[k])[x] \in Int
  <2>1. BlockAt(db, r, k)[x] = Entry(db, r, k * Degree + x)
    BY DEF BlockAt
  <2>2. Entry(db, r, k * Degree + x) \in 0 .. V - 1
    BY DEF EntriesFit
  <2>3. \A y \in Positions : halves[k][y] \in 0 .. W - 1
    BY DEF Operand
  <2>4. Inverted(halves[k])[x] \in 0 .. W - 1
    BY <2>3, InvertedOf
  <2> HIDE DEF V, W
  <2>5. halves[k][x] \in 0 .. W - 1
    BY <2>3
  <2>6. \A z : z \in 0 .. V - 1 \/ z \in 0 .. W - 1 => z \in Int
    BY <1>1
  <2> QED BY <2>1, <2>2, <2>4, <2>5, <2>6, Zenon
<1>3. ASSUME NEW k \in 0 .. n - 1
      PROVE  BlockProducts(db, halves, r, n, j)[k] \in Int
  <2>1. NegacyclicAt(BlockAt(db, r, k), Inverted(halves[k]), j) \in Int
    BY <1>2, Commutes
  <2> QED BY <2>1 DEF BlockProducts
<1> QED BY <1>2, <1>3 DEF IntegerOver

\* Where the batches of n blocks begin and end.
BatchStops(n, safeN, m) == [k \in 0 .. m |-> IF k * safeN <= n THEN k * safeN ELSE n]

AreBatches(t, n, safeN, m) ==
    /\ m \in Nat \ {0} /\ Stops(t, m) /\ t[m] = n
    /\ \A k \in 0 .. m - 1 :
           /\ k * safeN \in 0 .. n - 1 /\ t[k] = k * safeN
           /\ IsBatchSize(t[k + 1] - t[k], n, safeN, k * safeN)

LEMMA BatchStopsOf ==
    ASSUME NEW n \in Nat \ {0}, NEW safeN \in Nat \ {0}, NEW m, IsNumBatches(m, n, safeN)
    PROVE  AreBatches(BatchStops(n, safeN, m), n, safeN, m)
<1> DEFINE t == BatchStops(n, safeN, m)
           a == n + safeN - 1
<1>1. m \in Nat /\ m * safeN <= a /\ a < m * safeN + safeN
  <2>1. a \in Int /\ a >= 0 /\ m = a \div safeN
    BY DEF IsNumBatches
  <2> HIDE DEF a
  <2>2. m \in Nat /\ (a % safeN) \in 0 .. safeN - 1 /\ a = safeN * m + (a % safeN)
    BY <2>1, Division
  <2>3. safeN * m = m * safeN /\ m * safeN \in Nat
    BY <2>2
  <2> QED BY <2>1, <2>2, <2>3
<1>2. n <= m * safeN /\ m * safeN \in Nat
  BY <1>1
<1>3. m # 0
  BY <1>2
<1>4. ASSUME NEW k \in 0 .. m
      PROVE  /\ t[k] = IF k * safeN <= n THEN k * safeN ELSE n
             /\ k * safeN \in Nat
  BY DEF BatchStops
<1>5. t[m] = n
  BY <1>1, <1>2, <1>4
<1>6. t[0] = 0
  BY <1>1, <1>4
<1> HIDE DEF t
<1>7. ASSUME NEW k \in 0 .. m - 1
      PROVE  /\ k * safeN \in 0 .. n - 1 /\ t[k] = k * safeN
             /\ t[k + 1] - t[k] = IF safeN <= n - k * safeN THEN safeN ELSE n - k * safeN
             /\ t[k] <= t[k + 1]
  <2>1. k \in 0 .. m /\ k + 1 \in 0 .. m /\ k \in Nat /\ k <= m - 1
    BY <1>1
  <2>2. (k + 1) * safeN = k * safeN + safeN /\ k * safeN \in Nat
    BY <2>1
  <2>3. k * safeN <= (m - 1) * safeN /\ (m - 1) * safeN = m * safeN - safeN
    BY <1>1, <1>3, <2>1
  <2>4. k * safeN <= n - 1
    BY <1>1, <1>2, <2>2, <2>3
  <2>5. t[k] = k * safeN
    BY <1>4, <2>1, <2>2, <2>4
  <2>6. t[k + 1] = IF k * safeN + safeN <= n THEN k * safeN + safeN ELSE n
    BY <1>4, <2>1, <2>2
  <2> QED BY <2>2, <2>4, <2>5, <2>6
<1>8. ASSUME NEW k \in 0 .. m
      PROVE  t[k] \in Nat
  BY <1>4
<1>9. Stops(t, m)
  BY <1>6, <1>7, <1>8 DEF Stops
<1> QED BY <1>1, <1>3, <1>5, <1>7, <1>9 DEF t, AreBatches, IsBatchSize

\* What a batch adds is a stretch of what the blocks add.
BlocksFit(db, halves, r, n, safeN, bits) ==
    /\ n \in Nat \ {0} /\ safeN \in Nat \ {0} /\ bits \in 1 .. CoeffBits
    /\ EntriesFit(db, r, n, bits) /\ Operand(halves, CoeffBits, 0 .. n - 1)

LEMMA BatchesAre ==
    ASSUME NEW n, NEW safeN, NEW db, NEW halves, NEW r, NEW bits, NEW j \in Positions,
           BlocksFit(db, halves, r, n, safeN, bits),
           NEW m, NEW t, AreBatches(t, n, safeN, m),
           NEW B, B = BlockProducts(db, halves, r, n, j), NEW k \in 0 .. m - 1
    PROVE  BatchTerms(db, halves, bits, CoeffBits, safeN, n, m, r, j)[k]
               = ToCoeff(StretchSum(B, t, k))
<1>1. /\ k * safeN \in 0 .. n - 1 /\ t[k] = k * safeN
      /\ IsBatchSize(t[k + 1] - t[k], n, safeN, k * safeN)
  BY DEF AreBatches
<1>2. PICK start : start = k * safeN
  OBVIOUS
<1>3. PICK size : size = t[k + 1] - t[k]
  OBVIOUS
<1>4. BatchCase(n, safeN, start, size, db, halves, r, bits)
  BY <1>1, <1>2, <1>3 DEF BatchCase, BlocksFit
<1>5. HintBatch(db, halves, bits, CoeffBits, safeN, n, r, start)[j]
          = ToCoeff(Total(From(BlockProducts(db, halves, r, n, j), start, size), 0 .. size - 1))
  BY <1>4, BatchIs
<1>6. StretchSum(B, t, k) = Total(From(B, start, size), 0 .. size - 1)
  BY <1>1, <1>2, <1>3 DEF StretchSum, Stretch, From
<1>7. BatchTerms(db, halves, bits, CoeffBits, safeN, n, m, r, j)[k]
          = HintBatch(db, halves, bits, CoeffBits, safeN, n, r, start)[j]
  BY <1>2 DEF BatchTerms
<1> QED BY <1>5, <1>6, <1>7

\* A coefficient of the hint, whatever the database, the components and the
\* number of blocks that are taken at a time.
THEOREM HintIs ==
    ASSUME NEW n \in Nat \ {0}, NEW safeN \in Nat \ {0}, NEW db, NEW halves,
           DOMAIN halves = 0 .. n - 1, NEW r \in 0 .. db.rows - 1, NEW bits \in 1 .. CoeffBits,
           EntriesFit(db, r, n, bits), Operand(halves, CoeffBits, 0 .. n - 1), NEW j \in Positions
    PROVE  ComputeHintMatrix(db, halves, bits, CoeffBits, safeN)[r][j]
               = ToCoeff(Total(BlockProducts(db, halves, r, n, j), 0 .. n - 1))
<1>1. n = Cardinality(DOMAIN halves)
  <2> DEFINE last == n - 1
  <2>1. last \in Int /\ 0 \in Int /\ ~(0 > last) /\ last - 0 + 1 = n /\ DOMAIN halves = 0 .. last
    OBVIOUS
  <2> HIDE DEF last
  <2>2. Cardinality(0 .. last) = IF 0 > last THEN 0 ELSE last - 0 + 1
    BY <2>1, FS_Interval
  <2> QED BY <2>1, <2>2
<1>2. PICK m : IsNumBatches(m, n, safeN)
  BY DEF IsNumBatches
<1>3. PICK hint : hint = ComputeHintMatrix(db, halves, bits, CoeffBits, safeN)
  OBVIOUS
<1>4. PICK t : AreBatches(t, n, safeN, m)
  BY <1>2, BatchStopsOf
<1>5. PICK B : B = BlockProducts(db, halves, r, n, j)
  OBVIOUS
<1>6. PICK f : f = BatchTerms(db, halves, bits, CoeffBits, safeN, n, m, r, j)
  OBVIOUS
<1>7. hint[r][j] = ToCoeff(Total(f, 0 .. m - 1))
  <2>1. HintCase(hint, db, halves, bits, CoeffBits, safeN, n, m, r)
    BY <1>1, <1>2, <1>3, Zenon DEF HintCase, IsRow
  <2> QED BY <1>6, <2>1, HintInBatches
<1> DEFINE part == [k \in 0 .. m - 1 |-> StretchSum(B, t, k)]
<1>8. IntegerOver(B, 0 .. n - 1)
  BY <1>5, BlockProductsOf
<1>9. /\ Total(B, 0 .. n - 1) = Total(part, 0 .. m - 1)
      /\ \A k \in 0 .. m - 1 : StretchSum(B, t, k) \in Int
  BY <1>4, <1>8, SumInStretches DEF AreBatches
<1>10. ASSUME NEW k \in 0 .. m - 1
       PROVE  Congruent(f[k], part[k])
  <2>1. f[k] = ToCoeff(StretchSum(B, t, k))
    <3>1. BlocksFit(db, halves, r, n, safeN, bits)
      BY DEF BlocksFit
    <3>2. BatchTerms(db, halves, bits, CoeffBits, safeN, n, m, r, j)[k]
              = ToCoeff(StretchSum(B, t, k))
      BY <1>4, <1>5, <3>1, BatchesAre
    <3> QED BY <1>6, <3>2
  <2>2. StretchSum(B, t, k) \in Int
    BY <1>9
  <2> QED BY <2>1, <2>2, CongruentRules
<1>11. IsFiniteSet(0 .. m - 1)
  <2> DEFINE last == m - 1
  <2>1. last \in Int /\ 0 \in Int
    BY <1>4 DEF AreBatches
  <2> HIDE DEF last
  <2>2. IsFiniteSet(0 .. last)
    BY <2>1, FS_Interval
  <2> QED BY <2>2 DEF last
<1> HIDE DEF part
<1>12. Congruent(Total(f, 0 .. m - 1), Total(part, 0 .. m - 1))
  BY <1>10, <1>11, CongruentTotals
<1>13. ToCoeff(Total(f, 0 .. m - 1)) = ToCoeff(Total(part, 0 .. m - 1))
  BY <1>12, CongruentRules
<1> QED BY <1>3, <1>5, <1>7, <1>9, <1>13

\* The block of a column is one of the n.
LEMMA BlockBelow ==
    ASSUME NEW n \in Nat, NEW d \in Nat \ {0}, NEW c \in 0 .. n * d - 1
    PROVE  c \div d \in 0 .. n - 1 /\ (c % d) \in 0 .. d - 1 /\ c = (c \div d) * d + (c % d)
<1>1. PICK k, x : k = c \div d /\ x = c % d
  OBVIOUS
<1>2. PICK all, low : all = n * d /\ low = k * d
  OBVIOUS
<1>3. all \in Nat
  BY <1>2
<1>4. c \in Int /\ 0 <= c /\ c < all
  BY <1>2, <1>3
<1>5. k \in Nat /\ x \in 0 .. d - 1 /\ c = d * k + x
  BY <1>1, <1>4, Division
<1>6. d * k = low /\ low \in Nat
  BY <1>2, <1>5
<1>7. c = low + x
  BY <1>5, <1>6
<1>8. ASSUME n <= k
      PROVE  all <= low
  BY <1>2, <1>5, <1>8
<1>9. k < n
  <2>1. low <= c
    BY <1>5, <1>6, <1>7
  <2> QED BY <1>3, <1>4, <1>5, <1>6, <1>8, <2>1
<1> QED BY <1>1, <1>2, <1>5, <1>7, <1>9

\* The key as NttMult reads it.
TernaryOf(s) == [y \in Positions |-> Ternary(s[y])]

LEMMA NttMultIs ==
    ASSUME NEW p, NEW s, NEW j \in Positions
    PROVE  NttMult(p, s)[j] = ToCoeff(NegacyclicAt(p, TernaryOf(s), j))
<1> DEFINE g == [y \in Positions |-> ToCoeff(NegacyclicAt(p, TernaryOf(s), y))]
<1>1. NttMult(p, s) = g
  BY TabulatedIs, Zenon DEF NttMult, Poly, TernaryOf
<1>2. g[j] = ToCoeff(NegacyclicAt(p, TernaryOf(s), j))
  BY Zenon
<1> QED BY <1>1, <1>2, Zenon

\* What a block of the hint gives with the key is the block with what its
\* component hides.
BlockWithKey(B, a, s) ==
    Total([j \in Positions |-> TernaryOf(s)[j] * NegacyclicAt(B, Inverted(a), j)], Positions)

BlockWithHidden(B, a, s) == Total([x \in Positions |-> B[x] * NttMult(a, s)[x]], Positions)

LEMMA BlockCarries ==
    ASSUME NEW B, NEW a, NEW s,
           \A x \in Positions : B[x] \in Int /\ a[x] \in Int /\ TernaryOf(s)[x] \in Int
    PROVE  Congruent(BlockWithKey(B, a, s), BlockWithHidden(B, a, s))
<1>1. PICK S : S = TernaryOf(s)
  OBVIOUS
<1>2. \A x \in Positions : B[x] \in Int /\ a[x] \in Int /\ S[x] \in Int
  BY <1>1
<1>3. PICK f : f = [x \in Positions |-> B[x] * NegacyclicAt(S, a, x)]
  OBVIOUS
<1>4. PICK g : g = [x \in Positions |-> B[x] * NttMult(a, s)[x]]
  OBVIOUS
<1>5. Congruent(BlockWithKey(B, a, s), Total(f, Positions))
  BY <1>1, <1>2, <1>3, Adjoint DEF BlockWithKey
<1>6. ASSUME NEW x \in Positions
      PROVE  Congruent(f[x], g[x])
  <2>1. PICK u : u = NegacyclicAt(S, a, x)
    OBVIOUS
  <2>2. u = NegacyclicAt(a, S, x) /\ u \in Int
    BY <1>2, <2>1, Commutes
  <2>3. PICK v : v = NttMult(a, s)[x]
    OBVIOUS
  <2>4. v = ToCoeff(u)
    BY <1>1, <2>2, <2>3, NttMultIs
  <2>5. Congruent(v, u)
    BY <2>2, <2>4, CongruentRules
  <2>6. Congruent(u, v)
    BY <2>5, CongruentRules
  <2>7. B[x] \in Int
    BY <1>2
  <2>8. Congruent(B[x] * u, B[x] * v)
    BY <2>6, <2>7, CongruentRules
  <2>9. f[x] = B[x] * u /\ g[x] = B[x] * v
    BY <1>3, <1>4, <2>1, <2>3
  <2> QED BY <2>8, <2>9
<1>7. Congruent(Total(f, Positions), Total(g, Positions))
  BY <1>6, PositionsOf, CongruentTotals
<1>8. BlockWithHidden(B, a, s) = Total(g, Positions)
  BY <1>4 DEF BlockWithHidden
<1> QED BY <1>5, <1>7, <1>8, CongruentRules

\* A sum over n pieces of d places each.
PieceOf(g, d, k) == [x \in 0 .. d - 1 |-> g[k * d + x]]

PieceSum(g, d, k) == Total(PieceOf(g, d, k), 0 .. d - 1)

LEMMA SumInPieces ==
    ASSUME NEW n \in Nat, NEW d \in Nat \ {0}, NEW g, IntegerOver(g, 0 .. n * d - 1)
    PROVE  /\ Total(g, 0 .. n * d - 1)
                  = Total([k \in 0 .. n - 1 |-> PieceSum(g, d, k)], 0 .. n - 1)
           /\ \A k \in 0 .. n - 1 : PieceSum(g, d, k) \in Int
<1>1. PICK t : t = [k \in 0 .. n |-> k * d]
  OBVIOUS
<1>2. d \in Nat \ {0}
  OBVIOUS
<1>3. ASSUME NEW k \in 0 .. n
      PROVE  t[k] = k * d /\ t[k] \in Nat
  BY <1>1, <1>2
<1>4. ASSUME NEW k \in 0 .. n - 1
      PROVE  t[k] = k * d /\ t[k + 1] = k * d + d /\ t[k] \in Nat
  <2>1. k \in 0 .. n /\ k + 1 \in 0 .. n /\ k \in Nat
    OBVIOUS
  <2>2. (k + 1) * d = k * d + d
    BY <1>2, <2>1
  <2> QED BY <1>3, <2>1, <2>2
<1>5. t[0] = 0 /\ t[n] = n * d
  BY <1>2, <1>3
<1>6. Stops(t, n)
  <2>1. \A k \in 0 .. n - 1 : t[k] <= t[k + 1]
    BY <1>2, <1>4
  <2> QED BY <1>3, <1>5, <2>1 DEF Stops
<1>7. ASSUME NEW k \in 0 .. n - 1
      PROVE  StretchSum(g, t, k) = PieceSum(g, d, k)
  <2>1. t[k + 1] - t[k] - 1 = d - 1
    BY <1>2, <1>4
  <2>2. Stretch(g, t, k) = PieceOf(g, d, k)
    BY <1>4, <2>1 DEF Stretch, PieceOf
  <2> QED BY <2>1, <2>2 DEF StretchSum, PieceSum
<1>8. n \in Nat
  OBVIOUS
<1>9. IntegerOver(g, 0 .. t[n] - 1)
  BY <1>5
<1>10. /\ Total(g, 0 .. t[n] - 1)
              = Total([k \in 0 .. n - 1 |-> StretchSum(g, t, k)], 0 .. n - 1)
       /\ \A k \in 0 .. n - 1 : StretchSum(g, t, k) \in Int
  BY <1>6, <1>8, <1>9, SumInStretches
<1>11. [k \in 0 .. n - 1 |-> StretchSum(g, t, k)] = [k \in 0 .. n - 1 |-> PieceSum(g, d, k)]
  BY <1>7
<1> QED BY <1>5, <1>7, <1>10, <1>11

\* The blocks of a vector that belong to one polynomial each.
BlockOf(g, k) == [x \in Positions |-> g[k * Degree + x]]

LEMMA SumInBlocks ==
    ASSUME NEW n \in Nat \ {0}, NEW g, IntegerOver(g, 0 .. n * Degree - 1)
    PROVE  /\ Total(g, 0 .. n * Degree - 1)
                  = Total([k \in 0 .. n - 1 |-> Total(BlockOf(g, k), Positions)], 0 .. n - 1)
           /\ \A k \in 0 .. n - 1 : Total(BlockOf(g, k), Positions) \in Int
<1>1. Degree \in Nat \ {0} /\ n \in Nat
  BY PolynomialsAssumption
<1>2. \A k \in 0 .. n - 1 : PieceSum(g, Degree, k) = Total(BlockOf(g, k), Positions)
  BY Zenon DEF PieceSum, PieceOf, BlockOf, Positions
<1>3. /\ Total(g, 0 .. n * Degree - 1)
             = Total([k \in 0 .. n - 1 |-> PieceSum(g, Degree, k)], 0 .. n - 1)
      /\ \A k \in 0 .. n - 1 : PieceSum(g, Degree, k) \in Int
  BY <1>1, SumInPieces
<1> QED BY <1>2, <1>3, Zenon

\* Coefficient j of the hint times the key, block by block.
KeyedTerms(db, halves, s, r, n) ==
    [j \in Positions |->
        [k \in 0 .. n - 1 |-> TernaryOf(s)[j] * BlockProducts(db, halves, r, n, j)[k]]]

\* The terms of a row of the database times what the components hide.
HiddenTerms(db, halves, s, r, n) ==
    [c \in 0 .. n * Degree - 1 |->
        Entry(db, r, c) * NttMult(halves[c \div Degree], s)[c % Degree]]

IsKey(s) == \A x \in Positions : TernaryOf(s)[x] \in Int

AreKeyed(C, db, halves, s, r, n) ==
    /\ \A j \in Positions : IntegerOver(C[j], 0 .. n - 1)
    /\ \A j \in Positions :
           Inner(C, Positions, 0 .. n - 1)[j]
               = TernaryOf(s)[j] * Total(BlockProducts(db, halves, r, n, j), 0 .. n - 1)
    /\ \A j \in Positions : Total(BlockProducts(db, halves, r, n, j), 0 .. n - 1) \in Int
    /\ \A k \in 0 .. n - 1 :
           Across(C, Positions, 0 .. n - 1)[k] = BlockWithKey(BlockAt(db, r, k), halves[k], s)

AreHidden(g, db, halves, s, r, n) ==
    /\ IntegerOver(g, 0 .. n * Degree - 1)
    /\ \A k \in 0 .. n - 1 :
           Total(BlockOf(g, k), Positions) = BlockWithHidden(BlockAt(db, r, k), halves[k], s)

LEMMA KeyedTermsOf ==
    ASSUME NEW db, NEW halves, NEW s, NEW r, NEW n, NEW safeN, NEW bits,
           BlocksFit(db, halves, r, n, safeN, bits), IsKey(s), NEW C,
           C = KeyedTerms(db, halves, s, r, n)
    PROVE  AreKeyed(C, db, halves, s, r, n)
<1>1. PICK S : S = TernaryOf(s)
  OBVIOUS
<1>2. PICK K : K = 0 .. n - 1
  OBVIOUS
<1>3. IsFiniteSet(K)
  <2>1. PICK last : last = n - 1
    OBVIOUS
  <2>2. last \in Int /\ 0 \in Int /\ K = 0 .. last
    BY <1>2, <2>1 DEF BlocksFit
  <2>3. IsFiniteSet(0 .. last)
    BY <2>2, FS_Interval
  <2> QED BY <2>2, <2>3
<1>4. ASSUME NEW j \in Positions
      PROVE  /\ IntegerOver(C[j], K)
             /\ Inner(C, Positions, K)[j]
                    = S[j] * Total(BlockProducts(db, halves, r, n, j), K)
             /\ Total(BlockProducts(db, halves, r, n, j), K) \in Int
  <2>1. PICK B : B = BlockProducts(db, halves, r, n, j)
    OBVIOUS
  <2>2. PICK h : h = C[j]
    OBVIOUS
  <2>3. \A k \in K : B[k] \in Int
    <3>1. n \in Nat /\ bits \in 1 .. CoeffBits
          /\ EntriesFit(db, r, n, bits) /\ Operand(halves, CoeffBits, 0 .. n - 1)
      BY DEF BlocksFit
    <3>2. IntegerOver(BlockProducts(db, halves, r, n, j), 0 .. n - 1)
      BY <3>1, BlockProductsOf
    <3> QED BY <1>2, <2>1, <3>2 DEF IntegerOver
  <2>4. S[j] \in Int
    BY <1>1 DEF IsKey
  <2>5. \A k \in K : h[k] = S[j] * B[k]
    BY <1>1, <1>2, <2>1, <2>2, Zenon DEF KeyedTerms
  <2>6. PICK c : c = S[j]
    OBVIOUS
  <2>7. Total(h, K) = c * Total(B, K) /\ Total(B, K) \in Int
    <3>1. c \in Int
      BY <2>4, <2>6
    <3>2. IsMultiple(h, c, B, K)
      BY <2>3, <2>5, <2>6 DEF IsMultiple
    <3> QED BY <1>3, <3>1, <3>2, TimesTotal
  <2>8. Inner(C, Positions, K)[j] = Total(h, K)
    BY <2>2 DEF Inner
  <2>9. IntegerOver(h, K)
    BY <2>3, <2>4, <2>5 DEF IntegerOver
  <2> QED BY <2>1, <2>2, <2>6, <2>7, <2>8, <2>9
<1>5. ASSUME NEW k \in K
      PROVE  Across(C, Positions, K)[k] = BlockWithKey(BlockAt(db, r, k), halves[k], s)
  <2>1. Across(C, Positions, K)[k] = Total([j \in Positions |-> C[j][k]], Positions)
    BY Zenon DEF Across
  <2>2. ASSUME NEW j \in Positions
        PROVE  C[j][k] = S[j] * NegacyclicAt(BlockAt(db, r, k), Inverted(halves[k]), j)
    <3>1. C[j][k] = S[j] * BlockProducts(db, halves, r, n, j)[k]
      BY <1>1, <1>2, Zenon DEF KeyedTerms
    <3>2. BlockProducts(db, halves, r, n, j)[k]
              = NegacyclicAt(BlockAt(db, r, k), Inverted(halves[k]), j)
      BY <1>2, Zenon DEF BlockProducts
    <3> QED BY <3>1, <3>2, Zenon
  <2>3. [j \in Positions |-> C[j][k]]
            = [j \in Positions |-> S[j] * NegacyclicAt(BlockAt(db, r, k), Inverted(halves[k]), j)]
    BY <2>2, Zenon
  <2> QED BY <1>1, <2>1, <2>3, Zenon DEF BlockWithKey
<1> QED BY <1>1, <1>2, <1>4, <1>5 DEF AreKeyed

LEMMA HiddenTermsOf ==
    ASSUME NEW db, NEW halves, NEW s, NEW r, NEW n, NEW safeN, NEW bits,
           BlocksFit(db, halves, r, n, safeN, bits), IsKey(s), NEW g,
           g = HiddenTerms(db, halves, s, r, n)
    PROVE  AreHidden(g, db, halves, s, r, n)
<1>0. /\ n \in Nat \ {0} /\ bits \in 1 .. CoeffBits /\ EntriesFit(db, r, n, bits)
      /\ Operand(halves, CoeffBits, 0 .. n - 1) /\ Degree \in Nat \ {0}
  BY PolynomialsAssumption DEF BlocksFit
<1>1. ASSUME NEW k \in 0 .. n - 1, NEW x \in Positions
      PROVE  /\ k * Degree + x \in 0 .. n * Degree - 1
             /\ g[k * Degree + x] = BlockAt(db, r, k)[x] * NttMult(halves[k], s)[x]
  <2>1. PICK c : c = k * Degree + x
    OBVIOUS
  <2>2. x \in 0 .. Degree - 1 /\ k \in Int /\ c \in Int /\ c = Degree * k + x
    BY <1>0, <2>1 DEF Positions
  <2>3. c \div Degree = k /\ (c % Degree) = x
    BY <1>0, <2>2, DivisionOf
  <2>4. c \in 0 .. n * Degree - 1
    <3>1. k * Degree + Degree <= n * Degree
      <4>1. k + 1 <= n /\ k + 1 \in Int /\ n \in Int
        BY <1>0
      <4>2. (k + 1) * Degree <= n * Degree
        BY <1>0, <4>1
      <4>3. (k + 1) * Degree = k * Degree + Degree
        BY <1>0, <4>1
      <4> QED BY <4>2, <4>3
    <3>2. PICK low, all : low = k * Degree /\ all = n * Degree
      OBVIOUS
    <3>3. k \in Nat /\ 0 <= x /\ x < Degree /\ x \in Int
      BY <1>0, <2>2 DEF Positions
    <3>4. low \in Nat /\ all \in Nat
      BY <1>0, <3>2, <3>3
    <3>5. c = low + x /\ low + Degree <= all
      BY <2>1, <3>1, <3>2
    <3>6. 0 <= c /\ c < all
      BY <1>0, <3>3, <3>4, <3>5
    <3> QED BY <2>2, <3>2, <3>4, <3>6
  <2>5. g[c] = Entry(db, r, c) * NttMult(halves[c \div Degree], s)[c % Degree]
    BY <2>4, Zenon DEF HiddenTerms
  <2>6. Entry(db, r, c) = BlockAt(db, r, k)[x]
    BY <2>1, Zenon DEF BlockAt
  <2> QED BY <2>1, <2>3, <2>4, <2>5, <2>6
<1>2. ASSUME NEW k \in 0 .. n - 1, NEW x \in Positions
      PROVE  BlockAt(db, r, k)[x] \in Int /\ NttMult(halves[k], s)[x] \in Int
  <2>1. n \in Nat
    BY <1>0
  <2>2. BlockAt(db, r, k)[x] \in Int /\ \A y \in Positions : halves[k][y] \in Int
    BY <1>0, <2>1, BlockProductsOf
  <2>3. PICK u : u = NegacyclicAt(halves[k], TernaryOf(s), x)
    OBVIOUS
  <2>4. u \in Int
    BY <2>2, <2>3, Commutes DEF IsKey
  <2>5. NttMult(halves[k], s)[x] = ToCoeff(u)
    BY <2>3, NttMultIs
  <2>6. Congruent(ToCoeff(u), u)
    BY <2>4, CongruentRules
  <2> QED BY <2>2, <2>5, <2>6 DEF Congruent
<1>3. IntegerOver(g, 0 .. n * Degree - 1)
  <2> SUFFICES ASSUME NEW c \in 0 .. n * Degree - 1
               PROVE  g[c] \in Int
    BY DEF IntegerOver
  <2>1. PICK k, x : k = c \div Degree /\ x = c % Degree
    OBVIOUS
  <2>2. n \in Nat
    BY <1>0
  <2>5. k \in 0 .. n - 1 /\ x \in Positions /\ c = k * Degree + x
    BY <1>0, <2>1, <2>2, BlockBelow DEF Positions
  <2>6. g[c] = BlockAt(db, r, k)[x] * NttMult(halves[k], s)[x]
    BY <1>1, <2>5
  <2> QED BY <1>2, <2>5, <2>6
<1>4. ASSUME NEW k \in 0 .. n - 1
      PROVE  Total(BlockOf(g, k), Positions) = BlockWithHidden(BlockAt(db, r, k), halves[k], s)
  <2>1. BlockOf(g, k) = [x \in Positions |-> BlockAt(db, r, k)[x] * NttMult(halves[k], s)[x]]
    BY <1>1, Zenon DEF BlockOf
  <2> QED BY <2>1, Zenon DEF BlockWithHidden
<1> QED BY <1>3, <1>4 DEF AreHidden

\* A row of the hint with the key, and the row of the database with what the
\* components hide.
HintWithKey(hint, s, r) ==
    Total([j \in Positions |-> hint[r][j] * TernaryOf(s)[j]], Positions)

RowWithHidden(db, halves, s, r, n) ==
    Total(HiddenTerms(db, halves, s, r, n), 0 .. n * Degree - 1)

\* A coefficient cannot tell them apart, whatever the database, the components,
\* the key and the number of blocks that are taken at a time.
THEOREM HintCarries ==
    ASSUME NEW db, NEW halves, NEW s, NEW r \in 0 .. db.rows - 1, NEW n, NEW safeN, NEW bits,
           BlocksFit(db, halves, r, n, safeN, bits), DOMAIN halves = 0 .. n - 1, IsKey(s),
           NEW hint, hint = ComputeHintMatrix(db, halves, bits, CoeffBits, safeN)
    PROVE  Congruent(HintWithKey(hint, s, r), RowWithHidden(db, halves, s, r, n))
<1>0. /\ n \in Nat \ {0} /\ safeN \in Nat \ {0} /\ bits \in 1 .. CoeffBits
      /\ EntriesFit(db, r, n, bits) /\ Operand(halves, CoeffBits, 0 .. n - 1)
  BY DEF BlocksFit
<1>1. PICK S : S = TernaryOf(s)
  OBVIOUS
<1>2. PICK K : K = 0 .. n - 1
  OBVIOUS
<1>3. IsFiniteSet(K)
  <2>1. PICK last : last = n - 1
    OBVIOUS
  <2>2. last \in Int /\ 0 \in Int /\ K = 0 .. last
    BY <1>0, <1>2, <2>1
  <2>3. IsFiniteSet(0 .. last)
    BY <2>2, FS_Interval
  <2> QED BY <2>2, <2>3
<1>4. PICK C : C = KeyedTerms(db, halves, s, r, n)
  OBVIOUS
<1>5. PICK g : g = HiddenTerms(db, halves, s, r, n)
  OBVIOUS
<1>6. /\ \A j \in Positions : IntegerOver(C[j], K)
      /\ \A j \in Positions :
             Inner(C, Positions, K)[j] = S[j] * Total(BlockProducts(db, halves, r, n, j), K)
      /\ \A j \in Positions : Total(BlockProducts(db, halves, r, n, j), K) \in Int
      /\ \A k \in K : Across(C, Positions, K)[k] = BlockWithKey(BlockAt(db, r, k), halves[k], s)
  <2>1. /\ \A j \in Positions : IntegerOver(C[j], 0 .. n - 1)
        /\ \A j \in Positions :
               Inner(C, Positions, 0 .. n - 1)[j]
                   = TernaryOf(s)[j] * Total(BlockProducts(db, halves, r, n, j), 0 .. n - 1)
        /\ \A j \in Positions : Total(BlockProducts(db, halves, r, n, j), 0 .. n - 1) \in Int
        /\ \A k \in 0 .. n - 1 :
               Across(C, Positions, 0 .. n - 1)[k]
                   = BlockWithKey(BlockAt(db, r, k), halves[k], s)
    <3>1. AreKeyed(C, db, halves, s, r, n)
      BY <1>4, KeyedTermsOf
    <3> QED BY <3>1, Zenon DEF AreKeyed
  <2> QED BY <1>1, <1>2, <2>1, Zenon
<1>7. PICK f : f = [j \in Positions |-> hint[r][j] * S[j]]
  OBVIOUS
<1>8. PICK h : h = Inner(C, Positions, K)
  OBVIOUS
<1>9. ASSUME NEW j \in Positions
      PROVE  Congruent(f[j], h[j])
  <2>1. PICK c, u : c = S[j] /\ u = Total(BlockProducts(db, halves, r, n, j), K)
    OBVIOUS
  <2>2. c \in Int /\ u \in Int /\ h[j] = c * u
    BY <1>1, <1>6, <1>8, <2>1 DEF IsKey
  <2>3. PICK v : v = hint[r][j]
    OBVIOUS
  <2>4. v = ToCoeff(u)
    BY <1>0, <1>2, <2>1, <2>3, HintIs
  <2>5. Congruent(v, u)
    BY <2>2, <2>4, CongruentRules
  <2>6. Congruent(c * v, c * u)
    BY <2>2, <2>5, CongruentRules
  <2>7. f[j] = v * c /\ v \in Int
    BY <1>7, <2>1, <2>3, <2>5 DEF Congruent
  <2>8. f[j] = c * v
    BY <2>2, <2>7
  <2> QED BY <2>2, <2>6, <2>8
<1>10. Congruent(Total(f, Positions), Total(h, Positions))
  BY <1>9, PositionsOf, CongruentTotals
<1>11. PICK a : a = Across(C, Positions, K)
  OBVIOUS
<1>12. Total(h, Positions) = Total(a, K)
  BY <1>3, <1>6, <1>8, <1>11, PositionsOf, Exchange
<1>13. PICK e : e = [k \in K |-> Total(BlockOf(g, k), Positions)]
  OBVIOUS
<1>14. /\ IntegerOver(g, 0 .. n * Degree - 1)
       /\ \A k \in K : Total(BlockOf(g, k), Positions)
                           = BlockWithHidden(BlockAt(db, r, k), halves[k], s)
  <2>1. /\ IntegerOver(g, 0 .. n * Degree - 1)
        /\ \A k \in 0 .. n - 1 :
               Total(BlockOf(g, k), Positions) = BlockWithHidden(BlockAt(db, r, k), halves[k], s)
    <3>1. AreHidden(g, db, halves, s, r, n)
      BY <1>5, HiddenTermsOf
    <3> QED BY <3>1, Zenon DEF AreHidden
  <2> QED BY <1>2, <2>1, Zenon
<1>15. ASSUME NEW k \in K
       PROVE  Congruent(a[k], e[k])
  <2>1. \A x \in Positions :
            BlockAt(db, r, k)[x] \in Int /\ halves[k][x] \in Int /\ TernaryOf(s)[x] \in Int
    <3>1. n \in Nat
      BY <1>0
    <3>2. \A j \in Positions : \A x \in Positions :
              BlockAt(db, r, k)[x] \in Int /\ halves[k][x] \in Int
      BY <1>0, <1>2, <3>1, BlockProductsOf
    <3> QED BY <3>2 DEF IsKey
  <2>2. Congruent(BlockWithKey(BlockAt(db, r, k), halves[k], s),
                  BlockWithHidden(BlockAt(db, r, k), halves[k], s))
    BY <2>1, BlockCarries
  <2>3. a[k] = BlockWithKey(BlockAt(db, r, k), halves[k], s)
    BY <1>6, <1>11
  <2>4. e[k] = BlockWithHidden(BlockAt(db, r, k), halves[k], s)
    BY <1>13, <1>14
  <2> QED BY <2>2, <2>3, <2>4
<1>16. Congruent(Total(a, K), Total(e, K))
  BY <1>3, <1>15, CongruentTotals
<1>17. Total(g, 0 .. n * Degree - 1) = Total(e, K)
  BY <1>0, <1>2, <1>13, <1>14, SumInBlocks
<1>18. HintWithKey(hint, s, r) = Total(f, Positions)
  BY <1>1, <1>7 DEF HintWithKey
<1>19. RowWithHidden(db, halves, s, r, n) = Total(g, 0 .. n * Degree - 1)
  BY <1>5 DEF RowWithHidden
<1> QED BY <1>10, <1>12, <1>16, <1>17, <1>18, <1>19, CongruentRules

(***************************************************************************)
(* A database of one block                                                 *)
(***************************************************************************)

LEMMA HintShape ==
    ASSUME NEW db, NEW halves, NEW bits, NEW safeN, NEW n, n = Cardinality(DOMAIN halves),
           NEW hint, hint = ComputeHintMatrix(db, halves, bits, CoeffBits, safeN)
    PROVE  /\ hint = [r \in 0 .. db.rows - 1 |-> hint[r]]
           /\ \A r \in 0 .. db.rows - 1 : IsPoly(hint[r])
<1>1. hint = HintRows(db, halves, bits, CoeffBits, safeN, n)
  BY HintInRows
<1>2. hint = [r \in 0 .. db.rows - 1 |-> hint[r]]
  BY <1>1, Zenon DEF HintRows
<1>3. ASSUME NEW r \in 0 .. db.rows - 1
      PROVE  IsPoly(hint[r])
  <2>1. PICK m : IsNumBatches(m, n, safeN)
    BY DEF IsNumBatches
  <2>2. HintCase(hint, db, halves, bits, CoeffBits, safeN, n, m, r)
    BY <2>1, Zenon DEF HintCase, IsRow
  <2>3. PICK j : j \in Positions
    BY PositionsOf, FS_EmptySet
  <2> QED BY <2>2, <2>3, HintInBatches
<1> QED BY <1>2, <1>3

Single(a) == [k \in {0} |-> a]

LEMMA OneBlockRow ==
    ASSUME NEW block, NEW a, \A x \in Positions : a[x] \in 0 .. 2 ^ CoeffBits - 1,
           NEW bits \in 1 .. CoeffBits, NEW safeN \in Nat \ {0}, NEW r \in 0 .. block.rows - 1,
           EntriesFit(block, r, 1, bits), NEW one, one = Single(a), NEW j \in Positions
    PROVE  /\ MultFft(BlockAt(block, r, 0), Inverted(a))[j]
                  = ComputeHintMatrix(block, one, bits, CoeffBits, safeN)[r][j]
           /\ Cardinality(DOMAIN one) = 1
<1>1. one = [k \in {0} |-> a]
  BY Zenon DEF Single
<1>2. DOMAIN one = {0} /\ one[0] = a
  BY <1>1
<1>3. PICK n : n = 1
  OBVIOUS
<1>4. n \in Nat \ {0} /\ {0} = 0 .. n - 1
  BY <1>3
<1>5. PICK K : K = {0}
  OBVIOUS
<1>6. IsFiniteSet(K) /\ Cardinality(K) = 1 /\ IsFiniteSet({}) /\ K \ {0} = {} /\ 0 \in K
  BY <1>5, FS_Singleton, FS_EmptySet
<1>7. Operand(one, CoeffBits, 0 .. n - 1) /\ DOMAIN one = 0 .. n - 1
  BY <1>2, <1>4 DEF Operand
<1>8. EntriesFit(block, r, n, bits)
  BY <1>3
<1>9. PICK B : B = BlockProducts(block, one, r, n, j)
  OBVIOUS
<1>10. ComputeHintMatrix(block, one, bits, CoeffBits, safeN)[r][j] = ToCoeff(Total(B, K))
  <2>1. ComputeHintMatrix(block, one, bits, CoeffBits, safeN)[r][j]
            = ToCoeff(Total(BlockProducts(block, one, r, n, j), 0 .. n - 1))
    BY <1>4, <1>7, <1>8, HintIs
  <2> QED BY <1>4, <1>5, <1>9, <2>1
<1>11. PICK u : u = NegacyclicAt(BlockAt(block, r, 0), Inverted(a), j)
  OBVIOUS
<1>12. B[0] = u
  BY <1>2, <1>4, <1>9, <1>11, Zenon DEF BlockProducts
<1>13. B[0] \in Int
  <2>1. n \in Nat /\ 0 \in 0 .. n - 1
    BY <1>3
  <2>2. IntegerOver(BlockProducts(block, one, r, n, j), 0 .. n - 1)
    BY <1>7, <1>8, <2>1, BlockProductsOf
  <2> QED BY <1>9, <2>1, <2>2 DEF IntegerOver
<1>14. Total(B, K) = u
  <2>1. Total(B, K) = B[0] + Total(B, K \ {0})
    BY <1>5, <1>6, <1>13, SumWith
  <2>2. Total(B, {}) = 0
    BY <1>6, SumPick
  <2> QED BY <1>6, <1>12, <1>13, <2>1, <2>2
<1>15. ASSUME NEW x \in Positions
       PROVE  /\ BlockAt(block, r, 0)[x] \in 0 .. 2 ^ CoeffBits - 1
              /\ Inverted(a)[x] \in 0 .. 2 ^ CoeffBits - 1
  <2>1. PICK V, W : V = 2 ^ bits /\ W = 2 ^ CoeffBits
    OBVIOUS
  <2>2. V \in Nat /\ W \in Nat /\ V <= W
    <3>1. V \in Nat /\ W \in Nat
      BY <2>1, PolynomialsAssumption, SmallPower
    <3>2. V <= W
      BY <2>1, PolynomialsAssumption, CoeffPowers, PowerOrder
    <3> QED BY <3>1, <3>2
  <2>3. BlockAt(block, r, 0)[x] \in 0 .. V - 1
    <3>1. 0 \in 0 .. 1 - 1
      OBVIOUS
    <3> QED BY <2>1, <3>1 DEF EntriesFit, BlockAt
  <2>4. Inverted(a)[x] \in 0 .. 2 ^ CoeffBits - 1
    BY InvertedOf
  <2> QED BY <2>1, <2>2, <2>3, <2>4
<1>16. PICK p, q : p = BlockAt(block, r, 0) /\ q = Inverted(a)
  OBVIOUS
<1>17. MultFft(p, q) = Times(p, q)
  BY <1>15, <1>16, FullProduct
<1>18. Times(p, q)[j] = ToCoeff(u)
  <2>1. \A x \in Positions : p[x] \in Int /\ q[x] \in Int
    <3>1. PICK W : W = 2 ^ CoeffBits
      OBVIOUS
    <3>2. W \in Nat
      BY <3>1, PolynomialsAssumption, SmallPower
    <3>3. \A x \in Positions : p[x] \in 0 .. W - 1 /\ q[x] \in 0 .. W - 1
      BY <1>15, <1>16, <3>1
    <3> QED BY <3>2, <3>3
  <2>2. Times(p, q)[j] = ToCoeff(NegacyclicAt(p, q, j))
    BY <2>1, TimesAt
  <2> QED BY <1>11, <1>16, <2>2
<1>19. Cardinality(DOMAIN one) = 1
  BY <1>2, <1>5, <1>6
<1> QED BY <1>10, <1>14, <1>16, <1>17, <1>18, <1>19

\* The hint of a database of one block is the product that MulMatNegacyclic
\* takes in one go.
THEOREM OneBlockHint ==
    ASSUME NEW block, NEW a, \A x \in Positions : a[x] \in 0 .. 2 ^ CoeffBits - 1,
           NEW bits \in 1 .. CoeffBits, NEW safeN \in Nat \ {0},
           \A r \in 0 .. block.rows - 1 : EntriesFit(block, r, 1, bits)
    PROVE  MulMatNegacyclic(block, a)
               = ComputeHintMatrix(block, Single(a), bits, CoeffBits, safeN)
<1>1. PICK one : one = Single(a)
  OBVIOUS
<1>2. PICK hint : hint = ComputeHintMatrix(block, one, bits, CoeffBits, safeN)
  OBVIOUS
<1>3. PICK whole : whole = MulMatNegacyclic(block, a)
  OBVIOUS
<1>4. ASSUME NEW r
      PROVE  Poly(LAMBDA j : Entry(block, r, j)) = BlockAt(block, r, 0)
  <2>1. Poly(LAMBDA j : Entry(block, r, j)) = [j \in Positions |-> Entry(block, r, j)]
    BY TabulatedIs, Zenon DEF Poly
  <2>2. \A j \in Positions : 0 * Degree + j = j
    BY PolynomialsAssumption DEF Positions
  <2>3. [j \in Positions |-> Entry(block, r, j)] = BlockAt(block, r, 0)
    BY <2>2, Zenon DEF BlockAt
  <2> QED BY <2>1, <2>3
<1>5. whole = [r \in 0 .. block.rows - 1 |-> MultFft(BlockAt(block, r, 0), Inverted(a))]
  <2>1. whole = [r \in 0 .. block.rows - 1 |->
                    MultFft(Poly(LAMBDA j : Entry(block, r, j)), Inverted(a))]
    BY <1>3, TabulatedIs, Zenon DEF MulMatNegacyclic, Vector
  <2>2. \A r \in 0 .. block.rows - 1 :
            MultFft(Poly(LAMBDA j : Entry(block, r, j)), Inverted(a))
                = MultFft(BlockAt(block, r, 0), Inverted(a))
    BY <1>4, Zenon
  <2> QED BY <2>1, <2>2, Zenon
<1>6. 1 = Cardinality(DOMAIN one)
  <2>1. one = [k \in {0} |-> a]
    BY <1>1, Zenon DEF Single
  <2>2. DOMAIN one = {0}
    BY <2>1
  <2> QED BY <2>2, FS_Singleton
<1>7. PICK n : n = Cardinality(DOMAIN one)
  OBVIOUS
<1>8. /\ hint = [r \in 0 .. block.rows - 1 |-> hint[r]]
      /\ \A r \in 0 .. block.rows - 1 : IsPoly(hint[r])
  BY <1>2, <1>7, HintShape
<1>9. ASSUME NEW r \in 0 .. block.rows - 1
      PROVE  whole[r] = hint[r]
  <2>1. PICK p : p = MultFft(BlockAt(block, r, 0), Inverted(a))
    OBVIOUS
  <2>2. whole[r] = p
    BY <1>5, <2>1
  <2>3. IsPoly(p)
    <3>1. PICK u, v, no : u = <<BlockAt(block, r, 0)>> /\ v = <<Inverted(a)>> /\ no = FALSE
      OBVIOUS
    <3>2. p = InnerProductFft(u, v, CoeffBits, CoeffBits, no)
      BY <2>1, <3>1, Zenon DEF MultFft
    <3> QED BY <3>2, ProductsArePolys DEF IsPoly
  <2>4. \A j \in Positions : p[j] = hint[r][j]
    BY <1>1, <1>2, <2>1, OneBlockRow
  <2>5. IsPoly(hint[r])
    BY <1>8
  <2>6. p = hint[r]
    BY <2>3, <2>4, <2>5, Zenon DEF IsPoly
  <2> QED BY <2>2, <2>6
<1>10. whole = hint
  BY <1>5, <1>8, <1>9
<1> QED BY <1>1, <1>2, <1>3, <1>10

(***************************************************************************)
(* The cases of the hint                                                   *)
(***************************************************************************)

LEMMA AnyMatrixFits ==
    ASSUME NEW kind, NEW k \in Int, NEW rows \in Nat, NEW n \in Nat \ {0},
           NEW bits \in 1 .. CoeffBits, NEW m,
           m = AnyMatrix(kind, k, rows, n * Degree, 0, 2 ^ bits)
    PROVE  m.rows = rows /\ \A r \in 0 .. rows - 1 : EntriesFit(m, r, n, bits)
<1>1. PICK size : size = 2 ^ bits
  OBVIOUS
<1>2. size \in Nat \ {0} /\ Degree \in Nat \ {0}
  <2>1. bits \in Nat /\ bits <= 2 * CoeffBits
    BY PolynomialsAssumption
  <2> QED BY <1>1, <2>1, SmallPower, PolynomialsAssumption
<1>3. PICK cols : cols = n * Degree
  OBVIOUS
<1>4. cols \in Nat
  BY <1>2, <1>3
<1>5. PICK data : data = [x \in 0 .. rows * cols - 1 |-> 0 + Scattered(k + x, size - 0)]
  OBVIOUS
<1>6. m.rows = rows /\ m.cols = cols /\ m.data = data
  <2>1. m = [kind |-> kind, rows |-> rows, cols |-> cols, condensed |-> FALSE,
             data |-> [x \in 0 .. rows * cols - 1 |-> 0 + Scattered(k + x, size - 0)]]
    BY <1>1, <1>3, TabulatedIs, Zenon DEF AnyMatrix, Matrix, Vector
  <2>2. m = [kind |-> kind, rows |-> rows, cols |-> cols, condensed |-> FALSE, data |-> data]
    BY <1>5, <2>1, Zenon
  <2> QED BY <2>2
<1>7. ASSUME NEW r \in 0 .. rows - 1, NEW b \in 0 .. n - 1, NEW x \in Positions
      PROVE  Entry(m, r, b * Degree + x) \in 0 .. size - 1
  <2>1. PICK at : at = r * cols + (b * Degree + x)
    OBVIOUS
  <2>2. Entry(m, r, b * Degree + x) = data[at]
    BY <1>6, <2>1 DEF Entry
  <2>3. b * Degree + x \in 0 .. cols - 1
    <3>1. b + 1 <= n /\ b + 1 \in Int /\ n \in Int /\ b \in Nat
      OBVIOUS
    <3>2. (b + 1) * Degree <= n * Degree /\ (b + 1) * Degree = b * Degree + Degree
          /\ b * Degree \in Nat
      BY <1>2, <3>1
    <3>3. x \in Int /\ 0 <= x /\ x < Degree
      BY <1>2 DEF Positions
    <3> QED BY <1>2, <1>3, <1>4, <3>2, <3>3
  <2>4. at \in 0 .. rows * cols - 1
    <3>1. r + 1 <= rows /\ r + 1 \in Int /\ rows \in Int /\ r \in Nat
      OBVIOUS
    <3>2. (r + 1) * cols <= rows * cols /\ (r + 1) * cols = r * cols + cols /\ r * cols \in Nat
      BY <1>4, <3>1
    <3>3. rows * cols \in Int
      BY <1>4
    <3> QED BY <1>4, <2>1, <2>3, <3>2, <3>3
  <2>5. data[at] = 0 + Scattered(k + at, size - 0)
    BY <1>5, <2>4
  <2>6. k + at \in Int /\ size - 0 = size
    BY <1>2, <1>4, <2>4
  <2>7. Scattered(k + at, size) \in 0 .. size - 1
    BY <1>2, <2>6, ScatteredOf
  <2>8. data[at] = Scattered(k + at, size)
    BY <1>2, <2>5, <2>6, <2>7
  <2> QED BY <2>2, <2>7, <2>8
<1> QED BY <1>1, <1>6, <1>7 DEF EntriesFit

LEMMA AnyPolysFit ==
    ASSUME NEW k \in Int, NEW count \in Nat, NEW u, u = AnyPolys(k, count, Modulus)
    PROVE  DOMAIN u = 0 .. count - 1 /\ Operand(u, CoeffBits, 0 .. count - 1)
<1>1. u = [j \in 0 .. count - 1 |-> AnyPoly(k + j, Modulus)]
  BY TabulatedIs, Zenon DEF AnyPolys, Vector
<1>2. PICK W : W = 2 ^ CoeffBits
  OBVIOUS
<1>3. W \in Nat /\ Modulus \in Nat \ {0} /\ Modulus <= W
  <2>1. W \in Nat
    BY <1>2, PolynomialsAssumption, SmallPower
  <2>2. Modulus <= W
    BY <1>2, PolynomialsAssumption, ModulusPositive, CoeffPowers, PowerOrder DEF Modulus
  <2> QED BY <2>1, <2>2, ModulusPositive
<1>4. ASSUME NEW i \in 0 .. count - 1, NEW x \in Positions
      PROVE  u[i][x] \in 0 .. W - 1
  <2>1. u[i] = AnyPoly(k + i, Modulus) /\ k + i \in Int
    BY <1>1
  <2>2. AnyPoly(k + i, Modulus)[x] \in 0 .. Modulus - 1
    BY <1>3, <2>1, AnyPolyOf
  <2> QED BY <1>3, <2>1, <2>2
<1>5. DOMAIN u = 0 .. count - 1
  BY <1>1
<1> QED BY <1>2, <1>4, <1>5 DEF Operand

LEMMA AnyKeyIsKey ==
    ASSUME NEW k \in Int, NEW s, s = AnyKey(k)
    PROVE  IsKey(s)
<1>1. ASSUME NEW x \in Positions
      PROVE  TernaryOf(s)[x] \in Int
  <2>1. s[x] \in Nat
    BY AnyKeyOf
  <2>2. TernaryOf(s)[x] = Ternary(s[x])
    BY DEF TernaryOf
  <2> QED BY <2>1, <2>2 DEF Ternary
<1> QED BY <1>1 DEF IsKey

\* What the cases say of a database, components and a key.
HintAgrees(db, halves, s, n, bits) ==
    LET hint == ComputeHintMatrix(db, halves, bits, CoeffBits, SafeN)
        hidden == Vector(n, LAMBDA k : NttMult(halves[k], s))
    IN  \A r \in 0 .. db.rows - 1 :
            ToCoeff(SumOf(LAMBDA j : hint[r][j] * Ternary(s[j]), Degree))
                = ToCoeff(SumOf(LAMBDA c :
                      Entry(db, r, c) * hidden[c \div Degree][c % Degree], n * Degree))

LEMMA HintAgreesIs ==
    ASSUME NEW db, NEW halves, NEW s, NEW n, NEW bits, IsKey(s), DOMAIN halves = 0 .. n - 1,
           \A r \in 0 .. db.rows - 1 : BlocksFit(db, halves, r, n, SafeN, bits)
    PROVE  HintAgrees(db, halves, s, n, bits)
<1> DEFINE hint == ComputeHintMatrix(db, halves, bits, CoeffBits, SafeN)
           hidden == Vector(n, LAMBDA k : NttMult(halves[k], s))
<1>1. hint = ComputeHintMatrix(db, halves, bits, CoeffBits, SafeN)
  OBVIOUS
<1>3. hidden = [k \in 0 .. n - 1 |-> NttMult(halves[k], s)]
  BY TabulatedIs, Zenon DEF Vector
<1>4. ASSUME NEW r \in 0 .. db.rows - 1
      PROVE  ToCoeff(SumOf(LAMBDA j : hint[r][j] * Ternary(s[j]), Degree))
                 = ToCoeff(SumOf(LAMBDA c :
                       Entry(db, r, c) * hidden[c \div Degree][c % Degree], n * Degree))
  <2> HIDE DEF hint, hidden
  <2>1. Congruent(HintWithKey(hint, s, r), RowWithHidden(db, halves, s, r, n))
    <3>1. BlocksFit(db, halves, r, n, SafeN, bits)
      OBVIOUS
    <3> QED BY <1>1, <3>1, HintCarries
  <2>2. SumOf(LAMBDA j : hint[r][j] * Ternary(s[j]), Degree) = HintWithKey(hint, s, r)
    <3>1. SumOf(LAMBDA j : hint[r][j] * Ternary(s[j]), Degree)
              = Total([j \in Positions |-> hint[r][j] * Ternary(s[j])], Positions)
      BY SumsOver, Zenon DEF SumOf, Positions
    <3>2. [j \in Positions |-> hint[r][j] * Ternary(s[j])]
              = [j \in Positions |-> hint[r][j] * TernaryOf(s)[j]]
      <4>1. \A j \in Positions : TernaryOf(s)[j] = Ternary(s[j])
        BY Zenon DEF TernaryOf
      <4> QED BY <4>1, Zenon
    <3> QED BY <3>1, <3>2, Zenon DEF HintWithKey
  <2>3. SumOf(LAMBDA c : Entry(db, r, c) * hidden[c \div Degree][c % Degree], n * Degree)
            = RowWithHidden(db, halves, s, r, n)
    <3>1. PICK C : C = 0 .. n * Degree - 1
      OBVIOUS
    <3>2. SumOf(LAMBDA c : Entry(db, r, c) * hidden[c \div Degree][c % Degree], n * Degree)
              = Total([c \in C |-> Entry(db, r, c) * hidden[c \div Degree][c % Degree]], C)
      BY <3>1, SumsOver, Zenon DEF SumOf
    <3>3. ASSUME NEW c \in C
          PROVE  hidden[c \div Degree] = NttMult(halves[c \div Degree], s)
      <4>1. n \in Nat \ {0} /\ Degree \in Nat \ {0}
        BY PolynomialsAssumption DEF BlocksFit
      <4>2. PICK k : k = c \div Degree
        OBVIOUS
      <4>3. n \in Nat /\ c \in 0 .. n * Degree - 1
        BY <3>1, <4>1
      <4>4. k \in 0 .. n - 1
        BY <4>1, <4>2, <4>3, BlockBelow
      <4> QED BY <1>3, <4>2, <4>4, Zenon
    <3>4. [c \in C |-> Entry(db, r, c) * hidden[c \div Degree][c % Degree]]
              = [c \in C |-> Entry(db, r, c) * NttMult(halves[c \div Degree], s)[c % Degree]]
      BY <3>3, Zenon
    <3> QED BY <3>1, <3>2, <3>4, Zenon DEF RowWithHidden, HiddenTerms
  <2>4. ToCoeff(HintWithKey(hint, s, r)) = ToCoeff(RowWithHidden(db, halves, s, r, n))
    BY <2>1, CongruentRules
  <2> QED BY <2>2, <2>3, <2>4, Zenon
<1> QED BY <1>4, Zenon DEF HintAgrees

\* The rows of the hint of every case carry the key, and the hint of a database
\* of one block is one product.
THEOREM Hints == Spec => []HintCarriesTheKey
<1> DEFINE bits == EntryBits(DbKind)
           db == AnyMatrix(DbKind, case.seed * 17, 3, 3 * Degree, 0, 2 ^ bits)
           block == AnyMatrix(DbKind, case.seed * 7, 2, Degree, 0, 2 ^ bits)
           halves == AnyPolys(case.seed * 11, 3, Modulus)
           s == AnyKey(case.seed)
<1>1. ASSUME case \in AllCases, case.op = "hint"
      PROVE  /\ HintAgrees(db, halves, s, 3, bits)
             /\ MulMatNegacyclic(block, halves[0])
                    = ComputeHintMatrix(block, Single(halves[0]), bits, CoeffBits, SafeN)
  <2>1. case.seed \in Int
    BY <1>1, SeededCase DEF SeededOps
  <2>2. bits \in 1 .. CoeffBits /\ SafeN \in Nat \ {0}
    BY ProductsAssumption, AlgebraAssumption
  <2>3. PICK n, m : n = 3 /\ m = 1
    OBVIOUS
  <2>4. n \in Nat \ {0} /\ m \in Nat \ {0} /\ 3 \in Nat /\ 2 \in Nat
        /\ case.seed * 17 \in Int /\ case.seed * 7 \in Int /\ case.seed * 11 \in Int
    BY <2>1, <2>3
  <2> HIDE DEF bits
  <2>5. db.rows = 3 /\ \A r \in 0 .. 3 - 1 : EntriesFit(db, r, n, bits)
    <3>1. db = AnyMatrix(DbKind, case.seed * 17, 3, n * Degree, 0, 2 ^ bits)
      BY <2>3
    <3> HIDE DEF db
    <3> QED BY <2>2, <2>4, <3>1, AnyMatrixFits
  <2>6. block.rows = 2 /\ \A r \in 0 .. 2 - 1 : EntriesFit(block, r, m, bits)
    <3>1. m * Degree = Degree
      BY <2>3, PolynomialsAssumption
    <3>2. block = AnyMatrix(DbKind, case.seed * 7, 2, m * Degree, 0, 2 ^ bits)
      BY <3>1
    <3> HIDE DEF block
    <3> QED BY <2>2, <2>4, <3>2, AnyMatrixFits
  <2>7. DOMAIN halves = 0 .. n - 1 /\ Operand(halves, CoeffBits, 0 .. n - 1)
    <3>1. halves = AnyPolys(case.seed * 11, n, Modulus) /\ n \in Nat
      BY <2>3
    <3> HIDE DEF halves
    <3> QED BY <2>4, <3>1, AnyPolysFit
  <2>8. IsKey(s)
    BY <2>1, AnyKeyIsKey
  <2> HIDE DEF db, block, halves, s
  <2>9. \A r \in 0 .. db.rows - 1 : BlocksFit(db, halves, r, n, SafeN, bits)
    BY <2>2, <2>4, <2>5, <2>7 DEF BlocksFit
  <2>10. HintAgrees(db, halves, s, n, bits)
    BY <2>7, <2>8, <2>9, HintAgreesIs
  <2>11. MulMatNegacyclic(block, halves[0])
             = ComputeHintMatrix(block, Single(halves[0]), bits, CoeffBits, SafeN)
    <3>1. PICK a : a = halves[0]
      OBVIOUS
    <3>2. \A x \in Positions : a[x] \in 0 .. 2 ^ CoeffBits - 1
      BY <2>3, <2>7, <3>1 DEF Operand
    <3>3. \A r \in 0 .. block.rows - 1 : EntriesFit(block, r, 1, bits)
      BY <2>3, <2>6
    <3> QED BY <2>2, <3>1, <3>2, <3>3, OneBlockHint
  <2> QED BY <2>3, <2>10, <2>11
<1>2. case \in AllCases => HintCarriesTheKey
  <2> SUFFICES ASSUME case \in AllCases, case.op = "hint"
               PROVE  /\ HintAgrees(db, halves, s, 3, bits)
                      /\ MulMatNegacyclic(block, halves[0])
                             = ComputeHintMatrix(block, Single(halves[0]), bits, CoeffBits, SafeN)
    BY Zenon DEF HintCarriesTheKey, HintAgrees, Single
  <2> QED BY <1>1
<1> QED BY <1>2, CasesInvariant, PTL

(***************************************************************************)
(* The ring: coefficients at any place, X^d being -1                       *)
(***************************************************************************)

Numeric(p) == \A x \in Positions : p[x] \in Int

Sgn(e) == IF (e % 2) = 0 THEN 1 ELSE -1

\* The coefficient of X^m when the powers of X run on for ever.
Ext(p, m) == Sgn(m \div Degree) * p[m % Degree]

LEMMA SgnOf ==
    /\ \A e \in Int : Sgn(e) \in {1, -1} /\ Sgn(e) * Sgn(e) = 1 /\ Sgn(-e) = Sgn(e)
    /\ \A e, f \in Int : Sgn(e + f) = Sgn(e) * Sgn(f)
    /\ \A e, k \in Int : (k % 2) = 1 => Sgn(e * k) = Sgn(e)
    /\ Sgn(0) = 1 /\ Sgn(-1) = -1
<1>1. ASSUME NEW e \in Int
      PROVE  Sgn(e) \in {1, -1} /\ Sgn(e) * Sgn(e) = 1 /\ Sgn(-e) = Sgn(e)
  <2>1. Sgn(e) \in {1, -1}
    BY DEF Sgn
  <2>2. Sgn(-e) = Sgn(e)
    BY DEF Sgn
  <2>3. Sgn(e) * Sgn(e) = 1
    BY <2>1
  <2> QED BY <2>1, <2>2, <2>3
<1>2. ASSUME NEW e \in Int, NEW f \in Int
      PROVE  Sgn(e + f) = Sgn(e) * Sgn(f)
  <2>1. ((e + f) % 2) = 0 <=> ((e % 2) = 0 <=> (f % 2) = 0)
    OBVIOUS
  <2> QED BY <2>1 DEF Sgn
<1>3. ASSUME NEW e \in Int, NEW k \in Int, (k % 2) = 1
      PROVE  Sgn(e * k) = Sgn(e)
  <2>1. PICK b : b = k \div 2
    OBVIOUS
  <2>2. b \in Int /\ k = 2 * b + 1
    BY <1>3, <2>1
  <2>3. PICK u : u = e * b
    OBVIOUS
  <2>4. u \in Int /\ e * k = 2 * u + e
    BY <2>2, <2>3
  <2>5. ((2 * u + e) % 2) = (e % 2)
    BY <2>4
  <2> QED BY <2>4, <2>5 DEF Sgn
<1>4. Sgn(0) = 1 /\ Sgn(-1) = -1
  BY DEF Sgn
<1> QED BY <1>1, <1>2, <1>3, <1>4

\* Every number is a place and a number of turns.
LEMMA Places ==
    ASSUME NEW m \in Int
    PROVE  \E e \in Int : \E i \in Positions :
               /\ m = e * Degree + i
               /\ (m \div Degree) = e /\ (m % Degree) = i
<1>1. PICK d : d = Degree
  OBVIOUS
<1>2. d \in Nat \ {0} /\ Positions = 0 .. d - 1
  BY <1>1, PolynomialsAssumption DEF Positions
<1>3. PICK e, i : e = m \div d /\ i = (m % d)
  OBVIOUS
<1>4. e \in Int /\ i \in 0 .. d - 1 /\ m = d * e + i
  BY <1>2, <1>3, Division
<1>5. m = e * d + i
  BY <1>2, <1>4
<1> QED BY <1>1, <1>2, <1>3, <1>4, <1>5

LEMMA PlaceOf ==
    ASSUME NEW e \in Int, NEW i \in Positions
    PROVE  /\ e * Degree + i \in Int
           /\ ((e * Degree + i) \div Degree) = e /\ ((e * Degree + i) % Degree) = i
<1>1. PICK d : d = Degree
  OBVIOUS
<1>2. d \in Nat \ {0} /\ i \in 0 .. d - 1
  BY <1>1, PolynomialsAssumption DEF Positions
<1>3. PICK m : m = e * d + i
  OBVIOUS
<1>4. m \in Int /\ m = d * e + i
  BY <1>2, <1>3
<1>5. (m \div d) = e /\ (m % d) = i
  BY <1>2, <1>4, DivisionOf
<1> QED BY <1>1, <1>3, <1>4, <1>5

LEMMA ExtAt ==
    ASSUME NEW p, Numeric(p), NEW e \in Int, NEW i \in Positions
    PROVE  Ext(p, e * Degree + i) = Sgn(e) * p[i] /\ Ext(p, i) = p[i]
<1>1. Ext(p, e * Degree + i) = Sgn(e) * p[i]
  BY PlaceOf DEF Ext
<1>2. 0 * Degree + i = i /\ i \in Int
  BY PolynomialsAssumption DEF Positions
<1>3. (i \div Degree) = 0 /\ (i % Degree) = i
  <2>1. 0 \in Int
    OBVIOUS
  <2> QED BY <1>2, <2>1, PlaceOf
<1>4. Ext(p, i) = Sgn(0) * p[i]
  BY <1>3 DEF Ext
<1>5. p[i] \in Int
  BY DEF Numeric
<1>6. Sgn(0) = 1
  BY SgnOf
<1> QED BY <1>1, <1>4, <1>5, <1>6

LEMMA ExtShift ==
    ASSUME NEW p, Numeric(p), NEW m \in Int, NEW e \in Int
    PROVE  /\ Ext(p, m) \in Int
           /\ m + e * Degree \in Int
           /\ Ext(p, m + e * Degree) = Sgn(e) * Ext(p, m)
<1>1. PICK f \in Int, i \in Positions :
          m = f * Degree + i /\ (m \div Degree) = f /\ (m % Degree) = i
  BY Places
<1>2. p[i] \in Int
  BY DEF Numeric
<1>3. Ext(p, m) = Sgn(f) * p[i]
  BY <1>1 DEF Ext
<1>4. m + e * Degree = (e + f) * Degree + i /\ e + f \in Int /\ m + e * Degree \in Int
  <2>1. PICK d : d = Degree
    OBVIOUS
  <2>2. d \in Int
    BY <2>1, PolynomialsAssumption
  <2>3. (e + f) * d = e * d + f * d /\ e * d \in Int /\ f * d \in Int
    BY <2>2
  <2>4. i \in Int /\ m = f * d + i
    BY <1>1, <2>1, PolynomialsAssumption DEF Positions
  <2> QED BY <2>1, <2>3, <2>4
<1>5. Ext(p, m + e * Degree) = Sgn(e + f) * p[i]
  BY <1>4, ExtAt
<1>6. PICK se, sf, v : se = Sgn(e) /\ sf = Sgn(f) /\ v = p[i]
  OBVIOUS
<1>7. se \in {1, -1} /\ sf \in {1, -1} /\ Sgn(e + f) = se * sf /\ v \in Int
  BY <1>2, <1>6, SgnOf
<1>8. (se * sf) * v = se * (sf * v) /\ sf * v \in Int
  BY <1>7
<1> QED BY <1>3, <1>4, <1>5, <1>6, <1>7, <1>8

\* The terms of a product, for a coefficient at any place.
ConvTerms(p, r, m) == [x \in Positions |-> p[x] * Ext(r, m - x)]

Conv(p, r, m) == Total(ConvTerms(p, r, m), Positions)

LEMMA PlacesAre ==
    /\ Degree \in Nat \ {0}
    /\ \A x \in Positions : x \in Int /\ 0 <= x /\ x < Degree
    /\ \A x \in Int : 0 <= x /\ x < Degree => x \in Positions
  BY PolynomialsAssumption DEF Positions

LEMMA ConvIs ==
    ASSUME NEW p, NEW r, Numeric(p), Numeric(r), NEW j \in Positions
    PROVE  NegacyclicAt(p, r, j) = Conv(p, r, j)
<1>1. ASSUME NEW x \in Positions
      PROVE  (IF x <= j THEN p[x] * r[j - x] ELSE -(p[x] * r[Degree + j - x]))
                 = p[x] * Ext(r, j - x)
  <2>1. j \in Int /\ x \in Int /\ Degree \in Int /\ p[x] \in Int
    BY PlacesAre DEF Numeric
  <2>2. CASE x <= j
    <3>1. j - x \in Positions
      BY <2>2, Partner
    <3>2. Ext(r, j - x) = r[j - x]
      <4>1. 0 \in Int
        OBVIOUS
      <4> QED BY <3>1, <4>1, ExtAt
    <3> QED BY <2>2, <3>2
  <2>3. CASE ~(x <= j)
    <3>1. PICK y : y = Degree + j - x
      OBVIOUS
    <3>2. y \in Positions /\ r[y] \in Int
      BY <2>3, <3>1, Partner DEF Numeric
    <3>3. PICK e : e = -1
      OBVIOUS
    <3>4. e \in Int /\ e * Degree + y = j - x
      BY <2>1, <3>1, <3>3
    <3>5. Ext(r, j - x) = Sgn(e) * r[y]
      BY <3>2, <3>4, ExtAt
    <3>6. Sgn(e) = -1
      BY <3>3, SgnOf
    <3>7. Ext(r, j - x) = -r[y]
      BY <3>2, <3>5, <3>6
    <3>8. PICK u, v : u = p[x] /\ v = r[y]
      OBVIOUS
    <3>9. u * (-v) = -(u * v)
      BY <2>1, <3>2, <3>8
    <3> QED BY <2>3, <3>1, <3>7, <3>8, <3>9
  <2> QED BY <2>2, <2>3
<1>2. NegacyclicTerms(p, r, j) = ConvTerms(p, r, j)
  BY <1>1 DEF NegacyclicTerms, ConvTerms
<1> QED BY <1>2, NegacyclicIs DEF Conv

LEMMA ConvShift ==
    ASSUME NEW p, NEW r, Numeric(p), Numeric(r), NEW m \in Int, NEW e \in Int
    PROVE  Conv(p, r, m) \in Int /\ Conv(p, r, m + e * Degree) = Sgn(e) * Conv(p, r, m)
<1>1. PICK c : c = Sgn(e)
  OBVIOUS
<1>2. c \in Int
  BY <1>1, SgnOf
<1>3. PICK g, h, l : /\ g = ConvTerms(p, r, m) /\ h = ConvTerms(p, r, l)
                     /\ l = m + e * Degree
  OBVIOUS
<1>4. ASSUME NEW x \in Positions
      PROVE  g[x] \in Int /\ h[x] = c * g[x]
  <2>1. g[x] = p[x] * Ext(r, m - x) /\ h[x] = p[x] * Ext(r, l - x)
    <3>1. g = [y \in Positions |-> p[y] * Ext(r, m - y)]
      BY <1>3 DEF ConvTerms
    <3>2. h = [y \in Positions |-> p[y] * Ext(r, l - y)]
      BY <1>3 DEF ConvTerms
    <3> QED BY <3>1, <3>2
  <2>2. PICK n : n = m - x
    OBVIOUS
  <2>3. n \in Int /\ l - x = n + e * Degree
    <3>1. e * Degree \in Int /\ x \in Int
      BY PlacesAre
    <3> QED BY <1>3, <2>2, <3>1
  <2>4. PICK u, v : u = p[x] /\ v = Ext(r, n)
    OBVIOUS
  <2>5. u \in Int /\ v \in Int /\ Ext(r, n + e * Degree) = c * v
    BY <1>1, <2>3, <2>4, ExtShift DEF Numeric
  <2>6. g[x] = u * v /\ h[x] = u * (c * v)
    BY <2>1, <2>2, <2>3, <2>4, <2>5
  <2>7. u * (c * v) = c * (u * v) /\ u * v \in Int
    BY <1>2, <2>5
  <2> QED BY <2>6, <2>7
<1>5. IsMultiple(h, c, g, Positions)
  BY <1>4 DEF IsMultiple
<1>6. Total(h, Positions) = c * Total(g, Positions) /\ Total(g, Positions) \in Int
  BY <1>2, <1>5, PositionsOf, TimesTotal
<1> QED BY <1>1, <1>3, <1>6 DEF Conv

\* A product has them as its coefficients, at every place.
LEMMA ProductExt ==
    ASSUME NEW p, NEW r, Numeric(p), Numeric(r), NEW m \in Int
    PROVE  Congruent(Ext(Times(p, r), m), Conv(p, r, m))
<1>1. PICK e \in Int, i \in Positions :
          m = e * Degree + i /\ (m \div Degree) = e /\ (m % Degree) = i
  BY Places
<1>2. i \in Int
  BY PlacesAre
<1>3. Conv(p, r, i) \in Int /\ Conv(p, r, i + e * Degree) = Sgn(e) * Conv(p, r, i)
  BY <1>2, ConvShift
<1>4. i + e * Degree = m
  <2>1. e * Degree \in Int
    BY PlacesAre
  <2> QED BY <1>1, <1>2, <2>1
<1>5. Times(p, r)[i] = ToCoeff(Conv(p, r, i))
  BY ConvIs, TimesAt DEF Numeric
<1>6. PICK u, c : u = Conv(p, r, i) /\ c = Sgn(e)
  OBVIOUS
<1>7. Congruent(ToCoeff(u), u)
  BY <1>3, <1>6, CongruentRules
<1>8. Congruent(c * ToCoeff(u), c * u)
  <2>1. c \in Int
    BY <1>6, SgnOf
  <2> QED BY <1>7, <2>1, CongruentRules
<1>9. Ext(Times(p, r), m) = c * ToCoeff(u)
  BY <1>1, <1>5, <1>6 DEF Ext
<1> QED BY <1>3, <1>4, <1>6, <1>8, <1>9

(***************************************************************************)
(* The maps X |-> X^k                                                      *)
(***************************************************************************)

\* A power of two has no odd divisor.
Prime(k, m) == \A y, r \in Int : k * y = 2 ^ m * r => \E z \in Int : y = 2 ^ m * z

LEMMA OddCoprime ==
    ASSUME NEW k \in Int, (k % 2) = 1, NEW n \in Nat, PowersUpTo(n), NEW x \in Int, NEW q \in Int,
           k * x = 2 ^ n * q
    PROVE  \E z \in Int : x = 2 ^ n * z
<1> DEFINE T == {m \in Nat : m <= n => Prime(k, m)}
<1>1. 0 \in T
  <2>1. 2 ^ 0 = 1
    BY DEF PowersUpTo
  <2>2. \A y \in Int : y = 2 ^ 0 * y
    BY <2>1
  <2> QED BY <2>2 DEF Prime
<1>2. ASSUME NEW m \in Nat, m \in T
      PROVE  m + 1 \in T
  <2> SUFFICES ASSUME m + 1 <= n, NEW y \in Int, NEW r \in Int, k * y = 2 ^ (m + 1) * r
               PROVE  \E z \in Int : y = 2 ^ (m + 1) * z
    BY DEF Prime
  <2>1. PICK w : w = 2 ^ m
    OBVIOUS
  <2>2. w \in Nat /\ 2 ^ (m + 1) = 2 * w
    <3>1. m + 1 \in 1 .. n /\ m + 1 - 1 = m /\ m \in 0 .. n
      OBVIOUS
    <3> QED BY <2>1, <3>1, PowerPositive DEF PowersUpTo
  <2>3. PICK b : b = k \div 2
    OBVIOUS
  <2>4. b \in Int /\ k = 2 * b + 1
    BY <2>3
  <2>5. PICK u, v : u = b * y /\ v = w * r
    OBVIOUS
  <2>6. u \in Int /\ v \in Int /\ 2 * u + y = 2 * v
    <3>1. k * y = 2 * u + y
      BY <2>4, <2>5
    <3>2. 2 ^ (m + 1) * r = 2 * v
      BY <2>2, <2>5
    <3> QED BY <2>2, <2>4, <2>5, <3>1, <3>2
  <2>7. PICK h \in Int : y = 2 * h
    <3>1. y = 2 * (v - u) /\ v - u \in Int
      BY <2>6
    <3> QED BY <3>1
  <2>8. k * h = w * r
    <3>1. PICK g : g = k * h
      OBVIOUS
    <3>2. g \in Int /\ k * y = 2 * g
      BY <2>7, <3>1
    <3> QED BY <2>2, <2>5, <2>6, <3>1, <3>2
  <2>9. PICK z \in Int : h = w * z
    <3>1. \A a, c \in Int : k * a = 2 ^ m * c => \E z \in Int : a = 2 ^ m * z
      <4>1. Prime(k, m)
        BY <1>2
      <4> QED BY <4>1 DEF Prime
    <3> QED BY <2>1, <2>8, <3>1
  <2>10. y = (2 * w) * z
    BY <2>2, <2>7, <2>9
  <2> QED BY <2>2, <2>10
<1> HIDE DEF T
<1>3. \A m \in Nat : m \in T
  BY <1>1, <1>2, NatInd
<1>4. Prime(k, n)
  BY <1>3 DEF T
<1> QED BY <1>4 DEF Prime

IsOdd(k) == k \in Int /\ (k % 2) = 1

\* Where it takes the powers of X, turns aside.
Target(k) == [i \in Positions |-> (i * k) % Degree]

LEMMA TargetOf ==
    ASSUME NEW k, IsOdd(k)
    PROVE  /\ \A i \in Positions : Target(k)[i] \in Positions
           /\ Injective(Target(k), Positions)
           /\ \A j \in Positions : \E i \in Positions : Target(k)[i] = j
<1>1. PICK t : t = Target(k)
  OBVIOUS
<1>2. k \in Int /\ (k % 2) = 1
  BY DEF IsOdd
<1>3. ASSUME NEW i \in Positions
      PROVE  /\ t[i] = (i * k) % Degree /\ t[i] \in Positions /\ i * k \in Int
             /\ \E e \in Int : i * k = e * Degree + t[i]
  <2>1. i * k \in Int
    BY <1>2, PlacesAre
  <2>2. t[i] = (i * k) % Degree
    BY <1>1 DEF Target
  <2>3. PICK e \in Int, x \in Positions :
            i * k = e * Degree + x /\ ((i * k) \div Degree) = e /\ ((i * k) % Degree) = x
    BY <2>1, Places
  <2> QED BY <2>1, <2>2, <2>3
<1>4. Injective(t, Positions)
  <2> SUFFICES ASSUME NEW i \in Positions, NEW j \in Positions, t[i] = t[j]
               PROVE  i = j
    BY DEF Injective
  <2>1. PICK e \in Int : i * k = e * Degree + t[i]
    BY <1>3
  <2>2. PICK f \in Int : j * k = f * Degree + t[j]
    BY <1>3
  <2>3. PICK n : n \in 0 .. Degree /\ Degree = 2 ^ n
    BY PolynomialsAssumption
  <2>4. n \in Nat /\ PowersUpTo(n)
    BY <2>3, PlacesAre, PowersAssumption DEF PowersUpTo
  <2>5. i \in Int /\ j \in Int /\ t[i] \in Int /\ t[j] \in Int
        /\ 0 <= i /\ i < Degree /\ 0 <= j /\ j < Degree /\ Degree \in Int
    BY <1>3, PlacesAre
  <2>6. k * (i - j) = Degree * (e - f)
    <3>1. PICK u, v, x, y : u = i * k /\ v = j * k /\ x = e * Degree /\ y = f * Degree
      OBVIOUS
    <3>2. u \in Int /\ v \in Int /\ x \in Int /\ y \in Int
      BY <1>2, <2>5, <3>1
    <3>3. k * (i - j) = u - v
      BY <1>2, <2>5, <3>1
    <3>4. Degree * (e - f) = x - y
      BY <2>5, <3>1
    <3>5. u = x + t[i] /\ v = y + t[j]
      BY <2>1, <2>2, <3>1
    <3>6. u - v = x - y
      BY <2>5, <3>2, <3>5
    <3> QED BY <3>3, <3>4, <3>6
  <2>7. PICK z \in Int : i - j = Degree * z
    <3>1. PICK x, q : x = i - j /\ q = e - f
      OBVIOUS
    <3>2. x \in Int /\ q \in Int /\ k * x = 2 ^ n * q
      BY <2>3, <2>5, <2>6, <3>1
    <3>3. \E z \in Int : x = 2 ^ n * z
      BY <1>2, <2>4, <3>2, OddCoprime
    <3> QED BY <2>3, <3>1, <3>3
  <2>8. z = 0
    <3>1. z >= 1 => Degree * z >= Degree
      BY <2>5
    <3>2. z <= -1 => Degree * z <= -Degree
      BY <2>5
    <3> QED BY <2>5, <2>7, <3>1, <3>2
  <2>9. Degree * z = 0
    BY <2>5, <2>8
  <2> QED BY <2>5, <2>7, <2>9
<1>5. \A j \in Positions : \E i \in Positions : t[i] = j
  <2>1. t \in Injection(Positions, Positions)
    <3>1. t \in [Positions -> Positions]
      BY <1>1, <1>3 DEF Target
    <3> QED BY <1>4, <3>1 DEF Injection, IsInjective, Injective
  <2>2. t \in Surjection(Positions, Positions)
    BY <2>1, PositionsOf, FS_Injection
  <2> QED BY <2>2 DEF Surjection
<1> QED BY <1>1, <1>3, <1>4, <1>5

IsCoeffs(p) == /\ p = [i \in Positions |-> p[i]]
               /\ \A i \in Positions : p[i] \in 0 .. 2 ^ CoeffBits - 1

LEMMA CoeffIs ==
    /\ \A x \in Int : ToCoeff(x) \in 0 .. 2 ^ CoeffBits - 1
    /\ \A x \in 0 .. 2 ^ CoeffBits - 1 : ToCoeff(x) = x
    /\ \A x, y \in 0 .. 2 ^ CoeffBits - 1 : Congruent(x, y) => x = y
    /\ \A p : IsCoeffs(p) => Numeric(p)
<1>1. PICK W : W = 2 ^ CoeffBits
  OBVIOUS
<1>2. W \in Nat \ {0}
  BY <1>1, CongruentIs
<1>3. \A x \in Int : ToCoeff(x) \in 0 .. W - 1
  <2>1. \A x \in Int : (x % W) \in 0 .. W - 1
    BY <1>2, Division
  <2> QED BY <1>1, <2>1 DEF ToCoeff
<1>4. ASSUME NEW x \in 0 .. W - 1
      PROVE  ToCoeff(x) = x
  <2>1. x = W * 0 + x /\ 0 \in Int /\ x \in Int
    BY <1>2
  <2>2. (x % W) = x
    BY <1>2, <2>1, DivisionOf
  <2> QED BY <1>1, <2>2 DEF ToCoeff
<1>5. ASSUME NEW x \in 0 .. W - 1, NEW y \in 0 .. W - 1, Congruent(x, y)
      PROVE  x = y
  <2>1. ToCoeff(x) = ToCoeff(y)
    BY <1>5, CongruentRules
  <2> QED BY <1>4, <2>1
<1>6. \A p : IsCoeffs(p) => Numeric(p)
  BY <1>1, <1>2 DEF IsCoeffs, Numeric
<1> QED BY <1>1, <1>3, <1>4, <1>5, <1>6

\* Half a turn is a sign.
LEMMA HalfTurn ==
    ASSUME NEW m \in Int
    PROVE  (m % (2 * Degree)) >= Degree <=> Sgn(m \div Degree) = -1
<1>1. PICK e \in Int, x \in Positions :
          m = e * Degree + x /\ (m \div Degree) = e /\ (m % Degree) = x
  BY Places
<1>2. PICK d : d = Degree
  OBVIOUS
<1>3. d \in Nat \ {0} /\ x \in Int /\ 0 <= x /\ x < d /\ m = e * d + x
  BY <1>1, <1>2, PlacesAre
<1>4. PICK f, s : f = e \div 2 /\ s = e % 2
  OBVIOUS
<1>5. f \in Int /\ s \in {0, 1} /\ e = 2 * f + s
  BY <1>4
<1>6. PICK y : y = IF s = 0 THEN x ELSE d + x
  OBVIOUS
<1>7. y \in 0 .. 2 * d - 1 /\ (y >= d <=> s = 1)
  BY <1>3, <1>5, <1>6
<1>8. m = (2 * d) * f + y
  <2>1. PICK g : g = f * d
    OBVIOUS
  <2>2. g \in Int /\ (2 * d) * f = 2 * g
    BY <1>3, <1>5, <2>1
  <2>3. e * d = 2 * g + s * d /\ s * d = IF s = 0 THEN 0 ELSE d
    BY <1>3, <1>5, <2>1
  <2> QED BY <1>3, <1>5, <1>6, <2>2, <2>3
<1>9. (m % (2 * d)) = y
  <2>1. PICK D : D = 2 * d
    OBVIOUS
  <2>2. D \in Nat \ {0}
    BY <1>3, <2>1
  <2> QED BY <1>5, <1>7, <1>8, <2>1, <2>2, DivisionOf
<1> QED BY <1>1, <1>2, <1>4, <1>5, <1>7, <1>9 DEF Sgn

\* Where it takes a power of X from.
Source(k, j) == CHOOSE i \in Positions : (i * k) % Degree = j

LEMMA AutomorphFrom ==
    ASSUME NEW p, NEW k
    PROVE  /\ Automorph(p, k) = [j \in Positions |-> Automorph(p, k)[j]]
           /\ \A j \in Positions :
                  Automorph(p, k)[j] = IF (Source(k, j) * k) % (2 * Degree) >= Degree
                                       THEN ToCoeff(-p[Source(k, j)]) ELSE p[Source(k, j)]
<1>1. PICK f : f = [j \in Positions |-> IF (Source(k, j) * k) % (2 * Degree) >= Degree
                                       THEN ToCoeff(-p[Source(k, j)]) ELSE p[Source(k, j)]]
  OBVIOUS
<1>2. Automorph(p, k) = [j \in Positions |-> IF (Source(k, j) * k) % (2 * Degree) >= Degree
                                       THEN ToCoeff(-p[Source(k, j)]) ELSE p[Source(k, j)]]
  BY TabulatedIs, Zenon DEF Automorph, Poly, Source
<1>3. Automorph(p, k) = f
  BY <1>1, <1>2, Zenon
<1>4. f = [j \in Positions |-> f[j]]
  BY <1>1
<1> QED BY <1>1, <1>3, <1>4

\* What the map makes of a polynomial, turn for turn.
LEMMA AutomorphAt ==
    ASSUME NEW p, Numeric(p), NEW k, IsOdd(k), NEW i \in Positions
    PROVE  /\ Congruent(Automorph(p, k)[(i * k) % Degree], Sgn((i * k) \div Degree) * p[i])
           /\ Automorph(p, k)[(i * k) % Degree]
                  = IF Sgn((i * k) \div Degree) = -1 THEN ToCoeff(-p[i]) ELSE p[i]
<1>1. PICK m : m = i * k
  OBVIOUS
<1>2. m \in Int /\ p[i] \in Int
  BY <1>1, PlacesAre DEF IsOdd, Numeric
<1>3. PICK j : j = m % Degree
  OBVIOUS
<1>4. j \in Positions /\ Target(k)[i] = j
  BY <1>1, <1>3, TargetOf DEF Target
<1>5. Source(k, j) = i
  <2>1. ASSUME NEW x \in Positions, (x * k) % Degree = j
        PROVE  x = i
    <3>1. Target(k)[x] = j
      BY <2>1 DEF Target
    <3> QED BY <1>4, <3>1, TargetOf DEF Injective
  <2>2. (i * k) % Degree = j
    BY <1>1, <1>3
  <2> QED BY <2>1, <2>2 DEF Source
<1>6. Automorph(p, k)[j] = IF (i * k) % (2 * Degree) >= Degree THEN ToCoeff(-p[i]) ELSE p[i]
  BY <1>4, <1>5, AutomorphFrom
<1>7. (m % (2 * Degree)) >= Degree <=> Sgn(m \div Degree) = -1
  BY <1>2, HalfTurn
<1>8. PICK s : s = Sgn(m \div Degree)
  OBVIOUS
<1>9. s \in {1, -1}
  <2>1. m \div Degree \in Int
    BY <1>2, PlacesAre
  <2> QED BY <1>8, <2>1, SgnOf
<1>10. Automorph(p, k)[j] = IF s = -1 THEN ToCoeff(-p[i]) ELSE p[i]
  BY <1>1, <1>6, <1>7, <1>8
<1>11. PICK v : v = p[i]
  OBVIOUS
<1>12. Congruent(v, v) /\ Congruent(ToCoeff(-v), -v)
  BY <1>2, <1>11, CongruentRules
<1>13. s * v = IF s = -1 THEN -v ELSE v
  BY <1>2, <1>9, <1>11
<1>14. Congruent(Automorph(p, k)[j], s * v)
  BY <1>9, <1>10, <1>11, <1>12, <1>13
<1> QED BY <1>1, <1>3, <1>8, <1>10, <1>11, <1>14

LEMMA AutomorphIs ==
    ASSUME NEW p, NEW k, IsOdd(k)
    PROVE  /\ Numeric(p) => Numeric(Automorph(p, k))
           /\ IsCoeffs(p) => IsCoeffs(Automorph(p, k))
<1>1. PICK a : a = Automorph(p, k)
  OBVIOUS
<1>2. ASSUME Numeric(p), NEW j \in Positions
      PROVE  a[j] \in Int /\ \E i \in Positions : a[j] = p[i] \/ a[j] = ToCoeff(-p[i])
  <2>1. PICK i \in Positions : Target(k)[i] = j
    BY TargetOf
  <2>2. (i * k) % Degree = j
    BY <2>1 DEF Target
  <2>3. a[j] = IF Sgn((i * k) \div Degree) = -1 THEN ToCoeff(-p[i]) ELSE p[i]
    BY <1>1, <1>2, <2>2, AutomorphAt
  <2>4. Congruent(a[j], Sgn((i * k) \div Degree) * p[i])
    BY <1>1, <1>2, <2>2, AutomorphAt
  <2> QED BY <2>3, <2>4 DEF Congruent
<1>3. ASSUME IsCoeffs(p)
      PROVE  IsCoeffs(a)
  <2>1. Numeric(p)
    BY <1>3, CoeffIs
  <2>2. a = [j \in Positions |-> a[j]]
    BY <1>1, AutomorphFrom
  <2>3. ASSUME NEW j \in Positions
        PROVE  a[j] \in 0 .. 2 ^ CoeffBits - 1
    <3>1. PICK i \in Positions : a[j] = p[i] \/ a[j] = ToCoeff(-p[i])
      BY <1>2, <2>1
    <3>2. p[i] \in 0 .. 2 ^ CoeffBits - 1 /\ -p[i] \in Int
      BY <1>3, <2>1 DEF IsCoeffs, Numeric
    <3> QED BY <3>1, <3>2, CoeffIs
  <2> QED BY <2>2, <2>3 DEF IsCoeffs
<1>4. Numeric(p) => Numeric(a)
  BY <1>2 DEF Numeric
<1> QED BY <1>1, <1>3, <1>4

LEMMA AutomorphExt ==
    ASSUME NEW p, Numeric(p), NEW k, IsOdd(k), NEW m \in Int
    PROVE  Congruent(Ext(Automorph(p, k), m * k), Ext(p, m))
<1>1. PICK a : a = Automorph(p, k)
  OBVIOUS
<1>2. Numeric(a)
  BY <1>1, AutomorphIs
<1>3. PICK e \in Int, i \in Positions :
          m = e * Degree + i /\ (m \div Degree) = e /\ (m % Degree) = i
  BY Places
<1>4. PICK n : n = i * k
  OBVIOUS
<1>5. n \in Int /\ k \in Int /\ (k % 2) = 1 /\ i \in Int /\ Degree \in Int
  BY <1>4, PlacesAre DEF IsOdd
<1>6. m * k = n + (e * k) * Degree /\ e * k \in Int
  <2>1. PICK d, f : d = Degree /\ f = e * d
    OBVIOUS
  <2>2. f \in Int /\ m = f + i
    BY <1>3, <1>5, <2>1
  <2>3. m * k = f * k + n
    BY <1>4, <1>5, <2>2
  <2>4. f * k = (e * k) * d /\ f * k \in Int
    BY <1>5, <2>1, <2>2
  <2> QED BY <1>5, <2>1, <2>3, <2>4
<1>7. Ext(a, m * k) = Sgn(e * k) * Ext(a, n) /\ Ext(a, n) \in Int
  <2>1. PICK f : f = e * k
    OBVIOUS
  <2>2. f \in Int /\ m * k = n + f * Degree
    BY <1>6, <2>1
  <2>3. /\ Ext(a, n) \in Int
        /\ Ext(a, n + f * Degree) = Sgn(f) * Ext(a, n)
    BY <1>2, <1>5, <2>2, ExtShift
  <2> QED BY <2>1, <2>2, <2>3, Zenon
<1>8. Sgn(e * k) = Sgn(e)
  BY <1>5, SgnOf
<1>9. PICK t, s, v, w : t = Sgn(e) /\ s = Sgn(n \div Degree) /\ v = p[i] /\ w = a[n % Degree]
  OBVIOUS
<1>10. t \in {1, -1} /\ s \in {1, -1} /\ v \in Int
  <2>1. n \div Degree \in Int
    BY <1>5, PlacesAre
  <2> QED BY <1>9, <2>1, SgnOf DEF Numeric
<1>11. Congruent(w, s * v)
  BY <1>1, <1>4, <1>9, AutomorphAt
<1>12. Ext(a, n) = s * w
  BY <1>9 DEF Ext
<1>13. Congruent(t * (s * w), t * (s * (s * v)))
  <2>1. Congruent(s * w, s * (s * v))
    BY <1>10, <1>11, CongruentRules
  <2> QED BY <1>10, <2>1, CongruentRules
<1>14. s * (s * v) = v
  BY <1>10
<1>15. Ext(p, m) = t * v
  BY <1>3, <1>9 DEF Ext
<1> QED BY <1>1, <1>7, <1>8, <1>9, <1>12, <1>13, <1>14, <1>15

\* The coefficients where the map takes the powers of X are all there are.
LEMMA Determined ==
    ASSUME NEW a, NEW b, IsCoeffs(a), IsCoeffs(b), NEW k, IsOdd(k),
           \A i \in Positions : Congruent(Ext(a, i * k), Ext(b, i * k))
    PROVE  a = b
<1>1. ASSUME NEW j \in Positions
      PROVE  a[j] = b[j]
  <2>1. PICK i \in Positions : Target(k)[i] = j
    BY TargetOf
  <2>2. (i * k) % Degree = j
    BY <2>1 DEF Target
  <2>3. PICK s : s = Sgn((i * k) \div Degree)
    OBVIOUS
  <2>4. s \in {1, -1}
    <3>1. (i * k) \div Degree \in Int
      BY PlacesAre DEF IsOdd
    <3> QED BY <2>3, <3>1, SgnOf
  <2>5. Congruent(s * a[j], s * b[j])
    BY <2>2, <2>3 DEF Ext
  <2>6. Congruent(s * (s * a[j]), s * (s * b[j]))
    BY <2>4, <2>5, CongruentRules
  <2>7. a[j] \in 0 .. 2 ^ CoeffBits - 1 /\ b[j] \in 0 .. 2 ^ CoeffBits - 1
    BY DEF IsCoeffs
  <2>8. a[j] \in Int /\ b[j] \in Int
    BY CoeffIs DEF Numeric
  <2>9. s * (s * a[j]) = a[j] /\ s * (s * b[j]) = b[j]
    BY <2>4, <2>8
  <2> QED BY <2>6, <2>7, <2>9, CoeffIs
<1> QED BY <1>1 DEF IsCoeffs

LEMMA CongruentProduct ==
    ASSUME NEW x, NEW y, NEW u, NEW v, Congruent(x, y), Congruent(u, v)
    PROVE  Congruent(x * u, y * v)
<1>1. x \in Int /\ y \in Int /\ u \in Int /\ v \in Int
  BY DEF Congruent
<1>2. Congruent(x * u, x * v) /\ Congruent(v * x, v * y)
  BY <1>1, CongruentRules
<1>3. v * x = x * v /\ v * y = y * v
  BY <1>1
<1> QED BY <1>2, <1>3, CongruentRules

\* A product of images has, where the map takes a power of X, the coefficient
\* of the product.
LEMMA AutomorphConv ==
    ASSUME NEW p, NEW r, Numeric(p), Numeric(r), NEW k, IsOdd(k), NEW m \in Int
    PROVE  Congruent(Conv(Automorph(p, k), Automorph(r, k), m * k), Conv(p, r, m))
<1>1. PICK a, b, l : a = Automorph(p, k) /\ b = Automorph(r, k) /\ l = m * k
  OBVIOUS
<1>2. Numeric(a) /\ Numeric(b) /\ k \in Int /\ l \in Int
  <2>1. k \in Int
    BY DEF IsOdd
  <2> QED BY <1>1, <2>1, AutomorphIs
<1>3. PICK f, g, h, t : /\ f = ConvTerms(a, b, l) /\ g = ConvTerms(p, r, m)
                        /\ t = Target(k) /\ h = Renamed(f, t, Positions)
  OBVIOUS
<1>4. ASSUME NEW x \in Positions
      PROVE  f[x] = a[x] * Ext(b, l - x) /\ g[x] = p[x] * Ext(r, m - x) /\ f[x] \in Int
  <2>1. f = [y \in Positions |-> a[y] * Ext(b, l - y)]
    BY <1>3 DEF ConvTerms
  <2>2. g = [y \in Positions |-> p[y] * Ext(r, m - y)]
    BY <1>3 DEF ConvTerms
  <2>3. PICK n, z : n = l - x /\ z = 0
    OBVIOUS
  <2>4. n \in Int /\ z \in Int
    BY <1>2, <2>3, PlacesAre
  <2>5. Ext(b, n) \in Int
    BY <1>2, <2>4, ExtShift
  <2>6. a[x] \in Int
    BY <1>2 DEF Numeric
  <2> QED BY <2>1, <2>2, <2>3, <2>5, <2>6
<1>5. ASSUME NEW x \in Positions
      PROVE  Congruent(h[x], g[x])
  <2>1. PICK n, y, e : n = x * k /\ y = n % Degree /\ e = n \div Degree
    OBVIOUS
  <2>2. n \in Int /\ x \in Int /\ Degree \in Int
    BY <1>2, <2>1, PlacesAre
  <2>3. y \in Positions /\ e \in Int /\ n = e * Degree + y
    <3>1. PICK e0 \in Int, y0 \in Positions :
              n = e0 * Degree + y0 /\ (n \div Degree) = e0 /\ (n % Degree) = y0
      BY <2>2, Places
    <3> QED BY <2>1, <3>1
  <2>4. h[x] = f[y]
    <3>1. t[x] = y
      BY <1>3, <2>1 DEF Target
    <3>2. h[x] = f[t[x]]
      BY <1>3 DEF Renamed
    <3> QED BY <3>1, <3>2
  <2>5. PICK s : s = Sgn(e)
    OBVIOUS
  <2>6. s \in Int /\ s * s = 1
    <3>1. s \in {1, -1}
      BY <2>3, <2>5, SgnOf
    <3> QED BY <3>1
  <2>7. PICK u, v : u = p[x] /\ v = Ext(r, m - x)
    OBVIOUS
  <2>8. PICK w : w = m - x
    OBVIOUS
  <2>9. w \in Int /\ u \in Int
    BY <2>2, <2>7, <2>8 DEF Numeric
  <2>10. Congruent(a[y], s * u)
    BY <1>1, <2>1, <2>5, <2>7, AutomorphAt
  <2>11. Congruent(Ext(b, w * k), v)
    BY <1>1, <2>7, <2>8, <2>9, AutomorphExt
  <2>12. PICK o : o = w * k
    OBVIOUS
  <2>13. o \in Int /\ l - y = o + e * Degree
    <3>1. PICK c : c = e * Degree
      OBVIOUS
    <3>2. c \in Int /\ y \in Int
      BY <2>2, <2>3, <3>1, PlacesAre
    <3>3. o = l - n
      BY <1>1, <1>2, <2>1, <2>2, <2>8, <2>12
    <3> QED BY <1>2, <2>2, <2>3, <3>1, <3>2, <3>3
  <2>14. Ext(b, o + e * Degree) = s * Ext(b, o)
    BY <1>2, <2>3, <2>5, <2>13, ExtShift
  <2>15. Congruent(Ext(b, l - y), s * v)
    <3>1. Congruent(s * Ext(b, o), s * v)
      BY <2>6, <2>11, <2>12, CongruentRules
    <3> QED BY <2>13, <2>14, <3>1
  <2>16. Congruent(a[y] * Ext(b, l - y), (s * u) * (s * v))
    BY <2>10, <2>15, CongruentProduct
  <2>17. (s * u) * (s * v) = u * v
    <3>1. v \in Int
      BY <2>11 DEF Congruent
    <3>2. (s * u) * (s * v) = (s * s) * (u * v)
      BY <2>6, <2>9, <3>1
    <3>3. u * v \in Int
      BY <2>9, <3>1
    <3> QED BY <2>6, <3>2, <3>3
  <2> QED BY <1>4, <2>3, <2>4, <2>7, <2>16, <2>17
<1>6. Total(h, Positions) = Total(f, Positions)
  <2>1. IntegerOver(f, Positions)
    BY <1>4 DEF IntegerOver
  <2> QED BY <1>3, <2>1, PositionsOf, TargetOf, Renaming
<1>7. Congruent(Total(h, Positions), Total(g, Positions))
  BY <1>5, PositionsOf, CongruentTotals
<1>8. Conv(a, b, l) = Total(f, Positions) /\ Conv(p, r, m) = Total(g, Positions)
  BY <1>3 DEF Conv
<1> QED BY <1>1, <1>6, <1>7, <1>8

LEMMA TimesIs ==
    ASSUME NEW p, NEW r, Numeric(p), Numeric(r)
    PROVE  IsCoeffs(Times(p, r))
<1>1. ASSUME NEW j \in Positions
      PROVE  Times(p, r)[j] \in 0 .. 2 ^ CoeffBits - 1
  BY TimesAt, CoeffIs DEF Numeric
<1> QED BY <1>1, ProductsArePolys DEF IsCoeffs

\* The image of a product is the product of the images.
THEOREM AutomorphTimes ==
    ASSUME NEW p, NEW r, Numeric(p), Numeric(r), NEW k, IsOdd(k)
    PROVE  Automorph(Times(p, r), k) = Times(Automorph(p, k), Automorph(r, k))
<1>1. PICK a, b, c : a = Automorph(p, k) /\ b = Automorph(r, k) /\ c = Times(p, r)
  OBVIOUS
<1>2. Numeric(a) /\ Numeric(b) /\ IsCoeffs(c) /\ Numeric(c)
  BY <1>1, AutomorphIs, TimesIs, CoeffIs
<1>3. IsCoeffs(Automorph(c, k)) /\ IsCoeffs(Times(a, b))
  BY <1>2, AutomorphIs, TimesIs
<1>4. ASSUME NEW i \in Positions
      PROVE  Congruent(Ext(Automorph(c, k), i * k), Ext(Times(a, b), i * k))
  <2>1. i \in Int /\ i * k \in Int
    BY PlacesAre DEF IsOdd
  <2>2. Congruent(Ext(Automorph(c, k), i * k), Ext(c, i))
    BY <1>2, <2>1, AutomorphExt
  <2>3. Congruent(Ext(c, i), Conv(p, r, i))
    BY <1>1, <2>1, ProductExt
  <2>4. Congruent(Conv(a, b, i * k), Conv(p, r, i))
    BY <1>1, <2>1, AutomorphConv
  <2>5. Congruent(Ext(Times(a, b), i * k), Conv(a, b, i * k))
    <3>1. PICK n : n = i * k
      OBVIOUS
    <3>2. Congruent(Ext(Times(a, b), n), Conv(a, b, n))
      BY <1>2, <2>1, <3>1, ProductExt
    <3> QED BY <3>1, <3>2
  <2> QED BY <2>2, <2>3, <2>4, <2>5, CongruentRules
<1> QED BY <1>1, <1>3, <1>4, Determined

\* The maps compose.
THEOREM AutomorphTwice ==
    ASSUME NEW p, IsCoeffs(p), NEW k, IsOdd(k), NEW l, IsOdd(l)
    PROVE  Automorph(Automorph(p, k), l) = Automorph(p, (k * l) % (2 * Degree))
<1>1. PICK a, D : a = Automorph(p, k) /\ D = 2 * Degree
  OBVIOUS
<1>2. PICK n, q : n = ((k * l) % D) /\ q = ((k * l) \div D)
  OBVIOUS
<1>3. k \in Int /\ l \in Int /\ (k % 2) = 1 /\ (l % 2) = 1 /\ k * l \in Int
  BY DEF IsOdd
<1>4. n \in Int /\ q \in Int /\ k * l = D * q + n
  <2>1. D \in Nat \ {0}
    BY <1>1, PlacesAre
  <2> QED BY <1>2, <1>3, <2>1, Division
<1>5. ((k * l) % 2) = 1
  <2>1. PICK x, y : x = k \div 2 /\ y = l \div 2
    OBVIOUS
  <2>2. x \in Int /\ y \in Int /\ k = 2 * x + 1 /\ l = 2 * y + 1
    BY <1>3, <2>1
  <2>3. PICK u : u = x * l
    OBVIOUS
  <2>4. u \in Int /\ k * l = 2 * u + l
    BY <1>3, <2>2, <2>3
  <2> QED BY <1>3, <2>4
<1>6. IsOdd(n)
  <2>1. PICK u, v : u = Degree * q /\ v = k * l
    OBVIOUS
  <2>2. u \in Int /\ v \in Int /\ v = 2 * u + n /\ (v % 2) = 1
    BY <1>1, <1>3, <1>4, <1>5, <2>1, PlacesAre
  <2>3. (n % 2) = 1
    BY <1>4, <2>2
  <2> QED BY <1>4, <2>3 DEF IsOdd
<1>7. Numeric(p) /\ IsCoeffs(a) /\ Numeric(a)
  BY <1>1, AutomorphIs, CoeffIs
<1>8. IsCoeffs(Automorph(a, l)) /\ IsCoeffs(Automorph(p, n))
  BY <1>6, <1>7, AutomorphIs
<1>9. ASSUME NEW i \in Positions
      PROVE  Congruent(Ext(Automorph(a, l), i * n), Ext(Automorph(p, n), i * n))
  <2>1. i \in Int
    BY PlacesAre
  <2>2. Congruent(Ext(Automorph(p, n), i * n), Ext(p, i))
    BY <1>6, <1>7, <2>1, AutomorphExt
  <2>3. PICK m : m = i * k
    OBVIOUS
  <2>4. m \in Int
    BY <1>3, <2>1, <2>3
  <2>5. Congruent(Ext(a, m), Ext(p, i))
    BY <1>1, <1>7, <2>1, <2>3, AutomorphExt
  <2>6. Congruent(Ext(Automorph(a, l), m * l), Ext(a, m))
    BY <1>7, <2>4, AutomorphExt
  <2>7. PICK o, f : o = i * n /\ f = 2 * (i * q)
    OBVIOUS
  <2>8. o \in Int /\ f \in Int /\ m * l = o + f * Degree
    <3>1. m * l = i * (k * l)
      BY <1>3, <2>1, <2>3
    <3>2. PICK u : u = i * q
      OBVIOUS
    <3>3. u \in Int /\ f = 2 * u /\ o \in Int
      BY <1>4, <2>1, <2>7, <3>2
    <3>4. i * (D * q + n) = D * u + o
      <4>1. D \in Int
        BY <1>1, PlacesAre
      <4> QED BY <1>4, <2>1, <2>7, <3>2, <4>1
    <3>5. D * u = f * Degree /\ f * Degree \in Int
      BY <1>1, <3>3, PlacesAre
    <3> QED BY <1>4, <3>1, <3>3, <3>4, <3>5
  <2>9. Ext(Automorph(a, l), m * l) = Ext(Automorph(a, l), o)
    <3>1. PICK c : c = Automorph(a, l)
      OBVIOUS
    <3>2. Numeric(c)
      BY <1>8, <3>1, CoeffIs
    <3>3. Ext(c, o + f * Degree) = Sgn(f) * Ext(c, o) /\ Ext(c, o) \in Int
      BY <2>8, <3>2, ExtShift
    <3>4. Sgn(f) = 1
      <4>1. PICK u : u = i * q
        OBVIOUS
      <4>2. u \in Int /\ f = 2 * u
        BY <1>4, <2>1, <2>7, <4>1
      <4>3. (f % 2) = 0
        BY <4>2
      <4> QED BY <4>3 DEF Sgn
    <3> QED BY <2>8, <3>1, <3>3, <3>4
  <2> QED BY <2>2, <2>5, <2>6, <2>7, <2>9, CongruentRules
<1> QED BY <1>1, <1>2, <1>6, <1>8, <1>9, Determined

\* A sum with one term.
LEMMA SumOfOne ==
    ASSUME NEW S, IsFiniteSet(S), NEW f, NEW k \in S, f[k] \in Int,
           \A x \in S : x # k => f[x] = 0
    PROVE  Total(f, S) = f[k]
<1>1. \A x \in S : f[x] \in Int
  OBVIOUS
<1>2. Total(f, S) = f[k] + Total(f, S \ {k})
  BY <1>1, SumWith
<1>3. PICK R : R = S \ {k}
  OBVIOUS
<1>4. IsFiniteSet(R) /\ \A x \in R : f[x] = 0
  <2>1. R \in SUBSET S
    BY <1>3
  <2>2. IsFiniteSet(R)
    BY <2>1, FS_Subset
  <2> QED BY <1>3, <2>2
<1>5. Total(f, R) = 0
  BY <1>4, SumOfZeros
<1> QED BY <1>2, <1>3, <1>5

\* X^k.
Monomial(k) == [i \in Positions |-> IF i = k THEN 1 ELSE 0]

LEMMA MonomialConv ==
    ASSUME NEW p, Numeric(p), NEW k \in Positions, NEW m \in Int
    PROVE  Conv(Monomial(k), p, m) = Ext(p, m - k) /\ Numeric(Monomial(k))
<1>1. PICK f : f = ConvTerms(Monomial(k), p, m)
  OBVIOUS
<1>2. ASSUME NEW x \in Positions
      PROVE  f[x] = (IF x = k THEN 1 ELSE 0) * Ext(p, m - x) /\ Ext(p, m - x) \in Int
  <2>1. f[x] = Monomial(k)[x] * Ext(p, m - x)
    BY <1>1 DEF ConvTerms
  <2>2. PICK n, z : n = m - x /\ z = 0
    OBVIOUS
  <2>3. n \in Int /\ z \in Int
    BY <2>2, PlacesAre
  <2>4. Ext(p, n) \in Int
    BY <2>3, ExtShift
  <2> QED BY <2>1, <2>2, <2>4 DEF Monomial
<1>3. f[k] = Ext(p, m - k) /\ f[k] \in Int /\ \A x \in Positions : x # k => f[x] = 0
  BY <1>2
<1>4. Total(f, Positions) = f[k]
  BY <1>3, PositionsOf, SumOfOne
<1> QED BY <1>1, <1>3, <1>4 DEF Conv, Monomial, Numeric

\* The cheap product with X^k.
LEMMA MonomialTimesAt ==
    ASSUME NEW p, Numeric(p), NEW k \in Positions, NEW i \in Positions
    PROVE  /\ Congruent(MonomialTimes(p, k)[i], Ext(p, i - k))
           /\ MonomialTimes(p, k) = [j \in Positions |-> MonomialTimes(p, k)[j]]
           /\ MonomialTimes(p, k)[i]
                  = IF i < k THEN ToCoeff(-p[Degree - k + i]) ELSE p[i - k]
<1>1. PICK f : f = [j \in Positions |-> IF j < k THEN ToCoeff(-p[Degree - k + j]) ELSE p[j - k]]
  OBVIOUS
<1>2. MonomialTimes(p, k)
          = [j \in Positions |-> IF j < k THEN ToCoeff(-p[Degree - k + j]) ELSE p[j - k]]
  BY TabulatedIs, Zenon DEF MonomialTimes, Poly
<1>3. MonomialTimes(p, k) = f /\ f = [j \in Positions |-> f[j]]
  BY <1>1, <1>2
<1>4. f[i] = IF i < k THEN ToCoeff(-p[Degree - k + i]) ELSE p[i - k]
  BY <1>1
<1>5. i \in Int /\ k \in Int /\ Degree \in Int /\ 0 <= i /\ i < Degree /\ 0 <= k /\ k < Degree
  BY PlacesAre
<1>6. CASE i < k
  <2>1. PICK y, e : y = Degree - k + i /\ e = -1
    OBVIOUS
  <2>2. y \in Positions /\ e \in Int /\ i - k = e * Degree + y
    BY <1>5, <1>6, <2>1, PlacesAre
  <2>3. Ext(p, i - k) = Sgn(e) * p[y]
    BY <2>2, ExtAt
  <2>4. PICK v : v = p[y]
    OBVIOUS
  <2>5. v \in Int /\ Sgn(e) = -1
    BY <2>1, <2>2, <2>4, SgnOf DEF Numeric
  <2>6. Ext(p, i - k) = -v
    BY <2>3, <2>4, <2>5
  <2>7. f[i] = ToCoeff(-v)
    BY <1>4, <1>6, <2>1, <2>4
  <2>8. Congruent(ToCoeff(-v), -v)
    BY <2>5, CongruentRules
  <2> QED BY <1>3, <1>4, <2>6, <2>7, <2>8
<1>7. CASE ~(i < k)
  <2>1. PICK y, z : y = i - k /\ z = 0
    OBVIOUS
  <2>2. y \in Positions /\ z \in Int
    BY <1>5, <1>7, <2>1, PlacesAre
  <2>3. Ext(p, y) = p[y] /\ p[y] \in Int
    BY <2>2, ExtAt DEF Numeric
  <2>4. Congruent(p[y], p[y])
    BY <2>3, CongruentRules
  <2> QED BY <1>3, <1>4, <1>7, <2>1, <2>3, <2>4
<1> QED BY <1>6, <1>7

LEMMA MonomialTimesIs ==
    ASSUME NEW p, IsCoeffs(p), NEW k \in Positions
    PROVE  IsCoeffs(MonomialTimes(p, k))
<1>1. PICK a : a = MonomialTimes(p, k)
  OBVIOUS
<1>2. Numeric(p)
  BY CoeffIs
<1>3. a = [j \in Positions |-> a[j]]
  BY <1>1, <1>2, MonomialTimesAt
<1>4. ASSUME NEW i \in Positions
      PROVE  a[i] \in 0 .. 2 ^ CoeffBits - 1
  <2>1. a[i] = IF i < k THEN ToCoeff(-p[Degree - k + i]) ELSE p[i - k]
    BY <1>1, <1>2, MonomialTimesAt
  <2>2. IF i < k THEN Degree - k + i \in Positions ELSE i - k \in Positions
    BY PlacesAre
  <2>3. \A y \in Positions : p[y] \in 0 .. 2 ^ CoeffBits - 1 /\ -p[y] \in Int
    BY <1>2 DEF IsCoeffs, Numeric
  <2> QED BY <2>1, <2>2, <2>3, CoeffIs
<1> QED BY <1>1, <1>3, <1>4 DEF IsCoeffs

THEOREM MonomialProduct ==
    ASSUME NEW p, IsCoeffs(p), NEW k \in Positions
    PROVE  MonomialTimes(p, k) = Times(p, Monomial(k))
<1>1. PICK a, b, x : a = MonomialTimes(p, k) /\ b = Times(p, x) /\ x = Monomial(k)
  OBVIOUS
<1>2. Numeric(p) /\ Numeric(x)
  BY <1>1, CoeffIs DEF Monomial, Numeric
<1>3. IsCoeffs(a) /\ IsCoeffs(b)
  BY <1>1, <1>2, MonomialTimesIs, TimesIs
<1>4. ASSUME NEW i \in Positions
      PROVE  a[i] = b[i]
  <2>1. Congruent(a[i], Ext(p, i - k))
    BY <1>1, <1>2, MonomialTimesAt
  <2>2. i \in Int
    BY PlacesAre
  <2>3. NegacyclicAt(p, x, i) = NegacyclicAt(x, p, i)
    BY <1>2, Commutes DEF Numeric
  <2>4. NegacyclicAt(x, p, i) = Conv(x, p, i)
    BY <1>2, ConvIs
  <2>5. Conv(x, p, i) = Ext(p, i - k)
    BY <1>1, <1>2, <2>2, MonomialConv
  <2>6. b[i] = ToCoeff(NegacyclicAt(p, x, i)) /\ NegacyclicAt(p, x, i) \in Int
    BY <1>1, <1>2, TimesAt DEF Numeric
  <2>7. Congruent(b[i], Ext(p, i - k))
    BY <2>3, <2>4, <2>5, <2>6, CongruentRules
  <2>8. Congruent(a[i], b[i])
    BY <2>1, <2>7, CongruentRules
  <2>9. a[i] \in 0 .. 2 ^ CoeffBits - 1 /\ b[i] \in 0 .. 2 ^ CoeffBits - 1
    BY <1>3 DEF IsCoeffs
  <2> QED BY <2>8, <2>9, CoeffIs
<1>5. a = b
  BY <1>3, <1>4 DEF IsCoeffs
<1> QED BY <1>1, <1>5

LEMMA AnyPolyIs ==
    ASSUME NEW k \in Int
    PROVE  IsCoeffs(AnyPoly(k, 2 ^ CoeffBits))
<1>1. PICK W, f : /\ W = 2 ^ CoeffBits
                  /\ f = [i \in Positions |-> Scattered(k * Degree + i, W)]
  OBVIOUS
<1>2. W \in Nat \ {0}
  BY <1>1, CongruentIs
<1>3. AnyPoly(k, W) = [i \in Positions |-> Scattered(k * Degree + i, W)]
  BY TabulatedIs, Zenon DEF AnyPoly, Poly
<1>4. AnyPoly(k, W) = f /\ f = [i \in Positions |-> f[i]]
  BY <1>1, <1>3
<1>5. \A x \in Positions : AnyPoly(k, W)[x] \in 0 .. W - 1
  BY <1>2, AnyPolyOf
<1> QED BY <1>1, <1>4, <1>5 DEF IsCoeffs

\* The maps X |-> X^k of the packing are homomorphisms of the ring, for every
\* degree and width of a coefficient.
THEOREM Automorphisms == Spec => []AutomorphismsOfTheRing
<1> DEFINE p == AnyPoly(3 * case.seed, 2 ^ CoeffBits)
           r == AnyPoly(5 * case.seed + 1, 2 ^ CoeffBits)
           odd == { 2 * i + 1 : i \in Positions }
<1>1. ASSUME case \in AllCases, case.op = "automorphism"
      PROVE  /\ \A k \in odd :
                   /\ Automorph(Times(p, r), k) = Times(Automorph(p, k), Automorph(r, k))
                   /\ \A l \in odd : Automorph(Automorph(p, k), l)
                                         = Automorph(p, (k * l) % (2 * Degree))
             /\ \A k \in Positions : MonomialTimes(p, k) = Times(p, Monomial(k))
  <2>1. 3 * case.seed \in Int /\ 5 * case.seed + 1 \in Int
    BY <1>1, SeededCase DEF SeededOps
  <2>2. IsCoeffs(p) /\ IsCoeffs(r)
    BY <2>1, AnyPolyIs
  <2>3. Numeric(p) /\ Numeric(r)
    BY <2>2, CoeffIs
  <2>4. \A k \in odd : IsOdd(k)
    <3>1. ASSUME NEW i \in Positions PROVE IsOdd(2 * i + 1)
      <4>1. 2 * i + 1 \in Int /\ ((2 * i + 1) % 2) = 1
        BY PlacesAre
      <4> QED BY <4>1 DEF IsOdd
    <3> QED BY <3>1
  <2> HIDE DEF p, r, odd
  <2>5. ASSUME NEW k \in odd
        PROVE  Automorph(Times(p, r), k) = Times(Automorph(p, k), Automorph(r, k))
    BY <2>3, <2>4, AutomorphTimes
  <2>6. ASSUME NEW k \in odd, NEW l \in odd
        PROVE  Automorph(Automorph(p, k), l) = Automorph(p, (k * l) % (2 * Degree))
    BY <2>2, <2>4, AutomorphTwice
  <2>7. ASSUME NEW k \in Positions
        PROVE  MonomialTimes(p, k) = Times(p, Monomial(k))
    BY <2>2, MonomialProduct
  <2> QED BY <2>5, <2>6, <2>7
<1>2. case \in AllCases => AutomorphismsOfTheRing
  <2> SUFFICES ASSUME case \in AllCases, case.op = "automorphism"
               PROVE  /\ \A k \in odd :
                            /\ Automorph(Times(p, r), k) = Times(Automorph(p, k), Automorph(r, k))
                            /\ \A l \in odd : Automorph(Automorph(p, k), l)
                                                  = Automorph(p, (k * l) % (2 * Degree))
                      /\ \A k \in Positions : MonomialTimes(p, k) = Times(p, Monomial(k))
    <3>1. \A k \in Positions : Poly(LAMBDA i : IF i = k THEN 1 ELSE 0) = Monomial(k)
      BY TabulatedIs, Zenon DEF Poly, Monomial
    <3> QED BY <3>1, Zenon DEF AutomorphismsOfTheRing
  <2> QED BY <1>1
<1> QED BY <1>2, CasesInvariant, PTL

(***************************************************************************)
(* Exact products                                                          *)
(***************************************************************************)

Prod(p, r) == [j \in Positions |-> NegacyclicAt(p, r, j)]

LEMMA ProdOf ==
    ASSUME NEW p, NEW r, Numeric(p), Numeric(r)
    PROVE  /\ Numeric(Prod(p, r))
           /\ \A m \in Int : Ext(Prod(p, r), m) = Conv(p, r, m)
           /\ \A j \in Positions : Prod(p, r)[j] = Conv(p, r, j)
<1>1. ASSUME NEW j \in Positions
      PROVE  Prod(p, r)[j] = Conv(p, r, j) /\ Prod(p, r)[j] \in Int
  <2>1. Prod(p, r)[j] = NegacyclicAt(p, r, j)
    BY DEF Prod
  <2>2. NegacyclicAt(p, r, j) = Conv(p, r, j)
    BY ConvIs
  <2>3. NegacyclicAt(p, r, j) \in Int
    BY TimesAt DEF Numeric
  <2> QED BY <2>1, <2>2, <2>3
<1>2. ASSUME NEW m \in Int
      PROVE  Ext(Prod(p, r), m) = Conv(p, r, m)
  <2>1. PICK e \in Int, i \in Positions :
            m = e * Degree + i /\ (m \div Degree) = e /\ (m % Degree) = i
    BY Places
  <2>2. i \in Int
    BY PlacesAre
  <2>3. Conv(p, r, i + e * Degree) = Sgn(e) * Conv(p, r, i)
    BY <2>2, ConvShift
  <2>4. i + e * Degree = m
    <3>1. e * Degree \in Int
      BY PlacesAre
    <3> QED BY <2>1, <2>2, <3>1
  <2>5. Ext(Prod(p, r), m) = Sgn(e) * Prod(p, r)[i]
    BY <2>1 DEF Ext
  <2> QED BY <1>1, <2>3, <2>4, <2>5
<1> QED BY <1>1, <1>2 DEF Numeric

LEMMA ConvCommutes ==
    ASSUME NEW p, NEW r, Numeric(p), Numeric(r), NEW m \in Int
    PROVE  Conv(p, r, m) = Conv(r, p, m)
<1>1. \A j \in Positions : NegacyclicAt(p, r, j) = NegacyclicAt(r, p, j)
  BY Commutes DEF Numeric
<1>2. Prod(p, r) = Prod(r, p)
  BY <1>1 DEF Prod
<1>3. Ext(Prod(p, r), m) = Conv(p, r, m) /\ Ext(Prod(r, p), m) = Conv(r, p, m)
  BY ProdOf
<1> QED BY <1>2, <1>3

\* The place that is y before x.
Before(y) == [x \in Positions |-> (x - y) % Degree]

LEMMA BeforeOf ==
    ASSUME NEW y \in Positions
    PROVE  /\ \A x \in Positions : Before(y)[x] \in Positions
           /\ Injective(Before(y), Positions)
           /\ \A z \in Positions : \E x \in Positions : Before(y)[x] = z
<1>1. PICK b : b = Before(y)
  OBVIOUS
<1>2. y \in Int /\ 0 <= y /\ y < Degree /\ Degree \in Nat \ {0}
  BY PlacesAre
<1>3. ASSUME NEW x \in Positions
      PROVE  b[x] = IF x >= y THEN x - y ELSE Degree + x - y
  <2>1. b[x] = (x - y) % Degree
    BY <1>1 DEF Before
  <2>2. x \in Int /\ 0 <= x /\ x < Degree
    BY PlacesAre
  <2>3. PICK e, z : /\ e = IF x >= y THEN 0 ELSE -1
                    /\ z = IF x >= y THEN x - y ELSE Degree + x - y
    OBVIOUS
  <2>4. e \in Int /\ z \in Positions /\ x - y = e * Degree + z
    BY <1>2, <2>2, <2>3, PlacesAre
  <2>5. ((e * Degree + z) % Degree) = z
    BY <2>4, PlaceOf
  <2> QED BY <2>1, <2>3, <2>4, <2>5
<1>4. \A x \in Positions : b[x] \in Positions
  BY <1>2, <1>3, PlacesAre
<1>5. Injective(b, Positions)
  BY <1>2, <1>3, PlacesAre DEF Injective
<1>6. ASSUME NEW z \in Positions
      PROVE  \E x \in Positions : b[x] = z
  <2>1. z \in Int /\ 0 <= z /\ z < Degree
    BY PlacesAre
  <2>2. PICK x : x = IF z + y < Degree THEN z + y ELSE z + y - Degree
    OBVIOUS
  <2>3. x \in Positions /\ (IF x >= y THEN x - y ELSE Degree + x - y) = z
    BY <1>2, <2>1, <2>2, PlacesAre
  <2> QED BY <1>3, <2>3
<1> QED BY <1>1, <1>4, <1>5, <1>6

\* A product with r behind y, and one from y on.
LEMMA ConvBehind ==
    ASSUME NEW r, NEW s, Numeric(r), Numeric(s), NEW m \in Int, NEW y \in Positions, NEW f,
           f = [x \in Positions |-> Ext(r, x - y) * Ext(s, m - x)]
    PROVE  /\ Total(f, Positions) = Conv(r, s, m - y)
           /\ \A x \in Positions : f[x] \in Int
<1>1. PICK b, g : b = Before(y) /\ g = ConvTerms(r, s, m - y)
  OBVIOUS
<1>2. y \in Int /\ Degree \in Int
  BY PlacesAre
<1>3. ASSUME NEW x \in Positions
      PROVE  /\ g[x] = r[x] * Ext(s, (m - y) - x) /\ g[x] \in Int
  <2>1. g = [z \in Positions |-> r[z] * Ext(s, (m - y) - z)]
    BY <1>1 DEF ConvTerms
  <2>2. PICK n, e : n = (m - y) - x /\ e = 0
    OBVIOUS
  <2>3. n \in Int /\ e \in Int
    BY <1>2, <2>2, PlacesAre
  <2>4. Ext(s, n) \in Int
    BY <2>3, ExtShift
  <2>5. r[x] \in Int
    BY DEF Numeric
  <2> QED BY <2>1, <2>2, <2>4, <2>5
<1>4. ASSUME NEW x \in Positions
      PROVE  f[x] = g[b[x]] /\ f[x] \in Int
  <2>1. PICK n, e, z : n = x - y /\ e = n \div Degree /\ z = n % Degree
    OBVIOUS
  <2>2. n \in Int /\ x \in Int
    BY <1>2, <2>1, PlacesAre
  <2>3. e \in Int /\ z \in Positions /\ n = e * Degree + z
    <3>1. PICK e0 \in Int, z0 \in Positions :
              n = e0 * Degree + z0 /\ (n \div Degree) = e0 /\ (n % Degree) = z0
      BY <2>2, Places
    <3> QED BY <2>1, <3>1
  <2>4. b[x] = z
    BY <1>1, <2>1 DEF Before
  <2>5. PICK sg, v, w, o : sg = Sgn(e) /\ v = r[z] /\ o = m - x /\ w = Ext(s, o)
    OBVIOUS
  <2>6. sg \in {1, -1}
    BY <2>3, <2>5, SgnOf
  <2>7. Ext(r, n) = sg * v /\ v \in Int
    BY <2>3, <2>5, ExtAt DEF Numeric
  <2>8. o \in Int /\ (m - y) - z = o + e * Degree
    <3>1. PICK c : c = e * Degree
      OBVIOUS
    <3>2. c \in Int /\ z \in Int
      BY <1>2, <2>3, <3>1, PlacesAre
    <3>3. n = c + z
      BY <2>3, <3>1
    <3>4. n = x - y /\ o = m - x
      BY <2>1, <2>5
    <3>5. o \in Int /\ (m - y) - z = o + c
      BY <1>2, <2>2, <3>2, <3>3, <3>4
    <3> QED BY <3>1, <3>5
  <2>9. Ext(s, (m - y) - z) = sg * w /\ w \in Int
    BY <2>3, <2>5, <2>8, ExtShift
  <2>10. g[z] = v * (sg * w)
    BY <1>3, <2>3, <2>5, <2>9
  <2>11. f[x] = (sg * v) * w
    BY <2>1, <2>5, <2>7
  <2>12. (sg * v) * w = v * (sg * w) /\ (sg * v) * w \in Int
    BY <2>6, <2>7, <2>9
  <2> QED BY <2>4, <2>10, <2>11, <2>12
<1>5. f = Renamed(g, b, Positions)
  BY <1>4 DEF Renamed
<1>6. Total(f, Positions) = Total(g, Positions)
  <2>1. IntegerOver(g, Positions)
    BY <1>3 DEF IntegerOver
  <2>2. /\ \A x \in Positions : b[x] \in Positions
        /\ Injective(b, Positions)
        /\ \A z \in Positions : \E x \in Positions : b[x] = z
    BY <1>1, BeforeOf
  <2>3. IsFiniteSet(Positions)
    BY PositionsOf
  <2>4. Total(Renamed(g, b, Positions), Positions) = Total(g, Positions)
    BY <2>1, <2>2, <2>3, Renaming
  <2> QED BY <1>5, <2>4
<1> QED BY <1>1, <1>4, <1>6 DEF Conv

\* The products of three coefficients of a product of three polynomials.
Triples(p, r, s, m) ==
    [x \in Positions |-> [y \in Positions |-> p[y] * (Ext(r, x - y) * Ext(s, m - x))]]

LEMMA ConvAssociates ==
    ASSUME NEW p, NEW r, NEW s, Numeric(p), Numeric(r), Numeric(s), NEW m \in Int
    PROVE  Conv(Prod(p, r), s, m) = Conv(p, Prod(r, s), m)
<1>1. PICK F : F = Triples(p, r, s, m)
  OBVIOUS
<1>2. ASSUME NEW x \in Positions, NEW y \in Positions
      PROVE  /\ F[x][y] = p[y] * (Ext(r, x - y) * Ext(s, m - x))
             /\ p[y] \in Int /\ Ext(r, x - y) \in Int /\ Ext(s, m - x) \in Int
             /\ F[x][y] \in Int
  <2>1. F[x][y] = p[y] * (Ext(r, x - y) * Ext(s, m - x))
    BY <1>1, Zenon DEF Triples
  <2>2. PICK n, o, e : n = x - y /\ o = m - x /\ e = 0
    OBVIOUS
  <2>3. n \in Int /\ o \in Int /\ e \in Int
    BY <2>2, PlacesAre
  <2>4. Ext(r, n) \in Int /\ Ext(s, o) \in Int
    BY <2>3, ExtShift
  <2>5. p[y] \in Int
    BY DEF Numeric
  <2> QED BY <2>1, <2>2, <2>4, <2>5
<1>3. PICK f, g, a, b : /\ f = Inner(F, Positions, Positions)
                        /\ g = Across(F, Positions, Positions)
                        /\ a = ConvTerms(Prod(p, r), s, m) /\ b = ConvTerms(p, Prod(r, s), m)
  OBVIOUS
<1>4. ASSUME NEW x \in Positions
      PROVE  f[x] = a[x] /\ f[x] \in Int
  <2>1. PICK c, h : c = Ext(s, m - x) /\ h = ConvTerms(p, r, x)
    OBVIOUS
  <2>2. c \in Int /\ x \in Int
    BY <1>2, <2>1, PlacesAre
  <2>3. ASSUME NEW y \in Positions
        PROVE  h[y] \in Int /\ F[x][y] = c * h[y]
    <3>1. PICK u, v : u = p[y] /\ v = Ext(r, x - y)
      OBVIOUS
    <3>2. u \in Int /\ v \in Int /\ F[x][y] = u * (v * c)
      BY <1>2, <2>1, <3>1
    <3>3. h[y] = u * v
      BY <2>1, <3>1 DEF ConvTerms
    <3> QED BY <2>2, <3>2, <3>3
  <2>4. IsMultiple(F[x], c, h, Positions)
    BY <2>3 DEF IsMultiple
  <2>5. Total(F[x], Positions) = c * Total(h, Positions) /\ Total(h, Positions) \in Int
    BY <2>2, <2>4, PositionsOf, TimesTotal
  <2>6. f[x] = Total(F[x], Positions)
    BY <1>3 DEF Inner
  <2>7. Prod(p, r)[x] = Total(h, Positions)
    BY <2>1, ProdOf DEF Conv
  <2>8. a[x] = Prod(p, r)[x] * c
    BY <1>3, <2>1 DEF ConvTerms
  <2> QED BY <2>2, <2>5, <2>6, <2>7, <2>8
<1>5. ASSUME NEW y \in Positions
      PROVE  g[y] = b[y] /\ g[y] \in Int
  <2>1. PICK c, h, k : /\ c = p[y] /\ h = [x \in Positions |-> Ext(r, x - y) * Ext(s, m - x)]
                       /\ k = [x \in Positions |-> F[x][y]]
    OBVIOUS
  <2>2. c \in Int
    BY <2>1 DEF Numeric
  <2>3. Total(h, Positions) = Conv(r, s, m - y) /\ \A x \in Positions : h[x] \in Int
    BY <2>1, ConvBehind
  <2>4. \A x \in Positions : k[x] = c * h[x]
    BY <1>2, <2>1
  <2>5. IsMultiple(k, c, h, Positions)
    BY <2>3, <2>4 DEF IsMultiple
  <2>6. Total(k, Positions) = c * Total(h, Positions) /\ Total(h, Positions) \in Int
    BY <2>2, <2>5, PositionsOf, TimesTotal
  <2>7. g[y] = Total(k, Positions)
    BY <1>3, <2>1, Zenon DEF Across
  <2>8. Ext(Prod(r, s), m - y) = Conv(r, s, m - y)
    <3>1. m - y \in Int
      BY PlacesAre
    <3> QED BY <3>1, ProdOf
  <2>9. b[y] = c * Ext(Prod(r, s), m - y)
    BY <1>3, <2>1 DEF ConvTerms
  <2> QED BY <2>2, <2>3, <2>6, <2>7, <2>8, <2>9
<1>6. Total(f, Positions) = Total(g, Positions)
  <2>1. \A x \in Positions : IntegerOver(F[x], Positions)
    BY <1>2 DEF IntegerOver
  <2> QED BY <1>3, <2>1, PositionsOf, Exchange
<1>7. Total(f, Positions) = Total(a, Positions)
  BY <1>4, PositionsOf, TotalsEqual
<1>8. Total(g, Positions) = Total(b, Positions)
  BY <1>5, PositionsOf, TotalsEqual
<1> QED BY <1>3, <1>6, <1>7, <1>8 DEF Conv

(***************************************************************************)
(* Numbers that are the same modulo q                                      *)
(***************************************************************************)

Alike(x, y) == x \in Int /\ y \in Int /\ \E k \in Int : x = y + Modulus * k

LEMMA AlikeRules ==
    /\ \A x \in Int : /\ Alike(x, x) /\ Alike(ToCoeff(x), x) /\ Alike(ToRing(x), x)
                      /\ ToRing(x) \in 0 .. Modulus - 1
    /\ \A x, y : Alike(x, y) => Alike(y, x) /\ x \in Int /\ y \in Int
    /\ \A x, y, z : Alike(x, y) /\ Alike(y, z) => Alike(x, z)
    /\ \A x, y : Congruent(x, y) => Alike(x, y)
<1>1. PICK q : q = Modulus
  OBVIOUS
<1>2. q \in Nat \ {0} /\ LogModulus \in 1 .. CoeffBits
  BY <1>1, ModulusPositive
<1>3. ASSUME NEW x, NEW y
      PROVE  Alike(x, y) <=> x \in Int /\ y \in Int /\ \E k \in Int : x = y + q * k
  BY <1>1 DEF Alike
<1>4. ASSUME NEW x \in Int
      PROVE  /\ Alike(x, x) /\ Alike(ToCoeff(x), x) /\ Alike(ToRing(x), x)
             /\ ToRing(x) \in 0 .. q - 1
  <2>1. x = x + q * 0 /\ 0 \in Int
    BY <1>2
  <2>2. PICK u, v : u = ToCoeff(x) /\ v = ToRing(x)
    OBVIOUS
  <2>3. /\ u \in Int /\ v \in 0 .. q - 1
        /\ \E k \in Int : u = x + q * k
        /\ \E k \in Int : v = x + q * k
    BY <1>1, <1>2, <2>2, Wraps DEF ToRing, Modulus
  <2>4. v \in Int
    BY <1>2, <2>3
  <2> QED BY <1>3, <2>1, <2>2, <2>3, <2>4
<1>5. ASSUME NEW x, NEW y, Alike(x, y)
      PROVE  Alike(y, x) /\ x \in Int /\ y \in Int
  <2>1. x \in Int /\ y \in Int
    BY <1>3, <1>5
  <2>2. PICK k \in Int : x = y + q * k
    BY <1>3, <1>5
  <2>3. y = x + q * (-k) /\ -k \in Int
    BY <1>2, <2>1, <2>2
  <2> QED BY <1>3, <2>1, <2>3
<1>6. ASSUME NEW x, NEW y, NEW z, Alike(x, y), Alike(y, z)
      PROVE  Alike(x, z)
  <2>1. x \in Int /\ y \in Int /\ z \in Int
    BY <1>3, <1>6
  <2>2. PICK k \in Int : x = y + q * k
    BY <1>3, <1>6
  <2>3. PICK l \in Int : y = z + q * l
    BY <1>3, <1>6
  <2>4. x = z + q * (k + l) /\ k + l \in Int
    BY <1>2, <2>1, <2>2, <2>3
  <2> QED BY <1>3, <2>1, <2>4
<1>7. ASSUME NEW x, NEW y, Congruent(x, y)
      PROVE  Alike(x, y)
  <2>1. x \in Int /\ y \in Int /\ ToCoeff(x) = ToCoeff(y)
    BY <1>7, CongruentRules DEF Congruent
  <2>2. Alike(ToCoeff(x), x) /\ Alike(ToCoeff(y), y)
    BY <1>4, <2>1
  <2> QED BY <1>5, <1>6, <2>1, <2>2
<1> QED BY <1>1, <1>4, <1>5, <1>6, <1>7

\* Sums and multiples.
LEMMA AlikeSums ==
    /\ \A x, y, u, v : Alike(x, y) /\ Alike(u, v) => Alike(x + u, y + v)
    /\ \A x, y : Alike(x, y) => \A c \in Int : Alike(c * x, c * y)
<1>1. PICK q : q = Modulus
  OBVIOUS
<1>2. q \in Nat \ {0}
  BY <1>1, ModulusPositive
<1>3. ASSUME NEW x, NEW y
      PROVE  Alike(x, y) <=> x \in Int /\ y \in Int /\ \E k \in Int : x = y + q * k
  BY <1>1 DEF Alike
<1>4. ASSUME NEW x, NEW y, NEW u, NEW v, Alike(x, y), Alike(u, v)
      PROVE  Alike(x + u, y + v)
  <2>1. x \in Int /\ y \in Int /\ u \in Int /\ v \in Int
    BY <1>3, <1>4
  <2>2. PICK k \in Int : x = y + q * k
    BY <1>3, <1>4
  <2>3. PICK l \in Int : u = v + q * l
    BY <1>3, <1>4
  <2>4. x + u = (y + v) + q * (k + l) /\ k + l \in Int
    BY <1>2, <2>1, <2>2, <2>3
  <2> QED BY <1>3, <2>1, <2>4
<1>5. ASSUME NEW x, NEW y, Alike(x, y), NEW c \in Int
      PROVE  Alike(c * x, c * y)
  <2>1. x \in Int /\ y \in Int
    BY <1>3, <1>5
  <2>2. PICK k \in Int : x = y + q * k
    BY <1>3, <1>5
  <2>3. c * x = c * y + q * (c * k) /\ c * k \in Int /\ c * x \in Int /\ c * y \in Int
    BY <1>2, <2>1, <2>2
  <2> QED BY <1>3, <2>3
<1> QED BY <1>4, <1>5

LEMMA AlikeTotals ==
    ASSUME NEW S, IsFiniteSet(S), NEW f, NEW g, \A x \in S : Alike(f[x], g[x])
    PROVE  Alike(Total(f, S), Total(g, S))
<1>1. PICK q : q = Modulus
  OBVIOUS
<1>2. q \in Int
  BY <1>1, ModulusPositive
<1>3. Combines(f, g, 0, g, q, S)
  <2> SUFFICES ASSUME NEW x \in S
               PROVE  Combined(f[x], g[x], 0, g[x], q)
    BY DEF Combines
  <2>1. f[x] \in Int /\ g[x] \in Int /\ \E k \in Int : f[x] = g[x] + q * k
    BY <1>1 DEF Alike
  <2>2. PICK k \in Int : f[x] = g[x] + q * k
    BY <2>1
  <2>3. f[x] = g[x] + 0 * g[x] + q * k
    BY <1>2, <2>1, <2>2
  <2> QED BY <2>1, <2>3 DEF Combined
<1>4. PICK u, v : u = Total(f, S) /\ v = Total(g, S)
  OBVIOUS
<1>5. Combined(u, v, 0, v, q)
  BY <1>2, <1>3, <1>4, CombinedTotals
<1>6. u \in Int /\ v \in Int
  BY <1>5 DEF Combined
<1>7. PICK k \in Int : u = v + 0 * v + q * k
  BY <1>5 DEF Combined
<1>8. u = v + q * k
  BY <1>2, <1>6, <1>7
<1> QED BY <1>1, <1>4, <1>6, <1>8 DEF Alike

(***************************************************************************)
(* Products are linear                                                     *)
(***************************************************************************)

AddsMultiple(h, f, c, g) == /\ Numeric(f) /\ Numeric(g) /\ c \in Int
                            /\ \A x \in Positions : h[x] = f[x] + c * g[x]

\* A product with s anywhere does the same.
AddsProducts(h, f, c, g, s) ==
    \A m \in Int : Conv(h, s, m) = Conv(f, s, m) + c * Conv(g, s, m)

LEMMA ConvSum ==
    ASSUME NEW f, NEW g, NEW h, NEW c, AddsMultiple(h, f, c, g), NEW s, Numeric(s)
    PROVE  Numeric(h) /\ AddsProducts(h, f, c, g, s)
<1> SUFFICES ASSUME NEW m \in Int
             PROVE  Numeric(h) /\ Conv(h, s, m) = Conv(f, s, m) + c * Conv(g, s, m)
  <2>1. 0 \in Int
    OBVIOUS
  <2> QED BY <2>1 DEF AddsProducts
<1>0. c \in Int
  BY DEF AddsMultiple
<1>1. PICK F, G, H, E : /\ F = ConvTerms(f, s, m) /\ G = ConvTerms(g, s, m)
                        /\ H = ConvTerms(h, s, m) /\ E = [x \in Positions |-> c * G[x]]
  OBVIOUS
<1>2. \A x \in Positions :
          f[x] \in Int /\ g[x] \in Int /\ h[x] = f[x] + c * g[x] /\ h[x] \in Int
  BY DEF AddsMultiple, Numeric
<1>3. ASSUME NEW x \in Positions
      PROVE  F[x] \in Int /\ G[x] \in Int /\ E[x] = c * G[x] /\ E[x] \in Int /\ H[x] = F[x] + E[x]
  <2>1. PICK w, y, u, v : w = Ext(s, m - x) /\ y = m - x /\ u = f[x] /\ v = g[x]
    OBVIOUS
  <2>2. y \in Int
    BY <2>1, PlacesAre
  <2>3. w \in Int
    BY <2>1, <2>2, ExtShift
  <2>4. F[x] = u * w /\ G[x] = v * w /\ H[x] = h[x] * w /\ E[x] = c * G[x]
    BY <1>1, <2>1 DEF ConvTerms
  <2>5. u \in Int /\ v \in Int /\ h[x] = u + c * v
    BY <1>2, <2>1
  <2>6. /\ (u + c * v) * w = u * w + c * (v * w) /\ u * w \in Int /\ v * w \in Int
        /\ c * (v * w) \in Int
    BY <1>0, <2>3, <2>5
  <2> QED BY <2>4, <2>5, <2>6
<1>4. Total(H, Positions) = Total(F, Positions) + Total(E, Positions)
  <2>1. \A x \in Positions : F[x] \in Int /\ E[x] \in Int /\ H[x] = F[x] + E[x]
    BY <1>3
  <2>2. IsFiniteSet(Positions)
    BY PositionsOf
  <2> QED BY <2>1, <2>2, SumOfTwo
<1>5. IsMultiple(E, c, G, Positions)
  BY <1>3 DEF IsMultiple
<1>6. Total(E, Positions) = c * Total(G, Positions)
  BY <1>0, <1>5, PositionsOf, TimesTotal
<1> QED BY <1>1, <1>2, <1>4, <1>6 DEF Conv, Numeric

LEMMA ConvAlike ==
    ASSUME NEW f, NEW g, NEW s, Numeric(s), \A x \in Positions : Alike(f[x], g[x]), NEW m \in Int
    PROVE  Alike(Conv(f, s, m), Conv(g, s, m))
<1>1. PICK F, G : F = ConvTerms(f, s, m) /\ G = ConvTerms(g, s, m)
  OBVIOUS
<1>2. ASSUME NEW x \in Positions
      PROVE  Alike(F[x], G[x])
  <2>1. PICK w, y, u, v : w = Ext(s, m - x) /\ y = m - x /\ u = f[x] /\ v = g[x]
    OBVIOUS
  <2>2. y \in Int
    BY <2>1, PlacesAre
  <2>3. w \in Int
    BY <2>1, <2>2, ExtShift
  <2>4. F[x] = u * w /\ G[x] = v * w
    BY <1>1, <2>1 DEF ConvTerms
  <2>5. Alike(u, v)
    BY <2>1
  <2>6. Alike(w * u, w * v) /\ u \in Int /\ v \in Int
    BY <2>3, <2>5, AlikeRules, AlikeSums
  <2>7. w * u = u * w /\ w * v = v * w
    BY <2>3, <2>6
  <2> QED BY <2>4, <2>6, <2>7
<1>3. Alike(Total(F, Positions), Total(G, Positions))
  BY <1>2, PositionsOf, AlikeTotals
<1> QED BY <1>1, <1>3 DEF Conv

\* The product with a sum of polynomials.
IsTotal(p, P, K) == /\ \A k \in K : Numeric(P[k])
                    /\ \A x \in Positions : p[x] = Total([k \in K |-> P[k][x]], K)

LEMMA ConvOfTotal ==
    ASSUME NEW K, IsFiniteSet(K), NEW P, NEW s, Numeric(s), NEW p, IsTotal(p, P, K), NEW m \in Int
    PROVE  /\ Numeric(p)
           /\ Conv(p, s, m) = Total([k \in K |-> Conv(P[k], s, m)], K)
<1>1. PICK F : F = [x \in Positions |-> [k \in K |-> P[k][x] * Ext(s, m - x)]]
  OBVIOUS
<1>2. ASSUME NEW x \in Positions, NEW k \in K
      PROVE  /\ F[x][k] = P[k][x] * Ext(s, m - x) /\ F[x][k] \in Int
             /\ P[k][x] \in Int /\ Ext(s, m - x) \in Int
  <2>1. F[x][k] = P[k][x] * Ext(s, m - x)
    BY <1>1, Zenon
  <2>2. PICK y, z : y = m - x /\ z = 0
    OBVIOUS
  <2>3. y \in Int /\ z \in Int
    BY <2>2, PlacesAre
  <2>4. Ext(s, y) \in Int
    BY <2>3, ExtShift
  <2>5. P[k][x] \in Int
    BY DEF IsTotal, Numeric
  <2> QED BY <2>1, <2>2, <2>4, <2>5
<1>3. PICK f, g, a, b : /\ f = Inner(F, Positions, K) /\ g = Across(F, Positions, K)
                        /\ a = ConvTerms(p, s, m) /\ b = [k \in K |-> Conv(P[k], s, m)]
  OBVIOUS
<1>4. ASSUME NEW x \in Positions
      PROVE  f[x] = a[x] /\ f[x] \in Int /\ p[x] \in Int
  <2>1. PICK c, h, y, z : /\ c = Ext(s, m - x) /\ h = [k \in K |-> P[k][x]] /\ y = m - x /\ z = 0
    OBVIOUS
  <2>2. y \in Int /\ z \in Int
    BY <2>1, PlacesAre
  <2>3. c \in Int
    BY <2>1, <2>2, ExtShift
  <2>4. ASSUME NEW k \in K
        PROVE  h[k] \in Int /\ F[x][k] = c * h[k]
    <3>1. h[k] = P[k][x]
      BY <2>1
    <3>2. h[k] \in Int /\ F[x][k] = h[k] * c
      BY <1>2, <2>1, <3>1
    <3> QED BY <2>3, <3>2
  <2>5. IsMultiple(F[x], c, h, K)
    BY <2>4 DEF IsMultiple
  <2>6. Total(F[x], K) = c * Total(h, K) /\ Total(h, K) \in Int
    BY <2>3, <2>5, TimesTotal
  <2>7. f[x] = Total(F[x], K)
    BY <1>3 DEF Inner
  <2>8. p[x] = Total(h, K)
    BY <2>1 DEF IsTotal
  <2>9. a[x] = p[x] * c
    BY <1>3, <2>1 DEF ConvTerms
  <2> QED BY <2>3, <2>6, <2>7, <2>8, <2>9
<1>5. ASSUME NEW k \in K
      PROVE  g[k] = b[k] /\ g[k] \in Int
  <2>1. PICK h : h = [x \in Positions |-> F[x][k]]
    OBVIOUS
  <2>2. \A x \in Positions : h[x] = P[k][x] * Ext(s, m - x) /\ h[x] \in Int
    BY <1>2, <2>1
  <2>3. h = ConvTerms(P[k], s, m)
    BY <2>1, <2>2 DEF ConvTerms
  <2>4. g[k] = Total(h, Positions)
    BY <1>3, <2>1, Zenon DEF Across
  <2>5. b[k] = Total(ConvTerms(P[k], s, m), Positions)
    BY <1>3 DEF Conv
  <2>6. Total(h, Positions) \in Int
    BY <2>2, PositionsOf, SumWith
  <2> QED BY <2>3, <2>4, <2>5, <2>6
<1>6. Total(f, Positions) = Total(g, K)
  <2>1. \A x \in Positions : IntegerOver(F[x], K)
    BY <1>2 DEF IntegerOver
  <2> QED BY <1>3, <2>1, PositionsOf, Exchange
<1>7. Total(f, Positions) = Total(a, Positions)
  BY <1>4, PositionsOf, TotalsEqual
<1>8. Total(g, K) = Total(b, K)
  BY <1>5, TotalsEqual
<1> QED BY <1>3, <1>4, <1>6, <1>7, <1>8 DEF Conv, Numeric

\* X^k p.
Moved(p, k) == [j \in Positions |-> Ext(p, j - k)]

LEMMA MovedExt ==
    ASSUME NEW p, Numeric(p), NEW k \in Positions, NEW m \in Int
    PROVE  Numeric(Moved(p, k)) /\ Ext(Moved(p, k), m) = Ext(p, m - k)
<1>1. PICK t : t = Moved(p, k)
  OBVIOUS
<1>2. k \in Int /\ Degree \in Int
  BY PlacesAre
<1>3. ASSUME NEW i \in Positions
      PROVE  t[i] = Ext(p, i - k) /\ t[i] \in Int
  <2>1. t[i] = Ext(p, i - k)
    BY <1>1 DEF Moved
  <2>2. PICK y, z : y = i - k /\ z = 0
    OBVIOUS
  <2>3. y \in Int /\ z \in Int
    BY <1>2, <2>2, PlacesAre
  <2>4. Ext(p, y) \in Int
    BY <2>3, ExtShift
  <2> QED BY <2>1, <2>2, <2>4
<1>4. Numeric(t)
  BY <1>3 DEF Numeric
<1>5. PICK e \in Int, i \in Positions :
          m = e * Degree + i /\ (m \div Degree) = e /\ (m % Degree) = i
  BY Places
<1>6. Ext(t, e * Degree + i) = Sgn(e) * t[i]
  BY <1>4, ExtAt
<1>7. PICK y : y = i - k
  OBVIOUS
<1>8. y \in Int /\ i \in Int
  BY <1>2, <1>7, PlacesAre
<1>9. Ext(p, y + e * Degree) = Sgn(e) * Ext(p, y)
  BY <1>8, ExtShift
<1>10. y + e * Degree = m - k
  <2>1. PICK o : o = e * Degree
    OBVIOUS
  <2>2. o \in Int /\ m = o + i
    BY <1>2, <1>5, <2>1
  <2>3. y + o = m - k
    BY <1>2, <1>7, <1>8, <2>2
  <2> QED BY <2>1, <2>3
<1>11. Ext(t, m) = Sgn(e) * t[i]
  BY <1>5, <1>6
<1>12. t[i] = Ext(p, y)
  BY <1>3, <1>7
<1> QED BY <1>1, <1>4, <1>9, <1>10, <1>11, <1>12

LEMMA MovedConv ==
    ASSUME NEW p, NEW s, Numeric(p), Numeric(s), NEW k \in Positions, NEW m \in Int
    PROVE  Conv(p, Moved(s, k), m) = Conv(p, s, m - k)
<1>1. PICK F, G : F = ConvTerms(p, Moved(s, k), m) /\ G = ConvTerms(p, s, m - k)
  OBVIOUS
<1>2. ASSUME NEW x \in Positions
      PROVE  F[x] = G[x] /\ F[x] \in Int
  <2>1. PICK y, z, w : y = m - x /\ z = (m - k) - x /\ w = p[x]
    OBVIOUS
  <2>2. y \in Int /\ z \in Int /\ y - k = z
    BY <2>1, PlacesAre
  <2>3. Ext(Moved(s, k), y) = Ext(s, z)
    BY <2>2, MovedExt
  <2>4. Ext(s, z) \in Int
    <3>1. PICK o : o = 0
      OBVIOUS
    <3>2. o \in Int
      BY <3>1
    <3> QED BY <2>2, <3>2, ExtShift
  <2>5. w \in Int
    BY <2>1 DEF Numeric
  <2>6. F[x] = w * Ext(Moved(s, k), y) /\ G[x] = w * Ext(s, z)
    BY <1>1, <2>1 DEF ConvTerms
  <2> QED BY <2>3, <2>4, <2>5, <2>6
<1>3. Total(F, Positions) = Total(G, Positions)
  BY <1>2, PositionsOf, TotalsEqual
<1> QED BY <1>1, <1>3 DEF Conv

\* A row of a gadget ciphertext: what b + a s holds.
IsGadgetRow(b, a, e, s, w, g) ==
    /\ Numeric(b) /\ Numeric(a) /\ Numeric(e) /\ Numeric(g) /\ w \in Int
    /\ \A x \in Positions : Alike(b[x] + Conv(a, s, x), e[x] + w * g[x])

\* A digit with one row.
RowPhase(d, b, a, s, j) == Conv(d, b, j) + Conv(Prod(d, a), s, j)

LEMMA RowPhaseIs ==
    ASSUME NEW d, NEW b, NEW a, NEW e, NEW s, NEW w, NEW g, Numeric(d), Numeric(s),
           IsGadgetRow(b, a, e, s, w, g), NEW j \in Int
    PROVE  /\ Alike(RowPhase(d, b, a, s, j), Conv(d, e, j) + w * Conv(d, g, j))
           /\ Conv(d, e, j) \in Int /\ Conv(d, g, j) \in Int
<1>1. /\ Numeric(b) /\ Numeric(a) /\ Numeric(e) /\ Numeric(g) /\ w \in Int
      /\ \A x \in Positions : Alike(b[x] + Conv(a, s, x), e[x] + w * g[x])
  BY DEF IsGadgetRow
<1>2. PICK p, one : p = Prod(a, s) /\ one = 1
  OBVIOUS
<1>3. Numeric(p) /\ \A x \in Positions : p[x] = Conv(a, s, x)
  BY <1>1, <1>2, ProdOf
<1>4. PICK h, f : /\ h = [x \in Positions |-> b[x] + one * p[x]]
                  /\ f = [x \in Positions |-> e[x] + w * g[x]]
  OBVIOUS
<1>5. ASSUME NEW x \in Positions
      PROVE  Alike(h[x], f[x])
  <2>1. b[x] \in Int /\ p[x] \in Int
    BY <1>1, <1>3 DEF Numeric
  <2>2. h[x] = b[x] + Conv(a, s, x)
    BY <1>2, <1>3, <1>4, <2>1
  <2>3. f[x] = e[x] + w * g[x]
    BY <1>4
  <2> QED BY <1>1, <2>2, <2>3
<1>6. Alike(Conv(h, d, j), Conv(f, d, j))
  BY <1>5, ConvAlike
<1>7. Conv(h, d, j) = Conv(b, d, j) + one * Conv(p, d, j)
  <2>1. AddsMultiple(h, b, one, p)
    BY <1>1, <1>2, <1>3, <1>4 DEF AddsMultiple
  <2>2. AddsProducts(h, b, one, p, d)
    BY <2>1, ConvSum
  <2> QED BY <2>2 DEF AddsProducts
<1>8. Conv(f, d, j) = Conv(e, d, j) + w * Conv(g, d, j)
  <2>1. AddsMultiple(f, e, w, g)
    BY <1>1, <1>4 DEF AddsMultiple
  <2>2. AddsProducts(f, e, w, g, d)
    BY <2>1, ConvSum
  <2> QED BY <2>2 DEF AddsProducts
<1>9. /\ Conv(b, d, j) = Conv(d, b, j) /\ Conv(p, d, j) = Conv(d, p, j)
      /\ Conv(e, d, j) = Conv(d, e, j) /\ Conv(g, d, j) = Conv(d, g, j)
  BY <1>1, <1>3, ConvCommutes
<1>10. Conv(d, p, j) = Conv(Prod(d, a), s, j)
  BY <1>1, <1>2, ConvAssociates
<1>11. PICK z : z = 0
  OBVIOUS
<1>12. z \in Int
  BY <1>11
<1>13. /\ Conv(d, b, j) \in Int /\ Conv(d, p, j) \in Int
       /\ Conv(d, e, j) \in Int /\ Conv(d, g, j) \in Int
  BY <1>1, <1>3, <1>12, ConvShift
<1>14. one * Conv(p, d, j) = Conv(d, p, j)
  BY <1>2, <1>9, <1>13
<1> QED BY <1>6, <1>7, <1>8, <1>9, <1>10, <1>13, <1>14 DEF RowPhase

\* The digits of a number against the rows of a gadget ciphertext.
AreGadgetRows(n, d, b, a, e, s, w, c, g) ==
    \A k \in 0 .. n - 1 : /\ Numeric(d[k]) /\ w[k] \in Int
                          /\ IsGadgetRow(b[k], a[k], e[k], s, c * w[k], g)

WeightedDigits(d, w, n) ==
    [x \in Positions |-> Total([k \in 0 .. n - 1 |-> d[k][x] * w[k]], 0 .. n - 1)]

ErrorOf(d, e, n, j) == Total([k \in 0 .. n - 1 |-> Conv(d[k], e[k], j)], 0 .. n - 1)

LEMMA RowsPhase ==
    ASSUME NEW n \in Nat, NEW d, NEW b, NEW a, NEW e, NEW s, NEW w, NEW c \in Int, NEW g,
           Numeric(s), Numeric(g), AreGadgetRows(n, d, b, a, e, s, w, c, g), NEW j \in Int
    PROVE  /\ Alike(Total([k \in 0 .. n - 1 |-> RowPhase(d[k], b[k], a[k], s, j)], 0 .. n - 1),
                    ErrorOf(d, e, n, j) + c * Conv(WeightedDigits(d, w, n), g, j))
           /\ Numeric(WeightedDigits(d, w, n)) /\ ErrorOf(d, e, n, j) \in Int
<1>1. PICK K, P, R : /\ K = 0 .. n - 1 /\ R = WeightedDigits(d, w, n)
                     /\ P = [k \in K |-> [x \in Positions |-> d[k][x] * w[k]]]
  OBVIOUS
<1>2. IsFiniteSet(K)
  BY <1>1, FS_Interval
<1>3. ASSUME NEW k \in K
      PROVE  /\ Numeric(d[k]) /\ w[k] \in Int
             /\ IsGadgetRow(b[k], a[k], e[k], s, c * w[k], g)
  BY <1>1 DEF AreGadgetRows
<1>4. ASSUME NEW k \in K
      PROVE  /\ Numeric(P[k]) /\ Conv(P[k], g, j) = w[k] * Conv(d[k], g, j)
             /\ Conv(d[k], g, j) \in Int /\ \A x \in Positions : P[k][x] = d[k][x] * w[k]
  <2>1. PICK p, u, y, h : /\ p = P[k] /\ u = d[k] /\ y = w[k]
                          /\ h = [x \in Positions |-> y * ConvTerms(u, g, j)[x]]
    OBVIOUS
  <2>2. Numeric(u) /\ y \in Int
    BY <1>3, <2>1
  <2>3. \A x \in Positions : p[x] = u[x] * y
    BY <1>1, <2>1
  <2>4. ASSUME NEW x \in Positions
        PROVE  /\ ConvTerms(p, g, j)[x] = y * ConvTerms(u, g, j)[x]
               /\ ConvTerms(u, g, j)[x] \in Int
    <3>1. PICK o, z, q : o = j - x /\ z = Ext(g, j - x) /\ q = u[x]
      OBVIOUS
    <3>2. o \in Int
      BY <3>1, PlacesAre
    <3>3. z \in Int
      BY <3>1, <3>2, ExtShift
    <3>4. q \in Int
      BY <2>2, <3>1 DEF Numeric
    <3>5. ConvTerms(p, g, j)[x] = (q * y) * z /\ ConvTerms(u, g, j)[x] = q * z
      BY <2>3, <3>1 DEF ConvTerms
    <3>6. (q * y) * z = y * (q * z) /\ q * z \in Int
      BY <2>2, <3>3, <3>4
    <3> QED BY <3>5, <3>6
  <2>5. IsMultiple(ConvTerms(p, g, j), y, ConvTerms(u, g, j), Positions)
    BY <2>4 DEF IsMultiple
  <2>6. /\ Total(ConvTerms(p, g, j), Positions) = y * Total(ConvTerms(u, g, j), Positions)
        /\ Total(ConvTerms(u, g, j), Positions) \in Int
    BY <2>2, <2>5, PositionsOf, TimesTotal
  <2>7. \A x \in Positions : u[x] \in Int /\ u[x] * y \in Int
    BY <2>2 DEF Numeric
  <2> QED BY <2>1, <2>3, <2>6, <2>7 DEF Conv, Numeric
<1>5. \A x \in Positions : R[x] = Total([k \in K |-> P[k][x]], K)
  <2> SUFFICES ASSUME NEW x \in Positions
               PROVE  R[x] = Total([k \in K |-> P[k][x]], K)
    OBVIOUS
  <2>1. [k \in K |-> P[k][x]] = [k \in K |-> d[k][x] * w[k]]
    BY <1>4
  <2>2. R[x] = Total([k \in K |-> d[k][x] * w[k]], K)
    BY <1>1 DEF WeightedDigits
  <2> QED BY <2>1, <2>2
<1>6. IsTotal(R, P, K)
  BY <1>4, <1>5 DEF IsTotal
<1>7. Numeric(R) /\ Conv(R, g, j) = Total([k \in K |-> Conv(P[k], g, j)], K)
  BY <1>2, <1>6, ConvOfTotal
<1>8. PICK L, E, G, M, H : /\ L = [k \in K |-> RowPhase(d[k], b[k], a[k], s, j)]
                           /\ E = [k \in K |-> Conv(d[k], e[k], j)]
                           /\ G = [k \in K |-> Conv(P[k], g, j)]
                           /\ M = [k \in K |-> c * G[k]]
                           /\ H = [k \in K |-> E[k] + M[k]]
  OBVIOUS
<1>9. ASSUME NEW k \in K
      PROVE  /\ G[k] \in Int /\ M[k] = c * G[k] /\ E[k] \in Int /\ M[k] \in Int
             /\ H[k] = E[k] + M[k] /\ Alike(L[k], H[k])
  <2>1. PICK v, o : v = Conv(d[k], g, j) /\ o = w[k]
    OBVIOUS
  <2>2. G[k] = o * v /\ o \in Int /\ v \in Int /\ M[k] = c * G[k] /\ H[k] = E[k] + M[k]
    BY <1>3, <1>4, <1>8, <2>1
  <2>3. /\ Alike(RowPhase(d[k], b[k], a[k], s, j), Conv(d[k], e[k], j) + (c * o) * v)
        /\ Conv(d[k], e[k], j) \in Int
    BY <1>3, <2>1, RowPhaseIs
  <2>4. (c * o) * v = c * (o * v) /\ o * v \in Int /\ c * (o * v) \in Int
    BY <2>2
  <2>5. E[k] = Conv(d[k], e[k], j) /\ L[k] = RowPhase(d[k], b[k], a[k], s, j)
    BY <1>8
  <2> QED BY <2>2, <2>3, <2>4, <2>5
<1>10. Alike(Total(L, K), Total(H, K))
  BY <1>2, <1>9, AlikeTotals
<1>11. Total(H, K) = Total(E, K) + Total(M, K)
  <2>1. \A k \in K : E[k] \in Int /\ M[k] \in Int /\ H[k] = E[k] + M[k]
    BY <1>9
  <2> QED BY <1>2, <2>1, SumOfTwo
<1>12. IsMultiple(M, c, G, K)
  BY <1>9 DEF IsMultiple
<1>13. Total(M, K) = c * Total(G, K)
  BY <1>2, <1>12, TimesTotal
<1>14. ErrorOf(d, e, n, j) = Total(E, K) /\ Total(E, K) \in Int
  <2>1. \A k \in K : E[k] \in Int
    BY <1>9
  <2>2. Total(E, K) \in Int
    BY <1>2, <2>1, SumWith
  <2>3. ErrorOf(d, e, n, j) = Total(E, K)
    BY <1>1, <1>8 DEF ErrorOf
  <2> QED BY <2>2, <2>3
<1> QED BY <1>1, <1>7, <1>8, <1>10, <1>11, <1>13, <1>14

\* The two halves of a sum.
LEMMA SumInHalves ==
    ASSUME NEW n \in Nat, NEW f, IntegerOver(f, 0 .. 2 * n - 1)
    PROVE  Total(f, 0 .. 2 * n - 1)
               = Total([k \in 0 .. n - 1 |-> f[k]], 0 .. n - 1)
                 + Total([k \in 0 .. n - 1 |-> f[n + k]], 0 .. n - 1)
<1>1. PICK t : t = [i \in 0 .. 2 |-> IF i = 0 THEN 0 ELSE IF i = 1 THEN n ELSE 2 * n]
  OBVIOUS
<1>2. t[0] = 0 /\ t[1] = n /\ t[2] = 2 * n
  BY <1>1
<1>3. Stops(t, 2)
  <2>1. \A k \in 0 .. 2 : k = 0 \/ k = 1 \/ k = 2
    OBVIOUS
  <2>2. \A k \in 0 .. 2 - 1 : k = 0 \/ k = 1
    OBVIOUS
  <2>3. 0 + 1 = 1 /\ 1 + 1 = 2 /\ n \in Nat /\ 2 * n \in Nat /\ n <= 2 * n /\ 0 <= n
    OBVIOUS
  <2>4. \A k \in 0 .. 2 : t[k] \in Nat
    BY <1>2, <2>1, <2>3
  <2>5. \A k \in 0 .. 2 - 1 : t[k] <= t[k + 1]
    BY <1>2, <2>2, <2>3
  <2> QED BY <1>2, <2>4, <2>5 DEF Stops
<1>4. PICK g : g = [k \in 0 .. 2 - 1 |-> StretchSum(f, t, k)]
  OBVIOUS
<1>5. /\ Total(f, 0 .. t[2] - 1) = Total(g, 0 .. 2 - 1)
      /\ \A k \in 0 .. 2 - 1 : StretchSum(f, t, k) \in Int
  <2>1. 2 \in Nat /\ IntegerOver(f, 0 .. t[2] - 1)
    BY <1>2
  <2> QED BY <1>3, <1>4, <2>1, SumInStretches
<1>6. g[0] = StretchSum(f, t, 0) /\ g[1] = StretchSum(f, t, 1) /\ g[0] \in Int /\ g[1] \in Int
  BY <1>4, <1>5
<1>7. PICK run : run = [k \in 0 .. 2 |-> IF k = 0 THEN 0 ELSE IF k = 1 THEN g[0] ELSE g[0] + g[1]]
  OBVIOUS
<1>8. run[0] = 0 /\ run[1] = g[0] /\ run[2] = g[0] + g[1]
  BY <1>7
<1>9. RunningSums(run, g, 2)
  <2>1. \A k \in 0 .. 2 - 1 : k = 0 \/ k = 1
    OBVIOUS
  <2>2. 0 + 1 = 1 /\ 1 + 1 = 2
    OBVIOUS
  <2>3. run[0 + 1] = g[0] + run[0] /\ run[1 + 1] = g[1] + run[1]
    BY <1>6, <1>8, <2>2
  <2> QED BY <1>6, <1>8, <2>1, <2>3 DEF RunningSums
<1>10. Total(g, 0 .. 2 - 1) = g[0] + g[1]
  BY <1>8, <1>9, SumUpTo
<1>11. StretchSum(f, t, 0) = Total([k \in 0 .. n - 1 |-> f[k]], 0 .. n - 1)
  <2>1. Stretch(f, t, 0) = [b \in 0 .. n - 1 |-> f[b]]
    <3>1. t[0 + 1] - t[0] - 1 = n - 1 /\ \A b \in 0 .. n - 1 : t[0] + b = b
      BY <1>2
    <3> QED BY <3>1 DEF Stretch
  <2>2. t[0 + 1] - t[0] - 1 = n - 1
    BY <1>2
  <2> QED BY <2>1, <2>2 DEF StretchSum
<1>12. StretchSum(f, t, 1) = Total([k \in 0 .. n - 1 |-> f[n + k]], 0 .. n - 1)
  <2>1. Stretch(f, t, 1) = [b \in 0 .. n - 1 |-> f[n + b]]
    <3>1. t[1 + 1] - t[1] - 1 = n - 1 /\ t[1] = n
      BY <1>2
    <3> QED BY <3>1 DEF Stretch
  <2>2. t[1 + 1] - t[1] - 1 = n - 1
    BY <1>2
  <2> QED BY <2>1, <2>2 DEF StretchSum
<1> QED BY <1>2, <1>5, <1>6, <1>10, <1>11, <1>12

\* Small numbers have a small sum.
Bounded(f, h, S) == \A x \in S : f[x] \in Int /\ -h <= f[x] /\ f[x] <= h

LEMMA BoundedTotal ==
    ASSUME NEW S, IsFiniteSet(S), NEW f, NEW h \in Nat, Bounded(f, h, S)
    PROVE  /\ Total(f, S) \in Int
           /\ -(h * Cardinality(S)) <= Total(f, S) /\ Total(f, S) <= h * Cardinality(S)
<1>1. PICK z, one : z = [x \in S |-> 0] /\ one = 1
  OBVIOUS
<1>2. Near(f, z, one, h, S)
  BY <1>1 DEF Bounded, Near
<1>3. one \in Int
  BY <1>1
<1>4. /\ Total(f, S) \in Int /\ Total(z, S) \in Int
      /\ -(h * Cardinality(S)) <= one * Total(f, S) - Total(z, S)
      /\ one * Total(f, S) - Total(z, S) <= h * Cardinality(S)
  BY <1>2, <1>3, NearTotals
<1>5. Total(z, S) = 0
  BY <1>1, SumOfZeros
<1>6. one * Total(f, S) - Total(z, S) = Total(f, S)
  BY <1>1, <1>4, <1>5
<1> QED BY <1>4, <1>6

LEMMA ExtBounded ==
    ASSUME NEW p, NEW h \in Nat, Bounded(p, h, Positions), NEW m \in Int
    PROVE  /\ Numeric(p) /\ Ext(p, m) \in Int /\ -h <= Ext(p, m) /\ Ext(p, m) <= h
<1>1. Numeric(p)
  BY DEF Numeric, Bounded
<1>2. PICK e \in Int, i \in Positions :
          m = e * Degree + i /\ (m \div Degree) = e /\ (m % Degree) = i
  BY Places
<1>3. PICK s, v : s = Sgn(e) /\ v = p[i]
  OBVIOUS
<1>4. s \in {1, -1}
  BY <1>3, SgnOf
<1>5. v \in Int /\ -h <= v /\ v <= h
  BY <1>3 DEF Bounded
<1>6. Ext(p, m) = s * v
  BY <1>2, <1>3 DEF Ext
<1>7. s * v = v \/ s * v = -v
  BY <1>4, <1>5
<1> QED BY <1>1, <1>5, <1>6, <1>7

LEMMA ConvBounded ==
    ASSUME NEW p, NEW s, NEW h \in Nat, NEW l \in Nat,
           Bounded(p, h, Positions), Bounded(s, l, Positions), NEW m \in Int
    PROVE  /\ Conv(p, s, m) \in Int
           /\ -((h * l) * Degree) <= Conv(p, s, m) /\ Conv(p, s, m) <= (h * l) * Degree
<1>1. PICK F : F = ConvTerms(p, s, m)
  OBVIOUS
<1>2. ASSUME NEW x \in Positions
      PROVE  F[x] \in Int /\ -(h * l) <= F[x] /\ F[x] <= h * l
  <2>1. PICK o, u, v : o = m - x /\ u = p[x] /\ v = Ext(s, m - x)
    OBVIOUS
  <2>2. o \in Int
    BY <2>1, PlacesAre
  <2>3. v \in Int /\ -l <= v /\ v <= l
    BY <2>1, <2>2, ExtBounded
  <2>4. u \in Int /\ -h <= u /\ u <= h
    BY <2>1 DEF Bounded
  <2>5. F[x] = u * v
    BY <1>1, <2>1 DEF ConvTerms
  <2>6. u * v <= h * l
    <3>1. (h - u) * (l + v) >= 0 /\ (h + u) * (l - v) >= 0
      BY <2>3, <2>4
    <3>2. PICK a, b, c, d : a = h * l /\ b = h * v /\ c = u * l /\ d = u * v
      OBVIOUS
    <3>3. (h - u) * (l + v) = a + b - c - d /\ (h + u) * (l - v) = a - b + c - d
      BY <2>3, <2>4, <3>2
    <3>4. a \in Int /\ b \in Int /\ c \in Int /\ d \in Int
      BY <2>3, <2>4, <3>2
    <3>5. d <= a
      BY <3>1, <3>3, <3>4
    <3> QED BY <3>2, <3>5
  <2>7. -(h * l) <= u * v
    <3>1. (h - u) * (l - v) >= 0 /\ (h + u) * (l + v) >= 0
      BY <2>3, <2>4
    <3>2. PICK a, b, c, d : a = h * l /\ b = h * v /\ c = u * l /\ d = u * v
      OBVIOUS
    <3>3. (h - u) * (l - v) = a - b - c + d /\ (h + u) * (l + v) = a + b + c + d
      BY <2>3, <2>4, <3>2
    <3>4. a \in Int /\ b \in Int /\ c \in Int /\ d \in Int
      BY <2>3, <2>4, <3>2
    <3>5. -a <= d
      BY <3>1, <3>3, <3>4
    <3> QED BY <3>2, <3>5
  <2>8. u * v \in Int
    BY <2>3, <2>4
  <2> QED BY <2>5, <2>6, <2>7, <2>8
<1>3. PICK a : a = h * l
  OBVIOUS
<1>4. a \in Nat
  BY <1>3
<1>5. Bounded(F, a, Positions)
  BY <1>2, <1>3 DEF Bounded
<1>6. /\ Total(F, Positions) \in Int
      /\ -(a * Cardinality(Positions)) <= Total(F, Positions)
      /\ Total(F, Positions) <= a * Cardinality(Positions)
  BY <1>4, <1>5, PositionsOf, BoundedTotal
<1>7. Cardinality(Positions) = Degree
  BY PositionsOf
<1> QED BY <1>1, <1>3, <1>6, <1>7 DEF Conv

LEMMA ErrorBounded ==
    ASSUME NEW n \in Nat, NEW d, NEW e, NEW h \in Nat, NEW l \in Nat,
           \A k \in 0 .. n - 1 : Bounded(d[k], h, Positions) /\ Bounded(e[k], l, Positions),
           NEW j \in Int
    PROVE  /\ ErrorOf(d, e, n, j) \in Int
           /\ -(((h * l) * Degree) * n) <= ErrorOf(d, e, n, j)
           /\ ErrorOf(d, e, n, j) <= ((h * l) * Degree) * n
<1>1. PICK f, a : f = [k \in 0 .. n - 1 |-> Conv(d[k], e[k], j)] /\ a = (h * l) * Degree
  OBVIOUS
<1>2. a \in Nat
  BY <1>1, PlacesAre
<1>3. \A k \in 0 .. n - 1 : f[k] \in Int /\ -a <= f[k] /\ f[k] <= a
  <2> SUFFICES ASSUME NEW k \in 0 .. n - 1
               PROVE  f[k] \in Int /\ -a <= f[k] /\ f[k] <= a
    OBVIOUS
  <2>1. f[k] = Conv(d[k], e[k], j)
    BY <1>1
  <2>2. /\ Conv(d[k], e[k], j) \in Int
        /\ -((h * l) * Degree) <= Conv(d[k], e[k], j) /\ Conv(d[k], e[k], j) <= (h * l) * Degree
    BY ConvBounded
  <2> QED BY <1>1, <2>1, <2>2
<1>4. Bounded(f, a, 0 .. n - 1)
  BY <1>3 DEF Bounded
<1>5. IsFiniteSet(0 .. n - 1)
  BY FS_Interval
<1>6. Cardinality(0 .. n - 1) = n
  BY FS_Interval
<1>7. /\ Total(f, 0 .. n - 1) \in Int
      /\ -(a * n) <= Total(f, 0 .. n - 1) /\ Total(f, 0 .. n - 1) <= a * n
  BY <1>2, <1>4, <1>5, <1>6, BoundedTotal
<1> QED BY <1>1, <1>7 DEF ErrorOf

(***************************************************************************)
(* What a ciphertext holds                                                 *)
(***************************************************************************)

LEMMA PolyAddAt ==
    ASSUME NEW p, NEW r, NEW i \in Positions
    PROVE  PolyAdd(p, r)[i] = ToCoeff(p[i] + r[i])
<1>1. PICK f : f = [x \in Positions |-> ToCoeff(p[x] + r[x])]
  OBVIOUS
<1>2. PolyAdd(p, r) = [x \in Positions |-> ToCoeff(p[x] + r[x])]
  BY TabulatedIs, Zenon DEF PolyAdd, Poly
<1>3. f[i] = ToCoeff(p[i] + r[i])
  BY <1>1
<1> QED BY <1>1, <1>2, <1>3

\* A product with the key.
LEMMA NttMultAlike ==
    ASSUME NEW p, NEW s, Numeric(p), Numeric(TernaryOf(s)), NEW j \in Positions
    PROVE  /\ Alike(NttMult(p, s)[j], Conv(p, TernaryOf(s), j))
           /\ Congruent(NttMult(p, s)[j], Conv(p, TernaryOf(s), j))
<1>1. PICK t, v : t = TernaryOf(s) /\ v = Conv(p, t, j)
  OBVIOUS
<1>2. NegacyclicAt(p, t, j) = v /\ v \in Int
  <2>1. NegacyclicAt(p, t, j) = v
    BY <1>1, ConvIs
  <2>2. NegacyclicAt(p, t, j) \in Int
    BY <1>1, TimesAt DEF Numeric
  <2> QED BY <2>1, <2>2
<1>3. NttMult(p, s)[j] = ToCoeff(v)
  BY <1>1, <1>2, NttMultIs
<1>4. Congruent(ToCoeff(v), v)
  BY <1>2, CongruentRules
<1> QED BY <1>1, <1>3, <1>4, AlikeRules

LEMMA PhaseIs ==
    ASSUME NEW ct, NEW s, Numeric(ct.a), Numeric(ct.b), Numeric(TernaryOf(s)), NEW j \in Positions
    PROVE  /\ Alike(Phase(ct, s)[j], ct.b[j] + Conv(ct.a, TernaryOf(s), j))
           /\ Phase(ct, s)[j] \in 0 .. Modulus - 1
<1>1. PICK u, v, w : u = ct.b[j] /\ v = NttMult(ct.a, s)[j] /\ w = Conv(ct.a, TernaryOf(s), j)
  OBVIOUS
<1>2. u \in Int
  BY <1>1 DEF Numeric
<1>3. Alike(v, w)
  BY <1>1, NttMultAlike
<1>4. v \in Int /\ w \in Int
  BY <1>3, AlikeRules
<1>5. Phase(ct, s)[j] = ToRing(ToCoeff(u + v))
  BY <1>1, LowBitsAt, PolyAddAt DEF Phase, ToRing
<1>6. u + v \in Int
  BY <1>2, <1>4
<1>7. PICK y : y = ToCoeff(u + v)
  OBVIOUS
<1>8. Alike(y, u + v)
  BY <1>6, <1>7, AlikeRules
<1>9. y \in Int
  BY <1>8, AlikeRules
<1>10. Alike(ToRing(y), y) /\ ToRing(y) \in 0 .. Modulus - 1
  BY <1>9, AlikeRules
<1>11. Alike(u, u)
  BY <1>2, AlikeRules
<1>12. Alike(u + v, u + w)
  BY <1>3, <1>11, AlikeSums
<1>13. Alike(ToRing(y), u + w)
  BY <1>8, <1>10, <1>12, AlikeRules
<1> QED BY <1>1, <1>5, <1>7, <1>10, <1>13

\* The phase of an inner product with the rows of gadget ciphertexts.
AreRows(d, b, a, K) == \A k \in K : Numeric(d[k]) /\ Numeric(b[k]) /\ Numeric(a[k])

RowPhases(d, b, a, s, K, j) == Total([k \in K |-> RowPhase(d[k], b[k], a[k], s, j)], K)

IsInnerProduct(h, d, r, K) == \A j \in Positions : h[j] = ToCoeff(Convolved(d, r, K, j))

LEMMA InnerProductAlike ==
    ASSUME NEW K, IsFiniteSet(K), NEW d, NEW r, \A k \in K : Numeric(d[k]) /\ Numeric(r[k]),
           NEW h, IsInnerProduct(h, d, r, K), NEW j \in Positions
    PROVE  /\ Alike(h[j], Total([k \in K |-> Conv(d[k], r[k], j)], K))
           /\ h[j] \in Int
<1>1. PICK f, g : f = ConvolutionTerms(d, r, K, j) /\ g = [k \in K |-> Conv(d[k], r[k], j)]
  OBVIOUS
<1>2. ASSUME NEW k \in K
      PROVE  f[k] = g[k] /\ f[k] \in Int
  <2>1. PICK p, q : p = d[k] /\ q = r[k]
    OBVIOUS
  <2>2. Numeric(p) /\ Numeric(q)
    BY <2>1
  <2>3. NegacyclicAt(p, q, j) = Conv(p, q, j)
    BY <2>2, ConvIs
  <2>4. NegacyclicAt(p, q, j) \in Int
    BY <2>2, TimesAt DEF Numeric
  <2>5. f[k] = NegacyclicAt(p, q, j) /\ g[k] = Conv(p, q, j)
    BY <1>1, <2>1 DEF ConvolutionTerms
  <2> QED BY <2>3, <2>4, <2>5
<1>3. Total(f, K) = Total(g, K) /\ Total(f, K) \in Int
  BY <1>2, TotalsEqual
<1>4. h[j] = ToCoeff(Total(f, K))
  BY <1>1 DEF IsInnerProduct, Convolved
<1>5. Alike(ToCoeff(Total(f, K)), Total(f, K))
  BY <1>3, AlikeRules
<1>6. ToCoeff(Total(f, K)) \in Int
  BY <1>5, AlikeRules
<1> QED BY <1>1, <1>3, <1>4, <1>5, <1>6

LEMMA ProductPhase ==
    ASSUME NEW K, IsFiniteSet(K), NEW d, NEW b, NEW a, AreRows(d, b, a, K), NEW ct, NEW s,
           Numeric(TernaryOf(s)), IsInnerProduct(ct.a, d, a, K), IsInnerProduct(ct.b, d, b, K),
           NEW j \in Positions
    PROVE  /\ Alike(Phase(ct, s)[j], RowPhases(d, b, a, TernaryOf(s), K, j))
           /\ Phase(ct, s)[j] \in 0 .. Modulus - 1
<1>1. PICK S, P, p : /\ S = TernaryOf(s) /\ P = [k \in K |-> Prod(d[k], a[k])]
                     /\ p = [x \in Positions |-> Total([k \in K |-> P[k][x]], K)]
  OBVIOUS
<1>2. ASSUME NEW k \in K
      PROVE  Numeric(d[k]) /\ Numeric(b[k]) /\ Numeric(a[k])
  BY DEF AreRows
<1>3. ASSUME NEW k \in K
      PROVE  Numeric(P[k]) /\ \A x \in Positions : P[k][x] = Conv(d[k], a[k], x)
  <2>1. P[k] = Prod(d[k], a[k])
    BY <1>1
  <2> QED BY <1>2, <2>1, ProdOf
<1>4. ASSUME NEW x \in Positions
      PROVE  Alike(ct.a[x], p[x]) /\ ct.a[x] \in Int /\ ct.b[x] \in Int
  <2>1. [k \in K |-> Conv(d[k], a[k], x)] = [k \in K |-> P[k][x]]
    BY <1>3
  <2>2. p[x] = Total([k \in K |-> P[k][x]], K)
    BY <1>1, Zenon
  <2>3. /\ Alike(ct.a[x], Total([k \in K |-> Conv(d[k], a[k], x)], K))
        /\ ct.a[x] \in Int
    BY <1>2, InnerProductAlike
  <2>4. ct.b[x] \in Int
    BY <1>2, InnerProductAlike
  <2> QED BY <2>1, <2>2, <2>3, <2>4
<1>5. Numeric(ct.a) /\ Numeric(ct.b)
  BY <1>4 DEF Numeric
<1>6. j \in Int
  BY PlacesAre
<1>7. IsTotal(p, P, K)
  <2>1. \A x \in Positions : p[x] = Total([k \in K |-> P[k][x]], K)
    BY <1>1, Zenon
  <2> QED BY <1>3, <2>1 DEF IsTotal
<1>8. Conv(p, S, j) = Total([k \in K |-> Conv(P[k], S, j)], K)
  BY <1>1, <1>6, <1>7, ConvOfTotal
<1>9. Alike(Conv(ct.a, S, j), Conv(p, S, j))
  BY <1>1, <1>4, <1>6, ConvAlike
<1>10. PICK F, G, H : /\ F = [k \in K |-> Conv(d[k], b[k], j)]
                      /\ G = [k \in K |-> Conv(P[k], S, j)]
                      /\ H = [k \in K |-> RowPhase(d[k], b[k], a[k], S, j)]
  OBVIOUS
<1>11. ASSUME NEW k \in K
       PROVE  F[k] \in Int /\ G[k] \in Int /\ H[k] = F[k] + G[k]
  <2>1. PICK z, q, u : z = 0 /\ q = P[k] /\ u = d[k]
    OBVIOUS
  <2>2. z \in Int /\ Numeric(q) /\ Numeric(u) /\ Numeric(b[k]) /\ Numeric(S)
    BY <1>1, <1>2, <1>3, <2>1
  <2>3. Conv(u, b[k], j) \in Int /\ Conv(q, S, j) \in Int
    BY <1>6, <2>2, ConvShift
  <2>4. q = Prod(u, a[k])
    BY <1>1, <2>1
  <2>5. F[k] = Conv(u, b[k], j) /\ G[k] = Conv(q, S, j) /\ H[k] = RowPhase(u, b[k], a[k], S, j)
    BY <1>10, <2>1
  <2> QED BY <2>3, <2>4, <2>5 DEF RowPhase
<1>12. Total(H, K) = Total(F, K) + Total(G, K)
  BY <1>11, SumOfTwo
<1>13. Alike(ct.b[j], Total(F, K))
  BY <1>2, <1>10, InnerProductAlike
<1>14. Alike(Conv(ct.a, S, j), Total(G, K))
  BY <1>8, <1>9, <1>10
<1>15. Alike(ct.b[j] + Conv(ct.a, S, j), Total(F, K) + Total(G, K))
  BY <1>13, <1>14, AlikeSums
<1>16. /\ Alike(Phase(ct, s)[j], ct.b[j] + Conv(ct.a, S, j))
       /\ Phase(ct, s)[j] \in 0 .. Modulus - 1
  BY <1>1, <1>5, PhaseIs
<1>17. Alike(Phase(ct, s)[j], Total(H, K))
  BY <1>12, <1>15, <1>16, AlikeRules
<1> QED BY <1>1, <1>10, <1>16, <1>17 DEF RowPhases

(***************************************************************************)
(* Rows of gadget ciphertexts                                              *)
(***************************************************************************)

LEMMA SampleIs ==
    ASSUME NEW a, NEW e, NEW s, Numeric(a), Numeric(e), Numeric(TernaryOf(s)), NEW i \in Positions
    PROVE  /\ RlweSample(a, e, s).a = a
           /\ RlweSample(a, e, s).b[i] \in 0 .. Modulus - 1
           /\ Alike(RlweSample(a, e, s).b[i] + Conv(a, TernaryOf(s), i), e[i])
<1>1. PICK f, u, v, w : /\ f = [x \in Positions |-> ToRing(ToCoeff(e[x] - NttMult(a, s)[x]))]
                        /\ u = e[i] /\ v = NttMult(a, s)[i] /\ w = Conv(a, TernaryOf(s), i)
  OBVIOUS
<1>2. /\ RlweSample(a, e, s).a = a
      /\ RlweSample(a, e, s).b = [x \in Positions |-> ToRing(ToCoeff(e[x] - NttMult(a, s)[x]))]
  BY TabulatedIs, Zenon DEF RlweSample, Ciphertext, Poly
<1>3. f[i] = ToRing(ToCoeff(u - v))
  BY <1>1
<1>4. u \in Int
  BY <1>1 DEF Numeric
<1>5. Alike(v, w) /\ v \in Int /\ w \in Int
  BY <1>1, NttMultAlike, AlikeRules
<1>6. PICK o, y, z : o = u - v /\ y = ToCoeff(u - v) /\ z = ToRing(ToCoeff(u - v))
  OBVIOUS
<1>7. o \in Int
  BY <1>4, <1>5, <1>6
<1>8. Alike(y, o) /\ y \in Int
  BY <1>6, <1>7, AlikeRules
<1>9. Alike(z, y) /\ z \in 0 .. Modulus - 1
  BY <1>6, <1>8, AlikeRules
<1>10. Alike(z, o) /\ Alike(w, v)
  BY <1>5, <1>8, <1>9, AlikeRules
<1>11. Alike(z + w, o + v)
  BY <1>10, AlikeSums
<1>12. o + v = u
  BY <1>4, <1>5, <1>6
<1> QED BY <1>1, <1>2, <1>3, <1>6, <1>9, <1>11, <1>12

LEMMA ShiftAlike ==
    ASSUME NEW g \in Gadgets, NEW k \in 0 .. g.numDigits - 1, NEW x \in Int
    PROVE  /\ Alike(ShiftLeft(x, GadgetShift(g, k)), 2 ^ GadgetShift(g, k) * x)
           /\ 2 ^ GadgetShift(g, k) \in Int
<1>1. PICK s, n, l, c : /\ s = GadgetShift(g, k) /\ n = g.numDigits /\ l = g.logDigit
                        /\ c = CoeffBits
  OBVIOUS
<1>2. /\ n \in Nat \ {0} /\ l \in Nat \ {0} /\ c \in Nat \ {0} /\ n * l \in Nat
      /\ Excluded(g) \in Nat /\ Excluded(g) < LogModulus /\ LogModulus \in Nat /\ LogModulus <= c
      /\ Excluded(g) > 0 => Excluded(g) = LogModulus - n * l
      /\ s = k * l + Excluded(g)
  BY <1>1, GadgetOf
<1>3. k * l \in Nat /\ k * l + l <= n * l
  <2>1. /\ k \in Nat /\ n - k - 1 \in Nat /\ (n - k - 1) * l \in Nat
        /\ n * l = k * l + (n - k - 1) * l + l
    BY <1>1, <1>2
  <2>2. k * l \in Nat
    BY <1>2, <2>1
  <2> QED BY <1>2, <2>1, <2>2
<1>4. s \in Nat
  BY <1>2, <1>3
<1>5. PICK m \in Nat : PowersUpTo(m) /\ 2 * c <= m /\ n * l <= m
  BY <1>1, Powers
<1>6. s <= m /\ (s >= c => s <= n * l)
  <2>1. PICK u, v, x0, q0 : u = k * l /\ v = n * l /\ x0 = Excluded(g) /\ q0 = LogModulus
    OBVIOUS
  <2>2. /\ u \in Nat /\ v \in Nat /\ u + l <= v /\ l \in Nat \ {0} /\ x0 \in Nat /\ q0 \in Nat
        /\ (x0 > 0 => x0 = q0 - v) /\ s = u + x0 /\ v <= m /\ c \in Nat /\ 2 * c <= m /\ q0 <= c
    BY <1>2, <1>3, <1>5, <2>1
  <2>3. s <= m /\ (s >= c => s <= v)
    BY <2>2
  <2> QED BY <2>1, <2>3
<1>7. PICK P, W : P = 2 ^ s /\ W = 2 ^ c
  OBVIOUS
<1>8. P \in Nat \ {0} /\ W \in Nat \ {0}
  <2>1. c <= m
    BY <1>2, <1>5
  <2> QED BY <1>2, <1>4, <1>5, <1>6, <1>7, <2>1, PowerPositive
<1>9. CASE s < c
  <2>1. Combined(ShiftLeft(x, s), 0, P, x, W)
    BY <1>1, <1>4, <1>7, <1>9, ShiftLeftIs
  <2>2. PICK y : y = ShiftLeft(x, s)
    OBVIOUS
  <2>3. y \in Int /\ \E j \in Int : y = 0 + P * x + W * j
    BY <2>1, <2>2 DEF Combined
  <2>4. PICK j \in Int : y = 0 + P * x + W * j
    BY <2>3
  <2>5. P * x \in Int /\ y = P * x + W * j
    BY <1>8, <2>4
  <2>6. Congruent(y, P * x)
    BY <1>1, <1>7, <2>3, <2>5 DEF Congruent
  <2> QED BY <1>1, <1>7, <1>8, <2>2, <2>6, AlikeRules
<1>10. CASE ~(s < c)
  <2>1. ShiftLeft(x, s) = 0
    BY <1>1, <1>2, <1>4, <1>10 DEF ShiftLeft
  <2>2. PICK r : r = s - c
    OBVIOUS
  <2>3. r \in Nat /\ r + c = s
    BY <1>2, <1>4, <1>10, <2>2
  <2>4. 2 ^ (r + c) = 2 ^ r * 2 ^ c
    BY <1>2, <1>5, <1>6, <2>3, PowerSum
  <2>5. PICK R : R = 2 ^ r
    OBVIOUS
  <2>6. R \in Nat \ {0}
    <3>1. r <= m
      BY <1>2, <1>6, <2>3
    <3> QED BY <1>5, <2>3, <2>5, <3>1, PowerPositive
  <2>7. P = R * W
    BY <1>7, <2>3, <2>4, <2>5
  <2>8. PICK j : j = -(R * x)
    OBVIOUS
  <2>9. j \in Int /\ P * x \in Int /\ 0 = P * x + W * j
    <3>1. R * x \in Int /\ P * x = W * (R * x)
      BY <1>8, <2>6, <2>7
    <3>2. W * (R * x) \in Int /\ W * (-(R * x)) = -(W * (R * x))
      BY <1>8, <3>1
    <3> QED BY <2>8, <3>1, <3>2
  <2>10. Congruent(0, P * x)
    BY <1>1, <1>7, <2>9 DEF Congruent
  <2> QED BY <1>1, <1>7, <1>8, <2>1, <2>10, AlikeRules
<1> QED BY <1>9, <1>10

LEMMA EncryptedRow ==
    ASSUME NEW g \in Gadgets, NEW k \in 0 .. g.numDigits - 1, NEW samples, NEW message,
           Numeric(samples[k].b), Numeric(message), NEW i \in Positions
    PROVE  /\ EncryptGadget(g, samples, message)[k].a = samples[k].a
           /\ EncryptGadget(g, samples, message)[k].b[i] \in 0 .. Modulus - 1
           /\ Alike(EncryptGadget(g, samples, message)[k].b[i],
                    samples[k].b[i] + 2 ^ GadgetShift(g, k) * message[i])
<1>1. PICK f, row, u, v, P : /\ row = EncryptGadget(g, samples, message)[k]
                             /\ u = samples[k].b[i] /\ v = message[i] /\ P = 2 ^ GadgetShift(g, k)
                             /\ f = [x \in Positions |->
                                       ToRing(ToCoeff(samples[k].b[x]
                                              + ShiftLeft(message[x], GadgetShift(g, k))))]
  OBVIOUS
<1>2. EncryptGadget(g, samples, message)
          = [j \in 0 .. g.numDigits - 1 |->
                Ciphertext(samples[j].a,
                    [x \in Positions |->
                        ToRing(ToCoeff(samples[j].b[x]
                               + ShiftLeft(message[x], GadgetShift(g, j))))])]
  BY TabulatedIs, Zenon DEF EncryptGadget, Vector, Poly
<1>3. row = Ciphertext(samples[k].a, f)
  BY <1>1, <1>2, Zenon
<1>4. row.a = samples[k].a /\ row.b = f
  BY <1>3 DEF Ciphertext
<1>5. PICK w : w = ShiftLeft(v, GadgetShift(g, k))
  OBVIOUS
<1>6. f[i] = ToRing(ToCoeff(u + w))
  BY <1>1, <1>5
<1>7. u \in Int /\ v \in Int
  BY <1>1 DEF Numeric
<1>8. Alike(w, P * v)
  BY <1>1, <1>5, <1>7, ShiftAlike
<1>9. w \in Int
  BY <1>8, AlikeRules
<1>10. PICK o, y, z : o = u + w /\ y = ToCoeff(u + w) /\ z = ToRing(ToCoeff(u + w))
  OBVIOUS
<1>11. o \in Int
  BY <1>7, <1>9, <1>10
<1>12. Alike(y, o) /\ y \in Int
  BY <1>10, <1>11, AlikeRules
<1>13. Alike(z, y) /\ z \in 0 .. Modulus - 1
  BY <1>10, <1>12, AlikeRules
<1>14. Alike(u, u)
  BY <1>7, AlikeRules
<1>15. Alike(o, u + P * v)
  BY <1>8, <1>10, <1>14, AlikeSums
<1>16. Alike(z, u + P * v)
  BY <1>12, <1>13, <1>15, AlikeRules
<1> QED BY <1>1, <1>4, <1>6, <1>10, <1>13, <1>16
=============================================================================
