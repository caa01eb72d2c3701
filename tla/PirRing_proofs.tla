-------------------------- MODULE PirRing_proofs --------------------------
(***************************************************************************)
(* Proofs about the ring of the polynomials: the external product of a     *)
(* ciphertext with an RGSW encryption of a monomial, for every ring, every *)
(* width of the coefficients and every gadget; the condensed products of   *)
(* matrices, which are the plain ones, for every type of entry; and the    *)
(* interpolation of a row, for every degree and plaintext modulus.         *)
(***************************************************************************)
EXTENDS PirAlgorithms_proofs

(***************************************************************************)
(* The key and a monomial                                                  *)
(***************************************************************************)

\* A ternary key as it is stored.
IsStoredKey(s) == \A x \in Positions : s[x] \in {0, 1, Modulus - 1}

LEMMA ModulusAbove == Modulus \in Nat /\ Modulus >= 2
<1>1. PICK q : q = Modulus
  OBVIOUS
<1>2. q = 2 ^ LogModulus /\ LogModulus \in 1 .. 2 * CoeffBits
  BY <1>1, RlweAssumption, PolynomialsAssumption DEF Modulus
<1>3. PICK h, k : h = 2 ^ (LogModulus - 1) /\ k = LogModulus - 1
  OBVIOUS
<1>4. k \in 0 .. 2 * CoeffBits
  <2>1. 2 * CoeffBits \in Nat
    BY CoeffPowers
  <2> QED BY <1>2, <1>3, <2>1
<1>5. h \in Nat \ {0}
  BY <1>3, <1>4, CoeffPowers, PowerPositive
<1>6. q = 2 * h
  BY <1>2, <1>3, CoeffPowers DEF PowersUpTo
<1> QED BY <1>1, <1>5, <1>6

LEMMA MinusOne == Alike(Modulus - 1, -1) /\ ToRing(-1) = Modulus - 1
<1>1. PICK q, m : q = Modulus /\ m = -1
  OBVIOUS
<1>2. q \in Nat /\ q >= 2 /\ m \in Int
  BY <1>1, ModulusAbove
<1>3. q - 1 \in Int /\ q - 1 = m + q * 1
  BY <1>1, <1>2
<1>4. Alike(q - 1, m)
  BY <1>1, <1>2, <1>3 DEF Alike
<1>5. ToRing(m) = m % q
  BY <1>1 DEF ToRing, Modulus
<1>6. ((q - 1) + q * m) % q = (q - 1) % q
  BY <1>2, <1>3, SameResidue
<1>7. (q - 1) + q * m = m
  BY <1>1, <1>2
<1>8. (q - 1) % q = q - 1
  <2>1. q - 1 \in Nat /\ q - 1 < q
    BY <1>2
  <2> QED BY <1>2, <2>1
<1> QED BY <1>1, <1>4, <1>5, <1>6, <1>7, <1>8

LEMMA StoredKeyIs ==
    ASSUME NEW s, IsStoredKey(s)
    PROVE  /\ Numeric(TernaryOf(s)) /\ Bounded(TernaryOf(s), 1, Positions)
           /\ \A x \in Positions : s[x] \in 0 .. Modulus - 1 /\ Alike(s[x], TernaryOf(s)[x])
<1>1. PICK q : q = Modulus
  OBVIOUS
<1>2. q \in Nat /\ q >= 2
  BY <1>1, ModulusAbove
<1>3. ASSUME NEW x \in Positions
      PROVE  /\ TernaryOf(s)[x] \in {-1, 0, 1} /\ Alike(s[x], TernaryOf(s)[x])
             /\ s[x] \in 0 .. q - 1
  <2>1. PICK u, t : u = s[x] /\ t = TernaryOf(s)[x]
    OBVIOUS
  <2>2. t = IF u > 1 THEN -1 ELSE u
    BY <2>1 DEF TernaryOf, Ternary
  <2>3. u \in {0, 1, q - 1}
    BY <1>1, <2>1 DEF IsStoredKey
  <2>4. CASE u > 1
    <3>1. u = q - 1 /\ t = -1
      BY <2>2, <2>3, <2>4
    <3>2. Alike(u, -1)
      BY <1>1, <3>1, MinusOne
    <3> QED BY <1>2, <2>1, <3>1, <3>2
  <2>5. CASE ~(u > 1)
    <3>1. t = u /\ u \in {0, 1}
      BY <1>2, <2>2, <2>3, <2>5
    <3>2. u \in Int
      BY <3>1
    <3>3. Alike(u, u)
      BY <3>2, AlikeRules
    <3> QED BY <1>2, <2>1, <3>1, <3>3
  <2> QED BY <2>4, <2>5
<1>4. \A x \in Positions : TernaryOf(s)[x] \in Int /\ -1 <= TernaryOf(s)[x] /\ TernaryOf(s)[x] <= 1
  BY <1>3
<1> QED BY <1>1, <1>3, <1>4 DEF Numeric, Bounded

\* The message of a case: one times X^k.
Message(k, one) == Poly(LAMBDA i : IF i = k THEN one ELSE 0)

LEMMA MessageIs ==
    ASSUME NEW k \in Positions, NEW one \in {1, Modulus - 1}
    PROVE  /\ Numeric(Message(k, one)) /\ one \in Int
           /\ \A x \in Positions : Message(k, one)[x] = one * Monomial(k)[x]
           /\ \A x \in Positions : Message(k, one)[x] = IF x = k THEN one ELSE 0
<1>1. one \in Int
  BY ModulusAbove
<1>2. PICK f : f = [i \in Positions |-> IF i = k THEN one ELSE 0]
  OBVIOUS
<1>3. Message(k, one) = [i \in Positions |-> IF i = k THEN one ELSE 0]
  BY TabulatedIs, Zenon DEF Message, Poly
<1>4. \A x \in Positions : f[x] = IF x = k THEN one ELSE 0
  BY <1>2
<1>5. \A x \in Positions : f[x] \in Int /\ f[x] = one * Monomial(k)[x]
  BY <1>1, <1>4 DEF Monomial
<1> QED BY <1>1, <1>2, <1>3, <1>4, <1>5 DEF Numeric

\* The place of the coefficient that is not zero.
OnlyPlace(message) == CHOOSE k \in Positions : message[k] # 0

LEMMA MessagePlace ==
    ASSUME NEW k \in Positions, NEW one \in {1, Modulus - 1}
    PROVE  IsMonomial(Message(k, one)) /\ OnlyPlace(Message(k, one)) = k
<1>1. PICK m : m = Message(k, one)
  OBVIOUS
<1>2. \A x \in Positions : m[x] = IF x = k THEN one ELSE 0
  BY <1>1, MessageIs
<1>3. m[k] \in {1, ToRing(-1)} /\ \A i \in Positions \ {k} : m[i] = 0
  BY <1>2, MinusOne
<1>4. one # 0
  BY ModulusAbove
<1>5. \A x \in Positions : m[x] # 0 <=> x = k
  BY <1>2, <1>4
<1>6. OnlyPlace(m) \in Positions /\ m[OnlyPlace(m)] # 0
  BY <1>5, Zenon DEF OnlyPlace
<1>7. OnlyPlace(m) = k
  BY <1>5, <1>6
<1>8. IsMonomial(m)
  BY <1>3, Zenon DEF IsMonomial
<1> QED BY <1>1, <1>7, <1>8

\* One, or minus one.
SignOf(one) == IF one = Modulus - 1 THEN -1 ELSE 1

LEMMA SignIs ==
    ASSUME NEW one \in {1, Modulus - 1}
    PROVE  SignOf(one) \in {1, -1} /\ Alike(one, SignOf(one))
<1>1. CASE one = Modulus - 1
  BY <1>1, MinusOne DEF SignOf
<1>2. CASE one # Modulus - 1
  <2>1. one = 1 /\ SignOf(one) = 1 /\ 1 \in Int
    BY <1>2 DEF SignOf
  <2> QED BY <2>1, AlikeRules
<1> QED BY <1>1, <1>2

\* What the shift of the key takes for its coefficient j.
ShiftedKey(s, k, j) == IF j < k THEN s[Degree + j - k] ELSE s[j - k]

LEMMA TimesKeyAt ==
    ASSUME NEW k \in Positions, NEW one \in {1, Modulus - 1}, NEW s, NEW j \in Positions
    PROVE  TimesKey(Message(k, one), s)[j]
               = IF (j < k) # (one = Modulus - 1) THEN ToRing(-ShiftedKey(s, k, j))
                 ELSE ShiftedKey(s, k, j)
<1>1. PICK m, f : /\ m = Message(k, one)
                  /\ f = [i \in Positions |->
                             IF (i < k) # (one = Modulus - 1) THEN ToRing(-ShiftedKey(s, k, i))
                             ELSE ShiftedKey(s, k, i)]
  OBVIOUS
<1>2. IsMonomial(m) /\ OnlyPlace(m) = k
  BY <1>1, MessagePlace
<1>3. m[k] = one /\ ToRing(-1) = Modulus - 1
  BY <1>1, MessageIs, MinusOne
<1>4. TimesKey(m, s)
          = [i \in Positions |->
                IF (i < OnlyPlace(m)) # (m[OnlyPlace(m)] = ToRing(-1))
                THEN ToRing(-ShiftedKey(s, OnlyPlace(m), i))
                ELSE ShiftedKey(s, OnlyPlace(m), i)]
  BY <1>2, TabulatedIs, Zenon DEF TimesKey, Poly, OnlyPlace, ShiftedKey
<1>5. TimesKey(m, s) = f
  BY <1>1, <1>2, <1>3, <1>4, Zenon
<1>6. f[j] = IF (j < k) # (one = Modulus - 1) THEN ToRing(-ShiftedKey(s, k, j))
             ELSE ShiftedKey(s, k, j)
  BY <1>1, Zenon
<1> QED BY <1>1, <1>5, <1>6

\* It is the product.
LEMMA TimesKeyIs ==
    ASSUME NEW k \in Positions, NEW one \in {1, Modulus - 1}, NEW s, IsStoredKey(s),
           NEW j \in Positions
    PROVE  /\ Alike(TimesKey(Message(k, one), s)[j], one * Moved(TernaryOf(s), k)[j])
           /\ TimesKey(Message(k, one), s)[j] \in Int
<1>1. PICK S, u, t : /\ S = TernaryOf(s) /\ u = ShiftedKey(s, k, j)
                     /\ t = IF j < k THEN S[Degree + j - k] ELSE S[j - k]
  OBVIOUS
<1>2. /\ j \in Int /\ k \in Int /\ 0 <= j /\ j < Degree /\ 0 <= k /\ k < Degree
      /\ Degree \in Nat \ {0}
  BY PlacesAre
<1>3. /\ Alike(u, t) /\ u \in Int /\ t \in Int
  <2>1. IF j < k THEN Degree + j - k \in Positions ELSE j - k \in Positions
    BY <1>2, PlacesAre
  <2>2. \A x \in Positions : Alike(s[x], S[x])
    BY <1>1, StoredKeyIs
  <2>3. Alike(u, t)
    BY <1>1, <2>1, <2>2 DEF ShiftedKey
  <2> QED BY <2>3, AlikeRules
<1>4. Numeric(S)
  BY <1>1, StoredKeyIs
<1>5. PICK v : v = Ext(S, j - k)
  OBVIOUS
<1>6. v = IF j < k THEN -t ELSE t
  <2>1. CASE j < k
    <3>1. PICK y, e : y = Degree + j - k /\ e = -1
      OBVIOUS
    <3>2. y \in Positions /\ e \in Int /\ j - k = e * Degree + y
      BY <1>2, <2>1, <3>1, PlacesAre
    <3>3. Ext(S, j - k) = Sgn(e) * S[y] /\ Sgn(e) = -1
      <4>1. Ext(S, e * Degree + y) = Sgn(e) * S[y]
        BY <1>4, <3>2, ExtAt
      <4>2. Sgn(e) = -1
        BY <3>1, SgnOf
      <4> QED BY <3>2, <4>1, <4>2
    <3>4. S[y] = t
      BY <1>1, <2>1, <3>1
    <3> QED BY <1>3, <1>5, <2>1, <3>3, <3>4
  <2>2. CASE ~(j < k)
    <3>1. PICK y, e : y = j - k /\ e = 0
      OBVIOUS
    <3>2. y \in Positions /\ e \in Int
      BY <1>2, <2>2, <3>1, PlacesAre
    <3>3. Ext(S, y) = S[y]
      BY <1>4, <3>2, ExtAt
    <3> QED BY <1>1, <1>5, <2>2, <3>1, <3>3
  <2> QED BY <2>1, <2>2
<1>7. Moved(S, k)[j] = v
  BY <1>5 DEF Moved
<1>8. PICK g, z : g = SignOf(one) /\ z = TimesKey(Message(k, one), s)[j]
  OBVIOUS
<1>9. g \in {1, -1} /\ Alike(one, g) /\ (g = -1 <=> one = Modulus - 1)
  BY <1>8, SignIs DEF SignOf
<1>10. one \in Int /\ v \in Int
  BY <1>3, <1>6, <1>9, AlikeRules
<1>11. Alike(v * one, v * g)
  BY <1>9, <1>10, AlikeSums
<1>12. v * one = one * v /\ v * g = g * v /\ g * v \in Int
  BY <1>9, <1>10
<1>13. Alike(z, g * v)
  <2>1. z = IF (j < k) # (one = Modulus - 1) THEN ToRing(-u) ELSE u
    BY <1>1, <1>8, TimesKeyAt
  <2>2. CASE (j < k) # (one = Modulus - 1)
    <3>1. z = ToRing(-u) /\ g * v = -t
      <4>1. g * v = -t
        BY <1>3, <1>6, <1>9, <2>2
      <4> QED BY <2>1, <2>2, <4>1
    <3>2. PICK w, o, e, y : w = -u /\ o = -t /\ e = -1 /\ y = ToRing(-u)
      OBVIOUS
    <3>3. w \in Int /\ e \in Int /\ e * u = w /\ e * t = o
      BY <1>3, <3>2
    <3>4. Alike(e * u, e * t)
      BY <1>3, <3>3, AlikeSums
    <3>5. Alike(y, w)
      BY <3>2, <3>3, AlikeRules
    <3>6. Alike(y, o)
      BY <3>3, <3>4, <3>5, AlikeRules
    <3> QED BY <3>1, <3>2, <3>6
  <2>3. CASE ~((j < k) # (one = Modulus - 1))
    <3>1. g * v = t
      BY <1>3, <1>6, <1>9, <2>3
    <3>2. z = u
      BY <2>1, <2>3
    <3> QED BY <1>3, <3>1, <3>2
  <2> QED BY <2>2, <2>3
<1>14. Alike(g * v, one * v)
  BY <1>11, <1>12, AlikeRules
<1>15. Alike(z, one * v)
  BY <1>13, <1>14, AlikeRules
<1>16. z \in Int
  BY <1>15, AlikeRules
<1> QED BY <1>1, <1>7, <1>8, <1>15, <1>16

LEMMA SignedAlike ==
    ASSUME NEW y \in Int
    PROVE  Signed(y, LogModulus) \in Int /\ Alike(Signed(y, LogModulus), y)
<1>1. PICK q, l, v : q = Modulus /\ l = ToRing(y) /\ v = Signed(y, LogModulus)
  OBVIOUS
<1>2. Alike(l, y) /\ l \in 0 .. q - 1
  BY <1>1, AlikeRules
<1>3. q \in Nat /\ l \in Int
  BY <1>1, <1>2, ModulusAbove
<1>4. v = l \/ v = l - q
  BY <1>1 DEF Signed, ToRing, Modulus
<1>5. v \in Int
  BY <1>3, <1>4
<1>6. Alike(v, l)
  <2>1. PICK k : k = IF v = l THEN 0 ELSE -1
    OBVIOUS
  <2>2. k \in Int /\ v = l + q * k
    BY <1>3, <1>4, <2>1
  <2>3. v = l + Modulus * k
    BY <1>1, <2>2
  <2> QED BY <1>3, <1>5, <2>2, <2>3 DEF Alike
<1> QED BY <1>1, <1>2, <1>5, <1>6, AlikeRules

(***************************************************************************)
(* Digits of a polynomial                                                  *)
(***************************************************************************)

DigitsIn(g, p) == GadgetInv(LowBits(p, LogModulus), LogModulus, g)

DigitWeights(g) == [k \in 0 .. g.numDigits - 1 |-> 2 ^ GadgetShift(g, k)]

LargestDigit(g) == 2 ^ g.logDigit - 1

\* What the digits stand for.
FromDigits(g, p) == WeightedDigits(DigitsIn(g, p), DigitWeights(g), g.numDigits)

LEMMA DigitsInAt ==
    ASSUME NEW g \in Gadgets, NEW p, Numeric(p), NEW i \in Positions
    PROVE  /\ \A k \in 0 .. g.numDigits - 1 : DigitsIn(g, p)[k][i] \in 0 .. LargestDigit(g)
           /\ \E r \in Int : /\ -RoundingError(g) <= r /\ r <= RoundingError(g)
                             /\ Alike(FromDigits(g, p)[i], p[i] + r)
<1>1. PICK n, l, v : n = g.numDigits /\ l = LowBits(p, LogModulus) /\ v = LowBits(p, LogModulus)[i]
  OBVIOUS
<1>2. p[i] \in Int
  BY DEF Numeric
<1>3. v = ToRing(p[i])
  BY <1>1, LowBitsAt DEF ToRing
<1>4. v \in 0 .. Modulus - 1 /\ Alike(v, p[i])
  BY <1>2, <1>3, AlikeRules
<1>5. v \in Int
  BY <1>4, AlikeRules
<1>6. PICK d : d = [k \in 0 .. g.numDigits - 1 |-> GadgetInv(l, LogModulus, g)[k][i]]
  OBVIOUS
<1>7. /\ \A k \in 0 .. g.numDigits - 1 : d[k] = GadgetInv(l, LogModulus, g)[k][i]
      /\ l[i] \in 0 .. Modulus - 1
  BY <1>1, <1>4, <1>6
<1>8. /\ \A k \in 0 .. g.numDigits - 1 : d[k] \in 0 .. 2 ^ g.logDigit - 1
      /\ Magnitude(Signed(Recomposed(d, g) - l[i], LogModulus)) <= RoundingError(g)
  BY <1>7, PlainDigits
<1>9. \A k \in 0 .. g.numDigits - 1 : DigitsIn(g, p)[k][i] \in 0 .. LargestDigit(g)
  BY <1>1, <1>7, <1>8 DEF DigitsIn, LargestDigit
<1>10. PICK R, y, r : /\ R = Recomposed(d, g) /\ y = Recomposed(d, g) - l[i]
                      /\ r = Signed(Recomposed(d, g) - l[i], LogModulus)
  OBVIOUS
<1>11. FromDigits(g, p)[i] = R
  <2>1. R = Total([k \in 0 .. g.numDigits - 1 |-> d[k] * 2 ^ GadgetShift(g, k)],
                  0 .. g.numDigits - 1)
    BY <1>10, RecomposedIs
  <2>2. FromDigits(g, p)[i]
            = Total([k \in 0 .. g.numDigits - 1 |-> DigitsIn(g, p)[k][i] * DigitWeights(g)[k]],
                    0 .. g.numDigits - 1)
    BY Zenon DEF FromDigits, WeightedDigits
  <2>3. ASSUME NEW k \in 0 .. g.numDigits - 1
        PROVE  DigitsIn(g, p)[k][i] * DigitWeights(g)[k] = d[k] * 2 ^ GadgetShift(g, k)
    <3>1. DigitWeights(g)[k] = 2 ^ GadgetShift(g, k)
      BY DEF DigitWeights
    <3>2. DigitsIn(g, p)[k][i] = d[k]
      BY <1>1, <1>7 DEF DigitsIn
    <3> QED BY <3>1, <3>2
  <2>4. [k \in 0 .. g.numDigits - 1 |-> DigitsIn(g, p)[k][i] * DigitWeights(g)[k]]
            = [k \in 0 .. g.numDigits - 1 |-> d[k] * 2 ^ GadgetShift(g, k)]
    BY <2>3
  <2> QED BY <2>1, <2>2, <2>4
<1>12. R \in Int
  <2>1. PICK f : f = [k \in 0 .. g.numDigits - 1 |-> d[k] * 2 ^ GadgetShift(g, k)]
    OBVIOUS
  <2>2. ASSUME NEW k \in 0 .. g.numDigits - 1
        PROVE  f[k] \in Int
    <3>1. 2 ^ GadgetShift(g, k) \in Int
      <4>1. 0 \in Int
        OBVIOUS
      <4> QED BY <4>1, ShiftAlike
    <3>2. d[k] \in Int
      <4>1. 2 ^ g.logDigit \in Nat \ {0}
        BY GadgetPowers
      <4> QED BY <1>8, <4>1
    <3>3. f[k] = d[k] * 2 ^ GadgetShift(g, k)
      BY <2>1
    <3> QED BY <3>1, <3>2, <3>3
  <2>3. IsFiniteSet(0 .. g.numDigits - 1)
    <3>1. 0 \in Int /\ g.numDigits - 1 \in Int
      BY GadgetOf
    <3> QED BY <3>1, FS_Interval
  <2>4. Total(f, 0 .. g.numDigits - 1) \in Int
    BY <2>2, <2>3, SumWith
  <2>5. R = Total([k \in 0 .. g.numDigits - 1 |-> d[k] * 2 ^ GadgetShift(g, k)],
                  0 .. g.numDigits - 1)
    BY <1>10, RecomposedIs
  <2> QED BY <2>1, <2>4, <2>5
<1>13. y \in Int /\ y = R - v
  BY <1>1, <1>5, <1>10, <1>12
<1>14. r \in Int /\ Alike(r, y)
  BY <1>10, <1>13, SignedAlike
<1>15. -RoundingError(g) <= r /\ r <= RoundingError(g)
  <2>1. RoundingError(g) \in Nat
    BY GadgetPowers
  <2>2. (IF r < 0 THEN -r ELSE r) <= RoundingError(g)
    BY <1>8, <1>10 DEF Magnitude
  <2> QED BY <1>14, <2>1, <2>2
<1>16. Alike(R, p[i] + r)
  <2>1. Alike(v + y, p[i] + r)
    BY <1>4, <1>14, AlikeRules, AlikeSums
  <2>2. v + y = R
    BY <1>5, <1>12, <1>13
  <2> QED BY <2>1, <2>2
<1> QED BY <1>9, <1>11, <1>14, <1>15, <1>16

IsRounded(g, p, r) ==
    /\ Bounded(r, RoundingError(g), Positions)
    /\ \A i \in Positions : Alike(FromDigits(g, p)[i], p[i] + r[i])

AreDigits(g, d) ==
    \A k \in 0 .. g.numDigits - 1 :
        Numeric(d[k]) /\ \A i \in Positions : d[k][i] \in 0 .. LargestDigit(g)

LEMMA DigitsOf ==
    ASSUME NEW g \in Gadgets, NEW p, Numeric(p)
    PROVE  /\ AreDigits(g, DigitsIn(g, p))
           /\ \E r : IsRounded(g, p, r)
<1>1. LargestDigit(g) \in Nat /\ RoundingError(g) \in Nat
  BY GadgetPowers DEF LargestDigit
<1>2. AreDigits(g, DigitsIn(g, p))
  <2> SUFFICES ASSUME NEW k \in 0 .. g.numDigits - 1, NEW i \in Positions
               PROVE  /\ DigitsIn(g, p)[k][i] \in 0 .. LargestDigit(g)
                      /\ DigitsIn(g, p)[k][i] \in Int
    BY DEF AreDigits, Numeric
  <2>1. DigitsIn(g, p)[k][i] \in 0 .. LargestDigit(g)
    BY DigitsInAt
  <2> QED BY <1>1, <2>1
<1> DEFINE At(i, r) == /\ -RoundingError(g) <= r /\ r <= RoundingError(g)
                       /\ Alike(FromDigits(g, p)[i], p[i] + r)
<1>3. \A i \in Positions : \E r \in Int : At(i, r)
  BY DigitsInAt
<1> HIDE DEF At
<1>4. PICK r : r = [i \in Positions |-> CHOOSE x \in Int : At(i, x)]
  OBVIOUS
<1>5. \A i \in Positions : r[i] \in Int /\ At(i, r[i])
  BY <1>3, <1>4
<1>6. IsRounded(g, p, r)
  BY <1>5 DEF IsRounded, Bounded, At
<1> QED BY <1>2, <1>6

(***************************************************************************)
(* The external product, row by row                                        *)
(***************************************************************************)

ProductDigits(g, ct) ==
    [k \in 0 .. 2 * g.numDigits - 1 |->
        IF k < g.numDigits THEN DigitsIn(g, ct.a)[k] ELSE DigitsIn(g, ct.b)[k - g.numDigits]]

RgswRow(g, rgsw, k) == IF k < g.numDigits THEN rgsw.u[k] ELSE rgsw.v[k - g.numDigits]

RowAs(g, rgsw) == [k \in 0 .. 2 * g.numDigits - 1 |-> RgswRow(g, rgsw, k).a]

RowBs(g, rgsw) == [k \in 0 .. 2 * g.numDigits - 1 |-> RgswRow(g, rgsw, k).b]

LEMMA ExternalProductIs ==
    ASSUME NEW g, NEW ct, NEW rgsw
    PROVE  /\ ExternalProduct(g, ct, rgsw).a
                  = InnerProductFft(ProductDigits(g, ct), RowAs(g, rgsw), g.logDigit, LogModulus,
                                    FALSE)
           /\ ExternalProduct(g, ct, rgsw).b
                  = InnerProductFft(ProductDigits(g, ct), RowBs(g, rgsw), g.logDigit, LogModulus,
                                    FALSE)
<1>1. /\ Vector(2 * g.numDigits,
                LAMBDA k : IF k < g.numDigits THEN DigitsIn(g, ct.a)[k]
                           ELSE DigitsIn(g, ct.b)[k - g.numDigits])
             = ProductDigits(g, ct)
      /\ Vector(2 * g.numDigits, LAMBDA k : RgswRow(g, rgsw, k).a) = RowAs(g, rgsw)
      /\ Vector(2 * g.numDigits, LAMBDA k : RgswRow(g, rgsw, k).b) = RowBs(g, rgsw)
  BY TabulatedIs, Zenon DEF Vector, ProductDigits, RowAs, RowBs
<1>2. /\ ExternalProduct(g, ct, rgsw).a
             = InnerProductFft(
                   Vector(2 * g.numDigits,
                          LAMBDA k : IF k < g.numDigits THEN DigitsIn(g, ct.a)[k]
                                     ELSE DigitsIn(g, ct.b)[k - g.numDigits]),
                   Vector(2 * g.numDigits, LAMBDA k : RgswRow(g, rgsw, k).a),
                   g.logDigit, LogModulus, FALSE)
      /\ ExternalProduct(g, ct, rgsw).b
             = InnerProductFft(
                   Vector(2 * g.numDigits,
                          LAMBDA k : IF k < g.numDigits THEN DigitsIn(g, ct.a)[k]
                                     ELSE DigitsIn(g, ct.b)[k - g.numDigits]),
                   Vector(2 * g.numDigits, LAMBDA k : RgswRow(g, rgsw, k).b),
                   g.logDigit, LogModulus, FALSE)
  BY DEF ExternalProduct, Ciphertext, RgswRow, DigitsIn
<1> QED BY <1>1, <1>2

InRing(p) == \A i \in Positions : p[i] \in 0 .. Modulus - 1

LEMMA ProductRows ==
    ASSUME NEW g \in Gadgets, NEW ct, Numeric(ct.a), Numeric(ct.b), NEW rgsw,
           \A k \in 0 .. 2 * g.numDigits - 1 : /\ InRing(RgswRow(g, rgsw, k).a)
                                               /\ InRing(RgswRow(g, rgsw, k).b)
    PROVE  LET K == 0 .. 2 * g.numDigits - 1
               d == ProductDigits(g, ct)
           IN  /\ AreRows(d, RowBs(g, rgsw), RowAs(g, rgsw), K)
               /\ IsInnerProduct(ExternalProduct(g, ct, rgsw).a, d, RowAs(g, rgsw), K)
               /\ IsInnerProduct(ExternalProduct(g, ct, rgsw).b, d, RowBs(g, rgsw), K)
<1>1. PICK n, K, d, a, b : /\ n = g.numDigits /\ K = 0 .. 2 * g.numDigits - 1
                           /\ d = ProductDigits(g, ct) /\ a = RowAs(g, rgsw)
                           /\ b = RowBs(g, rgsw)
  OBVIOUS
<1>2. n \in Nat \ {0} /\ g.logDigit \in 1 .. CoeffBits /\ LogModulus \in 1 .. CoeffBits
  BY <1>1, GadgetOf
<1>3. ASSUME NEW k \in K
      PROVE  /\ Numeric(d[k]) /\ \A i \in Positions : d[k][i] \in 0 .. LargestDigit(g)
  <2>1. d[k] = IF k < n THEN DigitsIn(g, ct.a)[k] ELSE DigitsIn(g, ct.b)[k - n]
    BY <1>1 DEF ProductDigits
  <2>2. AreDigits(g, DigitsIn(g, ct.a)) /\ AreDigits(g, DigitsIn(g, ct.b))
    BY DigitsOf
  <2>3. IF k < n THEN k \in 0 .. n - 1 ELSE k - n \in 0 .. n - 1
    BY <1>1, <1>2
  <2> QED BY <1>1, <2>1, <2>2, <2>3 DEF AreDigits
<1>4. ASSUME NEW k \in K
      PROVE  InRing(a[k]) /\ InRing(b[k])
  <2>1. a[k] = RgswRow(g, rgsw, k).a /\ b[k] = RgswRow(g, rgsw, k).b
    BY <1>1 DEF RowAs, RowBs
  <2> QED BY <1>1, <2>1
<1>5. \A p : InRing(p) => Numeric(p)
  BY ModulusAbove DEF InRing, Numeric
<1>6. AreRows(d, b, a, K)
  BY <1>3, <1>4, <1>5 DEF AreRows
<1>7. DOMAIN d = K /\ DOMAIN a = K /\ DOMAIN b = K
  BY <1>1 DEF ProductDigits, RowAs, RowBs
<1>8. IsFiniteSet(K)
  <2>1. 0 \in Int /\ 2 * n - 1 \in Int
    BY <1>2
  <2> QED BY <1>1, <2>1, FS_Interval
<1>9. LeftOperand(d, g.logDigit, FALSE, K)
  BY <1>3 DEF LeftOperand, Operand, LargestDigit
<1>10. Operand(a, LogModulus, K) /\ Operand(b, LogModulus, K)
  BY <1>4 DEF InRing, Operand, Modulus
<1>11. PICK f : f = FALSE
  OBVIOUS
<1>12. f \in BOOLEAN /\ LeftOperand(d, g.logDigit, f, DOMAIN d) /\ IsFiniteSet(DOMAIN d)
  BY <1>7, <1>8, <1>9, <1>11
<1>13. ASSUME NEW j \in Positions
       PROVE  InnerProductFft(d, a, g.logDigit, LogModulus, f)[j]
                  = ToCoeff(Convolved(d, a, DOMAIN d, j))
  <2>1. Operand(a, LogModulus, DOMAIN d) /\ DOMAIN a = DOMAIN d
    BY <1>7, <1>10
  <2> QED BY <1>2, <1>12, <2>1, InnerProductIs
<1>14. ASSUME NEW j \in Positions
       PROVE  InnerProductFft(d, b, g.logDigit, LogModulus, f)[j]
                  = ToCoeff(Convolved(d, b, DOMAIN d, j))
  <2>1. Operand(b, LogModulus, DOMAIN d) /\ DOMAIN b = DOMAIN d
    BY <1>7, <1>10
  <2> QED BY <1>2, <1>12, <2>1, InnerProductIs
<1>15. /\ ExternalProduct(g, ct, rgsw).a = InnerProductFft(d, a, g.logDigit, LogModulus, f)
       /\ ExternalProduct(g, ct, rgsw).b = InnerProductFft(d, b, g.logDigit, LogModulus, f)
  BY <1>1, <1>11, ExternalProductIs
<1>16. /\ IsInnerProduct(ExternalProduct(g, ct, rgsw).a, d, a, K)
       /\ IsInnerProduct(ExternalProduct(g, ct, rgsw).b, d, b, K)
  BY <1>7, <1>13, <1>14, <1>15 DEF IsInnerProduct
<1> QED BY <1>1, <1>6, <1>16

(***************************************************************************)
(* The distance of two polynomials                                         *)
(***************************************************************************)

LEMMA NearNumbers ==
    ASSUME NEW x, NEW d \in Int, NEW h \in Nat, Alike(x, d), -h <= d, d <= h
    PROVE  Magnitude(Signed(x, LogModulus)) \in 0 .. h
<1>1. PICK q, v : q = Modulus /\ v = Signed(x, LogModulus)
  OBVIOUS
<1>2. x \in Int /\ \E k \in Int : x = d + q * k
  BY <1>1 DEF Alike
<1>3. PICK k \in Int : x = d + q * k
  BY <1>2
<1>4. v \in Int
  BY <1>1, <1>2, SignedAlike
<1>5. Magnitude(v) \in Nat
  BY <1>4 DEF Magnitude
<1>6. CASE 2 * h <= q
  <2>1. Magnitude(Signed(d + Modulus * k, LogModulus)) <= h
    BY <1>1, <1>6, NearMultiple
  <2> QED BY <1>1, <1>3, <1>5, <2>1
<1>7. CASE ~(2 * h <= q)
  <2>1. PICK half, l : half = 2 ^ (LogModulus - 1) /\ l = ToRing(x)
    OBVIOUS
  <2>2. q = 2 * half /\ half \in Nat
    <3>1. LogModulus \in 1 .. 2 * CoeffBits /\ LogModulus - 1 \in 0 .. 2 * CoeffBits
      <4>1. 2 * CoeffBits \in Nat /\ CoeffBits \in Nat /\ LogModulus \in 1 .. CoeffBits
        BY CoeffPowers, RlweAssumption, PolynomialsAssumption
      <4> QED BY <4>1
    <3>2. half \in Nat \ {0}
      BY <2>1, <3>1, CoeffPowers, PowerPositive
    <3> QED BY <1>1, <2>1, <3>1, <3>2, CoeffPowers DEF PowersUpTo, Modulus
  <2>3. l \in 0 .. q - 1
    BY <1>1, <1>2, <2>1, AlikeRules
  <2>4. v = IF l >= half THEN l - q ELSE l
    BY <1>1, <2>1 DEF Signed, ToRing, Modulus
  <2>5. -h <= v /\ v <= h
    BY <1>7, <2>2, <2>3, <2>4
  <2>6. Magnitude(v) <= h
    BY <1>4, <2>5 DEF Magnitude
  <2> QED BY <1>1, <1>5, <2>6
<1> QED BY <1>6, <1>7

\* The difference of coefficient i is at most h.
NearAt(p, r, h, i) ==
    \E d \in Int : -h <= d /\ d <= h /\ Alike(p[i] - r[i], d)

LEMMA DistanceIs ==
    ASSUME NEW p, NEW r, NEW h \in Nat, \A i \in Positions : NearAt(p, r, h, i)
    PROVE  Distance(p, r) <= h
<1>1. PICK T, L : /\ T = {Magnitude(Signed(p[i] - r[i], LogModulus)) : i \in Positions}
                  /\ L = {h - x : x \in T}
  OBVIOUS
<1>2. ASSUME NEW x \in T
      PROVE  x \in 0 .. h
  <2>1. PICK i \in Positions : x = Magnitude(Signed(p[i] - r[i], LogModulus))
    BY <1>1
  <2>2. PICK d \in Int : -h <= d /\ d <= h /\ Alike(p[i] - r[i], d)
    BY DEF NearAt
  <2>3. PICK y : y = p[i] - r[i]
    OBVIOUS
  <2>4. Magnitude(Signed(y, LogModulus)) \in 0 .. h
    BY <2>2, <2>3, NearNumbers
  <2> QED BY <2>1, <2>3, <2>4
<1>3. T # {}
  <2>1. 0 \in Positions
    BY PlacesAre
  <2> QED BY <1>1, <2>1
<1>4. L \subseteq Nat /\ L # {}
  BY <1>1, <1>2, <1>3
<1>5. PICK l \in L : \A y \in L : l <= y
  BY <1>4, Least
<1>6. PICK x \in T : l = h - x
  BY <1>1
<1>7. \A y \in T : x >= y
  <2> SUFFICES ASSUME NEW y \in T
               PROVE  x >= y
    OBVIOUS
  <2>1. l <= h - y
    BY <1>1, <1>5
  <2>2. x \in 0 .. h /\ y \in 0 .. h
    BY <1>2
  <2> QED BY <1>6, <2>1, <2>2
<1>8. Max(T) \in T
  BY <1>7, Zenon DEF Max
<1>9. Distance(p, r) = Max(T)
  BY <1>1 DEF Distance
<1> QED BY <1>2, <1>8, <1>9

(***************************************************************************)
(* The rows of an RGSW ciphertext                                          *)
(***************************************************************************)

LEMMA SamplesAt ==
    ASSUME NEW parts, NEW errors, NEW s, NEW count \in Nat, NEW k \in 0 .. count - 1
    PROVE  Samples(parts, errors, s, 0, count)[k] = RlweSample(parts[k], errors[k], s)
<1>1. Samples(parts, errors, s, 0, count)
          = [j \in 0 .. count - 1 |-> RlweSample(parts[0 + j], errors[0 + j], s)]
  BY TabulatedIs, Zenon DEF Samples, Vector
<1>2. PICK f : f = [j \in 0 .. count - 1 |-> RlweSample(parts[0 + j], errors[0 + j], s)]
  OBVIOUS
<1>3. f[k] = RlweSample(parts[0 + k], errors[0 + k], s)
  BY <1>2
<1>4. 0 + k = k
  OBVIOUS
<1> QED BY <1>1, <1>2, <1>3, <1>4

IsTimes(message, c, g) ==
    Numeric(g) /\ \A i \in Positions : message[i] \in Int /\ Alike(message[i], c * g[i])

LEMMA GadgetRowIs ==
    ASSUME NEW g \in Gadgets, NEW k \in 0 .. g.numDigits - 1, NEW samples, NEW message,
           NEW a, NEW e, NEW s, Numeric(a), Numeric(e), Numeric(TernaryOf(s)),
           samples[k] = RlweSample(a, e, s), NEW c \in Int, NEW p, IsTimes(message, c, p)
    PROVE  LET row == EncryptGadget(g, samples, message)[k]
           IN  /\ row.a = a /\ InRing(row.b)
               /\ IsGadgetRow(row.b, a, e, TernaryOf(s), c * 2 ^ GadgetShift(g, k), p)
<1>1. PICK row, P, S, w : /\ row = EncryptGadget(g, samples, message)[k] /\ w = c * P
                          /\ P = 2 ^ GadgetShift(g, k) /\ S = TernaryOf(s)
  <2>1. PICK P : P = 2 ^ GadgetShift(g, k)
    OBVIOUS
  <2> QED BY <2>1
<1>2. P \in Int
  <2>1. 0 \in Int
    OBVIOUS
  <2> QED BY <1>1, <2>1, ShiftAlike
<1>3. /\ samples[k].a = a
      /\ \A i \in Positions : /\ samples[k].b[i] \in 0 .. Modulus - 1
                              /\ Alike(samples[k].b[i] + Conv(a, S, i), e[i])
  <2>1. 0 \in Positions
    BY PlacesAre
  <2> QED BY <1>1, <2>1, SampleIs
<1>4. Numeric(samples[k].b) /\ Numeric(message)
  BY <1>3, ModulusAbove DEF IsTimes, Numeric
<1>5. ASSUME NEW i \in Positions
      PROVE  /\ row.a = a /\ row.b[i] \in 0 .. Modulus - 1
             /\ Alike(row.b[i] + Conv(a, S, i), e[i] + w * p[i])
  <2>1. PICK u, v, m, t, y, z : /\ u = row.b[i] /\ v = samples[k].b[i] /\ m = message[i]
                                /\ t = Conv(a, S, i) /\ y = p[i] /\ z = e[i]
    OBVIOUS
  <2>2. /\ row.a = samples[k].a /\ u \in 0 .. Modulus - 1 /\ Alike(u, v + P * m)
    BY <1>1, <1>4, <2>1, EncryptedRow
  <2>3. Alike(v + t, z)
    BY <1>3, <2>1
  <2>4. m \in Int /\ y \in Int /\ z \in Int /\ Alike(m, c * y)
    BY <2>1 DEF IsTimes, Numeric
  <2>5. v \in Int /\ t \in Int
    <3>1. v \in Int
      BY <1>4, <2>1 DEF Numeric
    <3>2. i \in Int /\ 0 \in Int
      BY PlacesAre
    <3>3. t \in Int
      BY <1>1, <2>1, <3>2, ConvShift
    <3> QED BY <3>1, <3>3
  <2>6. Alike(t, t)
    BY <2>5, AlikeRules
  <2>7. Alike(u + t, (v + P * m) + t)
    BY <2>2, <2>6, AlikeSums
  <2>8. Alike(P * m, P * (c * y))
    BY <1>2, <2>4, AlikeSums
  <2>9. Alike((v + t) + P * m, z + P * (c * y))
    BY <2>3, <2>8, AlikeSums
  <2>10. /\ (v + P * m) + t = (v + t) + P * m
         /\ z + P * (c * y) = z + w * y
    <3>1. PICK o, n : o = P * m /\ n = c * y
      OBVIOUS
    <3>2. o \in Int /\ n \in Int
      BY <1>2, <2>4, <3>1
    <3>3. P * (c * y) = (c * P) * y
      BY <1>2, <2>4
    <3>4. (v + o) + t = (v + t) + o
      BY <2>5, <3>2
    <3> QED BY <1>1, <3>1, <3>3, <3>4
  <2>11. Alike(u + t, z + w * y)
    BY <2>7, <2>9, <2>10, AlikeRules
  <2> QED BY <1>3, <2>1, <2>2, <2>11
<1>6. row.a = a
  <2>1. 0 \in Positions
    BY PlacesAre
  <2> QED BY <1>5, <2>1
<1>7. InRing(row.b)
  BY <1>5 DEF InRing
<1>8. Numeric(row.b)
  BY <1>7, ModulusAbove DEF InRing, Numeric
<1>9. w \in Int
  BY <1>1, <1>2
<1>10. IsGadgetRow(row.b, a, e, S, w, p)
  BY <1>5, <1>8, <1>9 DEF IsTimes, IsGadgetRow
<1> QED BY <1>1, <1>6, <1>7, <1>10

LEMMA ExtAlike ==
    ASSUME NEW p, NEW f, NEW r, Numeric(f), Numeric(r),
           \A i \in Positions : Alike(p[i], f[i] + r[i]), NEW m \in Int
    PROVE  /\ Numeric(p) /\ Alike(Ext(p, m), Ext(f, m) + Ext(r, m))
           /\ Ext(p, m) \in Int /\ Ext(f, m) \in Int /\ Ext(r, m) \in Int
<1>1. Numeric(p)
  BY AlikeRules DEF Numeric
<1>2. PICK e \in Int, i \in Positions :
          m = e * Degree + i /\ (m \div Degree) = e /\ (m % Degree) = i
  BY Places
<1>3. PICK c, u, v, w : c = Sgn(e) /\ u = p[i] /\ v = f[i] /\ w = r[i]
  OBVIOUS
<1>4. c \in Int
  <2>1. c \in {1, -1}
    BY <1>3, SgnOf
  <2> QED BY <2>1
<1>5. Ext(p, m) = c * u /\ Ext(f, m) = c * v /\ Ext(r, m) = c * w
  BY <1>2, <1>3 DEF Ext
<1>6. v \in Int /\ w \in Int /\ u \in Int /\ Alike(u, v + w)
  BY <1>1, <1>3 DEF Numeric
<1>7. Alike(c * u, c * (v + w))
  BY <1>4, <1>6, AlikeSums
<1>8. c * (v + w) = c * v + c * w /\ c * u \in Int /\ c * v \in Int /\ c * w \in Int
  BY <1>4, <1>6
<1> QED BY <1>1, <1>5, <1>7, <1>8

\* A row of b and a, and what it encrypts.
RowHolds(row, a, e, s, w, p) ==
    row.a = a /\ InRing(row.b) /\ IsGadgetRow(row.b, a, e, s, w, p)

\* The a components are of the ring, and the errors are small.
AreParts(parts, errors, n, noise) ==
    \A k \in 0 .. 2 * n - 1 : InRing(parts[k]) /\ Bounded(errors[k], noise, Positions)

\* An RGSW encryption of one times X^place.
RgswOf(g, parts, errors, s, place, one) ==
    LET samples == Samples(parts, errors, s, 0, 2 * g.numDigits)
    IN  EncryptRgsw(g, samples, Vector(g.numDigits, LAMBDA j : samples[g.numDigits + j]), s,
                    Message(place, one))

LEMMA RgswRows ==
    ASSUME NEW g \in Gadgets, NEW s, IsStoredKey(s), NEW parts, NEW errors, NEW noise \in Nat,
           AreParts(parts, errors, g.numDigits, noise), NEW place \in Positions,
           NEW one \in {1, Modulus - 1}, NEW k \in 0 .. g.numDigits - 1
    PROVE  LET n == g.numDigits
               rgsw == RgswOf(g, parts, errors, s, place, one)
               w == one * DigitWeights(g)[k]
           IN  /\ RowHolds(RgswRow(g, rgsw, k), parts[k], errors[k], TernaryOf(s), w,
                           Moved(TernaryOf(s), place))
               /\ RowHolds(RgswRow(g, rgsw, n + k), parts[n + k], errors[n + k], TernaryOf(s), w,
                           Monomial(place))
<1>1. PICK n, S, samples, others, rgsw, key, message :
          /\ n = g.numDigits /\ S = TernaryOf(s)
          /\ samples = Samples(parts, errors, s, 0, 2 * g.numDigits)
          /\ others = [j \in 0 .. g.numDigits - 1 |->
                          Samples(parts, errors, s, 0, 2 * g.numDigits)[g.numDigits + j]]
          /\ rgsw = RgswOf(g, parts, errors, s, place, one)
          /\ message = Message(place, one) /\ key = TimesKey(Message(place, one), s)
  OBVIOUS
<1>2. n \in Nat \ {0} /\ k \in 0 .. n - 1
  BY <1>1, GadgetOf
<1>3. /\ k \in 0 .. 2 * n - 1 /\ n + k \in 0 .. 2 * n - 1 /\ k < n /\ ~(n + k < n)
      /\ (n + k) - n = k /\ 2 * n \in Nat
  BY <1>2
<1>4. \A p : InRing(p) => Numeric(p)
  BY ModulusAbove DEF InRing, Numeric
<1>5. ASSUME NEW i \in 0 .. 2 * n - 1
      PROVE  /\ Numeric(parts[i]) /\ Numeric(errors[i])
             /\ samples[i] = RlweSample(parts[i], errors[i], s)
  <2>1. InRing(parts[i]) /\ Bounded(errors[i], noise, Positions)
    BY <1>1 DEF AreParts
  <2>2. samples[i] = RlweSample(parts[i], errors[i], s)
    BY <1>1, <1>3, SamplesAt
  <2> QED BY <1>4, <2>1, <2>2 DEF Bounded, Numeric
<1>6. others[k] = samples[n + k]
  BY <1>1
<1>7. /\ rgsw.u = EncryptGadget(g, samples, key) /\ rgsw.v = EncryptGadget(g, others, message)
  <2>1. Vector(g.numDigits,
               LAMBDA j : Samples(parts, errors, s, 0, 2 * g.numDigits)[g.numDigits + j])
            = others
    BY <1>1, TabulatedIs, Zenon DEF Vector
  <2> QED BY <1>1, <2>1 DEF RgswOf, EncryptRgsw
<1>8. Numeric(S)
  BY <1>1, StoredKeyIs
<1>9. one \in Int
  BY MessageIs
<1>10. IsTimes(key, one, Moved(S, place))
  <2>1. Numeric(Moved(S, place))
    <3>1. 0 \in Int
      OBVIOUS
    <3> QED BY <1>8, <3>1, MovedExt
  <2> QED BY <1>1, <2>1, TimesKeyIs DEF IsTimes
<1>11. IsTimes(message, one, Monomial(place))
  <2>1. Numeric(Monomial(place))
    BY DEF Monomial, Numeric
  <2>2. ASSUME NEW i \in Positions
        PROVE  message[i] \in Int /\ Alike(message[i], one * Monomial(place)[i])
    <3>1. message[i] = one * Monomial(place)[i] /\ Numeric(message)
      BY <1>1, MessageIs
    <3>2. message[i] \in Int
      BY <3>1 DEF Numeric
    <3> QED BY <3>1, <3>2, AlikeRules
  <2> QED BY <2>1, <2>2 DEF IsTimes
<1>12. DigitWeights(g)[k] = 2 ^ GadgetShift(g, k)
  BY DEF DigitWeights
<1>13. RgswRow(g, rgsw, k) = rgsw.u[k] /\ RgswRow(g, rgsw, n + k) = rgsw.v[k]
  BY <1>1, <1>3 DEF RgswRow
<1>14. RowHolds(rgsw.u[k], parts[k], errors[k], S, one * 2 ^ GadgetShift(g, k), Moved(S, place))
  BY <1>1, <1>3, <1>5, <1>7, <1>8, <1>9, <1>10, GadgetRowIs DEF RowHolds
<1>15. RowHolds(rgsw.v[k], parts[n + k], errors[n + k], S, one * 2 ^ GadgetShift(g, k),
                Monomial(place))
  <2>1. PICK x, y : x = parts[n + k] /\ y = errors[n + k]
    OBVIOUS
  <2>2. others[k] = RlweSample(x, y, s)
    BY <1>3, <1>5, <1>6, <2>1
  <2>3. Numeric(x) /\ Numeric(y)
    BY <1>3, <1>5, <2>1
  <2>4. k \in 0 .. g.numDigits - 1
    OBVIOUS
  <2>5. rgsw.v[k] = EncryptGadget(g, others, message)[k]
    BY <1>7
  <2>6. PICK v : v = Monomial(place)
    OBVIOUS
  <2>7. IsTimes(message, one, v)
    BY <1>11, <2>6
  <2>8. Numeric(TernaryOf(s))
    BY <1>1, <1>8
  <2>9. LET row == EncryptGadget(g, others, message)[k]
        IN  /\ row.a = x /\ InRing(row.b)
            /\ IsGadgetRow(row.b, x, y, TernaryOf(s), one * 2 ^ GadgetShift(g, k), v)
    BY <2>4, <1>9, <2>2, <2>3, <2>7, <2>8, GadgetRowIs
  <2>10. RowHolds(rgsw.v[k], x, y, S, one * 2 ^ GadgetShift(g, k), v)
    BY <1>1, <2>5, <2>9, Zenon DEF RowHolds
  <2> QED BY <2>1, <2>6, <2>10
<1> QED BY <1>1, <1>12, <1>13, <1>14, <1>15

\* The digits of a polynomial against n rows.
RowsHold(row, a, e, s, g, c, p) ==
    \A k \in 0 .. g.numDigits - 1 : RowHolds(row[k], a[k], e[k], s, c * DigitWeights(g)[k], p)

LEMMA HalfPhase ==
    ASSUME NEW g \in Gadgets, NEW p, Numeric(p), NEW row, NEW a, NEW e, NEW s, Numeric(s),
           NEW c \in Int, NEW r, Numeric(r), RowsHold(row, a, e, s, g, c, r), NEW j \in Int
    PROVE  LET n == g.numDigits
               d == DigitsIn(g, p)
           IN  /\ Alike(Total([k \in 0 .. n - 1 |-> RowPhase(d[k], row[k].b, row[k].a, s, j)],
                              0 .. n - 1),
                        ErrorOf(d, e, n, j) + c * Conv(FromDigits(g, p), r, j))
               /\ Numeric(FromDigits(g, p)) /\ ErrorOf(d, e, n, j) \in Int
<1>1. PICK n, d, w, b : /\ n = g.numDigits /\ d = DigitsIn(g, p) /\ w = DigitWeights(g)
                        /\ b = [k \in 0 .. g.numDigits - 1 |-> row[k].b]
  OBVIOUS
<1>2. n \in Nat
  BY <1>1, GadgetOf
<1>3. AreDigits(g, d)
  BY <1>1, DigitsOf
<1>4. ASSUME NEW k \in 0 .. n - 1
      PROVE  /\ Numeric(d[k]) /\ w[k] \in Int /\ row[k].a = a[k] /\ row[k].b = b[k]
             /\ IsGadgetRow(b[k], a[k], e[k], s, c * w[k], r)
  <2>1. Numeric(d[k])
    BY <1>1, <1>3 DEF AreDigits
  <2>2. w[k] = 2 ^ GadgetShift(g, k)
    BY <1>1 DEF DigitWeights
  <2>3. 2 ^ GadgetShift(g, k) \in Int
    <3>1. 0 \in Int /\ k \in 0 .. g.numDigits - 1
      BY <1>1
    <3> QED BY <3>1, ShiftAlike
  <2>4. RowHolds(row[k], a[k], e[k], s, c * w[k], r)
    BY <1>1 DEF RowsHold
  <2>5. b[k] = row[k].b
    BY <1>1
  <2> QED BY <2>1, <2>2, <2>3, <2>4, <2>5 DEF RowHolds
<1>5. AreGadgetRows(n, d, b, a, e, s, w, c, r)
  BY <1>4 DEF AreGadgetRows
<1>6. /\ Alike(Total([k \in 0 .. n - 1 |-> RowPhase(d[k], b[k], a[k], s, j)], 0 .. n - 1),
               ErrorOf(d, e, n, j) + c * Conv(WeightedDigits(d, w, n), r, j))
      /\ Numeric(WeightedDigits(d, w, n)) /\ ErrorOf(d, e, n, j) \in Int
  BY <1>2, <1>5, RowsPhase
<1>7. [k \in 0 .. n - 1 |-> RowPhase(d[k], b[k], a[k], s, j)]
          = [k \in 0 .. n - 1 |-> RowPhase(d[k], row[k].b, row[k].a, s, j)]
  BY <1>4
<1>8. WeightedDigits(d, w, n) = FromDigits(g, p)
  BY <1>1 DEF FromDigits
<1> QED BY <1>1, <1>6, <1>7, <1>8

LEMMA ConvNumber ==
    ASSUME NEW p, NEW r, Numeric(p), Numeric(r), NEW m \in Int
    PROVE  Conv(p, r, m) \in Int
<1>1. 0 \in Int
  OBVIOUS
<1> QED BY <1>1, ConvShift

\* The digits of p stand for p and what the gadget rounds.
LEMMA RoundedConv ==
    ASSUME NEW g \in Gadgets, NEW p, Numeric(p), NEW r, IsRounded(g, p, r), NEW s, Numeric(s),
           NEW m \in Int
    PROVE  /\ Numeric(r) /\ Conv(p, s, m) \in Int /\ Conv(r, s, m) \in Int
           /\ Alike(Conv(FromDigits(g, p), s, m), Conv(p, s, m) + Conv(r, s, m))
<1>1. PICK F, h : F = FromDigits(g, p) /\ h = [i \in Positions |-> p[i] + 1 * r[i]]
  OBVIOUS
<1>2. Numeric(r)
  BY DEF IsRounded, Bounded, Numeric
<1>3. AddsMultiple(h, p, 1, r)
  <2>1. 1 \in Int
    OBVIOUS
  <2> QED BY <1>1, <1>2, <2>1 DEF AddsMultiple
<1>4. Numeric(h) /\ AddsProducts(h, p, 1, r, s)
  BY <1>3, ConvSum
<1>5. ASSUME NEW i \in Positions
      PROVE  Alike(F[i], h[i])
  <2>1. Alike(F[i], p[i] + r[i])
    BY <1>1 DEF IsRounded
  <2>2. h[i] = p[i] + r[i]
    BY <1>1, <1>2 DEF Numeric
  <2> QED BY <2>1, <2>2
<1>6. Alike(Conv(F, s, m), Conv(h, s, m))
  BY <1>5, ConvAlike
<1>7. Conv(p, s, m) \in Int /\ Conv(r, s, m) \in Int
  BY <1>2, ConvNumber
<1>8. Conv(h, s, m) = Conv(p, s, m) + 1 * Conv(r, s, m)
  BY <1>4 DEF AddsProducts
<1>9. Conv(h, s, m) = Conv(p, s, m) + Conv(r, s, m)
  BY <1>7, <1>8
<1> QED BY <1>1, <1>2, <1>6, <1>7, <1>9

\* The rows of an RGSW ciphertext, those for a and those for b.
FirstRows(g, rgsw) == [k \in 0 .. g.numDigits - 1 |-> RgswRow(g, rgsw, k)]

LaterRows(g, rgsw) == [k \in 0 .. g.numDigits - 1 |-> RgswRow(g, rgsw, g.numDigits + k)]

Later(f, g) == [k \in 0 .. g.numDigits - 1 |-> f[g.numDigits + k]]

EncryptsMonomial(g, rgsw, parts, errors, s, place, one) ==
    /\ RowsHold(FirstRows(g, rgsw), parts, errors, TernaryOf(s), g, one,
                Moved(TernaryOf(s), place))
    /\ RowsHold(LaterRows(g, rgsw), Later(parts, g), Later(errors, g), TernaryOf(s), g, one,
                Monomial(place))
    /\ \A k \in 0 .. 2 * g.numDigits - 1 : /\ InRing(RgswRow(g, rgsw, k).a)
                                           /\ InRing(RgswRow(g, rgsw, k).b)

LEMMA RgswEncrypts ==
    ASSUME NEW g \in Gadgets, NEW s, IsStoredKey(s), NEW parts, NEW errors, NEW noise \in Nat,
           AreParts(parts, errors, g.numDigits, noise), NEW place \in Positions,
           NEW one \in {1, Modulus - 1}
    PROVE  EncryptsMonomial(g, RgswOf(g, parts, errors, s, place, one), parts, errors, s,
                            place, one)
<1>1. PICK n, S, rgsw : /\ n = g.numDigits /\ S = TernaryOf(s)
                        /\ rgsw = RgswOf(g, parts, errors, s, place, one)
  OBVIOUS
<1>2. n \in Nat \ {0}
  BY <1>1, GadgetOf
<1>3. ASSUME NEW k \in 0 .. n - 1
      PROVE  /\ RowHolds(RgswRow(g, rgsw, k), parts[k], errors[k], S, one * DigitWeights(g)[k],
                         Moved(S, place))
             /\ RowHolds(RgswRow(g, rgsw, n + k), parts[n + k], errors[n + k], S,
                         one * DigitWeights(g)[k], Monomial(place))
  <2>1. k \in 0 .. g.numDigits - 1
    BY <1>1
  <2> QED BY <1>1, <2>1, RgswRows
<1>4. RowsHold(FirstRows(g, rgsw), parts, errors, S, g, one, Moved(S, place))
  BY <1>1, <1>3 DEF RowsHold, FirstRows
<1>5. RowsHold(LaterRows(g, rgsw), Later(parts, g), Later(errors, g), S, g, one, Monomial(place))
  BY <1>1, <1>3 DEF RowsHold, LaterRows, Later
<1>6. ASSUME NEW k \in 0 .. 2 * n - 1
      PROVE  InRing(RgswRow(g, rgsw, k).a) /\ InRing(RgswRow(g, rgsw, k).b)
  <2>1. InRing(parts[k])
    BY <1>1 DEF AreParts
  <2>2. CASE k < n
    <3>1. k \in 0 .. n - 1
      BY <1>2, <2>2
    <3> QED BY <1>3, <2>1, <3>1 DEF RowHolds
  <2>3. CASE ~(k < n)
    <3>1. PICK l \in 0 .. n - 1 : k = n + l
      <4>1. k - n \in 0 .. n - 1 /\ k = n + (k - n)
        BY <1>2, <2>3
      <4> QED BY <4>1
    <3> QED BY <1>3, <2>1, <3>1 DEF RowHolds
  <2> QED BY <2>2, <2>3
<1> QED BY <1>1, <1>4, <1>5, <1>6 DEF EncryptsMonomial

LEMMA ProductSplit ==
    ASSUME NEW g \in Gadgets, NEW ct, Numeric(ct.a), Numeric(ct.b), NEW s, Numeric(TernaryOf(s)),
           NEW rgsw, NEW parts, NEW errors, NEW place \in Positions, NEW one \in Int,
           EncryptsMonomial(g, rgsw, parts, errors, s, place, one), NEW j \in Positions
    PROVE  LET n == g.numDigits
               S == TernaryOf(s)
               E1 == ErrorOf(DigitsIn(g, ct.a), errors, n, j)
               E2 == ErrorOf(DigitsIn(g, ct.b), Later(errors, g), n, j)
               Fa == FromDigits(g, ct.a)
               Fb == FromDigits(g, ct.b)
           IN  /\ Alike(Phase(ExternalProduct(g, ct, rgsw), s)[j],
                        (E1 + one * Conv(Fa, S, j - place)) + (E2 + one * Ext(Fb, j - place)))
               /\ E1 \in Int /\ E2 \in Int /\ Numeric(Fa) /\ Numeric(Fb)
<1>1. PICK n, S, K, d, B, A, product, u, v :
          /\ n = g.numDigits /\ S = TernaryOf(s) /\ K = 0 .. 2 * g.numDigits - 1
          /\ d = ProductDigits(g, ct) /\ B = RowBs(g, rgsw) /\ A = RowAs(g, rgsw)
          /\ product = ExternalProduct(g, ct, rgsw)
          /\ u = DigitsIn(g, ct.a) /\ v = DigitsIn(g, ct.b)
  OBVIOUS
<1>2. n \in Nat \ {0}
  BY <1>1, GadgetOf
<1>3. IsFiniteSet(K)
  <2>1. 0 \in Int /\ 2 * n - 1 \in Int
    BY <1>2
  <2> QED BY <1>1, <2>1, FS_Interval
<1>4. /\ AreRows(d, B, A, K)
      /\ IsInnerProduct(product.a, d, A, K) /\ IsInnerProduct(product.b, d, B, K)
  <2>1. \A k \in 0 .. 2 * g.numDigits - 1 : /\ InRing(RgswRow(g, rgsw, k).a)
                                            /\ InRing(RgswRow(g, rgsw, k).b)
    BY DEF EncryptsMonomial
  <2> QED BY <1>1, <2>1, ProductRows
<1>5. Alike(Phase(product, s)[j], RowPhases(d, B, A, S, K, j))
  BY <1>1, <1>3, <1>4, ProductPhase
<1>6. PICK f : f = [k \in K |-> RowPhase(d[k], B[k], A[k], S, j)]
  OBVIOUS
<1>7. j \in Int /\ j - place \in Int
  BY PlacesAre
<1>8. IntegerOver(f, 0 .. 2 * n - 1)
  <2> SUFFICES ASSUME NEW k \in K
               PROVE  f[k] \in Int
    BY <1>1 DEF IntegerOver
  <2>1. Numeric(d[k]) /\ Numeric(B[k]) /\ Numeric(A[k]) /\ Numeric(S)
    BY <1>1, <1>4 DEF AreRows
  <2>2. PICK P : P = Prod(d[k], A[k])
    OBVIOUS
  <2>3. Numeric(P)
    BY <2>1, <2>2, ProdOf
  <2>4. Conv(d[k], B[k], j) \in Int /\ Conv(P, S, j) \in Int
    BY <1>7, <2>1, <2>3, ConvNumber
  <2>5. f[k] = Conv(d[k], B[k], j) + Conv(P, S, j)
    BY <1>6, <2>2 DEF RowPhase
  <2> QED BY <2>4, <2>5
<1>9. PICK low, high : /\ low = [k \in 0 .. n - 1 |-> f[k]]
                       /\ high = [k \in 0 .. n - 1 |-> f[n + k]]
  OBVIOUS
<1>10. Total(f, K) = Total(low, 0 .. n - 1) + Total(high, 0 .. n - 1)
  BY <1>1, <1>2, <1>8, <1>9, SumInHalves
<1>11. RowPhases(d, B, A, S, K, j) = Total(f, K)
  BY <1>6 DEF RowPhases
<1>12. PICK R, Q : R = FirstRows(g, rgsw) /\ Q = LaterRows(g, rgsw)
  OBVIOUS
<1>13. ASSUME NEW k \in 0 .. n - 1
       PROVE  /\ f[k] = RowPhase(u[k], R[k].b, R[k].a, S, j)
              /\ f[n + k] = RowPhase(v[k], Q[k].b, Q[k].a, S, j)
  <2>1. /\ k \in K /\ n + k \in K /\ k < n /\ ~(n + k < n) /\ (n + k) - n = k
        /\ k \in 0 .. g.numDigits - 1
    BY <1>1, <1>2
  <2>2. d[k] = u[k] /\ d[n + k] = v[k]
    BY <1>1, <2>1 DEF ProductDigits
  <2>3. B[k] = R[k].b /\ A[k] = R[k].a
    BY <1>1, <1>12, <2>1 DEF RowBs, RowAs, FirstRows
  <2>4. B[n + k] = Q[k].b /\ A[n + k] = Q[k].a
    BY <1>1, <1>12, <2>1 DEF RowBs, RowAs, LaterRows
  <2> QED BY <1>6, <2>1, <2>2, <2>3, <2>4
<1>14. /\ low = [k \in 0 .. n - 1 |-> RowPhase(u[k], R[k].b, R[k].a, S, j)]
       /\ high = [k \in 0 .. n - 1 |-> RowPhase(v[k], Q[k].b, Q[k].a, S, j)]
  BY <1>9, <1>13
<1>15. PICK E1, E2, Fa, Fb, M, X :
          /\ E1 = ErrorOf(u, errors, n, j) /\ E2 = ErrorOf(v, Later(errors, g), n, j)
          /\ Fa = FromDigits(g, ct.a) /\ Fb = FromDigits(g, ct.b)
          /\ M = Moved(S, place) /\ X = Monomial(place)
  OBVIOUS
<1>16. Numeric(S) /\ Numeric(M) /\ Numeric(X)
  <2>1. 0 \in Int /\ Numeric(S)
    BY <1>1
  <2>2. Numeric(M)
    BY <1>15, <2>1, MovedExt
  <2>3. Numeric(X)
    BY <1>15 DEF Monomial, Numeric
  <2> QED BY <2>1, <2>2, <2>3
<1>17. /\ RowsHold(R, parts, errors, S, g, one, M)
       /\ RowsHold(Q, Later(parts, g), Later(errors, g), S, g, one, X)
  BY <1>1, <1>12, <1>15 DEF EncryptsMonomial
<1>18. /\ Alike(Total(low, 0 .. n - 1), E1 + one * Conv(Fa, M, j))
       /\ Numeric(Fa) /\ E1 \in Int
  <2>1. PICK p : p = ct.a
    OBVIOUS
  <2>2. Numeric(p) /\ j \in Int
    BY <1>7, <2>1
  <2>3. LET m == g.numDigits
            w == DigitsIn(g, p)
        IN  /\ Alike(Total([k \in 0 .. m - 1 |-> RowPhase(w[k], R[k].b, R[k].a, S, j)],
                           0 .. m - 1),
                     ErrorOf(w, errors, m, j) + one * Conv(FromDigits(g, p), M, j))
            /\ Numeric(FromDigits(g, p)) /\ ErrorOf(w, errors, m, j) \in Int
    BY <1>16, <1>17, <2>2, HalfPhase
  <2> QED BY <1>1, <1>14, <1>15, <2>1, <2>3
<1>19. /\ Alike(Total(high, 0 .. n - 1), E2 + one * Conv(Fb, X, j))
       /\ Numeric(Fb) /\ E2 \in Int
  <2>1. PICK p, e : p = ct.b /\ e = Later(errors, g)
    OBVIOUS
  <2>2. Numeric(p) /\ j \in Int
    BY <1>7, <2>1
  <2>3. RowsHold(Q, Later(parts, g), e, S, g, one, X)
    BY <1>17, <2>1
  <2>4. LET m == g.numDigits
            w == DigitsIn(g, p)
        IN  /\ Alike(Total([k \in 0 .. m - 1 |-> RowPhase(w[k], Q[k].b, Q[k].a, S, j)],
                           0 .. m - 1),
                     ErrorOf(w, e, m, j) + one * Conv(FromDigits(g, p), X, j))
            /\ Numeric(FromDigits(g, p)) /\ ErrorOf(w, e, m, j) \in Int
    BY <1>16, <2>2, <2>3, HalfPhase
  <2> QED BY <1>1, <1>14, <1>15, <2>1, <2>4
<1>20. Conv(Fa, M, j) = Conv(Fa, S, j - place)
  BY <1>7, <1>15, <1>16, <1>18, MovedConv
<1>21. Conv(Fb, X, j) = Ext(Fb, j - place)
  <2>1. Conv(Fb, X, j) = Conv(X, Fb, j)
    BY <1>7, <1>16, <1>19, ConvCommutes
  <2>2. Conv(X, Fb, j) = Ext(Fb, j - place)
    BY <1>7, <1>15, <1>19, MonomialConv
  <2> QED BY <2>1, <2>2
<1>22. Alike(Total(f, K), (E1 + one * Conv(Fa, S, j - place)) + (E2 + one * Ext(Fb, j - place)))
  BY <1>10, <1>18, <1>19, <1>20, <1>21, AlikeSums
<1>23. Alike(Phase(product, s)[j],
             (E1 + one * Conv(Fa, S, j - place)) + (E2 + one * Ext(Fb, j - place)))
  BY <1>5, <1>11, <1>22, AlikeRules
<1> QED BY <1>1, <1>15, <1>18, <1>19, <1>23

\* What the product should encrypt.
Wanted(ct, s, place, one) ==
    LET moved == MonomialTimes(Phase(ct, s), place)
    IN  IF one = 1 THEN moved ELSE PolyNegate(moved)

LEMMA AlikeProduct ==
    ASSUME NEW x, NEW y, Alike(x, y), NEW c \in Int
    PROVE  Alike(x * c, y * c)
<1>1. x \in Int /\ y \in Int /\ Alike(c * x, c * y)
  BY AlikeRules, AlikeSums
<1>2. x * c = c * x /\ y * c = c * y
  BY <1>1
<1> QED BY <1>1, <1>2

LEMMA PolyNegateAt ==
    ASSUME NEW p, NEW i \in Positions
    PROVE  PolyNegate(p)[i] = ToCoeff(-p[i])
<1>1. PICK f : f = [x \in Positions |-> ToCoeff(-p[x])]
  OBVIOUS
<1>2. PolyNegate(p) = [x \in Positions |-> ToCoeff(-p[x])]
  BY TabulatedIs, Zenon DEF PolyNegate, Poly
<1>3. f[i] = ToCoeff(-p[i])
  BY <1>1
<1> QED BY <1>1, <1>2, <1>3

LEMMA WantedIs ==
    ASSUME NEW ct, Numeric(ct.a), Numeric(ct.b), NEW s, Numeric(TernaryOf(s)),
           NEW place \in Positions, NEW one \in {1, Modulus - 1}, NEW j \in Positions
    PROVE  /\ Alike(Wanted(ct, s, place, one)[j],
                    one * (Conv(ct.a, TernaryOf(s), j - place) + Ext(ct.b, j - place)))
           /\ Conv(ct.a, TernaryOf(s), j - place) \in Int /\ Ext(ct.b, j - place) \in Int
<1>1. PICK S, ph, a, b, y, P, moved :
          /\ S = TernaryOf(s) /\ ph = Phase(ct, s) /\ a = ct.a /\ b = ct.b /\ y = j - place
          /\ P = Prod(ct.a, TernaryOf(s)) /\ moved = MonomialTimes(Phase(ct, s), place)
  OBVIOUS
<1>2. y \in Int /\ Numeric(S) /\ Numeric(a) /\ Numeric(b)
  BY <1>1, PlacesAre
<1>3. Numeric(P) /\ Ext(P, y) = Conv(a, S, y)
  BY <1>1, <1>2, ProdOf
<1>4. ASSUME NEW i \in Positions
      PROVE  Alike(ph[i], b[i] + P[i])
  <2>1. P[i] = Conv(a, S, i)
    BY <1>1, <1>2, ProdOf
  <2> QED BY <1>1, <2>1, PhaseIs
<1>5. /\ Numeric(ph) /\ Alike(Ext(ph, y), Ext(b, y) + Ext(P, y))
      /\ Ext(b, y) \in Int /\ Ext(P, y) \in Int
  BY <1>2, <1>3, <1>4, ExtAlike
<1>6. PICK t : t = Conv(a, S, y) + Ext(b, y)
  OBVIOUS
<1>7. t \in Int /\ Alike(Ext(ph, y), t)
  BY <1>3, <1>5, <1>6
<1>8. Alike(moved[j], t)
  <2>1. Congruent(moved[j], Ext(ph, y))
    BY <1>1, <1>5, MonomialTimesAt
  <2> QED BY <1>7, <2>1, AlikeRules
<1>9. one \in Int
  BY MessageIs
<1>10. CASE one = 1
  <2>1. Wanted(ct, s, place, one)[j] = moved[j]
    BY <1>1, <1>10 DEF Wanted
  <2>2. one * t = t
    BY <1>7, <1>10
  <2> QED BY <1>1, <1>3, <1>5, <1>6, <1>8, <2>1, <2>2
<1>11. CASE one # 1
  <2>1. Wanted(ct, s, place, one)[j] = PolyNegate(moved)[j]
    BY <1>1, <1>11 DEF Wanted
  <2>2. PolyNegate(moved)[j] = ToCoeff(-moved[j])
    BY PolyNegateAt
  <2>3. moved[j] \in Int /\ -moved[j] \in Int /\ -moved[j] = (-1) * moved[j]
    BY <1>8, AlikeRules
  <2>4. Alike(ToCoeff(-moved[j]), -moved[j])
    BY <2>3, AlikeRules
  <2>5. PICK e : e = -1
    OBVIOUS
  <2>6. e \in Int /\ Alike(one, e)
    BY <1>11, <2>5, MinusOne
  <2>7. Alike(-moved[j], e * t)
    BY <1>8, <2>3, <2>5, <2>6, AlikeSums
  <2>8. Alike(e * t, one * t)
    <3>1. Alike(e, one)
      BY <2>6, AlikeRules
    <3> QED BY <1>7, <3>1, AlikeProduct
  <2>9. Alike(PolyNegate(moved)[j], one * t)
    BY <2>2, <2>4, <2>7, <2>8, AlikeRules
  <2> QED BY <1>1, <1>3, <1>5, <1>6, <2>1, <2>9
<1> QED BY <1>10, <1>11

\* How far an external product may be from what it should encrypt.
ProductBound(g, noise) ==
    (Degree + 1) * RoundingError(g) + noise * 2 * g.numDigits * Degree * (2 ^ g.logDigit - 1)

\* What the digits of a polynomial add to the errors.
LEMMA DigitErrors ==
    ASSUME NEW g \in Gadgets, NEW p, Numeric(p), NEW e, NEW noise \in Nat,
           \A k \in 0 .. g.numDigits - 1 : Bounded(e[k], noise, Positions), NEW j \in Int
    PROVE  LET n == g.numDigits
               h == ((LargestDigit(g) * noise) * Degree) * n
               x == ErrorOf(DigitsIn(g, p), e, n, j)
           IN  x \in Int /\ -h <= x /\ x <= h /\ LargestDigit(g) \in Nat
<1>1. PICK n, d, h : n = g.numDigits /\ d = DigitsIn(g, p) /\ h = LargestDigit(g)
  OBVIOUS
<1>2. n \in Nat \ {0}
  BY <1>1, GadgetOf
<1>3. AreDigits(g, d)
  BY <1>1, DigitsOf
<1>4. h \in Nat
  <2>2. 2 ^ g.logDigit \in Nat \ {0}
    BY GadgetPowers
  <2> QED BY <1>1, <2>2 DEF LargestDigit
<1>5. ASSUME NEW k \in 0 .. n - 1
      PROVE  Bounded(d[k], h, Positions) /\ Bounded(e[k], noise, Positions)
  <2>1. \A i \in Positions : d[k][i] \in 0 .. h
    BY <1>1, <1>3 DEF AreDigits
  <2>2. Bounded(d[k], h, Positions)
    BY <1>4, <2>1 DEF Bounded
  <2> QED BY <1>1, <2>2
<1>6. /\ ErrorOf(d, e, n, j) \in Int
      /\ -(((h * noise) * Degree) * n) <= ErrorOf(d, e, n, j)
      /\ ErrorOf(d, e, n, j) <= ((h * noise) * Degree) * n
  BY <1>2, <1>4, <1>5, ErrorBounded
<1> QED BY <1>1, <1>4, <1>6

\* What two numbers differ by modulo the ring's.
LEMMA Differences ==
    ASSUME NEW u, NEW t, NEW x \in Int, NEW y \in Int, NEW o \in Int, NEW e \in Int,
           NEW a \in Int, NEW b \in Int, NEW c \in Int, NEW d \in Int, NEW v \in Int,
           NEW w \in Int, Alike(u, (x + o * v) + (y + o * w)), Alike(t, o * (a + b)),
           Alike(v, a + c), Alike(w, b + d), Alike(o, e)
    PROVE  /\ Alike(u - t, (x + y) + e * (c + d))
           /\ (x + y) + e * (c + d) \in Int
<1>1. c + d \in Int /\ a + b \in Int /\ v + w \in Int /\ x + y \in Int
  OBVIOUS
<1>2. Alike(v + w, (a + c) + (b + d))
  BY AlikeSums
<1>3. (a + c) + (b + d) = (a + b) + (c + d)
  OBVIOUS
<1>4. PICK p, q, r : p = v + w /\ q = a + b /\ r = c + d
  OBVIOUS
<1>5. p \in Int /\ q \in Int /\ r \in Int /\ Alike(p, q + r)
  BY <1>1, <1>2, <1>3, <1>4
<1>6. Alike(o * p, o * (q + r))
  BY <1>5, AlikeSums
<1>7. PICK op, oq, cr, er : op = o * p /\ oq = o * q /\ cr = o * r /\ er = e * r
  OBVIOUS
<1>8. op \in Int /\ oq \in Int /\ cr \in Int /\ er \in Int
  BY <1>5, <1>7
<1>9. o * (q + r) = oq + cr
  BY <1>5, <1>7
<1>10. Alike(op, oq + cr)
  BY <1>6, <1>7, <1>9
<1>11. Alike(cr, er)
  BY <1>5, <1>7, AlikeProduct
<1>12. (x + o * v) + (y + o * w) = (x + y) + op
  <2>1. op = o * v + o * w /\ o * v \in Int /\ o * w \in Int
    BY <1>4, <1>7
  <2> QED BY <2>1
<1>13. Alike(u, (x + y) + op) /\ Alike(t, oq)
  BY <1>4, <1>7, <1>12
<1>14. PICK z : z = x + y
  OBVIOUS
<1>15. Alike(u, z + op) /\ z \in Int
  BY <1>1, <1>13, <1>14
<1>16. Alike(u - t, z + er)
  <2>1. /\ u \in Int /\ t \in Int
        /\ \E k \in Int : u = (z + op) + Modulus * k
        /\ \E k \in Int : t = oq + Modulus * k
        /\ \E k \in Int : op = (oq + cr) + Modulus * k
        /\ \E k \in Int : cr = er + Modulus * k
    BY <1>10, <1>11, <1>13, <1>15 DEF Alike
  <2>2. PICK k1 \in Int, k2 \in Int, k3 \in Int, k4 \in Int :
            /\ u = (z + op) + Modulus * k1 /\ t = oq + Modulus * k2
            /\ op = (oq + cr) + Modulus * k3 /\ cr = er + Modulus * k4
    BY <2>1
  <2>3. PICK m : m = Modulus
    OBVIOUS
  <2>4. m \in Int
    BY <2>3, ModulusAbove
  <2>5. PICK m1, m2, m3, m4 : m1 = m * k1 /\ m2 = m * k2 /\ m3 = m * k3 /\ m4 = m * k4
    OBVIOUS
  <2>6. m1 \in Int /\ m2 \in Int /\ m3 \in Int /\ m4 \in Int
    BY <2>4, <2>5
  <2>7. u - t = (z + er) + (((m1 - m2) + m3) + m4)
    BY <1>8, <1>15, <2>2, <2>3, <2>5, <2>6
  <2>8. ((m1 - m2) + m3) + m4 = m * (((k1 - k2) + k3) + k4)
    BY <2>4, <2>5
  <2>9. PICK k : k = ((k1 - k2) + k3) + k4
    OBVIOUS
  <2>10. k \in Int /\ u - t = (z + er) + Modulus * k
    BY <2>3, <2>7, <2>8, <2>9
  <2> QED BY <1>8, <1>15, <2>1, <2>10 DEF Alike
<1> QED BY <1>4, <1>7, <1>8, <1>14, <1>15, <1>16

LEMMA ProductNear ==
    ASSUME NEW g \in Gadgets, NEW ct, Numeric(ct.a), Numeric(ct.b), NEW s, IsStoredKey(s),
           NEW rgsw, NEW parts, NEW errors, NEW noise \in Nat,
           AreParts(parts, errors, g.numDigits, noise), NEW place \in Positions,
           NEW one \in {1, Modulus - 1}, EncryptsMonomial(g, rgsw, parts, errors, s, place, one),
           NEW j \in Positions
    PROVE  NearAt(Phase(ExternalProduct(g, ct, rgsw), s), Wanted(ct, s, place, one),
                  ProductBound(g, noise), j)
<1>1. PICK n, S, a, b, y, Fa, Fb, E1, E2 :
          /\ n = g.numDigits /\ S = TernaryOf(s) /\ a = ct.a /\ b = ct.b /\ y = j - place
          /\ Fa = FromDigits(g, ct.a) /\ Fb = FromDigits(g, ct.b)
          /\ E1 = ErrorOf(DigitsIn(g, ct.a), errors, g.numDigits, j)
          /\ E2 = ErrorOf(DigitsIn(g, ct.b), Later(errors, g), g.numDigits, j)
  OBVIOUS
<1>2. n \in Nat \ {0}
  BY <1>1, GadgetOf
<1>3. Numeric(S) /\ Bounded(S, 1, Positions)
  BY <1>1, StoredKeyIs
<1>4. y \in Int /\ j \in Int /\ one \in Int
  BY <1>1, PlacesAre, MessageIs
<1>5. PICK u : u = Phase(ExternalProduct(g, ct, rgsw), s)[j]
  OBVIOUS
<1>6. /\ Alike(u, (E1 + one * Conv(Fa, S, y)) + (E2 + one * Ext(Fb, y)))
      /\ E1 \in Int /\ E2 \in Int /\ Numeric(Fa) /\ Numeric(Fb)
  <2>1. Numeric(TernaryOf(s))
    BY <1>1, <1>3
  <2>2. LET N == g.numDigits
            T == TernaryOf(s)
            X1 == ErrorOf(DigitsIn(g, ct.a), errors, N, j)
            X2 == ErrorOf(DigitsIn(g, ct.b), Later(errors, g), N, j)
            Ga == FromDigits(g, ct.a)
            Gb == FromDigits(g, ct.b)
        IN  /\ Alike(Phase(ExternalProduct(g, ct, rgsw), s)[j],
                     (X1 + one * Conv(Ga, T, j - place)) + (X2 + one * Ext(Gb, j - place)))
            /\ X1 \in Int /\ X2 \in Int /\ Numeric(Ga) /\ Numeric(Gb)
    BY <1>4, <2>1, ProductSplit
  <2> QED BY <1>1, <1>5, <2>2
<1>7. PICK t : t = Wanted(ct, s, place, one)[j]
  OBVIOUS
<1>8. /\ Alike(t, one * (Conv(a, S, y) + Ext(b, y)))
      /\ Conv(a, S, y) \in Int /\ Ext(b, y) \in Int
  BY <1>1, <1>3, <1>7, WantedIs
<1>9. PICK ra, rb : IsRounded(g, a, ra) /\ IsRounded(g, b, rb)
  <2>1. (\E r : IsRounded(g, a, r)) /\ (\E r : IsRounded(g, b, r))
    BY <1>1, DigitsOf
  <2> QED BY <2>1
<1>10. PICK R : R = RoundingError(g)
  OBVIOUS
<1>11. R \in Nat
  BY <1>10, GadgetPowers
<1>12. /\ Alike(Conv(Fa, S, y), Conv(a, S, y) + Conv(ra, S, y))
       /\ Numeric(ra) /\ Conv(ra, S, y) \in Int
  BY <1>1, <1>3, <1>4, <1>9, RoundedConv
<1>13. Numeric(rb) /\ \A i \in Positions : Alike(Fb[i], b[i] + rb[i])
  BY <1>1, <1>9 DEF IsRounded, Bounded, Numeric
<1>14. Alike(Ext(Fb, y), Ext(b, y) + Ext(rb, y)) /\ Ext(rb, y) \in Int
  BY <1>1, <1>4, <1>13, ExtAlike
<1>15. PICK A0, B0, A1, B1, A2, B2 :
          /\ A0 = Conv(a, S, y) /\ B0 = Ext(b, y) /\ A1 = Conv(ra, S, y) /\ B1 = Ext(rb, y)
          /\ A2 = Conv(Fa, S, y) /\ B2 = Ext(Fb, y)
  OBVIOUS
<1>16. /\ A0 \in Int /\ B0 \in Int /\ A1 \in Int /\ B1 \in Int
       /\ Alike(A2, A0 + A1) /\ Alike(B2, B0 + B1)
  BY <1>8, <1>12, <1>14, <1>15
<1>17. -(R * Degree) <= A1 /\ A1 <= R * Degree
  <2>1. Bounded(ra, R, Positions) /\ 1 \in Nat
    BY <1>9, <1>10 DEF IsRounded
  <2>2. -((R * 1) * Degree) <= A1 /\ A1 <= (R * 1) * Degree
    BY <1>3, <1>4, <1>11, <1>15, <2>1, ConvBounded
  <2>3. R * 1 = R
    BY <1>11
  <2> QED BY <2>2, <2>3
<1>18. -R <= B1 /\ B1 <= R
  <2>1. Bounded(rb, R, Positions)
    BY <1>9, <1>10 DEF IsRounded
  <2> QED BY <1>4, <1>11, <1>15, <2>1, ExtBounded
<1>19. PICK e : e = SignOf(one)
  OBVIOUS
<1>20. e \in {1, -1} /\ Alike(one, e)
  BY <1>19, SignIs
<1>21. PICK D : D = (E1 + E2) + e * (A1 + B1)
  OBVIOUS
<1>22. Alike(u - t, D) /\ D \in Int
  <2>1. Alike(u, (E1 + one * A2) + (E2 + one * B2)) /\ Alike(t, one * (A0 + B0))
    BY <1>6, <1>8, <1>15
  <2>2. A2 \in Int /\ B2 \in Int
    BY <1>16, AlikeRules
  <2>3. e \in Int
    BY <1>20
  <2>4. /\ E1 \in Int /\ E2 \in Int /\ one \in Int /\ A0 \in Int /\ B0 \in Int
        /\ A1 \in Int /\ B1 \in Int /\ Alike(A2, A0 + A1) /\ Alike(B2, B0 + B1)
        /\ Alike(one, e)
    BY <1>4, <1>6, <1>16, <1>20
  <2>5. /\ Alike(u - t, (E1 + E2) + e * (A1 + B1))
        /\ (E1 + E2) + e * (A1 + B1) \in Int
    BY <2>1, <2>2, <2>3, <2>4, Differences
  <2> QED BY <1>21, <2>5
<1>23. PICK h : h = ((LargestDigit(g) * noise) * Degree) * n
  OBVIOUS
<1>24. LargestDigit(g) \in Nat /\ -h <= E1 /\ E1 <= h /\ -h <= E2 /\ E2 <= h
  <2>1. \A k \in 0 .. g.numDigits - 1 : Bounded(errors[k], noise, Positions)
    BY <1>1, <1>2 DEF AreParts
  <2>2. \A k \in 0 .. g.numDigits - 1 : Bounded(Later(errors, g)[k], noise, Positions)
    <3> SUFFICES ASSUME NEW k \in 0 .. g.numDigits - 1
                 PROVE  Bounded(Later(errors, g)[k], noise, Positions)
      OBVIOUS
    <3>1. g.numDigits + k \in 0 .. 2 * g.numDigits - 1
      BY <1>1, <1>2
    <3>2. Bounded(errors[g.numDigits + k], noise, Positions)
      BY <3>1 DEF AreParts
    <3> QED BY <3>2 DEF Later
  <2>3. LargestDigit(g) \in Nat /\ -h <= E1 /\ E1 <= h
    BY <1>1, <1>4, <1>23, <2>1, DigitErrors
  <2>4. PICK f : f = Later(errors, g)
    OBVIOUS
  <2>5. -h <= E2 /\ E2 <= h
    BY <1>1, <1>4, <1>23, <2>2, <2>4, DigitErrors
  <2> QED BY <2>3, <2>5
<1>25. ProductBound(g, noise) = ((R * Degree) + R) + (h + h)
  <2>1. PICK m, l : m = Degree /\ l = LargestDigit(g)
    OBVIOUS
  <2>2. m \in Nat /\ l \in Nat /\ noise \in Nat /\ n \in Nat /\ R \in Nat
    BY <1>2, <1>11, <1>24, <2>1, PlacesAre
  <2>3. ProductBound(g, noise) = (m + 1) * R + noise * 2 * n * m * l
    BY <1>1, <1>10, <2>1 DEF ProductBound, LargestDigit
  <2>4. (m + 1) * R = R * m + R
    BY <2>2
  <2>5. noise * 2 * n * m * l = h + h
    <3>1. h = ((l * noise) * m) * n
      BY <1>23, <2>1
    <3>2. noise * 2 * n * m * l = 2 * (((l * noise) * m) * n)
      BY <2>2
    <3> QED BY <2>2, <3>1, <3>2
  <2> QED BY <2>1, <2>3, <2>4, <2>5
<1>26. -ProductBound(g, noise) <= D /\ D <= ProductBound(g, noise)
  <2>1. PICK m : m = R * Degree
    OBVIOUS
  <2>2. m \in Int /\ h \in Int
    <3>1. LargestDigit(g) * noise \in Int /\ Degree \in Int
      BY <1>24, PlacesAre
    <3>2. (LargestDigit(g) * noise) * Degree \in Int
      BY <3>1
    <3> QED BY <1>2, <1>11, <1>23, <2>1, <3>1, <3>2
  <2>3. PICK z : z = A1 + B1
    OBVIOUS
  <2>4. z \in Int /\ -(m + R) <= z /\ z <= m + R
    BY <1>11, <1>16, <1>17, <1>18, <2>1, <2>2, <2>3
  <2>5. -(m + R) <= e * z /\ e * z <= m + R /\ e * z \in Int
    <3>1. e * z = z \/ e * z = -z
      BY <1>20, <2>4
    <3> QED BY <1>11, <2>2, <2>4, <3>1
  <2> QED BY <1>6, <1>11, <1>21, <1>24, <1>25, <2>1, <2>2, <2>3, <2>5
<1> QED BY <1>5, <1>7, <1>22, <1>26 DEF NearAt

\* Multiplying any ciphertext with an RGSW encryption of X^place or -X^place,
\* of any a components and any errors of at most noise, multiplies what it
\* encrypts by that monomial: up to the rounding of the gadget on both halves
\* and to the errors times the digits, for every ring, gadget and key.
THEOREM ExternalProductNear ==
    ASSUME NEW g \in Gadgets, NEW ct, Numeric(ct.a), Numeric(ct.b), NEW s, IsStoredKey(s),
           NEW parts, NEW errors, NEW noise \in Nat, AreParts(parts, errors, g.numDigits, noise),
           NEW place \in Positions, NEW one \in {1, Modulus - 1}
    PROVE  Distance(Phase(ExternalProduct(g, ct, RgswOf(g, parts, errors, s, place, one)), s),
                    Wanted(ct, s, place, one))
               <= ProductBound(g, noise)
<1>1. PICK rgsw, h : /\ rgsw = RgswOf(g, parts, errors, s, place, one)
                     /\ h = ProductBound(g, noise)
  OBVIOUS
<1>2. EncryptsMonomial(g, rgsw, parts, errors, s, place, one)
  BY <1>1, RgswEncrypts
<1>3. h \in Nat
  <2>1. PICK n, l, R, d : /\ n = g.numDigits /\ l = LargestDigit(g) /\ R = RoundingError(g)
                          /\ d = Degree
    OBVIOUS
  <2>2. n \in Nat /\ R \in Nat /\ d \in Nat
    BY <2>1, GadgetOf, GadgetPowers, PlacesAre
  <2>3. l \in Nat
    <3>1. 2 ^ g.logDigit \in Nat \ {0}
      BY GadgetPowers
    <3> QED BY <2>1, <3>1 DEF LargestDigit
  <2>4. (d + 1) * R \in Nat
    BY <2>2
  <2>5. noise * 2 * n \in Nat
    BY <2>2
  <2>6. noise * 2 * n * d \in Nat
    BY <2>2, <2>5
  <2>7. noise * 2 * n * d * l \in Nat
    BY <2>3, <2>6
  <2>8. h = (d + 1) * R + noise * 2 * n * d * l
    BY <1>1, <2>1 DEF ProductBound, LargestDigit
  <2> QED BY <2>4, <2>7, <2>8
<1>4. PICK p, r : /\ p = Phase(ExternalProduct(g, ct, rgsw), s) /\ r = Wanted(ct, s, place, one)
  OBVIOUS
<1>5. \A j \in Positions : NearAt(p, r, h, j)
  BY <1>1, <1>2, <1>4, ProductNear
<1>6. Distance(p, r) <= h
  BY <1>3, <1>5, DistanceIs
<1> QED BY <1>1, <1>4, <1>6

LEMMA RgswCase ==
    ASSUME case \in AllCases, case.op = "rgsw"
    PROVE  case.gadget \in Gadgets /\ case.seed \in Int /\ case.noise \in Nat
<1>1. case # NoCase
  BY DEF NoCase
<1>2. case \in [op : {"rgsw", "packing"}, gadget : Gadgets, seed : Seeds, noise : {0, 1}]
  BY <1>1 DEF AllCases, Cases
<1>3. case.gadget \in Gadgets /\ case.seed \in Seeds /\ case.noise \in {0, 1}
  BY <1>2
<1>4. Seeds \subseteq Nat
  BY CasesAssumption, Zenon
<1>5. \A k \in Seeds : k \in Int
  BY <1>4
<1>6. case.noise \in Nat
  BY <1>3
<1> QED BY <1>3, <1>5, <1>6, Zenon

\* The keys of the cases are stored as ternary keys are.
LEMMA AnyKeyStored ==
    ASSUME NEW k \in Int
    PROVE  IsStoredKey(AnyKey(k))
<1>1. PICK f : f = [i \in Positions |-> Scattered(k + 31 * i, 3) - 1]
  OBVIOUS
<1>2. AnyKey(k) = [i \in Positions |-> ToRing(f[i])]
  <2>1. PICK h : h = Poly(LAMBDA i : Scattered(k + 31 * i, 3) - 1)
    OBVIOUS
  <2>2. h = [i \in Positions |-> Scattered(k + 31 * i, 3) - 1]
    BY <2>1, TabulatedIs, Zenon DEF Poly
  <2>3. AnyKey(k) = SecretKey(Poly(LAMBDA i : Scattered(k + 31 * i, 3) - 1))
    BY Zenon DEF AnyKey
  <2>4. AnyKey(k) = SecretKey(f)
    BY <1>1, <2>1, <2>2, <2>3
  <2>5. SecretKey(f) = [i \in Positions |-> ToRing(f[i])]
    BY TabulatedIs, Zenon DEF SecretKey, Poly
  <2> QED BY <2>4, <2>5
<1>3. ASSUME NEW i \in Positions
      PROVE  ToRing(f[i]) \in {0, 1, Modulus - 1}
  <2>1. f[i] = Scattered(k + 31 * i, 3) - 1
    BY <1>1
  <2>2. k + 31 * i \in Int /\ 3 \in Nat \ {0}
    BY PlacesAre
  <2>3. Scattered(k + 31 * i, 3) \in 0 .. 3 - 1
    BY <2>2, ScatteredOf
  <2>4. f[i] = -1 \/ f[i] = 0 \/ f[i] = 1
    BY <2>1, <2>3
  <2>5. ToRing(-1) = Modulus - 1
    BY MinusOne
  <2>6. ToRing(0) = 0 /\ ToRing(1) = 1
    <3>1. PICK q : q = Modulus
      OBVIOUS
    <3>2. q \in Nat /\ q >= 2
      BY <3>1, ModulusAbove
    <3>3. 0 % q = 0 /\ 1 % q = 1
      BY <3>2
    <3> QED BY <3>1, <3>3 DEF ToRing, Modulus
  <2> QED BY <2>4, <2>5, <2>6
<1> QED BY <1>2, <1>3 DEF IsStoredKey

\* Their a components are of the ring, and their errors are small.
LEMMA AnyPartsOf ==
    ASSUME NEW k \in Int, NEW l \in Int, NEW n \in Nat, NEW noise \in Nat
    PROVE  AreParts(AnyPolys(k, 2 * n, Modulus), AnyErrors(l, 2 * n, noise), n, noise)
<1>1. PICK c : c = 2 * n
  OBVIOUS
<1>2. AnyPolys(k, c, Modulus) = [j \in 0 .. c - 1 |-> AnyPoly(k + j, Modulus)]
  BY TabulatedIs, Zenon DEF AnyPolys, Vector
<1>3. PICK u : u = [j \in 0 .. c - 1 |->
                       [i \in Positions |-> Scattered(l + 17 * i + 83 * j, 2 * noise + 1) - noise]]
  OBVIOUS
<1>4. AnyErrors(l, c, noise)
          = [j \in 0 .. c - 1 |->
                [i \in Positions |-> Scattered(l + 17 * i + 83 * j, 2 * noise + 1) - noise]]
  BY TabulatedIs, Zenon DEF AnyErrors, Vector, Poly
<1>5. ASSUME NEW j \in 0 .. c - 1
      PROVE  InRing(AnyPoly(k + j, Modulus)) /\ Bounded(u[j], noise, Positions)
  <2>1. k + j \in Int /\ Modulus \in Nat \ {0} /\ j \in Int
    BY <1>1, ModulusAbove
  <2>2. InRing(AnyPoly(k + j, Modulus))
    BY <2>1, AnyPolyOf DEF InRing
  <2>3. ASSUME NEW i \in Positions
        PROVE  u[j][i] \in Int /\ -noise <= u[j][i] /\ u[j][i] <= noise
    <3>1. PICK x, m : x = l + 17 * i + 83 * j /\ m = 2 * noise + 1
      OBVIOUS
    <3>2. x \in Int /\ m \in Nat \ {0}
      BY <2>1, <3>1, PlacesAre
    <3>3. Scattered(x, m) \in 0 .. m - 1
      BY <3>2, ScatteredOf
    <3>4. u[j][i] = Scattered(x, m) - noise
      BY <1>3, <3>1
    <3> QED BY <3>1, <3>3, <3>4
  <2> QED BY <2>2, <2>3 DEF Bounded
<1> QED BY <1>1, <1>2, <1>3, <1>4, <1>5 DEF AreParts

\* So are the ciphertexts of the cases, for every gadget, seed and monomial.
THEOREM ExternalProducts == Spec => []ExternalProductMultiplies
<1>1. case \in AllCases => ExternalProductMultiplies
  <2> SUFFICES ASSUME case \in AllCases, case.op = "rgsw"
               PROVE  ExternalProductMultiplies
    BY DEF ExternalProductMultiplies
  <2>1. PICK g, noise, k : g = case.gadget /\ noise = case.noise /\ k = case.seed
    OBVIOUS
  <2>2. g \in Gadgets /\ noise \in Nat /\ k \in Int
    BY <2>1, RgswCase
  <2>3. PICK n, s, parts, errors, ct :
            /\ n = g.numDigits /\ s = AnyKey(k + 5)
            /\ parts = AnyPolys(29 * k, 2 * g.numDigits, Modulus)
            /\ errors = AnyErrors(k, 2 * g.numDigits, noise)
            /\ ct = Ciphertext(AnyPoly(k + 2, Modulus), AnyPoly(k + 9, Modulus))
    OBVIOUS
  <2>4. IsStoredKey(s)
    BY <2>2, <2>3, AnyKeyStored
  <2>5. AreParts(parts, errors, g.numDigits, noise)
    <3>1. 29 * k \in Int /\ g.numDigits \in Nat
      BY <2>2, GadgetOf
    <3> QED BY <2>2, <2>3, <3>1, AnyPartsOf
  <2>6. Numeric(ct.a) /\ Numeric(ct.b)
    <3>1. ct.a = AnyPoly(k + 2, Modulus) /\ ct.b = AnyPoly(k + 9, Modulus)
      BY <2>3 DEF Ciphertext
    <3>2. k + 2 \in Int /\ k + 9 \in Int /\ Modulus \in Nat \ {0}
      BY <2>2, ModulusAbove
    <3>3. /\ \A i \in Positions : AnyPoly(k + 2, Modulus)[i] \in 0 .. Modulus - 1
          /\ \A i \in Positions : AnyPoly(k + 9, Modulus)[i] \in 0 .. Modulus - 1
      BY <3>2, AnyPolyOf
    <3> QED BY <3>1, <3>2, <3>3 DEF Numeric
  <2>7. \A place \in Positions : \A one \in {1, Modulus - 1} :
            Distance(Phase(ExternalProduct(g, ct, RgswOf(g, parts, errors, s, place, one)), s),
                     Wanted(ct, s, place, one))
                <= ProductBound(g, noise)
    BY <2>2, <2>4, <2>5, <2>6, ExternalProductNear
  <2>8. \A place \in Positions : \A one \in {1, Modulus - 1} :
            Distance(Phase(ExternalProduct(case.gadget,
                                           Ciphertext(AnyPoly(case.seed + 2, Modulus),
                                                      AnyPoly(case.seed + 9, Modulus)),
                                           RgswOf(case.gadget,
                                                  AnyPolys(29 * case.seed,
                                                           2 * case.gadget.numDigits, Modulus),
                                                  AnyErrors(case.seed, 2 * case.gadget.numDigits,
                                                            case.noise),
                                                  AnyKey(case.seed + 5), place, one)),
                           AnyKey(case.seed + 5)),
                     Wanted(Ciphertext(AnyPoly(case.seed + 2, Modulus),
                                       AnyPoly(case.seed + 9, Modulus)),
                            AnyKey(case.seed + 5), place, one))
                <= ProductBound(case.gadget, case.noise)
    BY <2>1, <2>3, <2>7, Zenon
  <2> QED BY <2>8, Zenon DEF ExternalProductMultiplies, RgswOf, Message, Wanted, ProductBound
<1> QED BY <1>1, CasesInvariant, PTL

(***************************************************************************)
(* Sums of powers, and the pieces of a number                              *)
(***************************************************************************)

\* Adding one more number to a sum.
LEMMA SumOneMore ==
    ASSUME NEW n \in Nat, NEW f, IntegerOver(f, 0 .. n)
    PROVE  /\ Total(f, 0 .. n - 1) \in Int
           /\ Total(f, 0 .. n) = Total(f, 0 .. n - 1) + f[n]
<1>1. 0 \in Int /\ n \in Int /\ n - 1 \in Int
  OBVIOUS
<1>2. IsFiniteSet(0 .. n) /\ IsFiniteSet(0 .. n - 1)
  BY <1>1, FS_Interval
<1>3. n \in 0 .. n /\ (0 .. n) \ {n} = 0 .. n - 1
  OBVIOUS
<1>4. \A x \in 0 .. n : f[x] \in Int
  BY DEF IntegerOver
<1>5. \A y \in 0 .. n : Total(f, 0 .. n) = f[y] + Total(f, (0 .. n) \ {y})
  BY <1>2, <1>4, SumWith
<1>6. Total(f, 0 .. n) = f[n] + Total(f, 0 .. n - 1)
  BY <1>3, <1>5
<1>7. \A x \in 0 .. n - 1 : f[x] \in Int
  BY <1>4
<1>8. Total(f, 0 .. n - 1) \in Int
  BY <1>2, <1>7, SumWith
<1> QED BY <1>3, <1>4, <1>6, <1>8

\* The places of the pieces of a word.
PiecesOf(f, e, B, P, n) ==
    /\ P[0] = 1
    /\ \A k \in 0 .. n : P[k] \in Nat \ {0}
    /\ \A k \in 0 .. n - 1 : /\ P[k + 1] = P[k] * B
                              /\ e[k] \in 0 .. B - 1 /\ f[k] = e[k] * P[k]

\* What the pieces below a place add up to is below the place.
LEMMA PiecesBelow ==
    ASSUME NEW n \in Nat, NEW B \in Nat \ {0}, NEW f, NEW e, NEW P, PiecesOf(f, e, B, P, n)
    PROVE  /\ IntegerOver(f, 0 .. n - 1)
           /\ \A k \in 0 .. n : Total(f, 0 .. k - 1) \in 0 .. P[k] - 1
<1>1. ASSUME NEW k \in 0 .. n - 1
      PROVE  f[k] \in Int /\ e[k] \in 0 .. B - 1 /\ f[k] = e[k] * P[k] /\ P[k] \in Nat \ {0}
             /\ P[k + 1] = P[k] * B
  <2>1. k \in 0 .. n
    OBVIOUS
  <2> QED BY <2>1 DEF PiecesOf
<1>2. PICK T : T = {k \in Nat : k <= n => Total(f, 0 .. k - 1) \in 0 .. P[k] - 1}
  OBVIOUS
<1>3. 0 \in T
  <2>1. IsFiniteSet({}) /\ 0 .. 0 - 1 = {}
    BY FS_EmptySet
  <2>2. Total(f, 0 .. 0 - 1) = 0
    BY <2>1, SumPick
  <2> QED BY <1>2, <2>2 DEF PiecesOf
<1>4. ASSUME NEW k \in Nat, k \in T
      PROVE  k + 1 \in T
  <2>1. CASE k + 1 <= n
    <3>1. k \in 0 .. n - 1 /\ k + 1 - 1 = k
      BY <2>1
    <3>2. PICK s : s = Total(f, 0 .. k - 1)
      OBVIOUS
    <3>3. s \in 0 .. P[k] - 1
      BY <1>2, <1>4, <2>1, <3>2
    <3>4. IntegerOver(f, 0 .. k)
      BY <1>1, <2>1 DEF IntegerOver
    <3>5. Total(f, 0 .. k) = s + f[k]
      BY <3>2, <3>4, SumOneMore
    <3>6. PICK p, d : p = P[k] /\ d = e[k]
      OBVIOUS
    <3>7. /\ p \in Nat \ {0} /\ d \in 0 .. B - 1 /\ f[k] = d * p
          /\ P[k + 1] = p * B /\ s \in 0 .. p - 1
      BY <1>1, <3>1, <3>3, <3>6
    <3>8. d + 1 \in Nat /\ d + 1 <= B /\ p <= p /\ d \in Nat
      BY <3>7
    <3>9. (d + 1) * p <= B * p /\ (d + 1) * p = d * p + p /\ B * p = p * B /\ d * p \in Nat
      BY <3>7, <3>8, Products
    <3>10. s + f[k] \in 0 .. P[k + 1] - 1
      BY <3>7, <3>9
    <3> QED BY <1>2, <3>1, <3>5, <3>10
  <2> QED BY <1>2, <2>1
<1>5. \A k \in Nat : k \in T
  BY <1>3, <1>4, NatInd
<1> QED BY <1>1, <1>2, <1>5 DEF IntegerOver

\* What stands at or above a place is a multiple of it.
LEMMA PiecesAbove ==
    ASSUME NEW n \in Nat, NEW B \in Nat \ {0}, NEW f, NEW e, NEW P, PiecesOf(f, e, B, P, n),
           NEW j \in 0 .. n
    PROVE  \E h \in Int : Total(f, 0 .. n - 1) = Total(f, 0 .. j - 1) + P[j] * h
<1>1. PICK s : s = Total(f, 0 .. j - 1)
  OBVIOUS
<1>2. PICK p : p = P[j]
  OBVIOUS
<1>3. IntegerOver(f, 0 .. n - 1) /\ s \in Int /\ p \in Nat \ {0}
  <2>1. Total(f, 0 .. j - 1) \in 0 .. P[j] - 1 /\ IntegerOver(f, 0 .. n - 1)
    BY PiecesBelow
  <2>2. P[j] \in Nat \ {0}
    BY DEF PiecesOf
  <2> QED BY <1>1, <1>2, <2>1, <2>2
<1>4. PICK T : T = {m \in Nat : j + m <= n =>
                        /\ \E h \in Int : Total(f, 0 .. (j + m) - 1) = s + p * h
                        /\ \E h \in Int : P[j + m] = p * h}
  OBVIOUS
<1>5. 0 \in T
  <2>1. j + 0 = j /\ s = s + p * 0 /\ p = p * 1
    BY <1>3
  <2>2. Total(f, 0 .. (j + 0) - 1) = s + p * 0 /\ P[j + 0] = p * 1
    BY <1>1, <1>2, <2>1
  <2> QED BY <1>4, <2>2
<1>6. ASSUME NEW m \in Nat, m \in T
      PROVE  m + 1 \in T
  <2>1. CASE j + (m + 1) <= n
    <3>1. PICK k : k = j + m
      OBVIOUS
    <3>2. /\ k \in 0 .. n - 1 /\ k \in Nat /\ (j + (m + 1)) - 1 = k
          /\ j + (m + 1) = k + 1 /\ j + m <= n
      BY <2>1, <3>1
    <3>3. PICK h \in Int : Total(f, 0 .. k - 1) = s + p * h
      BY <1>4, <1>6, <3>1, <3>2
    <3>4. PICK g \in Int : P[k] = p * g
      BY <1>4, <1>6, <3>1, <3>2
    <3>5. IntegerOver(f, 0 .. k)
      BY <1>3, <3>2 DEF IntegerOver
    <3>6. Total(f, 0 .. k) = Total(f, 0 .. k - 1) + f[k]
      BY <3>2, <3>5, SumOneMore
    <3>7. PICK d : d = e[k]
      OBVIOUS
    <3>8. d \in Int /\ f[k] = d * P[k] /\ P[k + 1] = P[k] * B
      BY <3>2, <3>7 DEF PiecesOf
    <3>9. d * (p * g) = p * (d * g) /\ d * g \in Int /\ (p * g) * B = p * (g * B) /\ g * B \in Int
          /\ p * h \in Int /\ p * (d * g) \in Int
      BY <1>3, <3>8
    <3>10. p * (h + d * g) = p * h + p * (d * g) /\ h + d * g \in Int
      BY <1>3, <3>9
    <3>11. Total(f, 0 .. k) = s + p * (h + d * g)
      BY <1>3, <3>3, <3>4, <3>6, <3>8, <3>9, <3>10
    <3>12. P[k + 1] = p * (g * B)
      BY <3>4, <3>8, <3>9
    <3>13. /\ \E x \in Int : Total(f, 0 .. (j + (m + 1)) - 1) = s + p * x
           /\ \E x \in Int : P[j + (m + 1)] = p * x
      BY <3>2, <3>9, <3>10, <3>11, <3>12
    <3> QED BY <1>4, <3>13
  <2> QED BY <1>4, <2>1
<1>7. \A m \in Nat : m \in T
  BY <1>5, <1>6, NatInd
<1>8. PICK m : m = n - j
  OBVIOUS
<1>9. m \in Nat /\ j + m = n /\ j + m <= n
  BY <1>8
<1>10. m \in T
  BY <1>7, <1>9
<1>11. \E h \in Int : Total(f, 0 .. (j + m) - 1) = s + p * h
  BY <1>4, <1>9, <1>10
<1> QED BY <1>1, <1>2, <1>9, <1>11

\* Every piece can be read back.
LEMMA PieceBack ==
    ASSUME NEW n \in Nat, NEW B \in Nat \ {0}, NEW f, NEW e, NEW P, PiecesOf(f, e, B, P, n),
           NEW j \in 0 .. n - 1
    PROVE  ((Total(f, 0 .. n - 1) \div P[j]) % B) = e[j]
<1>1. PICK s : s = Total(f, 0 .. j - 1)
  OBVIOUS
<1>2. PICK p, d, w : p = P[j] /\ d = e[j] /\ w = Total(f, 0 .. n - 1)
  OBVIOUS
<1>3. j \in 0 .. n /\ j + 1 \in 0 .. n /\ j \in Nat /\ (j + 1) - 1 = j
  OBVIOUS
<1>4. p \in Nat \ {0} /\ d \in 0 .. B - 1 /\ f[j] = d * p /\ P[j + 1] = p * B
  BY <1>2, <1>3 DEF PiecesOf
<1>5. s \in 0 .. p - 1 /\ IntegerOver(f, 0 .. n - 1)
  BY <1>1, <1>2, <1>3, PiecesBelow
<1>6. Total(f, 0 .. j) = s + f[j]
  <2>1. IntegerOver(f, 0 .. j)
    BY <1>3, <1>5 DEF IntegerOver
  <2> QED BY <1>1, <1>3, <2>1, SumOneMore
<1>7. PICK h \in Int : w = Total(f, 0 .. (j + 1) - 1) + P[j + 1] * h
  BY <1>2, <1>3, PiecesAbove
<1>8. w = (s + d * p) + (p * B) * h
  BY <1>3, <1>4, <1>6, <1>7
<1>9. PICK q : q = B * h + d
  OBVIOUS
<1>10. q \in Int /\ w = p * q + s /\ w \in Int
  <2>1. d * p = p * d /\ (p * B) * h = p * (B * h) /\ B * h \in Int /\ d \in Int
    BY <1>4
  <2>2. p * q = p * (B * h) + p * d
    BY <1>4, <1>9, <2>1
  <2>3. p * (B * h) \in Int /\ p * d \in Int /\ s \in Int /\ q \in Int
    BY <1>4, <1>5, <1>9, <2>1
  <2> QED BY <1>8, <2>1, <2>2, <2>3
<1>11. w \div p = q
  BY <1>4, <1>5, <1>10, DivisionOf
<1>12. (q % B) = d
  BY <1>4, <1>9, <1>10, DivisionOf
<1> QED BY <1>2, <1>11, <1>12

(***************************************************************************)
(* The entries of a word                                                   *)
(***************************************************************************)

\* The entry types and the widths of their entries.
LEMMA KindFacts ==
    ASSUME NEW kind \in DOMAIN Kinds
    PROVE  /\ Kinds[kind] \in Nat \ {0} /\ WordBits \in Nat /\ PowersUpTo(WordBits)
           /\ EntryBits(kind) \in 1 .. WordBits /\ Kinds[kind] * EntryBits(kind) = WordBits
<1>1. WordBits \in Nat /\ WordBits % 8 = 0 /\ WordBits >= 1
  BY MatricesAssumption, PolynomialsAssumption
<1>2. kind \in {"uint8_t", "uint16_t", "int32_t"} /\ Kinds[kind] \in {8, 4, 2}
  BY DEF Kinds
<1>3. PICK w : w = WordBits \div 8
  OBVIOUS
<1>4. w \in Nat \ {0} /\ WordBits = 8 * w
  BY <1>1, <1>3
<1>5. EntryBits(kind) = WordBits \div Kinds[kind]
  BY DEF EntryBits
<1>6. CASE Kinds[kind] = 8
  <2>1. EntryBits(kind) = w
    BY <1>4, <1>5, <1>6
  <2> QED BY <1>1, <1>4, <1>6, <2>1, PowersAssumption DEF PowersUpTo
<1>7. CASE Kinds[kind] = 4
  <2>1. EntryBits(kind) = 2 * w
    BY <1>4, <1>5, <1>7
  <2> QED BY <1>1, <1>4, <1>7, <2>1, PowersAssumption DEF PowersUpTo
<1>8. CASE Kinds[kind] = 2
  <2>1. EntryBits(kind) = 4 * w
    BY <1>4, <1>5, <1>8
  <2> QED BY <1>1, <1>4, <1>8, <2>1, PowersAssumption DEF PowersUpTo
<1> QED BY <1>2, <1>6, <1>7, <1>8

\* The numbers that an entry type can hold.
InKind(kind, x) ==
    IF IsSignedKind(kind)
    THEN x \in Int /\ -(2 ^ (EntryBits(kind) - 1)) <= x /\ x < 2 ^ (EntryBits(kind) - 1)
    ELSE x \in 0 .. 2 ^ EntryBits(kind) - 1

\* The bits of an entry, and the entry back from them.
LEMMA EntryBack ==
    ASSUME NEW kind \in DOMAIN Kinds, NEW x, InKind(kind, x), NEW low,
           low = x % 2 ^ EntryBits(kind)
    PROVE  /\ x \in Int /\ low \in 0 .. 2 ^ EntryBits(kind) - 1
           /\ x = IF IsSignedKind(kind) THEN Signed(low, EntryBits(kind)) ELSE low
<1>1. PICK bits : bits = EntryBits(kind)
  OBVIOUS
<1>2. WordBits \in Nat /\ PowersUpTo(WordBits) /\ bits \in 1 .. WordBits
  BY <1>1, KindFacts
<1>3. bits \in 0 .. WordBits
  BY <1>2
<1>4. PICK B : B = 2 ^ bits
  OBVIOUS
<1>5. B \in Nat \ {0}
  BY <1>2, <1>3, <1>4, PowerPositive
<1>6. x \in Int
  BY DEF InKind
<1>7. low \in 0 .. B - 1
  BY <1>1, <1>4, <1>5, <1>6, Division
<1>8. CASE IsSignedKind(kind)
  <2>1. -(2 ^ (bits - 1)) <= x /\ x < 2 ^ (bits - 1)
    BY <1>1, <1>8 DEF InKind
  <2>2. Signed(x % 2 ^ bits, bits) = x
    BY <1>2, <1>6, <2>1, SignedWithin
  <2> QED BY <1>1, <1>4, <1>6, <1>7, <1>8, <2>2
<1>9. CASE ~IsSignedKind(kind)
  <2>1. x \in 0 .. B - 1
    BY <1>1, <1>4, <1>9 DEF InKind
  <2>2. x = B * 0 + x
    BY <1>5, <2>1
  <2>3. x % B = x
    BY <1>5, <2>1
  <2> QED BY <1>1, <1>4, <1>6, <1>7, <1>9, <2>3
<1> QED BY <1>8, <1>9

\* The pieces of word w of a condensed matrix with words words in a row.
WordPieces(m, n, words, bits, w) ==
    [k \in 0 .. n - 1 |-> (Entry(m, w \div words, (w % words) * n + k) % 2 ^ bits) * 2 ^ (k * bits)]

EntriesInKind(m, kind) ==
    \A r \in 0 .. m.rows - 1 : \A c \in 0 .. m.cols - 1 : InKind(kind, Entry(m, r, c))

\* Place x * n + k of a row of n * words entries.
LEMMA PlaceInRow ==
    ASSUME NEW n \in Nat \ {0}, NEW words \in Nat \ {0}, NEW x \in 0 .. words - 1,
           NEW k \in 0 .. n - 1
    PROVE  x * n + k \in 0 .. words * n - 1
<1>1. x \in Nat /\ x + 1 \in Nat /\ x + 1 <= words /\ n <= n /\ words \in Nat /\ n \in Nat
  OBVIOUS
<1>2. (x + 1) * n <= words * n
  BY <1>1, Products
<1>3. (x + 1) * n = x * n + n /\ x * n \in Nat /\ words * n \in Nat
  BY <1>1
<1> QED BY <1>2, <1>3

\* A word gives back the entries that it was put together from.
LEMMA WordHolds ==
    ASSUME NEW kind \in DOMAIN Kinds, NEW m, NEW words \in Nat \ {0}, EntriesInKind(m, kind),
           m.cols = words * Kinds[kind], NEW r \in 0 .. m.rows - 1, m.rows \in Nat,
           NEW x \in 0 .. words - 1, NEW j \in 0 .. Kinds[kind] - 1
    PROVE  Unpacked(kind, Total(WordPieces(m, Kinds[kind], words, EntryBits(kind), r * words + x),
                                0 .. Kinds[kind] - 1), j)
               = Entry(m, r, x * Kinds[kind] + j)
<1>1. PICK n, bits : n = Kinds[kind] /\ bits = EntryBits(kind)
  OBVIOUS
<1>2. n \in Nat \ {0} /\ WordBits \in Nat /\ PowersUpTo(WordBits) /\ bits \in 1 .. WordBits
      /\ n * bits = WordBits
  BY <1>1, KindFacts
<1>3. PICK B : B = 2 ^ bits
  OBVIOUS
<1>4. bits \in 0 .. WordBits /\ bits \in Nat /\ n \in Nat
  BY <1>2
<1>5. B \in Nat \ {0}
  BY <1>2, <1>3, <1>4, PowerPositive
<1>6. PICK w : w = r * words + x
  OBVIOUS
<1>7. w \div words = r /\ w % words = x
  <2>1. w = words * r + x /\ r \in Int /\ x \in 0 .. words - 1 /\ w \in Int
    BY <1>6
  <2> QED BY <2>1, DivisionOf
<1>8. PICK e : e = [k \in 0 .. n - 1 |-> Entry(m, r, x * n + k) % B]
  OBVIOUS
<1>9. PICK f : f = WordPieces(m, n, words, bits, w)
  OBVIOUS
<1>10. PICK P : P = [k \in 0 .. n |-> 2 ^ (k * bits)]
  OBVIOUS
<1>11. ASSUME NEW k \in 0 .. n - 1
       PROVE  /\ f[k] = e[k] * P[k] /\ e[k] \in 0 .. B - 1
              /\ Entry(m, r, x * n + k) = IF IsSignedKind(kind) THEN Signed(e[k], bits) ELSE e[k]
  <2>1. f[k] = (Entry(m, w \div words, (w % words) * n + k) % 2 ^ bits) * 2 ^ (k * bits)
    BY <1>9 DEF WordPieces
  <2>2. k \in 0 .. n
    BY <1>4
  <2>3. f[k] = e[k] * P[k]
    <3>1. P[k] = 2 ^ (k * bits) /\ e[k] = Entry(m, r, x * n + k) % B
      BY <1>8, <1>10, <2>2
    <3>2. f[k] = (Entry(m, r, x * n + k) % B) * 2 ^ (k * bits)
      BY <1>3, <1>7, <2>1, Zenon
    <3> QED BY <3>1, <3>2, Zenon
  <2>4. x * n + k \in 0 .. m.cols - 1
    BY <1>1, <1>2, PlaceInRow
  <2>5. InKind(kind, Entry(m, r, x * n + k))
    BY <2>4 DEF EntriesInKind
  <2>6. e[k] = Entry(m, r, x * n + k) % 2 ^ EntryBits(kind)
    BY <1>1, <1>3, <1>8
  <2> QED BY <1>1, <1>3, <2>3, <2>5, <2>6, EntryBack
<1>12. PiecesOf(f, e, B, P, n)
  <2>1. ASSUME NEW k \in 0 .. n
        PROVE  k * bits \in Nat /\ k * bits <= WordBits
    <3>1. k \in Nat /\ k <= n /\ bits <= bits
      BY <1>4
    <3> QED BY <1>2, <1>4, <3>1, Products
  <2>2. ASSUME NEW k \in 0 .. n
        PROVE  P[k] \in Nat \ {0}
    <3>1. k * bits \in 0 .. WordBits
      BY <1>2, <2>1
    <3> QED BY <1>2, <1>10, <3>1, PowerPositive
  <2>3. ASSUME NEW k \in 0 .. n - 1
        PROVE  P[k + 1] = P[k] * B
    <3>1. k \in 0 .. n /\ k + 1 \in 0 .. n /\ (k + 1) * bits = k * bits + bits
      BY <1>4
    <3>2. k * bits \in Nat /\ k * bits + bits <= WordBits
      BY <2>1, <3>1
    <3>3. 2 ^ (k * bits + bits) = 2 ^ (k * bits) * 2 ^ bits
      BY <1>2, <1>4, <3>2, PowerSum
    <3> QED BY <1>3, <1>10, <3>1, <3>3
  <2>4. P[0] = 1
    <3>1. 0 \in 0 .. n /\ 0 * bits = 0
      BY <1>4
    <3> QED BY <1>10, <3>1, PowersAssumption
  <2> QED BY <1>11, <2>2, <2>3, <2>4 DEF PiecesOf
<1>13. j \in 0 .. n - 1 /\ j \in 0 .. n
  BY <1>1, <1>4
<1>14. ((Total(f, 0 .. n - 1) \div P[j]) % B) = e[j]
  BY <1>4, <1>5, <1>12, <1>13, PieceBack
<1>15. P[j] = 2 ^ (j * bits)
  BY <1>10, <1>13
<1>16. PICK T : T = Total(f, 0 .. n - 1)
  OBVIOUS
<1>17. ((T \div 2 ^ (j * EntryBits(kind))) % 2 ^ EntryBits(kind)) = e[j]
  BY <1>1, <1>3, <1>14, <1>15, <1>16
<1>18. Unpacked(kind, T, j) = IF IsSignedKind(kind) THEN Signed(e[j], bits) ELSE e[j]
  BY <1>1, <1>17, Zenon DEF Unpacked
<1>19. Unpacked(kind, T, j) = Entry(m, r, x * n + j)
  BY <1>11, <1>13, <1>18
<1> QED BY <1>1, <1>6, <1>9, <1>16, <1>19

(***************************************************************************)
(* Rows of condensed matrices                                              *)
(***************************************************************************)

\* The products of the accumulators, lane by lane.
InLanes(F, n, blocks) ==
    [l \in 0 .. Lanes - 1 |->
        Total([b \in 0 .. blocks - 1 |-> PieceSum(F, n, b * Lanes + l)], 0 .. blocks - 1)]

\* The accumulators together add up every product once.
LEMMA LanesAdd ==
    ASSUME NEW n \in Nat \ {0}, NEW blocks \in Nat, NEW F,
           IntegerOver(F, 0 .. (blocks * Lanes) * n - 1)
    PROVE  Total(InLanes(F, n, blocks), 0 .. Lanes - 1)
               = Total(F, 0 .. (blocks * Lanes) * n - 1)
<1>1. Lanes \in Nat \ {0} /\ Lanes \in Nat
  BY MatricesAssumption
<1>2. PICK words : words = blocks * Lanes
  OBVIOUS
<1>3. words \in Nat
  BY <1>1, <1>2
<1>4. PICK G : G = [w \in 0 .. words - 1 |-> PieceSum(F, n, w)]
  OBVIOUS
<1>5. /\ Total(F, 0 .. words * n - 1) = Total(G, 0 .. words - 1)
      /\ \A w \in 0 .. words - 1 : PieceSum(F, n, w) \in Int
  BY <1>2, <1>3, <1>4, SumInPieces
<1>6. IntegerOver(G, 0 .. blocks * Lanes - 1)
  BY <1>2, <1>4, <1>5 DEF IntegerOver
<1>7. Total(G, 0 .. blocks * Lanes - 1)
          = Total([b \in 0 .. blocks - 1 |-> PieceSum(G, Lanes, b)], 0 .. blocks - 1)
  BY <1>1, <1>6, SumInPieces
<1>8. PICK H : H = [b \in 0 .. blocks - 1 |->
                       [l \in 0 .. Lanes - 1 |-> PieceSum(F, n, b * Lanes + l)]]
  OBVIOUS
<1>9. ASSUME NEW b \in 0 .. blocks - 1, NEW l \in 0 .. Lanes - 1
      PROVE  b * Lanes + l \in 0 .. words - 1
  BY <1>1, <1>2, PlaceInRow
<1>10. ASSUME NEW b \in 0 .. blocks - 1
       PROVE  /\ PieceSum(G, Lanes, b) = Total(H[b], 0 .. Lanes - 1)
              /\ IntegerOver(H[b], 0 .. Lanes - 1)
  <2>1. ASSUME NEW l \in 0 .. Lanes - 1
        PROVE  G[b * Lanes + l] = PieceSum(F, n, b * Lanes + l)
    BY <1>4, <1>9
  <2>2. PieceOf(G, Lanes, b) = H[b]
    BY <1>8, <2>1, Zenon DEF PieceOf
  <2>3. \A l \in 0 .. Lanes - 1 : H[b][l] = PieceSum(F, n, b * Lanes + l)
    BY <1>8
  <2>4. IntegerOver(H[b], 0 .. Lanes - 1)
    BY <1>5, <1>9, <2>3 DEF IntegerOver
  <2> QED BY <2>2, <2>4, Zenon DEF PieceSum
<1>11. IsFiniteSet(0 .. blocks - 1) /\ IsFiniteSet(0 .. Lanes - 1)
  <2>1. 0 \in Int /\ blocks - 1 \in Int /\ Lanes - 1 \in Int
    BY <1>1
  <2> QED BY <2>1, FS_Interval
<1>12. Total(Inner(H, 0 .. blocks - 1, 0 .. Lanes - 1), 0 .. blocks - 1)
           = Total(Across(H, 0 .. blocks - 1, 0 .. Lanes - 1), 0 .. Lanes - 1)
  BY <1>10, <1>11, Exchange
<1>13. Inner(H, 0 .. blocks - 1, 0 .. Lanes - 1) = [b \in 0 .. blocks - 1 |-> PieceSum(G, Lanes, b)]
  BY <1>10, Zenon DEF Inner
<1>14. Across(H, 0 .. blocks - 1, 0 .. Lanes - 1) = InLanes(F, n, blocks)
  <2>1. ASSUME NEW l \in 0 .. Lanes - 1
        PROVE  [b \in 0 .. blocks - 1 |-> H[b][l]]
                   = [b \in 0 .. blocks - 1 |-> PieceSum(F, n, b * Lanes + l)]
    <3>1. \A b \in 0 .. blocks - 1 : H[b][l] = PieceSum(F, n, b * Lanes + l)
      BY <1>8
    <3> QED BY <3>1, Zenon
  <2> QED BY <2>1, Zenon DEF Across, InLanes
<1> QED BY <1>2, <1>5, <1>7, <1>12, <1>13, <1>14, Zenon

\* Row r of a condensed matrix keeps the entries of row s of another.
HoldsRow(c, r, m, s, n, words) ==
    \A x \in 0 .. words - 1 : \A k \in 0 .. n - 1 :
        Unpacked(c.kind, c.data[r * words + x], k) = Entry(m, s, x * n + k)

RowProducts(m, s, vec) == [c \in 0 .. m.cols - 1 |-> Entry(m, s, c) * vec[c]]

RowProduct(m, s, vec) == Total(RowProducts(m, s, vec), 0 .. m.cols - 1)

\* What CondensedMultiply adds up for a row.
Accumulated(c, vec, r, n, blocks) ==
    SumOf(LAMBDA l : SumOf(LAMBDA b :
        SumOf(LAMBDA k : LaneProduct(c, vec, r, b, l, k), n), blocks), Lanes)

LEMMA AccumulatedIs ==
    ASSUME NEW c, NEW m, NEW vec, NEW r \in Nat, NEW s, NEW n \in Nat \ {0},
           NEW blocks \in Nat, Kinds[c.kind] = n,
           c.cols \div n = blocks * Lanes, m.cols = (blocks * Lanes) * n,
           HoldsRow(c, r, m, s, n, blocks * Lanes),
           IntegerOver(RowProducts(m, s, vec), 0 .. m.cols - 1)
    PROVE  Accumulated(c, vec, r, n, blocks) = RowProduct(m, s, vec)
<1>1. Lanes \in Nat \ {0} /\ Lanes \in Nat
  BY MatricesAssumption
<1>2. PICK words : words = blocks * Lanes
  OBVIOUS
<1>3. words \in Nat
  BY <1>1, <1>2
<1>4. PICK F : F = RowProducts(m, s, vec)
  OBVIOUS
<1>5. ASSUME NEW l \in 0 .. Lanes - 1, NEW b \in 0 .. blocks - 1
      PROVE  SumOf(LAMBDA k : LaneProduct(c, vec, r, b, l, k), n) = PieceSum(F, n, b * Lanes + l)
  <2>1. PICK w : w = b * Lanes + l
    OBVIOUS
  <2>2. w \in 0 .. words - 1
    BY <1>1, <1>2, <2>1, PlaceInRow
  <2>3. ASSUME NEW k \in 0 .. n - 1
        PROVE  LaneProduct(c, vec, r, b, l, k) = F[w * n + k]
    <3>1. w * n + k \in 0 .. m.cols - 1
      <4>1. words \in Nat \ {0} /\ m.cols = words * n
        BY <1>2, <1>3, <2>2
      <4> QED BY <2>2, <4>1, PlaceInRow
    <3>2. F[w * n + k] = Entry(m, s, w * n + k) * vec[w * n + k]
      BY <1>4, <3>1 DEF RowProducts
    <3>3. LaneProduct(c, vec, r, b, l, k)
              = Unpacked(c.kind, c.data[r * words + b * Lanes + l], k)
                * vec[b * n * Lanes + n * l + k]
      BY <1>2, Zenon DEF LaneProduct
    <3>4. r * words + b * Lanes + l = r * words + w /\ b * n * Lanes + n * l + k = w * n + k
      <4>1. PICK y, z : y = r * words /\ z = b * Lanes
        OBVIOUS
      <4>2. y \in Int /\ z \in Int /\ l \in Int /\ k \in Int /\ n \in Int /\ b \in Int
        BY <1>1, <1>3, <4>1
      <4>3. y + z + l = y + (z + l)
        BY <4>2
      <4>4. b * n * Lanes = z * n
        BY <1>1, <4>1, <4>2
      <4>5. z * n + n * l + k = (z + l) * n + k
        BY <4>2
      <4> QED BY <2>1, <4>1, <4>3, <4>4, <4>5, Zenon
    <3>5. Unpacked(c.kind, c.data[r * words + w], k) = Entry(m, s, w * n + k)
      BY <1>2, <2>2, Zenon DEF HoldsRow
    <3> QED BY <3>2, <3>3, <3>4, <3>5, Zenon
  <2>4. SumOf(LAMBDA k : LaneProduct(c, vec, r, b, l, k), n)
            = Total([k \in 0 .. n - 1 |-> LaneProduct(c, vec, r, b, l, k)], 0 .. n - 1)
    BY SumsOver, Zenon DEF SumOf
  <2>5. [k \in 0 .. n - 1 |-> LaneProduct(c, vec, r, b, l, k)] = PieceOf(F, n, w)
    BY <2>3, Zenon DEF PieceOf
  <2> QED BY <2>1, <2>4, <2>5, Zenon DEF PieceSum
<1>6. ASSUME NEW l \in 0 .. Lanes - 1
      PROVE  SumOf(LAMBDA b : SumOf(LAMBDA k : LaneProduct(c, vec, r, b, l, k), n), blocks)
                 = InLanes(F, n, blocks)[l]
  <2>1. SumOf(LAMBDA b : SumOf(LAMBDA k : LaneProduct(c, vec, r, b, l, k), n), blocks)
            = Total([b \in 0 .. blocks - 1 |->
                        SumOf(LAMBDA k : LaneProduct(c, vec, r, b, l, k), n)], 0 .. blocks - 1)
    BY SumsOver, Zenon DEF SumOf
  <2>2. [b \in 0 .. blocks - 1 |-> SumOf(LAMBDA k : LaneProduct(c, vec, r, b, l, k), n)]
            = [b \in 0 .. blocks - 1 |-> PieceSum(F, n, b * Lanes + l)]
    BY <1>5, Zenon
  <2> QED BY <2>1, <2>2, Zenon DEF InLanes
<1>7. Accumulated(c, vec, r, n, blocks)
          = Total([l \in 0 .. Lanes - 1 |-> SumOf(LAMBDA b :
                      SumOf(LAMBDA k : LaneProduct(c, vec, r, b, l, k), n), blocks)],
                  0 .. Lanes - 1)
  BY SumsOver, Zenon DEF Accumulated, SumOf
<1>8. [l \in 0 .. Lanes - 1 |-> SumOf(LAMBDA b :
          SumOf(LAMBDA k : LaneProduct(c, vec, r, b, l, k), n), blocks)] = InLanes(F, n, blocks)
  BY <1>6, Zenon DEF InLanes
<1>9. Total(InLanes(F, n, blocks), 0 .. Lanes - 1) = Total(F, 0 .. (blocks * Lanes) * n - 1)
  <2>1. IntegerOver(F, 0 .. (blocks * Lanes) * n - 1)
    BY <1>4
  <2> QED BY <2>1, LanesAdd
<1> QED BY <1>4, <1>7, <1>8, <1>9, Zenon DEF RowProduct

(***************************************************************************)
(* Words and stacks of matrices                                            *)
(***************************************************************************)

MatrixOf(kind, rows, cols, condensed, data) ==
    [kind |-> kind, rows |-> rows, cols |-> cols, condensed |-> condensed, data |-> data]

IsMatrix(m, kind, rows, cols) ==
    \E d : /\ m = MatrixOf(kind, rows, cols, FALSE, d)
           /\ Cardinality(DOMAIN d) = rows * cols

LEMMA MatrixFields ==
    ASSUME NEW kind, NEW rows, NEW cols, NEW condensed, NEW data, NEW m,
           m = MatrixOf(kind, rows, cols, condensed, data)
    PROVE  /\ m.kind = kind /\ m.rows = rows /\ m.cols = cols /\ m.condensed = condensed
           /\ m.data = data
  BY DEF MatrixOf

\* The words of a condensed matrix.
Condenses(c, m, kind, rows, cols, words) ==
    \E d : /\ c = MatrixOf(kind, rows, cols, TRUE, d)
           /\ Cardinality(DOMAIN d) = rows * words
           /\ \A r \in 0 .. rows - 1 : HoldsRow(c, r, m, r, Kinds[kind], words)

LEMMA CondensedIs ==
    ASSUME NEW kind \in DOMAIN Kinds, NEW rows \in Nat, NEW words \in Nat \ {0}, NEW cols,
           cols = words * Kinds[kind], NEW m, IsMatrix(m, kind, rows, cols), NEW c,
           c = CreateCondensed(m), EntriesInKind(m, kind)
    PROVE  Condenses(c, m, kind, rows, cols, words)
<1>0. PICK data : m = MatrixOf(kind, rows, cols, FALSE, data)
  BY DEF IsMatrix
<1>1. PICK n, bits : n = Kinds[kind] /\ bits = EntryBits(kind)
  OBVIOUS
<1>2. n \in Nat \ {0}
  BY <1>1, KindFacts
<1>3. m.kind = kind /\ m.rows = rows /\ m.cols = cols
  BY <1>0 DEF MatrixOf
<1>4. cols \div n = words
  <2>1. cols = n * words + 0 /\ cols \in Int /\ words \in Int /\ 0 \in 0 .. n - 1
    BY <1>1, <1>2
  <2> QED BY <1>2, <2>1, DivisionOf
<1>5. PICK d : d = [w \in 0 .. rows * words - 1 |->
                        Total(WordPieces(m, n, words, bits, w), 0 .. n - 1)]
  OBVIOUS
<1>6. ASSUME NEW w
      PROVE  SumOf(LAMBDA k : (Entry(m, w \div (m.cols \div Kinds[m.kind]),
                                     (w % (m.cols \div Kinds[m.kind])) * Kinds[m.kind] + k)
                               % 2 ^ EntryBits(m.kind)) * 2 ^ (k * EntryBits(m.kind)),
                   Kinds[m.kind])
                 = Total(WordPieces(m, n, words, bits, w), 0 .. n - 1)
  <2>1. SumOf(LAMBDA k : (Entry(m, w \div (m.cols \div Kinds[m.kind]),
                                (w % (m.cols \div Kinds[m.kind])) * Kinds[m.kind] + k)
                          % 2 ^ EntryBits(m.kind)) * 2 ^ (k * EntryBits(m.kind)),
              Kinds[m.kind])
            = Total(WordPieces(m, Kinds[m.kind], m.cols \div Kinds[m.kind], EntryBits(m.kind), w),
                    0 .. Kinds[m.kind] - 1)
    BY SumsOver, Zenon DEF SumOf, WordPieces
  <2>2. Kinds[m.kind] = n /\ m.cols \div Kinds[m.kind] = words /\ EntryBits(m.kind) = bits
    BY <1>1, <1>3, <1>4
  <2> QED BY <2>1, <2>2, Zenon
<1>7. c = [m EXCEPT !.condensed = TRUE, !.data = d]
  <2>1. PICK e : e = [w \in 0 .. m.rows * (m.cols \div Kinds[m.kind]) - 1 |->
                         SumOf(LAMBDA k : (Entry(m, w \div (m.cols \div Kinds[m.kind]),
                                                 (w % (m.cols \div Kinds[m.kind])) * Kinds[m.kind]
                                                 + k)
                                           % 2 ^ EntryBits(m.kind)) * 2 ^ (k * EntryBits(m.kind)),
                               Kinds[m.kind])]
    OBVIOUS
  <2>2. c = [m EXCEPT !.condensed = TRUE, !.data = e]
    BY <2>1, TabulatedIs, Zenon DEF CreateCondensed, Vector
  <2>3. m.rows * (m.cols \div Kinds[m.kind]) - 1 = rows * words - 1
    BY <1>1, <1>3, <1>4
  <2>4. e = d
    BY <1>5, <1>6, <2>1, <2>3, Zenon
  <2> QED BY <2>2, <2>4, Zenon
<1>8. c = MatrixOf(kind, rows, cols, TRUE, d)
  BY <1>0, <1>7 DEF MatrixOf
<1>9. Cardinality(DOMAIN d) = rows * words
  <2>1. PICK size : size = rows * words
    OBVIOUS
  <2>2. size \in Nat /\ DOMAIN d = 0 .. size - 1
    BY <1>5, <2>1
  <2>3. 0 \in Int /\ size - 1 \in Int
    BY <2>2
  <2>4. Cardinality(0 .. size - 1) = size
    BY <2>2, <2>3, FS_Interval
  <2> QED BY <2>1, <2>2, <2>4
<1>10. ASSUME NEW r \in 0 .. rows - 1
       PROVE  HoldsRow(c, r, m, r, n, words)
  <2>1. c.kind = kind /\ c.data = d
    BY <1>8 DEF MatrixOf
  <2>2. ASSUME NEW x \in 0 .. words - 1, NEW k \in 0 .. n - 1
        PROVE  Unpacked(kind, d[r * words + x], k) = Entry(m, r, x * n + k)
    <3>1. r * words + x \in 0 .. rows * words - 1
      <4>1. words \in Nat \ {0} /\ rows \in Nat \ {0} /\ r \in 0 .. rows - 1
        OBVIOUS
      <4> QED BY <4>1, PlaceInRow
    <3>2. d[r * words + x] = Total(WordPieces(m, n, words, bits, r * words + x), 0 .. n - 1)
      BY <1>5, <3>1
    <3>3. Unpacked(kind, Total(WordPieces(m, Kinds[kind], words, EntryBits(kind), r * words + x),
                               0 .. Kinds[kind] - 1), k)
              = Entry(m, r, x * Kinds[kind] + k)
      <4>1. m.cols = words * Kinds[kind] /\ r \in 0 .. m.rows - 1 /\ m.rows \in Nat
            /\ k \in 0 .. Kinds[kind] - 1
        BY <1>1, <1>3
      <4> QED BY <4>1, WordHolds
    <3> QED BY <1>1, <3>2, <3>3, Zenon
  <2> QED BY <2>1, <2>2 DEF HoldsRow
<1> QED BY <1>1, <1>8, <1>9, <1>10 DEF Condenses

\* One matrix on top of another.
IsArray(c, kind, rows, cols, condensed, d, size) ==
    c = MatrixOf(kind, rows, cols, condensed, d) /\ Cardinality(DOMAIN d) = size

Stacks(c, kind, rows, cols, condensed, d, e, size, rest) ==
    \E f : /\ c = MatrixOf(kind, rows, cols, condensed, f)
           /\ \A i \in 0 .. size - 1 : f[i] = d[i]
           /\ \A i \in 0 .. rest - 1 : f[size + i] = e[i]

LEMMA StackIs ==
    ASSUME NEW kind, NEW above, NEW below, NEW cols, NEW condensed, NEW d, NEW e,
           NEW size \in Nat, NEW rest \in Nat, NEW top, NEW bottom, NEW c,
           IsArray(top, kind, above, cols, condensed, d, size),
           IsArray(bottom, kind, below, cols, condensed, e, rest), c = Stack(top, bottom)
    PROVE  Stacks(c, kind, above + below, cols, condensed, d, e, size, rest)
<1>0. /\ top = MatrixOf(kind, above, cols, condensed, d)
      /\ bottom = MatrixOf(kind, below, cols, condensed, e)
      /\ Cardinality(DOMAIN d) = size /\ Cardinality(DOMAIN e) = rest
  BY DEF IsArray
<1>1. /\ top.rows = above /\ top.data = d /\ bottom.rows = below /\ bottom.data = e
  BY <1>0, MatrixFields
<1>2. PICK f : f = [i \in 0 .. (size + rest) - 1 |-> IF i < size THEN d[i] ELSE e[i - size]]
  OBVIOUS
<1>3. c = [top EXCEPT !.rows = above + below, !.data = f]
  <2>1. PICK g : g = [i \in 0 .. (Cardinality(DOMAIN top.data) + Cardinality(DOMAIN bottom.data)) - 1
                         |-> IF i < Cardinality(DOMAIN top.data) THEN top.data[i]
                             ELSE bottom.data[i - Cardinality(DOMAIN top.data)]]
    OBVIOUS
  <2>2. c = [top EXCEPT !.rows = top.rows + bottom.rows, !.data = g]
    <3>1. c = [top EXCEPT !.rows = top.rows + bottom.rows,
                  !.data = Vector(Cardinality(DOMAIN top.data) + Cardinality(DOMAIN bottom.data),
                      LAMBDA i : IF i < Cardinality(DOMAIN top.data) THEN top.data[i]
                                 ELSE bottom.data[i - Cardinality(DOMAIN top.data)])]
      BY Zenon DEF Stack
    <3>2. Vector(Cardinality(DOMAIN top.data) + Cardinality(DOMAIN bottom.data),
              LAMBDA i : IF i < Cardinality(DOMAIN top.data) THEN top.data[i]
                         ELSE bottom.data[i - Cardinality(DOMAIN top.data)]) = g
      BY <2>1, TabulatedIs, Zenon DEF Vector
    <3> QED BY <3>1, <3>2, Zenon
  <2>3. g = f
    BY <1>0, <1>1, <1>2, <2>1, Zenon
  <2> QED BY <1>1, <2>2, <2>3, Zenon
<1>4. c = MatrixOf(kind, above + below, cols, condensed, f)
  BY <1>0, <1>3 DEF MatrixOf
<1>5. ASSUME NEW i \in 0 .. size - 1
      PROVE  f[i] = d[i]
  <2>1. i \in 0 .. (size + rest) - 1 /\ i < size
    OBVIOUS
  <2> QED BY <1>2, <2>1
<1>6. ASSUME NEW i \in 0 .. rest - 1
      PROVE  f[size + i] = e[i]
  <2>1. size + i \in 0 .. (size + rest) - 1 /\ ~(size + i < size) /\ (size + i) - size = i
    OBVIOUS
  <2> QED BY <1>2, <2>1
<1> QED BY <1>4, <1>5, <1>6 DEF Stacks

LEMMA ConcatenateTwo ==
    ASSUME NEW top, NEW bottom
    PROVE  VerticalConcatenate(Vector(2, LAMBDA k : IF k = 0 THEN top ELSE bottom))
               = Stack(top, bottom)
<1>1. PICK ms : ms = [k \in 0 .. 2 - 1 |-> IF k = 0 THEN top ELSE bottom]
  OBVIOUS
<1>2. DOMAIN ms = {0, 1} /\ ms[0] = top /\ ms[1] = bottom
  BY <1>1
<1>3. Cardinality(DOMAIN ms) - 1 = 1
  <2>1. {0, 1} = 0 .. 1 /\ 0 \in Int /\ 1 \in Int
    OBVIOUS
  <2>2. Cardinality(0 .. 1) = IF 0 > 1 THEN 0 ELSE 1 - 0 + 1
    BY <2>1, FS_Interval
  <2>3. Cardinality(0 .. 1) = 2
    BY <2>2
  <2> QED BY <1>2, <2>1, <2>3
<1> DEFINE Body(h) == [k \in DOMAIN ms |-> IF k = 0 THEN ms[0] ELSE Stack(h[k - 1], ms[k])]
           upTo == CHOOSE h : h = Body(h)
<1>4. upTo = Body(upTo)
  <2>1. PICK h : h = [k \in {0, 1} |-> IF k = 0 THEN top ELSE Stack(top, bottom)]
    OBVIOUS
  <2>2. h[0] = top /\ h[1] = Stack(top, bottom)
    BY <2>1
  <2>3. \A k \in {0, 1} : (IF k = 0 THEN top ELSE Stack(top, bottom))
                              = (IF k = 0 THEN ms[0] ELSE Stack(h[k - 1], ms[k]))
    <3>1. 1 - 1 = 0 /\ 1 # 0
      OBVIOUS
    <3> QED BY <1>2, <2>2, <3>1
  <2>4. h = Body(h)
    BY <1>2, <2>1, <2>3, Zenon
  <2> HIDE DEF Body
  <2> QED BY <2>4, Zenon
<1>5. VerticalConcatenate(ms) = upTo[1]
  BY <1>3, Zenon DEF VerticalConcatenate
<1> HIDE DEF upTo
<1>6. upTo[0] = top
  BY <1>2, <1>4
<1>7. upTo[1] = Stack(upTo[0], bottom)
  <2>1. 1 \in DOMAIN ms /\ 1 # 0 /\ 1 - 1 = 0
    BY <1>2
  <2>2. upTo[1] = IF 1 = 0 THEN ms[0] ELSE Stack(upTo[1 - 1], ms[1])
    BY <1>4, <2>1
  <2> QED BY <1>2, <2>1, <2>2
<1>8. Vector(2, LAMBDA k : IF k = 0 THEN top ELSE bottom) = ms
  BY <1>1, TabulatedIs, Zenon DEF Vector
<1> QED BY <1>5, <1>6, <1>7, <1>8, Zenon

\* A word at least as wide as a coefficient keeps its low bits.
LEMMA WordCoeff ==
    ASSUME NEW x \in Int
    PROVE  ToCoeff(ToWord(x)) = ToCoeff(x)
<1>1. WordBits \in Nat /\ CoeffBits \in Nat \ {0} /\ CoeffBits <= WordBits
  BY MatricesAssumption, PolynomialsAssumption
<1>2. PowersUpTo(WordBits)
  BY <1>1, PowersAssumption DEF PowersUpTo
<1>3. PICK W, C, e : W = 2 ^ WordBits /\ C = 2 ^ CoeffBits /\ e = WordBits - CoeffBits
  OBVIOUS
<1>4. e \in Nat /\ CoeffBits + e = WordBits /\ e \in 0 .. WordBits /\ CoeffBits \in 0 .. WordBits
      /\ WordBits \in 0 .. WordBits /\ CoeffBits \in Nat
  BY <1>1, <1>3
<1>5. PICK E : E = 2 ^ e
  OBVIOUS
<1>6. W \in Nat \ {0} /\ C \in Nat \ {0} /\ E \in Nat \ {0}
  BY <1>1, <1>2, <1>3, <1>4, <1>5, PowerPositive
<1>7. W = C * E
  BY <1>1, <1>2, <1>3, <1>4, <1>5, PowerSum
<1>8. PICK q, y : q = x \div W /\ y = x % W
  OBVIOUS
<1>9. q \in Int /\ y \in Int /\ x = W * q + y
  BY <1>6, <1>8, Division
<1>10. x = y + C * (E * q) /\ E * q \in Int
  <2>1. (C * E) * q = C * (E * q) /\ E * q \in Int /\ C * (E * q) \in Int
    BY <1>6, <1>9
  <2> QED BY <1>7, <1>9, <2>1
<1>11. (y + C * (E * q)) % C = y % C
  BY <1>6, <1>9, <1>10, SameResidue
<1> QED BY <1>3, <1>8, <1>10, <1>11 DEF ToCoeff, ToWord

\* One row of a product with a condensed matrix.
RowCase(c, m, vec, rows, r, s, n, blocks) ==
    /\ c.rows = rows /\ c.cols = m.cols /\ c.condensed = TRUE
    /\ Kinds[c.kind] = n /\ m.cols = (blocks * Lanes) * n /\ HoldsRow(c, r, m, s, n, blocks * Lanes)
    /\ IntegerOver(RowProducts(m, s, vec), 0 .. m.cols - 1)
    /\ rows \in Nat /\ r \in 0 .. rows - 1 /\ n \in Nat \ {0} /\ blocks \in Nat

LEMMA CondensedRow ==
    ASSUME NEW c, NEW m, NEW vec, NEW rows, NEW r, NEW s, NEW n, NEW blocks,
           RowCase(c, m, vec, rows, r, s, n, blocks)
    PROVE  Multiply(c, vec)[r] = ToCoeff(RowProduct(m, s, vec))
<1>0. /\ c.rows = rows /\ c.cols = m.cols /\ c.condensed = TRUE
      /\ Kinds[c.kind] = n /\ m.cols = (blocks * Lanes) * n
      /\ HoldsRow(c, r, m, s, n, blocks * Lanes)
      /\ IntegerOver(RowProducts(m, s, vec), 0 .. m.cols - 1)
      /\ rows \in Nat /\ r \in 0 .. rows - 1 /\ n \in Nat \ {0} /\ blocks \in Nat
  BY DEF RowCase
<1>1. c.rows = rows /\ c.cols = m.cols /\ c.condensed = TRUE
  BY <1>0
<1>2. Lanes \in Nat \ {0} /\ Lanes \in Nat
  BY MatricesAssumption
<1>3. PICK words : words = blocks * Lanes
  OBVIOUS
<1>4. words \in Nat /\ words \in Int
  BY <1>0, <1>2, <1>3
<1>5. c.cols \div n = words /\ words \div Lanes = blocks
  <2>1. c.cols = n * words + 0 /\ c.cols \in Int /\ 0 \in 0 .. n - 1
    BY <1>0, <1>1, <1>3, <1>4
  <2>2. words = Lanes * blocks + 0 /\ 0 \in 0 .. Lanes - 1 /\ blocks \in Int
    BY <1>0, <1>2, <1>3
  <2> QED BY <1>0, <1>2, <1>4, <2>1, <2>2, DivisionOf
<1>6. PICK w : w = CondensedMultiply(c, vec)
  OBVIOUS
<1>7. w[r] = ToWord(Accumulated(c, vec, r, n, blocks))
  <2>1. w = [i \in 0 .. c.rows - 1 |->
                ToWord(Accumulated(c, vec, i, Kinds[c.kind],
                                   (c.cols \div Kinds[c.kind]) \div Lanes))]
    BY <1>6, TabulatedIs, Zenon DEF CondensedMultiply, Vector, Accumulated
  <2>2. w[r] = ToWord(Accumulated(c, vec, r, Kinds[c.kind],
                                  (c.cols \div Kinds[c.kind]) \div Lanes))
    BY <1>0, <1>1, <2>1, Zenon
  <2> QED BY <1>0, <1>5, <2>2, Zenon
<1>8. Accumulated(c, vec, r, n, blocks) = RowProduct(m, s, vec)
  <2>1. r \in Nat /\ c.cols \div n = blocks * Lanes
    BY <1>0, <1>3, <1>5
  <2> QED BY <1>0, <2>1, AccumulatedIs
<1>9. RowProduct(m, s, vec) \in Int
  <2>1. \A x \in 0 .. m.cols - 1 : RowProducts(m, s, vec)[x] \in Int
    BY <1>0 DEF IntegerOver
  <2>2. 0 \in Int /\ m.cols - 1 \in Int
    BY <1>0, <1>2, <1>3, <1>4
  <2>3. IsFiniteSet(0 .. m.cols - 1)
    BY <2>2, FS_Interval
  <2> QED BY <2>1, <2>3, SumWith DEF RowProduct
<1>10. Multiply(c, vec)[r] = ToCoeff(w[r])
  <2>1. Multiply(c, vec)
            = [i \in 0 .. c.rows - 1 |->
                  ToCoeff(IF c.condensed THEN w[i]
                          ELSE SumOf(LAMBDA x : ToCoeff(Entry(c, i, x) * vec[x]), c.cols))]
    BY <1>6, TabulatedIs, Zenon DEF Multiply, Vector
  <2>2. Multiply(c, vec)[r]
            = ToCoeff(IF c.condensed THEN w[r]
                      ELSE SumOf(LAMBDA x : ToCoeff(Entry(c, r, x) * vec[x]), c.cols))
    BY <1>0, <1>1, <2>1, Zenon
  <2> QED BY <1>1, <2>2, Zenon
<1> QED BY <1>7, <1>8, <1>9, <1>10, WordCoeff

\* One row of a product with a plain matrix.
LEMMA PlainRow ==
    ASSUME NEW c, NEW m, NEW vec, NEW r \in 0 .. c.rows - 1, NEW s, c.condensed = FALSE,
           c.cols = m.cols, m.cols \in Nat,
           \A x \in 0 .. m.cols - 1 : Entry(c, r, x) = Entry(m, s, x),
           IntegerOver(RowProducts(m, s, vec), 0 .. m.cols - 1)
    PROVE  Multiply(c, vec)[r] = ToCoeff(RowProduct(m, s, vec))
<1>1. PICK w : w = CondensedMultiply(c, vec)
  OBVIOUS
<1>2. Multiply(c, vec)[r] = ToCoeff(SumOf(LAMBDA x : ToCoeff(Entry(c, r, x) * vec[x]), c.cols))
  <2>1. Multiply(c, vec)
            = [i \in 0 .. c.rows - 1 |->
                  ToCoeff(IF c.condensed THEN w[i]
                          ELSE SumOf(LAMBDA x : ToCoeff(Entry(c, i, x) * vec[x]), c.cols))]
    BY <1>1, TabulatedIs, Zenon DEF Multiply, Vector
  <2>2. Multiply(c, vec)[r]
            = ToCoeff(IF c.condensed THEN w[r]
                      ELSE SumOf(LAMBDA x : ToCoeff(Entry(c, r, x) * vec[x]), c.cols))
    BY <2>1, Zenon
  <2> QED BY <2>2, Zenon
<1>3. PICK C : C = 0 .. m.cols - 1
  OBVIOUS
<1>4. PICK f : f = [x \in C |-> ToCoeff(Entry(m, s, x) * vec[x])]
  OBVIOUS
<1>5. SumOf(LAMBDA x : ToCoeff(Entry(c, r, x) * vec[x]), c.cols) = Total(f, C)
  <2>1. SumOf(LAMBDA x : ToCoeff(Entry(c, r, x) * vec[x]), c.cols)
            = Total([x \in 0 .. c.cols - 1 |-> ToCoeff(Entry(c, r, x) * vec[x])], 0 .. c.cols - 1)
    BY SumsOver, Zenon DEF SumOf
  <2>2. \A x \in C : Entry(c, r, x) = Entry(m, s, x)
    BY <1>3
  <2>3. [x \in C |-> ToCoeff(Entry(c, r, x) * vec[x])] = f
    BY <1>4, <2>2, Zenon
  <2>4. 0 .. c.cols - 1 = C
    BY <1>3
  <2> QED BY <2>1, <2>3, <2>4, Zenon
<1>6. PICK g : g = RowProducts(m, s, vec)
  OBVIOUS
<1>7. ASSUME NEW x \in C
      PROVE  Congruent(f[x], g[x])
  <2>1. g[x] = Entry(m, s, x) * vec[x] /\ g[x] \in Int
    BY <1>3, <1>6 DEF RowProducts, IntegerOver
  <2>2. f[x] = ToCoeff(g[x])
    BY <1>4, <2>1
  <2> QED BY <2>1, <2>2, CongruentRules
<1>8. IsFiniteSet(C)
  <2>1. 0 \in Int /\ m.cols - 1 \in Int
    OBVIOUS
  <2> QED BY <1>3, <2>1, FS_Interval
<1>9. Congruent(Total(f, C), Total(g, C))
  BY <1>7, <1>8, CongruentTotals
<1>10. ToCoeff(Total(f, C)) = ToCoeff(Total(g, C))
  BY <1>9, CongruentRules
<1> QED BY <1>2, <1>3, <1>5, <1>6, <1>10 DEF RowProduct

(***************************************************************************)
(* Products with stacked matrices                                          *)
(***************************************************************************)

LEMMA MultiplyShape ==
    ASSUME NEW c, NEW vec
    PROVE  Multiply(c, vec) = [r \in 0 .. c.rows - 1 |-> Multiply(c, vec)[r]]
<1>1. PICK w : w = CondensedMultiply(c, vec)
  OBVIOUS
<1>2. PICK f : f = [i \in 0 .. c.rows - 1 |->
                       ToCoeff(IF c.condensed THEN w[i]
                               ELSE SumOf(LAMBDA x : ToCoeff(Entry(c, i, x) * vec[x]), c.cols))]
  OBVIOUS
<1>3. Multiply(c, vec) = f
  BY <1>1, <1>2, TabulatedIs, Zenon DEF Multiply, Vector
<1>4. f = [r \in 0 .. c.rows - 1 |-> f[r]]
  BY <1>2
<1> QED BY <1>3, <1>4, Zenon

\* The products of a vector with the rows of two matrices.
ProductsOf(top, bottom, above, below, vec) ==
    [r \in 0 .. (above + below) - 1 |->
        IF r < above THEN ToCoeff(RowProduct(top, r, vec))
        ELSE ToCoeff(RowProduct(bottom, r - above, vec))]

IsVector(vec, cols) == Cardinality(DOMAIN vec) = cols /\ IntegerOver(vec, 0 .. cols - 1)

LEMMA ProductsAreIntegers ==
    ASSUME NEW kind \in DOMAIN Kinds, NEW rows \in Nat, NEW cols, NEW m, NEW vec,
           IsMatrix(m, kind, rows, cols), IsVector(vec, cols), EntriesInKind(m, kind),
           NEW r \in 0 .. rows - 1
    PROVE  IntegerOver(RowProducts(m, r, vec), 0 .. m.cols - 1)
<1>1. m.rows = rows /\ m.cols = cols
  BY DEF IsMatrix, MatrixOf
<1>2. ASSUME NEW x \in 0 .. m.cols - 1
      PROVE  RowProducts(m, r, vec)[x] \in Int
  <2>1. InKind(kind, Entry(m, r, x))
    BY <1>1 DEF EntriesInKind
  <2>2. Entry(m, r, x) \in Int
    BY <2>1, EntryBack
  <2>3. vec[x] \in Int
    BY <1>1 DEF IsVector, IntegerOver
  <2>4. RowProducts(m, r, vec)[x] = Entry(m, r, x) * vec[x]
    BY DEF RowProducts
  <2> QED BY <2>2, <2>3, <2>4
<1> QED BY <1>2 DEF IntegerOver

\* Condensed matrices, one on top of the other, multiply as the plain ones do.
LEMMA CondensedStack ==
    ASSUME NEW kind \in DOMAIN Kinds, NEW above \in Nat, NEW below \in Nat,
           NEW blocks \in Nat \ {0}, NEW cols, cols = (blocks * Lanes) * Kinds[kind],
           NEW top, IsMatrix(top, kind, above, cols), EntriesInKind(top, kind),
           NEW bottom, IsMatrix(bottom, kind, below, cols), EntriesInKind(bottom, kind),
           NEW vec, IsVector(vec, cols), NEW c,
           c = Stack(CreateCondensed(top), CreateCondensed(bottom))
    PROVE  /\ CanMultiply(c, vec)
           /\ Multiply(c, vec) = ProductsOf(top, bottom, above, below, vec)
<1>1. PICK n, words : n = Kinds[kind] /\ words = blocks * Lanes
  OBVIOUS
<1>2. n \in Nat \ {0} /\ Lanes \in Nat \ {0}
  BY <1>1, KindFacts, MatricesAssumption
<1>3. words \in Nat \ {0} /\ cols = words * n /\ cols \in Nat
  BY <1>1, <1>2
<1>4. PICK d : top = MatrixOf(kind, above, cols, FALSE, d) /\ Cardinality(DOMAIN d) = above * cols
  BY DEF IsMatrix
<1>5. PICK e : /\ bottom = MatrixOf(kind, below, cols, FALSE, e)
               /\ Cardinality(DOMAIN e) = below * cols
  BY DEF IsMatrix
<1>6. PICK a, b : a = CreateCondensed(top) /\ b = CreateCondensed(bottom)
  OBVIOUS
<1>7. PICK p : /\ a = MatrixOf(kind, above, cols, TRUE, p) /\ Cardinality(DOMAIN p) = above * words
               /\ \A r \in 0 .. above - 1 : HoldsRow(a, r, top, r, n, words)
  <2>1. cols = words * Kinds[kind]
    BY <1>1, <1>3
  <2>2. Condenses(a, top, kind, above, cols, words)
    BY <1>3, <1>6, <2>1, CondensedIs, Zenon
  <2> QED BY <1>1, <2>2 DEF Condenses
<1>8. PICK q : /\ b = MatrixOf(kind, below, cols, TRUE, q) /\ Cardinality(DOMAIN q) = below * words
               /\ \A r \in 0 .. below - 1 : HoldsRow(b, r, bottom, r, n, words)
  <2>1. cols = words * Kinds[kind]
    BY <1>1, <1>3
  <2>2. Condenses(b, bottom, kind, below, cols, words)
    BY <1>3, <1>6, <2>1, CondensedIs, Zenon
  <2> QED BY <1>1, <2>2 DEF Condenses
<1>9. PICK size, rest : size = above * words /\ rest = below * words
  OBVIOUS
<1>10. size \in Nat /\ rest \in Nat
  BY <1>3, <1>9
<1>11. PICK f : /\ c = MatrixOf(kind, above + below, cols, TRUE, f)
                /\ \A i \in 0 .. size - 1 : f[i] = p[i]
                /\ \A i \in 0 .. rest - 1 : f[size + i] = q[i]
  <2>1. c = Stack(a, b)
    BY <1>6
  <2>2. IsArray(a, kind, above, cols, TRUE, p, size) /\ IsArray(b, kind, below, cols, TRUE, q, rest)
    BY <1>7, <1>8, <1>9 DEF IsArray
  <2>3. Stacks(c, kind, above + below, cols, TRUE, p, q, size, rest)
    BY <1>10, <2>1, <2>2, StackIs, Zenon
  <2> QED BY <2>3 DEF Stacks
<1>12. /\ c.kind = kind /\ c.cols = cols /\ c.data = f /\ c.condensed = TRUE
       /\ c.rows = above + below
  BY <1>11 DEF MatrixOf
<1>13. /\ a.kind = kind /\ a.data = p /\ b.kind = kind /\ b.data = q
       /\ top.cols = cols /\ bottom.cols = cols
  BY <1>4, <1>5, <1>7, <1>8 DEF MatrixOf
<1>14. ASSUME NEW r \in 0 .. above - 1
       PROVE  HoldsRow(c, r, top, r, n, words)
  <2>1. ASSUME NEW x \in 0 .. words - 1, NEW k \in 0 .. n - 1
        PROVE  Unpacked(c.kind, c.data[r * words + x], k) = Entry(top, r, x * n + k)
    <3>1. r * words + x \in 0 .. size - 1
      <4>1. above \in Nat \ {0} /\ r \in 0 .. above - 1
        OBVIOUS
      <4> QED BY <1>3, <1>9, <4>1, PlaceInRow
    <3>2. Unpacked(a.kind, a.data[r * words + x], k) = Entry(top, r, x * n + k)
      BY <1>7 DEF HoldsRow
    <3>3. c.data[r * words + x] = a.data[r * words + x]
      BY <1>11, <1>12, <1>13, <3>1
    <3> QED BY <1>12, <1>13, <3>2, <3>3, Zenon
  <2> QED BY <2>1 DEF HoldsRow
<1>15. ASSUME NEW r \in 0 .. below - 1
       PROVE  HoldsRow(c, above + r, bottom, r, n, words)
  <2>1. ASSUME NEW x \in 0 .. words - 1, NEW k \in 0 .. n - 1
        PROVE  Unpacked(c.kind, c.data[(above + r) * words + x], k) = Entry(bottom, r, x * n + k)
    <3>1. r * words + x \in 0 .. rest - 1
      <4>1. below \in Nat \ {0} /\ r \in 0 .. below - 1
        OBVIOUS
      <4> QED BY <1>3, <1>9, <4>1, PlaceInRow
    <3>2. Unpacked(b.kind, b.data[r * words + x], k) = Entry(bottom, r, x * n + k)
      BY <1>8 DEF HoldsRow
    <3>3. (above + r) * words + x = size + (r * words + x)
      BY <1>3, <1>9
    <3>4. c.data[(above + r) * words + x] = b.data[r * words + x]
      BY <1>11, <1>12, <1>13, <3>1, <3>3
    <3> QED BY <1>12, <1>13, <3>2, <3>4, Zenon
  <2> QED BY <2>1 DEF HoldsRow
<1>16. ASSUME NEW r \in 0 .. (above + below) - 1
       PROVE  Multiply(c, vec)[r] = IF r < above THEN ToCoeff(RowProduct(top, r, vec))
                                    ELSE ToCoeff(RowProduct(bottom, r - above, vec))
  <2>1. Kinds[c.kind] = n
        /\ cols = (blocks * Lanes) * n /\ words = blocks * Lanes /\ blocks \in Nat
        /\ above + below \in Nat
    <3>1. above + below \in Nat /\ blocks \in Nat
      OBVIOUS
    <3> QED BY <1>1, <1>11, <1>12, <3>1, Zenon
  <2>2. CASE r < above
    <3>1. r \in 0 .. above - 1
      BY <2>2
    <3>2. IntegerOver(RowProducts(top, r, vec), 0 .. top.cols - 1)
      BY <3>1, ProductsAreIntegers
    <3>3. HoldsRow(c, r, top, r, n, blocks * Lanes)
      BY <1>1, <1>14, <3>1
    <3>4. c.rows = above + below /\ c.cols = top.cols /\ c.condensed = TRUE
          /\ top.cols = (blocks * Lanes) * n
      BY <1>12, <1>13, <2>1
    <3>5. Multiply(c, vec)[r] = ToCoeff(RowProduct(top, r, vec))
      <4>0. PICK rows : rows = above + below
        OBVIOUS
      <4>1. RowCase(c, top, vec, rows, r, r, n, blocks)
        <5>1. c.rows = rows /\ c.cols = top.cols /\ c.condensed = TRUE
          BY <3>4, <4>0
        <5>2. Kinds[c.kind] = n /\ top.cols = (blocks * Lanes) * n
          BY <2>1, <3>4
        <5>3. rows \in Nat /\ r \in 0 .. rows - 1 /\ n \in Nat \ {0} /\ blocks \in Nat
          BY <1>2, <2>1, <4>0
        <5> QED BY <3>2, <3>3, <5>1, <5>2, <5>3, Zenon DEF RowCase
      <4> QED BY <4>1, CondensedRow
    <3> QED BY <2>2, <3>5
  <2>3. CASE ~(r < above)
    <3>1. PICK s : s = r - above
      OBVIOUS
    <3>2. s \in 0 .. below - 1 /\ above + s = r
      BY <2>3, <3>1
    <3>3. IntegerOver(RowProducts(bottom, s, vec), 0 .. bottom.cols - 1)
      BY <3>2, ProductsAreIntegers
    <3>4. HoldsRow(c, r, bottom, s, n, blocks * Lanes)
      BY <1>1, <1>15, <3>2
    <3>5. c.rows = above + below /\ c.cols = bottom.cols /\ c.condensed = TRUE
          /\ bottom.cols = (blocks * Lanes) * n
      BY <1>12, <1>13, <2>1
    <3>6. Multiply(c, vec)[r] = ToCoeff(RowProduct(bottom, s, vec))
      <4>0. PICK rows : rows = above + below
        OBVIOUS
      <4>1. RowCase(c, bottom, vec, rows, r, s, n, blocks)
        <5>1. c.rows = rows /\ c.cols = bottom.cols /\ c.condensed = TRUE
          BY <3>5, <4>0
        <5>2. Kinds[c.kind] = n /\ bottom.cols = (blocks * Lanes) * n
          BY <2>1, <3>5
        <5>3. rows \in Nat /\ r \in 0 .. rows - 1 /\ n \in Nat \ {0} /\ blocks \in Nat
          BY <1>2, <2>1, <4>0
        <5> QED BY <3>3, <3>4, <5>1, <5>2, <5>3, Zenon DEF RowCase
      <4> QED BY <4>1, CondensedRow
    <3> QED BY <2>3, <3>1, <3>6
  <2> QED BY <2>2, <2>3
<1>17. Multiply(c, vec) = [r \in 0 .. (above + below) - 1 |-> Multiply(c, vec)[r]]
  <2>1. Multiply(c, vec) = [r \in 0 .. c.rows - 1 |-> Multiply(c, vec)[r]]
    BY MultiplyShape
  <2>2. 0 .. c.rows - 1 = 0 .. (above + below) - 1
    BY <1>12
  <2> QED BY <2>1, <2>2, Zenon
<1>18. Multiply(c, vec) = ProductsOf(top, bottom, above, below, vec)
  BY <1>16, <1>17, Zenon DEF ProductsOf
<1>19. CanMultiply(c, vec)
  <2>1. Cardinality(DOMAIN vec) = c.cols
    BY <1>12 DEF IsVector
  <2>2. cols = (n * Lanes) * blocks + 0 /\ n * Lanes \in Nat \ {0}
    <3>1. (blocks * Lanes) * n = (n * Lanes) * blocks /\ n * Lanes \in Nat \ {0}
          /\ (n * Lanes) * blocks \in Int
      BY <1>2
    <3> QED BY <1>1, <3>1
  <2>3. (cols % (n * Lanes)) = 0
    <3>1. PICK u : u = n * Lanes
      OBVIOUS
    <3>2. /\ u \in Nat \ {0} /\ cols = u * blocks + 0 /\ 0 \in 0 .. u - 1
          /\ cols \in Int /\ blocks \in Int
      BY <1>3, <2>2, <3>1
    <3> QED BY <3>1, <3>2, DivisionOf
  <2> QED BY <1>1, <1>12, <2>1, <2>3 DEF CanMultiply
<1> QED BY <1>18, <1>19

\* Plain matrices, one on top of the other.
LEMMA PlainStack ==
    ASSUME NEW kind \in DOMAIN Kinds, NEW above \in Nat, NEW below \in Nat, NEW cols \in Nat,
           NEW top, IsMatrix(top, kind, above, cols), EntriesInKind(top, kind),
           NEW bottom, IsMatrix(bottom, kind, below, cols), EntriesInKind(bottom, kind),
           NEW vec, IsVector(vec, cols), NEW c, c = Stack(top, bottom)
    PROVE  Multiply(c, vec) = ProductsOf(top, bottom, above, below, vec)
<1>1. PICK d : top = MatrixOf(kind, above, cols, FALSE, d) /\ Cardinality(DOMAIN d) = above * cols
  BY DEF IsMatrix
<1>2. PICK e : /\ bottom = MatrixOf(kind, below, cols, FALSE, e)
               /\ Cardinality(DOMAIN e) = below * cols
  BY DEF IsMatrix
<1>3. PICK size, rest : size = above * cols /\ rest = below * cols
  OBVIOUS
<1>4. size \in Nat /\ rest \in Nat
  BY <1>3
<1>5. PICK f : /\ c = MatrixOf(kind, above + below, cols, FALSE, f)
               /\ \A i \in 0 .. size - 1 : f[i] = d[i]
               /\ \A i \in 0 .. rest - 1 : f[size + i] = e[i]
  <2>1. IsArray(top, kind, above, cols, FALSE, d, size)
        /\ IsArray(bottom, kind, below, cols, FALSE, e, rest)
    BY <1>1, <1>2, <1>3 DEF IsArray
  <2>2. Stacks(c, kind, above + below, cols, FALSE, d, e, size, rest)
    BY <1>4, <2>1, StackIs, Zenon
  <2> QED BY <2>2 DEF Stacks
<1>6. /\ c.cols = cols /\ c.data = f /\ c.condensed = FALSE /\ c.rows = above + below
      /\ top.cols = cols /\ top.data = d /\ bottom.cols = cols /\ bottom.data = e
  BY <1>1, <1>2, <1>5 DEF MatrixOf
<1>7. ASSUME NEW r \in 0 .. (above + below) - 1
      PROVE  Multiply(c, vec)[r] = IF r < above THEN ToCoeff(RowProduct(top, r, vec))
                                   ELSE ToCoeff(RowProduct(bottom, r - above, vec))
  <2>1. r \in 0 .. c.rows - 1
    BY <1>6
  <2>2. CASE r < above
    <3>1. r \in 0 .. above - 1
      BY <2>2
    <3>2. IntegerOver(RowProducts(top, r, vec), 0 .. top.cols - 1)
      BY <3>1, ProductsAreIntegers
    <3>3. ASSUME NEW x \in 0 .. top.cols - 1
          PROVE  Entry(c, r, x) = Entry(top, r, x)
      <4>1. above \in Nat \ {0} /\ cols \in Nat \ {0} /\ x \in 0 .. cols - 1
        BY <1>6, <3>1
      <4>2. r * cols + x \in 0 .. size - 1
        BY <1>3, <3>1, <4>1, PlaceInRow
      <4> QED BY <1>5, <1>6, <4>2, Zenon DEF Entry
    <3>4. Multiply(c, vec)[r] = ToCoeff(RowProduct(top, r, vec))
      <4>1. c.condensed = FALSE /\ c.cols = top.cols /\ top.cols \in Nat
        BY <1>6
      <4> QED BY <2>1, <3>2, <3>3, <4>1, PlainRow, Zenon
    <3> QED BY <2>2, <3>4
  <2>3. CASE ~(r < above)
    <3>1. PICK s : s = r - above
      OBVIOUS
    <3>2. s \in 0 .. below - 1 /\ above + s = r
      BY <2>3, <3>1
    <3>3. IntegerOver(RowProducts(bottom, s, vec), 0 .. bottom.cols - 1)
      BY <3>2, ProductsAreIntegers
    <3>4. ASSUME NEW x \in 0 .. bottom.cols - 1
          PROVE  Entry(c, r, x) = Entry(bottom, s, x)
      <4>1. below \in Nat \ {0} /\ cols \in Nat \ {0} /\ x \in 0 .. cols - 1
        BY <1>6, <3>2
      <4>2. s * cols + x \in 0 .. rest - 1
        BY <1>3, <3>2, <4>1, PlaceInRow
      <4>3. r * cols + x = size + (s * cols + x)
        BY <1>3, <3>2, <4>1
      <4>4. f[size + (s * cols + x)] = e[s * cols + x]
        BY <1>5, <4>2, Zenon
      <4> QED BY <1>6, <4>3, <4>4, Zenon DEF Entry
    <3>5. Multiply(c, vec)[r] = ToCoeff(RowProduct(bottom, s, vec))
      <4>1. c.condensed = FALSE /\ c.cols = bottom.cols /\ bottom.cols \in Nat
        BY <1>6
      <4> QED BY <2>1, <3>3, <3>4, <4>1, PlainRow, Zenon
    <3> QED BY <2>3, <3>1, <3>5
  <2> QED BY <2>2, <2>3
<1>8. Multiply(c, vec) = [r \in 0 .. (above + below) - 1 |-> Multiply(c, vec)[r]]
  <2>1. Multiply(c, vec) = [r \in 0 .. c.rows - 1 |-> Multiply(c, vec)[r]]
    BY MultiplyShape
  <2>2. 0 .. c.rows - 1 = 0 .. (above + below) - 1
    BY <1>6
  <2> QED BY <2>1, <2>2, Zenon
<1> QED BY <1>7, <1>8, Zenon DEF ProductsOf

\* The range of the entries of a kind.
KindFrom(kind) == IF IsSignedKind(kind) THEN -(2 ^ (EntryBits(kind) - 1)) ELSE 0

LEMMA KindRange ==
    ASSUME NEW kind \in DOMAIN Kinds, NEW half, half = 2 ^ (EntryBits(kind) - 1)
    PROVE  /\ half \in Nat \ {0} /\ 2 ^ EntryBits(kind) = 2 * half
           /\ KindFrom(kind) \in Int
           /\ \A y \in 0 .. 2 * half - 1 : InKind(kind, KindFrom(kind) + y)
<1>1. PICK bits : bits = EntryBits(kind)
  OBVIOUS
<1>2. WordBits \in Nat /\ PowersUpTo(WordBits) /\ bits \in 1 .. WordBits
  BY <1>1, KindFacts
<1>3. PICK e : e = bits - 1
  OBVIOUS
<1>4. e \in 0 .. WordBits /\ 1 \in 0 .. WordBits /\ e + 1 = bits /\ bits \in 0 .. WordBits
      /\ e \in Nat /\ 1 \in Nat
  BY <1>2, <1>3
<1>5. half = 2 ^ (bits - 1)
  BY <1>1
<1>6. half \in Nat \ {0}
  BY <1>1, <1>2, <1>3, <1>4, PowerPositive
<1>7. 2 ^ bits = 2 * half
  BY <1>2, <1>5 DEF PowersUpTo
<1>8. 2 ^ EntryBits(kind) = 2 * half
  BY <1>1, <1>6, <1>7
<1>9. ASSUME NEW y \in 0 .. 2 * half - 1
      PROVE  KindFrom(kind) \in Int /\ InKind(kind, KindFrom(kind) + y)
  <2>1. PICK H, T : H = half /\ T = 2 ^ EntryBits(kind)
    OBVIOUS
  <2>2. 2 ^ (EntryBits(kind) - 1) = H /\ T = 2 * H /\ H \in Nat \ {0} /\ y \in 0 .. 2 * H - 1
    BY <1>6, <1>8, <2>1
  <2>3. CASE IsSignedKind(kind)
    <3>1. KindFrom(kind) = -H
      BY <2>2, <2>3 DEF KindFrom
    <3>2. -H + y \in Int /\ -H <= -H + y /\ -H + y < H
      BY <2>2
    <3>3. InKind(kind, -H + y)
      BY <2>2, <2>3, <3>2 DEF InKind
    <3> QED BY <2>2, <3>1, <3>3
  <2>4. CASE ~IsSignedKind(kind)
    <3>1. KindFrom(kind) = 0
      BY <2>4 DEF KindFrom
    <3>2. 0 + y \in 0 .. T - 1
      BY <2>2
    <3>3. InKind(kind, 0 + y)
      BY <2>1, <2>4, <3>2 DEF InKind
    <3> QED BY <3>1, <3>3
  <2> QED BY <2>3, <2>4
<1>10. 0 \in 0 .. 2 * half - 1
  BY <1>6
<1> QED BY <1>6, <1>8, <1>9, <1>10

LEMMA AnyMatrixInKind ==
    ASSUME NEW kind \in DOMAIN Kinds, NEW k \in Int, NEW rows \in Nat, NEW cols \in Nat,
           NEW half, half = 2 ^ (EntryBits(kind) - 1), NEW m,
           m = AnyMatrix(kind, k, rows, cols, KindFrom(kind), KindFrom(kind) + 2 * half)
    PROVE  IsMatrix(m, kind, rows, cols) /\ EntriesInKind(m, kind)
<1>1. PICK from, size : from = KindFrom(kind) /\ size = (KindFrom(kind) + 2 * half) - KindFrom(kind)
  OBVIOUS
<1>2. /\ half \in Nat \ {0} /\ from \in Int
      /\ \A y \in 0 .. 2 * half - 1 : InKind(kind, from + y)
  BY <1>1, KindRange
<1>3. size = 2 * half /\ size \in Nat \ {0}
  BY <1>1, <1>2
<1>4. PICK data : data = [x \in 0 .. rows * cols - 1 |-> from + Scattered(k + x, size)]
  OBVIOUS
<1>5. m = MatrixOf(kind, rows, cols, FALSE, data)
  <2>1. m = [kind |-> kind, rows |-> rows, cols |-> cols, condensed |-> FALSE,
             data |-> [x \in 0 .. rows * cols - 1 |->
                          KindFrom(kind)
                          + Scattered(k + x, (KindFrom(kind) + 2 * half) - KindFrom(kind))]]
    BY TabulatedIs, Zenon DEF AnyMatrix, Matrix, Vector
  <2>2. m = [kind |-> kind, rows |-> rows, cols |-> cols, condensed |-> FALSE, data |-> data]
    BY <1>1, <1>4, <2>1, Zenon
  <2> QED BY <2>2 DEF MatrixOf
<1>6. Cardinality(DOMAIN data) = rows * cols
  <2>1. PICK count : count = rows * cols
    OBVIOUS
  <2>2. count \in Nat /\ DOMAIN data = 0 .. count - 1
    BY <1>4, <2>1
  <2>3. 0 \in Int /\ count - 1 \in Int
    BY <2>2
  <2>4. Cardinality(0 .. count - 1) = count
    BY <2>2, <2>3, FS_Interval
  <2> QED BY <2>1, <2>2, <2>4
<1>7. m.rows = rows /\ m.cols = cols /\ m.data = data
  BY <1>5 DEF MatrixOf
<1>8. ASSUME NEW r \in 0 .. rows - 1, NEW c \in 0 .. cols - 1
      PROVE  InKind(kind, Entry(m, r, c))
  <2>1. PICK at : at = r * cols + c
    OBVIOUS
  <2>2. at \in 0 .. rows * cols - 1 /\ at \in Int
    <3>1. rows \in Nat \ {0} /\ cols \in Nat \ {0} /\ r \in 0 .. rows - 1
      OBVIOUS
    <3>2. at \in 0 .. rows * cols - 1
      BY <2>1, <3>1, PlaceInRow
    <3> QED BY <3>2
  <2>3. Entry(m, r, c) = from + Scattered(k + at, size)
    BY <1>4, <1>7, <2>1, <2>2, Zenon DEF Entry
  <2>4. k + at \in Int
    BY <2>2
  <2>5. Scattered(k + at, size) \in 0 .. size - 1
    BY <1>3, <2>4, ScatteredOf
  <2>6. InKind(kind, from + Scattered(k + at, size))
    BY <1>2, <1>3, <2>5
  <2> QED BY <2>3, <2>6, Zenon
<1> QED BY <1>5, <1>6, <1>7, <1>8 DEF IsMatrix, EntriesInKind

(***************************************************************************)
(* Condensed matrices agree with plain ones                                *)
(***************************************************************************)

\* Two matrices concatenated.
Stacked(above, below) == VerticalConcatenate(Vector(2, LAMBDA k : IF k = 0 THEN above ELSE below))

LEMMA StackedIs ==
    ASSUME NEW top, NEW bottom
    PROVE  Stacked(top, bottom) = Stack(top, bottom)
  BY ConcatenateTwo, Zenon DEF Stacked

\* Condensed matrices, one on top of the other, multiply as the plain ones they
\* were made from, and both give the products of the rows
\* (Matrix::CreateCondensed, Multiply and VerticalConcatenate), whatever the
\* kind, the entries of the matrices, their heights and the vector.
THEOREM CondensedProducts ==
    ASSUME NEW kind \in DOMAIN Kinds, NEW above \in Nat, NEW below \in Nat,
           NEW blocks \in Nat \ {0}, NEW cols, cols = (blocks * Lanes) * Kinds[kind],
           NEW top, IsMatrix(top, kind, above, cols), EntriesInKind(top, kind),
           NEW bottom, IsMatrix(bottom, kind, below, cols), EntriesInKind(bottom, kind),
           NEW vec, IsVector(vec, cols),
           NEW condensed, condensed = Stacked(CreateCondensed(top), CreateCondensed(bottom)),
           NEW stacked, stacked = Stacked(top, bottom)
    PROVE  /\ CanMultiply(condensed, vec)
           /\ Multiply(condensed, vec) = ProductsOf(top, bottom, above, below, vec)
           /\ Multiply(stacked, vec) = Multiply(condensed, vec)
<1>1. condensed = Stack(CreateCondensed(top), CreateCondensed(bottom))
  BY StackedIs, Zenon
<1>2. stacked = Stack(top, bottom)
  BY StackedIs, Zenon
<1>3. /\ CanMultiply(condensed, vec)
      /\ Multiply(condensed, vec) = ProductsOf(top, bottom, above, below, vec)
  BY <1>1, CondensedStack
<1>4. cols \in Nat
  <2>1. Lanes \in Nat /\ Kinds[kind] \in Nat
    BY MatricesAssumption, KindFacts
  <2> QED BY <2>1
<1>5. Multiply(stacked, vec) = ProductsOf(top, bottom, above, below, vec)
  BY <1>2, <1>4, PlainStack
<1> QED BY <1>3, <1>5

\* The products of the rows as the property states them.
LEMMA RowsOf ==
    ASSUME NEW m, NEW vec, NEW r, NEW cols, m.cols = cols
    PROVE  ToCoeff(SumOf(LAMBDA c : Entry(m, r, c) * vec[c], cols)) = ToCoeff(RowProduct(m, r, vec))
<1>1. SumOf(LAMBDA c : Entry(m, r, c) * vec[c], m.cols) = RowProduct(m, r, vec)
  BY SumsOver, Zenon DEF SumOf, RowProduct, RowProducts
<1> QED BY <1>1, Zenon

LEMMA AnyVectorIs ==
    ASSUME NEW k \in Int, NEW cols \in Nat, NEW vec,
           vec = Vector(cols, LAMBDA c : Scattered(k + c, Modulus))
    PROVE  IsVector(vec, cols)
<1>1. vec = [c \in 0 .. cols - 1 |-> Scattered(k + c, Modulus)]
  BY TabulatedIs, Zenon DEF Vector
<1>2. ASSUME NEW c \in 0 .. cols - 1
      PROVE  vec[c] \in Int
  <2>1. k + c \in Int
    OBVIOUS
  <2>2. Scattered(k + c, Modulus) \in 0 .. Modulus - 1
    BY <2>1, ModulusPositive, ScatteredOf
  <2>3. Scattered(k + c, Modulus) \in Int
    BY <2>2, ModulusPositive
  <2> QED BY <1>1, <2>3
<1>3. 0 \in Int /\ cols - 1 \in Int /\ DOMAIN vec = 0 .. cols - 1
  BY <1>1
<1>4. Cardinality(0 .. cols - 1) = cols
  <2>1. Cardinality(0 .. cols - 1) = IF 0 > cols - 1 THEN 0 ELSE (cols - 1) - 0 + 1
    BY <1>3, FS_Interval
  <2> QED BY <2>1
<1> QED BY <1>2, <1>3, <1>4 DEF IsVector, IntegerOver

\* What the property says of the matrices of one kind.
KindAgrees(kind, top, bottom, vec, cols) ==
    LET stacked == Stacked(top, bottom)
        condensed == Stacked(CreateCondensed(top), CreateCondensed(bottom))
        Row(m, r) == ToCoeff(SumOf(LAMBDA c : Entry(m, r, c) * vec[c], cols))
    IN  /\ CanMultiply(condensed, vec)
        /\ Multiply(condensed, vec)
               = Vector(5, LAMBDA r : IF r < 2 THEN Row(top, r) ELSE Row(bottom, r - 2))
        /\ Multiply(stacked, vec) = Multiply(condensed, vec)

LEMMA KindAgreesIs ==
    ASSUME NEW kind \in DOMAIN Kinds, NEW cols, cols = 2 * Kinds[kind] * Lanes,
           NEW top, IsMatrix(top, kind, 2, cols), EntriesInKind(top, kind),
           NEW bottom, IsMatrix(bottom, kind, 3, cols), EntriesInKind(bottom, kind),
           NEW vec, IsVector(vec, cols)
    PROVE  KindAgrees(kind, top, bottom, vec, cols)
<1>1. PICK above, below, blocks : above = 2 /\ below = 3 /\ blocks = 2
  OBVIOUS
<1>2. above \in Nat /\ below \in Nat /\ blocks \in Nat \ {0} /\ (above + below) - 1 = 5 - 1
  BY <1>1
<1>3. cols = (blocks * Lanes) * Kinds[kind]
  <2>1. Lanes \in Nat /\ Kinds[kind] \in Nat
    BY MatricesAssumption, KindFacts
  <2> QED BY <1>1, <2>1
<1>4. IsMatrix(top, kind, above, cols) /\ IsMatrix(bottom, kind, below, cols)
  BY <1>1
<1>5. PICK p : p = ProductsOf(top, bottom, above, below, vec)
  OBVIOUS
<1>6. PICK condensed, stacked : /\ condensed = Stacked(CreateCondensed(top), CreateCondensed(bottom))
                                /\ stacked = Stacked(top, bottom)
  OBVIOUS
<1>11. /\ CanMultiply(condensed, vec) /\ Multiply(condensed, vec) = p
       /\ Multiply(stacked, vec) = Multiply(condensed, vec)
  BY <1>2, <1>3, <1>4, <1>5, <1>6, CondensedProducts
<1>7. top.cols = cols /\ bottom.cols = cols
  BY <1>4 DEF IsMatrix, MatrixOf
<1>8. PICK f : f = [r \in 0 .. 5 - 1 |->
                       IF r < 2 THEN ToCoeff(SumOf(LAMBDA c : Entry(top, r, c) * vec[c], cols))
                       ELSE ToCoeff(SumOf(LAMBDA c : Entry(bottom, r - 2, c) * vec[c], cols))]
  OBVIOUS
<1>9. f = p
  <2>1. p = [r \in 0 .. 5 - 1 |-> IF r < 2 THEN ToCoeff(RowProduct(top, r, vec))
                                  ELSE ToCoeff(RowProduct(bottom, r - 2, vec))]
    BY <1>1, <1>2, <1>5, Zenon DEF ProductsOf
  <2>2. \A r : /\ ToCoeff(SumOf(LAMBDA c : Entry(top, r, c) * vec[c], cols))
                       = ToCoeff(RowProduct(top, r, vec))
               /\ ToCoeff(SumOf(LAMBDA c : Entry(bottom, r - 2, c) * vec[c], cols))
                       = ToCoeff(RowProduct(bottom, r - 2, vec))
    BY <1>7, RowsOf, Zenon
  <2> QED BY <1>8, <2>1, <2>2, Zenon
<1>10. Vector(5, LAMBDA r : IF r < 2
                            THEN ToCoeff(SumOf(LAMBDA c : Entry(top, r, c) * vec[c], cols))
                            ELSE ToCoeff(SumOf(LAMBDA c : Entry(bottom, r - 2, c) * vec[c], cols)))
           = p
  BY <1>8, <1>9, TabulatedIs, Zenon DEF Vector
<1>12. /\ CanMultiply(Stacked(CreateCondensed(top), CreateCondensed(bottom)), vec)
       /\ Multiply(Stacked(CreateCondensed(top), CreateCondensed(bottom)), vec) = p
       /\ Multiply(Stacked(top, bottom), vec)
              = Multiply(Stacked(CreateCondensed(top), CreateCondensed(bottom)), vec)
  BY <1>6, <1>11, Zenon
<1> QED BY <1>10, <1>12, Zenon DEF KindAgrees

\* In every case of the algorithms run, condensed matrices of every kind, alone
\* and stacked, multiply as the plain matrices they were made from.
THEOREM CondensedMatrices == Spec => []CondensedAgrees
<1>1. ASSUME case \in AllCases, case.op = "condensed", NEW kind \in DOMAIN Kinds,
             NEW half, half = 2 ^ (EntryBits(kind) - 1),
             NEW from, from = IF IsSignedKind(kind) THEN -half ELSE 0,
             NEW cols, cols = 2 * Kinds[kind] * Lanes,
             NEW top, top = AnyMatrix(kind, case.seed, 2, cols, from, from + 2 * half),
             NEW bottom,
             bottom = AnyMatrix(kind, case.seed * 3 + 100, 3, cols, from, from + 2 * half),
             NEW vec, vec = Vector(cols, LAMBDA c : Scattered(case.seed * 7 + c, Modulus))
      PROVE  KindAgrees(kind, top, bottom, vec, cols)
  <2>1. case.seed \in Int
    BY <1>1, SeededCase DEF SeededOps
  <2>2. case.seed * 3 + 100 \in Int /\ case.seed * 7 \in Int /\ 2 \in Nat /\ 3 \in Nat
    BY <2>1
  <2>3. cols \in Nat
    <3>1. Lanes \in Nat /\ Kinds[kind] \in Nat
      BY MatricesAssumption, KindFacts
    <3> QED BY <1>1, <3>1
  <2>4. from = KindFrom(kind)
    BY <1>1 DEF KindFrom
  <2>5. IsMatrix(top, kind, 2, cols) /\ EntriesInKind(top, kind)
    BY <1>1, <2>1, <2>2, <2>3, <2>4, AnyMatrixInKind
  <2>6. IsMatrix(bottom, kind, 3, cols) /\ EntriesInKind(bottom, kind)
    BY <1>1, <2>1, <2>2, <2>3, <2>4, AnyMatrixInKind
  <2>7. IsVector(vec, cols)
    BY <1>1, <2>2, <2>3, AnyVectorIs
  <2> QED BY <1>1, <2>5, <2>6, <2>7, KindAgreesIs
<1>2. case \in AllCases => CondensedAgrees
  <2> SUFFICES ASSUME case \in AllCases, case.op = "condensed", NEW kind \in DOMAIN Kinds
               PROVE  LET half == 2 ^ (EntryBits(kind) - 1)
                          from == IF IsSignedKind(kind) THEN -half ELSE 0
                          cols == 2 * Kinds[kind] * Lanes
                          top == AnyMatrix(kind, case.seed, 2, cols, from, from + 2 * half)
                          bottom == AnyMatrix(kind, case.seed * 3 + 100, 3, cols, from,
                                              from + 2 * half)
                          vec == Vector(cols, LAMBDA c : Scattered(case.seed * 7 + c, Modulus))
                      IN  KindAgrees(kind, top, bottom, vec, cols)
    BY Zenon DEF CondensedAgrees, KindAgrees, Stacked
  <2> QED BY <1>1, Zenon
<1> QED BY <1>2, CasesInvariant, PTL

(***************************************************************************)
(* Fourier transforms: their halves                                        *)
(***************************************************************************)

LEMMA ReverseIs ==
    ASSUME NEW n, NEW b
    PROVE  BitReverse(n, b)
               = Total([k \in 0 .. b - 1 |-> ((n \div 2 ^ k) % 2) * 2 ^ (b - 1 - k)], 0 .. b - 1)
  BY SumsOver, Zenon DEF BitReverse, SumOf

\* The last bit comes first.
LEMMA ReverseStep ==
    ASSUME NEW b \in Nat, PowersUpTo(b + 1), NEW n \in Nat, NEW u \in {0, 1}
    PROVE  BitReverse(2 * n + u, b + 1) = BitReverse(n, b) + u * 2 ^ b
<1>1. PICK f : f = [k \in 0 .. (b + 1) - 1 |->
                        (((2 * n + u) \div 2 ^ k) % 2) * 2 ^ ((b + 1) - 1 - k)]
  OBVIOUS
<1>2. PICK g : g = [k \in 0 .. b - 1 |-> ((n \div 2 ^ k) % 2) * 2 ^ (b - 1 - k)]
  OBVIOUS
<1>3. BitReverse(2 * n + u, b + 1) = Total(f, 0 .. (b + 1) - 1)
  BY <1>1, ReverseIs
<1>4. BitReverse(n, b) = Total(g, 0 .. b - 1)
  BY <1>2, ReverseIs
<1>5. 0 .. (b + 1) - 1 = 0 .. b
  OBVIOUS
<1>6. \A k \in 0 .. b : 2 ^ k \in Nat \ {0}
  <2>1. b + 1 \in Nat
    OBVIOUS
  <2> QED BY <2>1, PowerPositive
<1>7. f[0] = u * 2 ^ b
  <2>1. 2 ^ 0 = 1 /\ 2 ^ b \in Nat
    BY <1>6 DEF PowersUpTo
  <2>2. (b + 1) - 1 - 0 = b /\ 0 \in 0 .. (b + 1) - 1
    OBVIOUS
  <2>3. f[0] = (((2 * n + u) \div 1) % 2) * 2 ^ b
    BY <1>1, <2>1, <2>2
  <2>4. ((2 * n + u) \div 1) % 2 = u
    OBVIOUS
  <2> QED BY <2>3, <2>4
<1>8. ASSUME NEW k \in 0 .. b - 1
      PROVE  f[k + 1] = g[k] /\ g[k] \in Int
  <2>1. k + 1 \in 0 .. (b + 1) - 1 /\ k \in 0 .. b /\ b - 1 - k \in 0 .. b
        /\ (b + 1) - 1 - (k + 1) = b - 1 - k /\ k \in Nat
    OBVIOUS
  <2>2. f[k + 1] = (((2 * n + u) \div 2 ^ (k + 1)) % 2) * 2 ^ (b - 1 - k)
    BY <1>1, <2>1
  <2>3. g[k] = ((n \div 2 ^ k) % 2) * 2 ^ (b - 1 - k)
    BY <1>2
  <2>4. (2 * n + u) \div 2 ^ (k + 1) = n \div 2 ^ k /\ n \div 2 ^ k \in Int
    <3>1. PICK p \in Nat \ {0} : p = 2 ^ k
      BY <1>6, <2>1
    <3>2. 2 ^ (k + 1) = 2 * p
      <4>1. k + 1 \in 1 .. b + 1 /\ (k + 1) - 1 = k
        BY <2>1
      <4> QED BY <3>1, <4>1 DEF PowersUpTo
    <3>7. n \in Int
      OBVIOUS
    <3>3. /\ n \div p \in Int /\ (n % p) \in 0 .. p - 1 /\ n = p * (n \div p) + (n % p)
      BY <3>1, <3>7, Division
    <3>4. PICK q \in Int, r \in 0 .. p - 1 : q = n \div p /\ r = n % p
      BY <3>3
    <3>5. 2 * n + u = (2 * p) * q + (2 * r + u) /\ 2 * r + u \in 0 .. 2 * p - 1
          /\ 2 * p \in Nat \ {0} /\ 2 * n + u \in Int
      <4>1. n = p * q + r /\ p * q \in Int
        BY <3>3, <3>4
      <4>2. (2 * p) * q = 2 * (p * q)
        OBVIOUS
      <4> QED BY <4>1, <4>2
    <3>6. (2 * n + u) \div (2 * p) = q
      BY <3>5, DivisionOf
    <3> QED BY <3>1, <3>2, <3>4, <3>6
  <2>5. 2 ^ (b - 1 - k) \in Nat
    BY <1>6, <2>1
  <2>6. f[k + 1] = g[k]
    BY <2>2, <2>3, <2>4, Zenon
  <2>7. PICK x \in Int, c \in Nat : x = n \div 2 ^ k /\ c = 2 ^ (b - 1 - k)
    BY <2>4, <2>5
  <2>8. (x % 2) * c \in Int
    <3>1. (x % 2) \in Int
      OBVIOUS
    <3> QED BY <3>1
  <2>9. g[k] = (x % 2) * c
    BY <2>3, <2>7
  <2> QED BY <2>6, <2>8, <2>9
<1>9. PICK m : m = [k \in 0 .. b - 1 |-> k + 1]
  OBVIOUS
<1>10. Total(Renamed(f, m, 0 .. b - 1), 0 .. b - 1) = Total(f, 1 .. b)
  <2>1. IsFiniteSet(0 .. b - 1) /\ IsFiniteSet(1 .. b)
    BY FS_Interval
  <2>2. \A x \in 0 .. b - 1 : m[x] = x + 1 /\ m[x] \in 1 .. b
    BY <1>9
  <2>3. Injective(m, 0 .. b - 1)
    BY <2>2 DEF Injective
  <2>4. \A y \in 1 .. b : \E x \in 0 .. b - 1 : m[x] = y
    <3> SUFFICES ASSUME NEW y \in 1 .. b
                 PROVE  \E x \in 0 .. b - 1 : m[x] = y
      OBVIOUS
    <3>1. y - 1 \in 0 .. b - 1 /\ (y - 1) + 1 = y
      OBVIOUS
    <3> QED BY <2>2, <3>1
  <2>5. IntegerOver(f, 1 .. b)
    <3> SUFFICES ASSUME NEW y \in 1 .. b
                 PROVE  f[y] \in Int
      BY DEF IntegerOver
    <3>1. y - 1 \in 0 .. b - 1 /\ (y - 1) + 1 = y
      OBVIOUS
    <3> QED BY <1>8, <3>1
  <2>6. PICK S, R : S = 0 .. b - 1 /\ R = 1 .. b
    OBVIOUS
  <2>7. /\ IsFiniteSet(S) /\ IsFiniteSet(R) /\ Injective(m, S) /\ IntegerOver(f, R)
        /\ \A x \in S : m[x] \in R
        /\ \A y \in R : \E x \in S : m[x] = y
    BY <2>1, <2>2, <2>3, <2>4, <2>5, <2>6, Zenon
  <2>8. Total(Renamed(f, m, S), S) = Total(f, R)
    BY <2>7, Renaming
  <2> QED BY <2>6, <2>8, Zenon
<1>11. Renamed(f, m, 0 .. b - 1) = g
  <2>1. \A x \in 0 .. b - 1 : m[x] = x + 1
    BY <1>9
  <2>2. Renamed(f, m, 0 .. b - 1) = [x \in 0 .. b - 1 |-> f[m[x]]]
    BY DEF Renamed
  <2>3. g = [x \in 0 .. b - 1 |-> g[x]]
    BY <1>2
  <2>4. \A x \in 0 .. b - 1 : f[m[x]] = g[x]
    BY <1>8, <2>1
  <2> QED BY <2>2, <2>3, <2>4, Zenon
<1>12. Total(f, 0 .. b) = f[0] + Total(f, 1 .. b)
  <2>1. IsFiniteSet(0 .. b)
    BY FS_Interval
  <2>2. \A x \in 0 .. b : f[x] \in Int
    <3> SUFFICES ASSUME NEW x \in 0 .. b
                 PROVE  f[x] \in Int
      OBVIOUS
    <3>1. CASE x = 0
      <4>1. 2 ^ b \in Nat
        BY <1>6
      <4>2. u * 2 ^ b \in Int
        BY <4>1
      <4> QED BY <1>7, <3>1, <4>2
    <3>2. CASE x # 0
      <4>1. x - 1 \in 0 .. b - 1 /\ (x - 1) + 1 = x
        BY <3>2
      <4> QED BY <1>8, <4>1
    <3> QED BY <3>1, <3>2
  <2>3. 0 \in 0 .. b /\ (0 .. b) \ {0} = 1 .. b
    OBVIOUS
  <2>4. Total(f, 0 .. b) = f[0] + Total(f, (0 .. b) \ {0})
    BY <2>1, <2>2, <2>3, SumWith
  <2> QED BY <2>3, <2>4
<1>13. Total(g, 0 .. b - 1) \in Int
  <2>1. IsFiniteSet(0 .. b - 1)
    BY FS_Interval
  <2> QED BY <1>8, <2>1, SumWith
<1>14. u * 2 ^ b \in Int
  <2>1. 2 ^ b \in Nat
    BY <1>6
  <2> QED BY <2>1
<1>15. BitReverse(2 * n + u, b + 1) = f[0] + Total(g, 0 .. b - 1)
  BY <1>3, <1>5, <1>10, <1>11, <1>12
<1>16. Total(g, 0 .. b - 1) = BitReverse(n, b) /\ BitReverse(n, b) \in Int
  BY <1>4, <1>13
<1> QED BY <1>7, <1>14, <1>15, <1>16

LEMMA ReverseWithin ==
    ASSUME NEW L \in Nat, PowersUpTo(L)
    PROVE  /\ \A b \in 0 .. L : \A n \in 0 .. 2 ^ b - 1 : BitReverse(n, b) \in 0 .. 2 ^ b - 1
           /\ BitReverse(0, 0) = 0
<1> DEFINE T == {b \in Nat : b <= L =>
                    \A n \in 0 .. 2 ^ b - 1 : BitReverse(n, b) \in 0 .. 2 ^ b - 1}
<1>1. \A n : BitReverse(n, 0) = 0
  <2> SUFFICES ASSUME NEW n
               PROVE  BitReverse(n, 0) = 0
    OBVIOUS
  <2>1. PICK f : f = [k \in 0 .. 0 - 1 |-> ((n \div 2 ^ k) % 2) * 2 ^ (0 - 1 - k)]
    OBVIOUS
  <2>2. BitReverse(n, 0) = Total(f, 0 .. 0 - 1)
    BY <2>1, ReverseIs
  <2>3. 0 .. 0 - 1 = {} /\ IsFiniteSet({})
    BY FS_EmptySet
  <2> QED BY <2>2, <2>3, SumPick
<1>2. 0 \in T
  <2>1. 2 ^ 0 = 1
    BY DEF PowersUpTo
  <2> QED BY <1>1, <2>1
<1>3. ASSUME NEW b \in Nat, b \in T
      PROVE  b + 1 \in T
  <2> SUFFICES ASSUME b + 1 <= L, NEW n \in 0 .. 2 ^ (b + 1) - 1
               PROVE  BitReverse(n, b + 1) \in 0 .. 2 ^ (b + 1) - 1
    OBVIOUS
  <2>1. PICK p \in Nat \ {0} : p = 2 ^ b
    <3>1. b \in 0 .. L
      OBVIOUS
    <3> QED BY <3>1, PowerPositive
  <2>2. 2 ^ (b + 1) = 2 * p
    <3>1. b + 1 \in 1 .. L /\ (b + 1) - 1 = b
      OBVIOUS
    <3> QED BY <2>1, <3>1 DEF PowersUpTo
  <2>3. PICK q \in 0 .. p - 1, u \in {0, 1} : n = 2 * q + u
    <3>1. n \in 0 .. 2 * p - 1
      BY <2>2
    <3>2. n \div 2 \in 0 .. p - 1 /\ (n % 2) \in {0, 1} /\ n = 2 * (n \div 2) + (n % 2)
      BY <2>1, <3>1
    <3> QED BY <3>2
  <2>4. BitReverse(q, b) \in 0 .. p - 1
    <3>1. b <= L
      OBVIOUS
    <3> QED BY <1>3, <2>1, <2>3, <3>1
  <2>5. PowersUpTo(b + 1)
    <3>1. \A k \in 1 .. b + 1 : k \in 1 .. L
      OBVIOUS
    <3> QED BY <3>1 DEF PowersUpTo
  <2>6. q \in Nat
    BY <2>3
  <2>7. BitReverse(2 * q + u, b + 1) = BitReverse(q, b) + u * 2 ^ b
    BY <2>3, <2>5, <2>6, ReverseStep
  <2>8. BitReverse(n, b + 1) = BitReverse(q, b) + u * p
    BY <2>1, <2>3, <2>7
  <2> QED BY <2>1, <2>2, <2>3, <2>4, <2>8
<1> HIDE DEF T
<1>4. \A b \in Nat : b \in T
  BY <1>2, <1>3, NatInd
<1> QED BY <1>1, <1>4 DEF T

\* A sum over two sums, of the even and of the odd places.
LEMMA SumEvenOdd ==
    ASSUME NEW n \in Nat, NEW g, IntegerOver(g, 0 .. 2 * n - 1)
    PROVE  /\ Total(g, 0 .. 2 * n - 1)
                  = Total([i \in 0 .. n - 1 |-> g[2 * i]], 0 .. n - 1)
                    + Total([i \in 0 .. n - 1 |-> g[2 * i + 1]], 0 .. n - 1)
           /\ Total([i \in 0 .. n - 1 |-> g[2 * i]], 0 .. n - 1) \in Int
           /\ Total([i \in 0 .. n - 1 |-> g[2 * i + 1]], 0 .. n - 1) \in Int
<1>1. PICK e, o, h : /\ e = [i \in 0 .. n - 1 |-> g[2 * i]]
                     /\ o = [i \in 0 .. n - 1 |-> g[2 * i + 1]]
                     /\ h = [k \in 0 .. n - 1 |-> PieceSum(g, 2, k)]
  OBVIOUS
<1>2. n * 2 = 2 * n /\ 2 \in Nat \ {0}
  OBVIOUS
<1>3. Total(g, 0 .. 2 * n - 1) = Total(h, 0 .. n - 1)
  BY <1>1, <1>2, SumInPieces
<1>4. ASSUME NEW k \in 0 .. n - 1
      PROVE  e[k] \in Int /\ o[k] \in Int /\ h[k] = e[k] + o[k]
  <2>1. e[k] = g[2 * k] /\ o[k] = g[2 * k + 1] /\ h[k] = PieceSum(g, 2, k)
    BY <1>1
  <2>2. 2 * k \in 0 .. 2 * n - 1 /\ 2 * k + 1 \in 0 .. 2 * n - 1 /\ k * 2 = 2 * k /\ k \in Int
    OBVIOUS
  <2>3. g[2 * k] \in Int /\ g[2 * k + 1] \in Int
    BY <2>2 DEF IntegerOver
  <2>4. PICK f : f = [x \in 0 .. 2 - 1 |-> g[k * 2 + x]]
    OBVIOUS
  <2>5. f[0] = g[2 * k] /\ f[1] = g[2 * k + 1]
    <3>1. 0 \in 0 .. 2 - 1 /\ 1 \in 0 .. 2 - 1 /\ k * 2 + 0 = 2 * k /\ k * 2 + 1 = 2 * k + 1
      BY <2>2
    <3> QED BY <2>4, <3>1
  <2>6. PieceSum(g, 2, k) = Total(f, 0 .. 2 - 1)
    BY <2>4 DEF PieceSum, PieceOf
  <2>7. Total(f, 0 .. 2 - 1) = f[0] + f[1]
    <3>1. PICK run : run = [x \in 0 .. 2 |-> IF x = 0 THEN 0 ELSE IF x = 1 THEN f[0]
                                             ELSE f[0] + f[1]]
      OBVIOUS
    <3>2. run[0] = 0 /\ run[1] = f[0] /\ run[2] = f[0] + f[1]
      BY <3>1
    <3>3. RunningSums(run, f, 2)
      <4>1. \A x \in 0 .. 2 - 1 : x = 0 \/ x = 1
        OBVIOUS
      <4>2. 0 + 1 = 1 /\ 1 + 1 = 2
        OBVIOUS
      <4>3. run[0 + 1] = f[0] + run[0] /\ run[1 + 1] = f[1] + run[1] /\ f[0] \in Int /\ f[1] \in Int
        BY <2>3, <2>5, <3>2, <4>2
      <4> QED BY <3>2, <4>1, <4>3 DEF RunningSums
    <3> QED BY <3>2, <3>3, SumUpTo
  <2> QED BY <2>1, <2>3, <2>5, <2>6, <2>7
<1>5. IsFiniteSet(0 .. n - 1)
  BY FS_Interval
<1>6. Total(h, 0 .. n - 1) = Total(e, 0 .. n - 1) + Total(o, 0 .. n - 1)
  <2>1. \A k \in 0 .. n - 1 : e[k] \in Int /\ o[k] \in Int /\ h[k] = e[k] + o[k]
    BY <1>4
  <2>2. PICK K : K = 0 .. n - 1
    OBVIOUS
  <2>3. IsFiniteSet(K) /\ \A k \in K : e[k] \in Int /\ o[k] \in Int /\ h[k] = e[k] + o[k]
    BY <1>5, <2>1, <2>2, Zenon
  <2>4. Total(h, K) = Total(e, K) + Total(o, K)
    BY <2>3, SumOfTwo
  <2> QED BY <2>2, <2>4, Zenon
<1>7. Total(e, 0 .. n - 1) \in Int /\ Total(o, 0 .. n - 1) \in Int
  BY <1>4, <1>5, SumWith
<1> QED BY <1>1, <1>3, <1>6, <1>7

\* The terms of a transform of 2^k polynomials, every 2^b-th of c from place r
\* on, at the uth power of a root X^(e 2^b), and its value at X^m.
FourierTerms(c, k, b, e, r, u, m) ==
    [i \in 0 .. 2 ^ k - 1 |-> Ext(c[r + i * 2 ^ b], m - (e * 2 ^ b) * (i * u))]

Fourier(c, k, b, e, r, u, m) == Total(FourierTerms(c, k, b, e, r, u, m), 0 .. 2 ^ k - 1)

\* 2^(k + 1 + b) polynomials and a root whose 2^(k + 1 + b)th power is X^(2d), its
\* half X^d.
IsTransform(c, k, b, e) ==
    /\ k \in Nat /\ b \in Nat /\ e \in Int
    /\ PowersUpTo(k + 1 + b)
    /\ \A x \in 0 .. 2 ^ (k + 1 + b) - 1 : Numeric(c[x])
    /\ \E s \in Int : (s % 2) = 1 /\ (e * 2 ^ b) * 2 ^ k = s * Degree

\* H steps of Q are an odd number of half turns.
HalfTurns(H, s, Q) ==
    H \in Nat /\ s \in Int /\ (s % 2) = 1 /\ Q \in Int /\ Q * H = s * Degree

\* What becomes of the term of an even and of an odd place; w tells the half of
\* the transform.
PlacesTurn(H, Q, i, u, w, m, even, odd) ==
    /\ Ext(even, m - Q * ((2 * i) * (u + w * H))) = Ext(even, m - (2 * Q) * (i * u))
    /\ Ext(odd, m - Q * ((2 * i + 1) * (u + w * H)))
           = (IF w = 0 THEN 1 ELSE -1) * Ext(odd, (m - Q * u) - (2 * Q) * (i * u))
    /\ Ext(even, m - (2 * Q) * (i * u)) \in Int
    /\ Ext(odd, (m - Q * u) - (2 * Q) * (i * u)) \in Int
LEMMA FourierPlaces ==
    ASSUME NEW H, NEW s, NEW Q, HalfTurns(H, s, Q),
           NEW i \in Nat, NEW u \in Nat, NEW w \in {0, 1}, NEW m \in Int,
           NEW even, Numeric(even), NEW odd, Numeric(odd)
    PROVE  PlacesTurn(H, Q, i, u, w, m, even, odd)
<1>0. H \in Nat /\ s \in Int /\ (s % 2) = 1 /\ Q \in Int /\ Q * H = s * Degree
  BY DEF HalfTurns
<1>1. PICK z \in Int : z = i * u
  OBVIOUS
<1>2. PICK a \in Int, g \in Int : a = m - (2 * Q) * z /\ g = (m - Q * u) - (2 * Q) * z
  BY <1>0
<1>3. Degree \in Int
  BY PlacesAre
<1>4. m - Q * ((2 * i) * (u + w * H)) = a + (-(2 * (i * (w * s)))) * Degree
  <2>1. (2 * i) * (u + w * H) = 2 * z + (2 * (i * w)) * H
    BY <1>0, <1>1
  <2>2. Q * ((2 * i) * (u + w * H)) = (2 * Q) * z + (2 * (i * w)) * (Q * H)
    BY <1>0, <2>1
  <2>3. (2 * (i * w)) * (Q * H) = (2 * (i * (w * s))) * Degree
    BY <1>0, <1>3
  <2>4. PICK y \in Int : y = 2 * (i * (w * s))
    BY <1>0
  <2>5. y * Degree \in Int /\ (-y) * Degree = -(y * Degree) /\ (2 * Q) * z \in Int
    BY <1>0, <1>3
  <2>6. Q * ((2 * i) * (u + w * H)) = (2 * Q) * z + y * Degree
    BY <1>0, <2>2, <2>3, <2>4
  <2> QED BY <1>0, <1>2, <2>4, <2>5, <2>6
<1>5. m - Q * ((2 * i + 1) * (u + w * H)) = g + (-((2 * i + 1) * (w * s))) * Degree
  <2>1. (2 * i + 1) * (u + w * H) = 2 * z + u + ((2 * i + 1) * w) * H
    BY <1>0, <1>1
  <2>2. Q * ((2 * i + 1) * (u + w * H)) = (2 * Q) * z + Q * u + ((2 * i + 1) * w) * (Q * H)
    BY <1>0, <2>1
  <2>3. ((2 * i + 1) * w) * (Q * H) = ((2 * i + 1) * (w * s)) * Degree
    BY <1>0, <1>3
  <2>4. PICK y \in Int : y = (2 * i + 1) * (w * s)
    BY <1>0
  <2>5. y * Degree \in Int /\ (-y) * Degree = -(y * Degree) /\ (2 * Q) * z \in Int /\ Q * u \in Int
    BY <1>0, <1>3
  <2>6. Q * ((2 * i + 1) * (u + w * H)) = (2 * Q) * z + Q * u + y * Degree
    BY <1>0, <2>2, <2>3, <2>4
  <2> QED BY <1>0, <1>2, <2>4, <2>5, <2>6
<1>6. Sgn(-(2 * (i * (w * s)))) = 1 /\ -(2 * (i * (w * s))) \in Int
  <2>1. PICK y \in Int : y = i * (w * s)
    BY <1>0
  <2>2. (-(2 * y)) % 2 = 0
    BY <1>0
  <2> QED BY <2>1, <2>2 DEF Sgn
<1>7. /\ Sgn(-((2 * i + 1) * (w * s))) = IF w = 0 THEN 1 ELSE -1
      /\ -((2 * i + 1) * (w * s)) \in Int
  <2>1. CASE w = 0
    <3>1. -((2 * i + 1) * (w * s)) = 0
      BY <1>0, <2>1
    <3> QED BY <1>0, <2>1, <3>1, SgnOf
  <2>2. CASE w = 1
    <3>1. w * s = s
      BY <1>0, <2>2
    <3>2. Sgn(2 * i + 1) = -1
      <4>1. (2 * i + 1) % 2 = 1
        BY <1>0
      <4> QED BY <4>1 DEF Sgn
    <3>3. Sgn((2 * i + 1) * s) = -1
      <4>1. 2 * i + 1 \in Int
        BY <1>0
      <4> QED BY <3>2, <1>0, <4>1, SgnOf
    <3>4. PICK y \in Int : y = (2 * i + 1) * s
      BY <1>0
    <3>6. Sgn(y) = -1 /\ y \in Int
      BY <3>3, <3>4
    <3>5. Sgn(-y) = -1 /\ -y \in Int
      BY <3>6, SgnOf
    <3> QED BY <2>2, <3>1, <3>4, <3>5
  <2> QED BY <2>1, <2>2
<1>8. PICK p \in Int, q \in Int : p = -(2 * (i * (w * s))) /\ q = -((2 * i + 1) * (w * s))
  BY <1>6, <1>7
<1>9. Ext(even, a) \in Int /\ Ext(even, a + p * Degree) = Sgn(p) * Ext(even, a)
  BY ExtShift
<1>10. Ext(odd, g) \in Int /\ Ext(odd, g + q * Degree) = Sgn(q) * Ext(odd, g)
  BY ExtShift
<1>11. Ext(even, m - Q * ((2 * i) * (u + w * H))) = Ext(even, a)
  <2>1. m - Q * ((2 * i) * (u + w * H)) = a + p * Degree /\ Sgn(p) = 1
    BY <1>4, <1>6, <1>8
  <2> QED BY <1>9, <2>1
<1>12. Ext(odd, m - Q * ((2 * i + 1) * (u + w * H))) = (IF w = 0 THEN 1 ELSE -1) * Ext(odd, g)
  <2>1. /\ m - Q * ((2 * i + 1) * (u + w * H)) = g + q * Degree
        /\ Sgn(q) = IF w = 0 THEN 1 ELSE -1
    BY <1>5, <1>7, <1>8
  <2> QED BY <1>10, <2>1
<1> QED BY <1>1, <1>2, <1>9, <1>10, <1>11, <1>12, Zenon DEF PlacesTurn

\* A transform is the sum, or the difference, of those of its even and of its odd
\* places, the latter turned.
LEMMA FourierStep ==
    ASSUME NEW c, NEW k, NEW b, NEW e, IsTransform(c, k, b, e), NEW r \in 0 .. 2 ^ b - 1,
           NEW u \in 0 .. 2 ^ k - 1, NEW w \in {0, 1}, NEW m \in Int
    PROVE  /\ Fourier(c, k + 1, b, e, r, u + w * 2 ^ k, m)
                  = Fourier(c, k, b + 1, e, r, u, m)
                    + (IF w = 0 THEN 1 ELSE -1)
                      * Fourier(c, k, b + 1, e, r + 2 ^ b, u, m - (e * 2 ^ b) * u)
           /\ Fourier(c, k, b + 1, e, r, u, m) \in Int
           /\ Fourier(c, k, b + 1, e, r + 2 ^ b, u, m - (e * 2 ^ b) * u) \in Int
<1>1. k \in Nat /\ b \in Nat /\ e \in Int /\ PowersUpTo(k + 1 + b)
  BY DEF IsTransform
<1>2. PICK P \in Nat \ {0}, H \in Nat \ {0} : P = 2 ^ b /\ H = 2 ^ k
  <2>1. k + 1 + b \in Nat /\ k \in 0 .. k + 1 + b /\ b \in 0 .. k + 1 + b
    BY <1>1
  <2> QED BY <1>1, <2>1, PowerPositive
<1>3. 2 ^ (b + 1) = 2 * P /\ 2 ^ (k + 1) = 2 * H /\ 2 ^ (k + 1 + b) = (2 * H) * P
  <2>1. /\ b + 1 \in 1 .. k + 1 + b /\ (b + 1) - 1 = b
        /\ k + 1 \in 1 .. k + 1 + b /\ (k + 1) - 1 = k
        /\ k + 1 + b \in Nat /\ k + 1 \in Nat /\ (k + 1) + b = k + 1 + b
    BY <1>1
  <2>2. 2 ^ (b + 1) = 2 * P /\ 2 ^ (k + 1) = 2 * H
    BY <1>1, <1>2, <2>1 DEF PowersUpTo
  <2>3. 2 ^ ((k + 1) + b) = 2 ^ (k + 1) * 2 ^ b
    BY <1>1, <2>1, PowerSum
  <2> QED BY <1>2, <2>1, <2>2, <2>3
<1>4. PICK s \in Int : (s % 2) = 1 /\ (e * P) * H = s * Degree
  BY <1>2 DEF IsTransform
<1>5. PICK Q \in Int : Q = e * P
  BY <1>1, <1>2
<1>6. PICK g, a, o, v : /\ v = u + w * H
                        /\ g = FourierTerms(c, k + 1, b, e, r, v, m)
                        /\ a = FourierTerms(c, k, b + 1, e, r, u, m)
                        /\ o = FourierTerms(c, k, b + 1, e, r + P, u, m - Q * u)
  OBVIOUS
<1>7. /\ g = [i \in 0 .. 2 * H - 1 |-> Ext(c[r + i * P], m - Q * (i * v))]
      /\ a = [i \in 0 .. H - 1 |-> Ext(c[r + i * (2 * P)], m - (e * (2 * P)) * (i * u))]
      /\ o = [i \in 0 .. H - 1 |->
                 Ext(c[(r + P) + i * (2 * P)], (m - Q * u) - (e * (2 * P)) * (i * u))]
  BY <1>2, <1>3, <1>5, <1>6, Zenon DEF FourierTerms
<1>8. e * (2 * P) = 2 * Q
  BY <1>1, <1>5
<1>9. ASSUME NEW i \in 0 .. H - 1
      PROVE  /\ g[2 * i] = a[i] /\ a[i] \in Int
             /\ g[2 * i + 1] = (IF w = 0 THEN 1 ELSE -1) * o[i] /\ o[i] \in Int
  <2>1. /\ 2 * i \in 0 .. 2 * H - 1 /\ 2 * i + 1 \in 0 .. 2 * H - 1 /\ i \in Nat
        /\ r \in Nat /\ u \in Nat
    BY <1>2
  <2>2. PICK x, y : x = r + i * (2 * P) /\ y = (r + P) + i * (2 * P)
    OBVIOUS
  <2>3. r + (2 * i) * P = x /\ r + (2 * i + 1) * P = y
    BY <2>1, <2>2
  <2>4. Numeric(c[x]) /\ Numeric(c[y])
    <3>1. x \in 0 .. (2 * H) * P - 1 /\ y \in 0 .. (2 * H) * P - 1
      <4>1. PICK j \in Nat : j = (2 * i) * P
        BY <2>1
      <4>2. (2 * i + 2) * P <= (2 * H) * P
        <5>1. 2 * i + 2 \in Nat /\ 2 * H \in Nat /\ 2 * i + 2 <= 2 * H /\ P <= P
          BY <2>1
        <5> QED BY <5>1, Products
      <4>3. (2 * i + 2) * P = j + 2 * P /\ (2 * i + 1) * P = j + P /\ (2 * H) * P \in Int
        BY <2>1, <4>1
      <4>4. r < P
        BY <1>2
      <4> QED BY <2>1, <2>3, <4>1, <4>2, <4>3, <4>4
    <3> QED BY <1>3, <3>1 DEF IsTransform
  <2>5. /\ g[2 * i] = Ext(c[x], m - Q * ((2 * i) * v))
        /\ g[2 * i + 1] = Ext(c[y], m - Q * ((2 * i + 1) * v))
        /\ a[i] = Ext(c[x], m - (2 * Q) * (i * u))
        /\ o[i] = Ext(c[y], (m - Q * u) - (2 * Q) * (i * u))
    BY <1>7, <1>8, <2>1, <2>2, <2>3
  <2>6. H \in Nat /\ Q * H = s * Degree
    BY <1>4, <1>5
  <2>7. /\ Ext(c[x], m - Q * ((2 * i) * (u + w * H))) = Ext(c[x], m - (2 * Q) * (i * u))
        /\ Ext(c[y], m - Q * ((2 * i + 1) * (u + w * H)))
               = (IF w = 0 THEN 1 ELSE -1) * Ext(c[y], (m - Q * u) - (2 * Q) * (i * u))
        /\ Ext(c[x], m - (2 * Q) * (i * u)) \in Int
        /\ Ext(c[y], (m - Q * u) - (2 * Q) * (i * u)) \in Int
    <3>1. HalfTurns(H, s, Q)
      BY <1>4, <2>6 DEF HalfTurns
    <3>2. PlacesTurn(H, Q, i, u, w, m, c[x], c[y])
      BY <2>1, <2>4, <3>1, FourierPlaces
    <3> QED BY <3>2, Zenon DEF PlacesTurn
  <2> QED BY <1>6, <2>5, <2>7, Zenon
<1>10. PICK sg \in Int : sg = IF w = 0 THEN 1 ELSE -1
  OBVIOUS
<1>11. PICK K : K = 0 .. H - 1
  OBVIOUS
<1>12. IsFiniteSet(K)
  BY <1>11, FS_Interval
<1>13. PICK ge, go : /\ ge = [i \in 0 .. H - 1 |-> g[2 * i]]
                     /\ go = [i \in 0 .. H - 1 |-> g[2 * i + 1]]
  OBVIOUS
<1>14. Total(g, 0 .. 2 * H - 1) = Total(ge, K) + Total(go, K)
  <2>1. IntegerOver(g, 0 .. 2 * H - 1)
    <3> SUFFICES ASSUME NEW x \in 0 .. 2 * H - 1
                 PROVE  g[x] \in Int
      BY DEF IntegerOver
    <3>1. PICK i \in 0 .. H - 1 : x = 2 * i \/ x = 2 * i + 1
      <4>1. x \div 2 \in 0 .. H - 1 /\ (x = 2 * (x \div 2) \/ x = 2 * (x \div 2) + 1)
        OBVIOUS
      <4> QED BY <4>1
    <3>2. g[2 * i] \in Int
      BY <1>9
    <3>3. g[2 * i + 1] \in Int
      <4>1. g[2 * i + 1] = sg * o[i] /\ o[i] \in Int
        BY <1>9, <1>10
      <4>2. sg * o[i] \in Int
        BY <4>1
      <4> QED BY <4>1, <4>2
    <3> QED BY <3>1, <3>2, <3>3
  <2>2. H \in Nat
    OBVIOUS
  <2> QED BY <1>11, <1>13, <2>1, <2>2, SumEvenOdd
<1>15. Total(ge, K) = Total(a, K) /\ Total(ge, K) \in Int
  <2>1. \A i \in K : ge[i] = a[i] /\ ge[i] \in Int
    BY <1>9, <1>11, <1>13
  <2> QED BY <1>12, <2>1, TotalsEqual
<1>16. Total(go, K) = sg * Total(o, K) /\ Total(o, K) \in Int
  <2>1. IsMultiple(go, sg, o, K)
    <3> SUFFICES ASSUME NEW i \in K
                 PROVE  o[i] \in Int /\ go[i] = sg * o[i]
      BY DEF IsMultiple
    <3>1. i \in 0 .. H - 1
      BY <1>11
    <3> QED BY <1>9, <1>10, <1>13, <3>1
  <2> QED BY <1>12, <2>1, TimesTotal
<1>17. /\ Fourier(c, k + 1, b, e, r, v, m) = Total(g, 0 .. 2 * H - 1)
       /\ Fourier(c, k, b + 1, e, r, u, m) = Total(a, K)
       /\ Fourier(c, k, b + 1, e, r + P, u, m - Q * u) = Total(o, K)
  BY <1>2, <1>3, <1>6, <1>11, Zenon DEF Fourier
<1>18. /\ Fourier(c, k + 1, b, e, r, v, m)
              = Fourier(c, k, b + 1, e, r, u, m)
                + sg * Fourier(c, k, b + 1, e, r + P, u, m - Q * u)
       /\ Fourier(c, k, b + 1, e, r, u, m) \in Int
       /\ Fourier(c, k, b + 1, e, r + P, u, m - Q * u) \in Int
  BY <1>14, <1>15, <1>16, <1>17
<1> QED BY <1>2, <1>5, <1>6, <1>10, <1>18, Zenon

\* Equal modulo M.
Same(x, y, M) == x \in Int /\ y \in Int /\ \E k \in Int : x = y + M * k

LEMMA SameRules ==
    ASSUME NEW M \in Nat \ {0}
    PROVE  /\ \A x \in Int : Same(x, x, M) /\ Same(x % M, x, M)
           /\ \A x, y : Same(x, y, M) => x \in Int /\ y \in Int /\ Same(y, x, M)
           /\ \A x, y, z : Same(x, y, M) /\ Same(y, z, M) => Same(x, z, M)
<1>1. ASSUME NEW x \in Int
      PROVE  Same(x, x, M) /\ Same(x % M, x, M)
  <2>1. x = x + M * 0 /\ 0 \in Int
    OBVIOUS
  <2>2. x \div M \in Int /\ (x % M) \in 0 .. M - 1 /\ x = M * (x \div M) + (x % M)
    BY Division
  <2>3. PICK q \in Int, r \in Int : q = x \div M /\ r = x % M
    BY <2>2
  <2>4. r = x + M * (-q) /\ -q \in Int
    <3>1. M * (-q) = -(M * q) /\ M * q \in Int /\ x = M * q + r
      BY <2>2, <2>3
    <3> QED BY <3>1
  <2>5. Same(r, x, M)
    BY <2>4 DEF Same
  <2> QED BY <2>1, <2>3, <2>5 DEF Same
<1>2. ASSUME NEW x, NEW y, Same(x, y, M)
      PROVE  x \in Int /\ y \in Int /\ Same(y, x, M)
  <2>1. PICK k \in Int : x = y + M * k
    BY <1>2 DEF Same
  <2>2. x \in Int /\ y \in Int
    BY <1>2 DEF Same
  <2>3. y = x + M * (-k) /\ -k \in Int
    <3>1. M * (-k) = -(M * k) /\ M * k \in Int
      OBVIOUS
    <3> QED BY <2>1, <2>2, <3>1
  <2> QED BY <2>2, <2>3 DEF Same
<1>3. ASSUME NEW x, NEW y, NEW z, Same(x, y, M), Same(y, z, M)
      PROVE  Same(x, z, M)
  <2>1. PICK k \in Int : x = y + M * k
    BY <1>3 DEF Same
  <2>2. PICK l \in Int : y = z + M * l
    BY <1>3 DEF Same
  <2>3. x \in Int /\ y \in Int /\ z \in Int
    BY <1>3 DEF Same
  <2>4. x = z + M * (k + l) /\ k + l \in Int
    <3>1. M * (k + l) = M * k + M * l /\ M * k \in Int /\ M * l \in Int
      OBVIOUS
    <3> QED BY <2>1, <2>2, <2>3, <3>1
  <2> QED BY <2>3, <2>4 DEF Same
<1> QED BY <1>1, <1>2, <1>3

LEMMA SameSums ==
    ASSUME NEW M \in Nat \ {0}
    PROVE  /\ \A x, y, u, v : Same(x, y, M) /\ Same(u, v, M) =>
                  Same(x + u, y + v, M) /\ Same(x - u, y - v, M)
           /\ \A x, y : Same(x, y, M) => \A c \in Int : Same(c * x, c * y, M)
<1>1. ASSUME NEW x, NEW y, NEW u, NEW v, Same(x, y, M), Same(u, v, M)
      PROVE  Same(x + u, y + v, M) /\ Same(x - u, y - v, M)
  <2>1. PICK k \in Int : x = y + M * k
    BY <1>1 DEF Same
  <2>2. PICK l \in Int : u = v + M * l
    BY <1>1 DEF Same
  <2>3. x \in Int /\ y \in Int /\ u \in Int /\ v \in Int
    BY <1>1 DEF Same
  <2>4. /\ x + u = y + v + M * (k + l) /\ k + l \in Int
        /\ x - u = y - v + M * (k - l) /\ k - l \in Int
    <3>1. /\ M * (k + l) = M * k + M * l /\ M * k \in Int /\ M * l \in Int
          /\ M * (k - l) = M * k - M * l
      OBVIOUS
    <3> QED BY <2>1, <2>2, <2>3, <3>1
  <2>5. x + u \in Int /\ y + v \in Int /\ x - u \in Int /\ y - v \in Int
    BY <2>3
  <2> QED BY <2>4, <2>5 DEF Same
<1>2. ASSUME NEW x, NEW y, Same(x, y, M), NEW c \in Int
      PROVE  Same(c * x, c * y, M)
  <2>1. PICK k \in Int : x = y + M * k
    BY <1>2 DEF Same
  <2>2. x \in Int /\ y \in Int
    BY <1>2 DEF Same
  <2>3. c * x = c * y + M * (c * k) /\ c * k \in Int /\ c * x \in Int /\ c * y \in Int
    BY <2>1, <2>2
  <2> QED BY <2>3 DEF Same
<1> QED BY <1>1, <1>2

LEMMA SameTotals ==
    ASSUME NEW M \in Nat \ {0}, NEW S, IsFiniteSet(S), NEW f, NEW g,
           \A x \in S : Same(f[x], g[x], M)
    PROVE  Same(Total(f, S), Total(g, S), M)
<1>1. Combines(f, g, 0, g, M, S)
  <2> SUFFICES ASSUME NEW x \in S
               PROVE  Combined(f[x], g[x], 0, g[x], M)
    BY DEF Combines
  <2>1. f[x] \in Int /\ g[x] \in Int
    BY DEF Same
  <2>2. PICK k \in Int : f[x] = g[x] + M * k
    BY DEF Same
  <2>3. f[x] = g[x] + 0 * g[x] + M * k
    BY <2>1, <2>2
  <2> QED BY <2>1, <2>3 DEF Combined
<1>2. PICK F, G : F = Total(f, S) /\ G = Total(g, S)
  OBVIOUS
<1>3. Combined(F, G, 0, G, M)
  <2>1. 0 \in Int /\ M \in Int
    OBVIOUS
  <2> QED BY <1>1, <1>2, <2>1, CombinedTotals
<1>4. F \in Int /\ G \in Int
  BY <1>3 DEF Combined
<1>5. PICK k \in Int : F = G + 0 * G + M * k
  BY <1>3 DEF Combined
<1>6. F = G + M * k
  BY <1>4, <1>5
<1> QED BY <1>2, <1>4, <1>6 DEF Same

\* What is turned at its places is turned everywhere.
LEMMA SameExt ==
    ASSUME NEW M \in Nat \ {0}, NEW a, Numeric(a), NEW q, Numeric(q), NEW w \in Int,
           \A i \in Positions : Same(a[i], Ext(q, i - w), M), NEW m \in Int
    PROVE  Same(Ext(a, m), Ext(q, m - w), M)
<1>1. PICK E \in Int, i \in Positions : m = E * Degree + i
  BY Places
<1>2. Ext(a, m) = Sgn(E) * a[i]
  BY <1>1, ExtAt
<1>3. i - w \in Int /\ m - w = (i - w) + E * Degree
  <2>1. i \in Int /\ Degree \in Int
    BY PlacesAre
  <2>2. E * Degree \in Int
    BY <2>1
  <2> QED BY <1>1, <2>1, <2>2
<1>4. PICK x : x = i - w
  OBVIOUS
<1>5. Ext(q, x + E * Degree) = Sgn(E) * Ext(q, x)
  BY <1>3, <1>4, ExtShift
<1>6. Sgn(E) \in Int
  BY SgnOf
<1>7. Same(Sgn(E) * a[i], Sgn(E) * Ext(q, x), M)
  BY <1>4, <1>6, SameSums
<1> QED BY <1>2, <1>3, <1>4, <1>5, <1>7

\* The same for sums and differences of what is turned.
LEMMA SameExtSum ==
    ASSUME NEW M \in Nat \ {0}, NEW sg \in {1, -1}, NEW h, Numeric(h), NEW a, Numeric(a),
           NEW q, Numeric(q), NEW w \in Int,
           \A i \in Positions : Same(h[i], a[i] + sg * Ext(q, i - w), M), NEW m \in Int
    PROVE  Same(Ext(h, m), Ext(a, m) + sg * Ext(q, m - w), M)
<1>1. PICK E \in Int, i \in Positions : m = E * Degree + i
  BY Places
<1>2. Ext(h, m) = Sgn(E) * h[i] /\ Ext(a, m) = Sgn(E) * a[i] /\ a[i] \in Int
  BY <1>1, ExtAt DEF Numeric
<1>3. i - w \in Int /\ m - w = (i - w) + E * Degree
  <2>1. i \in Int /\ Degree \in Int
    BY PlacesAre
  <2>2. E * Degree \in Int
    BY <2>1
  <2> QED BY <1>1, <2>1, <2>2
<1>4. PICK x : x = i - w
  OBVIOUS
<1>5. Ext(q, x + E * Degree) = Sgn(E) * Ext(q, x) /\ Ext(q, x) \in Int
  BY <1>3, <1>4, ExtShift
<1>6. Sgn(E) \in Int
  BY SgnOf
<1>7. Same(Sgn(E) * h[i], Sgn(E) * (a[i] + sg * Ext(q, x)), M)
  BY <1>4, <1>6, SameSums
<1>8. Sgn(E) * (a[i] + sg * Ext(q, x)) = Sgn(E) * a[i] + sg * (Sgn(E) * Ext(q, x))
  BY <1>2, <1>5, <1>6
<1> QED BY <1>2, <1>3, <1>4, <1>5, <1>7, <1>8

\* A transform of 2^L polynomials at the powers of X^e, a root of unity.
Transforms(c, L, e) ==
    /\ L \in Nat /\ PowersUpTo(L) /\ e \in Int
    /\ \A x \in 0 .. 2 ^ L - 1 : Numeric(c[x])
    /\ L # 0 => \E s \in Int : (s % 2) = 1 /\ e * 2 ^ (L - 1) = s * Degree

\* What stage k has at place u of block n.
StageAt(S, c, L, e, k, M, n, u) ==
    /\ Numeric(S[n * 2 ^ k + u])
    /\ \A m \in Int : Same(Ext(S[n * 2 ^ k + u], m),
                           Fourier(c, k, L - k, e, BitReverse(n, L - k), u, m), M)

StageIs(S, c, L, e, k, M) ==
    \A n \in 0 .. 2 ^ (L - k) - 1 : \A u \in 0 .. 2 ^ k - 1 : StageAt(S, c, L, e, k, M, n, u)

\* One stage after another: places 2^k apart are added and subtracted, the second
\* one turned.
ButterflyAt(S, R, L, k, e, M, x) ==
    /\ Numeric(R[x])
    /\ \A m \in Int :
          /\ (x % (2 * 2 ^ k)) < 2 ^ k =>
                 Same(Ext(R[x], m),
                      Ext(S[x], m)
                      + 1 * Ext(S[x + 2 ^ k], m - (e * 2 ^ (L - k - 1)) * (x % (2 * 2 ^ k))), M)
          /\ ~((x % (2 * 2 ^ k)) < 2 ^ k) =>
                 Same(Ext(R[x], m),
                      Ext(S[x - 2 ^ k], m)
                      + (-1) * Ext(S[x], m - (e * 2 ^ (L - k - 1)) * ((x % (2 * 2 ^ k)) - 2 ^ k)),
                      M)

IsButterfly(S, R, L, k, e, M) ==
    \A x \in 0 .. 2 ^ L - 1 : ButterflyAt(S, R, L, k, e, M, x)

LEMMA TransformOf ==
    ASSUME NEW c, NEW L, NEW e, Transforms(c, L, e), NEW k \in 0 .. L - 1
    PROVE  /\ IsTransform(c, k, L - k - 1, e)
           /\ L - k - 1 \in Nat /\ (L - k - 1) + 1 = L - k /\ k \in Nat /\ L \in Nat
           /\ PowersUpTo(L)
           /\ 2 ^ k \in Nat \ {0} /\ 2 ^ (L - k - 1) \in Nat \ {0}
           /\ 2 ^ (k + 1) = 2 * 2 ^ k /\ 2 ^ (L - k) = 2 * 2 ^ (L - k - 1)
           /\ 2 ^ L = 2 ^ (L - k - 1) * (2 * 2 ^ k)
<1>1. L \in Nat /\ PowersUpTo(L) /\ e \in Int
  BY DEF Transforms
<1>2. PICK b \in Nat : b = L - k - 1
  BY <1>1
<1>3. /\ k \in Nat /\ k \in 0 .. L /\ b \in 0 .. L /\ b + 1 = L - k /\ k + 1 + b = L
      /\ b + k = L - 1 /\ b + (k + 1) = L /\ k + 1 \in Nat /\ L # 0
      /\ k + 1 \in 1 .. L /\ b + 1 \in 1 .. L /\ (k + 1) - 1 = k /\ (b + 1) - 1 = b
  BY <1>1, <1>2
<1>4. 2 ^ k \in Nat \ {0} /\ 2 ^ b \in Nat \ {0}
  BY <1>1, <1>3, PowerPositive
<1>5. 2 ^ (k + 1) = 2 * 2 ^ k /\ 2 ^ (b + 1) = 2 * 2 ^ b
  BY <1>1, <1>3 DEF PowersUpTo
<1>6. 2 ^ L = 2 ^ b * 2 ^ (k + 1)
  <2>1. b + (k + 1) <= L
    BY <1>3
  <2>2. 2 ^ (b + (k + 1)) = 2 ^ b * 2 ^ (k + 1)
    BY <1>1, <1>2, <1>3, <2>1, PowerSum
  <2> QED BY <1>3, <2>2
<1>7. 2 ^ (L - 1) = 2 ^ b * 2 ^ k
  <2>1. b + k <= L
    BY <1>3
  <2>2. 2 ^ (b + k) = 2 ^ b * 2 ^ k
    BY <1>1, <1>2, <1>3, <2>1, PowerSum
  <2> QED BY <1>3, <2>2
<1>8. PICK s \in Int : (s % 2) = 1 /\ e * 2 ^ (L - 1) = s * Degree
  BY <1>3 DEF Transforms
<1>9. (e * 2 ^ b) * 2 ^ k = s * Degree
  <2>1. PICK x \in Int, y \in Int : x = 2 ^ b /\ y = 2 ^ k
    BY <1>4
  <2>2. e * (x * y) = (e * x) * y
    BY <1>1
  <2> QED BY <1>7, <1>8, <2>1, <2>2
<1>10. IsTransform(c, k, b, e)
  BY <1>1, <1>2, <1>3, <1>8, <1>9 DEF IsTransform, Transforms
<1> QED BY <1>1, <1>2, <1>3, <1>4, <1>5, <1>6, <1>10

LEMMA StageStep ==
    ASSUME NEW c, NEW L, NEW e, Transforms(c, L, e), NEW k \in 0 .. L - 1, NEW M \in Nat \ {0},
           NEW S, NEW R, StageIs(S, c, L, e, k, M), IsButterfly(S, R, L, k, e, M)
    PROVE  StageIs(R, c, L, e, k + 1, M)
<1>1. /\ IsTransform(c, k, L - k - 1, e)
      /\ L - k - 1 \in Nat /\ (L - k - 1) + 1 = L - k /\ k \in Nat /\ L \in Nat
      /\ PowersUpTo(L)
      /\ 2 ^ k \in Nat \ {0} /\ 2 ^ (L - k - 1) \in Nat \ {0}
      /\ 2 ^ (k + 1) = 2 * 2 ^ k /\ 2 ^ (L - k) = 2 * 2 ^ (L - k - 1)
      /\ 2 ^ L = 2 ^ (L - k - 1) * (2 * 2 ^ k)
  BY TransformOf
<1>2. PICK b \in Nat, H \in Nat \ {0}, P \in Nat \ {0} :
          b = L - k - 1 /\ H = 2 ^ k /\ P = 2 ^ b
  BY <1>1
<1>3. L - (k + 1) = b /\ b + 1 = L - k
  BY <1>1, <1>2
<1>4. PICK Q \in Int : Q = e * P
  BY <1>2 DEF Transforms
<1> SUFFICES ASSUME NEW n \in 0 .. 2 ^ (L - (k + 1)) - 1, NEW v \in 0 .. 2 ^ (k + 1) - 1
             PROVE  StageAt(R, c, L, e, k + 1, M, n, v)
  BY DEF StageIs
<1>5. n \in 0 .. P - 1 /\ v \in 0 .. 2 * H - 1 /\ n \in Nat
  BY <1>1, <1>2, <1>3
<1>6. PICK w \in {0, 1}, u \in 0 .. H - 1 : v = u + w * H
  <2>1. CASE v < H
    <3>1. v \in 0 .. H - 1 /\ v = v + 0 * H /\ 0 \in {0, 1}
      BY <1>5, <2>1
    <3> QED BY <3>1
  <2>2. CASE ~(v < H)
    <3>1. v - H \in 0 .. H - 1 /\ v = (v - H) + 1 * H /\ 1 \in {0, 1}
      BY <1>5, <2>2
    <3> QED BY <3>1
  <2> QED BY <2>1, <2>2
<1>7. PICK r \in 0 .. P - 1 : r = BitReverse(n, b)
  <2>1. b \in 0 .. L /\ n \in 0 .. 2 ^ b - 1
    BY <1>1, <1>2, <1>5
  <2> QED BY <1>1, <1>2, <2>1, ReverseWithin
<1>8. BitReverse(2 * n, L - k) = r /\ BitReverse(2 * n + 1, L - k) = r + P
  <2>1. PowersUpTo(b + 1)
    <3>1. \A j \in 1 .. b + 1 : j \in 1 .. L
      BY <1>1, <1>2
    <3> QED BY <1>1, <3>1 DEF PowersUpTo
  <2>2. BitReverse(2 * n + 0, b + 1) = BitReverse(n, b) + 0 * 2 ^ b
    BY <1>5, <2>1, ReverseStep
  <2>3. BitReverse(2 * n + 1, b + 1) = BitReverse(n, b) + 1 * 2 ^ b
    BY <1>5, <2>1, ReverseStep
  <2>4. 2 * n + 0 = 2 * n /\ r + 0 * P = r /\ r + 1 * P = r + P
    BY <1>5
  <2> QED BY <1>2, <1>3, <1>7, <2>2, <2>3, <2>4
<1>9. PICK lo, hi, x : /\ lo = (2 * n) * H + u /\ hi = (2 * n + 1) * H + u
                       /\ x = n * 2 ^ (k + 1) + v
  OBVIOUS
<1>10. hi = lo + H /\ lo \in Nat /\ hi \in Nat /\ x = lo + w * H
  <2>1. PICK nH \in Nat : nH = n * H
    BY <1>5
  <2>2. (2 * n) * H = 2 * nH /\ (2 * n + 1) * H = 2 * nH + H
    BY <1>5, <2>1
  <2>3. n * 2 ^ (k + 1) = 2 * nH
    BY <1>1, <1>2, <1>5, <2>1
  <2> QED BY <1>2, <1>6, <1>9, <2>1, <2>2, <2>3
<1>11. x \in 0 .. 2 ^ L - 1 /\ (x % (2 * H)) = v
  <2>1. PICK D \in Nat \ {0} : D = 2 * H
    BY <1>2
  <2>2. x = D * n + v /\ v \in 0 .. D - 1 /\ x \in Int
    BY <1>1, <1>2, <1>5, <1>9, <2>1
  <2>3. (x % D) = v
    <3>1. PICK q \in Int : q = n
      BY <1>5
    <3>2. x \in Int /\ v \in 0 .. D - 1 /\ x = D * q + v
      BY <2>2, <3>1
    <3> QED BY <3>2, DivisionOf
  <2>4. (n + 1) * D <= P * D
    <3>1. n + 1 \in Nat /\ n + 1 <= P /\ D <= D
      BY <1>5
    <3> QED BY <3>1, Products
  <2>5. (n + 1) * D = D * n + D
    BY <1>5
  <2>6. 2 ^ L = P * D
    BY <1>1, <1>2, <2>1
  <2> QED BY <1>5, <2>1, <2>2, <2>3, <2>4, <2>5, <2>6
<1>12. StageAt(S, c, L, e, k, M, 2 * n, u) /\ StageAt(S, c, L, e, k, M, 2 * n + 1, u)
  <2>1. 2 * n \in 0 .. 2 ^ (L - k) - 1 /\ 2 * n + 1 \in 0 .. 2 ^ (L - k) - 1
    BY <1>1, <1>2, <1>5
  <2>2. u \in 0 .. 2 ^ k - 1
    BY <1>2
  <2> QED BY <2>1, <2>2 DEF StageIs
<1>13. \A m \in Int : /\ Same(Ext(S[lo], m), Fourier(c, k, L - k, e, r, u, m), M)
                      /\ Same(Ext(S[hi], m), Fourier(c, k, L - k, e, r + P, u, m), M)
  BY <1>2, <1>8, <1>9, <1>12, Zenon DEF StageAt
<1>14. PICK sg \in {1, -1} : sg = IF w = 0 THEN 1 ELSE -1
  OBVIOUS
<1>15. /\ Numeric(R[x])
       /\ \A m \in Int : Same(Ext(R[x], m), Ext(S[lo], m) + sg * Ext(S[hi], m - Q * u), M)
  <2>1. ButterflyAt(S, R, L, k, e, M, x)
    BY <1>11 DEF IsButterfly
  <2>2. /\ Numeric(R[x])
        /\ \A m \in Int :
              /\ v < H => Same(Ext(R[x], m), Ext(S[x], m) + 1 * Ext(S[x + H], m - Q * v), M)
              /\ ~(v < H) =>
                     Same(Ext(R[x], m), Ext(S[x - H], m) + (-1) * Ext(S[x], m - Q * (v - H)), M)
    BY <1>2, <1>4, <1>11, <2>1, Zenon DEF ButterflyAt
  <2>3. CASE w = 0
    <3>1. v = u /\ v < H /\ x = lo /\ x + H = hi /\ sg = 1
      BY <1>6, <1>10, <1>14, <2>3
    <3> QED BY <2>2, <3>1
  <2>4. CASE w = 1
    <3>1. v - H = u /\ ~(v < H) /\ x = hi /\ x - H = lo /\ sg = -1
      BY <1>6, <1>10, <1>14, <2>4
    <3> QED BY <2>2, <3>1
  <2> QED BY <2>3, <2>4
<1>16. ASSUME NEW m \in Int
       PROVE  Same(Ext(R[x], m), Fourier(c, k + 1, b, e, r, v, m), M)
  <2>1. PICK m2 \in Int : m2 = m - Q * u
    BY <1>6
  <2>2. PICK A, B : A = Fourier(c, k, L - k, e, r, u, m) /\ B = Fourier(c, k, L - k, e, r + P, u, m2)
    OBVIOUS
  <2>3. Same(Ext(S[lo], m), A, M) /\ Same(Ext(S[hi], m2), B, M)
    BY <1>13, <2>1, <2>2
  <2>4. Same(Ext(R[x], m), Ext(S[lo], m) + sg * Ext(S[hi], m2), M)
    BY <1>15, <2>1
  <2>5. Same(sg * Ext(S[hi], m2), sg * B, M)
    BY <2>3, SameSums
  <2>6. Same(Ext(S[lo], m) + sg * Ext(S[hi], m2), A + sg * B, M)
    BY <2>3, <2>5, SameSums
  <2>7. Fourier(c, k + 1, b, e, r, v, m) = A + sg * B
    <3>1. r \in 0 .. 2 ^ b - 1 /\ u \in 0 .. 2 ^ k - 1 /\ IsTransform(c, k, b, e)
      BY <1>1, <1>2, <1>6, <1>7
    <3>2. Fourier(c, k + 1, b, e, r, u + w * 2 ^ k, m)
              = Fourier(c, k, b + 1, e, r, u, m)
                + (IF w = 0 THEN 1 ELSE -1)
                  * Fourier(c, k, b + 1, e, r + 2 ^ b, u, m - (e * 2 ^ b) * u)
      BY <3>1, FourierStep
    <3> QED BY <1>2, <1>3, <1>4, <1>6, <1>14, <2>1, <2>2, <3>2, Zenon
  <2> QED BY <2>4, <2>6, <2>7, SameRules
<1> QED BY <1>3, <1>7, <1>9, <1>15, <1>16, Zenon DEF StageAt

\* So the last stage has the values at all powers of the root.
LEMMA StagesAre ==
    ASSUME NEW c, NEW L, NEW e, Transforms(c, L, e), NEW M \in Nat \ {0}, NEW stage,
           \A x \in 0 .. 2 ^ L - 1 : stage[0][x] = c[BitReverse(x, L)],
           \A k \in 0 .. L - 1 : IsButterfly(stage[k], stage[k + 1], L, k, e, M),
           NEW u \in 0 .. 2 ^ L - 1
    PROVE  /\ Numeric(stage[L][u])
           /\ \A m \in Int : Same(Ext(stage[L][u], m), Fourier(c, L, 0, e, 0, u, m), M)
<1>1. L \in Nat /\ PowersUpTo(L) /\ e \in Int
  BY DEF Transforms
<1> DEFINE T == {k \in Nat : k <= L => StageIs(stage[k], c, L, e, k, M)}
<1>2. 0 \in T
  <2> SUFFICES ASSUME NEW n \in 0 .. 2 ^ (L - 0) - 1, NEW v \in 0 .. 2 ^ 0 - 1
               PROVE  StageAt(stage[0], c, L, e, 0, M, n, v)
    BY DEF StageIs
  <2>1. 2 ^ 0 = 1 /\ L - 0 = L
    BY <1>1 DEF PowersUpTo
  <2>2. v = 0 /\ n \in 0 .. 2 ^ L - 1 /\ n * 2 ^ 0 + v = n
    BY <2>1
  <2>3. PICK r : r = BitReverse(n, L)
    OBVIOUS
  <2>4. 2 ^ L \in Nat \ {0}
    <3>1. L \in 0 .. L
      BY <1>1
    <3> QED BY <1>1, <3>1, PowerPositive
  <2>5. r \in 0 .. 2 ^ L - 1
    <3>1. L \in 0 .. L
      BY <1>1
    <3> QED BY <1>1, <2>2, <2>3, <3>1, ReverseWithin
  <2>6. stage[0][n] = c[r] /\ Numeric(c[r])
    BY <2>2, <2>3, <2>5 DEF Transforms
  <2>7. ASSUME NEW m \in Int
        PROVE  Fourier(c, 0, L - 0, e, r, v, m) = Ext(c[r], m)
    <3>1. PICK f : f = FourierTerms(c, 0, L, e, r, 0, m)
      OBVIOUS
    <3>2. f[0] = Ext(c[r], m)
      <4>1. f = [i \in 0 .. 1 - 1 |-> Ext(c[r + i * 2 ^ L], m - (e * 2 ^ L) * (i * 0))]
        BY <2>1, <3>1, Zenon DEF FourierTerms
      <4>2. 0 \in 0 .. 1 - 1 /\ 0 * 2 ^ L = 0 /\ 0 * 0 = 0
        BY <2>4
      <4>3. f[0] = Ext(c[r + 0], m - (e * 2 ^ L) * 0)
        BY <4>1, <4>2
      <4>4. r + 0 = r /\ m - (e * 2 ^ L) * 0 = m
        BY <1>1, <2>4, <2>5
      <4> QED BY <4>3, <4>4
    <3>3. Ext(c[r], m) \in Int
      <4>1. 0 \in Int
        OBVIOUS
      <4> QED BY <2>6, <4>1, ExtShift
    <3>4. Total(f, {0}) = f[0]
      <4>1. IsFiniteSet({0}) /\ 0 \in {0} /\ \A x \in {0} : x # 0 => f[x] = 0
        BY FS_Singleton
      <4> QED BY <3>2, <3>3, <4>1, SumOfOne
    <3>5. 0 .. 1 - 1 = {0}
      OBVIOUS
    <3>6. Fourier(c, 0, L, e, r, 0, m) = Total(f, 0 .. 1 - 1)
      BY <2>1, <3>1, Zenon DEF Fourier
    <3> QED BY <2>1, <2>2, <3>2, <3>4, <3>5, <3>6
  <2>8. ASSUME NEW m \in Int
        PROVE  Same(Ext(stage[0][n], m), Fourier(c, 0, L - 0, e, BitReverse(n, L - 0), v, m), M)
    <3>1. Ext(c[r], m) \in Int
      <4>1. 0 \in Int
        OBVIOUS
      <4> QED BY <2>6, <4>1, ExtShift
    <3>2. Same(Ext(c[r], m), Ext(c[r], m), M)
      BY <3>1, SameRules
    <3>3. Fourier(c, 0, L - 0, e, BitReverse(n, L - 0), v, m) = Ext(c[r], m)
      BY <2>1, <2>3, <2>7
    <3> QED BY <2>6, <3>2, <3>3
  <2> QED BY <2>2, <2>6, <2>8, Zenon DEF StageAt
<1>3. ASSUME NEW k \in Nat, k \in T
      PROVE  k + 1 \in T
  <2> SUFFICES ASSUME k + 1 <= L
               PROVE  StageIs(stage[k + 1], c, L, e, k + 1, M)
    OBVIOUS
  <2>1. k \in 0 .. L - 1 /\ k <= L
    BY <1>1
  <2>2. StageIs(stage[k], c, L, e, k, M) /\ IsButterfly(stage[k], stage[k + 1], L, k, e, M)
    BY <1>3, <2>1
  <2> QED BY <2>1, <2>2, StageStep
<1> HIDE DEF T
<1>4. \A k \in Nat : k \in T
  BY <1>2, <1>3, NatInd
<1>5. StageIs(stage[L], c, L, e, L, M)
  <2>1. L <= L
    BY <1>1
  <2> QED BY <1>1, <1>4, <2>1 DEF T
<1>6. 0 \in 0 .. 2 ^ (L - L) - 1 /\ 0 * 2 ^ L + u = u /\ L - L = 0 /\ BitReverse(0, 0) = 0
  <2>1. 2 ^ 0 = 1 /\ L - L = 0 /\ 2 ^ L \in Nat
    <3>1. L \in 0 .. L
      BY <1>1
    <3> QED BY <1>1, <3>1, PowerPositive DEF PowersUpTo
  <2>2. BitReverse(0, 0) = 0
    BY <1>1, ReverseWithin
  <2>3. PICK p \in Nat : p = 2 ^ L
    BY <2>1
  <2>4. u \in 0 .. p - 1 /\ 0 * p = 0
    BY <2>3
  <2>5. 0 * 2 ^ L + u = u /\ 0 \in 0 .. 1 - 1
    BY <2>3, <2>4
  <2> QED BY <2>1, <2>2, <2>5
<1>7. StageAt(stage[L], c, L, e, L, M, 0, u)
  BY <1>5, <1>6 DEF StageIs
<1> QED BY <1>6, <1>7, Zenon DEF StageAt

(***************************************************************************)
(* The stages of an interpolation                                          *)
(***************************************************************************)

\* A product with a power of X is its polynomial, turned.
LEMMA MultiplyAt ==
    ASSUME NEW p \in Nat \ {0}, NEW q, Numeric(q), NEW w \in Int, NEW i \in Positions
    PROVE  Same(MultiplyByXPower(q, w, p)[i], Ext(q, i - w), p)
<1>1. PICK E \in Int, k \in Positions :
          w = E * Degree + k /\ (w \div Degree) = E /\ (w % Degree) = k
  BY Places
<1>2. PICK val : val = IF i < k THEN q[Degree - k + i] ELSE q[i - k]
  OBVIOUS
<1>3. PICK f : f = MultiplyByXPower(q, w, p)[i]
  OBVIOUS
<1>4. f = IF (i < k) # (w % (2 * Degree) >= Degree) THEN (-val) % p ELSE val
  <2>1. MultiplyByXPower(q, w, p)
            = [j \in Positions |->
                  IF (j < w % Degree) # (w % (2 * Degree) >= Degree)
                  THEN (-(IF j < w % Degree THEN q[Degree - (w % Degree) + j]
                          ELSE q[j - (w % Degree)])) % p
                  ELSE IF j < w % Degree THEN q[Degree - (w % Degree) + j] ELSE q[j - (w % Degree)]]
    BY TabulatedIs, Zenon DEF MultiplyByXPower, Poly
  <2>2. MultiplyByXPower(q, w, p)[i]
            = IF (i < w % Degree) # (w % (2 * Degree) >= Degree)
              THEN (-(IF i < w % Degree THEN q[Degree - (w % Degree) + i]
                      ELSE q[i - (w % Degree)])) % p
              ELSE IF i < w % Degree THEN q[Degree - (w % Degree) + i] ELSE q[i - (w % Degree)]
    BY <2>1, Zenon
  <2> QED BY <1>1, <1>2, <1>3, <2>2, Zenon
<1>5. i \in Int /\ k \in Int /\ Degree \in Int /\ 0 <= i /\ i < Degree /\ 0 <= k /\ k < Degree
  BY PlacesAre
<1>6. PICK n : n = i - k
  OBVIOUS
<1>7. n \in Int
  BY <1>5, <1>6
<1>8. Ext(q, i - w) = Sgn(E) * Ext(q, n)
  <2>1. PICK z : z = -E
    OBVIOUS
  <2>2. z \in Int
    BY <2>1
  <2>3. Ext(q, n + z * Degree) = Sgn(z) * Ext(q, n)
    BY <1>7, <2>2, ExtShift
  <2>4. Sgn(z) = Sgn(E)
    BY <2>1, SgnOf
  <2>5. n + z * Degree = i - w
    <3>1. PICK d : d = Degree
      OBVIOUS
    <3>2. PICK y : y = E * d
      OBVIOUS
    <3>3. y \in Int /\ z * d = -y /\ w = y + k
      BY <1>1, <1>5, <2>1, <3>1, <3>2
    <3> QED BY <1>5, <1>6, <3>1, <3>3
  <2> QED BY <2>3, <2>4, <2>5
<1>9. val \in Int /\ Ext(q, n) = IF i < k THEN -val ELSE val
  <2>1. CASE i < k
    <3>1. PICK y, e : y = Degree - k + i /\ e = -1
      OBVIOUS
    <3>2. y \in Positions /\ e \in Int /\ n = e * Degree + y
      BY <1>5, <1>6, <2>1, <3>1, PlacesAre
    <3>3. Ext(q, n) = Sgn(e) * q[y]
      BY <3>2, ExtAt
    <3>4. val = q[y] /\ val \in Int
      BY <1>2, <2>1, <3>1, <3>2 DEF Numeric
    <3>5. Sgn(e) = -1
      BY <3>1, SgnOf
    <3> QED BY <2>1, <3>3, <3>4, <3>5
  <2>2. CASE ~(i < k)
    <3>1. n \in Positions /\ 0 \in Int
      BY <1>5, <1>6, <2>2, PlacesAre
    <3>2. Ext(q, n) = q[n] /\ val = q[n] /\ q[n] \in Int
      BY <1>2, <1>6, <2>2, <3>1, ExtAt DEF Numeric
    <3> QED BY <2>2, <3>2
  <2> QED BY <2>1, <2>2
<1>10. (w % (2 * Degree)) >= Degree <=> Sgn(E) = -1
  BY <1>1, HalfTurn
<1>11. Sgn(E) \in {1, -1}
  BY SgnOf
<1>12. PICK b \in BOOLEAN : b <=> (i < k)
  OBVIOUS
<1>13. PICK c \in BOOLEAN : c <=> (w % (2 * Degree)) >= Degree
  OBVIOUS
<1>14. PICK x : x = Ext(q, i - w)
  OBVIOUS
<1>15. x = (IF c THEN -1 ELSE 1) * (IF b THEN -val ELSE val)
  BY <1>8, <1>9, <1>10, <1>11, <1>12, <1>13, <1>14
<1>16. f = IF (b /\ ~c) \/ (c /\ ~b) THEN (-val) % p ELSE val
  BY <1>4, <1>12, <1>13
<1>17. PICK y : y = -val
  OBVIOUS
<1>18. y \in Int /\ Same(y % p, y, p) /\ Same(val, val, p)
  <2>1. y \in Int
    BY <1>9, <1>17
  <2> QED BY <1>9, <2>1, SameRules
<1>19. CASE (b /\ ~c) \/ (c /\ ~b)
  <2>1. x = y
    BY <1>9, <1>15, <1>17, <1>19
  <2> QED BY <1>3, <1>14, <1>16, <1>17, <1>18, <1>19, <2>1
<1>20. CASE ~((b /\ ~c) \/ (c /\ ~b))
  <2>1. x = val
    BY <1>9, <1>15, <1>20
  <2> QED BY <1>3, <1>14, <1>16, <1>18, <1>20, <2>1
<1> QED BY <1>19, <1>20

\* A row of t = 2^L entries, X^r its root of unity.
IsDegree(t, L, r) ==
    /\ L \in Nat /\ PowersUpTo(L) /\ L <= 2 * Degree
    /\ t = 2 ^ L /\ t \in Nat \ {0} /\ r \in Nat \ {0} /\ r * t = 2 * Degree

\* Every row that is accepted is one.
LEMMA DegreeOf ==
    ASSUME NEW t \in Nat, NEW p, NEW row, InterpolationOK(row, t, p)
    PROVE  \E L : \E r : IsDegree(t, L, r) /\ LogOf(t) = L /\ (2 * Degree) \div t = r
<1>1. PICK D : D = 2 * Degree
  OBVIOUS
<1>2. D \in Nat /\ Degree \in Nat \ {0} /\ Degree < D
  BY <1>1, PlacesAre
<1>3. PowersUpTo(D)
  BY <1>1, <1>2, PowersAssumption DEF PowersUpTo
<1>4. PICK L \in 0 .. t : 2 ^ L = t
  BY DEF InterpolationOK
<1>5. L \in Nat /\ L <= t /\ t <= D /\ L <= D
  BY <1>1, <1>2, <1>4 DEF InterpolationOK
<1>6. PowersUpTo(L)
  <2>1. \A k \in 1 .. L : k \in 1 .. D
    BY <1>2, <1>5
  <2> QED BY <1>3, <2>1 DEF PowersUpTo
<1>7. t \in Nat \ {0}
  <2>1. L \in 0 .. D
    BY <1>2, <1>5
  <2> QED BY <1>2, <1>3, <1>4, <2>1, PowerPositive
<1>8. LogOf(t) = L
  <2>1. PICK l : l = LogOf(t)
    OBVIOUS
  <2>2. l \in 0 .. t /\ 2 ^ l = t
    BY <1>4, <2>1, Zenon DEF LogOf
  <2>3. l \in Nat /\ l <= D
    BY <1>2, <1>5, <2>2
  <2>4. ASSUME NEW a \in Nat, NEW b \in Nat, a < b, b <= D, 2 ^ a = t, 2 ^ b = t
        PROVE  FALSE
    <3>1. a <= b
      BY <2>4
    <3>2. 2 * 2 ^ a <= 2 ^ b
      BY <1>2, <1>3, <2>4, <3>1, PowerOrder
    <3>3. 2 * t <= t
      BY <2>4, <3>2
    <3> QED BY <1>7, <3>3
  <2>5. l = L
    BY <1>4, <1>5, <2>2, <2>3, <2>4
  <2> QED BY <2>1, <2>5
<1>9. PICK n \in 0 .. Degree : Degree = 2 ^ n
  BY PolynomialsAssumption
<1>10. n \in Nat /\ n + 1 \in Nat /\ n + 1 \in 1 .. D /\ (n + 1) - 1 = n /\ n + 1 <= D
  BY <1>1, <1>2, <1>9
<1>11. 2 ^ (n + 1) = D
  <2>1. 2 ^ (n + 1) = 2 * 2 ^ ((n + 1) - 1)
    BY <1>3, <1>10 DEF PowersUpTo
  <2> QED BY <1>1, <1>9, <1>10, <2>1
<1>12. L <= n + 1
  <2> SUFFICES ASSUME ~(L <= n + 1) PROVE FALSE
    OBVIOUS
  <2>1. n + 1 < L /\ n + 1 <= L
    BY <1>5, <1>10
  <2>2. 2 * 2 ^ (n + 1) <= 2 ^ L
    BY <1>2, <1>3, <1>5, <1>10, <2>1, PowerOrder
  <2>3. 2 * D <= t
    BY <1>4, <1>11, <2>2
  <2> QED BY <1>2, <1>5, <2>3
<1>13. PICK y \in Nat : y = (n + 1) - L
  BY <1>5, <1>10, <1>12
<1>14. PICK r : r = 2 ^ y
  OBVIOUS
<1>15. r \in Nat \ {0}
  <2>1. y \in 0 .. D
    BY <1>2, <1>5, <1>10, <1>13
  <2> QED BY <1>2, <1>3, <1>14, <2>1, PowerPositive
<1>16. r * t = D
  <2>1. y + L <= D /\ y + L = n + 1
    BY <1>5, <1>10, <1>13
  <2>2. 2 ^ (y + L) = 2 ^ y * 2 ^ L
    BY <1>2, <1>3, <1>5, <1>13, <2>1, PowerSum
  <2> QED BY <1>4, <1>11, <1>14, <2>1, <2>2
<1>17. (D \div t) = r
  <2>1. D = t * r + 0 /\ 0 \in 0 .. t - 1 /\ D \in Int /\ r \in Int
    BY <1>2, <1>7, <1>15, <1>16
  <2> QED BY <1>7, <2>1, DivisionOf
<1>18. IsDegree(t, L, r)
  BY <1>1, <1>4, <1>5, <1>6, <1>7, <1>15, <1>16 DEF IsDegree
<1> QED BY <1>1, <1>8, <1>17, <1>18

\* The root of unity of every stage, and the powers of X the code takes for it.
LEMMA StepOf ==
    ASSUME NEW t, NEW L, NEW r, IsDegree(t, L, r), NEW k \in 0 .. L - 1
    PROVE  \E z \in Nat \ {0}, b \in Nat :
               /\ b = L - k - 1 /\ z = r * 2 ^ b /\ (-r) * 2 ^ b = -z
               /\ InverseStep(2 ^ k) = 2 * Degree - z
               /\ 2 ^ k \in Nat \ {0} /\ 2 ^ b \in Nat \ {0}
               /\ 2 ^ L = 2 ^ b * (2 * 2 ^ k)
<1>1. /\ L \in Nat /\ PowersUpTo(L) /\ t = 2 ^ L /\ r \in Nat \ {0} /\ r * t = 2 * Degree
  BY DEF IsDegree
<1>2. PICK b \in Nat : b = L - k - 1
  BY <1>1
<1>3. /\ k \in Nat /\ k \in 0 .. L /\ b \in 0 .. L /\ b + (k + 1) = L /\ b + (k + 1) <= L
      /\ k + 1 \in Nat /\ k + 1 \in 1 .. L /\ (k + 1) - 1 = k
  BY <1>1, <1>2
<1>4. 2 ^ k \in Nat \ {0} /\ 2 ^ b \in Nat \ {0}
  BY <1>1, <1>3, PowerPositive
<1>5. 2 ^ L = 2 ^ b * (2 * 2 ^ k)
  <2>1. 2 ^ (k + 1) = 2 * 2 ^ k
    BY <1>1, <1>3 DEF PowersUpTo
  <2>2. 2 ^ (b + (k + 1)) = 2 ^ b * 2 ^ (k + 1)
    BY <1>1, <1>2, <1>3, PowerSum
  <2> QED BY <1>3, <2>1, <2>2
<1>6. PICK h, P, D : h = 2 * 2 ^ k /\ P = 2 ^ b /\ D = 2 * Degree
  OBVIOUS
<1>7. h \in Nat \ {0} /\ h >= 2 /\ P \in Nat \ {0} /\ D \in Nat \ {0}
  BY <1>4, <1>6, PlacesAre
<1>8. PICK z : z = r * P
  OBVIOUS
<1>9. z \in Nat \ {0} /\ (-r) * P = -z /\ D = h * z
  <2>1. z \in Nat \ {0} /\ (-r) * P = -z
    BY <1>1, <1>7, <1>8
  <2>2. r * (P * h) = h * (r * P)
    BY <1>1, <1>7
  <2> QED BY <1>1, <1>5, <1>6, <1>8, <2>1, <2>2
<1>10. (D \div h) = z
  <2>1. D = h * z + 0 /\ 0 \in 0 .. h - 1 /\ D \in Int /\ z \in Int
    BY <1>7, <1>9
  <2> QED BY <1>7, <2>1, DivisionOf
<1>11. D - z \in 0 .. D - 1
  <2>1. h * z >= z
    BY <1>7, <1>9
  <2> QED BY <1>7, <1>9, <2>1
<1>12. ((D - z) % D) = D - z
  <2>1. D - z = D * 0 + (D - z) /\ D - z \in Int /\ 0 \in Int
    BY <1>7, <1>9
  <2>2. PICK y : y = D - z
    OBVIOUS
  <2>3. y \in Int /\ y = D * 0 + y /\ y \in 0 .. D - 1
    BY <1>11, <2>1, <2>2
  <2>4. (y % D) = y
    BY <1>7, <2>1, <2>3, DivisionOf
  <2> QED BY <2>2, <2>4
<1>13. InverseStep(2 ^ k) = D - z
  BY <1>6, <1>10, <1>12, Zenon DEF InverseStep
<1> QED BY <1>2, <1>4, <1>5, <1>6, <1>8, <1>9, <1>13

LEMMA TwistedAt ==
    ASSUME NEW p \in Nat \ {0}, NEW q, Numeric(q), NEW z \in Int, NEW j \in Int,
           NEW i \in Positions
    PROVE  /\ Same(MultiplyByXPower(q, j * (2 * Degree - z), p)[i], Ext(q, i - (-z) * j), p)
           /\ (-z) * j \in Int
<1>1. PICK d : d = Degree
  OBVIOUS
<1>2. d \in Int /\ i \in Int
  BY <1>1, PlacesAre
<1>3. PICK w, n, e, y : /\ w = j * (2 * d - z) /\ n = i - (-z) * j /\ e = -(2 * j)
                        /\ y = z * j
  OBVIOUS
<1>4. y \in Int /\ e \in Int
  BY <1>3
<1>5. (-z) * j = -y
  BY <1>3
<1>6. n \in Int /\ n = i + y
  BY <1>2, <1>3, <1>4, <1>5
<1>7. w \in Int /\ i - w = n + e * d
  <2>1. PICK x : x = j * d
    OBVIOUS
  <2>2. x \in Int
    BY <1>2, <2>1
  <2>3. e * d = -(2 * x)
    BY <1>2, <1>3, <2>1
  <2>4. w = 2 * x - y
    <3>1. j * (2 * d - z) = 2 * (j * d) - z * j
      BY <1>2
    <3> QED BY <1>3, <2>1, <3>1
  <2> QED BY <1>2, <1>4, <1>6, <2>2, <2>3, <2>4
<1>8. Ext(q, n + e * d) = Ext(q, n)
  <2>1. Ext(q, n + e * Degree) = Sgn(e) * Ext(q, n) /\ Ext(q, n) \in Int
    BY <1>4, <1>6, ExtShift
  <2>2. Sgn(e) = 1
    <3>1. (e % 2) = 0
      BY <1>3, <1>4
    <3> QED BY <3>1 DEF Sgn
  <2> QED BY <1>1, <2>1, <2>2
<1>9. Same(MultiplyByXPower(q, w, p)[i], Ext(q, i - w), p)
  BY <1>7, MultiplyAt
<1>10. Ext(q, i - w) = Ext(q, n)
  BY <1>7, <1>8
<1> QED BY <1>1, <1>3, <1>4, <1>5, <1>9, <1>10

\* Sums and differences of polynomials modulo p, one of them turned.
LEMMA SumsTurned ==
    ASSUME NEW p \in Nat \ {0}, NEW a, Numeric(a), NEW q, Numeric(q), NEW v, NEW w \in Int,
           \A i \in Positions : Same(v[i], Ext(q, i - w), p)
    PROVE  /\ Numeric(ModAdd(a, v, p)) /\ Numeric(ModSub(a, v, p))
           /\ \A m \in Int : Same(Ext(ModAdd(a, v, p), m), Ext(a, m) + 1 * Ext(q, m - w), p)
           /\ \A m \in Int : Same(Ext(ModSub(a, v, p), m), Ext(a, m) + (-1) * Ext(q, m - w), p)
<1>1. PICK f, g : f = ModAdd(a, v, p) /\ g = ModSub(a, v, p)
  OBVIOUS
<1>2. /\ ModAdd(a, v, p) = [i \in Positions |-> (a[i] + v[i]) % p]
      /\ ModSub(a, v, p) = [i \in Positions |-> (a[i] - v[i]) % p]
  BY TabulatedIs, Zenon DEF ModAdd, ModSub, Poly
<1>3. ASSUME NEW i \in Positions
      PROVE  /\ Same(f[i], a[i] + 1 * Ext(q, i - w), p)
             /\ Same(g[i], a[i] + (-1) * Ext(q, i - w), p)
  <2>1. f[i] = (a[i] + v[i]) % p /\ g[i] = (a[i] - v[i]) % p
    BY <1>1, <1>2
  <2>2. PICK x, y, u : x = a[i] /\ y = v[i] /\ u = Ext(q, i - w)
    OBVIOUS
  <2>3. x \in Int /\ Same(y, u, p)
    BY <2>2 DEF Numeric
  <2>4. Same(x, x, p) /\ y \in Int /\ u \in Int
    BY <2>3, SameRules
  <2>5. Same(x + y, x + u, p) /\ Same(x - y, x - u, p)
    BY <2>3, <2>4, SameSums
  <2>6. Same((x + y) % p, x + y, p) /\ Same((x - y) % p, x - y, p)
    <3>1. x + y \in Int /\ x - y \in Int
      BY <2>3, <2>4
    <3> QED BY <3>1, SameRules
  <2>7. Same((x + y) % p, x + u, p) /\ Same((x - y) % p, x - u, p)
    BY <2>5, <2>6, SameRules
  <2>8. x + u = x + 1 * u /\ x - u = x + (-1) * u
    BY <2>3, <2>4
  <2> QED BY <2>1, <2>2, <2>7, <2>8, Zenon
<1>4. Numeric(f) /\ Numeric(g)
  <2>1. \A i \in Positions : f[i] \in Int /\ g[i] \in Int
    BY <1>3 DEF Same
  <2> QED BY <2>1 DEF Numeric
<1>5. ASSUME NEW m \in Int
      PROVE  /\ Same(Ext(f, m), Ext(a, m) + 1 * Ext(q, m - w), p)
             /\ Same(Ext(g, m), Ext(a, m) + (-1) * Ext(q, m - w), p)
  <2>1. 1 \in {1, -1} /\ -1 \in {1, -1}
    OBVIOUS
  <2>2. \A i \in Positions : Same(f[i], a[i] + 1 * Ext(q, i - w), p)
    BY <1>3
  <2>3. Same(Ext(f, m), Ext(a, m) + 1 * Ext(q, m - w), p)
    BY <1>4, <2>1, <2>2, SameExtSum
  <2>4. \A i \in Positions : Same(g[i], a[i] + (-1) * Ext(q, i - w), p)
    BY <1>3
  <2>5. Same(Ext(g, m), Ext(a, m) + (-1) * Ext(q, m - w), p)
    BY <1>4, <2>1, <2>4, SameExtSum
  <2> QED BY <2>3, <2>5
<1> QED BY <1>1, <1>4, <1>5

\* The two places of a butterfly are in the row.
LEMMA Apart ==
    ASSUME NEW h \in Nat \ {0}, NEW B \in Nat, NEW N, N = B * (2 * h), NEW x \in 0 .. N - 1
    PROVE  /\ (x % (2 * h)) \in 0 .. 2 * h - 1
           /\ (x % (2 * h)) < h => x + h \in 0 .. N - 1
           /\ ~((x % (2 * h)) < h) => x - h \in 0 .. N - 1
<1>1. PICK d : d = 2 * h
  OBVIOUS
<1>2. d \in Nat \ {0}
  BY <1>1
<1>3. PICK y : y = B * d
  OBVIOUS
<1>4. y \in Nat /\ N = y
  BY <1>1, <1>2, <1>3
<1>5. x \in Nat /\ x < N /\ x \in Int
  BY <1>4
<1>6. PICK g, s : g = x \div d /\ s = x % d
  OBVIOUS
<1>7. g \in Nat /\ s \in 0 .. d - 1 /\ x = d * g + s
  <2>1. /\ x \div d \in Int /\ (x % d) \in 0 .. d - 1
        /\ x = d * (x \div d) + (x % d)
        /\ x >= 0 => x \div d \in Nat
    BY <1>2, <1>5, Division
  <2> QED BY <1>5, <1>6, <2>1
<1>8. g < B
  <2> SUFFICES ASSUME ~(g < B) PROVE FALSE
    OBVIOUS
  <2>1. B <= g /\ d <= d /\ d \in Nat /\ g \in Nat
    BY <1>2, <1>7
  <2>2. B * d <= g * d
    BY <2>1, Products
  <2>3. g * d = d * g
    BY <1>2, <1>7
  <2>4. PICK z : z = d * g
    OBVIOUS
  <2>5. z \in Int
    BY <1>2, <1>7, <2>4
  <2> QED BY <1>3, <1>4, <1>5, <1>7, <2>2, <2>3, <2>4, <2>5
<1>9. d * g + d <= N
  <2>1. g + 1 <= B /\ g + 1 \in Nat /\ d <= d /\ d \in Nat
    BY <1>2, <1>7, <1>8
  <2>2. (g + 1) * d <= B * d
    BY <2>1, Products
  <2>3. (g + 1) * d = d * g + d
    BY <1>2, <1>7
  <2> QED BY <1>3, <1>4, <2>2, <2>3
<1>10. PICK z \in Nat : z = d * g
  BY <1>2, <1>7
<1> QED BY <1>1, <1>4, <1>5, <1>6, <1>7, <1>9, <1>10

\* Each stage of the code is a stage of the transform.
LEMMA ButterfliesAre ==
    ASSUME NEW p \in Nat \ {0}, NEW t, NEW L, NEW r, IsDegree(t, L, r), NEW k \in 0 .. L - 1,
           NEW S, \A x \in 0 .. 2 ^ L - 1 : Numeric(S[x])
    PROVE  IsButterfly(S, Butterflies(S, t, 2 ^ k, p), L, k, -r, p)
<1>1. PICK R, h : R = Butterflies(S, t, 2 ^ k, p) /\ h = 2 ^ k
  OBVIOUS
<1>2. PICK z \in Nat \ {0}, b \in Nat :
          /\ b = L - k - 1 /\ z = r * 2 ^ b /\ (-r) * 2 ^ b = -z
          /\ InverseStep(2 ^ k) = 2 * Degree - z
          /\ 2 ^ k \in Nat \ {0} /\ 2 ^ b \in Nat \ {0}
          /\ 2 ^ L = 2 ^ b * (2 * 2 ^ k)
  BY StepOf
<1>3. Butterflies(S, t, h, p)
          = [x \in 0 .. t - 1 |->
                IF x % (2 * h) < h
                THEN ModAdd(S[x], MultiplyByXPower(S[x + h], (x % (2 * h)) * InverseStep(h), p), p)
                ELSE ModSub(S[x - h],
                            MultiplyByXPower(S[x], ((x % (2 * h)) - h) * InverseStep(h), p), p)]
  BY TabulatedIs, Zenon DEF Butterflies, Vector
<1>4. t = 2 ^ L
  BY DEF IsDegree
<1>5. ASSUME NEW x \in 0 .. 2 ^ L - 1
      PROVE  ButterflyAt(S, R, L, k, -r, p, x)
  <2>1. PICK y : y = x % (2 * h)
    OBVIOUS
  <2>2. PICK B, N : B \in Nat /\ B = 2 ^ b /\ N = 2 ^ L
    BY <1>2
  <2>3. h \in Nat \ {0} /\ N = B * (2 * h) /\ x \in 0 .. N - 1
    BY <1>1, <1>2, <2>2
  <2>4. /\ (x % (2 * h)) \in 0 .. 2 * h - 1
        /\ (x % (2 * h)) < h => x + h \in 0 .. N - 1
        /\ ~((x % (2 * h)) < h) => x - h \in 0 .. N - 1
    BY <2>2, <2>3, Apart
  <2>5. y \in Int /\ y - h \in Int
    BY <2>1, <2>3, <2>4
  <2>6. R[x] = IF y < h
               THEN ModAdd(S[x], MultiplyByXPower(S[x + h], y * InverseStep(h), p), p)
               ELSE ModSub(S[x - h], MultiplyByXPower(S[x], (y - h) * InverseStep(h), p), p)
    BY <1>1, <1>3, <1>4, <2>1
  <2>7. PICK I : I = 2 * Degree - z
    OBVIOUS
  <2>8. InverseStep(h) = I
    BY <1>1, <1>2, <2>7
  <2>9. CASE y < h
    <3>1. PICK a, q, w, v : /\ a = S[x] /\ q = S[x + h] /\ w = (-z) * y
                            /\ v = MultiplyByXPower(q, y * I, p)
      OBVIOUS
    <3>2. Numeric(a) /\ Numeric(q)
      BY <2>1, <2>2, <2>3, <2>4, <2>9, <3>1
    <3>3. w \in Int
      BY <1>2, <2>5, <3>1
    <3>4. \A i \in Positions : Same(v[i], Ext(q, i - w), p)
      <4> SUFFICES ASSUME NEW i \in Positions
                   PROVE  Same(v[i], Ext(q, i - w), p)
        OBVIOUS
      <4>1. z \in Int
        BY <1>2
      <4>2. Same(MultiplyByXPower(q, y * (2 * Degree - z), p)[i], Ext(q, i - (-z) * y), p)
        BY <2>5, <3>2, <4>1, TwistedAt
      <4> QED BY <2>7, <3>1, <4>2, Zenon
    <3>5. R[x] = ModAdd(a, v, p)
      BY <2>6, <2>8, <2>9, <3>1
    <3>6. /\ Numeric(R[x])
          /\ \A m \in Int : Same(Ext(R[x], m), Ext(a, m) + 1 * Ext(q, m - w), p)
      BY <3>2, <3>3, <3>4, <3>5, SumsTurned
    <3>7. w = ((-r) * 2 ^ (L - k - 1)) * (x % (2 * 2 ^ k))
      BY <1>1, <1>2, <2>1, <3>1, Zenon
    <3>8. /\ Numeric(R[x])
          /\ \A m \in Int :
                Same(Ext(R[x], m),
                     Ext(S[x], m)
                     + 1 * Ext(S[x + 2 ^ k], m - ((-r) * 2 ^ (L - k - 1)) * (x % (2 * 2 ^ k))), p)
      BY <1>1, <3>1, <3>6, <3>7, Zenon
    <3>9. (x % (2 * 2 ^ k)) < 2 ^ k
      BY <1>1, <2>1, <2>9
    <3> QED BY <3>8, <3>9, Zenon DEF ButterflyAt
  <2>10. CASE ~(y < h)
    <3>1. PICK a, q, w, v : /\ a = S[x - h] /\ q = S[x] /\ w = (-z) * (y - h)
                            /\ v = MultiplyByXPower(q, (y - h) * I, p)
      OBVIOUS
    <3>2. Numeric(a) /\ Numeric(q)
      BY <2>1, <2>2, <2>3, <2>4, <2>10, <3>1
    <3>3. w \in Int
      BY <1>2, <2>5, <3>1
    <3>4. \A i \in Positions : Same(v[i], Ext(q, i - w), p)
      <4> SUFFICES ASSUME NEW i \in Positions
                   PROVE  Same(v[i], Ext(q, i - w), p)
        OBVIOUS
      <4>1. z \in Int
        BY <1>2
      <4>2. PICK j \in Int : j = y - h
        BY <2>5
      <4>3. Same(MultiplyByXPower(q, j * (2 * Degree - z), p)[i], Ext(q, i - (-z) * j), p)
        BY <3>2, <4>1, TwistedAt
      <4> QED BY <2>7, <3>1, <4>2, <4>3, Zenon
    <3>5. R[x] = ModSub(a, v, p)
      BY <2>6, <2>8, <2>10, <3>1
    <3>6. /\ Numeric(R[x])
          /\ \A m \in Int : Same(Ext(R[x], m), Ext(a, m) + (-1) * Ext(q, m - w), p)
      BY <3>2, <3>3, <3>4, <3>5, SumsTurned
    <3>7. w = ((-r) * 2 ^ (L - k - 1)) * ((x % (2 * 2 ^ k)) - 2 ^ k)
      BY <1>1, <1>2, <2>1, <3>1, Zenon
    <3>8. /\ Numeric(R[x])
          /\ \A m \in Int :
                Same(Ext(R[x], m),
                     Ext(S[x - 2 ^ k], m)
                     + (-1) * Ext(S[x], m - ((-r) * 2 ^ (L - k - 1))
                                            * ((x % (2 * 2 ^ k)) - 2 ^ k)), p)
      BY <1>1, <3>1, <3>6, <3>7, Zenon
    <3>9. ~((x % (2 * 2 ^ k)) < 2 ^ k)
      BY <1>1, <2>1, <2>10
    <3> QED BY <3>8, <3>9, Zenon DEF ButterflyAt
  <2> QED BY <2>9, <2>10
<1>6. IsButterfly(S, R, L, k, -r, p)
  BY <1>5 DEF IsButterfly
<1> QED BY <1>1, <1>6

\* The entries of a row.
EntriesOf(row, t, p) == [x \in 0 .. t - 1 |-> [j \in Positions |-> row[x * Degree + j] % p]]

\* The stages of an interpolation.
AreStages(stage, row, t, L, p) ==
    /\ stage[0] = ReversedEntries(row, t, p)
    /\ \A k \in 1 .. L : stage[k] = Butterflies(stage[k - 1], t, 2 ^ (k - 1), p)

\* The last stage times the inverse of the number of entries.
Divided(last, n, inv, p) ==
    [m \in 0 .. n - 1 |-> (last[m \div Degree][m % Degree] * inv) % p]

LEMMA InterpolateIs ==
    ASSUME NEW row, NEW t, NEW p, NEW L \in Nat, LogOf(t) = L, t # 1
    PROVE  \E stage :
               /\ AreStages(stage, row, t, L, p)
               /\ Interpolate(row, t, p)
                      = Divided(stage[L], Degree * t, ModInverse(t % p, p), p)
<1> DEFINE First == ReversedEntries(row, t, p)
           Body(h, n) == [k \in 0 .. n |-> IF k = 0 THEN First
                                           ELSE Butterflies(h[k - 1], t, 2 ^ (k - 1), p)]
           T == {n \in Nat : \E h : h = Body(h, n)}
<1> HIDE DEF First
<1>2. 0 \in T
  <2> DEFINE h == [k \in 0 .. 0 |-> First]
  <2>1. h = Body(h, 0)
    <3>1. \A k \in 0 .. 0 : k = 0
      OBVIOUS
    <3> QED BY <3>1
  <2> QED BY <2>1
<1>3. ASSUME NEW n \in Nat, n \in T PROVE n + 1 \in T
  <2>1. PICK old : old = Body(old, n)
    BY <1>3
  <2>2. PICK new : new = Butterflies(old[n], t, 2 ^ n, p)
    OBVIOUS
  <2> DEFINE h == [k \in 0 .. n + 1 |-> IF k = n + 1 THEN new ELSE old[k]]
  <2>3. \A k \in 0 .. n + 1 : h[k] = IF k = n + 1 THEN new ELSE old[k]
    OBVIOUS
  <2>4. \A k \in 0 .. n : old[k] = IF k = 0 THEN First
                                   ELSE Butterflies(old[k - 1], t, 2 ^ (k - 1), p)
    BY <2>1
  <2>5. ASSUME NEW k \in 0 .. n + 1
        PROVE  h[k] = IF k = 0 THEN First ELSE Butterflies(h[k - 1], t, 2 ^ (k - 1), p)
    <3> HIDE DEF h
    <3>1. CASE k = n + 1
      <4>1. h[k] = new /\ k - 1 = n /\ k # 0 /\ h[k - 1] = old[n]
        BY <2>3, <3>1
      <4> QED BY <2>2, <4>1
    <3>2. CASE k # n + 1
      <4>1. k \in 0 .. n /\ h[k] = old[k]
        BY <2>3, <3>2
      <4>2. k # 0 => h[k - 1] = old[k - 1]
        BY <2>3, <4>1
      <4> QED BY <2>4, <4>1, <4>2
    <3> QED BY <3>1, <3>2
  <2>6. h = Body(h, n + 1)
    <3>1. h = [k \in 0 .. n + 1 |-> h[k]]
      OBVIOUS
    <3> HIDE DEF h
    <3>2. [k \in 0 .. n + 1 |-> h[k]] = Body(h, n + 1)
      BY <2>5, Zenon
    <3> HIDE DEF Body
    <3> QED BY <3>1, <3>2
  <2>7. n + 1 \in Nat
    OBVIOUS
  <2> HIDE DEF h, Body
  <2> QED BY <2>6, <2>7
<1> HIDE DEF T
<1>4. \A n \in Nat : n \in T
  BY <1>2, <1>3, NatInd
<1> DEFINE stage == CHOOSE h : h = Body(h, LogOf(t))
<1>5. stage = Body(stage, L)
  <2>1. \E h : h = Body(h, L)
    BY <1>4 DEF T
  <2> HIDE DEF Body
  <2> QED BY <2>1, Zenon
<1>6. Interpolate(row, t, p) = Divided(stage[L], Degree * t, ModInverse(t % p, p), p)
  <2>1. Interpolate(row, t, p)
            = IF t = 1 THEN row
              ELSE Divided(stage[LogOf(t)], Degree * t, ModInverse(t % p, p), p)
    BY TabulatedIs, Zenon DEF Interpolate, Vector, Divided, First
  <2> HIDE DEF stage
  <2> QED BY <2>1, Zenon
<1> HIDE DEF stage
<1>7. \A k \in 0 .. L : stage[k] = IF k = 0 THEN First
                                   ELSE Butterflies(stage[k - 1], t, 2 ^ (k - 1), p)
  BY <1>5
<1>8. AreStages(stage, row, t, L, p)
  <2>1. stage[0] = First
    BY <1>7
  <2>2. \A k \in 1 .. L : stage[k] = Butterflies(stage[k - 1], t, 2 ^ (k - 1), p)
    <3> SUFFICES ASSUME NEW k \in 1 .. L
                 PROVE  stage[k] = Butterflies(stage[k - 1], t, 2 ^ (k - 1), p)
      OBVIOUS
    <3>1. k \in 0 .. L /\ k # 0
      OBVIOUS
    <3> QED BY <1>7, <3>1
  <2> QED BY <2>1, <2>2 DEF AreStages, First
<1> QED BY <1>6, <1>8

\* What they come to.
LEMMA LastStage ==
    ASSUME NEW row, NEW t, NEW p \in Nat \ {0}, NEW L, NEW r, IsDegree(t, L, r), LogOf(t) = L,
           \A x \in 0 .. t * Degree - 1 : row[x] \in Int,
           NEW stage, AreStages(stage, row, t, L, p), NEW u \in 0 .. t - 1
    PROVE  /\ Numeric(stage[L][u])
           /\ \A m \in Int :
                 Same(Ext(stage[L][u], m), Fourier(EntriesOf(row, t, p), L, 0, -r, 0, u, m), p)
<1>1. /\ L \in Nat /\ PowersUpTo(L) /\ t = 2 ^ L /\ t \in Nat \ {0}
      /\ r \in Nat \ {0} /\ r * t = 2 * Degree
  BY DEF IsDegree
<1>2. PICK c : c = EntriesOf(row, t, p)
  OBVIOUS
<1>3. ASSUME NEW x \in 0 .. t - 1
      PROVE  c[x] = [j \in Positions |-> row[x * Degree + j] % p] /\ Numeric(c[x])
  <2>1. c[x] = [j \in Positions |-> row[x * Degree + j] % p]
    BY <1>2 DEF EntriesOf
  <2>2. ASSUME NEW j \in Positions
        PROVE  row[x * Degree + j] % p \in Int
    <3>1. PICK d, y : d = Degree /\ y = x * d
      OBVIOUS
    <3>2. d \in Nat \ {0} /\ j \in Int /\ 0 <= j /\ j < d /\ x \in Nat /\ x + 1 <= t /\ t \in Nat
      BY <1>1, <3>1, PlacesAre
    <3>3. y \in Nat /\ y + d <= t * d /\ t * d \in Nat
      <4>1. x + 1 \in Nat /\ d \in Nat /\ d <= d
        BY <3>2
      <4>2. (x + 1) * d <= t * d
        BY <3>2, <4>1, Products
      <4>3. (x + 1) * d = x * d + d /\ x * d \in Nat /\ t * d \in Nat
        BY <3>2
      <4> QED BY <3>1, <4>2, <4>3
    <3>4. y + j \in 0 .. t * d - 1
      BY <3>2, <3>3
    <3>5. row[y + j] \in Int
      BY <3>1, <3>4
    <3> QED BY <3>1, <3>5
  <2> QED BY <2>1, <2>2 DEF Numeric
<1>4. ASSUME NEW x \in 0 .. 2 ^ L - 1
      PROVE  stage[0][x] = c[BitReverse(x, L)] /\ Numeric(stage[0][x])
  <2>1. PICK y \in 0 .. t - 1 : y = BitReverse(x, L)
    <3>1. L \in 0 .. L
      BY <1>1
    <3> QED BY <1>1, <3>1, ReverseWithin
  <2>2. ReversedEntries(row, t, p)
            = [i \in 0 .. t - 1 |->
                  [j \in Positions |-> row[BitReverse(i, LogOf(t)) * Degree + j] % p]]
    BY TabulatedIs, Zenon DEF ReversedEntries, Vector, Poly
  <2>3. stage[0][x] = [j \in Positions |-> row[BitReverse(x, L) * Degree + j] % p]
    <3>1. x \in 0 .. t - 1
      BY <1>1
    <3> QED BY <2>2, <3>1, Zenon DEF AreStages
  <2>4. stage[0][x] = c[y]
    BY <1>3, <2>1, <2>3, Zenon
  <2> QED BY <1>3, <2>1, <2>4
<1> DEFINE N == {k \in Nat : k <= L => \A x \in 0 .. 2 ^ L - 1 : Numeric(stage[k][x])}
<1>5. ASSUME NEW k \in 0 .. L - 1, \A x \in 0 .. 2 ^ L - 1 : Numeric(stage[k][x])
      PROVE  /\ IsButterfly(stage[k], stage[k + 1], L, k, -r, p)
             /\ \A x \in 0 .. 2 ^ L - 1 : Numeric(stage[k + 1][x])
  <2>1. k + 1 \in 1 .. L /\ (k + 1) - 1 = k
    BY <1>1
  <2>2. stage[k + 1] = Butterflies(stage[k], t, 2 ^ k, p)
    BY <2>1 DEF AreStages
  <2>3. PICK S : S = stage[k]
    OBVIOUS
  <2>4. \A x \in 0 .. 2 ^ L - 1 : Numeric(S[x])
    BY <1>5, <2>3
  <2>5. IsButterfly(S, Butterflies(S, t, 2 ^ k, p), L, k, -r, p)
    BY <2>4, ButterfliesAre
  <2>6. IsButterfly(stage[k], stage[k + 1], L, k, -r, p)
    BY <2>2, <2>3, <2>5
  <2> QED BY <2>6 DEF IsButterfly, ButterflyAt
<1>6. \A k \in Nat : k \in N
  <2>1. 0 \in N
    BY <1>4
  <2>2. ASSUME NEW k \in Nat, k \in N
        PROVE  k + 1 \in N
    <3>1. ASSUME k + 1 <= L
          PROVE  \A x \in 0 .. 2 ^ L - 1 : Numeric(stage[k + 1][x])
      <4>1. k \in 0 .. L - 1 /\ k <= L
        BY <1>1, <3>1
      <4>2. \A x \in 0 .. 2 ^ L - 1 : Numeric(stage[k][x])
        BY <2>2, <4>1
      <4> QED BY <1>5, <4>1, <4>2
    <3>2. k + 1 \in Nat
      OBVIOUS
    <3> QED BY <3>1, <3>2
  <2> HIDE DEF N
  <2> QED BY <2>1, <2>2, NatInd
<1>7. \A k \in 0 .. L - 1 : IsButterfly(stage[k], stage[k + 1], L, k, -r, p)
  <2> SUFFICES ASSUME NEW k \in 0 .. L - 1
               PROVE  IsButterfly(stage[k], stage[k + 1], L, k, -r, p)
    OBVIOUS
  <2>1. k \in Nat /\ k <= L
    BY <1>1
  <2>2. \A x \in 0 .. 2 ^ L - 1 : Numeric(stage[k][x])
    BY <1>6, <2>1
  <2> QED BY <1>5, <2>2
<1>8. Transforms(c, L, -r)
  <2>1. -r \in Int
    BY <1>1
  <2>2. \A x \in 0 .. 2 ^ L - 1 : Numeric(c[x])
    BY <1>1, <1>3
  <2>3. ASSUME L # 0
        PROVE  \E s \in Int : (s % 2) = 1 /\ (-r) * 2 ^ (L - 1) = s * Degree
    <3>1. 2 ^ L = 2 * 2 ^ (L - 1) /\ 2 ^ (L - 1) \in Nat \ {0}
      <4>1. L \in 1 .. L /\ L - 1 \in 0 .. L
        BY <1>1, <2>3
      <4> QED BY <1>1, <4>1, PowerPositive DEF PowersUpTo
    <3>2. PICK h, d : h = 2 ^ (L - 1) /\ d = Degree
      OBVIOUS
    <3>3. h \in Nat \ {0} /\ d \in Nat \ {0} /\ t = 2 * h /\ r * t = 2 * d
      BY <1>1, <3>1, <3>2, PlacesAre
    <3>4. PICK y : y = r * h
      OBVIOUS
    <3>5. y \in Int /\ r * (2 * h) = 2 * y /\ (-r) * h = -y
      BY <1>1, <3>3, <3>4
    <3>6. y = d
      BY <3>3, <3>5
    <3>7. PICK s : s = -1
      OBVIOUS
    <3>8. s \in Int /\ (s % 2) = 1 /\ s * d = -d
      <4>1. s \in Int /\ (s % 2) = 1
        <5>1. s \in Int /\ s = 2 * (-1) + 1
          BY <3>7
        <5>2. 2 \in Nat \ {0} /\ -1 \in Int /\ 1 \in 0 .. 2 - 1
          OBVIOUS
        <5> QED BY <5>1, <5>2, DivisionOf
      <4>2. s * d = -d
        BY <3>3, <3>7
      <4> QED BY <4>1, <4>2
    <3> QED BY <3>2, <3>5, <3>6, <3>8
  <2> QED BY <1>1, <2>1, <2>2, <2>3 DEF Transforms
<1>9. \A x \in 0 .. 2 ^ L - 1 : stage[0][x] = c[BitReverse(x, L)]
  BY <1>4
<1>10. u \in 0 .. 2 ^ L - 1
  BY <1>1
<1>11. /\ Numeric(stage[L][u])
       /\ \A m \in Int : Same(Ext(stage[L][u], m), Fourier(c, L, 0, -r, 0, u, m), p)
  BY <1>7, <1>8, <1>9, <1>10, StagesAre
<1> QED BY <1>2, <1>11

(***************************************************************************)
(* The inverse of the number of entries                                    *)
(***************************************************************************)

\* A state of the extended Euclidean algorithm for a and m, k steps after its
\* start.
IsEuclid(s, a, m, k) ==
    /\ s.t \in Int /\ s.newT \in Int /\ s.r \in Nat /\ s.newR \in Nat
    /\ Same(s.t * a, s.r, m) /\ Same(s.newT * a, s.newR, m)
    /\ \E x, y \in Int : x * s.r + y * s.newR = 1
    /\ s.newR = 0 \/ s.newR + k <= m - 1

EuclidNext(s) ==
    IF s.newR = 0 THEN s
    ELSE [t |-> s.newT, newT |-> s.t - (s.r \div s.newR) * s.newT,
          r |-> s.newR, newR |-> s.r % s.newR]

LEMMA EuclidStep ==
    ASSUME NEW m \in Nat \ {0}, NEW a \in Int, NEW k \in Nat, NEW s, IsEuclid(s, a, m, k)
    PROVE  IsEuclid(EuclidNext(s), a, m, k + 1)
<1>1. CASE s.newR = 0
  <2>1. EuclidNext(s) = s
    BY <1>1 DEF EuclidNext
  <2> QED BY <1>1, <2>1 DEF IsEuclid
<1>2. CASE s.newR # 0
  <2>1. PICK T \in Int, U \in Int, R \in Nat, N \in Nat \ {0} :
            T = s.t /\ U = s.newT /\ R = s.r /\ N = s.newR
    BY <1>2 DEF IsEuclid
  <2>2. PICK q, S : q = R \div N /\ S = R % N
    OBVIOUS
  <2>3. R \in Int
    OBVIOUS
  <2>4. q \in Int /\ S \in 0 .. N - 1 /\ R = N * q + S
    BY <2>2, <2>3, Division
  <2>5. PICK n : n = EuclidNext(s)
    OBVIOUS
  <2>6. n = [t |-> U, newT |-> T - q * U, r |-> N, newR |-> S]
    BY <1>2, <2>1, <2>2, <2>5, Zenon DEF EuclidNext
  <2>7. n.t = U /\ n.newT = T - q * U /\ n.r = N /\ n.newR = S
    BY <2>6
  <2>8. Same(T * a, R, m) /\ Same(U * a, N, m)
    BY <2>1 DEF IsEuclid
  <2>9. Same((T - q * U) * a, S, m)
    <3>1. PICK V, W : V = T * a /\ W = U * a
      OBVIOUS
    <3>2. V \in Int /\ W \in Int
      BY <3>1
    <3>3. Same(q * W, q * N, m)
      BY <2>4, <2>8, <3>1, SameSums
    <3>4. Same(V - q * W, R - q * N, m)
      BY <2>8, <3>1, <3>3, SameSums
    <3>5. R - q * N = S
      BY <2>4
    <3>6. (T - q * U) * a = V - q * W
      <4>1. (T - q * U) * a = T * a - q * (U * a)
        BY <2>4
      <4> QED BY <3>1, <4>1
    <3> QED BY <3>4, <3>5, <3>6
  <2>10. \E x, y \in Int : x * N + y * S = 1
    <3>1. PICK x \in Int, y \in Int : x * R + y * N = 1
      BY <2>1 DEF IsEuclid
    <3>2. x * R = (x * q) * N + x * S
      BY <2>4
    <3>3. PICK z \in Int : z = x * q + y
      BY <2>4
    <3>4. z * N = (x * q) * N + y * N
      BY <2>4, <3>3
    <3>5. PICK f, g, h : f = (x * q) * N /\ g = x * S /\ h = y * N
      OBVIOUS
    <3>6. f \in Int /\ g \in Int /\ h \in Int
      BY <2>4, <3>5
    <3>7. z * N + x * S = 1
      BY <3>1, <3>2, <3>4, <3>5, <3>6
    <3> QED BY <3>3, <3>7
  <2>11. S = 0 \/ S + (k + 1) <= m - 1
    <3>1. N + k <= m - 1
      BY <1>2, <2>1 DEF IsEuclid
    <3> QED BY <2>4, <3>1
  <2>12. T - q * U \in Int /\ S \in Nat /\ N \in Nat
    BY <2>4
  <2>13. IsEuclid(n, a, m, k + 1)
    BY <2>7, <2>8, <2>9, <2>10, <2>11, <2>12 DEF IsEuclid
  <2> QED BY <2>5, <2>13
<1> QED BY <1>1, <1>2

LEMMA ModInverseIs ==
    ASSUME NEW a, NEW m \in Nat
    PROVE  \E loop :
               /\ loop[0] = [t |-> 0, newT |-> 1, r |-> m, newR |-> a]
               /\ \A k \in 1 .. m : loop[k] = EuclidNext(loop[k - 1])
               /\ ModInverse(a, m) = IF loop[m].t < 0 THEN loop[m].t + m ELSE loop[m].t
<1> DEFINE First == [t |-> 0, newT |-> 1, r |-> m, newR |-> a]
           Body(h, n) == [k \in 0 .. n |-> IF k = 0 THEN First ELSE EuclidNext(h[k - 1])]
           T == {n \in Nat : \E h : h = Body(h, n)}
<1> HIDE DEF First
<1>2. 0 \in T
  <2> DEFINE h == [k \in 0 .. 0 |-> First]
  <2>1. h = Body(h, 0)
    <3>1. \A k \in 0 .. 0 : k = 0
      OBVIOUS
    <3> QED BY <3>1
  <2> QED BY <2>1
<1>3. ASSUME NEW n \in Nat, n \in T PROVE n + 1 \in T
  <2>1. PICK old : old = Body(old, n)
    BY <1>3
  <2>2. PICK new : new = EuclidNext(old[n])
    OBVIOUS
  <2> DEFINE h == [k \in 0 .. n + 1 |-> IF k = n + 1 THEN new ELSE old[k]]
  <2>3. \A k \in 0 .. n + 1 : h[k] = IF k = n + 1 THEN new ELSE old[k]
    OBVIOUS
  <2>4. \A k \in 0 .. n : old[k] = IF k = 0 THEN First ELSE EuclidNext(old[k - 1])
    BY <2>1
  <2>5. ASSUME NEW k \in 0 .. n + 1
        PROVE  h[k] = IF k = 0 THEN First ELSE EuclidNext(h[k - 1])
    <3> HIDE DEF h
    <3>1. CASE k = n + 1
      <4>1. h[k] = new /\ k - 1 = n /\ k # 0 /\ h[k - 1] = old[n]
        BY <2>3, <3>1
      <4> QED BY <2>2, <4>1
    <3>2. CASE k # n + 1
      <4>1. k \in 0 .. n /\ h[k] = old[k]
        BY <2>3, <3>2
      <4>2. k # 0 => h[k - 1] = old[k - 1]
        BY <2>3, <4>1
      <4> QED BY <2>4, <4>1, <4>2
    <3> QED BY <3>1, <3>2
  <2>6. h = Body(h, n + 1)
    <3>1. h = [k \in 0 .. n + 1 |-> h[k]]
      OBVIOUS
    <3> HIDE DEF h
    <3>2. [k \in 0 .. n + 1 |-> h[k]] = Body(h, n + 1)
      BY <2>5, Zenon
    <3> HIDE DEF Body
    <3> QED BY <3>1, <3>2
  <2>7. n + 1 \in Nat
    OBVIOUS
  <2> HIDE DEF h, Body
  <2> QED BY <2>6, <2>7
<1> HIDE DEF T
<1>4. \A n \in Nat : n \in T
  BY <1>2, <1>3, NatInd
<1> DEFINE loop == CHOOSE h : h = Body(h, m)
<1>5. loop = Body(loop, m)
  <2>1. \E h : h = Body(h, m)
    BY <1>4 DEF T
  <2> HIDE DEF Body
  <2> QED BY <2>1, Zenon
<1>6. ModInverse(a, m) = IF loop[m].t < 0 THEN loop[m].t + m ELSE loop[m].t
  BY Zenon DEF ModInverse, First, EuclidNext
<1> HIDE DEF loop
<1>7. \A k \in 0 .. m : loop[k] = IF k = 0 THEN First ELSE EuclidNext(loop[k - 1])
  BY <1>5
<1>8. loop[0] = First
  BY <1>7
<1>9. \A k \in 1 .. m : loop[k] = EuclidNext(loop[k - 1])
  <2> SUFFICES ASSUME NEW k \in 1 .. m
               PROVE  loop[k] = EuclidNext(loop[k - 1])
    OBVIOUS
  <2>1. k \in 0 .. m /\ k # 0
    OBVIOUS
  <2> QED BY <1>7, <2>1
<1> QED BY <1>6, <1>8, <1>9 DEF First

\* It is the inverse, of a number that has one.
LEMMA InverseOf ==
    ASSUME NEW m \in Nat \ {0}, NEW a \in 0 .. m - 1, NEW y \in Int, Same(a * y, 1, m)
    PROVE  ModInverse(a, m) \in Int /\ Same(ModInverse(a, m) * a, 1, m)
<1>1. m \in Nat /\ a \in Int /\ a \in Nat
  OBVIOUS
<1>2. PICK loop :
          /\ loop[0] = [t |-> 0, newT |-> 1, r |-> m, newR |-> a]
          /\ \A k \in 1 .. m : loop[k] = EuclidNext(loop[k - 1])
          /\ ModInverse(a, m) = IF loop[m].t < 0 THEN loop[m].t + m ELSE loop[m].t
  BY <1>1, ModInverseIs
<1>3. IsEuclid(loop[0], a, m, 0)
  <2>1. loop[0].t = 0 /\ loop[0].newT = 1 /\ loop[0].r = m /\ loop[0].newR = a
    BY <1>2
  <2>2. Same(0 * a, m, m)
    <3>1. 0 * a = m + m * (-1) /\ -1 \in Int /\ 0 * a \in Int
      BY <1>1
    <3> QED BY <1>1, <3>1 DEF Same
  <2>3. Same(1 * a, a, m)
    <3>1. 1 * a = a
      BY <1>1
    <3> QED BY <1>1, <3>1, SameRules
  <2>4. \E x, z \in Int : x * m + z * a = 1
    <3>1. PICK k \in Int : a * y = 1 + m * k
      BY DEF Same
    <3>2. (-k) * m = -(m * k) /\ y * a = a * y /\ m * k \in Int /\ a * y \in Int
      BY <1>1
    <3>3. PICK x \in Int : x = -k
      OBVIOUS
    <3>4. x * m + y * a = 1
      BY <3>1, <3>2, <3>3
    <3> QED BY <3>4
  <2> QED BY <1>1, <2>1, <2>2, <2>3, <2>4 DEF IsEuclid
<1> DEFINE T == {k \in Nat : k <= m => IsEuclid(loop[k], a, m, k)}
<1>4. \A k \in Nat : k \in T
  <2>1. 0 \in T
    BY <1>3
  <2>2. ASSUME NEW k \in Nat, k \in T
        PROVE  k + 1 \in T
    <3>1. ASSUME k + 1 <= m
          PROVE  IsEuclid(loop[k + 1], a, m, k + 1)
      <4>1. k + 1 \in 1 .. m /\ (k + 1) - 1 = k /\ k <= m
        BY <3>1
      <4>2. loop[k + 1] = EuclidNext(loop[k])
        BY <1>2, <4>1
      <4>3. IsEuclid(loop[k], a, m, k)
        BY <2>2, <4>1
      <4> QED BY <1>1, <4>2, <4>3, EuclidStep
    <3>2. k + 1 \in Nat
      OBVIOUS
    <3> QED BY <3>1, <3>2
  <2> HIDE DEF T
  <2> QED BY <2>1, <2>2, NatInd
<1>5. IsEuclid(loop[m], a, m, m)
  BY <1>1, <1>4
<1>6. PICK s \in Int, r \in Nat, n \in Nat : s = loop[m].t /\ r = loop[m].r /\ n = loop[m].newR
  BY <1>5 DEF IsEuclid
<1>7. n = 0
  <2>1. n = 0 \/ n + m <= m - 1
    BY <1>5, <1>6 DEF IsEuclid
  <2> QED BY <1>6, <2>1
<1>8. r = 1
  <2>1. PICK x \in Int, z \in Int : x * r + z * n = 1
    BY <1>5, <1>6 DEF IsEuclid
  <2>2. z * n = 0
    BY <1>7
  <2>3. PICK v : v = x * r
    OBVIOUS
  <2>4. v \in Int
    BY <1>6, <2>3
  <2>5. v = 1
    BY <2>1, <2>2, <2>3, <2>4
  <2>6. r # 0 /\ ~(r >= 2)
    <3>1. ASSUME r = 0 PROVE FALSE
      BY <2>3, <2>5, <3>1
    <3>2. ASSUME r >= 2 PROVE FALSE
      <4>1. x <= 0 => v <= 0
        BY <1>6, <2>3
      <4>2. x >= 1 => v >= r
        BY <1>6, <2>3
      <4> QED BY <1>6, <2>5, <3>2, <4>1, <4>2
    <3> QED BY <3>1, <3>2
  <2> QED BY <1>6, <2>6
<1>9. Same(s * a, 1, m)
  <2>1. Same(s * a, r, m)
    BY <1>5, <1>6 DEF IsEuclid
  <2> QED BY <1>8, <2>1
<1>10. PICK i : i = ModInverse(a, m)
  OBVIOUS
<1>11. CASE s < 0
  <2>1. i = s + m /\ i \in Int
    BY <1>2, <1>6, <1>10, <1>11
  <2>2. i * a = s * a + m * a /\ i * a \in Int /\ s * a \in Int
    BY <2>1
  <2>3. Same(i * a, s * a, m)
    BY <1>1, <2>2 DEF Same
  <2> QED BY <1>9, <1>10, <2>1, <2>3, SameRules
<1>12. CASE ~(s < 0)
  BY <1>2, <1>6, <1>9, <1>10, <1>12
<1> QED BY <1>11, <1>12

\* Powers of two have one, modulo an odd number.
LEMMA PowerInverse ==
    ASSUME NEW p \in Nat \ {0}, (p % 2) = 1, NEW L \in Nat, PowersUpTo(L)
    PROVE  \E y \in Int : Same(2 ^ L * y, 1, p)
<1> DEFINE T == {l \in Nat : l <= L => \E y \in Int : Same(2 ^ l * y, 1, p)}
<1>1. PICK h \in Int : 2 * h = 1 + p
  <2>1. (p + 1) \div 2 \in Int /\ 2 * ((p + 1) \div 2) = 1 + p
    OBVIOUS
  <2> QED BY <2>1
<1>2. 0 \in T
  <2>1. 2 ^ 0 = 1 /\ 1 * 1 = 1 /\ 1 \in Int
    BY DEF PowersUpTo
  <2>2. Same(1, 1, p)
    BY SameRules
  <2>3. Same(2 ^ 0 * 1, 1, p)
    BY <2>1, <2>2
  <2> QED BY <2>1, <2>3
<1>3. ASSUME NEW l \in Nat, l \in T
      PROVE  l + 1 \in T
  <2>1. ASSUME l + 1 <= L
        PROVE  \E y \in Int : Same(2 ^ (l + 1) * y, 1, p)
    <3>1. l <= L /\ l + 1 \in 1 .. L /\ (l + 1) - 1 = l /\ l \in 0 .. L
      BY <2>1
    <3>2. PICK y \in Int : Same(2 ^ l * y, 1, p)
      BY <1>3, <3>1
    <3>3. PICK P \in Int : P = 2 ^ l
      BY <3>1, PowerPositive
    <3>4. 2 ^ (l + 1) = 2 * P
      BY <3>1, <3>3 DEF PowersUpTo
    <3>5. PICK z \in Int : z = P * y
      OBVIOUS
    <3>6. Same((2 * h) * z, (2 * h) * 1, p)
      <4>1. Same(z, 1, p)
        BY <3>2, <3>3, <3>5
      <4> QED BY <4>1, SameSums
    <3>7. Same((2 * h) * 1, 1, p)
      <4>1. (2 * h) * 1 = 1 + p * 1 /\ (2 * h) * 1 \in Int
        BY <1>1
      <4> QED BY <4>1 DEF Same
    <3>8. Same((2 * h) * z, 1, p)
      BY <3>6, <3>7, SameRules
    <3>9. (2 * P) * (h * y) = (2 * h) * z
      BY <3>5
    <3>10. h * y \in Int /\ Same(2 ^ (l + 1) * (h * y), 1, p)
      BY <3>4, <3>8, <3>9
    <3> QED BY <3>10
  <2>2. l + 1 \in Nat
    OBVIOUS
  <2> QED BY <2>1, <2>2
<1> HIDE DEF T
<1>4. \A l \in Nat : l \in T
  BY <1>2, <1>3, NatInd
<1> QED BY <1>4 DEF T

LEMMA DegreeInverse ==
    ASSUME NEW p \in Nat \ {0}, (p % 2) = 1, NEW t, NEW L, NEW r, IsDegree(t, L, r)
    PROVE  /\ ModInverse(t % p, p) \in Int
           /\ Same(ModInverse(t % p, p) * t, 1, p)
<1>1. L \in Nat /\ PowersUpTo(L) /\ t = 2 ^ L /\ t \in Nat \ {0} /\ t \in Int
  BY DEF IsDegree
<1>2. PICK y \in Int : Same(t * y, 1, p)
  BY <1>1, PowerInverse
<1>3. PICK a, k : a = t % p /\ k = t \div p
  OBVIOUS
<1>4. a \in 0 .. p - 1 /\ k \in Int /\ t = p * k + a
  BY <1>1, <1>3, Division
<1>5. a \in Int
  BY <1>4
<1>6. Same(a, t, p) /\ Same(t, a, p)
  <2>1. Same(a, t, p)
    BY <1>1, <1>3, SameRules
  <2> QED BY <2>1, SameRules
<1>7. Same(a * y, 1, p)
  <2>1. Same(y * a, y * t, p)
    BY <1>6, SameSums
  <2>2. y * a = a * y /\ y * t = t * y
    BY <1>1, <1>5
  <2> QED BY <1>2, <2>1, <2>2, SameRules
<1>8. PICK i : i = ModInverse(a, p)
  OBVIOUS
<1>9. i \in Int /\ Same(i * a, 1, p)
  BY <1>4, <1>7, <1>8, InverseOf
<1>10. Same(i * t, i * a, p)
  BY <1>6, <1>9, SameSums
<1>11. Same(i * t, 1, p)
  BY <1>9, <1>10, SameRules
<1> QED BY <1>3, <1>8, <1>9, <1>11

(***************************************************************************)
(* The powers of a root of unity add up to nothing                         *)
(***************************************************************************)

\* A number that is not zero is an odd one times a power of two.
LEMMA OddPart ==
    ASSUME NEW L \in Nat, PowersUpTo(L), NEW x \in Int, x # 0, -(2 ^ L) < x, x < 2 ^ L
    PROVE  \E v \in 0 .. L - 1 : \E o \in Int : (o % 2) = 1 /\ x = 2 ^ v * o
<1> DEFINE OddTimes(l, y) == \E v \in 0 .. l - 1 : \E o \in Int : (o % 2) = 1 /\ y = 2 ^ v * o
           T == {l \in Nat : l <= L => \A y \in Int :
                                 y # 0 /\ -(2 ^ l) < y /\ y < 2 ^ l => OddTimes(l, y)}
<1>1. 0 \in T
  <2>1. 2 ^ 0 = 1
    BY DEF PowersUpTo
  <2>2. \A y \in Int : ~(y # 0 /\ -1 < y /\ y < 1)
    OBVIOUS
  <2> HIDE DEF OddTimes
  <2> QED BY <2>1, <2>2
<1>2. ASSUME NEW l \in Nat, l \in T
      PROVE  l + 1 \in T
  <2>1. ASSUME l + 1 <= L, NEW y \in Int, y # 0, -(2 ^ (l + 1)) < y, y < 2 ^ (l + 1)
        PROVE  OddTimes(l + 1, y)
    <3>1. l <= L /\ l + 1 \in 1 .. L /\ (l + 1) - 1 = l /\ l \in 0 .. L
      BY <2>1
    <3>2. PICK P \in Nat \ {0} : P = 2 ^ l
      BY <3>1, PowerPositive
    <3>3. 2 ^ (l + 1) = 2 * P
      BY <3>1, <3>2 DEF PowersUpTo
    <3>4. CASE (y % 2) = 1
      <4>1. 0 \in 0 .. (l + 1) - 1 /\ 2 ^ 0 = 1 /\ y = 1 * y
        BY <3>1 DEF PowersUpTo
      <4>2. y = 2 ^ 0 * y
        BY <4>1
      <4> QED BY <3>4, <4>1, <4>2
    <3>5. CASE (y % 2) # 1
      <4>1. PICK z \in Int : y = 2 * z
        BY <3>5
      <4>2. z # 0 /\ -P < z /\ z < P
        BY <2>1, <3>2, <3>3, <4>1
      <4>3. OddTimes(l, z)
        BY <1>2, <3>1, <3>2, <4>2
      <4>4. PICK v \in 0 .. l - 1, o \in Int : (o % 2) = 1 /\ z = 2 ^ v * o
        BY <4>3
      <4>5. v + 1 \in 0 .. (l + 1) - 1 /\ v + 1 \in 1 .. L /\ (v + 1) - 1 = v /\ v \in 0 .. L
        BY <3>1
      <4>6. PICK V \in Int : V = 2 ^ v
        BY <4>5, PowerPositive
      <4>7. 2 ^ (v + 1) = 2 * V
        BY <4>5, <4>6 DEF PowersUpTo
      <4>8. y = (2 * V) * o
        BY <4>1, <4>4, <4>6
      <4>9. y = 2 ^ (v + 1) * o
        BY <4>7, <4>8
      <4> QED BY <4>4, <4>5, <4>9
    <3> QED BY <3>4, <3>5
  <2>2. l + 1 \in Nat
    OBVIOUS
  <2> HIDE DEF OddTimes
  <2> QED BY <2>1, <2>2
<1> HIDE DEF T
<1>3. \A l \in Nat : l \in T
  BY <1>1, <1>2, NatInd
<1>4. L \in T /\ L <= L
  BY <1>3
<1> QED BY <1>4 DEF T

\* The turns of a polynomial by the powers of a root of unity.
TurnsOf(q, n, w, t) == [x \in 0 .. t - 1 |-> Ext(q, n + w * x)]

\* h steps of w are an odd number o of half turns.
OddTurn(w, h, o) ==
    w \in Int /\ h \in Nat \ {0} /\ o \in Int /\ (o % 2) = 1 /\ w * h = o * Degree

AreTurns(f, q, n, w, h) ==
    Numeric(q) /\ n \in Int /\ \A x \in 0 .. 2 * h - 1 : f[x] = Ext(q, n + w * x)

\* Half of them are the other half with the other sign.
LEMMA HalvesCancel ==
    ASSUME NEW w, NEW h, NEW o, OddTurn(w, h, o), NEW f, NEW q, NEW n, AreTurns(f, q, n, w, h)
    PROVE  Total(f, 0 .. 2 * h - 1) = 0
<1>0. /\ w \in Int /\ h \in Nat \ {0} /\ o \in Int /\ (o % 2) = 1 /\ w * h = o * Degree
      /\ Numeric(q) /\ n \in Int /\ \A x \in 0 .. 2 * h - 1 : f[x] = Ext(q, n + w * x)
  BY DEF OddTurn, AreTurns
<1>1. ASSUME NEW x \in 0 .. h - 1
      PROVE  /\ f[x] \in Int /\ f[h + x] = -1 * f[x]
             /\ x \in 0 .. 2 * h - 1 /\ h + x \in 0 .. 2 * h - 1
  <2>1. x \in 0 .. 2 * h - 1 /\ h + x \in 0 .. 2 * h - 1 /\ x \in Int
    BY <1>0
  <2>2. PICK y, m : y = w * x /\ m = n + y
    OBVIOUS
  <2>3. y \in Int /\ m \in Int
    BY <1>0, <2>1, <2>2
  <2>4. w * (h + x) = w * h + w * x
    BY <1>0, <2>1
  <2>5. n + w * (h + x) = m + o * Degree
    <3>1. PICK z : z = o * Degree
      OBVIOUS
    <3>2. z \in Int
      BY <1>0, <3>1, PlacesAre
    <3> QED BY <1>0, <2>2, <2>3, <2>4, <3>1, <3>2
  <2>6. /\ Ext(q, m) \in Int
        /\ Ext(q, m + o * Degree) = Sgn(o) * Ext(q, m)
    BY <1>0, <2>3, ExtShift
  <2>7. Sgn(o) = -1
    BY <1>0 DEF Sgn
  <2>8. f[x] = Ext(q, m) /\ f[h + x] = Ext(q, m + o * Degree)
    BY <1>0, <2>1, <2>2, <2>5
  <2> QED BY <2>1, <2>6, <2>7, <2>8
<1>2. IntegerOver(f, 0 .. 2 * h - 1)
  <2>1. ASSUME NEW x \in 0 .. 2 * h - 1
        PROVE  f[x] \in Int
    <3>1. w * x \in Int /\ n + w * x \in Int
      BY <1>0
    <3>2. PICK m \in Int : m = n + w * x
      BY <3>1
    <3>3. 0 \in Int
      OBVIOUS
    <3>4. Ext(q, m) \in Int
      BY <1>0, <3>3, ExtShift
    <3> QED BY <1>0, <3>2, <3>4
  <2> QED BY <2>1 DEF IntegerOver
<1>3. PICK a, b, S : /\ a = [k \in 0 .. h - 1 |-> f[k]] /\ b = [k \in 0 .. h - 1 |-> f[h + k]]
                     /\ S = 0 .. h - 1
  OBVIOUS
<1>4. h \in Nat
  BY <1>0
<1>5. Total(f, 0 .. 2 * h - 1) = Total(a, S) + Total(b, S)
  BY <1>2, <1>3, <1>4, SumInHalves
<1>6. IsFiniteSet(S)
  BY <1>0, <1>3, FS_Interval
<1>7. IsMultiple(b, -1, a, S)
  <2>1. \A x \in S : a[x] = f[x] /\ b[x] = f[h + x] /\ x \in 0 .. h - 1
    BY <1>3
  <2> QED BY <1>1, <2>1 DEF IsMultiple
<1>8. Total(b, S) = -1 * Total(a, S) /\ Total(a, S) \in Int
  <2>1. -1 \in Int
    OBVIOUS
  <2> QED BY <1>6, <1>7, <2>1, TimesTotal
<1>9. PICK y : y = Total(a, S)
  OBVIOUS
<1>10. y \in Int /\ Total(f, 0 .. 2 * h - 1) = y + (-1 * y)
  BY <1>5, <1>8, <1>9
<1> QED BY <1>10

LEMMA Orthogonal ==
    ASSUME NEW t, NEW L, NEW r, IsDegree(t, L, r), NEW x \in Int, x # 0, -t < x, x < t,
           NEW q, Numeric(q), NEW n \in Int
    PROVE  Total(TurnsOf(q, n, r * x, t), 0 .. t - 1) = 0
<1>1. /\ L \in Nat /\ PowersUpTo(L) /\ t = 2 ^ L /\ t \in Nat \ {0}
      /\ r \in Nat \ {0} /\ r * t = 2 * Degree
  BY DEF IsDegree
<1>2. PICK v \in 0 .. L - 1, o \in Int : (o % 2) = 1 /\ x = 2 ^ v * o
  <2>1. -(2 ^ L) < x /\ x < 2 ^ L
    BY <1>1
  <2> QED BY <1>1, <2>1, OddPart
<1>3. PICK y \in Nat : y = L - v - 1
  BY <1>1
<1>4. /\ v \in Nat /\ v \in 0 .. L /\ y \in 0 .. L /\ v + (y + 1) = L /\ v + (y + 1) <= L
      /\ y + 1 \in Nat /\ y + 1 \in 1 .. L /\ (y + 1) - 1 = y
  BY <1>1, <1>3
<1>5. PICK B \in Nat \ {0}, h \in Nat \ {0} : B = 2 ^ v /\ h = 2 ^ y
  BY <1>1, <1>4, PowerPositive
<1>6. t = B * (2 * h)
  <2>1. 2 ^ (y + 1) = 2 * h
    BY <1>1, <1>4, <1>5 DEF PowersUpTo
  <2>2. 2 ^ (v + (y + 1)) = 2 ^ v * 2 ^ (y + 1)
    BY <1>1, <1>4, PowerSum
  <2> QED BY <1>1, <1>4, <1>5, <2>1, <2>2
<1>7. PICK w \in Int, d \in Nat \ {0} : w = r * x /\ d = 2 * h
  BY <1>1
<1>8. w * h = o * Degree
  <2>1. PICK D, u : D = Degree /\ u = r * (B * h)
    OBVIOUS
  <2>2. D \in Int /\ u \in Int
    BY <1>1, <2>1, PlacesAre
  <2>3. r * (B * (2 * h)) = 2 * (r * (B * h))
    BY <1>1
  <2>4. u = D
    BY <1>1, <1>6, <2>1, <2>2, <2>3
  <2>5. (r * (B * o)) * h = o * (r * (B * h))
    BY <1>1
  <2>6. w = r * (B * o)
    BY <1>2, <1>5, <1>7
  <2> QED BY <2>1, <2>4, <2>5, <2>6
<1>9. PICK g : g = TurnsOf(q, n, w, t)
  OBVIOUS
<1>10. ASSUME NEW z \in 0 .. t - 1
       PROVE  g[z] = Ext(q, n + w * z) /\ g[z] \in Int
  <2>1. g[z] = Ext(q, n + w * z)
    BY <1>9 DEF TurnsOf
  <2>2. w * z \in Int /\ n + w * z \in Int
    BY <1>1
  <2>3. PICK m \in Int : m = n + w * z
    BY <2>2
  <2>4. 0 \in Int
    OBVIOUS
  <2>5. Ext(q, m) \in Int
    BY <2>4, ExtShift
  <2> QED BY <2>1, <2>3, <2>5
<1>11. IntegerOver(g, 0 .. B * d - 1)
  <2>1. B * d - 1 = t - 1
    BY <1>6, <1>7
  <2> QED BY <1>10, <2>1 DEF IntegerOver
<1>12. PICK s, K : s = [k \in 0 .. B - 1 |-> PieceSum(g, d, k)] /\ K = 0 .. B - 1
  OBVIOUS
<1>13. Total(g, 0 .. t - 1) = Total(s, K)
  <2>1. B \in Nat
    OBVIOUS
  <2>2. Total(g, 0 .. B * d - 1)
            = Total([k \in 0 .. B - 1 |-> PieceSum(g, d, k)], 0 .. B - 1)
    BY <1>7, <1>11, <2>1, SumInPieces
  <2> QED BY <1>6, <1>7, <1>12, <2>2
<1>14. ASSUME NEW k \in 0 .. B - 1
       PROVE  s[k] = 0
  <2>1. s[k] = Total(PieceOf(g, d, k), 0 .. d - 1)
    BY <1>12 DEF PieceSum
  <2>2. PICK f : f = PieceOf(g, d, k)
    OBVIOUS
  <2>3. PICK e \in Nat : e = k * d
    OBVIOUS
  <2>4. e + d <= t
    <3>1. k + 1 \in Nat /\ k + 1 <= B /\ B \in Nat /\ d \in Nat /\ d <= d /\ k \in Nat
      OBVIOUS
    <3>2. (k + 1) * d <= B * d
      BY <3>1, Products
    <3>3. (k + 1) * d = k * d + d
      BY <3>1
    <3> QED BY <1>6, <1>7, <2>3, <3>2, <3>3
  <2>5. PICK m \in Int : m = n + w * e
    OBVIOUS
  <2>6. ASSUME NEW z \in 0 .. 2 * h - 1
        PROVE  f[z] = Ext(q, m + w * z)
    <3>1. z \in 0 .. d - 1 /\ e + z \in 0 .. t - 1 /\ z \in Int
      BY <1>1, <1>7, <2>4
    <3>2. f[z] = g[e + z]
      BY <2>2, <2>3, <3>1 DEF PieceOf
    <3>3. n + w * (e + z) = m + w * z
      <4>1. w * (e + z) = w * e + w * z
        BY <3>1
      <4>2. PICK a, b : a = w * e /\ b = w * z
        OBVIOUS
      <4>3. a \in Int /\ b \in Int
        BY <3>1, <4>2
      <4> QED BY <2>5, <4>1, <4>2, <4>3
    <3> QED BY <1>10, <3>1, <3>2, <3>3
  <2>7. Total(f, 0 .. 2 * h - 1) = 0
    <3>1. AreTurns(f, q, m, w, h)
      BY <2>6 DEF AreTurns
    <3>2. OddTurn(w, h, o)
      BY <1>2, <1>8 DEF OddTurn
    <3> QED BY <3>1, <3>2, HalvesCancel, Zenon
  <2> QED BY <1>7, <2>1, <2>2, <2>7
<1>15. Total(s, K) = 0
  <2>1. IsFiniteSet(K)
    BY <1>12, FS_Interval
  <2>2. \A k \in K : s[k] = 0
    BY <1>12, <1>14
  <2> QED BY <2>1, <2>2, SumOfZeros
<1> QED BY <1>7, <1>9, <1>13, <1>15

(***************************************************************************)
(* The values of an interpolated row                                       *)
(***************************************************************************)

\* What coefficient m of a row adds to coefficient i of its value at X^step.
ValueTerm(row, step, i, m) ==
    LET power == ((m \div Degree) * step + (m % Degree)) % (2 * Degree)
    IN  IF power = i THEN row[m] ELSE IF power = i + Degree THEN -row[m] ELSE 0

ValueTerms(row, step, i, n) == [m \in 0 .. n - 1 |-> ValueTerm(row, step, i, m)]

LEMMA RowAtIs ==
    ASSUME NEW row, NEW t, NEW step, NEW p, NEW i \in Positions
    PROVE  /\ RowAt(row, t, step, p) = [j \in Positions |-> RowAt(row, t, step, p)[j]]
           /\ RowAt(row, t, step, p)[i]
                  = Total(ValueTerms(row, step, i, t * Degree), 0 .. t * Degree - 1) % p
<1>1. RowAt(row, t, step, p)
          = [j \in Positions |->
                Total(ValueTerms(row, step, j, t * Degree), 0 .. t * Degree - 1) % p]
  BY TabulatedIs, SumsOver, Zenon DEF RowAt, Poly, SumOf, ValueTerm, ValueTerms
<1>2. PICK f : f = [j \in Positions |->
                       Total(ValueTerms(row, step, j, t * Degree), 0 .. t * Degree - 1) % p]
  OBVIOUS
<1>3. f = [j \in Positions |-> f[j]]
  BY <1>2
<1>4. f[i] = Total(ValueTerms(row, step, i, t * Degree), 0 .. t * Degree - 1) % p
  BY <1>2, Zenon
<1> QED BY <1>1, <1>2, <1>3, <1>4, Zenon

\* Which coefficient of a polynomial a turn by z takes to place i.
LEMMA TurnedTo ==
    ASSUME NEW z \in Int, NEW i \in Positions, NEW x \in Positions, NEW e \in Int,
           NEW y \in Positions, i - z = e * Degree + y
    PROVE  /\ x # y => /\ (z + x) % (2 * Degree) # i
                       /\ (z + x) % (2 * Degree) # i + Degree
           /\ x = y => (z + x) % (2 * Degree) = IF (e % 2) = 0 THEN i ELSE i + Degree
<1>1. PICK d : d = Degree
  OBVIOUS
<1>2. /\ d \in Nat \ {0} /\ i \in Int /\ x \in Int /\ y \in Int
      /\ 0 <= i /\ i < d /\ 0 <= x /\ x < d /\ 0 <= y /\ y < d
  BY <1>1, PlacesAre
<1>3. PICK D \in Nat \ {0} : D = 2 * d
  BY <1>2
<1>4. PICK g, s : g = (z + x) \div D /\ s = (z + x) % D
  OBVIOUS
<1>5. z + x \in Int
  BY <1>2
<1>6. g \in Int /\ s \in 0 .. D - 1 /\ z + x = D * g + s
  BY <1>4, <1>5, Division
<1>7. ASSUME NEW b \in {0, 1}, s = i + b * d
      PROVE  x = y
  <2>1. PICK k \in Int : k = -(2 * g + b)
    BY <1>6
  <2>2. i - z = k * d + x
    <3>1. PICK u : u = g * d
      OBVIOUS
    <3>2. u \in Int /\ D * g = 2 * u
      BY <1>2, <1>3, <1>6, <3>1
    <3>3. b * d = (IF b = 0 THEN 0 ELSE d)
      BY <1>2
    <3>4. k * d = -(2 * u) - b * d
      <4>1. k * d = -(2 * (g * d)) - b * d
        BY <1>2, <1>6, <2>1
      <4> QED BY <3>1, <4>1
    <3> QED BY <1>2, <1>6, <1>7, <3>2, <3>3, <3>4
  <2>3. ((k * Degree + x) % Degree) = x /\ ((e * Degree + y) % Degree) = y
    BY PlaceOf
  <2> QED BY <1>1, <2>2, <2>3
<1>8. ASSUME x # y
      PROVE  s # i /\ s # i + d
  <2>1. i + 0 * d = i /\ i + 1 * d = i + d
    BY <1>2
  <2>2. ~(s = i + 0 * d) /\ ~(s = i + 1 * d)
    BY <1>7, <1>8
  <2> QED BY <2>1, <2>2
<1>9. ASSUME x = y
      PROVE  s = IF (e % 2) = 0 THEN i ELSE i + d
  <2>1. PICK f, b : f = e \div 2 /\ b = e % 2
    OBVIOUS
  <2>2. f \in Int /\ b \in {0, 1} /\ e = 2 * f + b
    BY <2>1
  <2>3. PICK u : u = f * d
    OBVIOUS
  <2>4. u \in Int /\ e * d = 2 * u + b * d /\ b * d = IF b = 0 THEN 0 ELSE d
    <3>1. u \in Int /\ b * d = IF b = 0 THEN 0 ELSE d
      BY <1>2, <2>2, <2>3
    <3>2. e * d = 2 * (f * d) + b * d
      BY <1>2, <2>2
    <3> QED BY <2>3, <3>1, <3>2
  <2>5. PICK v : v = e * d
    OBVIOUS
  <2>6. i - z = v + x /\ v = 2 * u + b * d
    BY <1>1, <1>9, <2>4, <2>5
  <2>7. PICK k, j : k = -f - b /\ j = IF b = 0 THEN i ELSE i + d
    OBVIOUS
  <2>8. k \in Int /\ j \in 0 .. D - 1
    BY <1>2, <1>3, <2>2, <2>7
  <2>9. z + x = D * k + j
    <3>1. D * k = -(2 * u) - 2 * (b * d)
      <4>1. (2 * d) * (-f - b) = -(2 * (f * d)) - 2 * (b * d)
        BY <1>2, <2>2
      <4> QED BY <1>3, <2>3, <2>7, <4>1
    <3> QED BY <1>2, <2>2, <2>4, <2>6, <2>7, <3>1
  <2>10. ((z + x) % D) = j
    BY <1>5, <2>8, <2>9, DivisionOf
  <2> QED BY <1>4, <2>1, <2>2, <2>7, <2>10
<1> QED BY <1>1, <1>3, <1>4, <1>8, <1>9

\* The values of its polynomials, turned one by one.
BlockValues(row, t, step, i) == [u \in 0 .. t - 1 |-> Ext(BlockOf(row, u), i - u * step)]

\* A row has at X^step the value of its polynomials, turned one by one.
LEMMA ValueIs ==
    ASSUME NEW t \in Nat \ {0}, NEW row, \A m \in 0 .. t * Degree - 1 : row[m] \in Int,
           NEW step \in Int, NEW i \in Positions, NEW p
    PROVE  /\ RowAt(row, t, step, p)[i]
                  = Total(BlockValues(row, t, step, i), 0 .. t - 1) % p
           /\ \A u \in 0 .. t - 1 : Numeric(BlockOf(row, u))
<1>1. PICK d : d = Degree
  OBVIOUS
<1>2. d \in Nat \ {0} /\ i \in Int
  BY <1>1, PlacesAre
<1>3. ASSUME NEW u \in 0 .. t - 1, NEW x \in Positions
      PROVE  /\ u * Degree + x \in 0 .. t * Degree - 1
             /\ BlockOf(row, u)[x] = row[u * Degree + x]
             /\ row[u * Degree + x] \in Int
  <2>1. PICK y : y = u * d
    OBVIOUS
  <2>2. x \in Int /\ 0 <= x /\ x < d
    BY <1>1, PlacesAre
  <2>3. y \in Nat /\ y + d <= t * d /\ t * d \in Nat
    <3>1. u + 1 \in Nat /\ u + 1 <= t /\ t \in Nat /\ d \in Nat /\ d <= d /\ u \in Nat
      BY <1>2
    <3>2. (u + 1) * d <= t * d
      BY <3>1, Products
    <3>3. (u + 1) * d = u * d + d /\ u * d \in Nat /\ t * d \in Nat
      BY <3>1
    <3> QED BY <2>1, <3>2, <3>3
  <2>4. u * Degree + x \in 0 .. t * Degree - 1
    <3>1. PICK N : N = t * d
      OBVIOUS
    <3>2. y + x \in 0 .. N - 1
      BY <1>2, <2>2, <2>3, <3>1
    <3> QED BY <1>1, <2>1, <3>1, <3>2
  <2> QED BY <2>4 DEF BlockOf
<1>4. \A u \in 0 .. t - 1 : Numeric(BlockOf(row, u))
  BY <1>3 DEF Numeric
<1>5. PICK f : f = ValueTerms(row, step, i, t * Degree)
  OBVIOUS
<1>6. ASSUME NEW u \in 0 .. t - 1
      PROVE  /\ \A x \in Positions : BlockOf(f, u)[x] \in Int
             /\ Total(BlockOf(f, u), Positions) = Ext(BlockOf(row, u), i - u * step)
  <2>1. PICK z \in Int : z = u * step
    OBVIOUS
  <2>2. i - z \in Int
    BY <1>2
  <2>3. PICK e \in Int, y \in Positions :
            i - z = e * Degree + y /\ ((i - z) \div Degree) = e /\ ((i - z) % Degree) = y
    BY <2>2, Places
  <2>4. ASSUME NEW x \in Positions
        PROVE  BlockOf(f, u)[x]
                   = IF (z + x) % (2 * Degree) = i THEN BlockOf(row, u)[x]
                     ELSE IF (z + x) % (2 * Degree) = i + Degree THEN -BlockOf(row, u)[x] ELSE 0
    <3>1. PICK m \in 0 .. t * Degree - 1 : m = u * Degree + x
      BY <1>3
    <3>2. (m \div Degree) = u /\ (m % Degree) = x
      <4>1. u \in Int
        OBVIOUS
      <4> QED BY <3>1, <4>1, PlaceOf
    <3>3. BlockOf(f, u)[x] = f[m] /\ BlockOf(row, u)[x] = row[m]
      BY <3>1 DEF BlockOf
    <3>4. f[m] = ValueTerm(row, step, i, m)
      BY <1>5 DEF ValueTerms
    <3> QED BY <2>1, <3>2, <3>3, <3>4, Zenon DEF ValueTerm
  <2>5. PICK a, b : a = BlockOf(row, u) /\ b = BlockOf(f, u)
    OBVIOUS
  <2>6. \A x \in Positions : a[x] \in Int
    BY <1>4, <2>5 DEF Numeric
  <2>7. ASSUME NEW x \in Positions, x # y
        PROVE  b[x] = 0
    <3>1. (z + x) % (2 * Degree) # i /\ (z + x) % (2 * Degree) # i + Degree
      BY <2>3, <2>7, TurnedTo
    <3> QED BY <2>4, <2>5, <3>1
  <2>8. b[y] = Sgn(e) * a[y]
    <3>1. (z + y) % (2 * Degree) = IF (e % 2) = 0 THEN i ELSE i + Degree
      BY <2>3, TurnedTo
    <3>2. PICK w, v : w = (z + y) % (2 * Degree) /\ v = a[y]
      OBVIOUS
    <3>3. v \in Int
      BY <2>6, <3>2
    <3>4. b[y] = IF w = i THEN v ELSE IF w = i + Degree THEN -v ELSE 0
      BY <2>4, <2>5, <3>2
    <3>5. i + Degree # i
      BY <1>1, <1>2
    <3>6. CASE (e % 2) = 0
      <4>1. b[y] = v /\ Sgn(e) = 1
        BY <3>1, <3>2, <3>4, <3>6 DEF Sgn
      <4> QED BY <3>2, <3>3, <4>1
    <3>7. CASE (e % 2) # 0
      <4>1. b[y] = -v /\ Sgn(e) = -1
        BY <3>1, <3>2, <3>4, <3>5, <3>7 DEF Sgn
      <4> QED BY <3>2, <3>3, <4>1
    <3> QED BY <3>6, <3>7
  <2>9. b[y] \in Int
    <3>1. Sgn(e) \in Int /\ a[y] \in Int
      BY <2>6, SgnOf
    <3> QED BY <2>8, <3>1
  <2>10. \A x \in Positions : b[x] \in Int
    BY <2>7, <2>9
  <2>11. Total(b, Positions) = b[y]
    BY <2>7, <2>9, PositionsOf, SumOfOne
  <2>12. Ext(a, i - z) = Sgn(e) * a[y]
    BY <2>3 DEF Ext
  <2> QED BY <2>1, <2>5, <2>8, <2>10, <2>11, <2>12
<1>7. IntegerOver(f, 0 .. t * Degree - 1)
  <2>1. ASSUME NEW m \in 0 .. t * Degree - 1
        PROVE  f[m] \in Int
    <3>1. f[m] = ValueTerm(row, step, i, m)
      BY <1>5 DEF ValueTerms
    <3>2. row[m] \in Int
      OBVIOUS
    <3> QED BY <3>1, <3>2 DEF ValueTerm
  <2> QED BY <2>1 DEF IntegerOver
<1>8. Total(f, 0 .. t * Degree - 1)
          = Total([u \in 0 .. t - 1 |-> Total(BlockOf(f, u), Positions)], 0 .. t - 1)
  BY <1>7, SumInBlocks
<1>9. [u \in 0 .. t - 1 |-> Total(BlockOf(f, u), Positions)]
          = BlockValues(row, t, step, i)
  BY <1>6 DEF BlockValues
<1>10. RowAt(row, t, step, p)[i] = Total(f, 0 .. t * Degree - 1) % p
  <2>1. RowAt(row, t, step, p)[i]
            = Total(ValueTerms(row, step, i, t * Degree), 0 .. t * Degree - 1) % p
    BY RowAtIs
  <2> QED BY <1>5, <2>1, Zenon
<1>11. RowAt(row, t, step, p)[i]
           = Total(BlockValues(row, t, step, i), 0 .. t - 1) % p
  BY <1>8, <1>9, <1>10, Zenon
<1> QED BY <1>4, <1>11

LEMMA ScaledExt ==
    ASSUME NEW p \in Nat \ {0}, NEW last, Numeric(last), NEW inv \in Int, NEW B,
           \A x \in Positions : B[x] = (last[x] * inv) % p, NEW m \in Int
    PROVE  Same(Ext(B, m), inv * Ext(last, m), p)
<1>1. PICK e \in Int, x \in Positions :
          m = e * Degree + x /\ (m \div Degree) = e /\ (m % Degree) = x
  BY Places
<1>2. PICK s, a, b : s = Sgn(e) /\ a = last[x] /\ b = B[x]
  OBVIOUS
<1>3. s \in Int /\ a \in Int /\ Ext(last, m) = s * a /\ Ext(B, m) = s * b
  <2>1. s \in Int /\ a \in Int
    BY <1>2, SgnOf DEF Numeric
  <2> QED BY <1>1, <1>2, <2>1 DEF Ext
<1>4. PICK y \in Int : y = a * inv
  BY <1>3
<1>5. b = y % p
  BY <1>2, <1>4
<1>6. Same(b, y, p)
  BY <1>5, SameRules
<1>7. Same(s * b, s * y, p)
  BY <1>3, <1>6, SameSums
<1>8. s * y = inv * (s * a)
  BY <1>3, <1>4
<1> QED BY <1>3, <1>7, <1>8

LEMMA FourierAt ==
    ASSUME NEW t, NEW L, NEW r, IsDegree(t, L, r), NEW c, NEW u \in Int, NEW col \in Int,
           NEW i \in Int
    PROVE  Fourier(c, L, 0, -r, 0, u, i - u * (r * col))
               = Total([n \in 0 .. t - 1 |-> Ext(c[n], i + (r * (n - col)) * u)], 0 .. t - 1)
<1>1. /\ L \in Nat /\ PowersUpTo(L) /\ t = 2 ^ L /\ t \in Nat \ {0} /\ r \in Nat \ {0}
      /\ 2 ^ 0 = 1
  BY DEF IsDegree, PowersUpTo
<1>2. ASSUME NEW n \in 0 .. t - 1
      PROVE  Ext(c[0 + n * 2 ^ 0], (i - u * (r * col)) - ((-r) * 2 ^ 0) * (n * u))
                 = Ext(c[n], i + (r * (n - col)) * u)
  <2>1. n \in Int /\ r \in Int
    BY <1>1
  <2>2. 0 + n * 2 ^ 0 = n /\ (-r) * 2 ^ 0 = -r
    BY <1>1, <2>1
  <2>3. PICK a, b : a = u * (r * col) /\ b = r * (n * u)
    OBVIOUS
  <2>4. a \in Int /\ b \in Int
    BY <2>1, <2>3
  <2>5. (-r) * (n * u) = -b
    <3>1. (-r) * (n * u) = -(r * (n * u))
      BY <2>1
    <3> QED BY <2>3, <3>1
  <2>6. (r * (n - col)) * u = b - a
    <3>1. (r * (n - col)) * u = r * (n * u) - u * (r * col)
      BY <2>1
    <3> QED BY <2>3, <3>1
  <2>7. (i - a) - (-b) = i + (b - a)
    BY <2>4
  <2> QED BY <2>2, <2>3, <2>5, <2>6, <2>7
<1>3. FourierTerms(c, L, 0, -r, 0, u, i - u * (r * col))
          = [n \in 0 .. t - 1 |-> Ext(c[n], i + (r * (n - col)) * u)]
  <2>1. FourierTerms(c, L, 0, -r, 0, u, i - u * (r * col))
            = [n \in 0 .. t - 1 |->
                  Ext(c[0 + n * 2 ^ 0], (i - u * (r * col)) - ((-r) * 2 ^ 0) * (n * u))]
    BY <1>1, Zenon DEF FourierTerms
  <2>2. [n \in 0 .. t - 1 |->
            Ext(c[0 + n * 2 ^ 0], (i - u * (r * col)) - ((-r) * 2 ^ 0) * (n * u))]
            = [n \in 0 .. t - 1 |-> Ext(c[n], i + (r * (n - col)) * u)]
    BY <1>2, Zenon
  <2> QED BY <2>1, <2>2, Zenon
<1> QED BY <1>1, <1>3, Zenon DEF Fourier

\* All values of a row together give its entries back, t times.
LEMMA ColumnSum ==
    ASSUME NEW t, NEW L, NEW r, IsDegree(t, L, r), NEW c, \A n \in 0 .. t - 1 : Numeric(c[n]),
           NEW col \in 0 .. t - 1, NEW i \in Positions
    PROVE  Total([u \in 0 .. t - 1 |->
                     Total([n \in 0 .. t - 1 |-> Ext(c[n], i + (r * (n - col)) * u)], 0 .. t - 1)],
                 0 .. t - 1)
               = t * c[col][i]
<1>1. t \in Nat \ {0} /\ r \in Int /\ i \in Int
  BY PlacesAre DEF IsDegree
<1>2. PICK K : K = 0 .. t - 1
  OBVIOUS
<1>3. IsFiniteSet(K) /\ col \in K /\ \A n \in K : n \in Int /\ Numeric(c[n])
  <2>1. IsFiniteSet(K)
    BY <1>1, <1>2, FS_Interval
  <2>2. col \in K /\ \A n \in K : n \in Int
    BY <1>2
  <2> QED BY <1>2, <2>1, <2>2
<1>4. PICK F : F = [u \in K |-> [n \in K |-> Ext(c[n], i + (r * (n - col)) * u)]]
  OBVIOUS
<1>5. ASSUME NEW u \in K, NEW n \in K
      PROVE  F[u][n] = Ext(c[n], i + (r * (n - col)) * u) /\ F[u][n] \in Int
  <2>1. F[u][n] = Ext(c[n], i + (r * (n - col)) * u)
    BY <1>4
  <2>2. col \in Int /\ n \in Int /\ u \in Int
    BY <1>3
  <2>3. (r * (n - col)) * u \in Int
    BY <1>1, <2>2
  <2>4. PICK m \in Int : m = i + (r * (n - col)) * u
    BY <1>1, <2>3
  <2>5. 0 \in Int
    OBVIOUS
  <2>6. Ext(c[n], m) \in Int
    BY <1>3, <2>5, ExtShift
  <2> QED BY <2>1, <2>4, <2>6
<1>6. \A u \in K : IntegerOver(F[u], K)
  BY <1>5 DEF IntegerOver
<1>7. Total(Inner(F, K, K), K) = Total(Across(F, K, K), K)
  BY <1>3, <1>6, Exchange
<1>8. Inner(F, K, K)
          = [u \in K |-> Total([n \in K |-> Ext(c[n], i + (r * (n - col)) * u)], K)]
  <2>1. \A u \in K : F[u] = [n \in K |-> Ext(c[n], i + (r * (n - col)) * u)]
    BY <1>4, Zenon
  <2> QED BY <2>1, Zenon DEF Inner
<1>9. PICK g : g = Across(F, K, K)
  OBVIOUS
<1>10. ASSUME NEW n \in K
       PROVE  g[n] = Total(TurnsOf(c[n], i, r * (n - col), t), K)
  <2>1. g[n] = Total([u \in K |-> F[u][n]], K)
    BY <1>9, Zenon DEF Across
  <2>2. [u \in K |-> F[u][n]] = [u \in K |-> Ext(c[n], i + (r * (n - col)) * u)]
    BY <1>5, Zenon
  <2>3. TurnsOf(c[n], i, r * (n - col), t) = [u \in K |-> Ext(c[n], i + (r * (n - col)) * u)]
    BY <1>2, Zenon DEF TurnsOf
  <2> QED BY <2>1, <2>2, <2>3, Zenon
<1>11. ASSUME NEW n \in K, n # col
       PROVE  g[n] = 0
  <2>1. PICK x \in Int : x = n - col
    BY <1>3
  <2>2. x # 0 /\ -t < x /\ x < t
    BY <1>1, <1>2, <1>11, <2>1
  <2>3. Total(TurnsOf(c[n], i, r * x, t), 0 .. t - 1) = 0
    BY <1>1, <1>3, <2>2, Orthogonal
  <2> QED BY <1>2, <1>10, <2>1, <2>3, Zenon
<1>12. g[col] = t * c[col][i]
  <2>1. PICK y : y = c[col][i]
    OBVIOUS
  <2>2. y \in Int
    BY <1>3, <2>1 DEF Numeric
  <2>3. PICK f : f = TurnsOf(c[col], i, r * (col - col), t)
    OBVIOUS
  <2>4. ASSUME NEW u \in 0 .. t - 1
        PROVE  f[u] = y
    <3>1. f[u] = Ext(c[col], i + (r * (col - col)) * u)
      BY <2>3 DEF TurnsOf
    <3>2. col \in Int /\ u \in Int
      BY <1>1
    <3>3. i + (r * (col - col)) * u = i
      <4>1. col - col = 0 /\ r * 0 = 0 /\ 0 * u = 0 /\ i + 0 = i
        BY <1>1, <3>2
      <4> QED BY <4>1
    <3>4. Ext(c[col], i) = y
      <4>1. 0 \in Int
        OBVIOUS
      <4> QED BY <1>3, <2>1, <4>1, ExtAt
    <3> QED BY <3>1, <3>3, <3>4
  <2>5. PICK run : run = [k \in 0 .. t |-> k * y]
    OBVIOUS
  <2>6. RunningSums(run, f, t)
    <3>1. run[0] = 0
      BY <1>1, <2>2, <2>5
    <3>2. ASSUME NEW k \in 0 .. t - 1
          PROVE  f[k] \in Int /\ run[k + 1] = f[k] + run[k]
      <4>1. k \in 0 .. t /\ k + 1 \in 0 .. t /\ k \in Int
        BY <1>1
      <4>2. (k + 1) * y = y + k * y
        BY <2>2, <4>1
      <4> QED BY <2>2, <2>4, <2>5, <4>1, <4>2
    <3> QED BY <3>1, <3>2 DEF RunningSums
  <2>7. Total(f, 0 .. t - 1) = run[t]
    BY <1>1, <2>6, SumUpTo
  <2>8. run[t] = t * y
    <3>1. t \in 0 .. t
      BY <1>1
    <3> QED BY <2>5, <3>1
  <2> QED BY <1>2, <1>3, <1>10, <2>1, <2>3, <2>7, <2>8, Zenon
<1>13. g[col] \in Int
  <2>1. c[col][i] \in Int /\ t \in Int
    BY <1>1, <1>3 DEF Numeric
  <2> QED BY <1>12, <2>1
<1>14. Total(g, K) = g[col]
  BY <1>3, <1>11, <1>13, SumOfOne
<1> QED BY <1>2, <1>7, <1>8, <1>9, <1>12, <1>14, Zenon

\* An entry of a row, modulo p.
EntryAt(row, col, p) == Poly(LAMBDA i : row[col * Degree + i] % p)

\* A row of t entries is interpolated to a polynomial over Z_p[X]/(X^d + 1) that
\* has the entries as its values at the powers of X^(2d/t).
THEOREM RowEvaluates ==
    ASSUME NEW t \in Nat, NEW p \in Nat \ {0}, NEW row, InterpolationOK(row, t, p),
           \A x \in 0 .. t * Degree - 1 : row[x] \in Int, NEW col \in 0 .. t - 1
    PROVE  RowAt(Interpolate(row, t, p), t, ((2 * Degree) \div t) * col, p)
               = EntryAt(row, col, p)
<1>1. PICK L, r : IsDegree(t, L, r) /\ LogOf(t) = L /\ (2 * Degree) \div t = r
  BY DegreeOf
<1>2. /\ L \in Nat /\ PowersUpTo(L) /\ t = 2 ^ L /\ t \in Nat \ {0} /\ r \in Nat \ {0}
      /\ r \in Int /\ t \in Int
  BY <1>1 DEF IsDegree
<1>3. PICK step \in Int : step = r * col
  BY <1>2
<1>4. PICK R : R = Interpolate(row, t, p)
  OBVIOUS
<1>5. PICK d : d = Degree
  OBVIOUS
<1>6. d \in Nat \ {0}
  BY <1>5, PlacesAre
<1>7. ASSUME NEW u \in 0 .. t - 1, NEW x \in Positions
      PROVE  /\ u * Degree + x \in 0 .. t * Degree - 1
             /\ u * Degree + x \in 0 .. Degree * t - 1
  <2>1. PICK y : y = u * d
    OBVIOUS
  <2>2. x \in Int /\ 0 <= x /\ x < d
    BY <1>5, PlacesAre
  <2>3. y \in Nat /\ y + d <= t * d /\ t * d \in Nat /\ t * d = d * t
    <3>1. u + 1 \in Nat /\ u + 1 <= t /\ t \in Nat /\ d \in Nat /\ d <= d /\ u \in Nat
      BY <1>2, <1>6
    <3>2. (u + 1) * d <= t * d
      BY <3>1, Products
    <3>3. (u + 1) * d = u * d + d /\ u * d \in Nat /\ t * d \in Nat /\ t * d = d * t
      BY <3>1
    <3> QED BY <2>1, <3>2, <3>3
  <2>4. PICK N : N = t * d
    OBVIOUS
  <2>5. y + x \in 0 .. N - 1 /\ d * t = N
    BY <1>6, <2>2, <2>3, <2>4
  <2> QED BY <1>5, <2>1, <2>4, <2>5
<1>8. ASSUME NEW i \in Positions
      PROVE  RowAt(R, t, step, p)[i] = row[col * Degree + i] % p
  <2>1. PICK y \in Int : y = row[col * Degree + i]
    BY <1>7
  <2>2. i \in Int
    BY PlacesAre
  <2>3. CASE t = 1
    <3>1. R = row
      BY <1>4, <2>3 DEF Interpolate
    <3>2. col = 0 /\ step = 0
      BY <1>2, <1>3, <2>3
    <3>3. RowAt(R, t, step, p)[i] = Total(BlockValues(R, t, step, i), 0 .. t - 1) % p
          /\ \A u \in 0 .. t - 1 : Numeric(BlockOf(R, u))
      <4>1. \A m \in 0 .. t * Degree - 1 : R[m] \in Int
        BY <3>1
      <4>2. RowAt(R, t, step, p)[i] = Total(BlockValues(R, t, step, i), 0 .. t - 1) % p
        BY <1>2, <4>1, ValueIs
      <4>3. \A u \in 0 .. t - 1 : Numeric(BlockOf(R, u))
        BY <1>2, <4>1, ValueIs
      <4> QED BY <4>2, <4>3
    <3>4. PICK f, K : f = BlockValues(R, t, step, i) /\ K = 0 .. t - 1
      OBVIOUS
    <3>5. 0 \in K /\ \A x \in K : x = 0
      BY <2>3, <3>4
    <3>6. IsFiniteSet(K)
      BY <1>2, <3>4, FS_Interval
    <3>7. f[0] = y
      <4>1. f[0] = Ext(BlockOf(R, 0), i - 0 * step)
        BY <3>4, <3>5 DEF BlockValues
      <4>2. i - 0 * step = i
        BY <2>2
      <4>3. 0 \in Int /\ Numeric(BlockOf(R, 0))
        BY <3>3, <3>4, <3>5
      <4>4. Ext(BlockOf(R, 0), i) = BlockOf(R, 0)[i]
        BY <4>3, ExtAt
      <4>5. BlockOf(R, 0)[i] = row[0 * Degree + i]
        BY <3>1 DEF BlockOf
      <4> QED BY <2>1, <3>2, <4>1, <4>2, <4>4, <4>5
    <3>8. Total(f, K) = f[0]
      BY <3>5, <3>6, <3>7, SumOfOne
    <3> QED BY <2>1, <3>3, <3>4, <3>7, <3>8
  <2>4. CASE t # 1
    <3>1. (p % 2) = 1
      BY <2>4 DEF InterpolationOK
    <3>2. PICK stage :
              /\ AreStages(stage, row, t, L, p)
              /\ Interpolate(row, t, p)
                     = Divided(stage[L], Degree * t, ModInverse(t % p, p), p)
      BY <1>1, <1>2, <2>4, InterpolateIs
    <3>3. PICK inv \in Int : inv = ModInverse(t % p, p) /\ Same(inv * t, 1, p)
      BY <1>1, <3>1, DegreeInverse
    <3>4. PICK c : c = EntriesOf(row, t, p)
      OBVIOUS
    <3>5. ASSUME NEW u \in 0 .. t - 1
          PROVE  /\ Numeric(stage[L][u])
                 /\ \A m \in Int : Same(Ext(stage[L][u], m), Fourier(c, L, 0, -r, 0, u, m), p)
      BY <1>1, <3>2, <3>4, LastStage
    <3>6. ASSUME NEW u \in 0 .. t - 1, NEW x \in Positions
          PROVE  /\ R[u * Degree + x] = (stage[L][u][x] * inv) % p
                 /\ R[u * Degree + x] \in Int
      <4>1. PICK m \in 0 .. Degree * t - 1 : m = u * Degree + x
        BY <1>7
      <4>2. (m \div Degree) = u /\ (m % Degree) = x
        <5>1. u \in Int
          OBVIOUS
        <5> QED BY <4>1, <5>1, PlaceOf
      <4>3. R[m] = (stage[L][u][x] * inv) % p
        BY <1>4, <3>2, <3>3, <4>2, Zenon DEF Divided
      <4>4. PICK a \in Int : a = stage[L][u][x]
        BY <3>5 DEF Numeric
      <4>5. (a * inv) % p \in Int
        <5>1. a * inv \in Int
          OBVIOUS
        <5> QED BY <5>1, Division
      <4> QED BY <4>1, <4>3, <4>4, <4>5
    <3>7. \A m \in 0 .. t * Degree - 1 : R[m] \in Int
      <4> SUFFICES ASSUME NEW m \in 0 .. t * Degree - 1
                   PROVE  R[m] \in Int
        OBVIOUS
      <4>1. m \in Int /\ 0 <= m /\ m < t * d /\ t * d \in Nat
        BY <1>2, <1>5, <1>6
      <4>2. PICK u \in Int, x \in Positions :
                m = u * Degree + x /\ (m \div Degree) = u /\ (m % Degree) = x
        BY <4>1, Places
      <4>3. u \in 0 .. t - 1
        <5>1. x \in Int /\ 0 <= x /\ x < d /\ m = u * d + x
          BY <1>5, <4>2, PlacesAre
        <5>2. d * u < d * t
          BY <1>2, <1>6, <4>1, <5>1
        <5>3. u < t
          BY <1>2, <1>6, <5>2, Cancel
        <5>4. d * (-1) < d * u
          BY <1>6, <4>1, <5>1
        <5>5. -1 < u
          BY <1>6, <5>4, Cancel
        <5> QED BY <1>2, <5>3, <5>5
      <4> QED BY <3>6, <4>2, <4>3
    <3>8. PICK K : K = 0 .. t - 1
      OBVIOUS
    <3>9. IsFiniteSet(K)
      BY <1>2, <3>8, FS_Interval
    <3>10. PICK f : f = BlockValues(R, t, step, i)
      OBVIOUS
    <3>11. RowAt(R, t, step, p)[i] = Total(f, K) % p
      <4>1. RowAt(R, t, step, p)[i]
                = Total(BlockValues(R, t, step, i), 0 .. t - 1) % p
        BY <1>2, <3>7, ValueIs
      <4> QED BY <3>8, <3>10, <4>1, Zenon
    <3>12. PICK g : g = [u \in K |->
                            Total([n \in K |-> Ext(c[n], i + (r * (n - col)) * u)], K)]
      OBVIOUS
    <3>13. PICK h : h = [u \in K |-> inv * g[u]]
      OBVIOUS
    <3>14. ASSUME NEW u \in K
           PROVE  Same(f[u], h[u], p) /\ g[u] \in Int
      <4>1. u \in 0 .. t - 1 /\ u \in Int /\ col \in Int
        BY <1>2, <3>8
      <4>2. PICK m \in Int : m = i - u * step
        BY <2>2, <4>1
      <4>3. PICK B, last : B = BlockOf(R, u) /\ last = stage[L][u]
        OBVIOUS
      <4>4. Numeric(last) /\ Same(Ext(last, m), Fourier(c, L, 0, -r, 0, u, m), p)
        BY <3>5, <4>1, <4>3
      <4>5. \A x \in Positions : B[x] = (last[x] * inv) % p
        BY <3>6, <4>1, <4>3 DEF BlockOf
      <4>6. Same(Ext(B, m), inv * Ext(last, m), p)
        BY <4>4, <4>5, ScaledExt
      <4>7. Fourier(c, L, 0, -r, 0, u, i - u * (r * col))
                = Total([n \in 0 .. t - 1 |-> Ext(c[n], i + (r * (n - col)) * u)], 0 .. t - 1)
        BY <1>1, <2>2, <4>1, FourierAt
      <4>8. Fourier(c, L, 0, -r, 0, u, m) = g[u]
        BY <1>3, <3>8, <3>12, <4>2, <4>7, Zenon
      <4>9. Same(inv * Ext(last, m), inv * g[u], p) /\ g[u] \in Int
        <5>1. Same(Ext(last, m), g[u], p)
          BY <4>4, <4>8
        <5> QED BY <5>1, SameSums, SameRules
      <4>10. Same(Ext(B, m), inv * g[u], p)
        BY <4>6, <4>9, SameRules
      <4>11. f[u] = Ext(B, m) /\ h[u] = inv * g[u]
        BY <3>10, <3>13, <4>1, <4>2, <4>3 DEF BlockValues
      <4> QED BY <4>9, <4>10, <4>11
    <3>15. Same(Total(f, K), Total(h, K), p)
      BY <3>9, <3>14, SameTotals
    <3>16. Total(h, K) = inv * Total(g, K)
      <4>1. IsMultiple(h, inv, g, K)
        BY <3>13, <3>14 DEF IsMultiple
      <4> QED BY <3>9, <4>1, TimesTotal
    <3>17. PICK z \in Int : z = c[col][i] /\ z = y % p
      <4>1. c[col][i] = y % p
        BY <2>1, <3>4 DEF EntriesOf
      <4>2. y % p \in Int
        BY Division
      <4> QED BY <4>1, <4>2
    <3>18. Total(g, K) = t * z
      <4>1. ASSUME NEW n \in 0 .. t - 1
            PROVE  Numeric(c[n])
        <5>1. ASSUME NEW x \in Positions
              PROVE  c[n][x] \in Int
          <6>1. PICK w \in Int : w = row[n * Degree + x]
            BY <1>7
          <6>2. c[n][x] = w % p
            BY <3>4, <6>1 DEF EntriesOf
          <6> QED BY <6>2, Division
        <5> QED BY <5>1 DEF Numeric
      <4>2. Total([u \in 0 .. t - 1 |->
                      Total([n \in 0 .. t - 1 |-> Ext(c[n], i + (r * (n - col)) * u)],
                            0 .. t - 1)],
                  0 .. t - 1)
                = t * c[col][i]
        BY <1>1, <4>1, ColumnSum
      <4> QED BY <3>8, <3>12, <3>17, <4>2, Zenon
    <3>19. Same(inv * (t * z), y, p)
      <4>1. Same(z * (inv * t), z * 1, p)
        BY <3>3, SameSums
      <4>2. z * (inv * t) = inv * (t * z) /\ z * 1 = z
        BY <1>2
      <4>3. Same(z, y, p)
        BY <3>17, SameRules
      <4> QED BY <4>1, <4>2, <4>3, SameRules
    <3>20. PICK v : v = Total(f, K)
      OBVIOUS
    <3>21. Same(v, y, p)
      BY <3>15, <3>16, <3>18, <3>19, <3>20, SameRules
    <3>22. (v % p) = (y % p)
      <4>1. PICK k \in Int : v = y + p * k
        BY <3>21 DEF Same
      <4> QED BY <4>1, SameResidue
    <3> QED BY <2>1, <3>11, <3>20, <3>22
  <2> QED BY <2>3, <2>4
<1>9. RowAt(R, t, step, p) = [i \in Positions |-> row[col * Degree + i] % p]
  <2>1. 0 \in Positions
    BY PlacesAre
  <2>2. RowAt(R, t, step, p) = [j \in Positions |-> RowAt(R, t, step, p)[j]]
    BY <2>1, RowAtIs, Zenon
  <2>3. [j \in Positions |-> RowAt(R, t, step, p)[j]]
            = [i \in Positions |-> row[col * Degree + i] % p]
    BY <1>8, Zenon
  <2> QED BY <2>2, <2>3, Zenon
<1>10. EntryAt(row, col, p) = [i \in Positions |-> row[col * Degree + i] % p]
  BY TabulatedIs, Zenon DEF EntryAt, Poly
<1> QED BY <1>1, <1>3, <1>4, <1>9, <1>10, Zenon

LEMMA RowCaseIs ==
    ASSUME case \in AllCases, case.op = "row"
    PROVE  case.t \in RowLengths /\ case.t \in Nat /\ case.seed \in Int
<1>1. case # NoCase
  BY DEF NoCase
<1>2. case \in [op : {"row"}, t : RowLengths, seed : Seeds]
  BY <1>1 DEF AllCases, Cases
<1>3. case.seed \in Seeds /\ case.t \in RowLengths
  BY <1>2
<1>4. Seeds \subseteq Nat /\ RowLengths \subseteq Nat
  BY CasesAssumption, Zenon
<1>5. case.seed \in Nat /\ case.t \in Nat
  BY <1>3, <1>4
<1>6. \A k \in Nat : k \in Int
  OBVIOUS
<1> QED BY <1>3, <1>5, <1>6, Zenon

\* The row of a case.
RowOf(c) == Vector(c.t * Degree, LAMBDA i : Scattered(c.seed * 41 + i, PlaintextModulus))

\* One of its entries.
EntryOf(row, col) == Poly(LAMBDA i : row[col * Degree + i])

LEMMA RowEntries ==
    ASSUME case \in AllCases, case.op = "row", NEW col \in 0 .. case.t - 1
    PROVE  RowAt(Interpolate(RowOf(case), case.t, PlaintextModulus), case.t,
                 ((2 * Degree) \div case.t) * col, PlaintextModulus)
               = EntryOf(RowOf(case), col)
<1>1. PICK t, p, row : t = case.t /\ p = PlaintextModulus /\ row = RowOf(case)
  OBVIOUS
<1>2. t \in RowLengths /\ t \in Nat /\ case.seed \in Int
  BY <1>1, RowCaseIs
<1>3. p \in Nat \ {0}
  BY <1>1, RlweAssumption
<1>4. DOMAIN row = 0 .. t * Degree - 1
      /\ \A x \in 0 .. t * Degree - 1 : row[x] = Scattered(case.seed * 41 + x, p)
  <2>1. RowOf(case)
            = [i \in 0 .. case.t * Degree - 1 |-> Scattered(case.seed * 41 + i, PlaintextModulus)]
    BY TabulatedIs, Zenon DEF RowOf, Vector
  <2>2. /\ DOMAIN RowOf(case) = 0 .. case.t * Degree - 1
        /\ \A x \in 0 .. case.t * Degree - 1 :
               RowOf(case)[x] = Scattered(case.seed * 41 + x, PlaintextModulus)
    BY <2>1, Zenon
  <2> QED BY <1>1, <2>2, Zenon
<1>5. InterpolationOK(row, t, p)
  <2>1. PICK zero : zero = [i \in 0 .. t * Degree - 1 |-> 0]
    OBVIOUS
  <2>2. Vector(t * Degree, LAMBDA i : 0) = zero
    BY <2>1, TabulatedIs, Zenon DEF Vector
  <2>3. InterpolationOK(zero, t, p)
    BY <1>1, <1>2, <2>2, CasesAssumption, Zenon
  <2>4. DOMAIN row = DOMAIN zero
    BY <1>4, <2>1
  <2> QED BY <2>3, <2>4, Zenon DEF InterpolationOK
<1>6. ASSUME NEW x \in 0 .. t * Degree - 1
      PROVE  row[x] \in 0 .. p - 1
  <2>1. row[x] = Scattered(case.seed * 41 + x, p)
    BY <1>4, Zenon
  <2>2. case.seed * 41 + x \in Int
    BY <1>2
  <2> QED BY <1>3, <2>1, <2>2, ScatteredOf
<1>7. \A x \in 0 .. t * Degree - 1 : row[x] \in Int
  BY <1>6
<1>8. RowAt(Interpolate(row, t, p), t, ((2 * Degree) \div t) * col, p)
          = EntryAt(row, col, p)
  <2>1. col \in 0 .. t - 1
    BY <1>1
  <2> QED BY <1>2, <1>3, <1>5, <1>7, <2>1, RowEvaluates
<1>9. ASSUME NEW i \in Positions
      PROVE  row[col * Degree + i] % p = row[col * Degree + i]
  <2>1. PICK d, y : d = Degree /\ y = col * d
    OBVIOUS
  <2>2. d \in Nat \ {0} /\ i \in Int /\ 0 <= i /\ i < d
    BY <2>1, PlacesAre
  <2>3. y \in Nat /\ y + d <= t * d /\ t * d \in Nat
    <3>1. col + 1 \in Nat /\ col + 1 <= t /\ d \in Nat /\ d <= d /\ col \in Nat
      BY <1>1, <1>2, <2>2
    <3>2. (col + 1) * d <= t * d
      BY <1>2, <3>1, Products
    <3>3. (col + 1) * d = col * d + d /\ col * d \in Nat /\ t * d \in Nat
      BY <1>2, <3>1
    <3> QED BY <2>1, <3>2, <3>3
  <2>4. col * Degree + i \in 0 .. t * Degree - 1
    <3>1. PICK N : N = t * d
      OBVIOUS
    <3>2. y + i \in 0 .. N - 1
      BY <2>2, <2>3, <3>1
    <3> QED BY <2>1, <3>1, <3>2
  <2>5. PICK v \in 0 .. p - 1 : v = row[col * Degree + i]
    BY <1>6, <2>4
  <2>6. v = p * 0 + v /\ v \in Int /\ 0 \in Int
    BY <1>3
  <2>7. (v % p) = v
    BY <1>3, <2>6, DivisionOf
  <2> QED BY <2>5, <2>7
<1>10. EntryAt(row, col, p) = EntryOf(row, col)
  <2>1. /\ EntryAt(row, col, p) = [i \in Positions |-> row[col * Degree + i] % p]
        /\ EntryOf(row, col) = [i \in Positions |-> row[col * Degree + i]]
    BY TabulatedIs, Zenon DEF EntryAt, EntryOf, Poly
  <2>2. [i \in Positions |-> row[col * Degree + i] % p]
            = [i \in Positions |-> row[col * Degree + i]]
    BY <1>9, Zenon
  <2> QED BY <2>1, <2>2, Zenon
<1> QED BY <1>1, <1>8, <1>10, Zenon

\* Every row of the cases evaluates to its entries, whatever the degree and the
\* plaintext modulus.
THEOREM RowInterpolations == Spec => []RowsEvaluateToEntries
<1>1. case \in AllCases => RowsEvaluateToEntries
  <2> SUFFICES ASSUME case \in AllCases, case.op = "row"
               PROVE  RowsEvaluateToEntries
    BY DEF RowsEvaluateToEntries
  <2>1. \A col \in 0 .. case.t - 1 :
            RowAt(Interpolate(RowOf(case), case.t, PlaintextModulus), case.t,
                  ((2 * Degree) \div case.t) * col, PlaintextModulus)
                = EntryOf(RowOf(case), col)
    BY RowEntries
  <2> QED BY <2>1, Zenon DEF RowsEvaluateToEntries, RowOf, EntryOf
<1> QED BY <1>1, CasesInvariant, PTL
=============================================================================
