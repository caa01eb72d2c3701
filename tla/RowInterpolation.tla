-------------------------- MODULE RowInterpolation --------------------------
(***************************************************************************)
(* Interpolation of one database row (db_row_interpolation.cc).  A row is  *)
(* t entries of d coefficients modulo p, read as the values of a           *)
(* polynomial over Z_p[X]/(X^d + 1) at the t powers of X^(2d/t), and       *)
(* replaced by the t coefficients of that polynomial: an inverse FFT in    *)
(* place.  Arithmetic modulo p is ModularInt's, taken to be exact here.    *)
(***************************************************************************)
EXTENDS Polynomials

\* The number of stages, for a power of two t.
LogOf(t) == CHOOSE k \in 0 .. t : 2 ^ k = t

BitReverse(n, bits) ==
    SumOf(LAMBDA k : ((n \div 2 ^ k) % 2) * 2 ^ (bits - 1 - k), bits)

\* X^power poly for any power, modulo X^d + 1 and p.
MultiplyByXPower(poly, power, p) ==
    LET shift == power % Degree
        negateAll == power % (2 * Degree) >= Degree
    IN  Poly(LAMBDA i :
            LET val == IF i < shift THEN poly[Degree - shift + i] ELSE poly[i - shift]
            IN  IF (i < shift) # negateAll THEN (-val) % p ELSE val)

\* The extended Euclidean algorithm, for coprime a and m; the loop ends before
\* it has run m times.
ModInverse(a, m) ==
    LET loop[k \in 0 .. m] ==
            IF k = 0 THEN [t |-> 0, newT |-> 1, r |-> m, newR |-> a]
            ELSE LET s == loop[k - 1]
                 IN  IF s.newR = 0 THEN s
                     ELSE [t |-> s.newT, newT |-> s.t - (s.r \div s.newR) * s.newT,
                           r |-> s.newR, newR |-> s.r % s.newR]
    IN  IF loop[m].t < 0 THEN loop[m].t + m ELSE loop[m].t

\* The rows Interpolate accepts.
InterpolationOK(row, t, p) ==
    /\ Cardinality(DOMAIN row) = Degree * t
    /\ \E k \in 0 .. t : 2 ^ k = t
    /\ t <= 2 * Degree
    /\ t = 1 \/ p % 2 = 1

\* The entries of a row, as polynomials, in bit-reversed order.
ReversedEntries(row, t, p) ==
    Vector(t, LAMBDA i : Poly(LAMBDA j : row[BitReverse(i, LogOf(t)) * Degree + j] % p))

\* The forward transform in place of the inverse one.
SlipInverseStep(half) == (2 * Degree) \div (2 * half)

\* The power of X that is the inverse of the root of unity for blocks of 2 half
\* values.
InverseStep(half) == (2 * Degree - (2 * Degree) \div (2 * half)) % (2 * Degree)

ModAdd(u, v, p) == Poly(LAMBDA i : (u[i] + v[i]) % p)

ModSub(u, v, p) == Poly(LAMBDA i : (u[i] - v[i]) % p)

\* One stage, on blocks of 2 half values.
Butterflies(before, t, half, p) ==
    LET Twisted(x, j) == MultiplyByXPower(before[x], j * InverseStep(half), p)
    IN  Vector(t, LAMBDA x :
            IF x % (2 * half) < half
            THEN ModAdd(before[x], Twisted(x + half, x % (2 * half)), p)
            ELSE ModSub(before[x - half], Twisted(x, (x % (2 * half)) - half), p))

\* A row of one entry comes back as it is, not even reduced modulo p.
Interpolate(row, t, p) ==
    LET stage[k \in 0 .. LogOf(t)] ==
            IF k = 0 THEN ReversedEntries(row, t, p)
            ELSE Butterflies(stage[k - 1], t, 2 ^ (k - 1), p)
        last == stage[LogOf(t)]
        inverse == ModInverse(t % p, p)
    IN  IF t = 1 THEN row
        ELSE Vector(Degree * t, LAMBDA m : (last[m \div Degree][m % Degree] * inverse) % p)
=============================================================================
