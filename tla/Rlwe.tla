-------------------------------- MODULE Rlwe --------------------------------
(***************************************************************************)
(* RLWE and RGSW ciphertexts over Z_q[X]/(X^d + 1), q = 2^LogModulus       *)
(* (encryption.cc, external_product.cc).  Nothing is random here: the a    *)
(* components and the errors that the code samples are arguments.          *)
(***************************************************************************)
EXTENDS Polynomials

CONSTANTS
    LogModulus,       \* log2 of the ring modulus q
    LogModulus1,      \* log2 of the modulus the a component is switched to
    LogModulus2,      \* log2 of the modulus the b component is switched to
    PlaintextModulus  \* p

\* RlweParams::Create, for a modulus written as its logarithm.
ASSUME RlweAssumption ==
    /\ LogModulus \in 1 .. CoeffBits
    /\ LogModulus1 \in 1 .. LogModulus
    /\ LogModulus2 \in 1 .. LogModulus1
    /\ PlaintextModulus \in Nat \ {0, 1}

Modulus == 2 ^ LogModulus

\* Every mask with q - 1.
ToRing(x) == x % 2 ^ LogModulus

Ciphertext(a, b) == [a |-> a, b |-> b]

\* A ternary key with its coefficients in {-1, 0, 1}, as it is stored.
SecretKey(coeffs) == Poly(LAMBDA i : ToRing(coeffs[i]))

\* GenerateRlweSamples for one a component and the error sampled with it.
RlweSample(a, e, secretKey) ==
    LET as == NttMult(a, secretKey)
    IN  Ciphertext(a, Poly(LAMBDA i : ToRing(ToCoeff(e[i] - as[i]))))

\* The half of p that rounds m q / p to the nearest forgotten, and q / p
\* truncated before it is multiplied.
SlipScaled(m) == m * (2 ^ LogModulus \div PlaintextModulus)

Scaled(m) == (m * 2 ^ LogModulus + PlaintextModulus \div 2) \div PlaintextModulus

EncryptFromRlweSample(sample, message) ==
    Ciphertext(sample.a, Poly(LAMBDA i : ToRing(sample.b[i] + Scaled(message[i]))))

\* round(v p / 2^logModulus) mod p.
Decoded(v, logModulus) ==
    ((v * PlaintextModulus + 2 ^ logModulus \div 2) \div 2 ^ logModulus) % PlaintextModulus

\* What a ciphertext holds before it is decoded: b + a s mod q.
Phase(ct, secretKey) ==
    LowBits(PolyAdd(ct.b, NttMult(ct.a, secretKey)), LogModulus)

Decrypt(ct, secretKey) ==
    LET noisy == Phase(ct, secretKey) IN Poly(LAMBDA i : Decoded(noisy[i], LogModulus))

\* b is modulo q2 already; a s is formed modulo q1 and then rescaled to q2.
DecryptAfterModulusSwitch(ct, secretKey) ==
    LET as == LowBits(NttMult(ct.a, secretKey), LogModulus1)
        noisy == LowBits(PolyAdd(ct.b, Rescale(as, LogModulus1, LogModulus2)), LogModulus2)
    IN  Poly(LAMBDA i : Decoded(noisy[i], LogModulus2))

-----------------------------------------------------------------------------
(* Gadget and RGSW ciphertexts: vectors of ciphertexts, one for each digit. *)

\* The bits an approximate gadget leaves out not counted.
SlipGadgetShift(gadget, k) == k * gadget.logDigit

GadgetShift(gadget, k) ==
    LET excluded == LogModulus - gadget.numDigits * gadget.logDigit
    IN  k * gadget.logDigit + (IF excluded > 0 THEN excluded ELSE 0)

\* EncryptGadgetCiphertextFromRlweSamples.
EncryptGadget(gadget, samples, message) ==
    Vector(gadget.numDigits, LAMBDA k :
        Ciphertext(samples[k].a,
            Poly(LAMBDA i : ToRing(ToCoeff(samples[k].b[i]
                                    + ShiftLeft(message[i], GadgetShift(gadget, k)))))))

IsMonomial(message) ==
    \E k \in Positions : /\ message[k] \in {1, ToRing(-1)}
                         /\ \A i \in Positions \ {k} : message[i] = 0

\* message times the key: a signed shift when the message is a monomial (its
\* fast path), a product otherwise.
TimesKey(message, secretKey) ==
    IF IsMonomial(message)
    THEN LET k == CHOOSE k \in Positions : message[k] # 0
             negative == message[k] = ToRing(-1)
         IN  Poly(LAMBDA j :
                 LET coeff == IF j < k THEN secretKey[Degree + j - k] ELSE secretKey[j - k]
                     negate == (j < k) # negative
                 IN  IF negate THEN ToRing(-coeff) ELSE coeff)
    ELSE NttMult(message, secretKey)

\* EncryptRgswCiphertextFromRlweSamples.
EncryptRgsw(gadget, uSamples, vSamples, secretKey, message) ==
    [u |-> EncryptGadget(gadget, uSamples, TimesKey(message, secretKey)),
     v |-> EncryptGadget(gadget, vSamples, message)]

\* The digits of a and b against the rows u and v of an RGSW ciphertext.
ExternalProduct(gadget, ct, rgsw) ==
    LET n == gadget.numDigits
        aDigits == GadgetInv(LowBits(ct.a, LogModulus), LogModulus, gadget)
        bDigits == GadgetInv(LowBits(ct.b, LogModulus), LogModulus, gadget)
        digits == Vector(2 * n, LAMBDA k : IF k < n THEN aDigits[k] ELSE bDigits[k - n])
        row(k) == IF k < n THEN rgsw.u[k] ELSE rgsw.v[k - n]
        product(Half(_)) ==
            InnerProductFft(digits, Vector(2 * n, Half), gadget.logDigit, LogModulus, FALSE)
    IN  Ciphertext(product(LAMBDA k : row(k).a), product(LAMBDA k : row(k).b))

-----------------------------------------------------------------------------
(* Measures of error, for stating what the operations above achieve        *)

Magnitude(x) == IF x < 0 THEN -x ELSE x

\* The largest distance, modulo q, between coefficients of two polynomials.
Distance(p, r) ==
    Max({ Magnitude(Signed(p[i] - r[i], LogModulus)) : i \in Positions })
=============================================================================
