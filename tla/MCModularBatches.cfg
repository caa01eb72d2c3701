\* Words of ten bits, doubles of nine, so that moduli from 64 on use Barrett
\* reduction: both ends of the two ranges, composites and primes.
SPECIFICATION Spec
CONSTANTS
    IntBits = 10
    FloatBits = 9
    BatchSize = 4
    BatchModuli = {3, 9, 31, 33, 61, 63, 65, 127, 129, 139, 255}
    MaxLength = 9
INVARIANTS
    ModularIntExact
    LanesExact
    WideProductsCongruent
    BatchesAgree
CHECK_DEADLOCK FALSE
