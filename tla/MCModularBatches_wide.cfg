SPECIFICATION Spec
CONSTANTS
    IntBits = 10
    FloatBits = 9
    BatchSize = 4
    BatchModuli = {139}
    MaxLength = 0
INVARIANT
    WideProductsExact
CHECK_DEADLOCK FALSE
