CONSTANTS
    Modulus = 64
    UIntMax = 31
    Digits = {0, 1, 3}
    Sizes = {1, 3, 13}
    SendMax = 4
    MaxChars = 7
SPECIFICATION Spec
INVARIANTS
    RangesWithin
    NoRangeLost
PROPERTIES
    FixupExact
