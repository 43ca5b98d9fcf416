CONSTANTS
    f1 = f1
    f2 = f2
    f3 = f3
    h1 = h1
    h2 = h2
    h3 = h3
    h4 = h4
    Holders = {h1, h2, h3, h4}
    Files = {f1, f2, f3}
    Size = 3
    UseMax = 1
    Hash <- MCHash
    NONE = NONE
SPECIFICATION CacheSpec
SYMMETRY Symmetry
INVARIANTS
    RefCounts
    EntriesUsed
    DataMapped
    NoOrphan
