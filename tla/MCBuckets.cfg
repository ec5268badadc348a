CONSTANTS
    a1 = a1
    a2 = a2
    a3 = a3
    a4 = a4
    h1 = h1
    h2 = h2
    Addresses = {a1, a2, a3, a4}
    NoAddress = NoAddress
    Hashes = {h1, h2}
    HashOf <- MCHashOf
    NumBuckets = 3
    RelinkAfter = 0
    Burst = 1
    Period = 1
    MaxToxic = 1
SYMMETRY MCSymmetry
SPECIFICATION Spec
INVARIANTS
    ChainsWhole
    LimitsKept
PROPERTIES
    ImplementsTable
