\* Writers at once: a revocation is written away.
SPECIFICATION Spec
CONSTANTS
    n1 = n1
    n2 = n2
    k1 = k1
    k2 = k2
    NoEntry = NoEntry
    Node <- Nodes
    Fingerprint <- OneKey
    NOps = 4
    SerialWriters = FALSE
INVARIANT
    RevocationIsSeen
SYMMETRY NodeSymmetry
CHECK_DEADLOCK FALSE
