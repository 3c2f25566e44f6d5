\* Writers one after the other, readers at any time, crashes.
SPECIFICATION Spec
CONSTANTS
    n1 = n1
    n2 = n2
    k1 = k1
    k2 = k2
    NoEntry = NoEntry
    Node <- Nodes
    Fingerprint <- Keys
    NOps = 4
    SerialWriters = TRUE
INVARIANTS
    IInv
    RevocationIsSeen
    ApprovalIsSeen
    OneFingerprint
PROPERTY
    ImplementsTrustLedger
SYMMETRY NodeAndKeySymmetry
CHECK_DEADLOCK FALSE
