\* Three sends between two nodes with two keys, and a restart of each.
SPECIFICATION Spec
CONSTANTS
    A = A
    B = B
    demo = demo
    other = other
    Node <- Nodes
    Key <- Keys
    DefaultKey = DefaultKey
    NoKey = NoKey
    NSends = 3
    MaxRestarts = 1
INVARIANTS
    IInv
    AnswerIsReadable
    PairReadsChunks
SYMMETRY NodeAndKeySymmetry
CHECK_DEADLOCK FALSE
