\* One key for everybody, as the web interface uses it, and no restart: the
\* chat test.
SPECIFICATION Spec
CONSTANTS
    A = A
    B = B
    demo = demo
    other = other
    Node <- Nodes
    Key <- OneKey
    DefaultKey = DefaultKey
    NoKey = NoKey
    NSends = 2
    MaxRestarts = 0
INVARIANT
    SentIsNotDropped
SYMMETRY NodeSymmetry
CHECK_DEADLOCK FALSE
