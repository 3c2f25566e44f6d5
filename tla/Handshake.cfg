\* Two calls answered by a responder and one by a plain node.
SPECIFICATION FairSpec
CONSTANTS
    c1 = c1
    c2 = c2
    c3 = c3
    Call <- Calls
    m1 = m1
    Kind <- Kinds
    MessageKey <- Messages
    Nothing = Nothing
INVARIANTS
    IInv
    ReturnedIsHeld
    FailureHasCause
PROPERTIES
    HandshakeEnds
    ImplementsKeyAgreement
CHECK_DEADLOCK FALSE
