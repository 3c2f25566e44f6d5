\* Ten transfers, two calls of waitForCompletion().
SPECIFICATION FairSpec
CONSTANTS
    Transfer <- Transfers
    Waiter = {w1, w2}
    NoWaiter = NoWaiter
INVARIANTS
    IInv
    PublishedIsWhole
    OnlyGrowthFails
    EarlyWaiterIsAnswered
PROPERTIES
    PublishedIsStable
    TransferEnds
    OnlyWaiterIsAnswered
CHECK_DEADLOCK FALSE
