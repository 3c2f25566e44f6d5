\* A reply decrypted with the key of another peer than the one that answered.
SPECIFICATION Spec
CONSTANTS
    NWorkers = 2
    NPeers = 2
    NbChunks = 3
    MaxRetries = 2
    MaxPushes = 0
    Key = {0, 1}
    ClientKey <- OwnKey
    ServerKey <- OwnKey
    InitialChunks <- NoneHeld
    InitialStores <- EachSomewhere
INVARIANT
    AnswerIsFromCurrentPeer
CHECK_DEADLOCK FALSE
