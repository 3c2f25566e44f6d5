\* Two nodes, each in its own directory, which restart on any of two ports.
SPECIFICATION FairSpec
CONSTANTS
    A = A
    B = B
    project = project
    Node <- Nodes
    Dir <- Nodes
    DirOf <- OwnDir
    Port = {7777, 7778}
    HelloInterval = 2
    PeerTimeout = 3
    MaxStarts = 2
    Absent = Absent
    Torn = Torn
    NoId = NoId
    NoPort = NoPort
    NoEntry = NoEntry
INVARIANTS
    IInv
    GoneIsForgotten
    IdentityIsOnDisk
PROPERTIES
    ListedIsNotRemoved
    NodesFindEachOther
    AddressSettles
CHECK_DEADLOCK FALSE
