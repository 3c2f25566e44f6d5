\* Two nodes started in one directory, as in the guide of README.md.
SPECIFICATION FairSpec
CONSTANTS
    A = A
    B = B
    project = project
    Node <- Nodes
    Dir = {project}
    DirOf <- SharedDir
    Port = {7777, 7778}
    HelloInterval = 2
    PeerTimeout = 3
    MaxStarts = 2
    Absent = Absent
    Torn = Torn
    NoId = NoId
    NoPort = NoPort
    NoEntry = NoEntry
PROPERTY
    NodesFindEachOther
CHECK_DEADLOCK FALSE
