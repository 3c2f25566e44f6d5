\* Three workers and two peers with a key each.
SPECIFICATION FairSpec
CONSTANTS
    NWorkers = 3
    NPeers = 2
    NbChunks = 2
    MaxRetries = 2
    MaxPushes = 1
    Key = {0, 1}
    ClientKey <- OwnKey
    ServerKey <- OwnKey
    InitialChunks <- MayBeHeld
    InitialStores <- Spread
INVARIANTS
    IInv
    ExclusiveFetch
    ClaimsAreBacked
    NoChunkMissing
    RetriesAreBounded
PROPERTIES
    CompletedOnlyGrows
    ImplementsFileDownload
    DownloadEnds
CHECK_DEADLOCK FALSE
