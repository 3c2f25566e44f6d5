\* Calls for the name x follow each other, across crashes and errors; calls
\* for y overlap them, and overlap the late open of a rejected call for y.
SPECIFICATION FairSpec
CONSTANTS
    a = a
    b = b
    c = c
    d = d
    None = None
    NCalls = 3
    File <- Files
    NameOf <- NamesOf
    NbChunks <- Sizes
    Torn <- Inconsistent
    Awaited <- TwoNames
    Alone <- OneName
INVARIANTS
    IInv
    OnlyBadChunksFail
PROPERTIES
    AloneResolvedIsItsFile
    PublishedIsStable
    ImplementsPublication
    CallsEnd
CHECK_DEADLOCK FALSE
