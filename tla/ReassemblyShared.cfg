\* Two downloads of files with the same name overlap.
SPECIFICATION Spec
CONSTANTS
    a = a
    b = b
    c = c
    d = d
    None = None
    NCalls = 2
    File <- Files
    NameOf <- NamesOf
    NbChunks <- Sizes
    Torn <- Inconsistent
    Awaited <- NoNames
    Alone <- NoNames
PROPERTY
    ResolvedIsItsFile
CHECK_DEADLOCK FALSE
