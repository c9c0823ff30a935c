SPECIFICATION FairSpec
CONSTANTS
    Served = {pinned, rebuilt, newer}
    Pin = pinned
    Locked = {pinned, rebuilt}
INVARIANTS
    TypeOK
    ImportsPinned
    SetupSuffices
PROPERTIES
    CacheHeals
