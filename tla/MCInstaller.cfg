SPECIFICATION FairSpec
CONSTANTS
    Proc = {p1, p2}
    Served = {pinned, other}
    Pin = pinned
    Foreign = foreign
    Empty = empty
INVARIANTS
    TypeOK
    StorageNotFollowed
    NoStagingLeft
PROPERTIES
    NeverOverwritten
    EveryRunEnds
CHECK_DEADLOCK FALSE
