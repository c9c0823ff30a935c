SPECIFICATION FairSpec
CONSTANTS
    w1 = w1
    w2 = w2
    out = out
    bad = bad
    Proc <- MCProc
    Valid <- MCValid
    Stdout <- MCStdout
    Names = {n1, n2}
    Dest = dest
    Prior = prior
    Nil = nil
    Chunks = 2
INVARIANTS
    TypeOK
    NoStrayTemporary
    RefusedLeavesNoTrace
    ExactBytes
PROPERTIES
    AtomicOutput
    EveryInvocationEnds
CHECK_DEADLOCK FALSE
