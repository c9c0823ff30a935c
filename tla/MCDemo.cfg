SPECIFICATION FairSpec
CONSTANTS
    a = a
    b = b
    Run <- TwoRuns
    Given = given
    Earlier = earlier
    Want <- PassThenFail
INVARIANTS
    TypeOK
    SuccessIsEarned
    TemporaryRemoved
PROPERTIES
    OwnDirectoryOnly
    EveryRunEnds
CHECK_DEADLOCK FALSE
