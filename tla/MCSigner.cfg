SPECIFICATION Spec
CONSTANTS
    Skew = 2
    Hour = 3
    Day = 5
    Drift = 1
    Horizon = 7
INVARIANTS
    TypeOK
    BundlesVerify
