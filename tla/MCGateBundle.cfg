SPECIFICATION Spec
CONSTANTS
    MaxBytes = 65536
    MaxPolicies = 64
    MaxPoints = 32
    MaxCases = 4
    MaxCaseSeconds = 300
    MaxBundle = 4
    Drafts <- MCDrafts
    Strangers <- MCStrangers
INVARIANTS
    
    DenialsAttributed
PROPERTIES
    AmbiguityRevokes
CHECK_DEADLOCK FALSE
