SPECIFICATION Spec
CONSTANTS
    MaxBytes = 65536
    MaxPolicies = 64
    MaxPoints = 32
    MaxCases = 4
    MaxCaseSeconds = 300
    Paths = {e1}
    Specs <- MCSpecs
    PolicyReads <- MCPolicyReads
    MaxRuns = 2
    MaxBundle = 3
INVARIANTS
    TypeOK
    
    AdmissionPairsOneRun
    HonestCaseAdmitted
CHECK_DEADLOCK FALSE
