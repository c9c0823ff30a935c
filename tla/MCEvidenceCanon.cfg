SPECIFICATION CanonSpec
CONSTANTS
    MaxBytes = 65536
    MaxPolicies = 64
    MaxPoints = 2
    MaxCases = 4
    MaxCaseSeconds = 300
    MaxListed = 3
    Offsets = {0, 2}
    Stated <- MCStated
INVARIANTS
    BodyStatesTheFile
    CLIRepeatsTheHelper
    

    
    
