SPECIFICATION CheckpointSpec
CONSTANTS
    x = x
    y = y
    Symbols = {x, y}
    Order <- PolicyOrder
    Selected <- PolicyFiles
    Rego <- RegoPath
    Rules <- CommittedRules
    Bytes <- SomeBytes
INVARIANTS
    CheckpointTypeOK
    
    
CHECK_DEADLOCK FALSE
