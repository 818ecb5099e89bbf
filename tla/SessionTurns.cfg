SPECIFICATION Spec
CONSTANTS
    pi = pi
    claude = claude
    Kernel = {pi, claude}
    Resident = {claude}
    MaxRuntimes = 4
    MaxLoops = 3
    Overlap = FALSE
    Limit <- MCTurns
INVARIANTS
    ServiceTypeOK
    OneExecutor
    
PROPERTIES
    TurnAfterTurn
    SwitchIsQuiet
    
CHECK_DEADLOCK FALSE
