CONSTANTS
    Requests = {"r1", "r2"}
    EnvMax = 5
    CommonCount = 1
    CgiEnvLines = {0, 1, 2}
    Standard = {1, 2}
SPECIFICATION Spec
INVARIANTS OwnFreed NoStringLost 
CHECK_DEADLOCK FALSE
