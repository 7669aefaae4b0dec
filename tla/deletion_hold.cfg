SPECIFICATION Spec
CONSTANTS
    Runs = {r1}
    Turns = {}
    None = None
    MaxAttempts = 3
    MaxStalled = 1
    ClockSkew = FALSE
    MaxFaults = 0
PROPERTIES HoldStopsDeletion
CHECK_DEADLOCK FALSE
