SPECIFICATION FairSpec
CONSTANTS
    Runs = {1, 2, 3}
    Turns = {t1}
    None = None
    MaxAttempts = 2
    MaxStalled = 1
    ClockSkew = FALSE
    MaxFaults = 1
ACTION_CONSTRAINT TakenInOrder
PROPERTIES ConfirmedDeletionEnds SharedCacheForgets
CHECK_DEADLOCK FALSE
