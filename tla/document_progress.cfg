SPECIFICATION FairSpec
CONSTANTS
    Uploads = {u1}
    Foreign = {}
    Runs = {1, 2, 3, 4}
    None = None
    MaxAttempts = 3
    MaxStalled = 1
    MaxFaults = 2
ACTION_CONSTRAINT TakenInOrder
PROPERTIES QueuedFileReachesReview JobEnds
CHECK_DEADLOCK FALSE
