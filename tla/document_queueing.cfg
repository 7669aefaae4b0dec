SPECIFICATION RetryingSpec
CONSTANTS
    Uploads = {u1}
    Foreign = {}
    Runs = {r1, r2}
    None = None
    MaxAttempts = 3
    MaxStalled = 1
    MaxFaults = 1
PROPERTIES CompletedUploadIsQueued
CHECK_DEADLOCK FALSE
