SPECIFICATION FairSpec
CONSTANTS
    Runs = {w1, w2, w3}
    None = None
    MaxAttempts = 3
    MaxStalled = 1
    Exports = {e1}
    Reports = {}
    Documents = {d1}
    MaxStarted = 1
    MaxFaults = 0
PROPERTIES ExportIsResumable
CHECK_DEADLOCK FALSE
