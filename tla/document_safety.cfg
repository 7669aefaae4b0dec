SPECIFICATION Spec
CONSTANTS
    Uploads = {u1, u2}
    Foreign = {u2}
    Runs = {r1, r2, r3}
    None = None
    MaxAttempts = 2
    MaxStalled = 1
    MaxFaults = 2
SYMMETRY Interchangeable
INVARIANTS RowsInStep VerdictIsTrue OriginalOutlivesProcessing
           DeletionNeverConflicts RecordedBytesDownloadable
PROPERTIES ImplementsLifecycle
CHECK_DEADLOCK FALSE
