SPECIFICATION Spec
CONSTANTS
    Runs = {r1, r2, r3}
    Turns = {t1}
    None = None
    MaxAttempts = 2
    MaxStalled = 1
    ClockSkew = TRUE
    MaxFaults = 2
SYMMETRY Interchangeable
INVARIANTS RowsAgree CancelledNeverDeleted CancelFindsItsRows
PROPERTIES ImplementsDeletion
CHECK_DEADLOCK FALSE
