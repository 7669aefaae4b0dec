SPECIFICATION FairSpec
CONSTANTS
    Runs = {w1, w2}
    None = None
    MaxAttempts = 2
    MaxStalled = 1
    Exports = {e1}
    Reports = {r1}
    Documents = {d1}
    MaxStarted = 1
    MaxFaults = 1
INVARIANTS ArchiveHasDigest EmailSentOnce AnsweredIsQueued
PROPERTIES ImplementsPromise QueuedWorkEnds QueuedReviewIsAnnounced
CHECK_DEADLOCK FALSE
