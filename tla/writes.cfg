SPECIFICATION FairSpec
CONSTANTS
    Requests = {q1, q2}
    Keys = {k1, k2, k3}
    Facts = {f1}
    Cases = {c1}
    Consents = {s1}
    None = None
    MaxDelay = 1
    MaxTime = 1
    MaxFaults = 1
INVARIANTS WrittenOnce AnswersAreWritten NoUpdateLost ReleasedAfterDelay
PROPERTIES ImplementsDomain CommittedIsAnswered
CHECK_DEADLOCK FALSE
