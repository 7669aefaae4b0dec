SPECIFICATION FairSpec
CONSTANTS
    Households = {1, 2}
    Requests = {1, 2, 3, 4}
    None = None
    Genesis = Genesis
    Digest <- ContentDigest
    PoolSize = 2
    PageLimit = 2
    MaxFaults = 1
ACTION_CONSTRAINT ComeInOrder
INVARIANTS ChainVerifies
PROPERTIES ImplementsLog PagesComplete RequestEnds
CHECK_DEADLOCK FALSE
