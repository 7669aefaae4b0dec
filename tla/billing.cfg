SPECIFICATION FairSpec
CONSTANTS
    Households = {h1}
    Subscriptions = {s1}
    Refunds = {r1}
    None = None
    SubscriptionStatuses = {"active", "past_due", "canceled"}
    RefundStatuses = {"pending"}
    Deliveries = {d1, d2}
    Grace = 1
    MaxEvents = 2
    MaxTime = 2
    MaxFaults = 1
INVARIANTS LatestWins AccessIsEarned
PROPERTIES ImplementsLedger EventReflected
CHECK_DEADLOCK FALSE
