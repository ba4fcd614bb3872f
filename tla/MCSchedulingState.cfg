SPECIFICATION MCSpec
CONSTANTS
    TaskIds = {1}
    GoalIds = {1}
    Details = {"d1"}
    Actors = {"a1"}
    Slots = {"s1"}
    Reasons = {"NoProducer", "ProducerBusy"}
    Ranks = {1, 2}
    NoActor = "noActor"
    NoSlot = "noSlot"
    NoReason = "none"
    Templates <- MCTemplates
    Moves = {"Completed", "Aborted", "Dispatched", "Expired"}
    MaxOrders = 3
    MaxOrderId = 3
    MaxBatchDepth = 2
    MaxDeferrals = 2
    MaxAttempts = 2
INVARIANTS
    TypeOK
    IndexExact
    IdsAscending
    QueuesSettled
    LookupsFresh
    DeferralCoherent
PROPERTIES
    FrozenInBatch
    OnlySpentRowsLeave
