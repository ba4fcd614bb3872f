SPECIFICATION SpecWork
CONSTANTS
    TaskIds = {1}
    GoalIds = {}
    Details <- MCDetails
    Actors = {"a1", "a2"}
    Slots <- MCSlots
    Reasons <- DeferralReasons
    Hindrances = {"InsufficientResources"}
    Ranks = {1}
    NoActor = "noActor"
    NoSlot = "noSlot"
    NoReason = "none"
    Templates = {}
    Moves = {}
    MaxOrders = 5
    MaxOrderId = 5
    MaxBatchDepth = 1
    MaxDeferrals = 1
    MaxAttempts = 1
    RampSlot <- MCRampSlot
    WallDepots = {1}
    NaturalSlots <- MCNaturalSlots
    Anywhere = "anywhere"
    Capacity = 1
    FallbackAfter = 1
    BusyLimit = 1
    CoverageGuard = FALSE
    DrainBudget = 1
INVARIANT
    TerminalHoldsNoSlot
