SPECIFICATION SpecWork
SYMMETRY BuilderSymmetry
CONSTANTS
    TaskIds = {1, 2}
    GoalIds = {}
    Details <- MCDetails
    Actors = {a1, a2}
    Slots <- MCSlots
    Reasons <- DeferralReasons
    Hindrances = {"ProducerBusy", "ReservedSlotOccupied", "ReservedSlotInvalidated"}
    Ranks = {1}
    NoActor = "noActor"
    NoSlot = "noSlot"
    NoReason = "none"
    Templates = {}
    Moves = {}
    MaxOrders = 6
    MaxOrderId = 7
    MaxBatchDepth = 1
    MaxDeferrals = 1
    MaxAttempts = 1
    RampSlot <- MCRampSlot
    WallDepots = {1, 2}
    NaturalSlots <- MCNaturalSlots
    Anywhere = "anywhere"
    Capacity = 1
    FallbackAfter = 1
    BusyLimit = 1
    CoverageGuard = TRUE
    DrainBudget = 1
INVARIANTS
    WorkTypeOK
    ExpandedOnce
    ParentsStand
    ParkedOrActive
PROPERTIES
    EndedStaysEnded
