SPECIFICATION Spec
CONSTANTS
    Shipments = {s1}
    NumMilestones = 1
    TotalAmount = 4
    Percent <- MCEqualShares
    Deadline <- MCNoDeadline
    PenaltyBps = 0
    Bond = 0
    Sequential = FALSE
    MaxEvidence = 1
    Holdback = 0
    AutoWindow = 0
    ConfirmCooldown = 0
    DisputeCooldown = 0
    FilingWindow = 0
    MaxOpenDisputes = 1
    BuyerCap = 0
    ContestedPercents = {}
    FinalityDelay = 0
    AppealWindow = 0
    DisputeTimeout = 1
    DefaultToSupplier = TRUE
    ResponseDeadline = 0
    RefundDeadline <- MCNoDeadline
    RecoveryThreshold = 9
    Arbiters = {a1, a2}
    Agreed = a1
    Pool = {a1, a2}
    Backup = NoArbiter
    NoArbiter = NoArbiter
    Oracles = {}
    BreachThreshold = 1
    BatchLists = {}
    PausableOps = {}
    AdminActs = FALSE
    MaxLedger = 3
INVARIANTS
    DoneMeansClosed
CHECK_DEADLOCK FALSE
