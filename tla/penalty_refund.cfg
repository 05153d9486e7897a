SPECIFICATION Spec
CONSTANTS
    Shipments = {s1, s2}
    NumMilestones = 2
    TotalAmount = 4
    Percent <- MCEqualShares
    Deadline <- MCDueFirst
    PenaltyBps = 5000
    Bond = 0
    Sequential = TRUE
    MaxEvidence = 1
    Holdback = 0
    AutoWindow = 0
    ConfirmCooldown = 0
    DisputeCooldown = 0
    FilingWindow = 0
    MaxOpenDisputes = 1
    BuyerCap = 0
    ContestedPercents = {}
    FinalityDelay = 0
    AppealWindow = 0
    DisputeTimeout = 0
    DefaultToSupplier = TRUE
    ResponseDeadline = 0
    RefundDeadline <- MCNoDeadline
    RecoveryThreshold = 9
    Arbiters = {a1, a2}
    Agreed = a1
    Pool = {a1, a2}
    Backup = NoArbiter
    NoArbiter = NoArbiter
    Oracles = {}
    BreachThreshold = 1
    BatchLists = {}
    PausableOps = {}
    AdminActs = FALSE
    MaxLedger = 3
INVARIANTS
    WithinDeposit
CHECK_DEADLOCK FALSE
