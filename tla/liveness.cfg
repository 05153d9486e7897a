SPECIFICATION FairSpec
CONSTANTS
    Shipments = {s1}
    NumMilestones = 1
    TotalAmount = 4
    Percent <- MCEqualShares
    Deadline <- MCDueFirst
    PenaltyBps = 5000
    Bond = 0
    Sequential = FALSE
    MaxEvidence = 2
    Holdback = 1
    AutoWindow = 2
    ConfirmCooldown = 0
    DisputeCooldown = 1
    FilingWindow = 3
    MaxOpenDisputes = 1
    BuyerCap = 0
    ContestedPercents = {}
    FinalityDelay = 1
    AppealWindow = 1
    DisputeTimeout = 2
    DefaultToSupplier = TRUE
    ResponseDeadline = 0
    RefundDeadline <- MCNoDeadline
    RecoveryThreshold = 9
    Arbiters = {a1, a2}
    Agreed = a1
    Pool = {a1, a2}
    Backup = a2
    NoArbiter = NoArbiter
    Oracles = {}
    BreachThreshold = 1
    BatchLists = {}
    PausableOps = {}
    AdminActs = FALSE
    MaxLedger = 6
PROPERTIES
    EveryProofAnswered
CHECK_DEADLOCK FALSE
