SPECIFICATION Spec
CONSTANTS
    Shipments = {s1}
    NumMilestones = 2
    TotalAmount = 4
    Percent <- MCEqualShares
    Deadline <- MCNoDeadline
    PenaltyBps = 0
    Bond = 0
    Sequential = FALSE
    MaxEvidence = 2
    Holdback = 1
    AutoWindow = 3
    ConfirmCooldown = 2
    DisputeCooldown = 0
    FilingWindow = 0
    MaxOpenDisputes = 1
    BuyerCap = 0
    ContestedPercents = {}
    FinalityDelay = 2
    AppealWindow = 1
    DisputeTimeout = 0
    DefaultToSupplier = TRUE
    ResponseDeadline = 2
    RefundDeadline <- MCRefundFirst
    RecoveryThreshold = 2
    Arbiters = {a1, a2}
    Agreed = a1
    Pool = {a1, a2}
    Backup = NoArbiter
    NoArbiter = NoArbiter
    Oracles = {}
    BreachThreshold = 1
    BatchLists <- MCAllAtOnce
    PausableOps = {}
    AdminActs = FALSE
    MaxLedger = 5
INVARIANTS
    SettledOnce
    SettlementInv
    DoneMeansClosed
PROPERTIES
    EscrowPromiseKept
CHECK_DEADLOCK FALSE
VIEW MoneyState
