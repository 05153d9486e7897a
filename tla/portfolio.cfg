SPECIFICATION Spec
CONSTANTS
    Shipments = {s1, s2}
    NumMilestones = 1
    TotalAmount = 4
    Percent <- MCEqualShares
    Deadline <- MCNoDeadline
    PenaltyBps = 0
    Bond = 0
    Sequential = FALSE
    MaxEvidence = 1
    Holdback = 0
    AutoWindow = 0
    ConfirmCooldown = 0
    DisputeCooldown = 0
    FilingWindow = 0
    MaxOpenDisputes = 1
    BuyerCap = 1
    ContestedPercents = {}
    FinalityDelay = 0
    AppealWindow = 0
    DisputeTimeout = 2
    DefaultToSupplier = TRUE
    ResponseDeadline = 0
    RefundDeadline <- MCRefundFirst
    RecoveryThreshold = 9
    Arbiters = {a1, a2}
    Agreed = a1
    Pool = {a1, a2}
    Backup = NoArbiter
    NoArbiter = NoArbiter
    Oracles = {o1, o2}
    BreachThreshold = 2
    BatchLists = {}
    PausableOps = {"dispute"}
    AdminActs = TRUE
    MaxLedger = 3
INVARIANTS
    EscrowBacked
    BuyerCapHolds
    WithinDeposit
PROPERTIES
    PauseStopsAll
VIEW MoneyState
CHECK_DEADLOCK FALSE
SYMMETRY MCSymmetry
