SPECIFICATION Spec
CONSTANTS
    Shipments = {s1}
    NumMilestones = 2
    TotalAmount = 4
    Percent <- MCEqualShares
    Deadline <- MCNoDeadline
    PenaltyBps = 0
    Bond = 0
    Sequential = FALSE
    MaxEvidence = 2
    Holdback = 1
    AutoWindow = 2
    ConfirmCooldown = 0
    DisputeCooldown = 0
    FilingWindow = 0
    MaxOpenDisputes = 1
    BuyerCap = 0
    ContestedPercents = {50}
    FinalityDelay = 0
    AppealWindow = 1
    DisputeTimeout = 1
    DefaultToSupplier = TRUE
    ResponseDeadline = 0
    RefundDeadline <- MCNoDeadline
    RecoveryThreshold = 9
    Arbiters = {a1, a2}
    Agreed = a1
    Pool = {a1, a2}
    Backup = a2
    NoArbiter = NoArbiter
    Oracles = {}
    BreachThreshold = 1
    BatchLists = {}
    PausableOps = {}
    AdminActs = FALSE
    MaxLedger = 3
INVARIANTS
    TypeOK
    OpenDisputesCounted
    NoRulingDuringDispute
    ReleaseLedgerWhilePending
    ActiveDisputesListed
    StatusIndexExact
    CompletedMeansDone
PROPERTIES
    AutoConfirmationStands
    AppealRulingFinal
    ClosedIsFinal
CHECK_DEADLOCK FALSE
VIEW LiveState
