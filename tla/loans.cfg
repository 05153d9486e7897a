SPECIFICATION MCSpec
CONSTANTS
    Accounts = {a1, a2, a3}
    Prices = {1, 3}
    PriceScale = 2
    Bps = 20
    TargetNum = 11
    TargetDen = 10
    Thresholds = {16, 20}
    MaxThreshold = 19
    DefaultParams <- MCDefault
    ParamChoices <- MCParamChoices
    MaxBonus = 5
    Amounts = {1, 3}
    MaxDeposits = 4
    MaxCollateral = 3
    RawPrices = {3, 5}
    MinPrice = 3
    MaxPrice = 5
    Configured = {"primary", "secondary"}
    Staleness = 1
    FutureSkew = 1
    Window = 4
    MinSpan = 2
    SnapshotInterval = 2
    MaxSnapshots = 3
    MaxTime = 8
SYMMETRY MCSymmetry
INVARIANTS
    LoanTypeOK
    BooksBalance
    PoolBacked
    PriceInRange
    RingCoversWindow
PROPERTIES
    LossesShared
CHECK_DEADLOCK FALSE
