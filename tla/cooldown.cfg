SPECIFICATION MCSpec
CONSTANTS
    a1 = a1
    a2 = a2
    a3 = a3
    a4 = a4
    a5 = a5
    a6 = a6
    t1 = t1
    Parts = {"cancels"}
    Accounts = {a1, a2, a3}
    NoAccount = NoAccount
    Hashes = {h1}
    Partners = {p1}
    Waivers = {w1}
    NoWaiver = NoWaiver
    ActionIds = {x1}
    Configs <- MCConfigs
    NoConfig = NoConfig
    Whole = 10
    Shares = {5}
    DefaultShare = 8
    MaxBallots = 2
    Params = {q1, q2}
    Values = {1, 2}
    Locks = {0, 1}
    Shipments = {s1}
    Threshold = 2
    Roles = {r1}
    Holders = {o1}
    Nothing = Nothing
    MaxLedger = 4
    Buyers = {b1, b2}
    Milestones = {m1, m2}
    Amounts = {2}
    SlashBps = 5
    FullBps = 10
    MaxShipments = 1
    MaxVault = 4
    MaxLocked = 4
    Intervals = {2}
    MaxOccurrences = 2
    NoOrder = NoOrder
    MaxDay = 4
    HandoffTypes = {"Transferred", "Received", "Stored"}
    DefaultEntries = 4
    EntryLimits = {0, 2, 5}
    HardLimit = 4
    Totals = {3, 4}
    ChunkSizes = {0, 2, 3}
    NotStarted = NotStarted
    MaxRuns = 2
    Addresses = {a1, a2, a3, a4, a5, a6}
    ShipmentParties = {a5}
    Blacklisted = {}
    Fickle = {a1}
    FirstPool <- MCPool
    Indices = {i1, i2}
    HistorySizes = {0, 2}
    PanelSizes = {3, 5}
    Unset = Unset
    People = {a1, a2, a3}
    FirstBuyers <- MCBuyers
    FirstSupplier = a3
    Arbiter = a4
    Terms = {t1, t2}
    SumsTo100 = {t1}
    NoOffer = NoOffer
    NoTerms = NoTerms
    NoEffect = NoEffect
    FirstExpiry = 3
    FirstDeadline = 2
    Steps = {1, 2}
    MaxExtension = 2
    MaxRequests = 2
    PauseNotice = 1
    LastLedger = 4
    FirstPercents <- MCPercents
    FirstTotal = 100
    FirstWeights <- MCWeights
    NewAmounts = {33}
    MinPercent = 5
    MaxCount = 4
    MaxRecords = 1
    MaxOffers = 1
    MaxBusy = 2
    MaxChanges = 2
    Nobody = Nobody
    Payees = {u1, u2}
    Payers = {b1}
    Everyone = Everyone
    Caps = {0, 2}
    Spans = {0, 2}
    Cooldowns = {3}
    Sums = {1, 2}
    MaxHeight = 3
    MaxSettings = 2
PROPERTIES
    CooldownHonoured
CHECK_DEADLOCK FALSE
