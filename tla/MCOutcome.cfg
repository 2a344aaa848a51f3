CONSTANTS
    Absent = Absent
    NoTx = NoTx
    Tickets = {t1, t2}
    FeeTxs = {f1, f2}
    PaysTo <- PayEach
    AltSignAddrs = {}
    MaxVoteChangeRecords = 1
    MaxKey = 3
    Wallets = {w1}
    StaleWallets = {}
    Slots = {}
    Kinds = {}
    Spends = {"missed"}
    MaxFaults = 0
    MaxCrashes = 0
    MaxClock = 0
    MaxAddr = 2
    Timestamps = {0}
SPECIFICATION FairSpecPaid
PROPERTIES
    OutcomeSet
