CONSTANTS
    Absent = Absent
    NoTx = NoTx
    Tickets = {t1}
    FeeTxs = {f1}
    PaysTo <- PayFirst
    AltSignAddrs = {}
    MaxVoteChangeRecords = 1
    MaxKey = 3
    Wallets = {w1}
    StaleWallets = {}
    Slots = {}
    Kinds = {}
    Spends = {}
    MaxFaults = 1
    MaxCrashes = 0
    MaxClock = 0
    MaxAddr = 1
    Timestamps = {0}
SPECIFICATION SpecPaid
INVARIANTS
    FeeErrorMeansNotBroadcast
