CONSTANTS
    Absent = Absent
    NoTx = NoTx
    Tickets = {t1}
    FeeTxs = {f1}
    PaysTo <- PayFirst
    AltSignAddrs = {}
    MaxVoteChangeRecords = 1
    MaxKey = 3
    Wallets = {w1, w2}
    StaleWallets = {}
    Slots = {q1}
    Kinds = {"setvotechoices"}
    Spends = {}
    MaxFaults = 1
    MaxCrashes = 1
    MaxClock = 0
    MaxAddr = 1
    Timestamps = {2}
SPECIFICATION FairSpecPaid
PROPERTIES
    ReceivedFeeHandled
    VotableOnWallets
    WalletsAgree
