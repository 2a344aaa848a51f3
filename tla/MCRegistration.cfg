CONSTANTS
    Absent = Absent
    NoTx = NoTx
    Tickets = {t1}
    FeeTxs = {}
    PaysTo <- PayFirst
    AltSignAddrs = {a1, a2}
    MaxVoteChangeRecords = 1
    MaxKey = 3
    Wallets = {}
    StaleWallets = {}
    Slots = {q1, q2, q3}
    Kinds = {"feeaddress", "setaltsignaddr"}
    Spends = {}
    MaxFaults = 0
    MaxCrashes = 1
    MaxClock = 0
    MaxAddr = 2
    Timestamps = {0}
SPECIFICATION Spec
SYMMETRY RegistrationSymmetry
PROPERTIES
    RemovedUnpaid
    AltSignAddrSetOnce
