CONSTANTS
    Absent = Absent
    NoTx = NoTx
    Tickets = {t1}
    FeeTxs = {f1}
    PaysTo <- PayFirst
    AltSignAddrs = {}
    MaxVoteChangeRecords = 2
    MaxKey = 3
    Wallets = {w1}
    StaleWallets = {w1}
    Slots = {q1, q2}
    Kinds = {"setvotechoices"}
    Spends = {}
    MaxFaults = 0
    MaxCrashes = 0
    MaxClock = 0
    MaxAddr = 1
    Timestamps = {2, 3}
SPECIFICATION SpecMature
SYMMETRY SlotSymmetry
INVARIANTS
    RecordsGenuine
    KeysInOrder
PROPERTIES
    NewestChangeKept
