CONSTANTS
    None = None
    Empty = Empty
    Broken = Broken
    Torn = Torn
    Processes = {p, q}
    Tickets = {t}
    SignKeys = {k1}
    XPubs = {x1, x2}
    Records <- MCRecords
    OldFiles <- MCOldFiles
    MaxCommits = 2
    MaxID = 2
    MaxIndex = 1
    MaxFaults = 1
    MaxCrashes = 1
SPECIFICATION FairSpec
CHECK_DEADLOCK FALSE
INVARIANTS
    FileTypeOK
    OpenedIsLatest
PROPERTIES
    ShutdownBackupCurrent
    ImplementsStore
    Upgraded
