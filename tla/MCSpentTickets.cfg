CONSTANTS
    t1 = t1
    t2 = t2
    s1 = s1
    s2 = s2
    Tickets = {t1, t2}
    PurchasedAt <- Purchases
    Scripts = {s1, s2}
    ScriptOf <- Addresses
    TicketMaturity = 1
    TicketExpiry = 2
    OldTickets = {t1, t2}
    MaxReorg = 1
    Fates <- Ends
    MaxHeight = 6
    MaxForks = 1
    MaxFaults = 1
    MaxCrashes = 1
SPECIFICATION FairSpec
CHECK_DEADLOCK FALSE
INVARIANTS
    ScanTypeOK
    ParallelSlices
    ScanComplete
    NoneSkipped
    RevokedReplaced
PROPERTIES
    OutcomeJustified
    SpentRecorded
