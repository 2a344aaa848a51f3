CONSTANTS
    None = None
    Background = {run}
    Threads = {run, web1, web2}
    Conns = {c1, c2}
    MaxFaults = 1
    MaxNotifyErrors = 0
    grandparent = grandparent
    parent = parent
    ticket = ticket
    Txs = {grandparent, parent, ticket}
    Inputs <- MCInputs
    Tickets = {ticket}
    Parents = {grandparent, parent}
    MaxBroadcasts = 1
    MaxAttempts = 2
SPECIFICATION FairBroadcastSpec
INVARIANTS
    BroadcastTypeOK
    SlotsCounted
    OneOpenConnection
PROPERTIES
    PassedKnown
    OnlyTicketsAndParents
    SlotReleased
    TickerRepairs
