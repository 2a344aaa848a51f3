CONSTANTS
    None = None
    Background = {run, cache}
    Threads = {run, cache}
    Conns = {c1, c2}
    MaxFaults = 0
    MaxNotifyErrors = 1
SPECIFICATION FairSpec
PROPERTIES
    BlocksNotified
