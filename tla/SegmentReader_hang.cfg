SPECIFICATION FairSpec
CONSTANTS
    Readers = {r1}
    Workers = {w1}
    N = 2
    Ahead = 1
    MaxDisk = 1
    Slots = 1
    QueueCap = 1
    Faults = {}
    Nobody = Nobody
PROPERTIES
    ReadReturns
CHECK_DEADLOCK FALSE
