SPECIFICATION SerialSpec
CONSTANTS
    k1 = k1  k2 = k2  v1 = v1  v2 = v2  c1 = c1
    Keys = {k1, k2}
    Vals = {v1, v2}
    Cats = {c1}
    NoCat = NoCat  NoVal = NoVal  Junk = Junk
    Writes <- MCWrites
    Readers = {r1, r2}
    CacheSize = 1
    MaxLog = 3
    SyncMode = "periodic"
    InitLogs <- OldFiles
    Versions = {2, 3}
    Faults = {"torn", "swap", "old"}
    HeaderSize = 2
    Overhead = 2
    ValueSize <- LargeValues
    ThresholdPct = 50
INVARIANTS
    CategoriesAgree
    SortMemoFresh
    CacheCoherent
