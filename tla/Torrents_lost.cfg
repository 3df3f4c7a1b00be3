SPECIFICATION FairManagerSpec
CONSTANTS
    e1 = e1 f1 = f1 h1 = h1 sonarr = sonarr d1 = d1 d2 = d2 t1 = t1 n1 = n1
    Entries = {e1}
    Files = {f1}
    Hashes = {h1}
    Arrs = {sonarr}
    EntryOf <- MCEntryOf
    HashOf <- MCHashOf
    ArrOf <- MCArrOf
    NoArr = NoArr
    TorrentHashes = {h1}
    Workers = 1
    Sources = {"arr"}
    Rechecks = {c1}
    MaxRuns = 2
    MaxEvents = 1
    NoHealth = NoHealth
    Debrids = {d1, d2}
    Torrents = {t1}
    Names = {n1}
    FilesIn <- MCFilesIn
    AddedOn <- MCAddedOn
    ListsFiles = {d1}
    Busy = {d1}
    Holders = {d1}
    Switches = {s1}
    MaxChanges = 2
    MaxId = 2
    NoTorrent = NoTorrent NoPlace = NoPlace NoEntry = NoEntry NoFile = NoFile
    m1 = m1 m2 = m2 p1 = p1
    CacheDir <- MCCacheDir
    PathOf <- MCPathOf
    OldEntries = {o1}
    SaveEvery = 2
    MaxCrashes = 0
    MaxMishaps = 0
    MaxEdits = 0
    StatusKey = StatusKey
    Absent = Absent
INVARIANTS NeverLost
CHECK_DEADLOCK FALSE
