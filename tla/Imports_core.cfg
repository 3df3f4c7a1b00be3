SPECIFICATION Spec
CONSTANTS
    r1 = r1 r2 = r2 d1 = d1 d2 = d2 q1 = q1 q2 = q2 q3 = q3 b1 = b1 b2 = b2 f = f g = g
    Requests = {r1, r2}
    Priority <- MCPriority
    Selected <- MCSelected
    Uncached = {r2}
    Capacity = 3
    Callers = {g1}
    Trackers = {t1}
    MaxSlots = 2
    MaxCopies = 2
    MaxTroubles = 1
    NoRequest = NoRequest NoCopy = NoCopy
    Items = {x1, x2, x3}
    PageSize = 2
    HardLimits = {0, 2}
    MaxMoves = 2
    Names = {n1}
    MaxIds = 2
    Imports = {i1}
    NzbWorkers = {w1}
    Scans = {s1}
    Deletions = {z1}
    MaxMishaps = 1
    NoId = NoId
    Blocks <- MCBlocks
    Members <- MCMembers
    ArticleSize = 2
    Skew = 1
    MaxLost = 1
    NoArticle = NoArticle NoSizes = NoSizes
    Checks = {c1}
    Providers <- MCProviders
    Source <- MCSource
    Total = 4
    Percent = 75
    ChunkSize = 2
    BankCapacity = 1
    Streams = {u1, u2}
    MaxEntries = 2
    NoEntry = NoEntry
    Length = 4
    Fetchers = 2
    vh = vh vm = vm vu = vu ve = ve
    Viewers = {v1, v2}
    Shows = {vh, vm, vu, ve}
    ShowOf <- MCShowOf
    RangeHeaders <- MCHeaders
    BlockSize = 2
    BufferSize = 2
    StreamRetries = 1
    RangeIgnored = FALSE
    NoRange = NoRange Garbage = Garbage
INVARIANTS ImportsTypeOK CopiesOwned ListingComplete EntryHasMeta ServedAsPosted MissingIsMissing UsersAreCounted WrittenInOrder ServedAsAsked
CHECK_DEADLOCK FALSE
