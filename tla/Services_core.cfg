SPECIFICATION Spec
CONSTANTS
    p1 = p1 p2 = p2 c1 = c1 c2 = c2 k1 = k1 k2 = k2
    h1 = h1 h2 = h2 show = show custom = custom
    Callers = {c1, c2}
    Keys = {k1, k2}
    KeysOf <- MCKeysOf
    Providers = {p1, p2}
    AccountsOf <- MCAccountsOf
    Home = p1
    Spendable <- MCSpendable
    MaxReinsertionAttempt = 1
    MaxUrls = 1
    MaxTroubles = 1
    NoLink = NoLink NoKey = NoKey
    Ids = {h1, h2}
    Folders = {show}
    FolderOf <- MCFolderOf
    ProtocolOf <- MCProtocolOf
    FileNames = {n1, n2}
    Shown = {custom, show}
    Debrid = {p1}
    Custom = {custom}
    FiltersOf <- MCFiltersOf
    MaxWrites = 3
    e1 = e1 e2 = e2 a1 = a1 a2 = a2 a3 = a3
    Packs = {e1, e2}
    PackFiles <- MCPackFiles
    Kinds <- MCKinds
    SeasonNames <- MCSeasonNames
    SeasonPaths <- MCSeasonPaths
    MaxDownloads = 1
    GlobalMax = 1
    MaxAttempts = 2
    MaxDeletions = 1
    NoMeta = NoMeta NoListing = NoListing NoOwner = NoOwner
INVARIANTS ServicesTypeOK InFlightMoves 
PROPERTIES GetLinkReturns ListingsCatchUp DownloadEnds
CHECK_DEADLOCK FALSE
