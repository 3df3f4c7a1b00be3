SPECIFICATION FairSpec
CONSTANTS
    Hashes = {h1, h2}
    Torrents = {h1}
    NoAction = {h2}
    Gos = {g1, g2}
    Tickers = {t1}
    NzbWorkers = 1
    MaxOutages = 1
    Faults = {"error", "delete"}
    None = None
INVARIANTS
    ClaimsHeld
    Attended
    CompletedAdded
PROPERTY
    Settles
CHECK_DEADLOCK FALSE
