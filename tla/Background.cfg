CONSTANTS
    RestartLimit = 3
    p1 = p1  p2 = p2  c1 = c1
    Ports = {p1, p2}
    Clis = {c1}
    w1 = w1  w2 = w2
    RunIds <- Ids
    Wanted <- MatchingIds
    Writers = {w1, w2}
    Limit = 1
    Keep = 2
    Times = {1, 2, 3}
    NoRun = NoRun
    o1 = o1  o2 = o2
    Openers = {o1, o2}
    Versions <- MCVersions
    Parts = 2
    MaxFails = 2
    NoTx = NoTx
    x = x  y = y
    Traits = {x, y}
    Untrained = Untrained
    pa = pa  pb = pb  s1 = s1  f1 = f1
    Presets = {pa, pb}
    Sessions = {s1}
    Profiles = {f1}
    TxKept = 3
    MaxTx = 4
    MaxRevision = 4
    Settings = {1, 2}
    Unreadable = {2}
    NoFile = NoFile
    Torn = Torn
    MostEdits = 2
    MostBackups = 2
SPECIFICATION MCSpec
CHECK_DEADLOCK FALSE
INVARIANTS
    NoOrphan
    WatchedExactly
    LedgerSound
    ConnectSafe
PROPERTIES
    ShutdownEnds
    StaleHeals
    EveryoneGetsThrough
    PrefixFixedDuringChat
    PolicySound
