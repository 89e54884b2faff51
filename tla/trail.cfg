SPECIFICATION FairSpec
CONSTANTS
    None = None
    Self = Self
    init = init
    p1 = p1
    legacy = legacy
    fid = fid
    sh = sh
    InitPid = init
    Pid = {init, p1}
    Watcher = {legacy, fid}
    OwnEvents = {legacy}
    Image = {sh}
    MaxChain = 3
    AncestryDepth = 3
    TreeDepth = 3
    MaxProcs = 2
    MaxExecs = 0
    MaxWrites = 2
    MaxTime = 0
    NetlinkCap = 0
    Grace = 0
    QuickReuse = FALSE
    MaxFaults = 1
    MaxCrashes = 1
INVARIANTS
    PersistedMeansStored
    IndexCoversLog
PROPERTIES
    LogIsAuditTrail
    EveryWriteLogged
CHECK_DEADLOCK FALSE
