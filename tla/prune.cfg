SPECIFICATION ChronicleSpec
CONSTANTS
    None = None
    Self = Self
    init = init
    p1 = p1
    legacy = legacy
    fid = fid
    sh = sh
    InitPid = init
    Pid = {init, p1}
    Watcher = {legacy, fid}
    OwnEvents = {}
    Image = {sh}
    MaxChain = 3
    AncestryDepth = 3
    TreeDepth = 3
    MaxProcs = 3
    MaxExecs = 0
    MaxWrites = 2
    MaxTime = 1
    NetlinkCap = 3
    Grace = 0
    QuickReuse = TRUE
    MaxFaults = 0
    MaxCrashes = 0
    MaxPrunes = 1
    MaxTraces = 0
INVARIANTS
    ClosedMeansGone
    PruneSparesTheLiving
PROPERTIES
    RetainedStayAttributed
SYMMETRY Symmetry
CHECK_DEADLOCK FALSE
