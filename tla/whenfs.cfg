SPECIFICATION Spec
CONSTANTS
    Day = 2
    Week = 2
    FirstDays <- MCFirstDays
    MonthWrap = 4
    Earliest <- MCEarliest
    FoldAt = 10
    FoldBy = 1
    None = None
    Panic = Panic
    loop = loop
    hand = hand
    f1 = f1
    File = {f1}
    MaxRetries = 1
    Setups <- MCSetups
    MaxTime = 11
    MaxSnaps = 3
    Asked <- MCAsked
    TTL = 1
    MaxInodes = 2
INVARIANTS
    TypeOK
    CachedNameIsRecent
    EverySnapshotFound
    ListingWhole
    BracketTight
    CollisionWaitedOut
PROPERTIES
    InodesKeepTheirPath
    PastStaysPut
SYMMETRY Symmetry
CHECK_DEADLOCK FALSE
