SPECIFICATION Spec
CONSTANTS
    None = None
    dir = dir
    inner = inner
    top = top
    a = a
    b = b
    Blank = Blank
    Path <- MCPath
    Above <- MCAbove
    Start <- MCStart
    Content = {a, b}
    Refused = {top}
    Outside = {}
    Mode = "full"
    MaxOps = 1
    MaxTime = 1
    MaxRuns = 2
    MaxMishaps = 1
INVARIANTS
    TypeOK
    ReapplyIsSafe
PROPERTIES
    OnlyTouchedChanges
CHECK_DEADLOCK FALSE
