SPECIFICATION Spec
CONSTANTS
    None = None
    dir = dir
    inner = inner
    top = top
    a = a
    b = b
    Blank = Blank
    Path <- MCPath
    Above <- MCAbove
    Start <- MCStart
    Content = {a, b}
    Refused = {}
    Outside = {}
    Mode = "hardlink"
    MaxOps = 1
    MaxTime = 0
    MaxRuns = 1
    MaxMishaps = 0
INVARIANTS
    VersionPutBack
CHECK_DEADLOCK FALSE
