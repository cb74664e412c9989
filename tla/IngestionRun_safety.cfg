SPECIFICATION Spec
CONSTANTS
    r1 = r1
    r2 = r2
    f1 = f1
    f2 = f2
    w1 = w1
    w2 = w2
    q1 = q1
    q2 = q2
    NoRun = NoRun
    NoFile = NoFile
    Run = {r1, r2}
    File = {f1, f2}
    Content = {"c1", "c2"}
    ContentOf <- SameContent
    Listing = {{}, {f1}, {f2}, {f1, f2}}
    Unreadable = {f1, f2}
    Remembered = {f1, f2}
    Worker = {w1}
    Request = {q1, q2}
    RollingUpdate = FALSE
    MaxCrashes = 1
    MaxFaults = 1
SYMMETRY RunSymmetry
CHECK_DEADLOCK FALSE
INVARIANTS
    CountersMatchRows
PROPERTIES
    LedgerSpec
