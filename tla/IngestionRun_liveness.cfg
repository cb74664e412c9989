SPECIFICATION FairSpec
CONSTANTS
    r1 = r1
    r2 = r2
    f1 = f1
    f2 = f2
    w1 = w1
    w2 = w2
    q1 = q1
    q2 = q2
    NoRun = NoRun
    NoFile = NoFile
    Run = {r1, r2}
    File = {f1}
    Content = {"c1", "c2"}
    ContentOf <- SameContent
    Listing = {{f1}}
    Unreadable = {}
    Remembered = {}
    Worker = {w1, w2}
    Request = {q1}
    RollingUpdate = TRUE
    MaxCrashes = 1
    MaxFaults = 0
CHECK_DEADLOCK FALSE
INVARIANTS
    StatementsMatchRows
PROPERTIES
    EveryRunFinishes
    CancelTakesEffect
