SPECIFICATION Spec
CONSTANTS
    h1 = h1
    h2 = h2
    h3 = h3
    NoHash = NoHash
    Hash = {h1, h2, h3}
    Rank <- TheRanks
    Duplicate <- AllPairs
    Comparable <- Chain
    Start <- Starts
    Text = {"as stored", "as reread"}
    Stored = "as stored"
    MaxEvents = 2
CHECK_DEADLOCK FALSE
INVARIANTS
    NoStatementLost
    EmbeddedHasVector
PROPERTIES
    CorrectionsBackedUp
    DismissalsHonoured
    OwnCorrectionsReturn
