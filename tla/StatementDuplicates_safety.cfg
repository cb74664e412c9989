SPECIFICATION Spec
CONSTANTS
    h1 = h1
    h2 = h2
    h3 = h3
    NoHash = NoHash
    Hash = {h1, h2, h3}
    Request = {r1}
    Setting <- TwoSettings
    Duplicate <- ThreeCopiesUnderLoose
    Comparable <- ThreeCopiesUnderLoose
    EmbeddingAttempts = 1
    MaxCorrections = 0
    MaxJobs = 2
    MaxCrashes = 1
    MaxFaults = 1
SYMMETRY HashSymmetry
INVARIANTS
    TypeOK
    RememberedNotHeld
    NoStatementLost
    RemovedIffDeleted
PROPERTIES
    RemovalKeepsTheOtherCopy
