SPECIFICATION FairSpec
CONSTANTS
    h1 = h1
    h2 = h2
    h3 = h3
    NoHash = NoHash
    Hash = {h1, h2}
    Request = {r1, r2}
    Setting <- TwoSettings
    Duplicate <- TwoCopiesUnderLoose
    Comparable <- TwoCopiesUnderLoose
    EmbeddingAttempts = 2
    MaxCorrections = 1
    MaxJobs = 1
    MaxCrashes = 1
    MaxFaults = 0
PROPERTIES
    NeverReopened
    EveryJobFinishes
    DuplicatesGetListed
