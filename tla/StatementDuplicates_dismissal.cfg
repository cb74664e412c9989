SPECIFICATION Spec
CONSTANTS
    h1 = h1
    h2 = h2
    h3 = h3
    NoHash = NoHash
    Hash = {h1, h2}
    Request = {r1}
    Setting <- TwoSettings
    Duplicate <- TwoCopiesUnderLoose
    Comparable <- TwoCopiesUnderLoose
    EmbeddingAttempts = 1
    MaxCorrections = 0
    MaxJobs = 0
    MaxCrashes = 1
    MaxFaults = 1
PROPERTIES
    DecisionIsFinal
