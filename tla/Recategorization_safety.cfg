SPECIFICATION Spec
CONSTANTS
    Transaction = {t1, t2}
    food = food
    travel = travel
    Unsure = Unsure
    Category <- UnsureAndOne
    Active <- OneRealCategory
    Job = {j1, j2}
    Request = {r1, r2}
    NoJob = NoJob
    NoTransaction = NoTransaction
SYMMETRY Symmetric
INVARIANTS
    TypeOK
    AtMostOnePending
    UnsureMeansUnsure
    OnlyRacedSelfProposals
    CountMatchesProposals
PROPERTIES
    OnlyRacedRowsLost
