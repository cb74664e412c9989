SPECIFICATION FairSpec
CONSTANTS
    t1 = t1
    p1 = p1
    p2 = p2
    n1 = n1
    n2 = n2
    FirstName = n1
    NoName = NoName
    Transaction = {t1}
    Payment = {p1, p2}
    Age <- TheAges
    Name = {n1, n2}
    BatchSize = 2
    ScheduleHour = 1
    RetentionCount = 1
    LastHour = 1
    MaxDays = 2
    MaxRequests = 2
    MaxFaults = 1
INVARIANTS
    VectorsFit
    BackupsLandOnTheirDay
    SuccessesStayOnDrive
PROPERTIES
    BacklogsDrain
