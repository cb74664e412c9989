SPECIFICATION Spec
CONSTANTS
    p1 = p1
    p2 = p2
    t1 = t1
    t2 = t2
    t3 = t3
    f1 = f1
    f2 = f2
    c1 = c1
    c2 = c2
    d1 = d1
    d2 = d2
    k1 = k1
    k2 = k2
    r1 = r1
    r2 = r2
    NoCycle = NoCycle
    NoPayment = NoPayment
    NoTransaction = NoTransaction
    NoPattern = NoPattern
    NoFile = NoFile
    Payment = {p1}
    Transaction = {t1, t3}
    File = {f1, f2}
    Due = {d1}
    Cycle = {c1, c2}
    Pattern = {k1}
    Request = {r1, r2}
    FileOf <- TheFiles
    CycleOf <- TheCycles
    PatternOf <- ThePatterns
    MinOccurrences = 2
PROPERTIES
    DeletionSucceeds
