SPECIFICATION Spec
CONSTANTS
    a1 = a1
    a2 = a2
    k1 = k1
    k2 = k2
    s1 = s1
    s2 = s2
    b1 = b1
    q1 = q1
    q2 = q2
    NoAccount = NoAccount
    NoBalance = NoBalance
    NoStatement = NoStatement
    Account = {a1, a2}
    Id <- TheIds
    Key = {k1, k2}
    CurrencyOf <- TheCurrencies
    Statement = {s1, s2}
    Sections <- TheSections
    ReadType <- TheTypes
    UserType = {"credit_card", "unknown"}
    Balance = {b1}
    Request = {q1, q2}
SYMMETRY RequestSymmetry
INVARIANTS
    SectionsFollowKeys
    RequestsNeverDeadlock
PROPERTIES
    UserTypeKeptUnlessRaced
