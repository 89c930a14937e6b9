SPECIFICATION OperatorsSpec
CONSTANTS
    c1 = c1
    c2 = c2
    c3 = c3
    AdminCard = {c1, c2, c3}
    DomainPath = {p1}
    Value = {v, b}
    Branded = {b}
    MaxHops = 2
    MaxEvents = 3
    Decodes = TRUE
    Absent = Absent
    Operator = {o1, o2}
    MaxContracts = 5
    MaxRuns = 4
    None = None
    q1 = q1
    q2 = q2
    q3 = q3
    q4 = q4
    Call = {q1, q2, q3, q4}
    DestOf <- MCDestOf
    Bypassed = {q4}
    Known = {q1, q3}
    Instance = {i1, i2}
    k1 = k1
    Key = {k1, k2, k3}
    Ttl = 1
    MaxFaults = 2
    Unset = Unset
INVARIANTS VerdictsComplete SetupIsSound PublishedKeysOpen
PROPERTIES AdminsProven SupersededRevoked RequestsGetThrough
CHECK_DEADLOCK FALSE
