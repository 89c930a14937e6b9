SPECIFICATION DnsSpec
CONSTANTS
    p1 = p1
    n1 = n1
    n2 = n2
    n3 = n3
    n4 = n4
    Card = {c1}
    SubCard = {s1}
    Policy = {p1}
    Press = {r1}
    Key = {k1}
    Cid = {h1}
    Offer = {}
    Nonce = {n1, n2, n3, n4, n5, n6}
    Logic = {l1}
    Domain = {d1, d2}
    Path = {a1}
    Keysets <- MCNone
    MaxTime = 2
    MaxSequence = 1
    MaxUses = 0
    Nil = Nil
    MaxGovernanceKeys = 3
    OfferTerms <- MCOfferTerms
    Unlimited = 9
    MaxBatchSize = 1
    BatchItems <- MCNone
    MaxVersion = 0
    MaxSigners = 1
    MaxClearEntries = 1
    OneUse = 1
    OfferExpiry = 0
    MaxHeadWrites = 1
INVARIANTS DomainTablesAgree
PROPERTIES PathsWrittenWithAuthority
SYMMETRY DnsSymmetry
CHECK_DEADLOCK FALSE
