SPECIFICATION Spec
CONSTANTS
    p1 = p1
    n1 = n1
    n2 = n2
    n3 = n3
    n4 = n4
    Card = {c1, c2}
    SubCard = {s1, s2}
    Policy = {p1, p2}
    Press = {r1}
    Key = {k1}
    Cid = {h1, h2}
    Offer = {o1}
    Nonce = {n1, n2, n3, n4}
    Logic = {l1}
    Domain = {}
    Path = {}
    Keysets <- MCNone
    MaxTime = 2
    MaxSequence = 4
    MaxUses = 2
    Nil = Nil
    MaxGovernanceKeys = 3
    OfferTerms <- MCOfferTerms
    Unlimited = 9
    MaxBatchSize = 2
    BatchItems <- MCBatchItems
    MaxVersion = 0
    MaxSigners = 1
    OneUse = 1
    OfferExpiry = 2
    MaxHeadWrites = 2
    MaxClearEntries = 1
INVARIANTS HeadChain SequenceSpentOnce OfferHonoured
PROPERTIES HeadsWrittenWithAuthority
SYMMETRY Symmetry
CONSTRAINT Explored
CHECK_DEADLOCK FALSE
