SPECIFICATION FairPressSpec
CONSTANTS
    r1 = r1
    p1 = p1
    c1 = c1
    i1 = i1
    i2 = i2
    h0 = h0
    h1 = h1
    h2 = h2
    Card = {c1, c2}
    SubCard = {s1}
    Policy = {p1}
    Press = {r1, r2}
    Key = {k1}
    Cid = {h0, h1, h2}
    Offer = {o1}
    Nonce = {n1}
    Logic = {l1}
    Domain = {}
    Path = {}
    Keysets <- MCNone
    MaxTime = 2
    MaxSequence = 0
    MaxUses = 1
    Nil = Nil
    MaxGovernanceKeys = 3
    OfferTerms <- MCOfferTerms
    DocumentTerms <- MCDocumentTerms
    Unlimited = 9
    MaxBatchSize = 1
    BatchItems <- MCNone
    MaxVersion = 0
    MaxSigners = 1
    Request = {i1, i2}
    Self = r1
    SelfKey = k1
    NamedErrors = {"SEQUENCE_MISMATCH"}
    Retries = 1
    Target = {t1}
    OfferPolicy <- MCOfferPolicy
    ContentCid <- MCContentCid
    Founder = c1
    FounderPolicy = p1
    FounderCid = h0
INVARIANTS RetriesAreSafe LogMatchesChain
CONSTRAINT Explored
CHECK_DEADLOCK FALSE
PROPERTIES Answered
