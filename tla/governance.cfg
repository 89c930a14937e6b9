SPECIFICATION Spec
CONSTANTS
    k1 = k1
    k2 = k2
    Card = {}
    SubCard = {}
    Policy = {}
    Press = {}
    Key = {k1, k2}
    Cid = {}
    Offer = {}
    Nonce = {n1, n2, n3}
    Logic = {l1, l2}
    Domain = {}
    Path = {}
    Keysets <- MCKeysets
    MaxTime = 3
    MaxSequence = 0
    MaxUses = 0
    Nil = Nil
    MaxGovernanceKeys = 3
    MaxVersion = 2
    MaxSigners = 2
    Verifier = {v1, v2}
    Version = {"0.2"}
    KeyList <- MCEitherKeys
    Quorums = {1, 2}
    LogicTimelock = 2
    VerifierTimelock = 1
    MinGovernanceKeys = 1
INVARIANTS ApprovalSpentOnce
PROPERTIES LogicIsTimelocked VerifierIsTimelocked
SYMMETRY Symmetry
CHECK_DEADLOCK FALSE
