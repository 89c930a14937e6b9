SPECIFICATION PortSpec
CONSTANTS
    m = m
    a = a
    r = r
    Card = {m, a, r}
    Nil = Nil
    Ancestries <- MCAncestries
    Master = m
    AppCard = a
    SubCards <- MCSubCards
    Missing <- MCMissing
    Changing = {m, a}
    Reported <- MCReported
    MaxTime = 1
    MaxChanges = 2
    TrustedRoots = {r}
    AppRoots <- MCAppRoots
    MaxChainDepth = 2
    FreshnessWindow = 0
    Window = 2
INVARIANTS SubCardHonoured RevocationsJudged NoFalseAccusation MaskingClearsNobody
PROPERTIES PortConforms
CONSTRAINT ExploredPort
CHECK_DEADLOCK FALSE
