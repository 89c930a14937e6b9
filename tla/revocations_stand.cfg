SPECIFICATION PortSpec
CONSTANTS
    m = m
    a = a
    r = r
    Card = {m, a, r}
    Nil = Nil
    Ancestries <- MCAncestries
    Master = m
    AppCard = a
    SubCards <- MCSubCards
    Missing <- MCMissing
    Changing = {m, a}
    Reported <- MCDated
    MaxTime = 0
    MaxChanges = 2
    TrustedRoots = {r}
    AppRoots <- MCAppRoots
    MaxChainDepth = 2
    FreshnessWindow = 0
    Window = 2
INVARIANT RevocationsStand
CONSTRAINT ExploredPort
CHECK_DEADLOCK FALSE
