SPECIFICATION EdgesSpec
CONSTANTS
    Service = {n1, n2}
    Card = {c1}
    Stamp = {1, 2}
    MaxEvents = 3
    Nil = Nil
    h1 = h1
    h2 = h2
    SubCard = {s1}
    Handler = {h1, h2}
    Skew = {0, 2}
    Window = 1
    Stall = 1
    Retention = 3
    Batch = 2
    Threshold = 1
    MaxTime = 5
    MaxSigned = 3
    MaxMishaps = 1
    Vacant = Vacant
INVARIANTS OrderIndependent HonouredOnce
PROPERTIES RoutesSettle LowPoolsRefilled
CHECK_DEADLOCK FALSE
