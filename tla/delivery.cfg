SPECIFICATION FairDeliverySpec
CONSTANTS
    d1 = d1
    Device = {d1}
    Msg = {m1}
    Uuid = {u1, u2}
    Socket = {s1}
    Worker = {w1}
    MaxUpsets = 1
    MaxAttempts = 2
    MaxCount = 1
    Addressee <- MCAddressee
    Nil = Nil
INVARIANTS ClearedIsStored UuidUsedOnce
PROPERTY HeldIsDelivered
