SPECIFICATION ServicesSpec
CONSTANTS
    k1 = k1
    k2 = k2
    k3 = k3
    holder = holder
    app = app
    policy = policy
    Key = {k1, k2, k3}
    Entity = {holder, app, policy}
    Policy = policy
    HolderOf <- MCHolderOf
    AppOf <- MCAppOf
    Limit <- MCLimit
    MaxFaults = 1
    MaxWindow = 1
    Device = {d1, d2}
    Update = {u1, u2, u3}
    MaxLate = 1
    Cid = {a, b}
    Batch = 2
    MaxBlock = 4
    MaxJobFaults = 2
    Nil = Nil
    c1 = c1
    c2 = c2
    i1 = i1
    p1 = p1
    p0 = p0
    doc = doc
    good = good
    bad = bad
    Room = {r1}
    Card = {c1, c2}
    Issuer = {i1}
    ChainOf <- MCChainOf
    PolicyOf <- MCPolicyOf
    Field = {good, bad}
    Changing = {c2}
    FieldAtFirst <- MCFieldAtFirst
    Founder = {c1}
    Document = {doc}
    Entries <- MCEntries
    Discernible = TRUE
    None = None
    MaxChanges = 1
    MaxCalls = 1
    MaxRestarts = 1
INVARIANTS RateLimited DirectoryKeepsUpdates NothingSkipped MembersQualify
CONSTRAINT Explored
CHECK_DEADLOCK FALSE
