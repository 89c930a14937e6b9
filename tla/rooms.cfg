SPECIFICATION FairSpec
CONSTANTS
    c1 = c1
    c2 = c2
    i1 = i1
    p1 = p1
    p0 = p0
    doc = doc
    good = good
    bad = bad
    Room = {r1}
    Card = {c1, c2}
    Issuer = {i1}
    ChainOf <- MCChainOf
    PolicyOf <- MCPolicyOf
    Field = {good, bad}
    Changing = {c2}
    FieldAtFirst <- MCFieldAtFirst
    Founder = {c1}
    Document = {doc}
    Entries <- MCEntries
    Discernible = FALSE
    None = None
    MaxChanges = 1
    MaxCalls = 1
    MaxRestarts = 1
PROPERTIES RevokedIsParted
CHECK_DEADLOCK FALSE
