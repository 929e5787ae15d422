SPECIFICATION Spec
CONSTANTS
    c1 = c1
    c2 = c2
    u1 = u1
    s1 = s1
    s2 = s2
    Circuits = {c1, c2}
    Promotable = {}
    Versions = {v1}
    Sites = {s1, s2}
    ParentOf <- LastUnderOther
    Plans <- OnlySmallTree
    Catalogs <- NoCatalogs
    Handlers = {h1}
    Promoter = promoter
    MappedLimit = 2
    MaxEvents = 3
    Faults = {}
INVARIANT InSyncWhenSettled
CHECK_DEADLOCK FALSE
