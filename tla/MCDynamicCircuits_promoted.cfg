SPECIFICATION BusySpec
CONSTANTS
    c1 = c1
    c2 = c2
    u1 = u1
    s1 = s1
    s2 = s2
    Circuits = {u1}
    Promotable = {u1}
    Versions = {v1}
    Sites = {s1, s2}
    ParentOf <- AllUnderOneSite
    Plans <- OnlyWholeTree
    Catalogs <- NoCatalogs
    Handlers = {h1}
    Promoter = promoter
    MappedLimit = 2
    MaxEvents = 3
    Faults = {}
PROPERTY PromotedGetsMapped
CHECK_DEADLOCK FALSE
