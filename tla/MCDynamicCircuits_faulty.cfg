SPECIFICATION Spec
CONSTANTS
    c1 = c1
    c2 = c2
    u1 = u1
    s1 = s1
    s2 = s2
    Circuits = {c1, u1}
    Promotable = {u1}
    Versions = {v1}
    Sites = {s1, s2}
    ParentOf <- LastUnderOther
    Plans <- AllTrees
    Catalogs <- CatalogWithC1
    Handlers = {h1, h2}
    Promoter = promoter
    MappedLimit = 1
    MaxEvents = 3
    Faults = {"persist", "timeout", "full", "disabled", "config", "observe", "reload", "fallback",
              "lost", "restart"}
INVARIANT TypeOK
INVARIANT RegisteredIsDurable
INVARIANT ClassesHangOffSites
INVARIANT PromotionsDeduplicated
CHECK_DEADLOCK FALSE
