SPECIFICATION Spec
CONSTANTS
    Sessions = {s1, s2}
    Circuits = {c1}
    QueueCapacity = 1
    MaxIntents = 5
    Events = {"active", "end"}
    Faults = {}
    Leftovers = {}
    NoSession = NoSession
INVARIANTS
    NoOrphanWhenSettled
CHECK_DEADLOCK FALSE
