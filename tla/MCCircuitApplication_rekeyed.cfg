SPECIFICATION Spec
CONSTANTS
    Sessions = {s1, s2}
    Circuits = {c1, c2}
    QueueCapacity = 5
    MaxIntents = 5
    Events = {"active", "end", "rekey"}
    Faults = {}
    Leftovers = {}
    NoSession = NoSession
INVARIANTS
    NoMissingWhenSettled
CHECK_DEADLOCK FALSE
