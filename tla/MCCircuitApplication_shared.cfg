SPECIFICATION FairSpec
CONSTANTS
    Sessions = {s1, s2, s3}
    Circuits = {c1}
    QueueCapacity = 5
    MaxIntents = 5
    Events = {"active", "end"}
    Faults = {}
    Leftovers = {}
    NoSession = NoSession
INVARIANTS
    InstalledIsAuthoritative
    NoOrphanWhenSettled
    NoMissingWhenSettled
PROPERTIES
    CircuitsConverge
CHECK_DEADLOCK FALSE
