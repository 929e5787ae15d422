SPECIFICATION Spec
CONSTANTS
    Sessions = {s1, s2}
    Circuits = {c1, c2}
    QueueCapacity = 1
    MaxIntents = 4
    Events = {"active", "end", "rekey", "promote"}
    Faults = {"refused", "failed", "timeout", "dropped", "disabled", "expire"}
    Leftovers = {c1}
    NoSession = NoSession
INVARIANTS
    TypeOK
    OwnershipWellFormed
    InstalledHasAuthority
    PendingIsInFlight
    RequestStaysJustified
PROPERTIES
    NoStaleUninstall
SYMMETRY Symmetry
CHECK_DEADLOCK FALSE
