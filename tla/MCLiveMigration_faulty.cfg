CONSTANTS
    Circuits = {"c1"}
    Parents = {"p1", "p2"}
    Minors = {1, 2, 3}
    ShadowMinors = {11, 12, 13}
    Plans <- LonePlans
    FirstPlan <- LoneHome
    LazyModes = {"No", "Htb", "Full"}
    MaxRetries = 1
    MigrationsPerPass = 2
    MaxEvents = 3
    Faults = {"tc", "read", "remap", "classify", "config", "observe", "expire"}
SPECIFICATION FairSpec
CHECK_DEADLOCK FALSE
INVARIANTS TypeOK
PROPERTIES OnlyReloadClearsRequirement MigrationsEnd
