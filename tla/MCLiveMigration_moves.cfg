CONSTANTS
    Circuits = {"c1", "c2"}
    Parents = {"p1", "p2"}
    Minors = {1, 2, 3}
    ShadowMinors = {11, 12, 13}
    Plans <- MovePlans
    FirstPlan <- Home
    LazyModes = {"No", "Htb", "Full"}
    MaxRetries = 1
    MigrationsPerPass = 1
    MaxEvents = 2
    Faults = {}
SPECIFICATION Spec
CHECK_DEADLOCK FALSE
INVARIANTS PlanInForce ShadowsDisjoint
PROPERTIES ShadowReadyAtSwap TeardownSparesTraffic
