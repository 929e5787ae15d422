CONSTANTS
    Circuits = {"c1"}
    Parents = {"p1", "p2"}
    Minors = {1, 2, 3}
    ShadowMinors = {11, 12, 13}
    Plans <- LoneReloadPlans
    FirstPlan <- LoneHome
    LazyModes = {"No", "Htb", "Full"}
    MaxRetries = 1
    MigrationsPerPass = 2
    MaxEvents = 2
    Faults = {}
SPECIFICATION Spec
CHECK_DEADLOCK FALSE
INVARIANTS PlanInForce
