\* Two corrections that share a relation and the two rollbacks, nothing failing.
SPECIFICATION Spec
CONSTANTS
    Task = {"t1", "t2"}
    Relation = {"r1", "r2"}
    Targets <- TwoTargets
    Admin = {"a1"}
    Faults = {}
    MaxCrashes = 0
INVARIANT RollBackRestores
CHECK_DEADLOCK FALSE
