\* Two corrections that share a relation, with an administrator, failures and a restart.
SPECIFICATION FairSpec
CONSTANTS
    Task = {"t1", "t2"}
    Relation = {"r1", "r2"}
    Targets <- TwoTargets
    Admin = {"a1"}
    Faults = {"ingest", "cleanup"}
    MaxCrashes = 1
INVARIANTS UndoneLeavesNoTrace DerivedIsAsked AppliedIsForgotten
PROPERTY EveryTaskEnds
CHECK_DEADLOCK FALSE
