\* Two relations deleted together and restored apart, two jobs a round, restarts
\* that may switch relation vectors off; or the row of one relation through three
\* events and three hours.
SPECIFICATION RelationsSpec
CONSTANTS
    Paragraph = {}
    Entity = {}
    Relation = {r1, r2}
    DualPools = FALSE
    VectorModes <- Either
    SlowIngest = FALSE
    Limit = 2
    MaxOps = 2
    MaxFaults = 1
    Hash = {r1}
    Null = Null
    Full = 2
    ReviveLevel = 2
    Cooldown = 1
    FreezeTime = 0
    Protection = {0, 1}
    MaxClock = 3
    MaxEvents = 3
INVARIANTS DeadVectorOwed ActiveIsScheduled
PROPERTIES OperationsSettle ArchivedWereFaded NothingAges NeglectEnds
