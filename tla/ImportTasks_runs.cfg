SPECIFICATION FairSpec
CONSTANTS
    Task <- TwoTasks
    Doc = {"text", "note", "data", "known", "json", "migration", "conversion", "backfill"}
    Mode <- Modes
    Own <- TwoParts
    Batch <- OneAndRetry
    Known = {"known"}
    QueueLimit = 2
    Deletable = {"json"}
    Rows = {0, 1, 2}
    RetryOpen = TRUE
    MayShutDown = TRUE
INVARIANTS TasksAgree CompletedWasStored
PROPERTIES EndedIsFinal EveryTaskEnds
CHECK_DEADLOCK FALSE
