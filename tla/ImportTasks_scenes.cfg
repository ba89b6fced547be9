SPECIFICATION Spec
CONSTANTS
    Task <- TwoTasks
    Doc = {"text"}
    Mode <- Modes
    Own <- TwoScenes
    Batch <- TextOnly
    Known = {}
    QueueLimit = 2
    Deletable = {}
    Rows = {}
    RetryOpen = FALSE
    MayShutDown = FALSE
INVARIANT ImportedWasStored
CHECK_DEADLOCK FALSE
