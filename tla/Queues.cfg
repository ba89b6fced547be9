\* Two writes, two kernels, every fault: every interleaving of starts, reloads,
\* stops, timeouts and crashes.  Or two loops, a reader, one person whose evidence
\* changes, one restart.
SPECIFICATION QueuesSpec
CONSTANTS
    Write = {r1, r2}
    Kernel = {k1, k2}
    None = None
    Settings = {TRUE, FALSE}
    Faults = {"init", "ingest", "replay", "shutdown"}
    Person = {"p1"}
    Loop = {"l1", "l2"}
    Reader = {"r1"}
    Evidence = {0, 1}
    MaxRetry = 1
    MaxChanges = 2
    MaxRequests = 3
    MaxReads = 1
    MaxCrashes = 1
INVARIANTS QueuedNotForgotten InitialisingIsDriven DoneIsFresh
PROPERTIES ReadyIsServed EverythingEnds EventuallyRefreshed
CHECK_DEADLOCK FALSE
