\* A reload while a write is on its way in.
SPECIFICATION Spec
CONSTANTS
    Write = {r1}
    Kernel = {k1, k2}
    None = None
    Settings = {TRUE}
    Faults = {}
INVARIANTS OpenIsOwned
CHECK_DEADLOCK FALSE
