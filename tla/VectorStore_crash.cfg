\* Three vectors, five calls, a crash or an exception at any step.
SPECIFICATION Spec
CONSTANTS
    a = a  b = b  c = c
    Id = {a, b, c}
    BufferSize = 2
    GcLimit = 0
    MinTrain = 3
    MaxOps = 5
    MaxFaults = 2
    FaultsIn = {}
INVARIANTS AlwaysLoads MembersAgree
PROPERTIES ImplementsVectorSet
CHECK_DEADLOCK FALSE
