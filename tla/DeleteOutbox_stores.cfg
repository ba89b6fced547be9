\* One paragraph and one relation in pools of their own, two operations, slow embeddings.
SPECIFICATION Spec
CONSTANTS
    Paragraph = {p1}
    Entity = {}
    Relation = {r1}
    DualPools = TRUE
    VectorModes <- Always
    SlowIngest = TRUE
    Limit = 9
    MaxOps = 2
    MaxFaults = 1
INVARIANTS StoresOwed UnfinishedIsWanted
PROPERTIES LiveVectorKept CompletionIsDurable
