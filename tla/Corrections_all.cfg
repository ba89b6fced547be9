SPECIFICATION CorrectionSpec
CONSTANTS
    Claim = {"A", "B"}
    Slot <- MCSlot
    Paragraph = {"p1", "t1"}
    Says <- MCSays
    Ingested = {"p1"}
    Plan = {"c1"}
    Text <- MCText
    Target <- MCTarget
    Kinds <- MCKinds
    Op = {o1, o2}
    MaxEvents = 6
SYMMETRY Symmetry
INVARIANTS FactsAreSupported ChangeIsAsked
PROPERTIES SlotGuarded RollBackUndoes
CHECK_DEADLOCK FALSE
