SPECIFICATION Spec
CONSTANTS
    MaxText = 3
    Capacity = 2
    MaxCalls = 2
    MaxSignals = 1
INVARIANTS
    TrueMeansTyped
    NothingLeft
PROPERTY
    InjectEnds
