SPECIFICATION FairSpec
CONSTANTS
    Windows = {w1, w2, w3}
    NoWindow = NoWindow
    Timeout = 2
    MaxTexts = 2
INVARIANTS
    OneWatchedInjection
    
    TypedIntoTargetIfStill
PROPERTIES
    StartsWithInputReleased
    BusyEnds
