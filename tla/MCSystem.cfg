SPECIFICATION SystemFairSpec
CONSTANTS
    Windows = {w1}
    NoWindow = NoWindow
    MaxGen = 5
    MaxPartials = 0
    AudioMayFail = FALSE
    MaxDispatches = 3
    MaxCliCalls = 1
INVARIANTS
    OwnTarget
    NoTextLost
PROPERTY ComesToRest
