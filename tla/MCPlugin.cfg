SPECIFICATION FairSpec
CONSTANTS
    Windows = {w1, w2}
    NoWindow = NoWindow
    MaxRec = 2
    MaxRestarts = 1
    MaxKeys = 2
INVARIANTS
    BorderOnlyWhileRecording
    MirrorInStep
    OwnTarget
PROPERTY BorderGivenBack
