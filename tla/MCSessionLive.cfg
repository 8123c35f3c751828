SPECIFICATION FairSpec
CONSTANTS
    Windows = {w1}
    NoWindow = NoWindow
    MaxGen = 3
    MaxPartials = 1
    AudioMayFail = FALSE
PROPERTIES
    RefinesDictation
    KeepsDictationFair
    CommandReturns
