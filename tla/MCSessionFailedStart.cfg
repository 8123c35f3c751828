SPECIFICATION FairSpec
CONSTANTS
    w1 = w1
    w2 = w2
    Windows = {w1}
    NoWindow = NoWindow
    MaxGen = 3
    MaxPartials = 0
    AudioMayFail = TRUE
PROPERTY FailedStartAnswered
\* The counterexample ends in the deadlock it shows.
CHECK_DEADLOCK FALSE
