SPECIFICATION Spec
CONSTANTS
    w1 = w1
    w2 = w2
    Windows = {w1, w2}
    NoWindow = NoWindow
    MaxGen = 4
    MaxPartials = 1
    AudioMayFail = TRUE
SYMMETRY Symmetry
INVARIANTS
    EngineExclusive
    MicOnlyWhileRecording
    DeliveredOnce
    QuietAfterDestruction
PROPERTY PartialInsideSession
\* A failing AudioCapture::start may deadlock the daemon.
CHECK_DEADLOCK FALSE
