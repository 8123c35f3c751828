SPECIFICATION FairSpec
CONSTANTS
    Texts = {a, b}
    NoText = NoText
    MaxRec = 2
INVARIANTS
    StreamsInUseAreOpen
    NoStreamLeaks
    ErrorsOfOwnRecording
    DamagedIsNotDelivered
    CallbackIsWhole
    PartialsCurrent
PROPERTY CallsReturn
