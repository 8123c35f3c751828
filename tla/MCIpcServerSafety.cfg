SPECIFICATION Spec
CONSTANTS
    Subscribers = {plugin}
    Tools = {tool}
    Readers = {tool}
    MaxEvents = 2
    MaxLines = 2
INVARIANTS
    AnsweredInOrder
    MirrorConverges
