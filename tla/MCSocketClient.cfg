SPECIFICATION FairSpec
CONSTANTS
    kBackoffInitMs = 500
    kBackoffMaxMs = 30000
    MaxConns = 3
    MaxEvents = 3
INVARIANTS
    ConnectedOrRetrying
    EventsInOrder
PROPERTY Reconnects
