SPECIFICATION Spec
CONSTANTS
    Texts = {Empty, "idle", "start"}
    Empty = Empty
    None = None
INVARIANTS
    RoundTrip
    VersionsGetOn
