SPECIFICATION Spec
CONSTANTS
    a = a
    b = b
    c = c
    NoId = NoId
    Ids = {a, b, c}
    Modes = {"plain", "stream", "background", "live", "transient"}
    Readers = {}
    MaxEntries = 1
    MaxEvents = 0
CHECK_DEADLOCK FALSE
SYMMETRY AlikeIds
INVARIANTS StoreBounded BundlesWhole PinsHeld
PROPERTIES CancelledIsFinal
