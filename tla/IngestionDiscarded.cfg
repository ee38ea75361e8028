SPECIFICATION Spec
CONSTANTS
    NoEvent = NoEvent
    Event = {e1}
    Invalid = {}
    Attempt = {a1, a2}
    IngestLimit = 3
    MaxCalls = 2
    MaxBusFaults = 1
SYMMETRY Symmetry
INVARIANT NeverSilentlyDiscarded
CHECK_DEADLOCK FALSE
