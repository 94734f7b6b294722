CONSTANTS
    None = None
    MayNoop = {}
    Torn = Torn
    MaxFaults = 0
    MaxCrashes = 1
SPECIFICATION Spec
INVARIANT CompletedIsNoOp
