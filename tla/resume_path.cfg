CONSTANTS
    None = None
    MayNoop = {"005"}
    Torn = Torn
    MaxFaults = 0
    MaxCrashes = 1
SPECIFICATION Spec
INVARIANT NeverIncoherent
