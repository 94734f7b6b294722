CONSTANTS
    None = None
    MayNoop = {"003S", "009"}
    Torn = Torn
    MaxFaults = 1
    MaxCrashes = 2
SPECIFICATION FairSpec
INVARIANTS NoRepeat DeepOnce OverIsWhole CompletedMeansAll NeverIncoherent
PROPERTIES PackFreezesMetadata Settles
