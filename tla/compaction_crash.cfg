CONSTANTS
    Async = FALSE
    PerRun = 1
    MaxFaults = 3
    MaxCrashes = 3
SPECIFICATION FairSpec
INVARIANTS IntactCopy MarkerGuards NeverRefused
PROPERTY Converges
