CONSTANTS
    small = small
    b1 = b1
    b2 = b2
    b3 = b3
    None = None
    Candidates = {0, 1}
    Bodies = {small, b1, b2, b3}
    BodySize <- Sizes
    BodyMaximum = 2
    Hops = 1
    BodyAllowance = 5
    RecordMaximum = 2
    IndexMaximum = 1
    MetadataAllowance = 4
    Artefacts = 3
    MaxFaults = 1
    MaxCrashes = 1
SPECIFICATION Spec
SYMMETRY AlikeBodies
INVARIANTS RecordsBacked WithinAllowances ReservationHonoured IndexIsExact StopIsSealed
    OutputsFollowIndex
