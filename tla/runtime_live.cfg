CONSTANTS
    t1 = t1
    t2 = t2
    t3 = t3
    h1 = h1
    h2 = h2
    p1 = p1
    p2 = p2
    ra1 = ra1
    ra2 = ra2
    None = None
    Threads = {t1, t2}
    Handles = {h1}
    Root = h1
    Permits = {p1, p2}
    Interval = 2
    SleepChunk = 1
    RetryAfters = {ra1, ra2}
    Budget = 1
SPECIFICATION FairSpec
INVARIANTS AgreedRetryAfter ToolRunsAlone NothingLeaks
PROPERTIES RequestsEnd GateSpec
