CONSTANTS
    t1 = t1
    t2 = t2
    t3 = t3
    h1 = h1
    h2 = h2
    p1 = p1
    p2 = p2
    ra1 = ra1
    ra2 = ra2
    None = None
    Threads = {t1, t2}
    Handles = {h1, h2}
    Root = h1
    Permits = {p1}
    Interval = 3
    SleepChunk = 2
    RetryAfters = {ra1}
    Budget = 1
SPECIFICATION Spec
INVARIANTS NoLostWake FewLateSends
PROPERTIES StartSpacing SendSpacing
SYMMETRY Symmetry
