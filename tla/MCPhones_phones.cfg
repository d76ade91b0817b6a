SPECIFICATION MCSpec
CONSTANTS
    Sups = {s1, s2}
    MaxFaults = 1
    MaxRequests = 1
    MaxClicks = 3
    MaxTroubles = 2
    Points = {a}
    MaxEdits = 2
    MaxLoads = 2
INVARIANTS
    SSafe
    LSafe
    KSafe
PROPERTIES
    MFollows
    LShows
\* The manager is closed, and requests and faults are used up.
CHECK_DEADLOCK FALSE
