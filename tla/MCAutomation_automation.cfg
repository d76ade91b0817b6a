SPECIFICATION MCSpec
CONSTANTS
    PostJobs <- SevenJobs
    Attempts = 3
    FeedScripts = {"forYou", "following", "reels", "friends"}
    Grace = 2
    Leads = {"ann", "bob"}
    Runs = {r1, r2}
    Together = FALSE
    RetryFailed = FALSE
    BatchSize = 1
    MaxTaps = 2
    Services = {"v1", "v2"}
    MaxStarts = 2
    MaxChanges = 1
    Viewers = {"v1", "v2", "v3"}
    Agents = {a1, a2}
    MaxGeneration = 4
    Gestures = {g1, g2}
    Times = {0, 300}
    MinGap = 150
    MaxWait = 250
    Loops = 2
    MaxTrainings = 2
INVARIANTS
    PSafe
    PRightClips
    FSafe
    OSafe
    WSafe
    VSafe
    XSafe
    TSafe
PROPERTIES
    WorkEnds
    
\* Scripts and runs end; starts and requests are used up.
CHECK_DEADLOCK FALSE
