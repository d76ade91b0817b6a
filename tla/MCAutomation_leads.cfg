SPECIFICATION MCSafe
CONSTANTS
    PostJobs <- SevenJobs
    Attempts = 3
    FeedScripts = {"forYou"}
    Grace = 2
    Leads = {"ann", "bob"}
    Runs = {r1, r2}
    Together = TRUE
    RetryFailed = FALSE
    BatchSize = 1
    MaxTaps = 2
    Services = {"v1"}
    MaxStarts = 2
    MaxChanges = 1
    Viewers = {"v1"}
    Agents = {a1}
    MaxGeneration = 4
    Gestures = {g1, g2}
    Times = {0, 300}
    MinGap = 150
    MaxWait = 250
    Loops = 2
    MaxTrainings = 2
PROPERTIES
    OOutcomesKept
\* Scripts and runs end.
CHECK_DEADLOCK FALSE
