SPECIFICATION MCSpec
CONSTANTS
    x1 = x1
    x2 = x2
    Items = {1, 2}
    Drains = {x1, x2}
    Recurring = {x2}
    Cancels = {q1}
    NoDrain = NoDrain
    NoItem = NoItem
    PipelineFaults = 1
    Workers = {"k1", "k2"}
    Refreshes = {f1, f2}
    Known <- KnownProfile
    MaxEdits = 1
    MaxOverlaps = 1
    MaxTroubles = 1
    Callers = {c1, c2}
    RemoteCalls = 3
    RemoteForgets = 1
    RemoteTroubles = 1
    AutoPhones = {d1, d2}
    MaxTurns = 3
    MaxReads = 2
    MaxFlaws = 1
INVARIANTS
    PipelineSafe
    UTypeOK
    RSafe
    HSafe
PROPERTIES
    PublishedIsFinal
    PipelineSettles
    FleetSettles
\* Clips, drains and calls are used up.
CHECK_DEADLOCK FALSE
