SPECIFICATION PlanSpec
CONSTANTS
    s1 = s1
    s2 = s2
    s3 = s3
    c1 = c1
    d1 = d1
    Schedules = {s1, s2, s3}
    Campaigns = {c1}
    Requests = {p1, p2, p3}
    Operations = {"create", "edit", "retime", "activate", "pause", "cancel", "launch", "drop"}
    DeviceOf <- OwnDevices
    CampaignOf <- CampaignOfTwo
    CampaignTiming <- NowCampaign
    Timings <- AllKinds
    Externals = {}
    Hashes = {}
    NoSchedule = NoSchedule
    NoCampaign = NoCampaign
    NoExternal = NoExternal
    NoHash = NoHash
    Spacing = 1
    MaxTime = 3
    MaxFaults = 0
    Devs = {d1, d2}
    Names = {"n1"}
    MaxPools = 2
    MaxActs = 3
    MaxSlips = 1
SYMMETRY Symmetry
INVARIANTS
    IInv
    OneShotFiresOnce
    IntervalSpacing
    LaunchedOnce
    
PROPERTIES
    DropIsComplete
\* Requests are made once, time ends and clicks are used up: nothing is left to do then.
CHECK_DEADLOCK FALSE
