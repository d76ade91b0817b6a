SPECIFICATION WholeSpec
CONSTANTS
    s1 = s1
    s2 = s2
    s3 = s3
    c1 = c1
    d1 = d1
    Schedules = {s1}
    Campaigns = {}
    Requests = {p1, p2, p3}
    Operations = {"create", "activate", "cancel"}
    DeviceOf <- OneDevice
    CampaignOf <- CampaignOfTwo
    CampaignTiming <- NowCampaign
    Timings <- OneShots
    Externals = {}
    Hashes = {}
    NoSchedule = NoSchedule
    NoCampaign = NoCampaign
    NoExternal = NoExternal
    NoHash = NoHash
    Spacing = 0
    MaxTime = 2
    MaxFaults = 0
SYMMETRY RequestSymmetry
INVARIANTS
    OneShotNeverRefires
\* Requests are made once and time ends: nothing is left to do then.
CHECK_DEADLOCK FALSE
