SPECIFICATION TimerSpec
CONSTANTS
    s1 = s1
    s2 = s2
    s3 = s3
    c1 = c1
    d1 = d1
    Schedules = {s1, s2}
    Campaigns = {}
    Requests = {p1, p2}
    Operations = {"create", "edit", "pause"}
    DeviceOf <- OneDevice
    CampaignOf <- CampaignOfTwo
    CampaignTiming <- NowCampaign
    Timings <- AllKinds
    Externals = {x1}
    Hashes = {h1, h2}
    NoSchedule = NoSchedule
    NoCampaign = NoCampaign
    NoExternal = NoExternal
    NoHash = NoHash
    Spacing = 1
    MaxTime = 2
    MaxFaults = 1
INVARIANTS
    AnswersAgree
PROPERTIES
    DueIsQueued
\* Requests are made once and time ends: nothing is left to do then.
CHECK_DEADLOCK FALSE
