SPECIFICATION WorkStopSpec
CONSTANTS
    e1 = e1
    e2 = e2
    d1 = d1
    j1 = j1
    Executions = {e1}
    Jobs = {j1, j2}
    Devices = {d1}
    Reconcilers = {r1}
    Operators = {o1}
    NoJob = NoJob
    NoExec = NoExec
    DeviceOf <- OneDevice
    RetryLimit <- NoRetries
    Stoppable = {e1}
    MaxFaults = 1
    Phones = {i1, i2}
    Ports = {p8100, p8101}
    MaxCalls = 4
    Flows = {f1}
    MaxDrafts = 0
    MaxPresses = 0
    MaxWays = 0
    MaxOthers = 0
INVARIANTS
    GSafe
PROPERTIES
    StopIsHonoured
\* Executions have ended and pg-boss is tidy, calls are used up: nothing is left to do.
CHECK_DEADLOCK FALSE
