SPECIFICATION OrderedSpec
CONSTANTS
    e1 = e1
    e2 = e2
    d1 = d1
    j1 = j1
    Executions = {e1}
    Jobs = {j1, j2}
    Devices = {d1}
    Reconcilers = {r1}
    Operators = {}
    NoJob = NoJob
    NoExec = NoExec
    DeviceOf <- OneDevice
    RetryLimit <- NoRetries
    Stoppable = {e1}
    MaxFaults = 1
INVARIANTS
    NoAutomaticRerun
\* Once every execution has ended and pg-boss is tidy, nothing is left to do.
CHECK_DEADLOCK FALSE
