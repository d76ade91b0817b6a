SPECIFICATION SafetySpec
CONSTANTS
    e1 = e1
    e2 = e2
    d1 = d1
    j1 = j1
    Executions = {e1, e2}
    Jobs = {j1, j2, j3}
    Devices = {d1}
    Reconcilers = {r1, r2}
    Operators = {o1}
    NoJob = NoJob
    NoExec = NoExec
    DeviceOf <- OneDevice
    RetryLimit <- NoRetries
    Stoppable = {e1, e2}
    MaxFaults = 1
    Phones = {}
    Ports = {}
    MaxCalls = 0
    Flows = {f1, f2}
    MaxDrafts = 1
    MaxPresses = 3
    MaxWays = 2
    MaxOthers = 1
SYMMETRY Symmetry
INVARIANTS
    TypeOK
    IInv
    OneRunWithoutFaults
    ESafe
PROPERTIES
    FinishedStaysFinished
    RetryFollowsEnd
    ImplementsLife
\* Executions have ended and pg-boss is tidy, calls and clicks are used up: nothing is
\* left to do.
CHECK_DEADLOCK FALSE
