SPECIFICATION TimedFairSpec
CONSTANTS
    Model <- ClockworkModel
    None = "-"
    DispatchName = {"x", "after", "every"}
    ClientName = {"x"}
    AtOnce = TRUE
    Timed <- ClockworkTimed
    Every <- ClockworkEvery
    TimeEvent <- ClockworkEvent
    CompletionName = {"hsm/final", "hsm/error"}
    Client = {c1}
    Free = Free
    Startup = Startup
    Process = Process
    TaskId = {t1, t2, t3}
    CleanupDispatches = FALSE
    ParentMayEnd = FALSE
    MaxEvents = 3
    MaxFaults = 1
INVARIANT NoPileUp
PROPERTY TicksInState
PROPERTY TimersImplementRuntime
PROPERTY TimeoutHappens
CHECK_DEADLOCK FALSE
