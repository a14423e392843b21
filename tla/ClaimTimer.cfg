SPECIFICATION TimedSpec
CONSTANTS
    Model <- ClockworkModel
    None = "-"
    DispatchName = {"x", "after", "every"}
    ClientName = {"x"}
    AtOnce = FALSE
    Timed <- ClockworkTimed
    Every <- ClockworkEvery
    TimeEvent <- ClockworkEvent
    CompletionName = {"hsm/final", "hsm/error"}
    Client = {c1}
    Free = Free
    Startup = Startup
    Process = Process
    TaskId = {t1, t2, t3}
    CleanupDispatches = FALSE
    ParentMayEnd = FALSE
    MaxEvents = 3
    MaxFaults = 0
PROPERTY OnTime
CHECK_DEADLOCK FALSE
