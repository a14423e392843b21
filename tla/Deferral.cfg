SPECIFICATION Spec
CONSTANTS
    Model <- DeferralModel
    None = "-"
    DispatchName = {"x", "y", "z", "w"}
    CompletionName = {"hsm/final", "hsm/error"}
    Client = {c1}
    Free = Free
    Startup = Startup
    Process = Process
    TaskId = {t1}
    CleanupDispatches = FALSE
    ParentMayEnd = TRUE
    MaxEvents = 3
    MaxFaults = 1
INVARIANT TypeOK
INVARIANT EventsConserved
INVARIANT HeldByCurrentState
INVARIANT NothingStranded
INVARIANT FirstLookInOrder
PROPERTY AnsweredWhenSettled
PROPERTY KeepsContract
CHECK_DEADLOCK FALSE
