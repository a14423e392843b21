SPECIFICATION AttributedSpec
CONSTANTS
    Model <- HierarchyModel
    None = "-"
    DispatchName = {"x", "y", "z", "level", "mode", "ask"}
    ClientName = {"x", "y", "z"}
    Attribute <- Levels
    Value = {"lo", "hi"}
    Default <- LevelDefault
    ChangeEvent <- LevelChange
    Caller = {k1}
    CallEvent <- AskEvent
    CompletionName = {"hsm/final", "hsm/error"}
    Client = {c1}
    Free = Free
    Startup = Startup
    Process = Process
    TaskId = {t1}
    CleanupDispatches = FALSE
    ParentMayEnd = FALSE
    MaxEvents = 3
    MaxFaults = 0
INVARIANT ConfigurationEntered
INVARIANT RestsInStates
INVARIANT ChangesTellTheValue
PROPERTY EntryExitOrder
PROPERTY AttributesImplementRuntime
CHECK_DEADLOCK FALSE
