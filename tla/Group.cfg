SPECIFICATION GroupSpec
CONSTANTS
    Member = {a, b}
    Members <- PairMembers
    Client <- PairClient
    GroupCall = {g1, g2}
    a = a
    b = b
    g1 = g1
    g2 = g2
    Free = Free
    Startup = Startup
    Process = Process
    ParentMayEnd = FALSE
    MaxEvents = 2
    MaxStarts = 1
    MaxFaults = 1
INVARIANT BroadcastOrder
PROPERTY StopBringsDown
PROPERTY RestartBringsUp
INVARIANT WaitsForWork
SYMMETRY CallSymmetry
CHECK_DEADLOCK FALSE
