SPECIFICATION CheckSpec
CONSTANTS
    Names <- FourNames
    Kinds = {"state", "submachine", "deep", "shallow", "choice", "exit"}
INVARIANT LCAIsDeepest
INVARIANT PathsJoin
INVARIANT KindDecidesExit
INVARIANT HistoryReturns
CHECK_DEADLOCK FALSE
