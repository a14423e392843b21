SPECIFICATION Spec
CONSTANTS Plans <- PlanSet
CHECK_DEADLOCK FALSE
INVARIANT OutgoingIsSource
INVARIANT KindsOfEnds
INVARIANT FlattenedAlike
INVARIANT OutcomesInOrder
INVARIANT HandlersOfOwnPoint
INVARIANT ObservedOnce
INVARIANT AcceptedIsChart
