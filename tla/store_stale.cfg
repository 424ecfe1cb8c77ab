SPECIFICATION SpecStale
CONSTANTS MaxFutures = 3
INVARIANTS NothingForgotten
CHECK_DEADLOCK FALSE
