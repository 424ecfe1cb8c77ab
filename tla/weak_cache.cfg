SPECIFICATION Spec
CONSTANTS MaxObjects = 3
PROPERTY RowSettledForGood
CHECK_DEADLOCK FALSE
