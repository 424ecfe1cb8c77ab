SPECIFICATION Spec
CONSTANTS
  MaxObjects = 3
  MaxPins = 1
  MaxIds = 4
INVARIANTS TypeOK NoDanglingIds RowsAgree OneRow
CHECK_DEADLOCK FALSE
