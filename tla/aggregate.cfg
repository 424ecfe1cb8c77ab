SPECIFICATION Spec
CONSTANTS
  Input = {s, t}
  Payload = {a, b}
  Undefined = Undefined
  Thrown = Thrown
  MaxLength = 3
INVARIANTS TypeOK ResultAsPromised RemainingExact
PROPERTIES ResultArrives
CHECK_DEADLOCK FALSE
