SPECIFICATION SpecForeign
CONSTANTS
  MaxFutures = 2
  Payload = {a}
  TypeException = TypeException
  NotFound = NotFound
  NoValue = NoValue
  Handlers <- OneHandler
  Observed = {}
  NestedPromises = {}
PROPERTIES CallbackSettles
