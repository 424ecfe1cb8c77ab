SPECIFICATION Spec
CONSTANTS
  UserName = {"user", "entity"}
  InternalName = {"thrower", "listCreate"}
  Slot = {s}
  MaxSessions = 3
INVARIANTS TypeOK RunsAsRegistered FacadesOfThisSession OriginalMethods
