SPECIFICATION Spec
CONSTANTS
  UserName = {"listCreate"}
  InternalName = {"thrower", "listCreate"}
  Slot = {s}
  MaxSessions = 3
INVARIANT RunsAsRegistered
