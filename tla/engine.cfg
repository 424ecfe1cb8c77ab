SPECIFICATION Spec
CONSTANTS
  MaxFutures = 3
  Payload = {a}
  TypeException = TypeException
  NotFound = NotFound
  NoValue = NoValue
  Handlers <- SomeHandlers
  Observed = {1}
  NestedPromises = {}
INVARIANTS TypeOK NoTwoSettlers PendingIffOwed CallsCounted NoForgottenWaiter PromiseAgrees FollowersAgree ReactionsInOrder
PROPERTIES SettledForGood AdoptionCompletes ReactionsRun ActivitySettles ImplementsLifecycle ImplementsPromises
