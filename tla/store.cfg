SPECIFICATION Spec
CONSTANTS MaxFutures = 3
INVARIANTS TypeOK NothingForgotten NoDanglingRows WriteBack
PROPERTIES ImplementsDurableFutures
CHECK_DEADLOCK FALSE
