SPECIFICATION Spec
CONSTANTS Tests <- MCTests
 MaxRounds = 6
INVARIANTS TypeOK ExpectationsMet RowsComplete StillOwed
PROPERTIES TestsEnd OutcomesKept
CHECK_DEADLOCK FALSE
