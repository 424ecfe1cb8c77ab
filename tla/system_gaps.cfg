SPECIFICATION Spec
CONSTANTS Tests <- MCTests
 MaxRounds = 1
INVARIANT NeverStuck
CHECK_DEADLOCK FALSE
