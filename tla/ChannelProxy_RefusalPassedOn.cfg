SPECIFICATION Spec
CONSTANTS MaxData = 1  MaxReqs = 1
INVARIANT RefusalPassedOn
CHECK_DEADLOCK FALSE
