SPECIFICATION Spec
CONSTANTS MaxEpoch = 2  MaxOut = 2  MaxSize = 1
INVARIANTS TypeOK WakeupAccounted HeldBack DeltaBase
PROPERTY IsScreen
CHECK_DEADLOCK FALSE
