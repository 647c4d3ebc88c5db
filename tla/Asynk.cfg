SPECIFICATION FairSpec
CONSTANTS Capacity = 3  MaxBytes = 6  MaxWrite = 4
INVARIANTS TypeOK
PROPERTIES IsStream SliceStable AcceptedDelivered
CHECK_DEADLOCK FALSE
