SPECIFICATION FairSpec
CONSTANT MaxEpoch = 3
INVARIANT TypeOK
PROPERTIES IsScreen EpochsClosed 
CHECK_DEADLOCK FALSE
