SPECIFICATION FairSpec
CONSTANTS MaxEpoch = 1  MaxOut = 1  MaxSize = 0
PROPERTY EndIsRead
CHECK_DEADLOCK FALSE
