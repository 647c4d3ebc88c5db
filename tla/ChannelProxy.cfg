SPECIFICATION FairSpec
CONSTANTS MaxData = 1  MaxReqs = 1
INVARIANT TypeOK
PROPERTIES IsRelay DataPassedOn CloseReturned
CHECK_DEADLOCK FALSE
