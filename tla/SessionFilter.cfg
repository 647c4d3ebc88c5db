SPECIFICATION FairSpec
CONSTANTS MaxReqs = 2  MaxOut = 2  MaxIn = 1
INVARIANTS TypeOK SizeKnown SizeAgreed InputInterposed SwitchComplete AtMostOneAround AnswersInOrder
PROPERTY Answered
CHECK_DEADLOCK FALSE
