SPECIFICATION FairSpec
CONSTANTS MaxShakes = 3  MaxAsks = 2
INVARIANTS TypeOK GivenOwn AskedOwn SessionsApart LostBounded
PROPERTY HandshakeEnds
CHECK_DEADLOCK FALSE
