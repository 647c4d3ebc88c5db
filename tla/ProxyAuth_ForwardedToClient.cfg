SPECIFICATION Spec
CONSTANTS MaxShakes = 2  MaxAsks = 2
INVARIANT ForwardedToClient
CHECK_DEADLOCK FALSE
