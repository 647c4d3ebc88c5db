SPECIFICATION FairSpec
CONSTANTS
  Writers = {sink, puller}
  Size = 2  Delay = 1  MaxPackets = 4  MaxTime = 2
INVARIANTS TypeOK RoomToNotify
PROPERTIES IsStream NotEarly PacketSent WaitEnds CleanEnd
CHECK_DEADLOCK FALSE
