SPECIFICATION SimSpec
CONSTANTS
  RoomNames <- GridNames
  Doors <- GridDoors
  Device <- GridDevice
  Crew <- TwoHunters
  Configs <- SimConfigs
  OrderTypes = {}
  HackTypes = {}
  LastRound = 6
INVARIANT BrainIsSound
PROPERTY ChaseEnds
CHECK_DEADLOCK FALSE
