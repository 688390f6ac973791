SPECIFICATION PartSpec
CONSTANTS
  RoomNames <- SquareNames
  Doors <- SquareDoors
  Device <- SquareDevice
  Crew <- OneHunter
  Configs <- EngineConfigs
  OrderTypes = {"move", "search"}
  HackTypes = {"doorlock", "hide", "overload"}
  LastRound = 2
  Strangers = {"outside"}
INVARIANTS
  RamNeverOverdrawn
  CaptureIsContact
  NobodySlipsBy
PROPERTIES
  PursuitIsOneWay
  
CHECK_DEADLOCK FALSE
