SPECIFICATION HouseSpec
CONSTANTS
  Cols = 4
  Rows = 4
  WallRows = 1
  Spawn <- MineSpawn
  Exits <- MineExits
  Blocked <- MineBlocked
  Pits = {}
  Props <- MineProps
  RockTarget = 1
  OreSeq <- HouseOres
  OreHits <- HouseOreHits
  OreValue <- HouseOreValue
  InWall <- HouseInWall
  Floors = 2
  Tier <- HouseTiers
  NodesPerFloor = 2
  Reach = 1
  NoLayout = NoLayout
  Watched = "a"
  Miners = {"a", "b"}
  Drawn <- HouseDraws
  MaxDay = 2
  NoFloor = NoFloor
  NoCell = NoCell
  NoPress = NoPress
  Outside = Outside
  Wares <- HouseWares
  WarePrice <- HousePrice
  WareSet <- HouseSets
  NoSet = NoSet
  BedWares = {"bed"}
  RuinedWares = {"junk"}
  K = 8
  DecayNum = 1
  DecayDen = 2
  BonusNum = 1
  BonusDen = 2
  SetMinItems = 2
  RuinedPenalty = 5
  AffectionBonus = 3
  MinComfort = 10
  Band = 34
  MaxGuests = 3
  PayBaseNum = 400
  PayPerComfortNum = 36
  PayDen = 100
  TapsPerLevel = 3
  MaxTapsPerCall = 2
  MaxAffection = 2
  MaxRows = 3
  MaxTaps = 8
  NUnits = 2
  SpecialAfter = 2
  Tables = {"table"}
  DogWares = {"lamp"}
  Requestable = {"lamp"}
  MaxCatchup = 2
  LeadMin = 1
  LeadMax = 2
  ReserveMult = 2
  DogMult = 3
  DogFallback = 70
  MonthDays = 3
  DogDay <- HouseDogDays
  MaxGuestNotes = 2
  NoPromise = NoPromise
  LastGuestDay = 5
  MaxMoves = 2
  Stocked <- HouseStocked
  Movable <- HouseMovable
  Bites = 2
  Gap = {3}
  Window = {1}
  Hold = {1, 2}
  CatchPct <- DockPct
  Slack = 1
  Cooldown = 1
  Ttl = 10
  Anglers = {"p", "q"}
  NoCast = NoCast
  MaxPresses = 2
  LongestPress = 2
  MaxCasts = 2
  MaxClock = 14
  NoRequest = NoRequest
  MaxVersion = 3
  MaxConnects = 2
INVARIANTS
  LayoutIsPlayable
  BrokenPaysOnce
  DescentIsSound
  BooksAreHonest
  PanelKeepsItsWord
  JudgeIsFair
  CastsAreHonest
  ViewIsCurrent
PROPERTIES
  CleaningNeverHurts
  MorningComes
CHECK_DEADLOCK FALSE
