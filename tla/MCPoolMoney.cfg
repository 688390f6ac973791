SPECIFICATION Spec
CONSTANTS
  Members = {"lun", "kim"}
  Founders = {"lun"}
  Players = {"lun"}
  Handlers = {"request"}
  NoAnswer = NoAnswer
  Overlap = FALSE
  Kinds = {"junk", "table", "cup"}
  Price <- MCPrice
  ForSale = {"table"}
  Fixed = {}
  Ruined = {"junk"}
  Papers = {"table"}
  Small = {"cup"}
  RestsOn <- MCRestsOn
  GuestNote = "cup"
  MaxNotes = 1
  Rooms = {"inn", "floor_2"}
  Seeds <- MCSeeds
  Stages <- FishStages
  Loot = {"fish"}
  Value <- MCValue
  NightPay = {}
  Restarts = {}
  MaxSpan = 2
  MaxUid = 3
  MaxEarned = 1
  MaxCatches = 2
  MaxGuestPay = 0
INVARIANTS
  
  StagesSettled
  NoCatchWasted
CHECK_DEADLOCK FALSE
