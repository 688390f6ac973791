SPECIFICATION Spec
CONSTANTS
  Members = {"lun"}
  Founders = {"lun"}
  Players = {"lun"}
  Handlers = {"request"}
  NoAnswer = NoAnswer
  Overlap = FALSE
  Kinds = {"junk", "table", "cup"}
  Price <- MCPrice
  ForSale = {"table", "cup"}
  Fixed = {}
  Ruined = {"junk"}
  Papers = {}
  Small = {"cup"}
  RestsOn <- MCRestsOn
  GuestNote = "cup"
  MaxNotes = 1
  Rooms = {"inn", "floor_2"}
  Seeds <- MCSeeds
  Stages <- FurnishStages
  Loot = {}
  Value <- MCValue
  NightPay = {1}
  Restarts = {"layout", "seeds"}
  MaxSpan = 1
  MaxUid = 5
  MaxEarned = 2
  MaxCatches = 0
  MaxGuestPay = 1
INVARIANTS
  PaidIsWorth
  NothingFloats
CHECK_DEADLOCK FALSE
