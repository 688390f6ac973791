SPECIFICATION WorldSpec
CONSTANTS
  SliceLists <- WorldSlices
  ItemLists <- WorldItems
  Worlds <- WorldRooms
  Maps <- WorldMaps
  Trains <- WorldTrains
  Art = {"pack", "theme", "chars", "backs"}
  CharFolder = "chars"
  CharSheets = {"hair"}
  BackFolder = "backs"
  BackFiles <- WorldBacks
  Base = "inn"
  MaxMoves = 2
  Files = {"manifest", "atlas", "theme", "page", "train"}
  Targets = {"manifest", "atlas", "theme", "page"}
  ReadAtStart = {"manifest"}
  Fetched = {"atlas", "theme"}
  Hashed = {"manifest", "theme"}
  Bundle = "page"
  Contents = {0, 1, 2}
  MaxEdits = 3
INVARIANTS
  
  PicturesSurvive
  EverythingOpens
  ReportIsTrue
CHECK_DEADLOCK FALSE
