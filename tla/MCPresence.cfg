SPECIFICATION Spec
CONSTANTS
  Players = {"lun", "kim"}
  Sockets <- TwoAndOne
  Places = {"inn", "map"}
  Base = "inn"
  Nobody = Nobody
  Troubled = {"lun"}
  MaxRotations = 1
  MaxWalks = 1
INVARIANT ShowsTheRoom
 
CHECK_DEADLOCK FALSE
