SPECIFICATION Spec
CONSTANTS
  Players = {a, b, c, d}
  Bots = {}
  Nobody = Nobody
  Claimants = {}
  HookUrl = FALSE
  AiAvailable = FALSE
  HunterCounts = {3}
  RoundTimer = 2
  Grace = 1
  VoteAfter = 1
  Extensions = {1}
  MaxTime = 3
  MaxCredit = 3
  MaxRound = 2
  MaxGames = 1
  QueuedOps = {"pause"}
  EditableIn = {"LOBBY"}
  CrashPoints = {"free"}
SYMMETRY Accounts
INVARIANTS
  TypeOK
  
  TimeIsKept
  
  

CHECK_DEADLOCK FALSE
