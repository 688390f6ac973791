SPECIFICATION Spec
CONSTANTS
  Players = {a, b, c}
  Bots = {bot1}
  Nobody = Nobody
  Claimants = {a, b}
  HookUrl = TRUE
  AiAvailable = TRUE
  HunterCounts = {2}
  RoundTimer = 1
  Grace = 1
  VoteAfter = 1
  Extensions = {}
  MaxTime = 1
  MaxCredit = 1
  MaxRound = 1
  MaxGames = 2
  QueuedOps = {"end_game", "end_round", "fugitive_order"}
  EditableIn = {"LOBBY"}
  CrashPoints = {"free", "create", "insert"}
INVARIANTS
  OneActiveRow
  
  FugitiveIsNotCrew
CHECK_DEADLOCK FALSE
