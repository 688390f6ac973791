SPECIFICATION Spec
CONSTANTS
  Humans = {"p1"}
  BotSeq <- TwoBots
  Models = 1
  Attempts = 2
  MaxRound = 2
  MaxGames = 2
  MaxRestarts = 1
INVARIANT TurnsAreSound
PROPERTY AskedIsAnswered
CHECK_DEADLOCK FALSE
