SPECIFICATION Spec
CONSTANTS
  e1 = e1
  e2 = e2
  p1 = p1
  p2 = p2
  check_in = check_in
  remind = remind
  None = None
  Turns = {e1, e2}
  Processes = {p1, p2}
  Keys = {check_in}
  Tracked = {"knowledge"}
  MaxStageAttempts = 3
  MaxStreak = 2
  LostAcks = TRUE
  MaxUserMessages = 2
  MaxFaults = 1
  MaxCrashes = 1
  MaxDeletions = 1
SYMMETRY Symmetry
INVARIANT SpokenOnce
INVARIANT NoUnknownRepeated
INVARIANT ExecutionMatchesTurn
PROPERTY SettledForGood
