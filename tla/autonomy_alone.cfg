SPECIFICATION FairSpec
CONSTANTS
  e1 = e1
  e2 = e2
  p1 = p1
  p2 = p2
  check_in = check_in
  remind = remind
  None = None
  Turns = {e1, e2}
  Processes = {p1}
  Keys = {check_in, remind}
  Tracked = {"knowledge"}
  MaxStageAttempts = 3
  MaxStreak = 1
  LostAcks = TRUE
  MaxUserMessages = 2
  MaxFaults = 1
  MaxCrashes = 1
  MaxDeletions = 1
INVARIANT StreakBounded
INVARIANT DoubtIsReal
PROPERTY RecoveryFailsBeforeProvider
PROPERTY ExecutionsSettle
