SPECIFICATION Spec
CONSTANTS
  t1 = t1
  t2 = t2
  d1 = d1
  d2 = d2
  Turns = {t1}
  Devices = {d1, d2}
  Home <- HomeOne
  Tracked = {"experience", "relationship"}
  MaxStageAttempts = 3
  Shared = TRUE
  BatchLimit = 10
  LostAcks = FALSE
  MaxFaults = 0
  MaxCrashes = 0
  MaxDeletions = 0
INVARIANT NoWorkSkipped
