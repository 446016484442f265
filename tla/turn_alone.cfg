SPECIFICATION FairSpec
CONSTANTS
  t1 = t1
  t2 = t2
  d1 = d1
  d2 = d2
  Turns = {t1}
  Devices = {d1}
  Home <- HomeOne
  Tracked = {"memory_extraction", "experience", "relationship", "consolidation", "episode", "narrative"}
  MaxStageAttempts = 3
  Shared = TRUE
  BatchLimit = 10
  LostAcks = FALSE
  MaxFaults = 3
  MaxCrashes = 1
  MaxDeletions = 1
INVARIANT NoWorkSkipped
INVARIANT AttemptsBounded
PROPERTY RunnableStagesSettle
PROPERTY StartedTurnsAreDecided
