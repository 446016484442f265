SPECIFICATION Spec
CONSTANTS
  t1 = t1
  t2 = t2
  d1 = d1
  d2 = d2
  Turns = {t1}
  Devices = {d1, d2}
  Home <- HomeOne
  Tracked = {"experience", "relationship", "knowledge", "goal_fulfillment"}
  MaxStageAttempts = 3
  Shared = TRUE
  BatchLimit = 10
  LostAcks = TRUE
  MaxFaults = 2
  MaxCrashes = 1
  MaxDeletions = 1
INVARIANT LedgerTruth
INVARIANT CoreTruth
INVARIANT StatusDerived
PROPERTY CoreOutcomeFinal
PROPERTY CompletedStays
PROPERTY RecoveryHonoursPrerequisites
PROPERTY KeepsPromise
