CONSTANTS
  None = none
  Generated = generated
  Keys = {k1}
  Episodes = {e1, e2}
  Corrections = {c1, c2}
  Workers = {w1, w2}
  Events = {s1, s2}
  MaxFaults = 1
  MaxStageAttempts = 2
  MaxTries = 2
  MaxTasks = 4
  MaxRestarts = 1
SPECIFICATION Spec
SYMMETRY Interchangeable
INVARIANTS
  CorrectionStands
  LedgerAgrees
  CountedOnce
CHECK_DEADLOCK FALSE
