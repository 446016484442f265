SPECIFICATION Spec
CONSTANTS
  a = a
  b = b
  Devices = {a, b}
  ReplayLimit = 3
  MaxSequence = 3
  MaxKeys = 2
  MaxRevocations = 1
  Entities = {1, 2}
  Mutable = {1}
  Original = {1}
  Losses = {"inbox", "export", "metadata"}
  MaxEdits = 2
  MaxSends = 3
  MaxCrashes = 1
SYMMETRY Symmetry
CONSTRAINT OneTrouble
INVARIANT TypeOK
INVARIANT ConvergedWithoutConflict
INVARIANT NonceUnique
INVARIANT NeverReapplied
PROPERTY NoSilentOverwrite
PROPERTY TombstonesStay
CHECK_DEADLOCK FALSE
