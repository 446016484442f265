SPECIFICATION Spec
CONSTANTS
  a = a
  b = b
  Devices = {a, b}
  ReplayLimit = 3
  MaxSequence = 3
  MaxKeys = 1
  MaxRevocations = 0
  Entities = {1}
  Mutable = {1}
  Original = {1}
  Losses = {"inbox"}
  MaxEdits = 2
  MaxSends = 3
  MaxCrashes = 0
SYMMETRY Symmetry
INVARIANT ConvergedWhenQuiet
CHECK_DEADLOCK FALSE
