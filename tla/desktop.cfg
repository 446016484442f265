SPECIFICATION RegistrySpec
CONSTANTS
  p1 = p1
  p2 = p2
  p3 = p3
  n1 = n1
  n2 = n2
  n3 = n3
  png = png
  jpg = jpg
  None = None
  Personas = {p1, p2, p3}
  Names = {n1, n2, n3}
  Formats = {png, jpg}
  MaxCommands = 2
  MaxSyncs = 1
  MaxFaults = 2
  MaxCrashes = 1
SYMMETRY Symmetry
INVARIANT RunningServesActive
INVARIANT ReadyIsWhole
INVARIANT DeletedLeavesNothing
CHECK_DEADLOCK FALSE
