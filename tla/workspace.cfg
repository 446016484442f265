SPECIFICATION Spec
CONSTANTS
  a = a
  b = b
  Personas = {a, b}
  First = a
  None = None
  MaxCommands = 2
  MaxSends = 1
  MaxDeletes = 1
  MaxEvents = 1
  MaxViews = 2
  MaxTroubles = 1
  MaxMoves = 3
INVARIANT QuietIsRight
PROPERTY RepliesStay
CHECK_DEADLOCK FALSE
