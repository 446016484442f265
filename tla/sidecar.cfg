SPECIFICATION SidecarSpec
CONSTANTS
  c1 = c1
  c2 = c2
  p1 = p1
  None = None
  Callers = {c1, c2}
  Personas = {p1}
  MaxSpawns = 2
  MaxTrouble = 2
INVARIANT RunningIsOurs
INVARIANT LostOnlyByReadError
PROPERTY CallsReturn
CHECK_DEADLOCK FALSE
