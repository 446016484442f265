SPECIFICATION StorageSpec
CONSTANTS
  a = a
  b = b
  p1 = p1
  p2 = p2
  None = None
  Processes = {a, b}
  Personas = {p1, p2}
  MaxTroubles = 1
INVARIANT SchemaTruth
INVARIANT StrangersUntouched
INVARIANT OnlyOwnerServed
PROPERTY SettlesCurrent
