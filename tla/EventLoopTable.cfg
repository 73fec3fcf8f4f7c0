SPECIFICATION Spec
CONSTANTS
  Conns = {c1, c2, c3}
  NULL = NULL
  MAX_CLIENTS = 4
  READ_BUF = 2
  MaxOut = 1
  MaxStanzas = 2
  Signals = {}
  Departures = {"reset"}
SYMMETRY Symm
INVARIANTS
  TableOK
  PollOutWhenPending
PROPERTIES
  HealthyKept
  ImplementsTable
