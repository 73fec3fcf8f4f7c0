SPECIFICATION Spec
CONSTANTS
  Conns = {c1, c2, c3}
  NULL = NULL
  MAX_CLIENTS = 3
  READ_BUF = 2
  MaxOut = 2
  MaxStanzas = 2
  Signals = {SIGTERM}
  Departures = {"fin", "reset"}
SYMMETRY Symm
INVARIANTS
  TypeOK
  ParserAlive
  CloseNotForgotten
CHECK_DEADLOCK FALSE
