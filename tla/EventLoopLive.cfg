SPECIFICATION FairSpec
CONSTANTS
  Conns = {c1, c2}
  NULL = NULL
  MAX_CLIENTS = 3
  READ_BUF = 2
  MaxOut = 1
  MaxStanzas = 1
  Signals = {SIGTERM}
  Departures = {"fin", "reset"}
PROPERTIES
  InputServed
  GoneReaped
  SignalStops
CHECK_DEADLOCK FALSE
