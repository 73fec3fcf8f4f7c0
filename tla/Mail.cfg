SPECIFICATION Spec
CONSTANTS
  Conns = {c1, c2}
  Users = {u1, u2}
  NONE = NONE
  MAX_CLIENTS = 3
  MAX_FILES = 2
  BASE = 3
  WIDTH = 1
  MaxMsgs = 3
SYMMETRY Symm
INVARIANTS
  TypeOK
  AtMostOnce
  OnlyToAddressee
  NoMailWaiting
PROPERTIES
  HandedOverInOrder
  ImplementsDelivery
