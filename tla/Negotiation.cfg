SPECIFICATION Spec
CONSTANTS
  Conns = {c1, c2, c3, c4}
  Users = {u1, u2}
  Passwords = {p1}
  NONE = NONE
  MAX_CLIENTS = 4
  MaxEvents = 3
SYMMETRY Symm
INVARIANTS
  TypeOK
  ActiveAuthenticated
  RestartClean
PROPERTIES
  UserFixed
  KickedBySameUser
