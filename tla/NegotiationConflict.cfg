SPECIFICATION Spec
CONSTANTS
  Conns = {c1, c2}
  Users = {u1}
  Passwords = {p1}
  NONE = NONE
  MAX_CLIENTS = 3
  MaxEvents = 3
SYMMETRY Symm
INVARIANT OneSessionPerUser
