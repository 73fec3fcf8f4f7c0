SPECIFICATION Spec
CONSTANTS
  Tools = {t1}
  Sessions = {c1, c2}
  Passwords = {p1, p2}
  EMPTY = EMPTY
  ABSENT = ABSENT
  SERVER = SERVER
  MaxOwners = 3
SYMMETRY Symm
INVARIANTS
  TypeOK
  NoInheritance
  OwnPassword
PROPERTIES
  SuccessMeansComplete
