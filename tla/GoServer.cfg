SPECIFICATION FairSpec
CONSTANTS
  Conns = {c1, c2}
  Users = {u1}
  NONE = NONE
  MaxBuf = 1
INVARIANTS
  TypeOK
  RegistryCoherent
  OneSessionPerUser
  HeldWhileWriting
PROPERTIES
  EntryKept
  ClosedEnds
  DisplacedEnds
CHECK_DEADLOCK FALSE
