SPECIFICATION Spec
CONSTANTS
  FIELD = 3
  CLEAN = 8
  LINE = 9
  MaxLen <- Lengths
INVARIANTS
  JidReference
  SaslReference
  PasswordWorks
CHECK_DEADLOCK FALSE
