CONSTANTS
  Digits = {0, 21, 42, 63}
  MaxLength = 5
SPECIFICATION Spec
INVARIANTS
  TypeOK
  DecodesPrefix
CHECK_DEADLOCK FALSE
