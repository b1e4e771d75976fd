SPECIFICATION Spec
CONSTANTS
  LastDay = 49710
INVARIANTS
  TypeOK
  RightDate
PROPERTIES
  NeverBack
CHECK_DEADLOCK FALSE
