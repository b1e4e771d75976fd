SPECIFICATION Spec
CONSTANTS
  LastDay = 49710
INVARIANTS
  DateShown
CHECK_DEADLOCK FALSE
