SPECIFICATION Spec
CONSTANTS
  Inputs <- MCInputs
  OutLen = 54
INVARIANTS
  TypeOK
  NothingAhead
  RoomForDigits
  AsDivided
  RoundTrip
CHECK_DEADLOCK FALSE
