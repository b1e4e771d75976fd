SPECIFICATION Spec
CONSTANTS
  Checksum <- MCChecksum
  Requests <- MCBeneficiaries
  Outside = {0}
INVARIANT ShownAsMeant
CHECK_DEADLOCK FALSE
