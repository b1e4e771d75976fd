SPECIFICATION Spec
CONSTANTS
  Checksum <- MCChecksum
  Requests <- MCUpdateProposal
  Outside = {0}
INVARIANT AllHashed
CHECK_DEADLOCK FALSE
