SPECIFICATION Spec
CONSTANTS
  N = 3
  Nonces <- MCNonces
  Numbers <- MCNumbers
  Order <- MCOrder
  MaxChain = 3
  MaxRounds = 2
INVARIANTS
  ReturnedAsComputed
CHECK_DEADLOCK FALSE
