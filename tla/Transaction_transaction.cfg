SPECIFICATION Spec
CONSTANTS
  Checksum <- MCChecksum
  Requests <- MCRequests
  Outside = {0, 4, 36}
INVARIANTS
  TypeOK
  HashedAsRead
  DigestAsMeant
  SignedAsSerialised
  SignedWhole
  NeverRefused
  ShownAsHashed
  ShownAsMeant
  ShownAsSent
  PathAsMeant
  PathAsSent
  OwnPathInFront
  ReadAsTokens
CHECK_DEADLOCK FALSE
