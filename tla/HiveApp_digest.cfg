SPECIFICATION Spec
CONSTANTS
  OwnPath = {p1}
  ForeignPath = {f1}
  Op = {o1, o2}
  o = o1
  Digest = {d1}
  MaxTx = 5
  Commands <- MCCommands
INVARIANTS
  DigestIsTheTransaction
