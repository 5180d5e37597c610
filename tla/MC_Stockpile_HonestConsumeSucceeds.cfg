CONSTANTS
  Alice = Alice
  Bob = Bob
  s1 = s1
  s2 = s2
  s3 = s3
  s4 = s4
  Holders <- MCHolders
  Seals <- MCSeals
  Owner <- MCOwner
  MaxOps = 3
  MaxOuts = 2
  MaxMsgs = 2
SPECIFICATION Spec
INVARIANT
  HonestConsumeSucceeds
