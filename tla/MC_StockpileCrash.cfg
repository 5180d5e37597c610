CONSTANTS
  Alice = Alice
  Bob = Bob
  s1 = s1
  s2 = s2
  s3 = s3
  Holders <- MCHolders
  Seals <- MCSeals
  Owner <- MCOwner
  MaxOps = 3
  MaxOuts = 2
  MaxMsgs = 2
  MaxCrashes = 1
SPECIFICATION CSpec
INVARIANTS
  TypeOK
  StockKept
PROPERTY LedgerRefined
\* A stockpile whose issue was cut before keep can never consign (the
\* genesis has no seals to read); once the operation bound is reached and
\* no consignment exists, nothing is enabled.  That stop is real.
CHECK_DEADLOCK FALSE
