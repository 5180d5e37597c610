CONSTANTS
  Bitcoin = Bitcoin
  c1 = c1
  c2 = c2
  n1 = n1
  n2 = n2
  Consensuses <- MCConsensuses
  Codices <- MCCodices
  Names <- MCNames
  MoundConsensus = Bitcoin
  MoundTestnet = TRUE
  Excavated <- MCExcavated
  Persisted <- MCPersisted
  MaxHist = 2
  MaxAnchors = 2
  MaxWits = 2
  NoPrefix = TRUE
  MaxRestarts = 1
SPECIFICATION DSpec
PROPERTY RestartReturns
\* The run stops at the first restart that does not return.
CHECK_DEADLOCK FALSE
