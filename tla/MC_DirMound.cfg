CONSTANTS
  Bitcoin = Bitcoin
  c1 = c1
  c2 = c2
  n1 = n1
  n2 = n2
  Consensuses <- MCConsensuses
  Codices <- MCCodices
  Names <- MCNames
  MoundConsensus = Bitcoin
  MoundTestnet = TRUE
  Excavated <- MCExcavated
  Persisted <- MCPersisted
  MaxHist = 2
  MaxAnchors = 2
  MaxWits = 2
  NoPrefix = TRUE
  MaxRestarts = 1
SPECIFICATION DSpec
INVARIANT EnvGating
PROPERTY RestartRestores
\* A .contract directory left without articles (an issue_to_file rejected by
\* Mound::issue) makes every later load_testnet panic: once the restarts are
\* spent with the process down, nothing is enabled.  That stop is real.
CHECK_DEADLOCK FALSE
