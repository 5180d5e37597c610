CONSTANTS
  Bitcoin = Bitcoin
  Liquid = Liquid
  c1 = c1
  c2 = c2
  n1 = n1
  Consensuses <- MCConsensuses
  Codices <- MCCodices
  Names <- MCNames
  MoundConsensus = Bitcoin
  MoundTestnet = TRUE
  Excavated <- MCExcavated
  Persisted <- MCPersisted
  MaxHist = 3
  MaxAnchors = 2
  MaxWits = 3
SPECIFICATION Spec
PROPERTY HistoryNeverShrinks
