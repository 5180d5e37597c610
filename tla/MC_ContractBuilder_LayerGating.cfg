CONSTANTS
  mTerms = mTerms
  mBad = mBad
  gTicker = gTicker
  gBad = gBad
  aAsset = aAsset
  aRight = aRight
  aBad = aBad
  sBtc = sBtc
  sLiquid = sLiquid
  MetaNames <- MCMetaNames
  GlobalNames <- MCGlobalNames
  AssignNames <- MCAssignNames
  KnownMeta = {mTerms}
  KnownGlobal = {gTicker}
  KnownAssign = {aAsset, aRight}
  Seals <- MCSeals
  Amounts = {0, 1}
  MaxValues = 4
  Layer <- MCLayer
  GlobalMin <- MCGlobalMin
  GlobalMax <- MCGlobalMax
SPECIFICATION Spec
\* issue_contract and any Err consume the builder: nothing follows them.
CHECK_DEADLOCK FALSE
INVARIANT LayerGating
