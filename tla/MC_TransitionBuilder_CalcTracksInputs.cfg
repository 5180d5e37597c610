CONSTANTS
  mTerms = mTerms
  mBad = mBad
  gTicker = gTicker
  gBad = gBad
  aAsset = aAsset
  aBad = aBad
  s1 = s1
  o1 = o1
  o2 = o2
  tTransfer = tTransfer
  tBad = tBad
  MetaNames <- MCMetaNames
  GlobalNames <- MCGlobalNames
  AssignNames <- MCAssignNames
  KnownMeta = {mTerms}
  KnownGlobal = {gTicker}
  KnownAssign = {aAsset}
  Seals = {s1}
  Amounts = {0, 1, 2}
  MaxValues = 3
  Opouts <- MCOpouts
  OpoutTy <- MCOpoutTy
  OpoutVal <- MCOpoutVal
  HasDefaultOp = TRUE
  TransitionNames <- MCTransitionNames
  KnownTransitions = {tTransfer}
  Nonces = {0}
  MaxInputs = 2
  MaxSum = 4
  GlobalMax <- MCGlobalMax
SPECIFICATION Spec
\* complete_transition, a panic and any Err consume the builder.
CHECK_DEADLOCK FALSE
INVARIANT CalcTracksInputs
