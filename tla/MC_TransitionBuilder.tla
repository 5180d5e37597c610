------------------------- MODULE MC_TransitionBuilder -------------------------
(* One asset type with two spendable outputs (values 1 and 2), one global *)
(* the schema allows once, one seal, and an unknown name of each kind.    *)
EXTENDS TransitionBuilder

CONSTANTS mTerms, mBad, gTicker, gBad, aAsset, aBad, s1, o1, o2,
          tTransfer, tBad

MCMetaNames == {mTerms, mBad}
MCGlobalNames == {gTicker, gBad}
MCAssignNames == {aAsset, aBad}
MCOpouts == {o1, o2}
MCOpoutTy == o1 :> aAsset @@ o2 :> aAsset
MCOpoutVal == o1 :> 1 @@ o2 :> 2
MCTransitionNames == {tTransfer, tBad}
MCGlobalMax == gTicker :> 1
=============================================================================
