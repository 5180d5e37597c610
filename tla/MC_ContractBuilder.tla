-------------------------- MODULE MC_ContractBuilder --------------------------
(* An interface with one metadata field, one global ("ticker", exactly once *)
(* by the schema) and two assignment types, plus an unknown name of each  *)
(* kind; one Bitcoin and one Liquid seal.                                  *)
EXTENDS ContractBuilder, TLC

CONSTANTS mTerms, mBad, gTicker, gBad, aAsset, aRight, aBad, sBtc, sLiquid

MCMetaNames == {mTerms, mBad}
MCGlobalNames == {gTicker, gBad}
MCAssignNames == {aAsset, aRight, aBad}
MCSeals == {sBtc, sLiquid}
MCLayer == sBtc :> "Bitcoin" @@ sLiquid :> "Liquid"
MCGlobalMin == gTicker :> 1
MCGlobalMax == gTicker :> 1
=============================================================================
