-------------------------- MODULE MC_StockpileCrash --------------------------
(***************************************************************************)
(* Two wallets, three seals (two Alice's, one Bob's), three operations,   *)
(* two consignment files, one crash: enough for an issue, a transfer, a   *)
(* crash in any of issue, apply_operation or consume, and a truncated      *)
(* consignment.                                                            *)
(***************************************************************************)
EXTENDS StockpileCrash, TLC

CONSTANTS Alice, Bob, s1, s2, s3

MCHolders == {Alice, Bob}
MCSeals == {s1, s2, s3}
MCOwner == (s1 :> Alice) @@ (s2 :> Alice) @@ (s3 :> Bob)
=============================================================================
