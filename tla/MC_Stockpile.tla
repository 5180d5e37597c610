---------------------------- MODULE MC_Stockpile ----------------------------
(***************************************************************************)
(* Two wallets, four seals (two each), three operations, two consignment   *)
(* files: enough for issue, a transfer, its re-transfer, a truncated copy  *)
(* and a consume by a wallet that has not opened the contract.            *)
(***************************************************************************)
EXTENDS Stockpile, TLC

CONSTANTS Alice, Bob, s1, s2, s3, s4

MCHolders == {Alice, Bob}
MCSeals == {s1, s2, s3, s4}
MCOwner == (s1 :> Alice) @@ (s2 :> Alice) @@ (s3 :> Bob) @@ (s4 :> Bob)
=============================================================================
