----------------------------- MODULE MC_DirMound -----------------------------
(* A Bitcoin testnet mound opened without prefix, so that the contracts of *)
(* every network share its directory: one of this network (codex c2,      *)
(* whose issuer file does not load) and one of mainnet.  Two names let    *)
(* an issue reuse a directory or create a new one.                         *)
EXTENDS DirMound, TLC

CONSTANTS Bitcoin, c1, c2, n1, n2

MCConsensuses == {Bitcoin}
MCCodices == {c1, c2}
MCNames == {n1, n2}
MCExcavated == {c1}
MCPersisted ==
  { [codex |-> c2, consensus |-> Bitcoin, testnet |-> TRUE, name |-> n1],
    [codex |-> c1, consensus |-> Bitcoin, testnet |-> FALSE, name |-> n2] }
=============================================================================
