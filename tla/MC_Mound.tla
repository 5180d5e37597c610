------------------------------ MODULE MC_Mound ------------------------------
(* Model values for Mound: a Bitcoin testnet mound, two codices of which   *)
(* only c1 loads, and a directory holding one contract of this mound (of   *)
(* the codex that did not load) and one of another network.               *)
EXTENDS Mound, TLC

CONSTANTS Bitcoin, Liquid, c1, c2, n1

MCConsensuses == {Bitcoin, Liquid}
MCCodices == {c1, c2}
MCNames == {n1}
MCExcavated == {c1}
MCPersisted ==
  { [codex |-> c2, consensus |-> Bitcoin, testnet |-> TRUE, name |-> n1],
    [codex |-> c1, consensus |-> Bitcoin, testnet |-> FALSE, name |-> n1] }
=============================================================================
