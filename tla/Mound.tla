-------------------------------- MODULE Mound --------------------------------
(***************************************************************************)
(* A mound: the contracts of one consensus and network, by contract id    *)
(* (src/mound.rs).  A stockpile is abstracted to the number of operations  *)
(* in its history and of witnesses in its pile; what happens inside one is *)
(* the subject of module Stockpile.                                        *)
(*                                                                         *)
(* A contract id is the hash of its genesis; the genesis is fixed by the   *)
(* issue parameters (codex, consensus, network, name, timestamp), so the   *)
(* id is modelled as that tuple of parameters.                            *)
(***************************************************************************)
EXTENDS Naturals, Sequences, FiniteSets, SequencesExt

CONSTANTS
  Consensuses,   \* proof-of-publication layers
  Codices,       \* codex ids
  Names,         \* contract names (with a fixed timestamp)
  MoundConsensus,\* the mound's consensus
  MoundTestnet,  \* the mound's network flag
  Excavated,     \* codex ids whose .issuer file loads
  Persisted,     \* contract ids found in .contract directories
  MaxHist,       \* bound on the operations of one contract's history
  MaxAnchors,    \* bound on the anchors one attest call carries
  MaxWits        \* bound on the witnesses of one contract's pile

ContractIds == [codex : Codices, consensus : Consensuses,
                testnet : BOOLEAN, name : Names]

ASSUME MoundConsensus \in Consensuses /\ MoundTestnet \in BOOLEAN
ASSUME Excavated \subseteq Codices /\ Persisted \subseteq ContractIds
ASSUME MaxHist \in Nat \ {0} /\ MaxAnchors \in Nat \ {0} /\ MaxWits \in Nat

VARIABLES
  schemata,   \* codex ids of the schemata the mound holds
  contracts,  \* contracts[id]: [hist, wits] of the stockpile under id
  result      \* the outcome of the latest call (history)

vars == <<schemata, contracts, result>>

Results == {"none", "ok", "ConsensusMismatch", "TestnetMismatch",
            "MainnetMismatch", "UnknownCodex", "UnrecognizedMagic",
            "UnknownContract", "ConsumeError", "panic"}

\* A stockpile right after Stockpile::issue: genesis only, no witnesses.
Issued == [hist |-> 1, wits |-> 0]

(***************************************************************************)
(* Mound::open_testnet over DirExcavator: every schema that loads, and the *)
(* persisted contracts of the mound's consensus and network.              *)
(***************************************************************************)
OpenTestnet ==
  /\ schemata = Excavated
  /\ contracts = [id \in {p \in Persisted : /\ p.consensus = MoundConsensus
                                            /\ p.testnet = MoundTestnet} |->
                    Issued]
  /\ result = "none"

\* BTreeMap::insert: a new entry, or the replacement of an existing one.
Insert(f, id, v) == [x \in DOMAIN f \cup {id} |-> IF x = id THEN v ELSE f[x]]

\* Mutant of Issue: the network check is skipped.
IssueAnyNetwork(p) ==
  IF p.consensus # MoundConsensus
  THEN /\ result' = "ConsensusMismatch" /\ UNCHANGED <<schemata, contracts>>
  ELSE IF p.codex \notin schemata
  THEN /\ result' = "UnknownCodex" /\ UNCHANGED <<schemata, contracts>>
  ELSE /\ contracts' = Insert(contracts, p, Issued)
       /\ result' = "ok"
       /\ UNCHANGED schemata

(***************************************************************************)
(* Mound::issue: consensus, then network, then codex are checked; the new *)
(* stockpile is inserted under its contract id.                            *)
(***************************************************************************)
Issue(p) ==
  IF p.consensus # MoundConsensus
  THEN /\ result' = "ConsensusMismatch" /\ UNCHANGED <<schemata, contracts>>
  ELSE IF p.testnet # MoundTestnet
  THEN /\ result' = IF p.testnet THEN "TestnetMismatch" ELSE "MainnetMismatch"
       /\ UNCHANGED <<schemata, contracts>>
  ELSE IF p.codex \notin schemata
  THEN /\ result' = "UnknownCodex" /\ UNCHANGED <<schemata, contracts>>
  ELSE /\ contracts' = Insert(contracts, p, Issued)
       /\ result' = "ok"
       /\ UNCHANGED schemata

(***************************************************************************)
(* A wallet applies a transition to a contract through contract_mut.       *)
(***************************************************************************)
ApplyOperation(id) ==
  /\ id \in DOMAIN contracts
  /\ contracts[id].hist < MaxHist
  /\ contracts' = [contracts EXCEPT ![id].hist = @ + 1]
  /\ result' = "ok"
  /\ UNCHANGED schemata

(***************************************************************************)
(* Mound::attest: each (contract, opid, anchor) in turn is attested in its *)
(* contract; contract_mut panics on the first unknown contract, after the  *)
(* anchors before it were written.                                         *)
(***************************************************************************)
RECURSIVE AttestAll(_, _)
AttestAll(f, anchors) ==
  IF anchors = <<>> THEN [contracts |-> f, res |-> "ok"]
  ELSE IF Head(anchors) \notin DOMAIN f THEN [contracts |-> f, res |-> "panic"]
  ELSE AttestAll([f EXCEPT ![Head(anchors)].wits = @ + 1], Tail(anchors))

Attest(anchors) ==
  LET r == AttestAll(contracts, anchors)
  IN /\ \A id \in DOMAIN r.contracts : r.contracts[id].wits <= MaxWits
     /\ contracts' = r.contracts
     /\ result' = r.res
     /\ UNCHANGED schemata

(***************************************************************************)
(* Mound::consume: the magic bytes, then the contract id of the envelope; *)
(* the stockpile's consume then adds what it verified (k operations) and   *)
(* returns Ok or an error.                                                 *)
(***************************************************************************)
Consume(magicOk, id) ==
  IF ~magicOk
  THEN /\ result' = "UnrecognizedMagic" /\ UNCHANGED <<schemata, contracts>>
  ELSE IF id \notin DOMAIN contracts
  THEN /\ result' = "UnknownContract" /\ UNCHANGED <<schemata, contracts>>
  ELSE \E k \in 0..(MaxHist - contracts[id].hist), ok \in BOOLEAN :
         /\ contracts[id].wits + k <= MaxWits
         /\ contracts' = [contracts EXCEPT ![id] = [hist |-> @.hist + k,
                                                     wits |-> @.wits + k]]
         /\ result' = IF ok THEN "ok" ELSE "ConsumeError"
         /\ UNCHANGED schemata

Init == OpenTestnet

Next ==
  \/ \E p \in ContractIds : Issue(p)
  \/ \E id \in DOMAIN contracts : ApplyOperation(id)
  \/ \E anchors \in BoundedSeq(ContractIds, MaxAnchors) : Attest(anchors)
  \/ \E magicOk \in BOOLEAN, id \in ContractIds : Consume(magicOk, id)

Spec == Init /\ [][Next]_vars

(***************************************************************************)
(* Properties.                                                             *)
(***************************************************************************)
\* Every contract the mound holds, whether loaded by open_testnet or
\* issued, belongs to the mound's consensus and network (spec: issue
\* accepts iff consensus and network match).
EnvGating ==
  \A id \in DOMAIN contracts :
    id.consensus = MoundConsensus /\ id.testnet = MoundTestnet

\* A contract, once in the mound, stays, and its history and witnesses
\* only grow: whatever issue, apply, attest or consume does.
HistoryNeverShrinks ==
  [][\A id \in DOMAIN contracts :
       /\ id \in DOMAIN contracts'
       /\ contracts'[id].hist >= contracts[id].hist
       /\ contracts'[id].wits >= contracts[id].wits]_vars

=============================================================================
