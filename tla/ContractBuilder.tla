--------------------------- MODULE ContractBuilder ---------------------------
(***************************************************************************)
(* ContractBuilder (src/interface/builder.rs): an OperationBuilder of      *)
(* genesis seals plus the network flag and the declared alternative       *)
(* layers, consumed by issue_contract into a validated genesis.           *)
(***************************************************************************)
EXTENDS Naturals, Sequences, SequencesExt

CONSTANTS
  MetaNames, GlobalNames, AssignNames, KnownMeta, KnownGlobal, KnownAssign,
  Seals, Amounts, MaxValues,   \* as in OperationBuilder
  Layer,      \* Layer[seal]: "Bitcoin" or "Liquid", BuilderSeal::layer1
  GlobalMin,  \* GlobalMin[n], GlobalMax[n]: the schema's occurrences of n
  GlobalMax

OB == INSTANCE OperationBuilder

ASSUME Layer \in [Seals -> {"Bitcoin", "Liquid"}]
ASSUME \A n \in KnownGlobal : GlobalMin[n] <= GlobalMax[n]

VARIABLES
  phase,     \* "building", or the builder was consumed: "issued", "failed"
  cb,        \* the OperationBuilder<GenesisSeal> inside
  testnet,   \* ContractBuilder.testnet
  alt,       \* ContractBuilder.alt_layers1
  genesis,   \* the genesis of the issued contract
  err,       \* the error of the latest call
  log        \* history: every assignment a call accepted, in call order

vars == <<phase, cb, testnet, alt, genesis, err, log>>

\* ContractBuilder::has_layer1: Bitcoin always, Liquid once declared.
HasLayer1(l) == l = "Bitcoin" \/ l \in alt

\* A method's Result: the new builder, or an error consuming the builder.
Step(r) ==
  /\ cb' = r.b
  /\ err' = r.err
  /\ phase' = IF r.err = "none" THEN "building" ELSE "failed"

\* The log grows by the assignment when the call returned Ok.
Logged(r, ty, seal, amount) ==
  log' = IF r.err = "none" THEN Append(log, OB!Assignment(ty, seal, amount))
         ELSE log

Init ==
  /\ phase = "building"
  /\ cb = OB!Empty
  /\ testnet = TRUE
  /\ alt = {}
  /\ genesis = OB!NoBuilder
  /\ err = "none"
  /\ log = <<>>

Building == phase = "building" /\ OB!Size(cb) < MaxValues

SetMainnet ==
  /\ Building
  /\ testnet' = FALSE
  /\ UNCHANGED <<phase, cb, alt, genesis, err, log>>

\* add_layer1: the only alternative layer is Liquid.
AddLayer1 ==
  /\ Building
  /\ alt' = alt \cup {"Liquid"}
  /\ err' = "none"
  /\ UNCHANGED <<phase, cb, testnet, genesis, log>>

AddMetadata(name, typed) ==
  /\ Building
  /\ Step(OB!AddMetadata(cb, name, typed))
  /\ UNCHANGED <<testnet, alt, genesis, log>>

AddGlobalState(name, typed) ==
  /\ Building
  /\ Step(OB!AddGlobalState(cb, name, typed))
  /\ UNCHANGED <<testnet, alt, genesis, log>>

\* check_layer1, then the OperationBuilder method.
LayerChecked(r, seal) ==
  IF HasLayer1(Layer[seal]) THEN r ELSE OB!Err("InvalidLayer1")

AddOwnedStateRaw(ty, seal, amount) ==
  LET r == LayerChecked(OB!AddOwnedStateRaw(cb, ty, seal, amount),
                        seal)
  IN /\ Building
     /\ Step(r)
     /\ Logged(r, ty, seal, amount)
     /\ UNCHANGED <<testnet, alt, genesis>>

\* add_rights goes to the OperationBuilder directly.
AddRights(name, seal) ==
  LET r == OB!AddRights(cb, name, seal)
  IN /\ Building
     /\ Step(r)
     /\ Logged(r, name, seal, 0)
     /\ UNCHANGED <<testnet, alt, genesis>>

\* add_owned_state and serialize_owned_state.
AddOwnedState(name, seal, amount, typed) ==
  LET r == LayerChecked(OB!AddOwnedState(cb, name, seal, amount, typed),
                        seal)
  IN /\ Building
     /\ Step(r)
     /\ Logged(r, name, seal, amount)
     /\ UNCHANGED <<testnet, alt, genesis>>

(***************************************************************************)
(* issue_contract_raw: the genesis takes the network flag, the layers,    *)
(* the globals and assignments, and empty metadata; Contract::validate     *)
(* then checks the schema's global occurrences and that every seal is on   *)
(* a declared layer, failing with ContractInconsistency.                   *)
(***************************************************************************)
Validates(g) ==
  /\ \A n \in KnownGlobal : g.global[n] \in GlobalMin[n]..GlobalMax[n]
  /\ \A t \in KnownAssign : \A i \in DOMAIN g.assigns[t] :
       Layer[g.assigns[t][i].seal] \in {"Bitcoin"} \cup g.alt

IssueContract ==
  LET g == [testnet |-> testnet, alt |-> alt, meta |-> 0,
            global |-> cb.global, assigns |-> cb.assigns]
  IN /\ phase = "building"
     /\ IF Validates(g)
        THEN /\ genesis' = g /\ phase' = "issued" /\ err' = "none"
        ELSE /\ phase' = "failed" /\ err' = "ContractInconsistency"
             /\ UNCHANGED genesis
     /\ cb' = OB!NoBuilder
     /\ UNCHANGED <<testnet, alt, log>>

Next ==
  \/ SetMainnet
  \/ AddLayer1
  \/ \E n \in MetaNames, typed \in BOOLEAN : AddMetadata(n, typed)
  \/ \E n \in GlobalNames, typed \in BOOLEAN : AddGlobalState(n, typed)
  \/ \E t \in KnownAssign, s \in Seals, a \in Amounts : AddOwnedStateRaw(t, s, a)
  \/ \E n \in AssignNames, s \in Seals : AddRights(n, s)
  \/ \E n \in AssignNames, s \in Seals, a \in Amounts, typed \in BOOLEAN :
       AddOwnedState(n, s, a, typed)
  \/ IssueContract

Spec == Init /\ [][Next]_vars

(***************************************************************************)
(* Properties.                                                             *)
(***************************************************************************)
\* Every assignment a call accepted reaches the issued genesis, filed under
\* its type, in the order of the calls (add_owned_state_raw pushes onto an
\* occupied entry).
AssignmentsPreserved ==
  phase = "issued" =>
    \A t \in KnownAssign :
      genesis.assigns[t] = SelectSeq(log, LAMBDA a : a.ty = t)

\* A builder never holds a seal on a layer the contract has not declared:
\* every method adding owned state rejects it with InvalidLayer1 (spec,
\* section 8, property 8 and scenario S3).
LayerGating ==
  phase = "building" =>
    \A t \in KnownAssign : \A i \in DOMAIN cb.assigns[t] :
      HasLayer1(Layer[cb.assigns[t][i].seal])

=============================================================================
