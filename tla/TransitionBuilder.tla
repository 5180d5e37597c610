-------------------------- MODULE TransitionBuilder --------------------------
(***************************************************************************)
(* TransitionBuilder (src/interface/builder.rs): an OperationBuilder of    *)
(* graph seals plus the inputs, the nonce and an optional state           *)
(* calculator, consumed by complete_transition.                            *)
(*                                                                         *)
(* StateCalc (rgb-std) is modelled from the spec, section 4.3: reg_input   *)
(* adds an input's value to its type's inputs; calc_output splits a        *)
(* requested value into the part the unspent inputs cover (registered as   *)
(* output) and the rest; calc_change returns inputs minus outputs, or      *)
(* nothing when that is zero, and registers what it returns.               *)
(***************************************************************************)
EXTENDS Naturals, Sequences, FiniteSets, FiniteSetsExt, TLC

CONSTANTS
  MetaNames, GlobalNames, AssignNames, KnownMeta, KnownGlobal, KnownAssign,
  Seals, Amounts, MaxValues,   \* as in OperationBuilder
  Opouts,          \* outputs of earlier operations a wallet may spend
  OpoutTy,         \* OpoutTy[o]: the assignment type of o
  OpoutVal,        \* OpoutVal[o]: the state the wallet holds for o
  HasDefaultOp,    \* the interface names a default operation
  TransitionNames, \* names passed to named_transition
  KnownTransitions,\* names IfaceImpl::transition_type resolves
  Nonces,          \* nonces passed to set_nonce
  MaxInputs,       \* the TinyOrdMap bound on inputs
  MaxSum,          \* bound on the value registered per type
  GlobalMax        \* GlobalMax[n]: the schema's maximal occurrences of n

OB == INSTANCE OperationBuilder

ASSUME OpoutTy \in [Opouts -> KnownAssign] /\ OpoutVal \in [Opouts -> Amounts]
ASSUME KnownTransitions \subseteq TransitionNames /\ HasDefaultOp \in BOOLEAN

VARIABLES
  phase,      \* "none", "building", or consumed: "done", "failed", "panicked"
  kind,       \* "blank" (calc is None) or "calc"
  tb,         \* the OperationBuilder<GraphSeal> inside
  inputs,     \* TinyOrdMap<Input, State>
  nonce,
  calcIn,     \* StateCalc: registered input value per type
  calcOut,    \* StateCalc: registered output value per type
  owed,       \* the insufficient part the latest fulfill returned
  transition, \* the completed transition
  err         \* the error of the latest call

vars == <<phase, kind, tb, inputs, nonce, calcIn, calcOut, owed,
          transition, err>>

U64Max == "u64::MAX"  \* the default nonce
Zero == [t \in KnownAssign |-> 0]

Init ==
  /\ phase = "none" /\ kind = "blank" /\ tb = OB!NoBuilder
  /\ inputs = <<>> /\ nonce = U64Max
  /\ calcIn = Zero /\ calcOut = Zero /\ owed = 0
  /\ transition = OB!NoBuilder /\ err = "none"

\* TransitionBuilder::with: a fresh builder, with or without a calculator.
With(k) ==
  /\ phase' = "building" /\ kind' = k /\ tb' = OB!Empty /\ inputs' = <<>>
  /\ nonce' = U64Max /\ calcIn' = Zero /\ calcOut' = Zero
  /\ err' = "none"
  /\ UNCHANGED <<owed, transition>>

Rejected(e) ==
  /\ err' = e
  /\ UNCHANGED <<phase, kind, tb, inputs, nonce, calcIn, calcOut, owed,
                 transition>>

BlankTransition == phase = "none" /\ With("blank")

DefaultTransition ==
  /\ phase = "none"
  /\ IF HasDefaultOp THEN With("calc") ELSE Rejected("NoOperationSubtype")

NamedTransition(n) ==
  /\ phase = "none"
  /\ IF n \in KnownTransitions THEN With("calc")
     ELSE Rejected("TransitionNotFound")

Building == phase = "building" /\ OB!Size(tb) < MaxValues

\* A builder method's Result: Ok keeps building, Err consumes the builder.
Step(r) ==
  /\ tb' = r.b /\ err' = r.err
  /\ phase' = IF r.err = "none" THEN "building" ELSE "failed"

SetNonce(n) ==
  /\ Building
  /\ nonce' = n
  /\ UNCHANGED <<phase, kind, tb, inputs, calcIn, calcOut, owed,
                 transition, err>>

\* add_input: reg_input on the calculator, then TinyOrdMap::insert, which
\* replaces the state of a key already present and fails when full.
AddInput(o) ==
  LET full == o \notin DOMAIN inputs /\ Cardinality(DOMAIN inputs) = MaxInputs
  IN /\ Building
     /\ calcIn[OpoutTy[o]] + OpoutVal[o] <= MaxSum
     /\ calcIn' = IF kind = "calc"
                  THEN [calcIn EXCEPT ![OpoutTy[o]] = @ + OpoutVal[o]]
                  ELSE calcIn
     /\ IF full
        THEN /\ phase' = "failed" /\ err' = "Confinement"
             /\ tb' = OB!NoBuilder /\ UNCHANGED inputs
        ELSE /\ inputs' = (o :> OpoutVal[o]) @@ inputs
             /\ UNCHANGED <<phase, tb, err>>
     /\ UNCHANGED <<kind, nonce, calcOut, owed, transition>>

Unchanged == UNCHANGED <<kind, inputs, nonce, calcIn, calcOut, owed,
                         transition>>

AddMetadata(n, typed) ==
  Building /\ Step(OB!AddMetadata(tb, n, typed)) /\ Unchanged

AddGlobalState(n, typed) ==
  Building /\ Step(OB!AddGlobalState(tb, n, typed)) /\ Unchanged

\* add_owned_state_blank: straight to add_owned_state_raw, no calculator.
AddOwnedStateBlank(t, s, a) ==
  Building /\ Step(OB!AddOwnedStateRaw(tb, t, s, a)) /\ Unchanged

AddRights(n, s) ==
  Building /\ Step(OB!AddRights(tb, n, s)) /\ Unchanged

Panic ==
  /\ phase' = "panicked" /\ tb' = OB!NoBuilder /\ err' = "panic"
  /\ UNCHANGED <<kind, inputs, nonce, calcIn, calcOut, owed,
                 transition>>

\* fulfill_owned_state: expect a calculator, calc_output, then write the
\* sufficient part and return the insufficient one.
FulfillOwnedState(t, s, a) ==
  LET suff == IF a <= calcIn[t] - calcOut[t] THEN a ELSE calcIn[t] - calcOut[t]
  IN /\ Building
     /\ IF kind = "blank" THEN Panic
        ELSE /\ calcOut' = [calcOut EXCEPT ![t] = @ + suff]
             /\ owed' = a - suff
             /\ Step(OB!AddOwnedStateRaw(tb, t, s, suff))
             /\ UNCHANGED <<kind, inputs, nonce, calcIn, transition>>

\* add_owned_state_change: expect a calculator; write the change, if any.
AddOwnedStateChange(t, s) ==
  LET change == calcIn[t] - calcOut[t]
  IN /\ Building
     /\ IF kind = "blank" THEN Panic
        ELSE IF change = 0 THEN /\ err' = "none"
                                /\ UNCHANGED <<phase, tb>> /\ Unchanged
        ELSE /\ calcOut' = [calcOut EXCEPT ![t] = @ + change]
             /\ Step(OB!AddOwnedStateRaw(tb, t, s, change))
             /\ UNCHANGED <<kind, inputs, nonce, calcIn, owed, transition>>

\* complete_transition: globals, the input keys, assignments, the nonce
\* and empty metadata; no validation against the schema.
CompleteTransition ==
  /\ phase = "building"
  /\ transition' = [nonce |-> nonce, meta |-> 0, global |-> tb.global,
                    inputs |-> DOMAIN inputs, assigns |-> tb.assigns]
  /\ phase' = "done" /\ tb' = OB!NoBuilder /\ err' = "none"
  /\ UNCHANGED <<kind, inputs, nonce, calcIn, calcOut, owed>>

Next ==
  \/ BlankTransition \/ DefaultTransition
  \/ \E n \in TransitionNames : NamedTransition(n)
  \/ \E n \in Nonces : SetNonce(n)
  \/ \E o \in Opouts : AddInput(o)
  \/ \E n \in MetaNames, typed \in BOOLEAN : AddMetadata(n, typed)
  \/ \E n \in GlobalNames, typed \in BOOLEAN : AddGlobalState(n, typed)
  \/ \E t \in KnownAssign, s \in Seals, a \in Amounts :
       \/ AddOwnedStateBlank(t, s, a)
       \/ FulfillOwnedState(t, s, a)
  \/ \E n \in AssignNames, s \in Seals : AddRights(n, s)
  \/ \E t \in KnownAssign, s \in Seals : AddOwnedStateChange(t, s)
  \/ CompleteTransition

Spec == Init /\ [][Next]_vars

(***************************************************************************)
(* Properties.                                                             *)
(***************************************************************************)
\* The value of the inputs of a type, as the builder's input map holds it.
InputValue(t) ==
  MapThenSumSet(LAMBDA o : inputs[o], {o \in DOMAIN inputs : OpoutTy[o] = t})

\* The calculator tracks the value the transition actually consumes: for
\* every type, the value it registered equals that of the inputs the
\* transition will carry (spec, section 4.3, add_input).
CalcTracksInputs ==
  kind = "calc" /\ phase \in {"building", "done"} =>
    \A t \in KnownAssign : calcIn[t] = InputValue(t)

\* A completed transition holds no more values of a global than the
\* schema allows (spec, section 4.1: cardinality is checked at complete).
CompletedWithinSchema ==
  phase = "done" =>
    \A n \in KnownGlobal : transition.global[n] <= GlobalMax[n]

=============================================================================
