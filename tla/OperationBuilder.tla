--------------------------- MODULE OperationBuilder ---------------------------
(***************************************************************************)
(* The accumulator shared by the contract and transition builders          *)
(* (OperationBuilder in src/interface/builder.rs).  A builder is a value;  *)
(* every method takes it by value and returns Ok(builder) or Err(error),   *)
(* so each operator here returns a record [err, b]: err = "none" and the   *)
(* new builder, or an error and no builder (the old one was consumed).     *)
(*                                                                         *)
(* Values are abstracted to an amount and a flag saying whether they       *)
(* typify against the schema's SemId; names to small sets, with the names  *)
(* the interface implementation knows as subsets.                          *)
(***************************************************************************)
EXTENDS Naturals, Sequences, Functions

CONSTANTS
  MetaNames,     \* metadata field names a caller may pass
  GlobalNames,   \* global state field names a caller may pass
  AssignNames,   \* assignment field names a caller may pass
  KnownMeta,     \* names IfaceImpl::meta_type resolves
  KnownGlobal,   \* names IfaceImpl::global_type resolves
  KnownAssign,   \* names IfaceImpl::assignment_type resolves
  Seals,         \* builder seals
  Amounts,       \* abstract owned state values
  MaxValues      \* bound on the values one builder holds per field

ASSUME KnownMeta \subseteq MetaNames /\ KnownGlobal \subseteq GlobalNames
ASSUME KnownAssign \subseteq AssignNames /\ 0 \in Amounts

NoBuilder == [none |-> TRUE]

\* An assignment: the type it is filed under, its seal and its state.
Assignment(ty, seal, amount) == [ty |-> ty, seal |-> seal, amount |-> amount]

\* OperationBuilder::with: empty metadata, globals and assignments.
Empty ==
  [meta |-> [n \in KnownMeta |-> 0],
   global |-> [n \in KnownGlobal |-> 0],
   assigns |-> [t \in KnownAssign |-> <<>>]]

Builders ==
  [meta : [KnownMeta -> 0..MaxValues],
   global : [KnownGlobal -> 0..MaxValues],
   assigns : [KnownAssign -> Seq([ty : KnownAssign, seal : Seals,
                                   amount : Amounts])]]

Ok(b) == [err |-> "none", b |-> b]
Err(e) == [err |-> e, b |-> NoBuilder]

\* add_metadata / serialize_metadata: resolve the name, typify the value
\* against the schema's SemId, then add it.
AddMetadata(b, name, typed) ==
  IF name \notin KnownMeta THEN Err("MetadataNotFound")
  ELSE IF ~typed THEN Err("Typify")
  ELSE Ok([b EXCEPT !.meta[name] = @ + 1])

\* add_global_state / serialize_global_state.
AddGlobalState(b, name, typed) ==
  IF name \notin KnownGlobal THEN Err("GlobalNotFound")
  ELSE IF ~typed THEN Err("Typify")
  ELSE Ok([b EXCEPT !.global[name] = @ + 1])

\* Mutant of AddOwnedStateRaw: an occupied entry is overwritten instead of
\* pushed onto.
AddOwnedStateRawReplace(b, ty, seal, amount) ==
  Ok([b EXCEPT !.assigns[ty] = <<Assignment(ty, seal, amount)>>])

\* add_owned_state_raw: a vacant entry gets a one-element list, an occupied
\* one has the assignment pushed at its end.
AddOwnedStateRaw(b, ty, seal, amount) ==
  Ok([b EXCEPT !.assigns[ty] = Append(@, Assignment(ty, seal, amount))])

\* add_rights: resolve the name; the state is State::default().
AddRights(b, name, seal) ==
  IF name \notin KnownAssign THEN Err("AssignmentNotFound")
  ELSE AddOwnedStateRaw(b, name, seal, 0)

\* add_owned_state / serialize_owned_state: resolve the name, typify the
\* value, then add_owned_state_raw.
AddOwnedState(b, name, seal, amount, typed) ==
  IF name \notin KnownAssign THEN Err("AssignmentNotFound")
  ELSE IF ~typed THEN Err("Typify")
  ELSE AddOwnedStateRaw(b, name, seal, amount)

\* The number of values the builder holds, bounded in the callers' guards.
Size(b) ==
  SumFunction(b.meta) + SumFunction(b.global)
  + SumFunction([t \in KnownAssign |-> Len(b.assigns[t])])

=============================================================================
