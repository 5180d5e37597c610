---------------------------- MODULE ContractLedger ----------------------------
(***************************************************************************)
(* What the stockpiles of one contract promise, abstractly: the contract  *)
(* is a growing set of operations, each spending cells (opid, position)   *)
(* of earlier ones and defining a number of new cells; every wallet holds *)
(* a history that only grows, that contains every operation whose cells   *)
(* its operations spend, and in which no cell is spent twice.             *)
(*                                                                         *)
(* An operation may be recorded without entering any history: a wallet    *)
(* that built it and stopped before its stock took it.                    *)
(***************************************************************************)
EXTENDS Naturals, FiniteSets, TLC

CONSTANTS
  Holders,   \* wallets
  OpIds,     \* operation ids
  Genesis,   \* the id of the contract's genesis
  MaxOuts    \* bound on the cells one operation defines

VARIABLES
  ledger,    \* ledger[o]: [spends, outs] of every operation in existence
  hist       \* hist[h]: the operations of wallet h's history

vars == <<ledger, hist>>

CellsOf(L, o) == {<<o, p>> : p \in 1..L[o].outs}
SpentBy(L, S) == UNION {L[o].spends : o \in S}

\* The cells of history S no operation of S spends.
UnspentIn(L, S) == UNION {CellsOf(L, o) : o \in S} \ SpentBy(L, S)

\* S is a history of ledger L: closed under spending, no cell spent twice.
IsHistory(L, S) ==
  /\ SpentBy(L, S) \subseteq UNION {CellsOf(L, o) : o \in S}
  /\ \A o1, o2 \in S : o1 # o2 => L[o1].spends \cap L[o2].spends = {}

Init ==
  /\ ledger = [o \in {} |-> o]
  /\ hist = [h \in Holders |-> {}]

\* The contract is issued by wallet h.
Create(h) ==
  /\ DOMAIN ledger = {}
  /\ \E n \in 1..MaxOuts :
       /\ ledger' = Genesis :> [spends |-> {}, outs |-> n]
       /\ hist' = [hist EXCEPT ![h] = {Genesis}]

\* Wallet h makes an operation spending unspent cells of its history;
\* enter says whether it enters h's history in the same step.
Make(h, enter) ==
  \E o \in OpIds \ DOMAIN ledger, sp \in (SUBSET UnspentIn(ledger, hist[h])) \ {{}},
     n \in 1..MaxOuts :
    /\ ledger' = ledger @@ (o :> [spends |-> sp, outs |-> n])
    /\ hist' = IF enter THEN [hist EXCEPT ![h] = @ \cup {o}] ELSE hist

\* Wallet h learns existing operations; its history stays a history.
Learn(h) ==
  \E S \in (SUBSET (DOMAIN ledger \ hist[h])) \ {{}} :
    /\ IsHistory(ledger, hist[h] \cup S)
    /\ hist' = [hist EXCEPT ![h] = @ \cup S]
    /\ UNCHANGED ledger

Next ==
  \E h \in Holders : Create(h) \/ Make(h, TRUE) \/ Make(h, FALSE) \/ Learn(h)

Spec == Init /\ [][Next]_vars

=============================================================================
