---------------------------- MODULE StockpileCrash ----------------------------
(***************************************************************************)
(* The stockpiles of module Stockpile when a wallet process may stop      *)
(* between two writes to its stores (src/stockpile.rs).  A stockpile is    *)
(* two stores written separately: the Stock (supply files) and the Pile    *)
(* (keep and witness files).  Every append is taken as durable once made;  *)
(* the process restarts with Stockpile::load, which opens the pile and     *)
(* the supply from the same directory and reads back what was written, so *)
(* a crash is modelled as an operation cut after one of its writes, and    *)
(* the restart leaves the persisted variables as they are.                *)
(***************************************************************************)
EXTENDS Stockpile

CONSTANTS MaxCrashes  \* bound on crashes in one behaviour

ASSUME MaxCrashes \in Nat

VARIABLE crashes   \* crashes so far

cvars == <<vars, crashes>>

(***************************************************************************)
(* Stockpile::issue cut after Stock::create: the genesis is in the stock,  *)
(* the seals were never appended to keep.                                 *)
(***************************************************************************)
IssueTorn(h) ==
  /\ DOMAIN ops = {}
  /\ \E outs \in FreshOuts :
       /\ ops' = Genesis :> [inputs |-> {}, outs |-> outs]
       /\ stock' = [stock EXCEPT ![h] = {Genesis}]
  /\ UNCHANGED <<keep, wits, closed, msgs, last>>

\* Mutant of ApplyOperationTorn: the stock is written before keep.
ApplyOperationTornStockFirst(h) ==
  /\ stock[h] # {}
  /\ Cardinality(DOMAIN ops) < MaxOps
  /\ \E ins \in (SUBSET Spendable(h)) \ {{}}, outs \in FreshOuts :
       LET o == Cardinality(DOMAIN ops)
       IN /\ ops' = ops @@ (o :> [inputs |-> ins, outs |-> outs])
          /\ stock' = [stock EXCEPT ![h] = @ \cup {o}]
  /\ UNCHANGED <<keep, wits, closed, msgs, last>>

(***************************************************************************)
(* apply_operation cut between its two writes: keep holds the seals of    *)
(* the new transition, the stock does not hold it.                        *)
(***************************************************************************)
ApplyOperationTorn(h) ==
  /\ stock[h] # {}
  /\ Cardinality(DOMAIN ops) < MaxOps
  /\ \E ins \in (SUBSET Spendable(h)) \ {{}}, outs \in FreshOuts :
       LET o == Cardinality(DOMAIN ops)
       IN /\ ops' = ops @@ (o :> [inputs |-> ins, outs |-> outs])
          /\ keep' = [keep EXCEPT ![h] = @ @@ (o :> OwnSeals(h, outs))]
  /\ UNCHANGED <<stock, wits, closed, msgs, last>>

(***************************************************************************)
(* Stockpile::consume cut while evaluate applies the k-th verified         *)
(* operation: the operations before it were applied with their witnesses; *)
(* of the k-th, keep was appended and, if stocked, the stock too, but not  *)
(* its witnesses.  consume never returns, so last is unchanged.           *)
(***************************************************************************)
ConsumeTorn(h) ==
  \E c \in msgs :
    LET r == Evaluate(h, c, 1, [seals |-> EmptyFn, done |-> <<>>, res |-> "none"])
    IN /\ stock[h] # {}
       /\ \E k \in 1..Len(r.done), stocked \in BOOLEAN :
            LET kept == {r.done[i].op : i \in 1..k}
                applied == {r.done[i].op : i \in 1..(k - 1)}
                                \cup (IF stocked THEN {r.done[k].op} ELSE {})
                at(o) == CHOOSE i \in 1..k : r.done[i].op = o
            IN /\ keep' = [keep EXCEPT ![h] =
                             @ @@ [o \in kept |-> r.done[at(o)].seals]]
               /\ stock' = [stock EXCEPT ![h] = @ \cup applied]
               /\ wits' = [wits EXCEPT ![h] = @ \cup
                             {r.done[i].op : i \in {j \in 1..(k - 1) : r.done[j].wit}}]
       /\ UNCHANGED <<ops, closed, msgs, last>>

\* The process of wallet h stops inside issue, apply_operation or consume;
\* Stockpile::load then reopens what the stores hold.
Crash(h) ==
  /\ crashes < MaxCrashes
  /\ crashes' = crashes + 1
  /\ IssueTorn(h) \/ ApplyOperationTorn(h) \/ ConsumeTorn(h)

CInit == Init /\ crashes = 0

CNext ==
  \/ Next /\ UNCHANGED crashes
  \/ \E h \in Holders : Crash(h)

CSpec == CInit /\ [][CNext]_cvars

(***************************************************************************)
(* The abstract ledger of module ContractLedger: an operation spends the  *)
(* cells its inputs address and defines one cell per seal; a wallet's     *)
(* history is its stock.                                                   *)
(***************************************************************************)
Ledger == INSTANCE ContractLedger
            WITH ledger <- [o \in DOMAIN ops |->
                              [spends |-> ops[o].inputs, outs |-> Len(ops[o].outs)]],
                 hist <- stock

(***************************************************************************)
(* Properties.                                                             *)
(***************************************************************************)
\* Crashes included, the stockpiles implement the ledger: a wallet's stock
\* only grows, stays closed under the cells its operations spend, and
\* never holds two operations spending one cell (apply_operation, the
\* verified steps of consume, and their cut-short forms).
LedgerRefined == Ledger!Spec

\* Every transition in a wallet's stock has its seals in keep, even after
\* a crash: apply_operation appends to keep before it applies to the stock.
StockKept ==
  \A h \in Holders : \A o \in stock[h] \ {Genesis} : o \in DOMAIN keep[h]

=============================================================================
