------------------------------ MODULE Stockpile ------------------------------
(***************************************************************************)
(* The stockpiles several wallets keep of one RGB contract, and the        *)
(* consignments through which they transfer it (src/stockpile.rs, with the *)
(* envelope of src/mound.rs).                                              *)
(*                                                                         *)
(* A stockpile is a Stock (the operation history and the state derived    *)
(* from it) and a Pile (per operation: the seals it defines, "keep", and   *)
(* the witnesses that close seals it spends).  Stock, Pile and the         *)
(* verifier ContractVerify::evaluate belong to dependencies; they are      *)
(* modelled from the specification.  Seals are single-use: the base chain *)
(* lets each seal be closed by one published witness only.                 *)
(*                                                                         *)
(* Data is abstracted: an operation is its inputs (cell addresses) and the *)
(* auth tokens of the cells it defines; the auth token of a seal is the    *)
(* seal itself; the witness of an operation is named by that operation.    *)
(* Positions in a cell address are 1-based here, 0-based in the code.     *)
(***************************************************************************)
EXTENDS Naturals, Sequences, FiniteSets, SequencesExt, Functions

CONSTANTS
  Holders,   \* wallets, each keeping its own stockpile of the contract
  Seals,     \* single-use seals (outpoints)
  Owner,     \* Owner[s]: the wallet that knows the outpoint behind seal s
  MaxOps,    \* bound on operations, genesis included
  MaxOuts,   \* bound on the assignments one operation defines
  MaxMsgs    \* bound on consignment files in existence

ASSUME Owner \in [Seals -> Holders]
ASSUME MaxOps \in Nat \ {0} /\ MaxOuts \in Nat \ {0} /\ MaxMsgs \in Nat

VARIABLES
  ops,       \* the operations built so far, by opid (content-addressed, global)
  stock,     \* stock[h]: opids applied to h's Stock ({} : h has no stockpile)
  keep,      \* keep[h][o]: the seals h's Pile defines for operation o
  wits,      \* wits[h]: opids whose witness h's Pile retrieves
  closed,    \* closed[s]: the operation whose published witness closed seal s
  msgs,      \* consignment files produced so far
  last       \* last[h]: the outcome of h's latest consume (history)

vars == <<ops, stock, keep, wits, closed, msgs, last>>

Genesis == 0
OpIds == 0..(MaxOps - 1)
EmptyFn == [x \in {} |-> x]

(***************************************************************************)
(* Derived state.                                                          *)
(***************************************************************************)
Cells(o) == {<<o, p>> : p \in 1..Len(ops[o].outs)}
TokenOf(a) == ops[a[1]].outs[a[2]]
InputSeals(o) == {TokenOf(a) : a \in ops[o].inputs}
Spent(S) == UNION {ops[o].inputs : o \in S}

\* The cells of h's Stock no operation of it spends: its owned state.
Live(h) == UNION {Cells(o) : o \in stock[h]} \ Spent(stock[h])

UsedSeals == UNION {Range(ops[o].outs) : o \in DOMAIN ops}
FreshOuts == {s \in BoundedSeq(Seals \ UsedSeals, MaxOuts) :
                s # <<>> /\ IsInjective(s)}

\* The seals among outs whose outpoint wallet h knows, in order:
\* EitherSeal::to_explicit on the issuer's side, the wallet's
\* defined_seals for apply_operation, and its seal_resolver in consume.
OwnSeals(h, outs) == SelectSeq(outs, LAMBDA s : Owner[s] = h)

\* The cells wallet h can spend: live, its own, and unspent on chain.
Spendable(h) ==
  {a \in Live(h) : Owner[TokenOf(a)] = h /\ TokenOf(a) \notin DOMAIN closed}

\* The operations of h's history the cells with token t depend on.
RECURSIVE Ancestry(_)
Ancestry(S) ==
  LET P == {a[1] : a \in Spent(S)} \ S
  IN IF P = {} THEN S ELSE Ancestry(S \cup P)

Defines(o, t) == \E p \in 1..Len(ops[o].outs) : ops[o].outs[p] = t

Entry == [op : OpIds, seals : Seq(Seals), wit : BOOLEAN]
\* arts: the articles header agrees with the contract's stored articles.
Consignment == [terms : SUBSET Seals, entries : Seq(Entry), tail : BOOLEAN,
                arts : BOOLEAN]
Results == {"none", "ok", "unknown", "verify", "panic", "merge"}
NoMsg == [terms |-> {}, entries |-> <<>>, tail |-> FALSE, arts |-> TRUE]

(***************************************************************************)
(* Stockpile::issue: the genesis assignments carry EitherSeal values; the  *)
(* issuer passes its own seals explicitly and others' as auth tokens, and  *)
(* only the explicit ones are written to keep under the genesis opid.     *)
(***************************************************************************)
Issue(h) ==
  /\ DOMAIN ops = {}
  /\ \E outs \in FreshOuts :
       /\ ops' = Genesis :> [inputs |-> {}, outs |-> outs]
       /\ stock' = [stock EXCEPT ![h] = {Genesis}]
       /\ keep' = [keep EXCEPT ![h] = Genesis :> OwnSeals(h, outs)]
  /\ UNCHANGED <<wits, closed, msgs, last>>

\* Mutant of Open: a stockpile opened from articles nobody issued.
OpenUnissued(h) ==
  /\ stock[h] = {}
  /\ stock' = [stock EXCEPT ![h] = {Genesis}]
  /\ UNCHANGED <<ops, keep, wits, closed, msgs, last>>

(***************************************************************************)
(* Stockpile::open: a wallet opens the contract from its articles.         *)
(***************************************************************************)
Open(h) ==
  /\ Genesis \in DOMAIN ops
  /\ stock[h] = {}
  /\ stock' = [stock EXCEPT ![h] = {Genesis}]
  /\ UNCHANGED <<ops, keep, wits, closed, msgs, last>>

(***************************************************************************)
(* ContractApi::apply_operation of a transition wallet h built from its    *)
(* own spendable cells: keep first, then the Stock.                        *)
(***************************************************************************)
ApplyOperation(h) ==
  /\ stock[h] # {}
  /\ Cardinality(DOMAIN ops) < MaxOps
  /\ \E ins \in (SUBSET Spendable(h)) \ {{}}, outs \in FreshOuts :
       LET o == Cardinality(DOMAIN ops)
       IN /\ ops' = ops @@ (o :> [inputs |-> ins, outs |-> outs])
          /\ keep' = [keep EXCEPT ![h] = @ @@ (o :> OwnSeals(h, outs))]
          /\ stock' = [stock EXCEPT ![h] = @ \cup {o}]
  /\ UNCHANGED <<wits, closed, msgs, last>>

(***************************************************************************)
(* Stockpile::attest after wallet h published the witness closing the     *)
(* seals its transition o spends.                                         *)
(***************************************************************************)
Attest(h) ==
  /\ \E o \in stock[h] \ {Genesis} :
       /\ o \notin wits[h]
       /\ \A s \in InputSeals(o) : Owner[s] = h /\ s \notin DOMAIN closed
       /\ closed' = closed @@ [s \in InputSeals(o) |-> o]
       /\ wits' = [wits EXCEPT ![h] = @ \cup {o}]
  /\ UNCHANGED <<ops, stock, keep, msgs, last>>

(***************************************************************************)
(* Mound::consign and Stockpile::consign: the history behind a terminal   *)
(* token, genesis first, each operation with keep[opid] and its witnesses. *)
(***************************************************************************)
Consign(h) ==
  /\ Cardinality(msgs) < MaxMsgs
  /\ \E o \in stock[h], t \in Seals :
       LET hist == Ancestry({o})
           order == SetToSortSeq(hist, <)
       IN /\ Defines(o, t)
          /\ hist \subseteq DOMAIN keep[h]
          /\ msgs' = msgs \cup
               {[terms |-> {t},
                 entries |-> [i \in 1..Len(order) |->
                                [op |-> order[i], seals |-> keep[h][order[i]],
                                 wit |-> order[i] \in wits[h]]],
                 tail |-> FALSE, arts |-> TRUE]}
  /\ UNCHANGED <<ops, stock, keep, wits, closed, last>>

(***************************************************************************)
(* A consignment file cut short in transit: it ends after n complete      *)
(* operations, possibly followed by the bytes of an operation whose seals  *)
(* or witnesses are missing (tail).                                        *)
(***************************************************************************)
Truncate ==
  /\ Cardinality(msgs) < MaxMsgs
  /\ \E c \in msgs, tail \in BOOLEAN :
       \E n \in 0..(Len(c.entries) - 1) :
         msgs' = msgs \cup {[c EXCEPT !.entries = SubSeq(c.entries, 1, n),
                                      !.tail = tail]}
  /\ UNCHANGED <<ops, stock, keep, wits, closed, last>>

(***************************************************************************)
(* A consignment file whose articles header (schema, signatures, codex,    *)
(* meta) contradicts the contract's articles: altered in transit or sent   *)
(* by a dishonest peer.                                                    *)
(***************************************************************************)
AlterArticles ==
  /\ Cardinality(msgs) < MaxMsgs
  /\ \E c \in msgs : msgs' = msgs \cup {[c EXCEPT !.arts = FALSE]}
  /\ UNCHANGED <<ops, stock, keep, wits, closed, last>>

(***************************************************************************)
(* OpReader / WitnessReader driving ContractVerify::evaluate over the     *)
(* stream.  Each operation gets its streamed seals extended by the seal    *)
(* resolver; the seals defined so far are indexed by (opid, position); an  *)
(* operation passes if it is genesis exactly when it comes first, every    *)
(* input resolves to a seal defined earlier in the stream, and a witness   *)
(* of the operation closes each of those seals.  Reading stops at the      *)
(* first failure; an operation decoded without its seals and witness       *)
(* count panics; end of stream after a whole operation is a clean end.     *)
(***************************************************************************)
\* OpReader::read_operation: the streamed seals of entry e, extended by
\* the seal resolver.
Defined(h, e) == e.seals \o OwnSeals(h, ops[e.op].outs)

\* The verifier's check of the i-th entry e against the seals defined by
\* the entries before it.
Verifies(e, i, seals) ==
  LET ins == ops[e.op].inputs
  IN /\ (i = 1) = (e.op = Genesis)
     /\ ins \subseteq DOMAIN seals
     /\ \A a \in ins : /\ e.wit
                       /\ seals[a] \in DOMAIN closed
                       /\ closed[seals[a]] = e.op

\* The seals of entry e indexed by (opid, position), added to seals.
Index(e, defined, seals) ==
  seals @@ [a \in {<<e.op, p>> : p \in 1..Len(defined)} |-> defined[a[2]]]

RECURSIVE Evaluate(_, _, _, _)
Evaluate(h, c, i, acc) ==
  IF i > Len(c.entries)
  THEN [acc EXCEPT !.res = IF c.tail THEN "panic" ELSE "ok"]
  ELSE
    LET e == c.entries[i]
        defined == Defined(h, e)
    IN IF Verifies(e, i, acc.seals)
       THEN Evaluate(h, c, i + 1,
              [acc EXCEPT
                 !.seals = Index(e, defined, @),
                 !.done = Append(@, [e EXCEPT !.seals = defined])])
       ELSE [acc EXCEPT !.res = "verify"]

\* Mutant of ApplyVerified: the stock is replaced by the verified operations
\* instead of extended by them.
ApplyVerifiedReplace(h, done) ==
  LET applied == {done[i].op : i \in 1..Len(done)}
      at(o) == CHOOSE i \in 1..Len(done) : done[i].op = o
  IN /\ keep' = [keep EXCEPT ![h] =
                   @ @@ [o \in applied |-> done[at(o)].seals]]
     /\ stock' = [stock EXCEPT ![h] = applied]
     /\ wits' = [wits EXCEPT ![h] =
                   @ \cup {done[i].op : i \in {j \in 1..Len(done) : done[j].wit}}]

\* apply_witness and apply_operation for every operation that passed.
ApplyVerified(h, done) ==
  LET applied == {done[i].op : i \in 1..Len(done)}
      at(o) == CHOOSE i \in 1..Len(done) : done[i].op = o
  IN /\ keep' = [keep EXCEPT ![h] =
                   @ @@ [o \in applied |-> done[at(o)].seals]]
     /\ stock' = [stock EXCEPT ![h] = @ \cup applied]
     /\ wits' = [wits EXCEPT ![h] =
                   @ \cup {done[i].op : i \in {j \in 1..Len(done) : done[j].wit}}]

(***************************************************************************)
(* Stockpile::consume: articles are read, evaluate drives the readers     *)
(* over the operations and applies those that pass; merge_articles and     *)
(* complete_update run only when evaluate returned Ok.  merge_articles    *)
(* (hypersonic) fails with MergeError on articles contradicting the        *)
(* stored ones, after every operation was applied.                         *)
(***************************************************************************)
MergeArticles(r, c) == IF r.res = "ok" /\ ~c.arts THEN "merge" ELSE r.res

ConsumeStream(h, c) ==
  LET r == Evaluate(h, c, 1, [seals |-> EmptyFn, done |-> <<>>, res |-> "none"])
  IN /\ ApplyVerified(h, r.done)
     /\ last' = [last EXCEPT ![h] = [res |-> MergeArticles(r, c), msg |-> c]]

(***************************************************************************)
(* Mound::consume: a consignment of a contract the wallet has no          *)
(* stockpile of is refused with UnknownContract; otherwise the stream is   *)
(* handed to the stockpile.                                                *)
(***************************************************************************)
Consume(h) ==
  \E c \in msgs :
    \/ /\ stock[h] = {}
       /\ last' = [last EXCEPT ![h] = [res |-> "unknown", msg |-> c]]
       /\ UNCHANGED <<ops, stock, keep, wits, closed, msgs>>
    \/ /\ stock[h] # {}
       /\ ConsumeStream(h, c)
       /\ UNCHANGED <<ops, closed, msgs>>

Init ==
  /\ ops = EmptyFn
  /\ stock = [h \in Holders |-> {}]
  /\ keep = [h \in Holders |-> EmptyFn]
  /\ wits = [h \in Holders |-> {}]
  /\ closed = EmptyFn
  /\ msgs = {}
  /\ last = [h \in Holders |-> [res |-> "none", msg |-> NoMsg]]

Next ==
  \/ \E h \in Holders :
       \/ Issue(h)
       \/ Open(h)
       \/ ApplyOperation(h)
       \/ Attest(h)
       \/ Consign(h)
       \/ Consume(h)
  \/ Truncate
  \/ AlterArticles

Spec == Init /\ [][Next]_vars

(***************************************************************************)
(* Properties.                                                             *)
(***************************************************************************)
TypeOK ==
  /\ DOMAIN ops \subseteq OpIds
  /\ \A o \in DOMAIN ops : ops[o].inputs \subseteq OpIds \X (1..MaxOuts)
  /\ stock \in [Holders -> SUBSET DOMAIN ops]
  /\ \A h \in Holders : DOMAIN keep[h] \subseteq DOMAIN ops
  /\ wits \in [Holders -> SUBSET OpIds]
  /\ DOMAIN closed \subseteq Seals /\ Range(closed) \subseteq OpIds
  /\ msgs \subseteq Consignment
  /\ \A h \in Holders : last[h].res \in Results

\* Stockpile::state joins each owned assignment at (opid, pos) with
\* keep[opid][pos]: that seal must be the one whose auth token the
\* assignment carries (the specification's seal bijection).
KeepAligned ==
  \A h \in Holders : \A a \in Live(h) :
    a[1] \in DOMAIN keep[h] =>
      /\ a[2] <= Len(keep[h][a[1]])
      /\ keep[h][a[1]][a[2]] = TokenOf(a)

\* Consuming a consignment of honestly built operations fails
\* verification only when one of them spends seals without a witness.
HonestConsumeSucceeds ==
  \A h \in Holders :
    last[h].res = "verify" =>
      \E i \in 1..Len(last[h].msg.entries) :
        LET e == last[h].msg.entries[i]
        IN ~e.wit /\ ops[e.op].inputs # {}

\* A consume that returns Ok has applied the operations that define the
\* terminals the consignment was made for.
ConsumedTerminals ==
  \A h \in Holders :
    last[h].res = "ok" =>
      \A t \in last[h].msg.terms : \E o \in stock[h] : Defines(o, t)

\* Stockpile::consume reports a malformed stream as an error, never by
\* panicking.
NoPanic == \A h \in Holders : last[h].res # "panic"

=============================================================================
