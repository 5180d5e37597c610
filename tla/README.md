# TLA+ models of rgb-wallet: stockpile, mound and builders

This directory holds the TLA+ verification project for the RGB contract
runtime in `src/`: the stockpile of a contract (`src/stockpile.rs`), the
mound that holds many stockpiles (`src/mound.rs`), and the contract and
transition builders (`src/interface/builder.rs`). TLC checks the modules
through the `MC_*.tla` modules and `.cfg` files listed under "Runs".
`PROJECT.json` has the machine-readable inventory. Its `map` ties every
definition to the source lines it translates. Its `hazards` list names
what is hard to test in this code.

## 1. Inventory

### Components, their state and operations

| Component | Source | State it keeps | Operations that change state |
|---|---|---|---|
| Stockpile | `src/stockpile.rs` | `stock: Stock<S>`: operation history, articles, the main state (immutable, owned, computed) and the `raw.auth` index from auth token to cell address. `pile: P`: `keep` (the seals each operation defines, by opid) and the client and published witnesses by opid. | `issue`, `open`, `attest`, `consign`, `consume` (which drives `OpReader`, `WitnessReader` and `evaluate`), `apply_operation`, `apply_witness`. Reads: `seal`, `state`. |
| Mound | `src/mound.rs` | `consensus`, `testnet`, `schemata: CodexId -> Schema`, `contracts: ContractId -> Stockpile`, `persistence`. | `with_testnet`, `open_testnet` (drains the excavator), `issue` (consensus/testnet/codex gating, then insert), `attest` (loops over anchors), `consign` (writes the envelope, then delegates), `consume` (magic and contract checks, then delegates); `DirMound::load_testnet`, `issue_to_file`, `consign_to_file` over the `DirExcavator` directory. Reads: `select`, `contract`. |
| ContractBuilder | `src/interface/builder.rs:128-349` | an `OperationBuilder<GenesisSeal>`, `testnet`, `alt_layers1`, scripts, issuer. | `set_mainnet`, `add_layer1`, `add_metadata`, `add_global_state`, `add_owned_state_raw`, `add_rights`, `add_owned_state`, `serialize_*`, `issue_contract[_det]` (genesis, contract, validation). |
| TransitionBuilder | `src/interface/builder.rs:351-591` | `contract_id`, an `OperationBuilder<GraphSeal>`, `nonce`, `transition_type`, `inputs: Input -> State`, `calc: Option<StateCalc>`. | `blank_transition`, `default_transition`, `named_transition`, `set_nonce`, `add_input`, `add_metadata`, `add_global_state`, `add_owned_state_blank`, `add_rights`, `fulfill_owned_state`, `add_owned_state_change`, `complete_transition`. |
| OperationBuilder | `src/interface/builder.rs:593-834` | `global`, `meta`, `assignments` (typed lists, in insertion order), plus schema, interface and implementation. | name resolution (`*_type`), `add_metadata`, `serialize_metadata`, `add_global_state`, `serialize_global_state`, `add_owned_state_raw`, `add_rights`, `add_owned_state`, `serialize_owned_state`, `complete`. |
| Command-line tool | `src/bin/rgb.rs` | none | converts consignments, schemata and operations between formats; validates a consignment against an Electrum server. |
| Dependencies | `Stock`, `Supply`, `Pile`, `ContractVerify::evaluate`, `StateCalc`, resolvers, strict encoding | — | modelled from the specification where an action calls them (section 3). |

### How the components interact

* Issuance: `ContractBuilder` → `OperationBuilder::complete` → `Genesis`.
  Separately, `Mound::issue` → `Stockpile::issue` → `Schema::issue` → `Stock::create`, plus the genesis seals written to `keep`.
* Transfer: a wallet builds a transition with `TransitionBuilder`. It applies
  it with `apply_operation`, publishes a witness transaction, and records it
  with `attest`. `Mound::consign` writes the envelope. `Stockpile::consign`
  then streams the history behind the terminal auth tokens, with `keep[opid]`
  and the witnesses of each operation.
* Receipt: `Mound::consume` checks the magic and that the contract is known.
  `Stockpile::consume` reads the articles fields and runs `evaluate` over
  `OpReader`. `OpReader` extends each operation's streamed seals with the
  wallet's `seal_resolver`. `evaluate` calls back `apply_operation` and
  `apply_witness` for every operation that passes. `merge_articles` and
  `complete_update` follow.
* Shared state: the base chain. A seal can be closed by only one published
  witness. That is what makes a transfer final for a receiver.

### What is hard

The code runs single-threaded and synchronously (spec §5), so there are no
thread interleavings. What is hard is:

* **Orderings of the wallets' steps.** Issue, open, transfer, attest,
  consign and consume run in any order across wallets. For example, a
  consignment made before `attest` carries no witness.
* **Positional bookkeeping across two stores.** `Stockpile::state` reads
  `keep[opid][pos]` by assignment position. `issue` writes only the explicit
  seals. `OpReader` appends the resolver's seals after the streamed ones.
* **Unreliable files.** A consignment can be truncated, duplicated, or
  consumed twice or out of order.
* **Partial failure.** `evaluate` applies operations one at a time, so a
  verification failure, or a panic in the readers, leaves earlier ones
  applied. `Mound::attest` panics part way through its loop on an unknown
  contract.
* **Crash between two stores.** `apply_operation` appends to `keep` and only
  then to the stock. `Stockpile::issue` creates the stock before it writes
  the genesis seals.
* **Restart from the directory.** A `DirMound` is rebuilt only from its
  `.contract` directories. `issue_to_file` creates the directory before
  `Mound::issue` decides, and names it after the contract name only.
* **Builder sequences.** `add_input` registers an input in `StateCalc`
  before it inserts it into the input map. `ContractBuilder::add_rights`
  skips the layer check that the other `add_owned_*` methods make. Metadata
  never reaches the genesis or the transition.

### What makes each component correct

* Stockpile: a seal is accepted as spent only when its own witness closes it
  on chain. `keep` and `state()` agree on the seal behind every assignment.
  Consuming a consignment of honest, witnessed operations succeeds and yields
  the terminals. A malformed stream is an error, not a panic, and not a
  silent success.
* Mound: `issue` admits only contracts of its consensus and network. A
  contract's history never shrinks. `consume` reaches only contracts it
  holds. `attest` is all or nothing. A restart brings back every contract
  the mound held, of its own network only, and always returns a mound.
* Builders: a Liquid seal gets into a genesis only after `add_layer1(Liquid)`.
  The outputs a transition builder writes through `StateCalc` never exceed
  its registered inputs. The change plus the outputs equal the inputs.
  What the builder accumulated is what the operation carries.

## 2. Plan

1. **`Stockpile`** (this sitting) is the core. It models the stockpiles of
   one contract kept by several wallets, the base chain's single-use seals,
   and the consignment files between the wallets. It covers `issue`, `open`,
   `apply_operation`, `attest`, `consign` with its envelope, truncated
   files, and `consume` with the UnknownContract check, the readers,
   `evaluate` and the callbacks.
2. **`Mound`** (done). Several contracts in a mound with its consensus and
   network; each stockpile is abstracted to the size of its history and
   pile, since its inside is `Stockpile`'s subject. Covers `open_testnet`
   over `DirExcavator`, `issue` gating and `BTreeMap::insert`, the `attest`
   loop with its panic, `consume`'s envelope checks, and transfers through
   `contract_mut`. Properties: `EnvGating`, and `HistoryNeverShrinks` (an
   action property, violated by re-issue). `attest` atomicity is not a
   property: the spec promises none; the partial write is reachable and
   listed as a hazard.
3. **`TransitionBuilder`** with `StateCalc` modelled from spec section 4.3
   (done). Covers the three constructors, `set_nonce`, `add_input`,
   `add_owned_state_blank`, `add_rights`, `fulfill_owned_state`,
   `add_owned_state_change`, the `expect` panics and `complete_transition`.
   Properties: `CalcTracksInputs` and `CompletedWithinSchema` (violated).
   No pass property is claimed: that fulfilment and change write no more
   than the calculator registered follows from `StateCalc` as the spec
   describes it, so checking it would check only the model of a
   dependency.
4. **`ContractBuilder`** over **`OperationBuilder`** (done). Covers layer
   gating, metadata, global and owned accumulation, and `issue_contract`
   with validation. Properties: `AssignmentsPreserved` (pass) and
   `LayerGating` (violated by `add_rights`). `TooManyLayers1` cannot
   happen: Liquid is the only alternative layer and `add_layer1` adds it to
   a set. Metadata reaching the genesis is not claimed: the spec leaves it
   an open question (section 9).
5. **Refinement** (done). The abstract `ContractLedger` holds the
   operations of the contract and one history per wallet: it only grows, is
   closed under spending, and spends no cell twice. `StockpileCrash` maps
   `ops` and `stock` onto it and checks `Ledger!Spec` as a `PROPERTY`.
6. **Crash/restart** (done). `StockpileCrash` cuts `issue`,
   `apply_operation` and `consume` between their writes to the two stores.
   Its checks run in `stockpile_safety`, on the crash specification, since a
   behaviour without a crash is one of its behaviours.
7. **Mound on disk, and restart** (done). `DirMound` extends `Mound` with
   the directory the mound is kept in (`DirExcavator`, `load_testnet`,
   `issue_to_file`) and a restart of the process. Its checks replace the
   in-memory mound in `mound_env_gating`, whose actions it all fires, and
   `mound_restart_returns` shows a rejected `issue_to_file` stopping every
   later restart.

## 3. Modules

### `Stockpile.tla`

| TLA+ | Code |
|---|---|
| `ops` | Operations are content-addressed (`Opid`). `ops[o]` holds the inputs of `o` (cell addresses `<<opid, pos>>`) and the auth tokens of the assignments it defines. A seal's auth token is the seal itself. |
| `stock[h]` | the opids in wallet `h`'s `Stock` (`{}`: no stockpile yet) |
| `keep[h][o]` | `pile.keep()[o]`, the `SmallVec` of seals. Positions are 1-based in TLA+ and 0-based in Rust. |
| `wits[h]` | the opids for which `pile.retrieve` yields a witness |
| `closed[s]` | the base chain: the operation whose published witness closed seal `s` |
| `msgs` | consignment files: a terminal, the entries (opid, `keep` seals, witness or not), whether a partial operation trails them, and whether the articles header agrees with the contract's (`arts`) |
| `last` | history variable for properties: the last consume outcome |
| `Issue` | `Stockpile::issue`. The wallet passes its own seals as `EitherSeal::Alt` and others' as `EitherSeal::Token`. Only the explicit ones go to `keep`. |
| `Open` | `Stockpile::open` |
| `ApplyOperation` | a transition built from the wallet's own spendable cells (found through `Stockpile::seal`), then `ContractApi::apply_operation` |
| `Attest` | `Stockpile::attest`, once the wallet has published the witness closing the transition's input seals |
| `Consign` | `Mound::consign` and `Stockpile::consign` over `Stock::export_aux`: the ancestry of the terminal in opid order, with `keep` and the witnesses |
| `Truncate` | the environment: a file cut after `n` whole operations, optionally followed by an operation without its seals or witness count |
| `AlterArticles` | the environment: a file whose articles header contradicts the contract's, altered in transit or sent by a dishonest peer |
| `Consume` | `Mound::consume`. UnknownContract, or `ConsumeStream` = `Stockpile::consume`, running `Evaluate` (`OpReader`, `WitnessReader`, `evaluate`) and then `ApplyVerified` (`apply_operation`, `apply_witness`) |
| `MergeArticles` | the tail of `Stockpile::consume`: after a clean `evaluate`, `merge_articles` fails with `MergeError` on a contradicting header, leaving the operations applied; `complete_update` is given no effect |

`Evaluate` follows `evaluate` as the specification describes it (§4.4, §5):
* The first operation must be genesis, and no other may be.
* Each input must resolve to a seal defined earlier in the same stream. The
  seals are indexed by `(opid, position)` in `defined_seals`, as `state()`
  indexes `keep`.
* A witness of the operation must close each resolved seal.
* Reading stops at the first failure, and what passed before stays applied.

When a second consume meets an opid already in `keep`, the first write is
kept. This is an assumption about the append-only store; the specification
says only "append-only".

The wallet is modelled as choosing fresh seals for every new assignment. It
passes its own seals explicitly, and passes others' seals only by auth
token. Its `seal_resolver` returns the wallet's own seals among an
operation's assignments, in order.

### `ContractLedger.tla` (abstract)

The promise a stockpile makes of its history, with no seals, keep or files.
`ledger[o]` is an operation's spent cells and its number of outputs;
`hist[h]` is wallet h's history. `Create` issues the genesis, `Make(h,
enter)` makes an operation spending unspent cells of h's history (entering
it or not), and `Learn` adds existing operations while the history stays
closed under spending and free of double spends.

### `StockpileCrash.tla`

Extends `Stockpile` with a crash counter (bounded by `MaxCrashes`). A crash is an operation cut after one of its
durable writes; `Stockpile::load` (lines 453-458) reopens the supply and the
pile from the same directory, so the restart changes nothing persisted.

| Definition | Code |
|---|---|
| `IssueTorn(h)` | `Stockpile::issue` stopped after `Stock::create` (line 223), before the `keep` append (226) |
| `ApplyOperationTorn(h)` | `apply_operation` stopped after the `keep` append (408), before `stock.apply` (411) |
| `ConsumeTorn(h)` | `consume` stopped while `evaluate` applies the k-th verified operation: its `keep` written, its stock entry perhaps, its witnesses not |
| `Crash(h)` | any of the three, then `Stockpile::load` |
| `Ledger` | refinement mapping: `ledger <- ` spent cells and output count of each op, `hist <- stock` |

It is assumed that each store append is durable when it returns. hypersonic
and `FilePile` are not in this repository, so this is not checked against them.

### `Mound.tla`

| TLA+ | Code |
|---|---|
| `schemata` | `Mound.schemata`, by codex id |
| `contracts[id]` | `Mound.contracts`: the stockpile under `id`, as `[hist, wits]`, its number of operations and of witnesses |
| `ContractIds` | a contract id is the hash of a genesis fixed by `CreateParams` (codex, consensus, network, name, timestamp), so it is that tuple |
| `Init`, `OpenTestnet` | `DirMound::load_testnet`: `open_testnet` over a `DirExcavator` of the same consensus and network, which keeps the persisted contracts of that consensus and network |
| `Issue`, `Insert` | `Mound::issue`: consensus, network, codex checks in that order, then `BTreeMap::insert` |
| `ApplyOperation` | a transfer applied through `contract_mut` |
| `Attest`, `AttestAll` | `Mound::attest`: anchors in order; `contract_mut` panics at the first unknown contract, after earlier anchors were written |
| `Consume` | `Mound::consume`: `UnrecognizedMagic`, `UnknownContract`, then the stockpile's consume adds what it verified and returns `Ok` or an error |
| `result` | history variable: the outcome of the latest call |

### `OperationBuilder.tla`, `ContractBuilder.tla`, `TransitionBuilder.tla`

Builder methods take the builder by value and return `Result<Self, _>`, so
an `Err` consumes the builder. `OperationBuilder` is a module of operators
on a builder value that return `[err, b]`. The two other modules hold the
builder in a variable with a `phase`, and use `OperationBuilder` through
`OB == INSTANCE OperationBuilder`. An error moves `phase` to `"failed"`,
and so does the consuming call.

| TLA+ | Code |
|---|---|
| `OB!Empty`, `OB!Builders` | `OperationBuilder::with` and its fields; a value is reduced to an amount, and typify or encoding success to a flag |
| `OB!AddMetadata`, `OB!AddGlobalState` | name resolution (`MetadataNotFound`, `GlobalNotFound`), `Typify`, then the value is added |
| `OB!AddOwnedStateRaw` | the `Entry::Vacant`/`Occupied` insert: push at the end of the type's list |
| `OB!AddRights`, `OB!AddOwnedState` | resolution (`AssignmentNotFound`), state (default for rights), then `add_owned_state_raw` |
| ContractBuilder `HasLayer1`, `LayerChecked` | `has_layer1`, `check_layer1`, called first by `add_owned_state_raw`, `add_owned_state`, `serialize_owned_state`, and not by `add_rights` |
| ContractBuilder `IssueContract`, `Validates` | `issue_contract_raw`: the genesis with empty metadata, then `Contract::validate`, modelled from the spec: the schema's global occurrences, and seals on declared layers |
| ContractBuilder `log` | history variable: the assignments calls accepted, in call order |
| TransitionBuilder `kind`, `calcIn`, `calcOut` | `calc: Option<StateCalc>` and the calculator's registered input and output value per type |
| TransitionBuilder `AddInput` | `reg_input`, then `TinyOrdMap::insert`, which replaces a present key and fails (`Confinement`) when full |
| TransitionBuilder `FulfillOwnedState`, `AddOwnedStateChange` | the `expect` on `calc` (a panic on a blank builder), `calc_output` / `calc_change`, then `add_owned_state_raw` |
| TransitionBuilder `CompleteTransition` | `complete_transition`: globals, input keys, assignments, nonce, empty metadata, no schema validation |
| TransitionBuilder `owed` | the insufficient part the latest fulfilment returned |

`StateCalc` is modelled from spec section 4.3. `calc_output` covers the
requested value with what is registered as input and not yet as output.
It registers the covered part as output and returns the rest.
`calc_change` returns inputs minus outputs, or nothing when that is zero.
The model assumes that it registers the change it returns.

### `DirMound.tla`

| TLA+ | Code |
|---|---|
| `disk[n]` | the files of `<n>.contract` in the mound's `consensus_dir`: the contract id its supply's articles name, and the history and witness counts of the supply and pile; `hist = 0` is a supply with no articles |
| `InHome`, `HomePersisted`, `InitDisk` | `DirExcavator::consensus_dir`: with `no_prefix` the top directory, shared by every network; otherwise `<consensus>[.testnet]` |
| `Load`, `LoadPanics` | `DirExcavator::contracts`: `Stockpile::load` of every `.contract` directory, keeping those whose articles name the mound's consensus and network; a supply without articles cannot be loaded |
| `DInit` | `DirMound::load_testnet` at start |
| `IssueToFile` | `DirMound::issue_to_file`: `FileSupply::new` and `FilePile::new` create the directory of `params.name` before `Mound::issue` decides. Over an existing directory these constructors (of dependencies) either panic or create the files anew; both are allowed |
| `Durably`, `Persist` | the calls of `Mound` that change a stockpile; a file-backed stock and pile append every write at once |
| `Restart`, `up`, `restarts` | the process stops between two calls and `load_testnet` runs again: it panics if a directory has no articles, else reloads schemata and contracts |

## 4. Runs

| Run | Config | Expect | What it shows |
|---|---|---|---|
| `stockpile_safety` | `MC_StockpileCrash.cfg` | pass | The `StockpileCrash` spec: all of `Stockpile`, plus one crash that cuts issue, apply_operation or consume. `LedgerRefined`: every wallet's stock only grows, is closed under spending, and never spends a cell twice. This holds through partial failures (a verification error, a panic, or a `MergeError` after the operations were applied), duplicated, truncated or altered files, and crashes. `StockKept`: every transition in a stock has its seals in `keep`, because `apply_operation` writes `keep` first. |
| `keep_alignment` | `MC_Stockpile_KeepAligned.cfg` | violation | After `Stockpile::issue` with a token seal ahead of an explicit one, `keep[genesis][pos]` is not the seal of assignment `pos`. `state()` returns the wrong seal, or indexes out of range. |
| `honest_transfer` | `MC_Stockpile_HonestConsumeSucceeds.cfg` | violation | The issuer transfers its own genesis cell, attests, and consigns. The receiver's `consume` fails verification, because the resolver's seals are appended after the streamed ones and inputs resolve to the wrong seal. |
| `truncated_consignment` | `MC_Stockpile_ConsumedTerminals.cfg` | violation | A file cut at an operation boundary is consumed with `Ok` without the operation that defines the terminal. |
| `consume_panics` | `MC_Stockpile_NoPanic.cfg` | violation | A file cut after an operation's body makes `read_operation` panic instead of returning `DecodeError`. |
| `mound_env_gating` | `MC_DirMound.cfg` | pass | The `DirMound` spec: a Bitcoin testnet mound in a `no_prefix` directory that also holds a mainnet contract, issuing through `issue_to_file` and restarting. `EnvGating`: it never holds a contract of another consensus or network, after restarts too. `RestartRestores`: a restart that returns brings back every contract the mound held, with its history and witnesses, unless a later issue of the same name took its directory. |
| `mound_restart_returns` | `MC_DirMound_RestartReturns.cfg` | violation | `RestartReturns`: every `load_testnet` returns a mound. Violated in 2 steps: an `issue_to_file` that `Mound::issue` rejects (here for the network) leaves a `.contract` directory without articles, and the next `load_testnet` panics in `Stockpile::load`. The spec (section 9) says contracts that cannot be loaded are dropped. |
| `mound_reissue` | `MC_Mound_HistoryNeverShrinks.cfg` | violation | Issuing again with the parameters of a contract in the mound replaces its stockpile, discarding the transfers applied since. |
| `genesis_assignments` | `MC_ContractBuilder.cfg` | pass | `AssignmentsPreserved`: whatever calls precede a successful `issue_contract`, the genesis holds every accepted assignment under its type, in call order. |
| `add_rights_layer` | `MC_ContractBuilder_LayerGating.cfg` | violation | `add_rights` accepts a Liquid seal without `add_layer1(Liquid)`. |
| `duplicate_input` | `MC_TransitionBuilder_CalcTracksInputs.cfg` | violation | `add_input` of the same opout twice registers its value twice with the calculator; the transition carries it once, so the change it computes is not funded. |
| `transition_cardinality` | `MC_TransitionBuilder_CompletedWithinSchema.cfg` | violation | `complete_transition` returns a transition with more values of a global than the schema allows. |

Bounds, and why they are enough:
* Two wallets and four seals (two per wallet) give every mix of explicit
  and token seals in a genesis of up to two assignments.
* Three operations give genesis, a transfer and a re-transfer by the
  receiver.
* Two files allow a consignment and a truncated copy of it, or two
  consignments consumed in either order.

Mound: two consensuses, two codices (one whose schema fails to load) and
one name give contracts of the mound, of another network, and without a
schema. With a history of up to 3 operations, an earlier contract can be
transferred before it is re-issued. Anchor lists of up to 2 let an unknown
contract follow a known one. `mound_env_gating` runs on `MC_DirMound`: one
consensus, two codices and two names (8 contract ids), histories and piles of
up to 2, one restart. That covers an issue into a new directory, one into
the directory of a persisted contract, a rejected issue, and an attest
followed by a restart. It reaches 64 789 distinct states in about 40 s.
`MC_Mound.cfg` (in memory, two consensuses) is kept for reference. Builders: each builder holds up to 3 or 4 values.
That is enough for two assignments of one type followed by completion, two
globals where the schema allows one, and a duplicated input followed by a
fulfilment and change. The TransitionBuilder's input bound is 2, where the
code's `TinyOrdMap` allows 255, so that `Confinement` is reached. The contract
and transition builder runs take no more than a few seconds each.

The Stockpile violation runs use four seals, two per wallet; each violation is
found within 7 steps. `stockpile_safety` uses three seals (two Alice's, one
Bob's) and one crash. It reaches 204 000 distinct states in about 2 minutes, mostly
spent checking the refinement. With three seals, a genesis can still mix
explicit and token seals, and Bob can re-transfer to Alice's second seal.
One crash keeps
the run within minutes. Each of the three cuts can follow any sequence of
normal steps. A second crash after the first is not checked.

The builder runs turn deadlock checking off (`CHECK_DEADLOCK FALSE`). A
builder consumed by its final call, by an error or by a panic can take no
further step, and the code does not continue from there. `stockpile_safety` turns it off as
well, because of crashes, and so does `mound_env_gating`: after a rejected
`issue_to_file` every `load_testnet` panics, and once the restarts are spent
the mound stays down; `mound_restart_returns` shows that panic. An issuer whose `keep` lacks the genesis can never consign, and once
the operation bound is reached with no file made, no step remains. Every
other run checks for deadlock.

No fairness is assumed. Every step is taken by a user or a wallet at will,
and the builders are driven by their caller. The one loop the code runs by
itself is `consume`'s read loop. Weak fairness on its steps would justify
"a started consume returns". However, the stream is finite and the loop
only moves forward, so the property holds by the loop's shape. A stepwise
reader also grew the crash instance from 177 000 to 9.7 million states.
The model therefore keeps `consume` as one step (or one cut step under a
crash), and no liveness property is claimed.

## 5. Not modelled, and why

* `src/bin/rgb.rs`: format conversion and printing, with no state.
* Byte-level encoding, magic bytes and version: modelled by what they
  decide. The data is abstract: values, schemata, scripts and the VM are
  left out. Verification is reduced to the seal-closure and ordering checks
  that the properties depend on.
* What `merge_articles` reconciles, and what `complete_update` finalises: both are
  in hypersonic, and the spec says only that a contradicting header is a
  `MergeError`. The header is reduced to agreeing or not.
* `select`, `consign` at the mound level, and the builders' read-only lookups: they change no state.
* `DirMound::consign_to_file`: it only creates a consignment file. The
  contents of the files are abstracted to what `DirMound` keeps of them.
