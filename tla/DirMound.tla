------------------------------- MODULE DirMound -------------------------------
(***************************************************************************)
(* A mound kept in a directory, and the process holding it restarting     *)
(* (src/mound.rs, module file: DirExcavator and DirMound).                 *)
(*                                                                         *)
(* The directory of the mound is its consensus_dir: the top directory      *)
(* itself with no_prefix, else a sub-directory named after the consensus   *)
(* and network.  In it every contract has a sub-directory <name>.contract  *)
(* holding the files of its supply and pile.  The files are abstracted to  *)
(* the contract id the supply's articles name and the history and witness  *)
(* counts the supply and pile hold; hist = 0 is a supply without articles. *)
(* Every write of a stockpile is appended to its files at once, so a       *)
(* process that stops between two calls restarts from what the mound held, *)
(* through DirMound::load_testnet.                                         *)
(***************************************************************************)
EXTENDS Mound

CONSTANTS
  NoPrefix,      \* DirExcavator::no_prefix: networks share one directory
  MaxRestarts    \* bound on restarts in one behaviour

\* The persisted contracts whose directories lie in the mound's own.
InHome(p) == NoPrefix \/ (p.consensus = MoundConsensus /\ p.testnet = MoundTestnet)
HomePersisted == {p \in Persisted : InHome(p)}

ASSUME NoPrefix \in BOOLEAN /\ MaxRestarts \in Nat
ASSUME \A p, q \in HomePersisted : p.name = q.name => p = q

VARIABLES
  disk,      \* disk[n]: the files of directory <n>.contract in consensus_dir
  up,        \* the last load_testnet returned (the process is running)
  restarts   \* restarts so far

dvars == <<vars, disk, up, restarts>>

InitDisk == [n \in {p.name : p \in HomePersisted} |->
               [id |-> CHOOSE p \in HomePersisted : p.name = n, hist |-> 1, wits |-> 0]]

(***************************************************************************)
(* DirExcavator::contracts: Stockpile::load of every .contract directory,  *)
(* which reads the articles of its supply (a supply without articles       *)
(* cannot be loaded), and only those of the mound's consensus and network *)
(* kept.  load_testnet always builds the excavator for testnet.            *)
(***************************************************************************)
LoadPanics(d) == \E n \in DOMAIN d : d[n].hist = 0

\* Mutant of Load: Stockpile::load reopens the supply with a new, empty pile.
LoadFreshPile(d) ==
  LET ids == {d[n].id : n \in DOMAIN d}
  IN [id \in {i \in ids : i.consensus = MoundConsensus /\ i.testnet = MoundTestnet} |->
        [hist |-> d[id.name].hist, wits |-> 0]]

Load(d) ==
  LET ids == {d[n].id : n \in DOMAIN d}
  IN [id \in {i \in ids : i.consensus = MoundConsensus /\ i.testnet = MoundTestnet} |->
        [hist |-> d[id.name].hist, wits |-> d[id.name].wits]]

\* The files of every stockpile follow what it holds in memory.
Persist(d, c) ==
  [n \in DOMAIN d |-> IF d[n].id \in DOMAIN c
                      THEN [d[n] EXCEPT !.hist = c[d[n].id].hist,
                                        !.wits = c[d[n].id].wits]
                      ELSE d[n]]

DInit ==
  /\ disk = InitDisk
  /\ schemata = Excavated
  /\ contracts = Load(InitDisk)
  /\ result = "none"
  /\ up = TRUE
  /\ restarts = 0

(***************************************************************************)
(* DirMound::issue_to_file: FileSupply::new and FilePile::new create the  *)
(* directory of the contract's name before Mound::issue checks consensus, *)
(* network and codex; only an accepted issue writes the articles.  Over an *)
(* existing directory the two constructors (of dependencies) either refuse *)
(* with a panic or create the files anew.                                  *)
(***************************************************************************)
IssueToFile(p) ==
  /\ up
  /\ \/ /\ p.name \in DOMAIN disk
        /\ result' = "panic"
        /\ UNCHANGED <<schemata, contracts, disk>>
     \/ /\ Issue(p)
        /\ disk' = Insert(disk, p.name,
                          [id |-> p, hist |-> IF result' = "ok" THEN 1 ELSE 0, wits |-> 0])
  /\ UNCHANGED <<up, restarts>>

(***************************************************************************)
(* The calls of module Mound that change a stockpile, its files following. *)
(***************************************************************************)
Durably(A) ==
  /\ up
  /\ A
  /\ disk' = Persist(disk, contracts')
  /\ UNCHANGED <<up, restarts>>

(***************************************************************************)
(* The process stops and DirMound::load_testnet opens the directory again: *)
(* the schemata of the .issuer files and the contracts Load finds; one     *)
(* directory without articles makes Stockpile::load, and the process,     *)
(* panic.                                                                  *)
(***************************************************************************)
Restart ==
  /\ restarts < MaxRestarts
  /\ restarts' = restarts + 1
  /\ IF LoadPanics(disk)
     THEN /\ up' = FALSE
          /\ schemata' = {}
          /\ contracts' = [id \in {} |-> id]
          /\ result' = "panic"
     ELSE /\ up' = TRUE
          /\ schemata' = Excavated
          /\ contracts' = Load(disk)
          /\ result' = "none"
  /\ UNCHANGED disk

DNext ==
  \/ \E p \in ContractIds : IssueToFile(p)
  \/ Durably(\E id \in DOMAIN contracts : ApplyOperation(id))
  \/ Durably(\E anchors \in BoundedSeq(ContractIds, MaxAnchors) : Attest(anchors))
  \/ Durably(\E magicOk \in BOOLEAN, id \in ContractIds : Consume(magicOk, id))
  \/ Restart

DSpec == DInit /\ [][DNext]_dvars

(***************************************************************************)
(* Properties.                                                             *)
(***************************************************************************)
\* A restart brings back every contract the mound held, with its history
\* and its witnesses, unless a later issue_to_file of the same name took its
\* directory: issue, apply, attest and consume all reach the files, and the
\* excavator finds and reloads them.
RestartRestores ==
  [][Restart /\ up' =>
       \A id \in DOMAIN contracts :
         disk[id.name].id = id =>
           id \in DOMAIN contracts' /\ contracts'[id] = contracts[id]]_dvars

\* Every load_testnet returns a mound: the specification (section 9, "Mound
\* without persistence") says contracts that cannot be loaded are silently
\* dropped by the eager drain of the excavator, while DirExcavator::contracts
\* calls Stockpile::load, which has no error path, on every .contract
\* directory, including one a rejected issue_to_file left without articles.
RestartReturns == [][Restart => up']_dvars

=============================================================================
