# A formal model of the Carmentis node

`carmentis-node` is the application side (ABCI, TypeScript) of a blockchain
whose consensus is CometBFT. Users submit *microblocks*, each of which extends
one *virtual blockchain* (an account, a validator node, an organisation, an
application ledger). CometBFT orders them in blocks; this program checks them,
executes them, moves tokens, stores the microblocks in data files and the
derived state in LevelDB, and answers queries.

This directory holds TLA+ modules translated from that code, TLC configurations
that check them on small instances, and theorems that TLAPS proves for every
value of the constants. Paths below are relative to `src/carmentis/abci/` of
the repository; `PROJECT.json` maps each definition to the lines it models.

## 1. Inventory

The process runs on one JavaScript thread. CometBFT calls it over four
connections (consensus, mempool, query, snapshots); handlers of different
connections interleave at every `await`. CometBFT waits for the answer of each
consensus call before the next one.

| Component | State it keeps | Operations | Correct when |
|---|---|---|---|
| `database/CachedLevelDb` | per table, the rows put and the keys deleted since the last commit | `putRaw`, `del`, `getRaw`, `getKeys`, `getFullTable`, `resetCache`, `commit` | it is a working copy, published all at once |
| `database/LevelDb`, `AbstractLevelDb` | the tables | typed accessors, the batch | a batch is all or nothing |
| `storage/Storage`, `CachedStorage` | append-only data files; buffers of bytes to append; microblocks by hash | `addMicroblockToBuffer`, `flush`, `clear`, `readMicroblock`, `purgeDataFileTable` | what is committed reads back, on every node the same |
| `storage/StorageCleaner` | none | `removeExpiredDataFiles` | it removes what expired and nothing else |
| `state/GlobalState` | a cached database, a cached storage, the accounts | `clearCaches`, `commit`, loading and storing | files before rows, one block at a time |
| `state/GlobalStateUpdater` | validator updates, statistics, fees | the effects of a block, of a microblock, of the end of a block | every node computes the same state; daily updates forget nothing |
| `accounts/*` | `ACCOUNT_STATE` (balance, locks), `ESCROWS`, two index tables | transfer, vesting, escrow, settlement, stake, unstake, slash | tokens are conserved, locks are covered and released on time |
| `accounts/FeesDispatcher` | none | `dispatch` | shares add up to the fees |
| `AbciService` | the shared global state | `Info`, `InitChain`, `CheckTx`, `PrepareProposal`, `ProcessProposal`, `FinalizeBlock`, `Commit`, `Query`, snapshot calls | what was accepted executes; the chain extends each virtual blockchain by one |
| `services/EarlyMicroblockRejectionService` | rejected hashes | mark, ask, clear every ten minutes | it only delays |
| `snapshots/*` | snapshot files, one creation in progress | `create`, `clear`, `getList`, `getChunk`, `loadReceivedChunk` | an imported node equals the exporting one at that height |
| `radixTree` | nodes in LevelDB, by their hash | `set`, `get` | same content, same nodes, in whatever order it was written |
| `persistentMerkleTree` | nodes in LevelDB, by row and column | `addLeaf`, `getProof`, `verifyProof` | the root is that of the tree built at once, at every size |
| `stateProof` | none | `createMicroblockProof`, `createAccountProof` | what is served verifies against the hashes of a block; what is stored can be proved |
| `challenge/*` | none | `processChallenge` | same committed bytes, same hash; no draw reads past them |
| validator set (`GlobalStateUpdater.buildValidatorSetUpdate`) | `VALIDATOR_SET`, `VALIDATOR_INDEX` | updates by difference, declarations of keys, misbehaviours | CometBFT has the powers that the tables say; a slashed node is the accused one |
| `accounts/AccountHistoryHandler`, `ModifiedAccounts` | `ACCOUNT_HISTORY`; the accounts touched by the block | `addHistoryEntry`, `getHistoryRange`, `store`, `clear` | an indexer misses no change |
| `ABCIQueryHandler` | none | queries | answers of one committed state, where a proof is promised |
| `Genesis*` | none | the first block, the vesting of a runoff | runs once |
| encoders, configuration, key management, gRPC controller | configuration | | |

How they interact: `CheckTx`, `PrepareProposal` and `ProcessProposal` each
create a `GlobalState` over the committed database and drop it at the end;
`FinalizeBlock` uses the one of the service, whose caches it clears first and
which `Commit` flushes. `CheckTx` only checks the microblock against its state
(virtual blockchain, timestamp, gas) and executes nothing; the other three run
`GlobalStateUpdater`, which calls the account handlers, which read and write the
cached tables. At the end of a block
the application hash is computed from two radix trees and a storage challenge
over the committed bytes. `Commit` appends to the data files, writes the
LevelDB batch, cleans up, and starts a snapshot without waiting for it.

What is hard about it:

* *failures half way*: no handler undoes what it wrote before an exception;
* *crashes*: a block reaches the disk in several files and then one batch;
* *staleness*: look-ups ignore deletions of the block, checks of `CheckTx` and
  of a proposal are made against other states than the execution;
* *order*: proposals are sorted by fees, daily updates of several days arrive
  at once, an escrow may end and its identifier be reused in one block;
* *boundaries*: rounding of the fees, limits of a block, the last day of a file;
* *interleaving*: a snapshot or a query runs between two steps of a block.

`PROJECT.json` lists these hazards one by one, each at its line, with the
properties that cover it or the reason why none does yet.

## 2. Modules

| Module | Models | State and actions |
|---|---|---|
| `Overlay` | the cache of one table, as operators | `ins`, `del`; one operator per method of `CachedLevelDb` |
| `KVStore` | *abstract specification*: a table with a working copy | `KVPut`, `KVDelete`, `KVPublish`, `KVDiscard` |
| `CachedDb` | `CachedLevelDb` on one table over LevelDB | `Put`, `Del`, `ResetCache`, `Commit`, `CommitLost` |
| `NodeStorage` | a block on its way to the disk; crashes and replay | `Decide`, `BeginBlock`, `ExecTx`, `EndBlock`, `FlushFile`, `FlushDone`, `WriteBatch`, `LoseBatch`, `CleanUp`, `Crash`, `CrashWhileWriting`, `Restart` |
| `Balance` | `BalanceAvailability` of the SDK (external) | operators on an account |
| `FeesDispatcher` | `FeesDispatcher.dispatch` | `Dispatch` |
| `Accounts` | the account handlers and the microblock sections | operators `ledger -> [ok, ledger]`; `ok` is FALSE when the handler throws, and the ledger is then what it had written |
| `LedgerState` | the types of ledgers and microblocks, and what a sound ledger is | operators; extended by `Ledger` and `Proposal` |
| `Ledger` | the blocks: daily updates, microblocks, fees, commit | `BeginBlock`, `UpdateEscrow`, `UpdateStakes`, `StartMicroblock`, `ExecNextSection`, `PayMicroblockFees`, `DispatchFees`, `PayValidator`, `Commit` |
| `Proposal` | mempool, proposals, rounds, blocks | `CheckTx`, `ClearRejected`, `PrepareProposal`, `ReceiveProposal`, `ProcessProposal`, `NextRound`, `FinalizeBlock`, `Commit` |
| `Snapshots` | state sync: a node that commits, creates, clears and serves snapshots, and one that imports | `CommitBlock`, `ReadList`, `RemoveJson`, `RemoveDbFile`, `RemoveChunksFile`, `StartCreation`, `DumpRow`, `RenameDump`, `WriteChunksFile`, `WriteJson`; `ReadJson`, `OpenChunks`, `CopyRecord`, `ChunkServed`; `OfferSnapshot`, `SaveDescription`, `ApplyChunk`, `WriteRecord`, `NextChunk`, `ClearDatabase`, `LoadBatch`; crashes of both |
| `Challenge` | the storage challenge on one data file | `Opens`, `Offsets`, `ReadPart`: operators on bytes and a committed size |
| `Hash` | what a hash is in the trees | the null hash, which is the hash of no value |
| `RadixTree` | `RadixTree.set`, `get`, on a cached table of nodes | `SetValue`, `Follow`, `CommitTree`; `TreeOf` is the reference |
| `MerkleTree` | `PersistentMerkleTree` | `AddLeaf`, `WitnessAt`, `Verifies`; `RootOver`, which merges the leaves row by row, is the reference |
| `Tables` | a table as the cache shows it | `Put` |
| `Validators` | voting powers and `buildValidatorSetUpdate`; what CometBFT does with updates | `VotingPower`, `ChangedNodes`, `UpdatedRows`, `ValidatorSetUpdates`; `AcceptsUpdates`, `UpdatedPowers` |
| `ChainState` | the chain that the application hash stands for, from genesis on | tables `db`, caches `work`; `InitChain`, `Decide`, `FinalizeBlock`, `Commit`, `RestartComet`, `RestartNode` |
| `StateProof` | queries for proofs, read by read, while blocks are committed | `AskMicroblock`, `AskAccount`, `ReadBlock`, `ReadMicroblock`, `ReadState`, `ReadLeaf`, `ReadMerkleRoot`, `ReadWitness`, `ReadAccount`, `ReadRadixRoot`, `ReadRadixNode`, `Answer` |
| `MC*` | instances for TLC | constants only |
| `FoldTheorems` | sums and folds, for the proofs | lemmas |
| `StorageProofs`, `AccountProofs`, `LedgerProofs`, `ProposalProofs`, `SnapshotsProofs`, `ChainStateProofs`, `StateProofProofs` | what is proved of the modules (section 4) | invariants and theorems |

`Overlay` is used by `CachedDb` (one table alone), by `NodeStorage` (the tables
`DATA_FILE` and `MICROBLOCK_STORAGE`) and, through `Balance` and `Accounts`, by
`Ledger` and `Proposal` (the table `ESCROWS`). `Ledger` and `Proposal` both extend `LedgerState` and run the
same handlers: `Ledger` one section at a time, with misbehaviours, over several
days and through any block, including blocks that no validator would accept;
`Proposal` a microblock at a time, but with every handler that leads to a block.
`ChainState` is the third view of a block: not the tokens but what is hashed and
what CometBFT is told. It is built from `RadixTree`, `MerkleTree` and
`Validators`, which are operators on tables, and `StateProof` adds the queries.
`NodeStorage` extends `Challenge`, whose hash `ChainState` takes as given.

Definitions whose name ends in an underscore and a word (`PutRaw_KeepsDeletion`)
are mutations: what the definition of that name would be with a plausible bug.
Nothing uses them; for each property of a passing run, replacing the definition
by its mutation makes TLC find the property violated.

### Abstractions

* Hashes, keys, signatures and encodings are model values; a byte of a data
  file is a pair of a microblock and an index.
* Times are days in `Accounts`, `Ledger` and `Proposal` (all locks are counted
  in days; `lead` is by how many days a microblock is ahead of its block), and
  small integers, `DayLength` to a day, in `NodeStorage`.
* Block heights start at 0 with the genesis block (1 in the code and in
  `ChainState`).
* A table that no code deletes from, or that is only ever listed with
  `getKeys()`, is kept as one working value without its cache: for those the
  theorem about the cache says that the two views agree.
* Balances are integers. Products above 2^53 would lose precision in
  JavaScript; the model does not have that loss.
* `FlushFile` writes the buffered files in any order, the code in the order of
  insertion: the model allows more.
* In `Ledger`, any microblock may be in a block, also those that
  `ProcessProposal` would have kept out: the model allows more, and failures of
  a section between any two others are reached.
* In the trees a hash stands for exactly one value, so the hash of a node is the
  node: two trees have the same root exactly if they have the same content and
  shape. Keys have few nibbles; the assumption of `ChainState` says what their
  length is for (no two leaves coincide, as none do with 32 bytes of hash).
* In `ChainState`, `FinalizeBlock` is one step: nothing there reads its caches
  before `Commit`. A virtual blockchain is a validator node or the account of
  the one organization that owns all nodes; a microblock has one section, and
  pays one unit of fees. Balances, checks of tokens and daily updates are in
  `Ledger`. An entry of the history is its height, what caused it and the link
  to the entry before; `GetHistoryRange` has no limit of entries
  (`AccountHistoryHandler.ts:67`, `ABCIQueryHandler.ts:180`), which makes an
  indexer ask several times for a long range. `DispatchFees` takes as voters the
  validators with a power, where the code goes through the votes of
  `decided_last_commit`, and pays each by one transfer; the division into shares
  and the skipping of one that is not a non-negative integer
  (`GlobalStateUpdater.ts:834-842`) are in `FeesDispatcher` and `Ledger`. The
  result of the storage challenge is its seed and the
  committed files; `NodeStorage` shows that it is a function of these.
* In `StateProof` a query is one at a time, over the committed database, and each
  awaited read is a step; every commit may come in between. Requests are for
  what the database has when the query starts.
* In `Proposal`, a handler is one step. The handlers work on states of their
  own, so nothing they write is visible half way; the periodic clearing of the
  rejections is not interleaved with the inside of `PrepareProposal`. Signatures
  and gas prices are left out, and so is the virtual blockchain of the protocol,
  with the early return of `updateGlobalStateOnMicroblock` for a second creation
  of it (`GlobalStateUpdater.ts:422-432`).

* In `Snapshots` a block is one unit in one data file and the rows that matter
  are the height and the file sizes; dumps and chunks are sequences of rows and
  units. Each awaited file operation is a step. A row has no size: the dump
  writes the lengths of its key and value in two bytes each
  (`SnapshotsManager.ts:335-338`, read back at 401-437), so a key or value above
  65,535 bytes would be dumped wrong, and `ImportFaithful` says nothing about
  such a row. Every batch of `LoadBatch` is written: `write()` catches its
  exception (`LevelDb.ts:236`) and the import does not look at the result
  (`SnapshotsManager.ts:410`), so a refused batch would go unnoticed there.
  `ImportFaithful` is about imports whose batches are written; for the node's
  own commits `NodeStorage` has the refused batch (`LoseBatch`). Chunks are fetched one after the
  other: CometBFT fetches several at a time, but applies them in order. It asks
  only for announced chunks, drops a snapshot that no peer delivers, and offers
  again after a crash; these are its external actions. Hashes are left out:
  CometBFT checks the application hash after the import.

## 3. Runs

| Run | Module, cfg | Question | Result |
|---|---|---|---|
| `CachedDb` | `MCCachedDb` | is the cache a working copy with an atomic publication? | holds; `ImplementsStore` is the refinement of `KVStore` |
| `NodeStorageFaults` | `MCNodeStorage`, `MCNodeStorageFaults.cfg` | what survives *any* crash, torn write and lost batch? | tables match the recorded blocks, files cover them, committed bytes stay |
| `NodeStorage` | `MCNodeStorage` | without a crash during the flush, is everything committed readable, identical on all nodes, and eventually there? | holds |
| `NodeStorageTorn` | `MCNodeStorageTorn.cfg` | and with a crash during the flush? | `CommittedReadable` fails |
| `NodeStorageExpired` | `MCNodeStorageExpired.cfg` | are expired files removed? | `ExpiredFilesRemoved` fails |
| `Ledger` | `MCLedger` | are tokens conserved, locks covered, indexed and released on time, fees dispatched, without an exception outside a microblock? | holds |
| `LedgerAgent` | `MCLedgerAgent.cfg` | can the agent of an escrow settle it? | `AgentCanSettle` fails |
| `Proposal` | `MCProposal` | does what was accepted execute, and does the chain extend each virtual blockchain by one? | holds |
| `StateProof` | `MCStateProof` | are the trees, hashes and voting powers those of the state, do proofs verify although blocks are committed while they are read, and does an indexer see every change? | holds |
| `ProposalOwn` | `MCProposalOwn.cfg` | does a node accept what it proposes? | `OwnProposalAccepted` fails |
| `Snapshots` | `MCSnapshots` | can what is listed be served, is what is imported the state at that height, and does the importing node get there? | holds |
| `SnapshotsExtra` | `MCSnapshotsExtra.cfg` | does a node keep at most `max_snapshots`? | `AtMostMaxSnapshots` fails |

### What the properties say

`CachedDb`. `CacheConsistent`: a key is never both put and deleted, so the order
of the batch does not matter. `KeysAndRowsAgree`: the loops over `getKeys()`
that look each key up see one table. `LookupDiffersOnlyOnDeleted`: `getRaw()`
ignores deletions, but that is all it gets wrong.

`NodeStorage`. `FilesCoverTables`: the two PANIC conditions about short files
cannot arise. `PlacesDisjoint`: no two microblocks share bytes.
`TablesMatchBlocks`: whatever was lost or replayed, the tables are those
obtained by executing the recorded blocks once, in order.
`CommittedBytesImmutable`: an action property on the part of a file that the
database accounts for. `CommittedReadable`: committed microblocks read back.
`StorageHashAgrees`: every part that a draw of the storage challenge may lead to
can be read, lies within the committed bytes, which are never 0, and is what a
node without crashes reads there. `NoBlockMissing`, `DecidedIsStored`: no gap,
and progress.

`Ledger`. `TokensConserved`: balances plus what slashing took are the supply;
a microblock that fails half way may lose tokens, never create them.
`SpendableNonNegative`: locks are always covered by the balance.
`EscrowRowsMatchLocks`: rows of `ESCROWS` and locks of accounts correspond.
`LocksAreIndexed`: the daily updates find every account they must visit.
`NothingOverdue`: after any number of days without a block, nothing is late.
`NoHandlerException`: the daily updates are never cut short and the payment of
the fees, which nothing catches, never throws. `FeesFullyDispatched`: an action
property on the sum of the shares.

`Proposal`. `AcceptedTxsSucceed`: `ProcessProposal` and `FinalizeBlock` agree.
`NothingLostOnChain`: hence no partial effect of a failed microblock is ever
committed, although nothing would undo it. `ChainExtendsVirtualBlockchains`:
neither gaps nor repetitions, whatever `CheckTx` let through and however the
proposals were ordered. `UndisturbedProposalAccepted`: a proposal is only ever
refused by others when something was rejected while preparing it.

`Snapshots`. `ListedComplete`: whatever is committed, cleared or killed while a
snapshot is created, a listed one has all its files, its dump is the database at
one height, and its chunks tile the dump and the committed bytes.
`AtMostOneExtra`: the race of `clear()` with a running creation costs one
snapshot, never two. `OffsetsMatch`: an import never meets a file that an
earlier one left at the wrong size. `ImportFaithful`: tables and committed bytes
of a completed import are those of the serving node at that height.
`NodeJoins`: a node that keeps being offered snapshots completes an import.

`StateProof`. `ProofsGenuine`: whatever was committed between its reads, a proof
that is served verifies on the client's side against the hashes of the block it
names. `UndisturbedProofServed`: the checks refuse nothing but proofs that a
commit disturbed; a microblock in the middle of its virtual blockchain and an
account that changes in every block are always provable. `RadixHoldsStates`: an
action property; after each commit the node tables of both radix trees are
exactly those of the tree of the stored states, no node missing and none left
over. `MerkleRootsRebuilt`: likewise for the root of the microblocks of each
virtual blockchain. `SameBlockSameHash`: a block delivered twice, to a process
that kept its caches or to a new one, hashes the same, and it is the hash that
`Info` reports. `VotingPowersCurrent`: although only differences are sent,
CometBFT has the powers of the rows, which are stake and approval before the
block. `MisbehaviourAttributed`: evidence against a former validator finds a
row, and the node that is slashed did declare that key. `HaltsExplained`: the
only ways in which the validator set stops the chain (see below).
`IndexerMissesNothing`: what a client that follows `BLOCK_MODIFIED_ACCOUNTS`
and asks for histories back to the last entry it knows gets to see.

### Disagreements between the code and its comments

1. A crash between the flush of a data file and the LevelDB batch leaves bytes
   in the file. On replay the block is appended behind them, but its rows are
   computed from the size in the database. If the left-over copy is complete
   and the same this is invisible; if it was torn, the microblock cannot be
   read ("Reads a full microblock from its hash") and the storage challenge of
   this node differs from that of the others.
2. The pattern of the cleaner has no `.bin`, so no file is ever removed
   ("Removes expired data files").
3. A settlement is authorised when it is written to the virtual blockchain of
   the payee and signed by the agent, and then refused unless the payee *is*
   the agent ("Processes the settlement of an escrow by the agent").
4. `PrepareProposal` keeps the partial effects of microblocks it skips, and may
   propose a block that is invalid without them ("containing only valid
   transactions"). The early rejections keep the skipped microblock out of the
   next proposals until they are cleared, so this wastes rounds, not safety.

5. `clear(max - 1)` does not see a creation in progress. If that creation ends
   between the reading of the list and the next `create()`, there are
   `max_snapshots + 1` snapshots ("Maximum number of snapshots preserved by the
   node", `example-config.toml`).

Further observations, each visible in the models but without a run of its own:

* A node that has, or had, a row in `VALIDATOR_SET` and declares another key
  leaves a row whose key no node has. The sanity check of
  `buildValidatorSetUpdate` ("there should never be a Comet record that does not
  exist in the ABCI records") then throws out of every following `FinalizeBlock`,
  on every node. `HaltsExplained` says that nothing else leads there.
* `validatorNodePublicKeyDeclarationCallback` compares a declared key with the
  rows of `VALIDATOR_SET` only, which appear at the next block. Two nodes can
  declare one key in one block; then the power of the key alternates between
  those of the two nodes, or CometBFT gets two updates for one key and refuses
  the block. Hence the exception for shared keys in two properties.
* The application hash that `InitChain` answers is computed again after the
  genesis block is committed, with another seed and other data files than the
  one that is stored for height 1; `Info` and proofs report the stored one. Both
  properties about it start at the second block. CometBFT compares the two only
  if it restarts before the second block.
* The genesis validator has no row until the first block after genesis, since
  `storeInitialValidatorSet` does nothing; evidence cannot come that early.
* Withdrawing the approval of the only validator gives CometBFT an empty
  validator set, which it refuses.
* The queries for account states and histories and for changes of a virtual
  blockchain go through the cached database of the global state, which
  `FinalizeBlock` writes to: their answers may be of a block in execution.
* `getRawBlockContent` pushes a list and then empties it in place, so that all
  parts of a split block are one list (`ABCIQueryHandler.ts:229`).

### Bounds, and why they are enough

* `MCCachedDb`: 3 keys, 2 values. The operators treat keys independently, and
  the theorems cover any number.
* `MCNodeStorage`: two microblocks that share an endless file and one in a file
  that expires; two blocks of up to two transactions; times up to the day after
  the expiry; two crashes (one in `Torn`, none in `Expired`). This gives two
  microblocks of one block in one file, of two blocks in one file, a repeated
  microblock, a write on the last day and one too late, a crash of the replay.
  `CrashPoints` is where the node may be killed: anywhere, or (run
  `NodeStorage`) anywhere but between the first write of a flush and the batch.
  `BatchMayFail` is FALSE in the runs about reading and completeness.
* `MCLedger`: three accounts, two nodes, one escrow identifier (so that it is
  reused), 13 microblocks of every kind, among them one that fails after its
  first section; 3 blocks, 4 microblocks, days 0 to 3. Four microblocks are
  enough for creating, ending and reusing a lock; days 0 to 3 for skipping the
  end of each kind of lock. `MCLedgerAgent`: an escrow with a third-party agent.
* `MCProposal`: five microblocks on three virtual blockchains with the
  conflicts that matter (the same position twice, the same escrow identifier,
  tokens that another microblock brings), a protocol limit of 2 and an operator
  limit of 3, 2 blocks, 2 days, proposals of others of up to 3 microblocks.

* `MCSnapshots`: three blocks in two data files, a snapshot at each, chunks of two
  units, batches of two rows, `max_snapshots` 1: files that start in one chunk and
  end in the next, files that end with a chunk, a file that only a later snapshot
  has, a clear that overlaps a creation, and three snapshots to go over the limit
  by two if it could. Two crashes: one of each node, or two of one. No crash in
  `MCSnapshotsExtra`. `max_snapshots = 0` is left out of the runs: the loop of
  `clear(-1)` never ends (it pops an empty list), which blocks the process.

* The storage challenge in `MCNodeStorage` reads parts of four bytes: the files
  hold from one byte to several microblocks, so that reads wrap around more than
  once, once or not at all.
* `MCStateProof`: three nodes, identifiers of four nibbles that share prefixes of
  none, one and two nibbles with each other and with the null key (both
  parities of depth for a split, a pushed-down leaf and an update); five block
  contents: none, a new validator with its stake and approval, two nodes that
  declare one key, new keys for two nodes, and a withdrawn approval with more
  stake; three blocks after genesis, one misbehaviour or restart, one query,
  for the second microblock of the organization's account or for the fees
  account. Merkle trees grow to five leaves, over two powers of two. One
  query is enough, as queries do not write.

`CHECK_DEADLOCK FALSE` appears in the runs where the bounds let the
behaviour end (no block left to decide, no microblock left).

### Fairness

`NodeStorage` and `Snapshots` have a liveness property. In `NodeStorage`, `FairSpec` is weak fairness of
`Node`, the disjunction of the steps of this process: a handler that has been
called runs to its end, since it awaits nothing but its own disk, and a node
that is down is started again (`README.md` of the repository runs it with
`restart: unless-stopped`). Nothing is assumed of the network: deciding blocks
and crashing are not fair, and crashes are bounded.

In `Snapshots`, `FairSpec` is weak fairness of the file operations of each
handler and of the background creation (a promise whose file operation completes
is continued) and of CometBFT's offering and fetching, which it repeats until
the node has a state. Blocks and crashes are not fair. `NodeJoins` is about
behaviours in which there is, again and again, something to import.

## 4. Proofs

Everything below is checked by TLAPS down to the last leaf, for every value of
the constants that satisfies the named assumptions of the modules (types and
signs of the constants, that no day lies after the end of an endless file, that
the accounts and nodes that the sections name exist, and that whoever has a power
in the genesis file is a node staked and approved by the genesis blocks), which
TLC evaluates on every run. Three theorems have one hypothesis more, stated below. Each invariant is proved
from an inductive one.

* `StorageProofs`, about `CachedDb`: `CacheIsConsistent`, `KeysAgreeWithRows`,
  `LookupsDifferOnlyOnDeleted`, and `CachedDbImplementsStore`, the refinement
  `Spec => ImplementsStore`. The inductive invariant is `CacheConsistent`
  itself: with it each action maps to the action of `KVStore` on the full
  table, a lost batch to a discard, and a reset of the cache to a discard or a
  stutter.
* `StorageProofs`, about `NodeStorage`:
  - `NodeStorageTypes`, `DataFilesCoverTables`, `CommittedBytesNeverChange`.
    `FilesCoverTables` alone is not inductive: to know that a file covers the
    *new* row when the batch is written one must know that the cached row of
    each file is exactly the expected size plus the bytes in its buffer while
    the block is executed, and at most the size of the file once it is flushed.
    `CoverInv` says this per file and per phase. That committed bytes do not
    change follows: the only writes are appends, and they start at or after the
    recorded size.
  - `PlacesNeverOverlap`. The invariant `PlacesInv` is about two pairs of
    tables: the committed ones, and `NewPlaces` and `NewSizes`, which the batch
    would leave if it were written now. In both the places of a file are
    disjoint and end within its recorded size, so a new microblock, placed at
    that size, overlaps none. It needs that purging is by whole files, and that
    the clock of the database never runs ahead of the block that is executed.
  - `NoBlockIsMissing`, with `~BatchMayFail`: a batch that LevelDB refuses does
    lose a block, as the run with faults shows.
  - `CommittedIsReadable`, with `NoCommitCutShort` (no crash between the first
    write of a flush and the batch; without it the property is false, as the run
    `NodeStorageTorn` shows). `BytesInv`: every place holds its microblock, in
    the files for the committed places and in files plus buffers for the new
    ones, and sizes are exact but while a flush is under way.
  - `TablesAreThoseOfTheBlocks` and `StorageHashesAgree` (the latter with
    `NoCommitCutShort`). What the tables should be is a fold over the
    transactions of the recorded blocks, `AcceptedLog`. `TablesInv` says that the
    committed tables match that log, and the working ones `LogSoFar`, the log with
    the transactions already executed; `FilesInv` that the bytes of each file are
    those of the log. A prefix of the log gives a prefix of the bytes, hence what
    the challenge reads is what a node without crashes reads
    (`ReadsLikeItsPrefix`).
* `FoldTheorems`: sums over functions, and folds over sequences. The library's
  induction theorems take an operator as parameter, which no backend
  instantiates; here induction is stated about families of sets and sets of
  numbers (`InductionOnSets`, `InductionOnNumbers`), which is first-order, and a
  fold is shown to be the one function that satisfies its equation.
* `AccountProofs`, about the handlers of `Accounts`, whoever calls them: what each
  operation of `Balance` does to the balance and to what is spendable of an
  account; what each handler may do to a `Secure` ledger (locks covered, rows of
  `ESCROWS` that match the locks) and to a `Good` one (well formed, so that
  `EXCEPT` means what it says, and indexed), whether it throws or not; and
  `SharesAddUp`: for any fees, stakes and height the shares add up to the fees
  exactly. Rounded shares never exceed the fees; the remainder is given out one
  by one, and counting it by receiver and by unit gives the same number.
* `LedgerProofs` carries these to blocks, one step per action of `Ledger`.
  `LocksStayIndexed` follows from `Good` alone. `LedgerTypes`,
  `TokensAreConserved`, `NobodyOwes`, `EscrowsMatch`, `NothingThrows`,
  `LocksEndInTime` and `FeesAreFullyDispatched` come from one invariant.
  `TokensInv` says that
  - (`Held`) in every ledger, between any two sections, locks are covered, rows
    of `ESCROWS` under the cache match the escrow locks, the lock indexes are
    complete, and balances plus what slashing took are at most the supply, and
    exactly the supply if no microblock failed half way;
  - (`Visiting`) while the daily updates go through the escrows, each identifier
    that is still to come has a row, and each lock that is due is still to come;
  - while the fees are paid, what is still due does not exceed the balance of
    the fees account.
  None of the listed invariants is inductive without the others: an escrow is
  released only if its row is found, the release throws unless the lock is
  covered, and the total is kept only if the release does not throw.
* `ProposalProofs`: `AcceptedBlocksExecute`, `ChainLosesNothing`,
  `VirtualBlockchainsGrow` and `UndisturbedProposalsPass`, from one invariant.
  The loops of the handlers are folds; each is first turned into a *run*, the
  values after 0, 1, ... elements (`IsRunOf`), so that two loops over the same
  microblocks can be compared one element after the other
  (`ExecutionsFollowChecks`, `TryIsTrying`). `Inv` then says, by phase,
  - that the committed ledger is safe (`Secure`, `Good`, no node to be slashed),
    has the supply of genesis, and the committed heights count the microblocks
    of the chain (`ChainSafe`);
  - that an accepted block, and a proposal of this node in which nothing was
    rejected, executes without failure *from the committed state as it is now*
    (`BlockFits`): nothing between the check and the execution changes that
    state, and CheckTx, PrepareProposal and ProcessProposal write to states of
    their own;
  - that what `FinalizeBlock` leaves is safe, has the supply and counts the chain
    with the block added (`WorkSafe`).
  `ChainLosesNothing` needs the first two: a failed microblock does lose tokens
  of the state it was executed in, so no failed microblock may be in a block that
  is committed; and that a successful one loses none needs the ledger to be safe.

* `SnapshotsProofs`, in three parts:
  - `ChunksTile`, about `createChunksFile()` alone: for any list of distinct files and any
    size of chunk, the records of each file tile it, in the order in which they
    will be applied. The two loops are recursive functions; their invariant
    (`Laid`: the files before the current one are tiled, the current one up to
    the offset, nothing else is there, and no chunk is over its limit) is carried
    along by induction on numbers, and `size + 1` turns are shown to be enough.
  - `OneExtraAtMost` and `ListedAreComplete`, about the serving node, from
    `ServerInv`. What is under a final name is right if it is there at all
    (`Stored`), the height of the creation in progress is not listed yet, the
    list that `clear()` goes through still contains every listed snapshot but
    the one that a creation has completed since, and the number of listed
    snapshots is counted against what is left to consider. The count needs the
    phase of the creation: an unseen snapshot costs one, and no other creation
    can start before the next reading of the list.
  - `OffsetsAgree` and `ImportIsFaithful`, about the exchange, from `ExchangeInv`:
    the saved description is that of the offered height from chunk 1 on, the
    payload of a chunk carries the units of its records that are left, and every
    file of the importing node holds its content up to the latest record applied
    to it (`SoFar`), whatever it held before. That it is *up to the latest
    record* needs the tiling, since only a record at offset 0 truncates. Blocks
    that are committed meanwhile only append, and a snapshot of a height that is
    removed cannot come back at the same height with other content, since its
    content is a function of the height (`Stored`, `Description`).
  `SnapshotTypes` follows from both. One assumption on the constants is added: the
  value for a missing file is none of the files.

* `ChainStateProofs`: `SameBlockGivesSameHash`, `PowersOfTheRows`,
  `AccusedAreFound`, `HaltsAreExplained`, `HistoriesAreComplete`,
  `RootsOfMicroblocks` and `RadixTreesOfTheStates`, from the invariant
  `ChainInv`, to which the last three add `Linked`, `HasTrees` and
  `HasRadixTrees`. They are theorems of `ChainSpec`, the chain without queries,
  which a chain with queries implements (`QueriesLeaveTheChain`, below).
  - The heart is `FinalizedInv`: what `FinalizeBlock` leaves is
    `Outcome(db, block, powers)`, a function of the committed tables, the decided
    block and the powers at CometBFT. That the caches of an earlier attempt, a
    restart of either process or a lost response leave nothing else behind is a
    matter of the order of the assignments, one lemma per action. The microblocks
    and the updates are folds: `BlockFollows`, `UpdatedRowsEffect` and
    `UpdatedPowersEffect` say what they leave in each table.
  - The validator updates are differences, so that powers at CometBFT and rows of
    `VALIDATOR_SET` agree after a block only if they agreed before it
    (`PowersInv`), nobody who has been a validator is without a row (`PastInv`;
    for the validators of the genesis file this takes `GenesisAssumption`: their
    rows come with the first block), and a row is not written under a
    declared key twice, unless two nodes share it.
  - `HaltsExplained` needs a record of who left a key: the row of a key that no
    node has is one of a node that declared another (`RekeyedInv`). That updates
    are refused only when keys are shared or no power is left needs `PowersInv`
    again: an update to 0 is for a key that CometBFT knows.
  - For histories and trees, a block is cut into elementary steps (`Leads`): an
    account is saved with or without an entry, a microblock is stored at the next
    height of its virtual blockchain, or rows are written. A commit leads from
    the committed tables to the new ones by such steps (`TablesChange`), so what
    each of them preserves holds after every block.
  - `HistoriesAreComplete`: `Linked` has for each account the list of the hashes
    of its entries by height, each entry linked to the one before and none in two
    lists. A step appends to one list or changes an account that it marks as
    touched; reading back from the new head to the old one gives the entries in
    between (`RangeOfChain`).
  - `RootsOfMicroblocks`: `IsTree` says which places of the table of a tree are
    filled. On every row these are the nodes above some leaf, each the hash of
    its two children, and one empty sibling next to the last of them if its
    column is even. `LeafAdded` shows that `addLeaf()` keeps this from n to n + 1
    leaves: the trailing zero bits of the index are the rows where the path of
    the new leaf starts a new node. `RootOfTree` then merges the leaves row by
    row, and each row is the row of the table.
  - `RadixTreesOfTheStates`: `TreeOf` states the tree of a content without
    mentioning how it was written: a *place* is a depth and the keys that share
    their nibbles so far, there is a node at the root and below each place that
    two keys share, and it is a leaf as soon as one key is left. `SetValueNodes`
    shows, for any content and key, that `PathTo` goes through exactly the places
    of that key, down to where no other key shares them, and that `write()`
    replaces exactly the nodes there. Since the table is keyed by hash, a node
    deleted on the path would take an equal node elsewhere with it; this needs
    that a node tells its place: an early leaf its trailing path and so, through
    the XORed nibble, its depth, and a value whose key it is (`Tells`). Values do,
    because a state tells whose it is: the last entry of the history of an
    account has its name, and the Merkle root of a virtual blockchain has its
    first microblock (`AccountsTell`, `VbsTell`); this is why `HasTrees` and the
    histories are part of the invariant. The rows that a block writes are then
    entered one by one, each key once (`EnteredDistinct`).

* `StateProofProofs`: `QueryProofsAreGenuine` and `StoredIsProvable`, from
  `QueryInv`, and `QueriesLeaveTheChain`. A query reads one row or node after the
  other, and any number of blocks may be committed between two reads; the
  invariant says what is nevertheless known of what it has read.
  - `Genuine` holds whatever is committed. A virtual blockchain only grows
    (`CommitGrows`), and its state is fixed by its height. So the state, the leaf
    and the witnesses that were read are those of the database, or else the state
    has a lower height than the one in the database (`MerkleRead`). The root of
    the radix tree is read last: the nodes from there on lie on the path of the key
    in the tree of the table *at that moment* (`OnTree`), whichever commits follow,
    since a node is its own content. If the value at the end of the path is the
    state that was read, then the state had not grown before the root was read,
    and the leaf, the witnesses and the state are of one tree. `TreeVerifies` and
    `ChainProves` say that a client then accepts them. This is why the code may
    read the parts one by one, and why the last comparison, of the value with the
    hash of the state, cannot be left out.
  - `Current` holds as long as nothing is committed: what was read is what the
    database has, its root is that of the last block's hashes (`HashesFit`), and
    every read and check to come finds what it looks for (`TreeHasPlaces`,
    `RowsHaveAPath`). Hence what is stored is refused a proof only if a block was
    committed meanwhile.
  Both rest on `RootsOfMicroblocks` and `RadixTreesOfTheStates`, or rather on the
  invariants behind them: that the two kinds of trees in the database are complete.

Two assumptions on the constants of `Proposal` say what the code has at that
point: the microblocks have the type that `Ledger` gives them, and the genesis
ledger is sound with no node to be slashed, as a block without misbehaviours has
it.

Only model-checked: `DecidedIsStored` and `NodeJoins`, since liveness under
fairness and `ENABLED` are out of the prover's reach. Every other property of a
passing run is a theorem.

## 5. Not modelled

Encodings, cryptography, configuration, logging, the gRPC layer, the contents of
a genesis runoff, the protocol virtual blockchain and its upgrades, and CometBFT
itself beyond the order of its calls and its rules for validator updates. Of the
queries, those that read one or a few rows; of `InitChain`, the node that fetches
the genesis snapshot from a peer. Of the snapshots: the import of the genesis
snapshot (the same `loadReceivedChunk`, on a node just cleared); the limit that
stored snapshots put on the cleaner, which today removes no file; files left by
a creation that was killed, which are never removed; and what happens after an
import to a data file that only an interrupted import wrote (the next block
appends behind the left-over bytes, as after a torn flush).

About three quarters of the lines of the repository are generated from protocol
buffers (`src/proto`): encoders and decoders, field by field, without state of
their own. Modelling them would say nothing about the node. Of the roughly
10,600 lines of handwritten TypeScript without tests, the modules cover about
two fifths; the rest is wiring, logging, types, encodings and the accessors of
single rows.

## 6. Plan

Done: storage, cache, ledger, proposals, snapshots, the state trees with their
proofs, the validator set, the challenge and the history of accounts, and the
theorems above.

What is left are the parts that section 5 names as not modelled, above all the
import of the genesis snapshot and the accessors of the other queries.
