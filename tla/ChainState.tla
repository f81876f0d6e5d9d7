----------------------------- MODULE ChainState -----------------------------
(***************************************************************************)
(* The state of the chain that the application hash stands for: virtual    *)
(* blockchains, accounts, the two radix trees, the Merkle trees of the     *)
(* microblocks and the validator set, from the genesis block through       *)
(* FinalizeBlock and Commit, and what CometBFT is told.                    *)
(*                                                                         *)
(* FinalizeBlock is one step: what it writes before Commit is in the       *)
(* caches, which nothing else reads here.  A virtual blockchain is a       *)
(* validator node or the account of the organization; a microblock has one *)
(* section and extends its virtual blockchain at the height it is at.      *)
(* Balances other than the fees to dispatch, and daily updates, are left   *)
(* to Ledger.                                                              *)
(***************************************************************************)
EXTENDS Tables, RadixTree, MerkleTree, Validators

CONSTANTS
  Nodes,         \* the identifiers of validator nodes
  FeesAccount,   \* the special account ACCOUNT_BLOCK_FEES
  IdOf,          \* the nibbles of the identifier of each virtual blockchain and account
  GenesisTxs,    \* the transactions of the genesis runoff
  GenesisPowers, \* the validator set of CometBFT's genesis file
  Blocks,        \* bound: the sequences of transactions that may be decided
  MaxHeight,     \* bound: the last block
  MaxFaults      \* bound: misbehaviours and restarts, of CometBFT or of the node

VARIABLES
  db,        \* the committed tables
  work,      \* the same tables as the caches of the global state show them
  phase,     \* "init", "idle", "decided", "finalized" (a block awaits Commit) or "halted"
  status,    \* why the chain halted, "running" if it did not
  block,     \* the block decided last: its transactions and the keys it accuses
  response,  \* the answer to FinalizeBlock
  comet,     \* what CometBFT holds: powers, past validators, the last application hash
  faults,    \* number of misbehaviours and restarts so far
  \* observers
  answers,   \* the application hashes returned for the block
  accused,   \* the keys accused so far
  rekeyed    \* the keys that a node left for another after they had a row

chainVars == <<db, work, phase, status, block, response, comet, faults,
               answers, accused, rekeyed>>

Accounts == {Owner, FeesAccount}
VirtualBlockchains == Nodes \cup {Owner}

\* Identifiers are hashes, or special ones: they differ before the last nibble, and the
\* leaves of two of them are never the same node.
ASSUME ChainStateAssumption ==
  /\ Nodes \subseteq Nat /\ IsFiniteSet(Nodes)
  /\ Owner \notin Nodes /\ FeesAccount \notin VirtualBlockchains
  /\ IdOf \in [Nodes \cup Accounts -> [1..KeyLength -> 0..15]]
  /\ \A x, y \in DOMAIN IdOf : x # y =>
       /\ Front(IdOf[x]) # Front(IdOf[y])
       /\ \A d \in 0..KeyLength - 1 : Trailing(d, IdOf[x]) # Trailing(d, IdOf[y])
  /\ \A x \in DOMAIN IdOf : /\ Front(IdOf[x]) # Front(NullKey)
                            /\ \A d \in 0..KeyLength - 1 :
                                 Trailing(d, IdOf[x]) # Trailing(d, NullKey)
  /\ MaxHeight \in Nat /\ MaxFaults \in Nat

NoKey == 0
EmptyTables ==
  [height |-> 0, hashes |-> <<>>, microblocks |-> <<>>, vbs |-> <<>>, merkle |-> <<>>,
   vbRadix |-> EmptyTree, tokenRadix |-> EmptyTree, accounts |-> <<>>, history |-> <<>>,
   touched |-> {}, modified |-> <<>>, index |-> {}, rows |-> <<>>]

\* The tables as committed, and no account modified.
OpenState(d) == [d EXCEPT !.vbRadix = OpenTree(@), !.tokenRadix = OpenTree(@), !.touched = {}]

\* Nothing in the caches.
NoCaches == <<>>

\* Mutation: FinalizeBlock goes on with the caches of an earlier attempt.
ClearCaches_Kept(d, w) == IF w = NoCaches THEN OpenState(d) ELSE w

\* clearCaches()
ClearCaches(d, w) == OpenState(d)

\* commit()
CommitState(d, w) == [w EXCEPT !.vbRadix = CommitTree(d.vbRadix, @),
                               !.tokenRadix = CommitTree(d.tokenRadix, @),
                               !.touched = {}]

------------------------------------------------------------------------------
(* Accounts *)

NewAccount == [height |-> 0, last |-> NullHash, fees |-> 0, stake |-> [n \in Nodes |-> 0], slashed |-> {}]

\* loadAccountInformation()
AccountState(w, x) == IF x \in DOMAIN w.accounts THEN w.accounts[x] ELSE NewAccount

SaveAccountState(w, x, a) ==
  [w EXCEPT !.accounts = Put(@, x, a), !.tokenRadix = SetValue(@, IdOf[x], a),
            !.touched = @ \cup {x}]

\* addHistoryEntry() has the hash of an entry in the name of its account; height and
\* reference tell the entries of an account apart.
HistoryHash(x, entry) == [account |-> x, height |-> entry.height, reference |-> entry.reference]

\* Mutation: the entry is linked to itself, as if the account were saved first.
HistoryEntry_Saved(x, a, reference) ==
  [height |-> a.height, reference |-> reference,
   previous |-> [account |-> x, height |-> a.height, reference |-> reference]]

\* The entry, when the height of the account has been increased.
HistoryEntry(x, a, reference) ==
  [height |-> a.height, reference |-> reference, previous |-> a.last]

WithEntry(w, x, a, entry) ==
  SaveAccountState([w EXCEPT !.history = Put(@, HistoryHash(x, entry), entry)],
                   x, [a EXCEPT !.last = HistoryHash(x, entry)])

\* update(): one side of a transfer, which leaves these fees on the account.
Update(w, x, fees, reference) ==
  LET a == [AccountState(w, x) EXCEPT !.height = @ + 1, !.fees = fees] IN
    WithEntry(w, x, a, HistoryEntry(x, a, reference))

\* The transfer of the fees of a microblock, one unit, to the fees account.
PayFees(w, mb) ==
  Update(Update(w, Owner, 0, mb), FeesAccount, AccountState(w, FeesAccount).fees + 1, mb)

\* dispatchFeesAmongValidators(): one transfer for each voter that has a row; the shares
\* add up to the fees (FeesDispatcher), so that nothing is left after the last one.
DispatchFees(w, voters) ==
  IF AccountState(w, FeesAccount).fees = 0 THEN w
  ELSE FoldSet(LAMBDA key, s : Update(Update(s, FeesAccount, 0, w.height), Owner, 0, w.height),
               w, voters \cap DOMAIN w.rows)

\* Mutation: the slashed node is the last one of the index.
SlashedNode_Last(w, key) == CHOOSE n \in w.index : \A m \in w.index : m <= n

\* The node behind a CometBFT address.
SlashedNode(w, key) == w.rows[key].node

\* setSlashing(), whose exception is caught if there is no stake.
SetSlashing(w, node) ==
  IF AccountState(w, Owner).stake[node] = 0 THEN w
  ELSE SaveAccountState(w, Owner, [AccountState(w, Owner) EXCEPT !.slashed = @ \cup {node}])

------------------------------------------------------------------------------
(* Microblocks: a transaction is a record [vb, kind] with the parameters of its kind *)

Create(vb, key) == [vb |-> vb, kind |-> "create", key |-> key]
Declare(node, key) == [vb |-> node, kind |-> "declare", key |-> key]
Approve(node) == [vb |-> node, kind |-> "approval", status |-> TRUE]
Revoke(node) == [vb |-> node, kind |-> "approval", status |-> FALSE]
Stake(node, amount) == [vb |-> Owner, kind |-> "stake", node |-> node, amount |-> amount]

\* The sections that the organization and its nodes may have.
IsTransaction(tx) ==
  \/ tx.kind = "create" /\ tx.vb \in VirtualBlockchains
  \/ tx.kind = "declare" /\ tx.vb \in Nodes
  \/ tx.kind = "approval" /\ tx.vb \in Nodes
  \/ tx.kind = "stake" /\ tx.vb = Owner /\ tx.node \in Nodes /\ tx.amount \in Nat

ASSUME BlocksAssumption ==
  \A txs \in Blocks \cup {GenesisTxs} :
    txs \in Seq({txs[i] : i \in DOMAIN txs}) /\ \A i \in DOMAIN txs : IsTransaction(txs[i])

ASSUME PowersAssumption == \A key \in DOMAIN GenesisPowers : GenesisPowers[key] \in Nat

\* A key may not be declared while VALIDATOR_SET has a row for it.
IsRefused(w, tx) ==
  \/ tx.kind = "create" /\ tx.vb \in DOMAIN w.vbs
  \/ tx.kind # "create" /\ tx.vb \notin DOMAIN w.vbs
  \/ tx.kind \in {"create", "declare"} /\ tx.key \in DOMAIN w.rows

\* What the sections do to the state of the virtual blockchain; a declaration is part of
\* the first microblock of a node.
SectionsApplied(w, tx) ==
  LET old == IF tx.vb \in DOMAIN w.vbs THEN w.vbs[tx.vb]
             ELSE [height |-> 0, root |-> NullHash, key |-> NoKey, approved |-> FALSE]
  IN  [old EXCEPT !.height = @ + 1,
                  !.key = IF tx.kind \in {"create", "declare"} THEN tx.key ELSE @,
                  !.approved = IF tx.kind = "approval" THEN tx.status ELSE @]

\* The effect of a section on an account: the account gets its first tokens, or stakes.
AccountUpdated(w, tx, mb) ==
  CASE tx.kind = "create" /\ tx.vb = Owner -> Update(w, Owner, 0, mb)
    [] tx.kind = "stake" -> SaveAccountState(w, Owner,
         [AccountState(w, Owner) EXCEPT !.stake[tx.node] = @ + tx.amount])
    [] OTHER -> w

MerkleOf(w, vb) == IF vb \in DOMAIN w.merkle THEN w.merkle[vb] ELSE <<>>

\* storeMicroblockHashInMerkleTree()
StoreHash(w, vb, state, mb) ==
  [w EXCEPT !.merkle = Put(@, vb, AddLeaf(MerkleOf(w, vb), state.height - 1, mb))]

\* storeVirtualBlockchainState()
StoreState(w, vb, state) ==
  [w EXCEPT !.vbs = Put(@, vb, state), !.vbRadix = SetValue(@, IdOf[vb], state)]

StoreMicroblock(w, vb, height, mb) ==
  [w EXCEPT !.microblocks = Put(@, mb, [vb |-> vb, height |-> height]),
            !.index = IF height = 1 /\ vb \in Nodes THEN @ \cup {vb} ELSE @]

\* The three of them, the root of the new Merkle tree being part of the state.
StoredWith(w, tx, state, mb) ==
  LET hashed == StoreHash(w, tx.vb, state, mb)
      rooted == [state EXCEPT !.root = RootOf(hashed.merkle[tx.vb], state.height)]
  IN  StoreMicroblock(StoreState(hashed, tx.vb, rooted), tx.vb, state.height, mb)

\* A microblock is known by its place in its virtual blockchain and by its contents.
Microblock(tx, state) == [vb |-> tx.vb, height |-> state.height, tx |-> tx]

\* updateGlobalStateOnMicroblockDuringGenesis()
ExecGenesisTx(w, tx) ==
  LET state == SectionsApplied(w, tx)
      mb == Microblock(tx, state) IN
    IF IsRefused(w, tx) THEN w ELSE StoredWith(AccountUpdated(w, tx, mb), tx, state, mb)

\* updateGlobalStateOnMicroblock(): a refused transaction has no effect.
ExecTx(w, tx) ==
  LET state == SectionsApplied(w, tx)
      mb == Microblock(tx, state) IN
    IF IsRefused(w, tx) THEN w
    ELSE StoredWith(PayFees(AccountUpdated(w, tx, mb), mb), tx, state, mb)

------------------------------------------------------------------------------
(* The application hash *)

\* processChallenge(): the height of the committed block stands for the seed, which is its
\* radix hash, and the number of its microblocks for the committed files.
StorageHash(d) ==
  IF d.microblocks = <<>> THEN NullHash
  ELSE [seed |-> d.height, files |-> Cardinality(DOMAIN d.microblocks)]

AppHash(vbRadix, tokenRadix, storage) ==
  [radix |-> [vb |-> vbRadix, token |-> tokenRadix], storage |-> storage]

\* getApplicationStateHashes(): the roots are those of the working state, the seed and the
\* files those of the committed one.
ApplicationStateHashes(d, w) ==
  [vbRadix |-> w.vbRadix.root, tokenRadix |-> w.tokenRadix.root, storage |-> StorageHash(d),
   app |-> AppHash(w.vbRadix.root, w.tokenRadix.root, StorageHash(d))]

\* finalizeBlockApproval(), after the fees.
EndOfBlock(d, w, height) ==
  [w EXCEPT !.height = height, !.hashes = Put(@, height, ApplicationStateHashes(d, w)),
            !.modified = Put(@, height, w.touched)]

------------------------------------------------------------------------------
(* Genesis *)

\* publishInitialBlockchainState(): the genesis block is committed, then the hash that
\* CometBFT is told is computed once more.
GenesisTables ==
  CommitState(EmptyTables,
    EndOfBlock(EmptyTables, FoldLeft(ExecGenesisTx, OpenState(EmptyTables), GenesisTxs), 1))

\* The genesis file of CometBFT names keys of nodes that the runoff approves and stakes.
ASSUME GenesisAssumption ==
  \A key \in DOMAIN GenesisPowers :
    \E n \in GenesisTables.index :
      KeyOf(GenesisTables, n) = key /\ VotingPower(GenesisTables, n) # 0

NoBlock == [txs |-> <<>>, accuses |-> {}]
NoResponse == [updates |-> <<>>, app |-> NullHash]

ChainInit ==
  /\ db = EmptyTables /\ work = NoCaches
  /\ phase = "init" /\ status = "running"
  /\ block = NoBlock
  /\ response = NoResponse
  /\ comet = [powers |-> GenesisPowers, past |-> {}, app |-> NullHash]
  /\ faults = 0 /\ answers = {} /\ accused = {} /\ rekeyed = {}

InitChain ==
  /\ phase = "init"
  /\ db' = GenesisTables
  /\ work' = NoCaches
  /\ comet' = [comet EXCEPT !.app =
                 ApplicationStateHashes(GenesisTables, OpenState(GenesisTables)).app]
  /\ phase' = "idle"
  /\ UNCHANGED <<status, block, response, faults, answers, accused, rekeyed>>

------------------------------------------------------------------------------
(* Blocks *)

\* CometBFT decides a block, maybe with evidence against a validator of an earlier one.
Decide ==
  /\ phase = "idle"
  /\ db.height < MaxHeight
  /\ \E txs \in Blocks, accuses \in {{}} \cup {{k} : k \in comet.past} :
       /\ faults + Cardinality(accuses) <= MaxFaults
       /\ faults' = faults + Cardinality(accuses)
       /\ block' = [txs |-> txs, accuses |-> accuses]
       /\ accused' = accused \cup accuses
  /\ phase' = "decided"
  /\ UNCHANGED <<db, work, status, response, comet, answers, rekeyed>>

\* The misbehaviours of updateGlobalStateOnBlock().
Misbehaviours(w, accuses) ==
  FoldSet(LAMBDA key, s : SetSlashing(s, SlashedNode(w, key)), w, accuses)

\* The keys with a row that a node leaves for another between two states.
LeftKeys(v, w) ==
  {KeyOf(v, n) : n \in {n \in v.index : KeyOf(v, n) \in DOMAIN w.rows /\ KeyOf(w, n) # KeyOf(v, n)}}

\* An exception of updateGlobalStateOnBlock(), which nothing catches.
Halt(reason) ==
  /\ phase' = "halted" /\ status' = reason
  /\ UNCHANGED <<db, work, response, answers, rekeyed>>

\* FinalizeBlock from where the misbehaviours leave the state.
ExecBlock(w) ==
  \E started \in {[w EXCEPT !.rows = UpdatedRows(w)]} :
  \E paid \in {DispatchFees(FoldLeft(ExecTx, started, block.txs), DOMAIN comet.powers)} :
  \E ended \in {EndOfBlock(db, paid, db.height + 1)} :
    /\ work' = ended
    /\ response' = [updates |-> ValidatorSetUpdates(w), app |-> ended.hashes[ended.height].app]
    /\ answers' = answers \cup {ended.hashes[ended.height].app}
    /\ rekeyed' = rekeyed \cup LeftKeys(w, ended)
    /\ phase' = "finalized"
    /\ UNCHANGED <<db, status>>

FinalizeBlock ==
  /\ phase = "decided"
  /\ \E start \in {ClearCaches(db, work)} :
       IF db.height + 1 \in DOMAIN start.hashes THEN Halt("duplicate block")
       ELSE IF ~(block.accuses \subseteq DOMAIN start.rows) THEN Halt("unknown validator")
       ELSE \E w \in {Misbehaviours(start, block.accuses)} :
              IF HasUnreferencedRow(w) THEN Halt("unreferenced row") ELSE ExecBlock(w)
  /\ UNCHANGED <<block, comet, faults, accused>>

\* CometBFT takes the updates, then calls Commit.
Commit ==
  /\ phase = "finalized"
  /\ IF AcceptsUpdates(comet.powers, response.updates)
     THEN \E d \in {CommitState(db, work)} :
            /\ db' = d
            /\ work' = NoCaches
            /\ comet' = [powers |-> UpdatedPowers(comet.powers, response.updates),
                         past |-> comet.past \cup DOMAIN comet.powers,
                         app |-> response.app]
            /\ phase' = "idle"
            /\ answers' = {}
            /\ UNCHANGED status
     ELSE /\ phase' = "halted" /\ status' = "refused updates"
          /\ UNCHANGED <<db, work, comet, answers>>
  /\ block' = NoBlock /\ response' = NoResponse
  /\ UNCHANGED <<faults, accused, rekeyed>>

\* CometBFT restarts before Commit and will deliver the same block again.
Restart ==
  /\ phase = "finalized"
  /\ faults < MaxFaults
  /\ phase' = "decided"
  /\ faults' = faults + 1
  /\ UNCHANGED <<db, status, block, response, comet, answers, accused, rekeyed>>

\* The process of the node keeps its caches, or restarts as well.
RestartComet == Restart /\ UNCHANGED work
RestartNode == Restart /\ work' = NoCaches

ChainNext ==
  \/ InitChain \/ Decide \/ FinalizeBlock \/ Commit
  \/ RestartComet \/ RestartNode

ChainSpec == ChainInit /\ [][ChainNext]_chainVars

------------------------------------------------------------------------------
(* Properties *)

\* The tables of the two radix trees of a state are those of a tree built at once.
HoldsStates(d) ==
  /\ d.vbRadix = TreeOf([id \in {IdOf[vb] : vb \in DOMAIN d.vbs} |->
                            d.vbs[CHOOSE vb \in DOMAIN d.vbs : IdOf[vb] = id]])
  /\ d.tokenRadix = TreeOf([id \in {IdOf[x] : x \in DOMAIN d.accounts} |->
                              d.accounts[CHOOSE x \in DOMAIN d.accounts : IdOf[x] = id]])

\* RadixTree.write() splits, pushes down, deletes and rewrites nodes one by one through
\* the cache; after every commit the tables VB_RADIX and TOKEN_RADIX hold the states of
\* the virtual blockchains and accounts, in the shape that depends on these only and not
\* on the order of the writes, with no missing and no left-over node.
RadixHoldsStates == [][HoldsStates(db')]_db

\* The microblocks of a virtual blockchain, by height.
MicroblocksOf(d, vb) ==
  [h \in 1..d.vbs[vb].height |->
     CHOOSE mb \in DOMAIN d.microblocks : d.microblocks[mb] = [vb |-> vb, height |-> h]]

\* The root that PersistentMerkleTree.addLeaf() maintains, with empty siblings created
\* ahead of time, is at every size that of the balanced tree over all microblocks that
\* the virtual blockchain has in MICROBLOCK_VB_INFO, and it is the root in its state.
MerkleRootsRebuilt ==
  [][\A vb \in DOMAIN db'.vbs : db'.vbs[vb].root = RootOver(MicroblocksOf(db', vb))]_db

\* The entry before those of a list, unless it is the one that is known.
WithPrevious(history, from, to, list) ==
  LET hash == IF list = <<>> THEN from ELSE Last(list).previous IN
    IF hash \in {NullHash, to} \/ hash \notin DOMAIN history THEN list
    ELSE Append(list, history[hash])

\* getHistoryRange(): from an entry back to the one that is known.
GetHistoryRange(history, from, to) ==
  FoldLeft(LAMBDA list, i : WithPrevious(history, from, to, list), <<>>,
           [i \in 1..Cardinality(DOMAIN history) |-> i])

\* An indexer that asks after every block for the accounts of BLOCK_MODIFIED_ACCOUNTS,
\* and for their histories back to the entries it knows (getAccountUpdates), misses
\* nothing: no other account has changed, and the entries are those of all heights since.
IndexerMissesNothing ==
  [][\A x \in DOMAIN db'.accounts :
       LET old == AccountState(db, x)
           new == db'.accounts[x]
           list == GetHistoryRange(db'.history, new.last, old.last)
       IN  /\ new # old => x \in db'.modified[db'.height]
           /\ Len(list) = new.height - old.height
           /\ \A i \in DOMAIN list : list[i].height = new.height + 1 - i]_db

\* FinalizeBlock of the same block gives the same application hash whether or not the
\* caches survived an earlier attempt, and it is the hash that Info and the proofs take
\* from the table BLOCK_INFORMATION, from the second block on.
SameBlockSameHash ==
  /\ Cardinality(answers) <= 1
  /\ status # "duplicate block"
  /\ db.height > 1 => db.hashes[db.height].app = comet.app

PowerAtComet(key) == IF key \in DOMAIN comet.powers THEN comet.powers[key] ELSE 0

\* buildValidatorSetUpdate() works by differences only: nevertheless CometBFT has the
\* powers that the rows of VALIDATOR_SET say, and those are what stake and approval gave
\* each node before the block, unless nodes share a key.
VotingPowersCurrent ==
  /\ phase = "finalized" =>
       \A n \in db.index : SharesKey(db, n) \/ RecordedPower(work, KeyOf(db, n)) = VotingPower(db, n)
  /\ phase \in {"idle", "decided"} =>
       \A key \in DOMAIN comet.powers \cup DOMAIN db.rows :
         PowerAtComet(key) = IF key \in DOMAIN db.rows THEN db.rows[key].power
                             ELSE GenesisPowers[key]

HasDeclared(n, key) ==
  \E mb \in DOMAIN db.microblocks :
    mb.vb = n /\ mb.tx.kind \in {"create", "declare"} /\ mb.tx.key = key

\* Whoever has been a validator can be accused later, however its key and power have
\* changed since: its address has a row, and who is slashed has declared that key.
MisbehaviourAttributed ==
  /\ status # "unknown validator"
  /\ \A n \in AccountState(db, Owner).slashed : \E key \in accused : HasDeclared(n, key)

\* The PANIC of buildValidatorSetUpdate() is always due to a node that declared another
\* key after its key had a row; CometBFT refuses the updates only when two nodes share a
\* key or when nobody would have any power.
HaltsExplained ==
  /\ status = "unreferenced row" => \E key \in rekeyed \cap DOMAIN db.rows :
                                        \A n \in db.index : KeyOf(db, n) # key
  /\ status = "refused updates" => \/ \E n \in db.index : SharesKey(db, n)
                                   \/ \A n \in db.index : VotingPower(db, n) = 0
==============================================================================
