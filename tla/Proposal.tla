------------------------------ MODULE Proposal ------------------------------
(***************************************************************************)
(* How microblocks get from users into a decided block: CheckTx,           *)
(* PrepareProposal, ProcessProposal, FinalizeBlock and Commit of one node. *)
(*                                                                         *)
(* Every handler but FinalizeBlock works on a GlobalState of its own over  *)
(* the committed database, thrown away at the end.  All of them run the    *)
(* same code on a microblock, and none of them undoes what a microblock    *)
(* has written before it failed.  The microblock's own virtual blockchain  *)
(* must be exactly one microblock shorter (the local consistency check).   *)
(***************************************************************************)
EXTENDS LedgerState

CONSTANTS
  Microblocks,     \* the identifiers of the microblocks that users sign
  Body,            \* what each is, see Accounts
  VbOf,            \* the virtual blockchain each extends
  PositionOf,      \* its height on that virtual blockchain
  SizeOf,          \* its size in bytes
  GenesisLedger,   \* the ledger that the genesis block creates
  MaxBlockSize,    \* getMaximumBlockSizeInBytes()
  ProtocolLimit,   \* maxMicroblocksPerBlock of the protocol
  ConfigLimit,     \* getMaxMicroblocksPerBlock() of this node, Missing if not valid
  MaxHeight        \* bound: blocks after genesis

ASSUME ProposalAssumption ==
  /\ Body \in [Microblocks -> MicroblockBodies]
  /\ PositionOf \in [Microblocks -> Nat \ {0}]
  /\ SizeOf \in [Microblocks -> Nat \ {0}]
  /\ MaxBlockSize \in Nat /\ ProtocolLimit \in Nat \ {0}
  /\ ConfigLimit \in (Nat \ {0}) \cup {Missing}
  /\ MaxHeight \in Nat

\* The ledger of the genesis block is sound, and no node has misbehaved yet.
ASSUME GenesisAssumption == Sound(GenesisLedger, 0) /\ Unwarned(GenesisLedger)

VARIABLES
  committed,  \* the committed state: [ledger, vb], vb being the virtual blockchains' heights
  day,        \* the day of the last block
  mempool,    \* the microblocks that passed CheckTx (CometBFT's mempool)
  rejected,   \* EarlyMicroblockRejectionService.shouldReject
  pc,         \* "idle", "proposed", "accepted", "finalized" or "panic"
  block,      \* the proposal at hand: [txs, day, own, dropped], the last two being whether
              \* this node prepared it and the microblocks it rejected on the way
  work,       \* the shared working state, once FinalizeBlock has run
  codes,      \* whether each transaction of the block succeeded in FinalizeBlock
  chain       \* the microblocks of the committed blocks, in order

vars == <<committed, day, mempool, rejected, pc, block, work, codes, chain>>

VirtualBlockchains == {VbOf[m] : m \in Microblocks}
NoBlock == [txs |-> <<>>, day |-> 0, own |-> FALSE, dropped |-> {}]
SizeOfTxs(txs) == FoldLeft(LAMBDA sum, m : sum + SizeOf[m], 0, txs)

Init ==
  /\ committed = [ledger |-> GenesisLedger, vb |-> [v \in VirtualBlockchains |-> 0]]
  /\ day = 0
  /\ mempool = {}
  /\ rejected = {}
  /\ pc = "idle"
  /\ block = NoBlock
  /\ work = committed
  /\ codes = <<>>
  /\ chain = <<>>

------------------------------------------------------------------------------
(* A block and its microblocks, as functions of the working state *)

\* updateGlobalStateOnMicroblock(): the first exception ends it, and nothing restores
\* what the sections before had written.
ExecMicroblock(L, mb, d) ==
  LET Exec(result, s) == IF result.ok THEN ExecSection(result.ledger, mb, s, d) ELSE result
      Pay(result) == IF result.ok THEN PayFees(result.ledger, mb) ELSE result
  IN  IF Admissible(L, mb) THEN Pay(FoldLeft(Exec, Done(L), mb.sections)) ELSE Throw(L)

\* The daily updates of updateGlobalStateOnBlock(): whatever throws, the rest is skipped
\* until the next day.
DailyUpdates(L, d) ==
  LET Update(result, id) == IF result.ok THEN UpdateExpiredEscrow(result.ledger, id, d)
                            ELSE result
      Release(result) == IF result.ok THEN Done(ApplySlashing(ApplyUnlocks(result.ledger, d), d))
                         ELSE result
  IN  Release(FoldLeft(Update, Done(UpdateVestingLocks(L, d)),
                       SetToSeq(GetKeys(L.escrows, L.cache))))

\* updateGlobalStateOnBlock(), for a block without misbehaviours.
UpdateOnBlock(L, previousDay, d) == IF d = previousDay THEN L ELSE DailyUpdates(L, d).ledger

\* dispatchFeesAmongValidators()
DispatchFees(L, voters, height) ==
  FoldLeft(LAMBDA result, share : IF result.ok THEN PayShare(result.ledger, share) ELSE result,
           Done(L), SharesOf(L, voters, height))

\* Mutation: any later position on the virtual blockchain will do.
Consistent_AnyPosition(S, m) == S.vb[VbOf[m]] <= PositionOf[m]

\* checkMicroblockLocalStateConsistency()
Consistent(S, m) == S.vb[VbOf[m]] = PositionOf[m] - 1

\* The local check, then updateGlobalStateOnMicroblock(): the virtual blockchain is only
\* stored at the very end, what the sections wrote stays in any case.
Execute(S, m, d) ==
  LET Extended == [S.vb EXCEPT ![VbOf[m]] = PositionOf[m]]
      Store(result) ==
        [ok |-> result.ok,
         state |-> [ledger |-> result.ledger, vb |-> IF result.ok THEN Extended ELSE S.vb]]
  IN  IF Consistent(S, m) THEN Store(ExecMicroblock(S.ledger, Body[m], d))
      ELSE [ok |-> FALSE, state |-> S]

\* The state in which the microblocks of a block of day d are executed.
Begin(d) == [committed EXCEPT !.ledger = UpdateOnBlock(@, day, d)]

------------------------------------------------------------------------------
(* CheckTx and the early rejections *)

\* CheckTx: no token balance is looked at.
Checked(S, m) == m \notin rejected /\ Consistent(S, m)

CheckTx(m) ==
  /\ m \notin mempool
  /\ Checked(committed, m)
  /\ mempool' = mempool \cup {m}
  /\ UNCHANGED <<committed, day, rejected, pc, block, work, codes, chain>>

\* clearRejectedMicroblocks(), every ten minutes.
ClearRejected ==
  /\ rejected # {}
  /\ rejected' = {}
  /\ UNCHANGED <<committed, day, mempool, pc, block, work, codes, chain>>

------------------------------------------------------------------------------
(* PrepareProposal *)

\* Mutation: what the operator configures overrides the limit of the protocol.
NodeLimit_ConfigOnly == IF ConfigLimit = Missing THEN ProtocolLimit ELSE ConfigLimit

\* The most microblocks this node puts in a proposal.
NodeLimit ==
  IF ConfigLimit = Missing \/ ProtocolLimit < ConfigLimit THEN ProtocolLimit ELSE ConfigLimit

\* The orders in which the transactions of a request may be tried: by descending fees.
Candidates == mempool \ rejected
ByFees ==
  {order \in SetToAllKPermutations(Candidates) :
     /\ Len(order) = Cardinality(Candidates)
     /\ \A i, j \in DOMAIN order : i < j => Body[order[i]].fees >= Body[order[j]].fees}

\* One iteration of the loop: acc holds the working state, the transactions kept, the
\* microblocks rejected and whether the loop goes on.
TryMicroblock(acc, m, d) ==
  LET Full == NodeLimit <= Len(acc.txs) \/ SizeOfTxs(acc.txs) + SizeOf[m] > MaxBlockSize
      Keep(result) ==
        [acc EXCEPT !.state = result.state,
                    !.txs = IF result.ok THEN Append(@, m) ELSE @,
                    !.rejected = IF result.ok THEN @ ELSE @ \cup {m}]
  IN  IF ~acc.open THEN acc
      ELSE IF Full THEN [acc EXCEPT !.open = FALSE]
      ELSE Keep(Execute(acc.state, m, d))

\* The loop over the transactions of the request.
Try(order, d) ==
  FoldLeft(LAMBDA acc, m : TryMicroblock(acc, m, d),
           [state |-> Begin(d), txs |-> <<>>, rejected |-> {}, open |-> TRUE], order)

PrepareProposal(order, d) ==
  /\ pc = "idle"
  /\ Len(chain) < MaxHeight
  /\ d >= day
  /\ order \in ByFees
  /\ LET result == Try(order, d)
     IN  /\ block' = [txs |-> result.txs, day |-> d, own |-> TRUE, dropped |-> result.rejected]
         /\ rejected' = rejected \cup result.rejected
  /\ pc' = "proposed"
  /\ UNCHANGED <<committed, day, mempool, work, codes, chain>>

\* Another node proposes whatever it likes.
ReceiveProposal(txs, d) ==
  /\ pc = "idle"
  /\ Len(chain) < MaxHeight
  /\ d >= day
  /\ block' = [txs |-> txs, day |-> d, own |-> FALSE, dropped |-> {}]
  /\ pc' = "proposed"
  /\ UNCHANGED <<committed, day, mempool, rejected, work, codes, chain>>

------------------------------------------------------------------------------
(* ProcessProposal *)

\* Mutation: each microblock is checked against the committed state alone.
AllExecute_FromCommitted(txs, d) == \A i \in DOMAIN txs : Execute(Begin(d), txs[i], d).ok

\* The loop over the transactions ends at the first failure.
AllExecute(txs, d) ==
  FoldLeft(LAMBDA acc, m : IF acc.ok THEN Execute(acc.state, m, d) ELSE acc,
           [ok |-> TRUE, state |-> Begin(d)], txs).ok

\* Mutation: an error is logged, but the status stays ACCEPT.
Accepts_Anyway(b) == Len(b.txs) <= ProtocolLimit /\ SizeOfTxs(b.txs) <= MaxBlockSize

\* The status that ProcessProposal returns.
Accepts(b) ==
  /\ Len(b.txs) <= ProtocolLimit
  /\ SizeOfTxs(b.txs) <= MaxBlockSize
  /\ AllExecute(b.txs, b.day)

\* A proposal that is rejected is dropped: CometBFT goes to the next round.
ProcessProposal ==
  /\ pc = "proposed"
  /\ IF Accepts(block)
     THEN pc' = "accepted" /\ UNCHANGED block
     ELSE pc' = "idle" /\ block' = NoBlock
  /\ UNCHANGED <<committed, day, mempool, rejected, work, codes, chain>>

\* The validators do not agree on the proposal and go to the next round.
NextRound ==
  /\ pc = "accepted"
  /\ pc' = "idle"
  /\ block' = NoBlock
  /\ UNCHANGED <<committed, day, mempool, rejected, work, codes, chain>>

------------------------------------------------------------------------------
(* FinalizeBlock and Commit *)

\* The loop over the transactions goes on whether they succeed or not.
ExecuteBlock(txs, d) ==
  LET Step(acc, m) == LET result == Execute(acc.state, m, d) IN
        [state |-> result.state, codes |-> Append(acc.codes, result.ok)]
  IN  FoldLeft(Step, [state |-> Begin(d), codes |-> <<>>], txs)

\* clearCaches(), then every transaction on the shared state, then the fees.
FinalizeBlock(voters) ==
  /\ pc = "accepted"
  /\ LET executed == ExecuteBlock(block.txs, block.day)
         paid == DispatchFees(executed.state.ledger, voters, Len(chain) + 1)
     IN  /\ work' = [executed.state EXCEPT !.ledger = paid.ledger]
         /\ codes' = executed.codes
         /\ pc' = IF paid.ok THEN "finalized" ELSE "panic"
  /\ UNCHANGED <<committed, day, mempool, rejected, block, chain>>

\* The microblocks of the block leave the mempool and CometBFT has the others checked
\* again.
Commit ==
  /\ pc = "finalized"
  /\ committed' = [work EXCEPT !.ledger = CommitTables(@)]
  /\ day' = block.day
  /\ mempool' = {m \in mempool \ ToSet(block.txs) : Checked(work, m)}
  /\ chain' = Append(chain, block.txs)
  /\ block' = NoBlock
  /\ codes' = <<>>
  /\ pc' = "idle"
  /\ work' = committed'
  /\ UNCHANGED rejected

Next ==
  \/ \E m \in Microblocks : CheckTx(m)
  \/ ClearRejected
  \/ \E order \in ByFees, d \in 0..MaxDay : PrepareProposal(order, d)
  \/ \E txs \in SeqOf(Microblocks, ProtocolLimit + 1), d \in 0..MaxDay : ReceiveProposal(txs, d)
  \/ ProcessProposal
  \/ NextRound
  \/ \E voters \in SUBSET Nodes : FinalizeBlock(SetToSeq(voters))
  \/ Commit

Spec == Init /\ [][Next]_vars

------------------------------------------------------------------------------
(* Properties *)

\* A block that ProcessProposal accepted is executed by FinalizeBlock without rejecting
\* any transaction, although the two work on states of their own.
AcceptedTxsSucceed == pc = "finalized" => \A i \in DOMAIN codes : codes[i]

\* What a failed microblock had written before it failed never reaches the database: the
\* balances of the committed state always add up to the supply.
NothingLostOnChain == TotalBalance(committed.ledger) = TotalBalance(GenesisLedger)

\* The blocks of the chain extend each virtual blockchain one microblock after the other:
\* none is included twice, none is skipped, and the committed heights count them.
ChainExtendsVirtualBlockchains ==
  LET log == FlattenSeq(chain)
      OnVb(v, n) == Cardinality({j \in 1..n : VbOf[log[j]] = v})
  IN  /\ \A i \in DOMAIN log : PositionOf[log[i]] = OnVb(VbOf[log[i]], i)
      /\ \A v \in VirtualBlockchains : committed.vb[v] = OnVb(v, Len(log))

\* A proposal in whose preparation nothing was rejected is accepted by every validator:
\* together with the early rejections, which keep what was rejected out of the next
\* proposal, this bounds the proposals that a node wastes.
UndisturbedProposalAccepted ==
  pc = "proposed" /\ block.own /\ block.dropped = {} => Accepts(block)

\* "Prepares a proposal by validating transactions [...] and returns a prepared proposal
\* response containing only valid transactions": what this node proposes is accepted.
OwnProposalAccepted == pc = "proposed" /\ block.own => Accepts(block)
==============================================================================
