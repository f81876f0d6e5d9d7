-------------------------------- MODULE Ledger --------------------------------
(***************************************************************************)
(* The token ledger across blocks, as FinalizeBlock and Commit drive it.   *)
(*                                                                         *)
(* FinalizeBlock first processes the misbehaviours and, on the first block *)
(* of a day, the daily updates, then executes the microblocks one by one   *)
(* (an exception in one is caught and leaves its partial effects), then    *)
(* dispatches the pending fees among the validators that voted; Commit     *)
(* writes the tables and empties their caches.  The handlers are those of  *)
(* Accounts; here are the order in which a block runs them and what        *)
(* happens to their exceptions.                                            *)
(***************************************************************************)
EXTENDS LedgerState

CONSTANTS
  Microblocks,      \* the microblocks that blocks may contain, see Accounts
  GenesisLedger,    \* the ledger that the genesis block creates
  MaxHeight,        \* bound: blocks after genesis
  MaxTxs            \* bound: microblocks executed in all

ASSUME BlocksAssumption ==
  /\ MaxHeight \in Nat /\ MaxTxs \in Nat
  /\ Microblocks \subseteq MicroblockBodies
  /\ Missing \notin Microblocks

\* The genesis block issues tokens and may lock some, through the same handlers.
ASSUME GenesisAssumption == Sound(GenesisLedger, 0)

VARIABLES
  ledger,    \* the working state: committed tables under their caches
  pc,        \* where FinalizeBlock and Commit are
  day,       \* the day of the last block begun
  height,    \* its height
  txs,       \* the number of microblocks started so far
  \* the loops under way
  ids,       \* the escrows that the daily updates have still to visit
  mb,        \* the microblock being executed, or Missing
  sections,  \* its sections that are left
  shares,    \* the fees that are left to pay to validators
  \* what an observer remembers
  daily,     \* FALSE once the daily updates of a day were cut short by an exception
  clean,     \* FALSE once a microblock failed while it was being executed
  burnt      \* the tokens taken by slashing

loopVars == <<ids, mb, sections, shares>>
vars == <<ledger, pc, day, height, txs, loopVars, daily, clean, burnt>>

Init ==
  /\ ledger = GenesisLedger
  /\ pc = "idle"
  /\ day = 0
  /\ height = 0
  /\ txs = 0
  /\ ids = {}
  /\ mb = Missing
  /\ sections = <<>>
  /\ shares = <<>>
  /\ daily = TRUE
  /\ clean = TRUE
  /\ burnt = 0

------------------------------------------------------------------------------
(* updateGlobalStateOnBlock() *)

\* Misbehaviours plan a slashing; if the previous block is of another day the daily
\* updates begin, with the vesting locks.
BeginBlock(d, offenders) ==
  /\ pc = "idle"
  /\ height < MaxHeight
  /\ d >= day
  /\ LET warned == SetNodeSlashing(ledger, offenders, d + SlashingDelay) IN
       IF d = day
       THEN ledger' = warned /\ pc' = "executing" /\ UNCHANGED ids
       ELSE /\ ledger' = UpdateVestingLocks(warned, d)
            /\ ids' = GetKeys(warned.escrows, warned.cache)
            /\ pc' = "escrows"
  /\ day' = d
  /\ height' = height + 1
  /\ UNCHANGED <<txs, mb, sections, shares, daily, clean, burnt>>

\* updateExpiredEscrow() of one escrow.  An exception ends the daily updates, and the
\* block goes on without them.
UpdateEscrow(id) ==
  /\ pc = "escrows"
  /\ id \in ids
  /\ LET result == UpdateExpiredEscrow(ledger, id, day) IN
       /\ ledger' = result.ledger
       /\ ids' = IF result.ok THEN ids \ {id} ELSE {}
       /\ pc' = IF result.ok THEN pc ELSE "executing"
       /\ daily' = (daily /\ result.ok)
  /\ UNCHANGED <<day, height, txs, mb, sections, shares, clean, burnt>>

\* The stakes that are due for release, then those due for slashing.
UpdateStakes ==
  /\ pc = "escrows"
  /\ ids = {}
  /\ LET unlocked == ApplyUnlocks(ledger, day) IN
       /\ ledger' = ApplySlashing(unlocked, day)
       /\ burnt' = burnt + SumFunction([x \in unlocked.stakingRows |->
                                          SlashedAmount(unlocked.accounts[x], day)])
  /\ pc' = "executing"
  /\ UNCHANGED <<day, height, txs, loopVars, daily, clean>>

------------------------------------------------------------------------------
(* updateGlobalStateOnMicroblock() *)

\* The checks that come before the sections.  (A microblock that they refuse changes
\* nothing.)
StartMicroblock(m) ==
  /\ pc = "executing"
  /\ txs < MaxTxs
  /\ Admissible(ledger, m)
  /\ mb' = m
  /\ sections' = m.sections
  /\ txs' = txs + 1
  /\ pc' = "microblock"
  /\ UNCHANGED <<ledger, day, height, ids, shares, daily, clean, burnt>>

EndMicroblock(ok) ==
  /\ pc' = "executing"
  /\ mb' = Missing
  /\ sections' = <<>>
  /\ clean' = (clean /\ ok)

\* One section.  An exception ends the microblock, and nothing restores what the sections
\* before had written, or the failed one by then.
ExecNextSection ==
  /\ pc = "microblock"
  /\ sections # <<>>
  /\ LET result == ExecSection(ledger, mb, Head(sections), day) IN
       /\ ledger' = result.ledger
       /\ IF result.ok
          THEN sections' = Tail(sections) /\ UNCHANGED <<pc, mb, clean>>
          ELSE EndMicroblock(FALSE)
  /\ UNCHANGED <<day, height, txs, ids, shares, daily, burnt>>

\* The fees, once every section is done.
PayMicroblockFees ==
  /\ pc = "microblock"
  /\ sections = <<>>
  /\ LET result == PayFees(ledger, mb) IN
       /\ ledger' = result.ledger
       /\ EndMicroblock(result.ok)
  /\ UNCHANGED <<day, height, txs, ids, shares, daily, burnt>>

------------------------------------------------------------------------------
(* finalizeBlockApproval() and Commit *)

\* The nodes that may have voted for the previous block, in the order of the request.
Voters == {voters \in SeqOf(Nodes, Cardinality(Nodes)) : IsInjective(voters)}

\* The shares are computed once, before the first payment.
DispatchFees(voters) ==
  /\ pc = "executing"
  /\ shares' = SharesOf(ledger, voters, height)
  /\ pc' = "paying"
  /\ UNCHANGED <<ledger, day, height, txs, ids, mb, sections, daily, clean, burnt>>

\* Nothing catches an exception here: the node would leave CometBFT without an answer.
PayValidator ==
  /\ pc = "paying"
  /\ shares # <<>>
  /\ LET result == PayShare(ledger, Head(shares)) IN
       /\ ledger' = result.ledger
       /\ shares' = Tail(shares)
       /\ pc' = IF result.ok THEN pc ELSE "panic"
  /\ UNCHANGED <<day, height, txs, ids, mb, sections, daily, clean, burnt>>

Commit ==
  /\ pc = "paying"
  /\ shares = <<>>
  /\ ledger' = CommitTables(ledger)
  /\ pc' = "idle"
  /\ UNCHANGED <<day, height, txs, loopVars, daily, clean, burnt>>

Next ==
  \/ \E d \in 0..MaxDay, offenders \in SUBSET Nodes : BeginBlock(d, offenders)
  \/ \E id \in EscrowIds : UpdateEscrow(id)
  \/ UpdateStakes
  \/ \E m \in Microblocks : StartMicroblock(m)
  \/ ExecNextSection
  \/ PayMicroblockFees
  \/ \E voters \in Voters : DispatchFees(voters)
  \/ PayValidator
  \/ Commit

Spec == Init /\ [][Next]_vars

------------------------------------------------------------------------------
(* Properties *)

\* The ledger keeps its shape: balances are never negative and a stake that has nothing
\* left to hold is removed.
TypeOK ==
  /\ ledger \in Ledgers
  /\ pc \in {"idle", "escrows", "executing", "microblock", "paying", "panic"}
  /\ ids \subseteq EscrowIds
  /\ mb \in Microblocks \cup {Missing} /\ (mb # Missing <=> pc = "microblock")
  /\ day \in Nat /\ height \in Nat /\ txs \in Nat /\ burnt \in Nat
  /\ daily \in BOOLEAN /\ clean \in BOOLEAN

Supply == TotalBalance(GenesisLedger)

\* Tokens are neither created nor lost: the balances, plus what slashing has taken, add
\* up to the supply of the genesis block.  A microblock that fails after it has written
\* something may lose tokens (the debit of its payer stays), but never creates any.
TokensConserved ==
  /\ TotalBalance(ledger) + burnt <= Supply
  /\ clean => TotalBalance(ledger) + burnt = Supply

\* No account ever owes: what vesting, escrows and stakes lock is covered by its balance,
\* through every order of releases, refunds, unlocks and slashings.
SpendableNonNegative == Covered(ledger)

\* Table ESCROWS, as the block under execution sees it, lists exactly the escrow locks
\* that accounts hold, each on the account of its payee and with its agent, even when a
\* settlement, an expiry and a new transfer fall in one block.
EscrowRowsMatchLocks == RowsMatchLocks(ledger)

\* The daily updates visit accounts through two index tables: an account that has a
\* vesting lock or a stake is always listed, so that its locks are not forgotten.
LocksAreIndexed == Indexed(ledger)

\* The daily updates are never cut short, and the payment of the fees never throws: the
\* refund of an escrow and the share of a validator are always covered.
NoHandlerException == daily /\ pc # "panic"

\* Whatever days go by without a block, no lock outlives its day: when the daily updates
\* end, escrows that are past their end have gone back, stakes due for release or slashing
\* are gone, and vesting locks hold what is left by the schedule.  (A microblock of the same
\* block, signed before midnight, may add a lock that is due at once.)
NothingOverdue == [][pc = "escrows" /\ pc' = "executing" => NothingDue(ledger', day)]_vars

\* "Should preserve total fees after dispatch": if a voter has a stake, the shares that
\* the validators get add up to the fees, whatever the stakes and the height; otherwise
\* nothing is paid and the fees stay for a later block.
FeesFullyDispatched ==
  [][pc = "executing" /\ pc' = "paying" =>
       LET staked == \E i \in DOMAIN shares' : Staked(ledger.accounts[OwnerOf[shares'[i].node]]) > 0
           paid == FoldLeft(LAMBDA sum, share : sum + share.amount, 0, shares')
       IN  paid = IF staked THEN ledger.accounts[FeesAccount].balance ELSE 0]_vars

\* "Processes the settlement of an escrow by the agent": a settlement that is admitted,
\* because the agent of the escrow has signed it, is carried out.
AgentCanSettle ==
  pc = "executing" =>
    \A m \in Microblocks :
      Has(m, "settlement") /\ Admissible(ledger, m)
        => ExecSection(ledger, m, Head(m.sections), day).ok
==============================================================================
