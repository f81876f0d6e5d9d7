------------------------------ MODULE Accounts ------------------------------
(***************************************************************************)
(* The token operations of the node, as functions of a working state.      *)
(*                                                                         *)
(* FinalizeBlock works on the global state, PrepareProposal and            *)
(* ProcessProposal on states of their own, all through the same handlers:  *)
(* a handler is modelled as an operator that takes a ledger and returns    *)
(* [ok, ledger], where ok is FALSE if the handler throws and ledger holds  *)
(* what it had written by then.  A ledger is a record:                     *)
(*   accounts    - table ACCOUNT_STATE                                     *)
(*   escrows     - table ESCROWS as committed                              *)
(*   cache       - the cache over ESCROWS, the one table with rows that    *)
(*                 are deleted and looked up (see Overlay)                 *)
(*   vestingRows, stakingRows - tables ACCOUNTS_WITH_VESTING_LOCKS and     *)
(*                 ACCOUNTS_WITH_STAKING_LOCKS, read by getKeys() only     *)
(*   keys        - table ACCOUNT_BY_PUBLIC_KEY                             *)
(***************************************************************************)
EXTENDS Balance, FeesDispatcher

CONSTANTS
  StandardAccounts,  \* the accounts that exist or may be created
  FeesAccount,       \* the special account ACCOUNT_BLOCK_FEES
  PublicKeys,        \* the public keys of created accounts
  OwnerOf,           \* the account of the organization of each node
  MinStake,          \* getMinimumNodeStakingAmountInAtomics()
  MaxStake,          \* getMaximumNodeStakingAmountInAtomics()
  UnstakingDelay,    \* getUnstakingDelayInDays()
  SlashingDelay,     \* the days a misbehaving node has left (30)
  Governance         \* the account of the organization that governs the protocol

ASSUME AccountsAssumption ==
  /\ FeesAccount \notin StandardAccounts
  /\ OwnerOf \in [Nodes -> StandardAccounts]
  /\ Governance \in StandardAccounts
  /\ MinStake \in Nat /\ MaxStake \in Nat
  /\ UnstakingDelay \in Nat /\ SlashingDelay \in Nat
  /\ Missing \notin Nat

Accounts == StandardAccounts \cup {FeesAccount}

Done(L) == [ok |-> TRUE, ledger |-> L]
Throw(L) == [ok |-> FALSE, ledger |-> L]

\* saveAccountState()
SaveAccountState(L, x, a) == [L EXCEPT !.accounts[x] = [a EXCEPT !.exists = TRUE]]

GetEscrow(L, id) == GetRaw(L.escrows, L.cache, id)
DelEscrow(L, id) == [L EXCEPT !.cache = DelRaw(@, id)]

------------------------------------------------------------------------------
(* Transfers *)

\* Mutation: locked tokens count as spendable.
Refused_IgnoresLocks(L, t) ==
  \/ t.payer # Missing /\ L.accounts[t.payer].balance < t.amount + t.fees
  \/ L.accounts[t.payee].exists <=> t.type \in {"sale", "issuance"}

\* A transfer is a record [type, payer, payee, amount, fees], with the parameters of
\* its lock if the type is "vesting" or "escrow".  A "sale" or an "issuance" creates
\* the payee.  No handler passes an account type that isAllowedTransfer() refuses.
Refused(L, t) ==
  \/ t.payer # Missing /\ Spendable(L.accounts[t.payer]) < t.amount + t.fees
  \/ L.accounts[t.payee].exists <=> t.type \in {"sale", "issuance"}

\* Mutation: the fees, which are paid after the sections, are debited here as well.
Debit_WithFees(L, t) ==
  IF t.payer = Missing THEN L
  ELSE SaveAccountState(L, t.payer, AddSpendableTokens(L.accounts[t.payer], -(t.amount + t.fees)))

\* update() of the payer.
Debit(L, t) ==
  IF t.payer = Missing THEN L
  ELSE SaveAccountState(L, t.payer, AddSpendableTokens(L.accounts[t.payer], -t.amount))

CreditSpendable(L, t) ==
  Done(SaveAccountState(L, t.payee, AddSpendableTokens(L.accounts[t.payee], t.amount)))

CreditVested(L, t) ==
  Done([SaveAccountState(L, t.payee, AddVestedTokens(L.accounts[t.payee], t.amount, t.vesting))
          EXCEPT !.vestingRows = @ \cup {t.payee}])

\* The identifier must be new: if it is not, the payer has already been debited.
CreditEscrowed(L, t) ==
  LET id == t.escrow.id
      lock == [amount |-> t.amount, agent |-> t.escrow.agent,
               end |-> t.escrow.start + t.escrow.duration]
      row == [payer |-> t.payer, payee |-> t.payee, agent |-> t.escrow.agent] IN
    IF GetEscrow(L, id) # Missing THEN Throw(L)
    ELSE Done([SaveAccountState(L, t.payee, AddEscrowedTokens(L.accounts[t.payee], id, lock))
                 EXCEPT !.cache = PutRaw(@, id, row)])

\* update() of the payee.
Credit(L, t) ==
  CASE t.type = "vesting" -> CreditVested(L, t)
    [] t.type = "escrow" -> CreditEscrowed(L, t)
    [] OTHER -> CreditSpendable(L, t)

TokenTransfer(L, t) == IF Refused(L, t) THEN Throw(L) ELSE Credit(Debit(L, t), t)

------------------------------------------------------------------------------
(* Escrow *)

\* Sends the amount of a settled or expired escrow back.
Refund(L, row, amount) ==
  TokenTransfer(L, [type |-> "refund", payer |-> row.payee, payee |-> row.payer,
                    amount |-> amount, fees |-> 0])

\* removeEscrowLock() of the payee, which throws if there is no such lock.
Unlock(L, row, id) ==
  SaveAccountState(L, row.payee, RemoveEscrowLock(L.accounts[row.payee], id))

LockOf(L, row, id) == L.accounts[row.payee].escrow[id]

\* Mutation: the row of a settled escrow is kept.
EscrowSettlement_KeepsRow(L, account, id, confirmed) ==
  LET row == GetEscrow(L, id) IN
    IF row = Missing \/ account # row.agent \/ LockOf(L, row, id) = Missing THEN Throw(L)
    ELSE IF confirmed THEN Done(Unlock(L, row, id))
    ELSE Refund(Unlock(L, row, id), row, LockOf(L, row, id).amount)

\* escrowSettlement(): account is that of the virtual blockchain written to.
EscrowSettlement(L, account, id, confirmed) ==
  LET row == GetEscrow(L, id) IN
    IF row = Missing \/ account # row.agent \/ LockOf(L, row, id) = Missing THEN Throw(L)
    ELSE IF confirmed THEN Done(DelEscrow(Unlock(L, row, id), id))
    ELSE LET refund == Refund(Unlock(L, row, id), row, LockOf(L, row, id).amount) IN
           IF refund.ok THEN Done(DelEscrow(refund.ledger, id)) ELSE refund

\* Mutation: an escrow is sent back one day late.
UpdateExpiredEscrow_Late(L, id, day) ==
  LET row == GetEscrow(L, id) IN
    IF row = Missing \/ LockOf(L, row, id) = Missing THEN Throw(L)
    ELSE IF day <= LockOf(L, row, id).end + 1 THEN Done(L)
    ELSE LET refund == Refund(Unlock(L, row, id), row, LockOf(L, row, id).amount) IN
           IF refund.ok THEN Done(DelEscrow(refund.ledger, id)) ELSE refund

\* updateExpiredEscrow()
UpdateExpiredEscrow(L, id, day) ==
  LET row == GetEscrow(L, id) IN
    IF row = Missing \/ LockOf(L, row, id) = Missing THEN Throw(L)
    ELSE IF day <= LockOf(L, row, id).end THEN Done(L)
    ELSE LET refund == Refund(Unlock(L, row, id), row, LockOf(L, row, id).amount) IN
           IF refund.ok THEN Done(DelEscrow(refund.ledger, id)) ELSE refund

------------------------------------------------------------------------------
(* Staking *)

\* stake(): the SDK refuses to lock tokens that are not spendable.
Stake(L, x, amount, node) ==
  LET a == L.accounts[x]
      newAmount == NodeStakingLockAmount(a, node) + amount IN
    IF newAmount < MinStake \/ MaxStake < newAmount \/ Spendable(a) < amount THEN Throw(L)
    ELSE Done([SaveAccountState(L, x, AddNodeStaking(a, amount, node))
                 EXCEPT !.stakingRows = @ \cup {x}])

\* planUnstake()
PlanUnstake(L, x, amount, node, day) ==
  LET a == L.accounts[x]
      newAmount == NodeStakingLockAmount(a, node) - amount IN
    IF newAmount < 0 \/ newAmount \in 1..(MinStake - 1) \/ a.stake[node] = Missing THEN Throw(L)
    ELSE Done(SaveAccountState(L, x, PlanNodeStakingUnlock(a, amount, node, day + UnstakingDelay)))

\* cancelSlashing(), for a virtual blockchain of a node.
CancelSlashing(L, node) ==
  LET x == OwnerOf[node] IN
    IF L.accounts[x].stake[node] = Missing THEN Throw(L)
    ELSE Done(SaveAccountState(L, x, CancelNodeSlashing(L.accounts[x], node)))

------------------------------------------------------------------------------
(* Microblocks *)

\* A microblock is a record [owner, payer, fees, lead, sections]: owner is the account
\* whose virtual blockchain (its own, or that of its node) is written to, payer pays the
\* fees and signs, lead is by how many days the timestamp of the microblock is ahead of
\* that of its block.

Has(mb, kind) == \E i \in DOMAIN mb.sections : mb.sections[i].kind = kind

\* isAccountIdAllowedToWriteOnVirtualBlockchain().  The SDK enforces that a settlement or
\* a cancellation is the only section of its microblock.
AllowedToWrite(L, mb) ==
  IF Has(mb, "creation") THEN TRUE
  ELSE IF Has(mb, "settlement")
  THEN LET lock == L.accounts[mb.owner].escrow[Head(mb.sections).id]
       IN  lock # Missing /\ lock.agent = mb.payer
  ELSE IF Has(mb, "cancellation") THEN mb.payer = Governance
  ELSE mb.payer = mb.owner

\* The checks of updateGlobalStateOnMicroblock() before the sections.
Admissible(L, mb) ==
  /\ L.accounts[mb.payer].exists
  /\ L.accounts[mb.payer].balance > mb.fees
  /\ AllowedToWrite(L, mb)

CreateAccount(L, mb, s) ==
  IF L.keys[s.key] # Missing THEN Throw(L)
  ELSE LET sale == TokenTransfer(L, [type |-> "sale", payer |-> s.seller, payee |-> mb.owner,
                                     amount |-> s.amount, fees |-> mb.fees]) IN
         IF sale.ok THEN Done([sale.ledger EXCEPT !.keys[s.key] = mb.owner]) ELSE sale

\* handleAccountUpdate() and handleValidatorNodeUpdate() for one section of a microblock.
ExecSection(L, mb, s, day) ==
  CASE s.kind = "creation" -> CreateAccount(L, mb, s)
    [] s.kind = "transfer" ->
         TokenTransfer(L, [type |-> "payment", payer |-> mb.owner, payee |-> s.account,
                           amount |-> s.amount, fees |-> mb.fees])
    [] s.kind = "vesting" ->
         TokenTransfer(L, [type |-> "vesting", payer |-> mb.owner, payee |-> s.account,
                           amount |-> s.amount, fees |-> mb.fees,
                           vesting |-> [start |-> day + mb.lead, cliff |-> s.cliff,
                                        duration |-> s.duration]])
    [] s.kind = "escrow" ->
         TokenTransfer(L, [type |-> "escrow", payer |-> mb.owner, payee |-> s.account,
                           amount |-> s.amount, fees |-> mb.fees,
                           escrow |-> [id |-> s.id, agent |-> s.agent, start |-> day + mb.lead,
                                       duration |-> s.duration]])
    [] s.kind = "settlement" -> EscrowSettlement(L, mb.owner, s.id, s.confirmed)
    [] s.kind = "stake" -> Stake(L, mb.owner, s.amount, s.node)
    [] s.kind = "unstake" -> PlanUnstake(L, mb.owner, s.amount, s.node, day + mb.lead)
    [] s.kind = "cancellation" -> CancelSlashing(L, s.node)

\* The fees go to the special account once the sections are done.
PayFees(L, mb) ==
  TokenTransfer(L, [type |-> "txFees", payer |-> mb.payer, payee |-> FeesAccount,
                    amount |-> mb.fees, fees |-> 0])

------------------------------------------------------------------------------
(* The other steps of a block *)

\* applyLinearVesting() of every account that has a row in the index.
UpdateVestingLocks(L, day) ==
  LET rows == L.vestingRows
      updated == [x \in Accounts |->
        IF x \in rows THEN ApplyLinearVesting(L.accounts[x], day) ELSE L.accounts[x]]
  IN  [L EXCEPT !.accounts = updated,
                !.vestingRows = {x \in rows : \/ updated[x] = L.accounts[x]
                                              \/ HasVestingLocks(updated[x])}]

\* Mutation: the row of an account goes as soon as one of its stakes is unlocked.
ApplyUnlocks_DropsRow(L, day) ==
  LET rows == L.stakingRows
      updated == [x \in Accounts |->
        IF x \in rows THEN ApplyNodeStakingUnlocks(L.accounts[x], day) ELSE L.accounts[x]]
  IN  [L EXCEPT !.accounts = updated,
                !.stakingRows = {x \in rows : updated[x] = L.accounts[x]}]

\* applyNodeStakingUnlocks() of every account that has a row in the index.
ApplyUnlocks(L, day) ==
  LET rows == L.stakingRows
      updated == [x \in Accounts |->
        IF x \in rows THEN ApplyNodeStakingUnlocks(L.accounts[x], day) ELSE L.accounts[x]]
  IN  [L EXCEPT !.accounts = updated,
                !.stakingRows = {x \in rows : \/ updated[x] = L.accounts[x]
                                              \/ HasNodeStakingLocks(updated[x])}]

\* applyNodeSlashing() of every account that has a row in the index.
ApplySlashing(L, day) ==
  [L EXCEPT !.accounts = [x \in Accounts |->
     IF x \in L.stakingRows THEN ApplyNodeSlashing(L.accounts[x], day) ELSE L.accounts[x]]]

\* setSlashing() for the misbehaving nodes of a block; its exception is caught when the
\* account has no stake for the node.
SetNodeSlashing(L, offenders, day) ==
  LET Warned(x) == {n \in offenders : OwnerOf[n] = x /\ L.accounts[x].stake[n] # Missing} IN
    [L EXCEPT !.accounts = [x \in Accounts |->
       [L.accounts[x] EXCEPT !.stake = [n \in Nodes |->
          IF n \in Warned(x) THEN [@[n] EXCEPT !.slashDay = day] ELSE @[n]]]]]

\* GlobalState.commit() for these tables.
CommitTables(L) ==
  [L EXCEPT !.escrows = BatchWrite(@, L.cache), !.cache = EmptyCache(EscrowIds)]

\* dispatchFeesAmongValidators(): what each of the nodes that voted for the previous block
\* is due, as a sequence of [node, amount].
SharesOf(L, voters, height) ==
  LET pending == L.accounts[FeesAccount].balance
      shares == Dispatch(pending, [i \in DOMAIN voters |->
                                     Staked(L.accounts[OwnerOf[voters[i]]])], height)
  IN  IF pending = 0 THEN <<>>
      ELSE [i \in DOMAIN voters |-> [node |-> voters[i], amount |-> shares[i]]]

PayShare(L, share) ==
  TokenTransfer(L, [type |-> "blockFees", payer |-> FeesAccount, payee |-> OwnerOf[share.node],
                    amount |-> share.amount, fees |-> 0])
==============================================================================
