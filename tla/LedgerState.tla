----------------------------- MODULE LedgerState -----------------------------
(***************************************************************************)
(* The types of the ledgers and microblocks that Accounts works on, and    *)
(* what holds of a ledger between two blocks.  Ledger and Proposal take    *)
(* it through blocks.                                                      *)
(***************************************************************************)
EXTENDS Accounts

CONSTANT MaxDay   \* bound: the day of the last block

\* The sections that handleAccountUpdate() and handleValidatorNodeUpdate() act on.
Sections ==
  [kind : {"creation"}, key : PublicKeys, seller : StandardAccounts, amount : Nat]
  \cup [kind : {"transfer"}, account : StandardAccounts, amount : Nat]
  \cup [kind : {"vesting"}, account : StandardAccounts, amount : Nat, cliff : Nat,
        duration : Nat]
  \cup [kind : {"escrow"}, account : StandardAccounts, amount : Nat, id : EscrowIds,
        agent : StandardAccounts, duration : Nat]
  \cup [kind : {"settlement"}, id : EscrowIds, confirmed : BOOLEAN]
  \cup [kind : {"stake", "unstake"}, amount : Nat, node : Nodes]
  \cup [kind : {"cancellation"}, node : Nodes]

\* The microblocks that can be written with them.
MicroblockBodies ==
  [owner : StandardAccounts, payer : StandardAccounts, fees : Nat, lead : Int,
   sections : Seq(Sections)]

\* A ledger and its parts.
VestingLocks == [initial : Nat, locked : Nat, start : Int, cliff : Nat, duration : Nat]
EscrowLocks == [amount : Nat, agent : StandardAccounts, end : Int]
StakeLocks == [amount : Nat \ {0}, unlock : Nat, unlockDay : Int, slashDay : Nat \cup {Missing}]
EscrowRows == [payer : StandardAccounts, payee : StandardAccounts, agent : StandardAccounts]
EscrowTables == [EscrowIds -> EscrowRows \cup {Missing}]
AccountStates ==
  [exists : BOOLEAN, balance : Nat, vesting : Seq(VestingLocks),
   escrow : [EscrowIds -> EscrowLocks \cup {Missing}],
   stake : [Nodes -> StakeLocks \cup {Missing}]]
Ledgers ==
  [accounts : [Accounts -> AccountStates], escrows : EscrowTables,
   cache : [ins : EscrowTables, del : SUBSET EscrowIds],
   vestingRows : SUBSET Accounts, stakingRows : SUBSET Accounts,
   keys : [PublicKeys -> StandardAccounts \cup {Missing}]]

ASSUME LedgerAssumption ==
  /\ MaxDay \in Nat
  /\ IsFiniteSet(Accounts) /\ IsFiniteSet(EscrowIds) /\ IsFiniteSet(Nodes)
  /\ MinStake > 0
  /\ Missing \notin Accounts
  /\ Missing \notin EscrowLocks /\ Missing \notin EscrowRows /\ Missing \notin StakeLocks

------------------------------------------------------------------------------
(* What holds of a sound ledger *)

\* Every account that has a vesting lock or a stake is listed in the index table.
Indexed(L) ==
  \A x \in Accounts :
    /\ HasVestingLocks(L.accounts[x]) => x \in L.vestingRows
    /\ HasNodeStakingLocks(L.accounts[x]) => x \in L.stakingRows

\* What is locked is covered by the balance.
Covered(L) == \A x \in Accounts : Spendable(L.accounts[x]) >= 0

\* Table ESCROWS as the block under execution sees it.
Rows(L) == FullTable(L.escrows, L.cache)

Holders(L, id) == {x \in Accounts : L.accounts[x].escrow[id] # Missing}

\* The rows of table ESCROWS are those of the escrow locks that accounts hold.
RowsMatchLocks(L) ==
  \A id \in EscrowIds :
    LET row == Rows(L)[id] IN
      IF row = Missing THEN Holders(L, id) = {}
      ELSE Holders(L, id) = {row.payee} /\ LockOf(L, row, id).agent = row.agent

NoLocks(a) ==
  /\ ~HasVestingLocks(a)
  /\ ~HasNodeStakingLocks(a)
  /\ \A id \in EscrowIds : a.escrow[id] = Missing

\* Whoever may be sent tokens by the node itself has an account: the payer of an escrow,
\* the owner of a node, and the account of the fees, on which nothing is ever locked.
PayeesExist(L) ==
  /\ \A id \in EscrowIds : Rows(L)[id] # Missing => L.accounts[Rows(L)[id].payer].exists
  /\ \A n \in Nodes : L.accounts[OwnerOf[n]].exists
  /\ L.accounts[FeesAccount].exists
  /\ NoLocks(L.accounts[FeesAccount])

\* No key is both put and deleted in the cache.
CacheDisjoint(L) == \A id \in L.cache.del : L.cache.ins[id] = Missing

\* A planned unlock never exceeds its stake, and a vesting lock never holds less than what
\* its schedule keeps back from the given day on.
InTime(a, day) ==
  /\ \A n \in Nodes : a.stake[n] # Missing => a.stake[n].unlock <= a.stake[n].amount
  /\ \A i \in DOMAIN a.vesting, d \in day..MaxDay :
       Unreleased(a.vesting[i], d) <= a.vesting[i].locked

LocksInTime(L, day) == \A x \in Accounts : InTime(L.accounts[x], day)

Sound(L, day) ==
  /\ L \in Ledgers
  /\ Indexed(L)
  /\ Covered(L)
  /\ RowsMatchLocks(L)
  /\ PayeesExist(L)
  /\ CacheDisjoint(L)
  /\ LocksInTime(L, day)

\* What is left to do of the daily updates of day d: nothing.
NothingDue(L, d) ==
  \A x \in Accounts : LET a == L.accounts[x] IN
    /\ \A id \in EscrowIds : a.escrow[id] # Missing => d <= a.escrow[id].end
    /\ \A n \in Nodes : ~IsUnlocking(a.stake[n], d) /\ ~IsSlashed(a.stake[n], d)
    /\ \A i \in DOMAIN a.vesting : a.vesting[i].locked = Unreleased(a.vesting[i], d)

\* A stake of account a is to be slashed.
HasWarnings(a) == \E n \in Nodes : a.stake[n] # Missing /\ a.stake[n].slashDay # Missing

\* No node has misbehaved.
Unwarned(L) == \A x \in Accounts : ~HasWarnings(L.accounts[x])

------------------------------------------------------------------------------
(* The tokens *)

TotalBalance(L) == SumFunction([x \in Accounts |-> L.accounts[x].balance])
==============================================================================
