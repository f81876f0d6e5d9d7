------------------------------- MODULE Balance -------------------------------
(***************************************************************************)
(* The state of a token account, as the SDK's BalanceAvailability manages  *)
(* it for the handlers of src/carmentis/abci/accounts.  The class is not   *)
(* part of the repository: it is modelled from its uses there and from the *)
(* amounts that Abci.spec.ts expects.                                      *)
(*                                                                         *)
(* An account owns a balance, part of which is locked:                     *)
(*   vesting - the vesting locks, each released linearly, day by day,      *)
(*             after a cliff;                                              *)
(*   escrow  - for each escrow identifier, the lock or Missing;            *)
(*   stake   - for each validator node, the lock or Missing, with at most  *)
(*             one planned unlock and one planned slashing.                *)
(* Times are days: every caller rounds with Utils.addDaysToTimestamp().    *)
(***************************************************************************)
EXTENDS Integers, SequencesExt, Overlay

CONSTANTS
  EscrowIds,   \* the escrow identifiers users choose
  Nodes        \* the validator nodes

\* What loadAccountInformation() returns for an account without a record; a special
\* account exists all the same.
NewAccount(exists) ==
  [exists |-> exists, balance |-> 0, vesting |-> <<>>,
   escrow |-> [e \in EscrowIds |-> Missing], stake |-> [n \in Nodes |-> Missing]]

AmountOf(lock) == IF lock = Missing THEN 0 ELSE lock.amount

LockedBy(locks) == SumFunction([k \in DOMAIN locks |-> AmountOf(locks[k])])

Vested(a) == SumFunction([i \in DOMAIN a.vesting |-> a.vesting[i].locked])

\* getBreakdown().staked
Staked(a) == LockedBy(a.stake)

Locked(a) == Vested(a) + LockedBy(a.escrow) + Staked(a)

\* getBreakdown().spendable
Spendable(a) == a.balance - Locked(a)

AddSpendableTokens(a, amount) == [a EXCEPT !.balance = @ + amount]

------------------------------------------------------------------------------
(* Vesting *)

\* What a vesting lock still holds on a given day.
Unreleased(lock, day) ==
  LET elapsed == day - (lock.start + lock.cliff) IN
    IF elapsed <= 0 THEN lock.initial
    ELSE IF elapsed >= lock.duration THEN 0
    ELSE lock.initial - (lock.initial * elapsed) \div lock.duration

\* p holds the start, cliff and duration of the vesting.
AddVestedTokens(a, amount, p) ==
  [AddSpendableTokens(a, amount) EXCEPT
     !.vesting = Append(@, [initial |-> amount, locked |-> amount, start |-> p.start,
                            cliff |-> p.cliff, duration |-> p.duration])]

\* The locks that still hold something.
Holding(locks) ==
  FoldLeft(LAMBDA held, lock : IF lock.locked > 0 THEN Append(held, lock) ELSE held, <<>>, locks)

ApplyLinearVesting(a, day) ==
  LET updated == [i \in DOMAIN a.vesting |->
                    [a.vesting[i] EXCEPT !.locked = Unreleased(a.vesting[i], day)]]
  IN  [a EXCEPT !.vesting = Holding(updated)]

HasVestingLocks(a) == a.vesting # <<>>

------------------------------------------------------------------------------
(* Escrow *)

AddEscrowedTokens(a, id, lock) ==
  [AddSpendableTokens(a, lock.amount) EXCEPT !.escrow[id] = lock]

RemoveEscrowLock(a, id) == [a EXCEPT !.escrow[id] = Missing]

------------------------------------------------------------------------------
(* Staking *)

NodeStakingLockAmount(a, node) == AmountOf(a.stake[node])

AddNodeStaking(a, amount, node) ==
  LET lock == IF a.stake[node] = Missing
              THEN [amount |-> amount, unlock |-> 0, unlockDay |-> 0, slashDay |-> Missing]
              ELSE [a.stake[node] EXCEPT !.amount = @ + amount]
  IN  [a EXCEPT !.stake[node] = lock]

PlanNodeStakingUnlock(a, amount, node, day) ==
  [a EXCEPT !.stake[node].unlock = amount, !.stake[node].unlockDay = day]

IsUnlocking(lock, day) == lock # Missing /\ lock.unlock > 0 /\ lock.unlockDay <= day

\* Mutation: a stake that is unlocked as a whole leaves an empty lock behind.
ApplyNodeStakingUnlocks_KeepsEmptyLock(a, day) ==
  [a EXCEPT !.stake = [n \in Nodes |->
     LET lock == a.stake[n] IN
       IF ~IsUnlocking(lock, day) THEN lock
       ELSE [lock EXCEPT !.amount = @ - lock.unlock, !.unlock = 0]]]

\* What applyNodeStakingUnlocks() does to the locks: a stake that is unlocked as a whole
\* is removed.
ApplyNodeStakingUnlocks(a, day) ==
  [a EXCEPT !.stake = [n \in Nodes |->
     LET lock == a.stake[n] IN
       IF ~IsUnlocking(lock, day) THEN lock
       ELSE IF lock.unlock = lock.amount THEN Missing
       ELSE [lock EXCEPT !.amount = @ - lock.unlock, !.unlock = 0]]]

HasNodeStakingLocks(a) == \E n \in Nodes : a.stake[n] # Missing

CancelNodeSlashing(a, node) == [a EXCEPT !.stake[node].slashDay = Missing]

IsSlashed(lock, day) == lock # Missing /\ lock.slashDay # Missing /\ lock.slashDay <= day

\* What applyNodeSlashing() takes from an account: the whole stake of the nodes
\* whose grace period has ended.
SlashedAmount(a, day) ==
  SumFunction([n \in Nodes |-> IF IsSlashed(a.stake[n], day) THEN a.stake[n].amount ELSE 0])

ApplyNodeSlashing(a, day) ==
  [a EXCEPT !.balance = @ - SlashedAmount(a, day),
            !.stake = [n \in Nodes |-> IF IsSlashed(@[n], day) THEN Missing ELSE @[n]]]
==============================================================================
