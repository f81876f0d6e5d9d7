---------------------------- MODULE AccountProofs ----------------------------
(***************************************************************************)
(* Lemmas about the handlers of Accounts, for every account and ledger.    *)
(*                                                                         *)
(* First about the operations of Balance: what each of them does to the    *)
(* type of an account, to its balance, and to what is spendable.  What is  *)
(* locked is a sum over the locks, so that the lemmas of FoldTheorems say  *)
(* how it changes with one of them.  Then about FeesDispatcher.dispatch(): *)
(* the rounded shares never exceed the fees, and the units of the          *)
(* remainder are each given to exactly one validator, so that counted by   *)
(* the validators they are as many as the remainder.                       *)
(*                                                                         *)
(* Then about ledgers, handler by handler, in two passes.  One shows that  *)
(* the index tables of the daily updates list every account that has       *)
(* something locked: only CreditVested and Stake add locks, only           *)
(* UpdateVestingLocks and ApplyUnlocks delete rows, and this needs nothing *)
(* but the shape of the ledger.  The other shows what becomes of the       *)
(* tokens and of the rows of table ESCROWS: a handler saves one account    *)
(* after another, and the lemmas say what each save does to the total and  *)
(* to what is spendable.                                                   *)
(***************************************************************************)
EXTENDS LedgerState, FoldTheorems

------------------------------------------------------------------------------
(* Sums of locks *)

\* The amounts that a function of locks holds.
Amounts(locks) == [k \in DOMAIN locks |-> AmountOf(locks[k])]

\* The locks of type T hold natural numbers.
LockType(T) == \A lock \in T : lock.amount \in Nat

LEMMA AmountsAreNatural ==
  ASSUME NEW T, LockType(T), NEW K, NEW locks \in [K -> T \cup {Missing}]
  PROVE  /\ DOMAIN locks = K
         /\ \A k \in K : Amounts(locks)[k] = AmountOf(locks[k]) /\ AmountOf(locks[k]) \in Nat
<1>1. \A k \in K : AmountOf(locks[k]) \in Nat
  <2> SUFFICES ASSUME NEW k \in K PROVE AmountOf(locks[k]) \in Nat
    OBVIOUS
  <2>1. CASE locks[k] = Missing
    BY <2>1 DEF AmountOf
  <2>2. CASE locks[k] # Missing
    <3>1. locks[k] \in T
      BY <2>2
    <3> QED
      BY <2>2, <3>1 DEF AmountOf, LockType
  <2> QED
    BY <2>1, <2>2
<1> QED
  BY <1>1 DEF Amounts

LEMMA LockedByType ==
  ASSUME NEW T, LockType(T), NEW K, IsFiniteSet(K), NEW locks \in [K -> T \cup {Missing}]
  PROVE  /\ Summable(Amounts(locks), K)
         /\ LockedBy(locks) = SumFunctionOnSet(Amounts(locks), K)
         /\ LockedBy(locks) \in Nat
<1>1. /\ DOMAIN locks = K
      /\ \A k \in K : Amounts(locks)[k] = AmountOf(locks[k]) /\ AmountOf(locks[k]) \in Nat
  BY AmountsAreNatural
<1>2. LockedBy(locks) = SumFunctionOnSet(Amounts(locks), K)
  BY <1>1 DEF LockedBy, SumFunction, Amounts
<1>3. Summable(Amounts(locks), K) /\ \A k \in K : Amounts(locks)[k] >= 0
  BY <1>1 DEF Summable
<1>4. SumFunctionOnSet(Amounts(locks), K) \in Nat
  BY <1>3, SumOfNaturals
<1> QED
  BY <1>2, <1>3, <1>4

\* Each amount gets smaller by d.
LEMMA LockedByDifference ==
  ASSUME NEW T, LockType(T), NEW K, IsFiniteSet(K),
         NEW locks \in [K -> T \cup {Missing}], NEW less \in [K -> T \cup {Missing}],
         NEW d, Summable(d, K), \A k \in K : AmountOf(less[k]) = AmountOf(locks[k]) - d[k]
  PROVE  LockedBy(less) = LockedBy(locks) - SumFunctionOnSet(d, K)
<1>1. /\ \A k \in K : Amounts(locks)[k] = AmountOf(locks[k])
      /\ \A k \in K : Amounts(less)[k] = AmountOf(less[k])
  BY AmountsAreNatural
<1>2. /\ Summable(Amounts(locks), K)
      /\ LockedBy(locks) = SumFunctionOnSet(Amounts(locks), K)
      /\ LockedBy(less) = SumFunctionOnSet(Amounts(less), K)
  BY LockedByType
<1>3. \A k \in K : Amounts(less)[k] = Amounts(locks)[k] - d[k]
  BY <1>1
<1>4. SumFunctionOnSet(Amounts(less), K)
        = SumFunctionOnSet(Amounts(locks), K) - SumFunctionOnSet(d, K)
  BY <1>2, <1>3, SumOfDifferences
<1> QED
  BY <1>2, <1>4

\* One lock changes.
LEMMA LockedByUpdate ==
  ASSUME NEW T, LockType(T), NEW K, IsFiniteSet(K),
         NEW locks \in [K -> T \cup {Missing}], NEW j \in K, NEW lock \in T \cup {Missing}
  PROVE  /\ [locks EXCEPT ![j] = lock] \in [K -> T \cup {Missing}]
         /\ LockedBy([locks EXCEPT ![j] = lock])
              = LockedBy(locks) - AmountOf(locks[j]) + AmountOf(lock)
<1> DEFINE new == [locks EXCEPT ![j] = lock]
<1>1. new \in [K -> T \cup {Missing}] /\ \A k \in K : new[k] = IF k = j THEN lock ELSE locks[k]
  OBVIOUS
<1> HIDE DEF new
<1>2. /\ \A k \in K : Amounts(locks)[k] = AmountOf(locks[k])
      /\ \A k \in K : Amounts(new)[k] = AmountOf(new[k]) /\ AmountOf(new[k]) \in Nat
  BY <1>1, AmountsAreNatural
<1>3. /\ Summable(Amounts(locks), K)
      /\ LockedBy(locks) = SumFunctionOnSet(Amounts(locks), K)
      /\ LockedBy(new) = SumFunctionOnSet(Amounts(new), K)
  BY <1>1, LockedByType
<1>4. Amounts(new)[j] \in Int /\ \A k \in K \ {j} : Amounts(new)[k] = Amounts(locks)[k]
  BY <1>1, <1>2
<1>5. SumFunctionOnSet(Amounts(new), K)
        = SumFunctionOnSet(Amounts(locks), K) - Amounts(locks)[j] + Amounts(new)[j]
  BY <1>3, <1>4, SumOfUpdate
<1>6. LockedBy(new) = LockedBy(locks) - AmountOf(locks[j]) + AmountOf(lock)
  BY <1>1, <1>2, <1>3, <1>5
<1> QED
  BY <1>1, <1>6 DEF new

\* The amounts stay.
LEMMA LockedBySame ==
  ASSUME NEW T, LockType(T), NEW K, IsFiniteSet(K),
         NEW locks \in [K -> T \cup {Missing}], NEW other \in [K -> T \cup {Missing}],
         \A k \in K : AmountOf(other[k]) = AmountOf(locks[k])
  PROVE  LockedBy(other) = LockedBy(locks)
<1>1. /\ \A k \in K : Amounts(locks)[k] = AmountOf(locks[k])
      /\ \A k \in K : Amounts(other)[k] = AmountOf(other[k])
  BY AmountsAreNatural
<1>2. /\ Summable(Amounts(locks), K)
      /\ LockedBy(locks) = SumFunctionOnSet(Amounts(locks), K)
      /\ LockedBy(other) = SumFunctionOnSet(Amounts(other), K)
  BY LockedByType
<1>3. \A k \in K : Amounts(other)[k] = Amounts(locks)[k]
  BY <1>1
<1>4. SumFunctionOnSet(Amounts(other), K) = SumFunctionOnSet(Amounts(locks), K)
  BY <1>2, <1>3, SumOfSame
<1> QED
  BY <1>2, <1>4

LEMMA LockTypes == LockType(EscrowLocks) /\ LockType(StakeLocks)
  BY DEF LockType, EscrowLocks, StakeLocks

------------------------------------------------------------------------------
(* Vesting locks *)

\* What the vesting locks v hold, one by one and in all.
Holdings(v) == [i \in DOMAIN v |-> v[i].locked]
VestedBy(v) == SumFunctionOnSet(Holdings(v), DOMAIN v)

LEMMA VestedByType ==
  ASSUME NEW v \in Seq(VestingLocks)
  PROVE  /\ DOMAIN v = 1..Len(v) /\ Len(v) \in Nat
         /\ \A i \in 1..Len(v) : Holdings(v)[i] = v[i].locked /\ v[i].locked \in Nat
         /\ Summable(Holdings(v), 1..Len(v))
         /\ VestedBy(v) = SumFunctionOnSet(Holdings(v), 1..Len(v))
         /\ VestedBy(v) \in Nat
<1>1. DOMAIN v = 1..Len(v) /\ Len(v) \in Nat
  OBVIOUS
<1>2. \A i \in 1..Len(v) : v[i].locked \in Nat
  <2> SUFFICES ASSUME NEW i \in 1..Len(v) PROVE v[i].locked \in Nat
    OBVIOUS
  <2>1. v[i] \in VestingLocks
    OBVIOUS
  <2> QED
    BY <2>1 DEF VestingLocks
<1>3. \A i \in 1..Len(v) : Holdings(v)[i] = v[i].locked
  BY <1>1 DEF Holdings
<1>4. IsFiniteSet(1..Len(v))
  BY <1>1, FS_Interval
<1>5. Summable(Holdings(v), 1..Len(v)) /\ \A i \in 1..Len(v) : Holdings(v)[i] >= 0
  BY <1>2, <1>3, <1>4 DEF Summable
<1>6. VestedBy(v) = SumFunctionOnSet(Holdings(v), 1..Len(v))
  BY <1>1 DEF VestedBy
<1>7. SumFunctionOnSet(Holdings(v), 1..Len(v)) \in Nat
  BY <1>5, SumOfNaturals
<1> QED
  BY <1>1, <1>2, <1>3, <1>5, <1>6, <1>7

LEMMA VestedIsVestedBy == ASSUME NEW a PROVE Vested(a) = VestedBy(a.vesting)
  BY DEF Vested, VestedBy, Holdings, SumFunction

LEMMA VestedByNothing == VestedBy(<<>>) = 0
<1>1. DOMAIN <<>> = {}
  OBVIOUS
<1>2. VestedBy(<<>>) = SumFunctionOnSet(Holdings(<<>>), {})
  BY <1>1 DEF VestedBy
<1> QED
  BY <1>2, SumOfNothing

LEMMA VestedByAppend ==
  ASSUME NEW v \in Seq(VestingLocks), NEW lock \in VestingLocks
  PROVE  /\ Append(v, lock) \in Seq(VestingLocks)
         /\ VestedBy(Append(v, lock)) = VestedBy(v) + lock.locked
<1> DEFINE n == Len(v) + 1
           w == Append(v, lock)
<1>1. /\ w \in Seq(VestingLocks) /\ Len(w) = n /\ n \in Nat /\ n \in 1..n
      /\ w[n] = lock /\ \A i \in 1..Len(v) : w[i] = v[i]
      /\ (1..n) \ {n} = 1..Len(v)
  OBVIOUS
<1> HIDE DEF w
<1>2. /\ \A i \in 1..n : Holdings(w)[i] = w[i].locked
      /\ Summable(Holdings(w), 1..n)
      /\ VestedBy(w) = SumFunctionOnSet(Holdings(w), 1..n)
  BY <1>1, VestedByType
<1>3. /\ \A i \in 1..Len(v) : Holdings(v)[i] = v[i].locked
      /\ Summable(Holdings(v), 1..Len(v))
      /\ VestedBy(v) = SumFunctionOnSet(Holdings(v), 1..Len(v))
      /\ VestedBy(v) \in Nat
  BY VestedByType
<1>4. SumFunctionOnSet(Holdings(w), 1..n)
        = Holdings(w)[n] + SumFunctionOnSet(Holdings(w), (1..n) \ {n})
  BY <1>1, <1>2, SumRemove
<1>5. \A i \in 1..Len(v) : Holdings(w)[i] = Holdings(v)[i]
  <2> SUFFICES ASSUME NEW i \in 1..Len(v) PROVE Holdings(w)[i] = Holdings(v)[i]
    OBVIOUS
  <2>1. i \in 1..n
    BY <1>1
  <2> QED
    BY <1>1, <1>2, <1>3, <2>1
<1>6. SumFunctionOnSet(Holdings(w), 1..Len(v)) = SumFunctionOnSet(Holdings(v), 1..Len(v))
  BY <1>3, <1>5, SumOfSame
<1>7. Holdings(w)[n] = lock.locked
  BY <1>1, <1>2
<1>8. lock.locked \in Nat
  BY DEF VestingLocks
<1>9. VestedBy(w) = lock.locked + SumFunctionOnSet(Holdings(w), 1..Len(v))
  BY <1>1, <1>2, <1>4, <1>7
<1>10. VestedBy(w) = VestedBy(v) + lock.locked
  BY <1>3, <1>6, <1>8, <1>9
<1> QED
  BY <1>1, <1>10 DEF w

\* Locks that each hold no more than before.
LEMMA VestedByDecreases ==
  ASSUME NEW v \in Seq(VestingLocks), NEW w \in Seq(VestingLocks), Len(w) = Len(v),
         \A i \in 1..Len(v) : w[i].locked <= v[i].locked
  PROVE  VestedBy(w) <= VestedBy(v)
<1>1. /\ \A i \in 1..Len(v) : Holdings(v)[i] = v[i].locked
      /\ Summable(Holdings(v), 1..Len(v))
      /\ VestedBy(v) = SumFunctionOnSet(Holdings(v), 1..Len(v))
  BY VestedByType
<1>2. /\ \A i \in 1..Len(v) : Holdings(w)[i] = w[i].locked
      /\ Summable(Holdings(w), 1..Len(v))
      /\ VestedBy(w) = SumFunctionOnSet(Holdings(w), 1..Len(v))
  BY VestedByType
<1>3. \A i \in 1..Len(v) : Holdings(w)[i] <= Holdings(v)[i]
  BY <1>1, <1>2
<1>4. SumFunctionOnSet(Holdings(w), 1..Len(v)) <= SumFunctionOnSet(Holdings(v), 1..Len(v))
  BY <1>1, <1>2, <1>3, SumIsMonotonic
<1> QED
  BY <1>1, <1>2, <1>4

------------------------------------------------------------------------------
(* Filtering the vesting locks *)

\* The step of the fold in Holding.
FilterStep(v, V) ==
  [p \in (1..Len(v)) \X V |-> IF v[p[1]].locked > 0 THEN Append(p[2], v[p[1]]) ELSE p[2]]

IsHoldingFold(h, v) ==
  h = [s \in SUBSET DOMAIN v |->
         IF s = {} THEN <<>>
         ELSE LET i == Max(s)
              IN  IF v[i].locked > 0 THEN Append(h[s \ {i}], v[i]) ELSE h[s \ {i}]]

LEMMA HoldingDefinition ==
  ASSUME NEW v
  PROVE  Holding(v) = (CHOOSE h : IsHoldingFold(h, v))[DOMAIN v]
  BY DEF Holding, FoldLeft, MapThenFoldSet, IsHoldingFold

\* Holding goes through the locks from the first to the last.
LEMMA HoldingByPrefix ==
  ASSUME NEW R, NEW v \in Seq(R)
  PROVE  \E h \in [0..Len(v) -> Seq(R)] :
            /\ h[0] = <<>>
            /\ h[Len(v)] = Holding(v)
            /\ \A i \in 1..Len(v) :
                 h[i] = IF v[i].locked > 0 THEN Append(h[i - 1], v[i]) ELSE h[i - 1]
<1> DEFINE n == Len(v)
           V == Seq(R)
           step == FilterStep(v, V)
<1>1. n \in Nat /\ DOMAIN v = 1..n /\ <<>> \in V
  OBVIOUS
<1>2. step \in [(1..n) \X V -> V]
  BY DEF FilterStep
<1>3. \A i \in 1..n, q \in V :
        step[<<i, q>>] = IF v[i].locked > 0 THEN Append(q, v[i]) ELSE q
  BY DEF FilterStep
<1> HIDE DEF step, V, n
<1>4. PICK g \in [SUBSET (1..n) -> V] : IsLeftFold(g, step, <<>>, n)
  BY <1>1, <1>2, LeftFoldExists
<1>5. IsHoldingFold(g, v)
  <2> SUFFICES ASSUME NEW s \in SUBSET (1..n)
               PROVE  g[s] = IF s = {} THEN <<>>
                             ELSE LET i == Max(s)
                                  IN  IF v[i].locked > 0 THEN Append(g[s \ {i}], v[i])
                                      ELSE g[s \ {i}]
    BY <1>1, <1>4 DEF IsHoldingFold
  <2>1. g[s] = IF s = {} THEN <<>> ELSE step[<<Max(s), g[s \ {Max(s)}]>>]
    BY <1>4 DEF IsLeftFold
  <2>2. CASE s = {}
    BY <2>1, <2>2
  <2>3. CASE s # {}
    <3>1. Max(s) \in 1..n /\ g[s \ {Max(s)}] \in V
      BY <1>1, <1>4, <2>3, MaxOfPositions
    <3> QED
      BY <1>3, <2>1, <2>3, <3>1
  <2> QED
    BY <2>2, <2>3
<1> DEFINE k == CHOOSE h : IsHoldingFold(h, v)
<1>6. IsHoldingFold(k, v)
  BY <1>5
<1> HIDE DEF k
<1>7. FoldsWithin(k, step, <<>>, n, V)
  <2> SUFFICES ASSUME NEW s \in SUBSET (1..n)
               PROVE  /\ s = {} => k[s] = <<>>
                      /\ s # {} /\ k[s \ {Max(s)}] \in V
                           => k[s] = step[<<Max(s), k[s \ {Max(s)}]>>]
    BY DEF FoldsWithin
  <2>1. k[s] = IF s = {} THEN <<>>
               ELSE LET i == Max(s)
                    IN  IF v[i].locked > 0 THEN Append(k[s \ {i}], v[i]) ELSE k[s \ {i}]
    BY <1>1, <1>6 DEF IsHoldingFold
  <2>2. s # {} => Max(s) \in 1..n
    BY <1>1, MaxOfPositions
  <2> QED
    BY <1>3, <2>1, <2>2
<1>8. k[1..n] = g[1..n]
  <2>1. n \in Nat /\ g \in [SUBSET (1..n) -> V] /\ IsLeftFold(g, step, <<>>, n)
    BY <1>1, <1>4
  <2>2. SameFold(k, g, n)
    BY <1>7, <2>1, LeftFoldUnique
  <2> QED
    BY <2>2 DEF SameFold
<1>9. Holding(v) = g[1..n]
  BY <1>1, <1>8, HoldingDefinition DEF k
<1>10. PICK h \in [0..n -> V] : PrefixValues(h, g, step, <<>>, n)
  BY <1>1, <1>4, LeftFoldByPrefix
<1>11. \A i \in 1..n : h[i] = IF v[i].locked > 0 THEN Append(h[i - 1], v[i]) ELSE h[i - 1]
  <2> SUFFICES ASSUME NEW i \in 1..n
               PROVE  h[i] = IF v[i].locked > 0 THEN Append(h[i - 1], v[i]) ELSE h[i - 1]
    OBVIOUS
  <2>1. h[i - 1] \in V
    BY <1>1, <1>10
  <2> QED
    BY <1>3, <1>10, <2>1 DEF PrefixValues
<1> QED
  BY <1>9, <1>10, <1>11 DEF n, V, PrefixValues

\* Locks that hold nothing make no difference to the sum.
LEMMA HoldingKeepsSum ==
  ASSUME NEW v \in Seq(VestingLocks)
  PROVE  VestedBy(Holding(v)) = VestedBy(v)
<1> DEFINE n == Len(v)
           f == Holdings(v)
<1>1. /\ n \in Nat
      /\ \A i \in 1..n : f[i] = v[i].locked /\ v[i].locked \in Nat
      /\ Summable(f, 1..n)
      /\ VestedBy(v) = SumFunctionOnSet(f, 1..n)
  BY VestedByType
<1>2. PICK h \in [0..n -> Seq(VestingLocks)] :
         /\ h[0] = <<>>
         /\ h[n] = Holding(v)
         /\ \A i \in 1..n : h[i] = IF v[i].locked > 0 THEN Append(h[i - 1], v[i]) ELSE h[i - 1]
  BY HoldingByPrefix
<1> DEFINE N == {i \in Nat : i <= n => VestedBy(h[i]) = SumFunctionOnSet(f, 1..i)}
<1>3. \A i \in 1..n : v[i] \in VestingLocks
  OBVIOUS
<1> HIDE DEF n, f
<1>4. 0 \in N
  <2>1. 1..0 = {}
    OBVIOUS
  <2> QED
    BY <1>2, <2>1, VestedByNothing, SumOfNothing
<1>5. ASSUME NEW j \in Nat, j \in N PROVE j + 1 \in N
  <2> SUFFICES ASSUME j + 1 <= n
               PROVE  VestedBy(h[j + 1]) = SumFunctionOnSet(f, 1..(j + 1))
    OBVIOUS
  <2> DEFINE i == j + 1
  <2>1. i \in 1..n /\ i - 1 = j /\ j <= n /\ j \in 0..n /\ i \in 1..i /\ (1..i) \ {i} = 1..j
    BY <1>1
  <2>2. h[j] \in Seq(VestingLocks) /\ VestedBy(h[j]) = SumFunctionOnSet(f, 1..j)
    BY <1>2, <1>5, <2>1
  <2> HIDE DEF i
  <2>3. Summable(f, 1..i)
    <3>1. 1..i \in SUBSET (1..n)
      BY <1>1, <2>1
    <3> QED
      BY <1>1, <3>1, SummableSubset
  <2>4. SumFunctionOnSet(f, 1..i) = f[i] + SumFunctionOnSet(f, 1..j)
    <3> DEFINE S == 1..i
    <3>1. Summable(f, S) /\ i \in S /\ S \ {i} = 1..j
      BY <2>1, <2>3
    <3> HIDE DEF S
    <3>2. SumFunctionOnSet(f, S) = f[i] + SumFunctionOnSet(f, S \ {i})
      BY <3>1, SumRemove
    <3>3. SumFunctionOnSet(f, S) = f[i] + SumFunctionOnSet(f, 1..j)
      BY <3>1, <3>2
    <3> QED
      BY <3>3 DEF S
  <2>5. h[i] = IF v[i].locked > 0 THEN Append(h[j], v[i]) ELSE h[j]
    BY <1>2, <2>1
  <2>6. f[i] = v[i].locked /\ v[i].locked \in Nat /\ v[i] \in VestingLocks
    BY <1>1, <1>3, <2>1
  <2>7. VestedBy(h[j]) \in Nat
    BY <2>2, VestedByType
  <2>8. VestedBy(h[i]) = VestedBy(h[j]) + v[i].locked
    <3>1. CASE v[i].locked > 0
      BY <2>2, <2>5, <2>6, <3>1, VestedByAppend
    <3>2. CASE ~(v[i].locked > 0)
      BY <2>5, <2>6, <2>7, <3>2
    <3> QED
      BY <3>1, <3>2
  <2>9. VestedBy(h[i]) = SumFunctionOnSet(f, 1..i)
    BY <2>2, <2>4, <2>6, <2>7, <2>8
  <2> QED
    BY <2>9 DEF i
<1>6. n \in N
  <2> HIDE DEF N
  <2>1. Nat \subseteq N
    BY <1>4, <1>5, InductionOnNumbers
  <2> QED
    BY <1>1, <2>1
<1> QED
  BY <1>1, <1>2, <1>6

\* Every lock that is kept was there.
LEMMA HoldingKeepsLocks ==
  ASSUME NEW R, NEW v \in Seq(R)
  PROVE  Holding(v) \in Seq(R)
<1>1. PICK h \in [0..Len(v) -> Seq(R)] : h[Len(v)] = Holding(v)
  BY HoldingByPrefix
<1>2. Len(v) \in 0..Len(v)
  OBVIOUS
<1> QED
  BY <1>1, <1>2

------------------------------------------------------------------------------
(* The schedule of a vesting lock *)

\* Division is monotonic.
LEMMA DivIsMonotonic ==
  ASSUME NEW x \in Nat, NEW y \in Nat, x <= y, NEW d \in Nat, d > 0
  PROVE  x \div d <= y \div d /\ x \div d \in Nat
  OBVIOUS

LEMMA ProductIsMonotonic ==
  ASSUME NEW n \in Nat, NEW x \in Nat, NEW y \in Nat, x <= y
  PROVE  n * x <= n * y /\ n * x \in Nat /\ n * y \in Nat
  OBVIOUS

LEMMA DivOfProduct ==
  ASSUME NEW n \in Nat, NEW d \in Nat, d > 0
  PROVE  (n * d) \div d = n
  OBVIOUS

\* What a lock still holds is between nothing and all of it, and never grows.
LEMMA ScheduleDecreases ==
  ASSUME NEW lock \in VestingLocks, NEW c \in Int, NEW d \in Int, c <= d
  PROVE  /\ Unreleased(lock, d) \in Nat
         /\ Unreleased(lock, d) <= Unreleased(lock, c)
         /\ Unreleased(lock, d) <= lock.initial
<1> DEFINE n == lock.initial
           k == lock.duration
           E(x) == x - (lock.start + lock.cliff)
<1>1. n \in Nat /\ k \in Nat /\ lock.start + lock.cliff \in Int
  BY DEF VestingLocks
<1>2. \A x \in Int : E(x) \in Int
  BY <1>1
<1>3. E(c) <= E(d)
  BY <1>1
<1>4. \A x \in Int : Unreleased(lock, x) = IF E(x) <= 0 THEN n
                                           ELSE IF E(x) >= k THEN 0
                                           ELSE n - (n * E(x)) \div k
  BY DEF Unreleased
<1> HIDE DEF E, n, k
<1>5. ASSUME NEW e \in Nat, e < k
      PROVE  (n * e) \div k \in Nat /\ (n * e) \div k <= n
  <2>1. n * e <= n * k /\ n * e \in Nat /\ n * k \in Nat /\ k > 0
    BY <1>1, <1>5, ProductIsMonotonic
  <2>2. (n * e) \div k <= (n * k) \div k /\ (n * e) \div k \in Nat
    BY <1>1, <2>1, DivIsMonotonic
  <2>3. (n * k) \div k = n
    BY <1>1, <2>1, DivOfProduct
  <2> QED
    BY <2>2, <2>3
<1>6. ASSUME NEW e \in Nat, NEW g \in Nat, e <= g, g < k
      PROVE  (n * e) \div k <= (n * g) \div k
  <2>1. n * e <= n * g /\ n * e \in Nat /\ n * g \in Nat /\ k > 0
    BY <1>1, <1>6, ProductIsMonotonic
  <2> QED
    BY <1>1, <2>1, DivIsMonotonic
<1>7. ASSUME NEW x \in Int PROVE Unreleased(lock, x) \in Nat /\ Unreleased(lock, x) <= n
  <2>1. CASE E(x) <= 0 \/ E(x) >= k
    BY <1>1, <1>2, <1>4, <2>1
  <2>2. CASE ~(E(x) <= 0 \/ E(x) >= k)
    <3>1. E(x) \in Nat /\ E(x) < k
      BY <1>1, <1>2, <2>2
    <3>2. (n * E(x)) \div k \in Nat /\ (n * E(x)) \div k <= n
      BY <1>5, <3>1
    <3> DEFINE q == (n * E(x)) \div k
    <3>3. Unreleased(lock, x) = n - q
      BY <1>4, <2>2
    <3> HIDE DEF q
    <3> QED
      BY <1>1, <3>2, <3>3 DEF q
  <2> QED
    BY <2>1, <2>2
<1>8. Unreleased(lock, d) <= Unreleased(lock, c)
  <2>1. CASE E(c) <= 0
    <3>1. Unreleased(lock, c) = n
      BY <1>4, <2>1
    <3> QED
      BY <1>7, <3>1
  <2>2. CASE E(d) >= k /\ ~(E(d) <= 0)
    <3>1. Unreleased(lock, d) = 0
      BY <1>4, <2>2
    <3> QED
      BY <1>7, <3>1
  <2>3. CASE ~(E(c) <= 0) /\ ~(E(d) >= k)
    <3>1. /\ E(c) \in Nat /\ E(d) \in Nat /\ E(d) < k /\ E(c) < k
          /\ ~(E(c) >= k) /\ ~(E(d) <= 0)
      BY <1>1, <1>2, <1>3, <2>3
    <3> DEFINE q == (n * E(c)) \div k
               r == (n * E(d)) \div k
    <3>2. q <= r /\ q \in Nat /\ r \in Nat
      BY <1>3, <1>5, <1>6, <3>1
    <3>3. Unreleased(lock, c) = n - q /\ Unreleased(lock, d) = n - r
      BY <1>4, <2>3, <3>1
    <3> HIDE DEF q, r
    <3> QED
      BY <1>1, <3>2, <3>3
  <2> QED
    BY <1>1, <1>2, <1>3, <2>1, <2>2, <2>3
<1> QED
  BY <1>7, <1>8 DEF n

------------------------------------------------------------------------------
(* Accounts *)

\* The locks of an account.
Vestings == Seq(VestingLocks)
Escrows == [EscrowIds -> EscrowLocks \cup {Missing}]
Stakes == [Nodes -> StakeLocks \cup {Missing}]

\* An account whose balance may be any integer.
OpenAccounts ==
  [exists : BOOLEAN, balance : Int, vesting : Vestings,
   escrow : Escrows,
   stake : Stakes]

\* The account with these fields.
Account(exists, balance, vesting, escrow, stake) ==
  [exists |-> exists, balance |-> balance, vesting |-> vesting, escrow |-> escrow,
   stake |-> stake]

LEMMA AccountFields ==
  ASSUME NEW a \in OpenAccounts
  PROVE  /\ a = Account(a.exists, a.balance, a.vesting, a.escrow, a.stake)
         /\ a.exists \in BOOLEAN
         /\ a.balance \in Int
         /\ a.vesting \in Vestings
         /\ a.escrow \in Escrows
         /\ a.stake \in Stakes
  BY DEF OpenAccounts, Account

LEMMA AccountType ==
  ASSUME NEW e \in BOOLEAN, NEW n \in Int, NEW v \in Vestings,
         NEW esc \in Escrows,
         NEW st \in Stakes
  PROVE  /\ Account(e, n, v, esc, st) \in OpenAccounts
         /\ Account(e, n, v, esc, st).exists = e
         /\ Account(e, n, v, esc, st).balance = n
         /\ Account(e, n, v, esc, st).vesting = v
         /\ Account(e, n, v, esc, st).escrow = esc
         /\ Account(e, n, v, esc, st).stake = st
  BY DEF OpenAccounts, Account

\* What is spendable, from the sums of the locks.
LEMMA SpendableOf ==
  ASSUME NEW a \in OpenAccounts
  PROVE  /\ Spendable(a) = a.balance - (VestedBy(a.vesting) + LockedBy(a.escrow) + LockedBy(a.stake))
         /\ VestedBy(a.vesting) \in Nat /\ LockedBy(a.escrow) \in Nat /\ LockedBy(a.stake) \in Nat
         /\ Spendable(a) \in Int
<1>1. /\ a.balance \in Int
      /\ a.vesting \in Vestings
      /\ a.escrow \in Escrows
      /\ a.stake \in Stakes
  BY AccountFields
<1>2. VestedBy(a.vesting) \in Nat
  BY <1>1, VestedByType DEF Vestings
<1>3. LockedBy(a.escrow) \in Nat
  BY <1>1, LockedByType, LockTypes, LedgerAssumption DEF Escrows, Stakes
<1>4. LockedBy(a.stake) \in Nat
  BY <1>1, LockedByType, LockTypes, LedgerAssumption DEF Escrows, Stakes
<1>5. Spendable(a) = a.balance - (VestedBy(a.vesting) + LockedBy(a.escrow) + LockedBy(a.stake))
  BY VestedIsVestedBy DEF Spendable, Locked, Staked
<1> QED
  BY <1>1, <1>2, <1>3, <1>4, <1>5

LEMMA CoveredAccount ==
  ASSUME NEW a \in OpenAccounts, Spendable(a) >= 0
  PROVE  a \in AccountStates
<1>1. a.balance \in Int
  BY AccountFields
<1>2. a.balance \in Nat
  BY <1>1, SpendableOf
<1> QED
  BY <1>2 DEF OpenAccounts, AccountStates, Vestings, Escrows, Stakes

\* Changing a field.
LEMMA FieldUpdates ==
  ASSUME NEW a \in OpenAccounts, NEW x, NEW b
  PROVE  /\ b = [a EXCEPT !.balance = x] => b = Account(a.exists, x, a.vesting, a.escrow, a.stake)
         /\ b = [a EXCEPT !.vesting = x] => b = Account(a.exists, a.balance, x, a.escrow, a.stake)
         /\ b = [a EXCEPT !.escrow = x] => b = Account(a.exists, a.balance, a.vesting, x, a.stake)
         /\ b = [a EXCEPT !.stake = x] => b = Account(a.exists, a.balance, a.vesting, a.escrow, x)
<1>1. b = [a EXCEPT !.balance = x] => b = Account(a.exists, x, a.vesting, a.escrow, a.stake)
  BY DEF OpenAccounts, Account
<1>2. b = [a EXCEPT !.vesting = x] => b = Account(a.exists, a.balance, x, a.escrow, a.stake)
  BY DEF OpenAccounts, Account
<1>3. b = [a EXCEPT !.escrow = x] => b = Account(a.exists, a.balance, a.vesting, x, a.stake)
  BY DEF OpenAccounts, Account
<1>4. b = [a EXCEPT !.stake = x] => b = Account(a.exists, a.balance, a.vesting, a.escrow, x)
  BY DEF OpenAccounts, Account
<1> QED
  BY <1>1, <1>2, <1>3, <1>4

LEMMA ExistsUpdate ==
  ASSUME NEW a \in OpenAccounts
  PROVE  [a EXCEPT !.exists = TRUE] = Account(TRUE, a.balance, a.vesting, a.escrow, a.stake)
<1>1. ASSUME NEW x
      PROVE  [a EXCEPT !.exists = x] = Account(x, a.balance, a.vesting, a.escrow, a.stake)
  BY DEF OpenAccounts, Account
<1> QED
  BY <1>1

LEMMA BalanceAndStakeUpdate ==
  ASSUME NEW a \in OpenAccounts, NEW n, NEW s, NEW b, b = [a EXCEPT !.balance = n, !.stake = s]
  PROVE  b = Account(a.exists, n, a.vesting, a.escrow, s)
<1>1. a \in [exists : {a.exists}, balance : {a.balance}, vesting : {a.vesting},
             escrow : {a.escrow}, stake : {a.stake}]
  BY DEF OpenAccounts
<1>2. b \in [exists : {a.exists}, balance : {n}, vesting : {a.vesting},
             escrow : {a.escrow}, stake : {s}]
  BY <1>1
<1> QED
  BY <1>2 DEF Account

------------------------------------------------------------------------------
(* Operations on an account *)

\* One vesting lock, and one stake, in time.
VestingInTime(lock, today) == \A d \in today..MaxDay : Unreleased(lock, d) <= lock.locked
StakeInTime(lock) == lock # Missing => lock.unlock <= lock.amount

VestingsInTime(v, today) == \A i \in 1..Len(v) : VestingInTime(v[i], today)
StakesInTime(s) == \A n \in Nodes : StakeInTime(s[n])

SoundAccount(a, today) == a \in OpenAccounts /\ InTime(a, today)

LEMMA SoundAccountFields ==
  ASSUME NEW a \in OpenAccounts, NEW today
  PROVE  SoundAccount(a, today) <=> VestingsInTime(a.vesting, today) /\ StakesInTime(a.stake)
<1>1. a.vesting \in Vestings
  BY AccountFields
<1>2. DOMAIN a.vesting = 1..Len(a.vesting)
  BY <1>1 DEF Vestings
<1> QED
  BY <1>2 DEF SoundAccount, InTime, VestingsInTime, VestingInTime, StakesInTime, StakeInTime

\* Account b is a with n more tokens, of which m are spendable.
Becomes(a, b, today, n, m) ==
  /\ SoundAccount(b, today)
  /\ b.exists = a.exists
  /\ b.balance = a.balance + n
  /\ Spendable(b) = Spendable(a) + m

\* Account b is sound and has these fields.
IsSound(b, today, x, n, v, e, s) ==
  /\ SoundAccount(b, today)
  /\ b.exists = x /\ b.balance = n /\ b.vesting = v /\ b.escrow = e /\ b.stake = s
  /\ Spendable(b) = n - (VestedBy(v) + LockedBy(e) + LockedBy(s))

LEMMA AccountEffect ==
  ASSUME NEW x \in BOOLEAN, NEW today, NEW n \in Int,
         NEW v \in Vestings, VestingsInTime(v, today),
         NEW e \in Escrows, NEW s \in Stakes, StakesInTime(s),
         NEW b, b = Account(x, n, v, e, s)
  PROVE  IsSound(b, today, x, n, v, e, s)
<1>1. /\ b \in OpenAccounts /\ b.exists = x /\ b.balance = n
      /\ b.vesting = v /\ b.escrow = e /\ b.stake = s
  BY AccountType
<1>2. SoundAccount(b, today)
  BY <1>1, SoundAccountFields
<1>3. Spendable(b) = n - (VestedBy(v) + LockedBy(e) + LockedBy(s))
  BY <1>1, SpendableOf
<1> QED
  BY <1>1, <1>2, <1>3 DEF IsSound

\* The fields of a sound account, and what they add up to.
LEMMA SoundParts ==
  ASSUME NEW a, NEW today, SoundAccount(a, today)
  PROVE  /\ a \in OpenAccounts
         /\ a.exists \in BOOLEAN
         /\ a.balance \in Int
         /\ a.vesting \in Vestings /\ VestingsInTime(a.vesting, today)
         /\ a.escrow \in Escrows
         /\ a.stake \in Stakes /\ StakesInTime(a.stake)
         /\ VestedBy(a.vesting) \in Nat /\ LockedBy(a.escrow) \in Nat /\ LockedBy(a.stake) \in Nat
         /\ Spendable(a) = a.balance
                             - (VestedBy(a.vesting) + LockedBy(a.escrow) + LockedBy(a.stake))
         /\ Spendable(a) \in Int
<1>1. a \in OpenAccounts
  BY DEF SoundAccount
<1> QED
  BY <1>1, AccountFields, SpendableOf, SoundAccountFields

LEMMA AddSpendableEffect ==
  ASSUME NEW a, NEW today, SoundAccount(a, today), NEW n \in Int,
         NEW b, b = AddSpendableTokens(a, n)
  PROVE  /\ Becomes(a, b, today, n, n)
         /\ b.vesting = a.vesting /\ b.escrow = a.escrow /\ b.stake = a.stake
<1>1. b = [a EXCEPT !.balance = a.balance + n]
  BY DEF AddSpendableTokens
<1>2. b = Account(a.exists, a.balance + n, a.vesting, a.escrow, a.stake)
  BY <1>1, SoundParts, FieldUpdates
<1>3. a.balance + n \in Int
  BY SoundParts
<1>4. IsSound(b, today, a.exists, a.balance + n, a.vesting, a.escrow, a.stake)
  BY <1>2, <1>3, SoundParts, AccountEffect
<1>5. Spendable(b) = Spendable(a) + n
  BY <1>4, SoundParts DEF IsSound
<1> QED
  BY <1>4, <1>5 DEF Becomes, IsSound

\* saveAccountState() marks the account as existing.
LEMMA ExistsEffect ==
  ASSUME NEW a, NEW today, SoundAccount(a, today), NEW b, b = [a EXCEPT !.exists = TRUE]
  PROVE  /\ SoundAccount(b, today)
         /\ b.exists
         /\ b.balance = a.balance
         /\ b.vesting = a.vesting /\ b.escrow = a.escrow /\ b.stake = a.stake
         /\ Spendable(b) = Spendable(a)
<1>1. b = Account(TRUE, a.balance, a.vesting, a.escrow, a.stake)
  BY SoundParts, ExistsUpdate
<1>2. \E x \in BOOLEAN : x /\ b = Account(x, a.balance, a.vesting, a.escrow, a.stake)
  BY <1>1
<1>3. PICK x \in BOOLEAN : x /\ b = Account(x, a.balance, a.vesting, a.escrow, a.stake)
  BY <1>2
<1>4. IsSound(b, today, x, a.balance, a.vesting, a.escrow, a.stake)
  BY <1>3, SoundParts, AccountEffect
<1> QED
  BY <1>3, <1>4, SoundParts DEF IsSound

\* The tokens of a new vesting lock are not spendable.
LEMMA AddVestedEffect ==
  ASSUME NEW a, NEW today \in Int, SoundAccount(a, today), NEW n \in Nat,
         NEW p, p.start \in Int, p.cliff \in Nat, p.duration \in Nat,
         NEW b, b = AddVestedTokens(a, n, p)
  PROVE  Becomes(a, b, today, n, 0) /\ b.escrow = a.escrow /\ b.stake = a.stake
<1> DEFINE lock == [initial |-> n, locked |-> n, start |-> p.start, cliff |-> p.cliff,
                    duration |-> p.duration]
           v == Append(a.vesting, lock)
           c == AddSpendableTokens(a, n)
<1>1. lock \in VestingLocks /\ lock.locked = n /\ lock.initial = n
  BY DEF VestingLocks
<1> HIDE DEF lock
<1>2. b = [c EXCEPT !.vesting = Append(c.vesting, lock)]
  BY DEF AddVestedTokens, lock
<1> HIDE DEF c
<1>3. /\ Becomes(a, c, today, n, n)
      /\ c.vesting = a.vesting /\ c.escrow = a.escrow /\ c.stake = a.stake
  BY AddSpendableEffect DEF c
<1>4. c \in OpenAccounts /\ c.exists = a.exists /\ c.balance = a.balance + n
  BY <1>3 DEF Becomes, SoundAccount
<1>5. b = Account(a.exists, a.balance + n, v, a.escrow, a.stake)
  <2>1. b = [c EXCEPT !.vesting = v]
    BY <1>2, <1>3
  <2> HIDE DEF v
  <2> QED
    BY <1>3, <1>4, <2>1, FieldUpdates
<1>6. v \in Vestings /\ VestedBy(v) = VestedBy(a.vesting) + n
  BY <1>1, SoundParts, VestedByAppend DEF Vestings
<1>7. VestingsInTime(v, today)
  <2>1. VestingInTime(lock, today)
    <3>1. \A d \in Int : Unreleased(lock, d) <= lock.initial
      BY <1>1, ScheduleDecreases
    <3> QED
      BY <1>1, <3>1, LedgerAssumption DEF VestingInTime
  <2>2. \A i \in 1..Len(v) : v[i] = lock \/ (i \in 1..Len(a.vesting) /\ v[i] = a.vesting[i])
    <3>1. PICK u : u = a.vesting
      OBVIOUS
    <3>2. u \in Seq(VestingLocks) /\ v = Append(u, lock)
      BY <3>1, SoundParts DEF Vestings
    <3> HIDE DEF v
    <3>3. \A i \in 1..Len(v) : v[i] = lock \/ (i \in 1..Len(u) /\ v[i] = u[i])
      BY <3>2
    <3> QED
      BY <3>1, <3>3
  <2>3. \A i \in 1..Len(a.vesting) : VestingInTime(a.vesting[i], today)
    BY SoundParts DEF VestingsInTime
  <2> HIDE DEF v
  <2> QED
    BY <2>1, <2>2, <2>3 DEF VestingsInTime
<1>8. a.balance + n \in Int
  BY SoundParts
<1> HIDE DEF v
<1>9. IsSound(b, today, a.exists, a.balance + n, v, a.escrow, a.stake)
  BY <1>5, <1>6, <1>7, <1>8, SoundParts, AccountEffect
<1>10. Spendable(b) = Spendable(a) + 0
  BY <1>6, <1>9, SoundParts DEF IsSound
<1> QED
  BY <1>9, <1>10 DEF Becomes, IsSound

\* The tokens of a new escrow are not spendable, and those of a removed one are.
LEMMA AddEscrowedEffect ==
  ASSUME NEW a, NEW today, SoundAccount(a, today), NEW id \in EscrowIds, a.escrow[id] = Missing,
         NEW lock \in EscrowLocks, NEW b, b = AddEscrowedTokens(a, id, lock)
  PROVE  Becomes(a, b, today, lock.amount, 0) /\ b.escrow = [a.escrow EXCEPT ![id] = lock]
<1> DEFINE n == lock.amount
           e == [a.escrow EXCEPT ![id] = lock]
           c == AddSpendableTokens(a, n)
<1>1. n \in Nat /\ AmountOf(lock) = n /\ AmountOf(a.escrow[id]) = 0
  BY LedgerAssumption DEF EscrowLocks, AmountOf
<1>2. b = [c EXCEPT !.escrow = [c.escrow EXCEPT ![id] = lock]]
  BY DEF AddEscrowedTokens
<1> HIDE DEF n, c
<1>3. /\ Becomes(a, c, today, n, n)
      /\ c.vesting = a.vesting /\ c.escrow = a.escrow /\ c.stake = a.stake
  BY <1>1, AddSpendableEffect DEF c
<1>4. c \in OpenAccounts /\ c.exists = a.exists /\ c.balance = a.balance + n
  BY <1>3 DEF Becomes, SoundAccount
<1>5. b = Account(a.exists, a.balance + n, a.vesting, e, a.stake)
  <2>1. b = [c EXCEPT !.escrow = e]
    BY <1>2, <1>3
  <2> HIDE DEF e
  <2> QED
    BY <1>3, <1>4, <2>1, FieldUpdates
<1>6. /\ e \in Escrows
      /\ LockedBy(e) = LockedBy(a.escrow) - AmountOf(a.escrow[id]) + AmountOf(lock)
  BY SoundParts, LockTypes, LedgerAssumption, LockedByUpdate DEF Escrows
<1>7. a.balance + n \in Int
  BY <1>1, SoundParts
<1> HIDE DEF e
<1>8. IsSound(b, today, a.exists, a.balance + n, a.vesting, e, a.stake)
  BY <1>5, <1>6, <1>7, SoundParts, AccountEffect
<1>9. Spendable(b) = Spendable(a) + 0
  BY <1>1, <1>6, <1>8, SoundParts DEF IsSound
<1> QED
  BY <1>8, <1>9 DEF e, n, Becomes, IsSound

LEMMA RemoveEscrowEffect ==
  ASSUME NEW a, NEW today, SoundAccount(a, today), NEW id \in EscrowIds, a.escrow[id] # Missing,
         NEW b, b = RemoveEscrowLock(a, id)
  PROVE  /\ Becomes(a, b, today, 0, a.escrow[id].amount)
         /\ a.escrow[id].amount \in Nat
         /\ b.escrow = [a.escrow EXCEPT ![id] = Missing]
<1> DEFINE n == a.escrow[id].amount
           e == [a.escrow EXCEPT ![id] = Missing]
<1>1. n \in Nat /\ AmountOf(Missing) = 0 /\ AmountOf(a.escrow[id]) = n
  <2>1. a.escrow[id] \in EscrowLocks
    BY SoundParts DEF Escrows
  <2> QED
    BY <2>1 DEF EscrowLocks, AmountOf
<1>2. b = [a EXCEPT !.escrow = e]
  BY DEF RemoveEscrowLock
<1>3. /\ e \in Escrows
      /\ LockedBy(e) = LockedBy(a.escrow) - AmountOf(a.escrow[id]) + AmountOf(Missing)
  BY SoundParts, LockTypes, LedgerAssumption, LockedByUpdate DEF Escrows
<1> HIDE DEF n, e
<1>4. b = Account(a.exists, a.balance, a.vesting, e, a.stake)
  BY <1>2, SoundParts, FieldUpdates
<1>5. IsSound(b, today, a.exists, a.balance, a.vesting, e, a.stake)
  BY <1>3, <1>4, SoundParts, AccountEffect
<1>6. Spendable(b) = Spendable(a) + n
  <2>1. LockedBy(e) = LockedBy(a.escrow) - n
    BY <1>1, <1>3, SoundParts
  <2> QED
    BY <1>1, <1>5, <2>1, SoundParts DEF IsSound
<1>7. b.balance = a.balance + 0
  BY <1>5, SoundParts DEF IsSound
<1> QED
  BY <1>1, <1>5, <1>6, <1>7 DEF e, n, Becomes, IsSound

------------------------------------------------------------------------------
(* Stakes *)

\* The stake of one node changes.
LEMMA StakeEffect ==
  ASSUME NEW a, NEW today, SoundAccount(a, today), NEW node \in Nodes,
         NEW lock \in StakeLocks, StakeInTime(lock),
         NEW b, b = [a EXCEPT !.stake = [a.stake EXCEPT ![node] = lock]]
  PROVE  /\ Becomes(a, b, today, 0, AmountOf(a.stake[node]) - lock.amount)
         /\ b.escrow = a.escrow
<1> DEFINE s == [a.stake EXCEPT ![node] = lock]
<1>1. /\ AmountOf(lock) = lock.amount /\ lock.amount \in Nat
      /\ AmountOf(a.stake[node]) \in Nat
  <2>1. AmountOf(lock) = lock.amount /\ lock.amount \in Nat
    BY LedgerAssumption DEF AmountOf, StakeLocks
  <2>2. a.stake \in [Nodes -> StakeLocks \cup {Missing}]
    BY SoundParts DEF Stakes
  <2> QED
    BY <2>1, <2>2, LockTypes, AmountsAreNatural
<1>2. /\ s \in Stakes
      /\ LockedBy(s) = LockedBy(a.stake) - AmountOf(a.stake[node]) + AmountOf(lock)
  <2>1. /\ a.stake \in [Nodes -> StakeLocks \cup {Missing}]
        /\ lock \in StakeLocks \cup {Missing}
        /\ LockType(StakeLocks) /\ IsFiniteSet(Nodes)
    BY SoundParts, LockTypes, LedgerAssumption DEF Stakes
  <2> QED
    BY <2>1, LockedByUpdate DEF Stakes
<1>3. StakesInTime(s)
  <2>1. \A n \in Nodes : StakeInTime(a.stake[n])
    BY SoundParts DEF StakesInTime
  <2>2. \A n \in Nodes : s[n] = IF n = node THEN lock ELSE a.stake[n]
    BY SoundParts DEF Stakes
  <2> HIDE DEF s
  <2> QED
    BY <2>1, <2>2 DEF StakesInTime
<1> HIDE DEF s
<1>4. b = Account(a.exists, a.balance, a.vesting, a.escrow, s)
  <2>1. b = [a EXCEPT !.stake = s] /\ a \in OpenAccounts
    BY SoundParts DEF s
  <2> QED
    BY <2>1, FieldUpdates
<1>5. IsSound(b, today, a.exists, a.balance, a.vesting, a.escrow, s)
  BY <1>2, <1>3, <1>4, SoundParts, AccountEffect
<1>6. Spendable(b) = Spendable(a) + (AmountOf(a.stake[node]) - lock.amount)
  <2>1. LockedBy(s) = LockedBy(a.stake) - (AmountOf(a.stake[node]) - lock.amount)
    BY <1>1, <1>2, SoundParts
  <2> QED
    BY <1>1, <1>5, <2>1, SoundParts DEF IsSound
<1>7. b.balance = a.balance + 0
  BY <1>5, SoundParts DEF IsSound
<1> QED
  BY <1>5, <1>6, <1>7 DEF IsSound, Becomes

\* Staked tokens are not spendable.
LEMMA AddStakingEffect ==
  ASSUME NEW a, NEW today, SoundAccount(a, today), NEW node \in Nodes, NEW n \in Nat,
         NodeStakingLockAmount(a, node) + n >= MinStake,
         NEW b, b = AddNodeStaking(a, n, node)
  PROVE  Becomes(a, b, today, 0, -n) /\ b.escrow = a.escrow
<1> DEFINE old == a.stake[node]
           lock == IF old = Missing
                   THEN [amount |-> n, unlock |-> 0, unlockDay |-> 0, slashDay |-> Missing]
                   ELSE [old EXCEPT !.amount = old.amount + n]
<1>1. b = [a EXCEPT !.stake = [a.stake EXCEPT ![node] = lock]]
  <2> DEFINE l == IF a.stake[node] = Missing
                  THEN [amount |-> n, unlock |-> 0, unlockDay |-> 0, slashDay |-> Missing]
                  ELSE [a.stake[node] EXCEPT !.amount = @ + n]
  <2>1. b = [a EXCEPT !.stake[node] = l]
    BY DEF AddNodeStaking
  <2>2. l = lock
    OBVIOUS
  <2> HIDE DEF l, lock
  <2> QED
    BY <2>1, <2>2
<1>2. old = Missing \/ old \in StakeLocks
  BY SoundParts DEF Stakes
<1>3. AmountOf(old) + n >= MinStake /\ MinStake \in Nat /\ MinStake > 0
  BY AccountsAssumption, LedgerAssumption DEF NodeStakingLockAmount
<1>4. StakeInTime(old)
  BY SoundParts DEF StakesInTime
<1> HIDE DEF old
<1>5. lock \in StakeLocks /\ lock.amount = AmountOf(old) + n /\ StakeInTime(lock)
      /\ AmountOf(old) \in Nat
  <2>1. CASE old = Missing
    <3>1. lock = [amount |-> n, unlock |-> 0, unlockDay |-> 0, slashDay |-> Missing]
      BY <2>1
    <3>2. AmountOf(old) = 0 /\ n > 0
      BY <1>3, <2>1 DEF AmountOf
    <3> QED
      BY <3>1, <3>2 DEF StakeLocks, StakeInTime
  <2>2. CASE old # Missing
    <3>1. lock = [old EXCEPT !.amount = old.amount + n]
      BY <2>2
    <3>2. AmountOf(old) = old.amount /\ old \in StakeLocks
      BY <1>2, <2>2 DEF AmountOf
    <3>3. old.amount \in Nat /\ old.unlock \in Nat /\ old.unlock <= old.amount
      BY <1>4, <2>2, <3>2 DEF StakeLocks, StakeInTime
    <3>4. lock \in StakeLocks /\ lock.amount = old.amount + n /\ lock.unlock = old.unlock
      BY <1>3, <3>1, <3>2, <3>3 DEF StakeLocks
    <3> QED
      BY <3>2, <3>3, <3>4 DEF StakeInTime
  <2> QED
    BY <2>1, <2>2
<1> HIDE DEF lock
<1>6. Becomes(a, b, today, 0, AmountOf(old) - lock.amount) /\ b.escrow = a.escrow
  BY <1>1, <1>5, StakeEffect DEF old
<1>7. AmountOf(old) - lock.amount = -n
  BY <1>5
<1> QED
  BY <1>6, <1>7

\* A planned unlock, and a cancelled slashing, lock and release nothing.
LEMMA PlanUnlockEffect ==
  ASSUME NEW a, NEW today, SoundAccount(a, today), NEW node \in Nodes, a.stake[node] # Missing,
         NEW n \in Nat, n <= NodeStakingLockAmount(a, node), NEW d \in Int,
         NEW b, b = PlanNodeStakingUnlock(a, n, node, d)
  PROVE  Becomes(a, b, today, 0, 0) /\ b.escrow = a.escrow
<1> DEFINE old == a.stake[node]
           lock == [old EXCEPT !.unlock = n, !.unlockDay = d]
<1>1. old \in StakeLocks /\ AmountOf(old) = old.amount /\ old.amount \in Nat
  <2>1. old \in StakeLocks
    BY SoundParts DEF Stakes
  <2> QED
    BY <2>1 DEF AmountOf, StakeLocks
<1>2. b = [a EXCEPT !.stake = [a.stake EXCEPT ![node] = lock]]
  BY SoundParts DEF PlanNodeStakingUnlock, Stakes
<1>3. n <= old.amount
  BY <1>1 DEF NodeStakingLockAmount
<1> HIDE DEF old
<1>4. lock \in StakeLocks /\ lock.amount = old.amount /\ lock.unlock = n
  BY <1>1 DEF StakeLocks
<1>5. StakeInTime(lock)
  BY <1>3, <1>4 DEF StakeInTime
<1> HIDE DEF lock
<1>6. Becomes(a, b, today, 0, AmountOf(old) - lock.amount) /\ b.escrow = a.escrow
  BY <1>2, <1>4, <1>5, StakeEffect DEF old
<1>7. AmountOf(old) - lock.amount = 0
  BY <1>1, <1>4
<1> QED
  BY <1>6, <1>7

LEMMA CancelSlashingEffect ==
  ASSUME NEW a, NEW today, SoundAccount(a, today), NEW node \in Nodes, a.stake[node] # Missing,
         NEW b, b = CancelNodeSlashing(a, node)
  PROVE  Becomes(a, b, today, 0, 0) /\ b.escrow = a.escrow
<1> DEFINE old == a.stake[node]
           lock == [old EXCEPT !.slashDay = Missing]
<1>1. old \in StakeLocks /\ AmountOf(old) = old.amount /\ old.amount \in Nat
  <2>1. old \in StakeLocks
    BY SoundParts DEF Stakes
  <2> QED
    BY <2>1 DEF AmountOf, StakeLocks
<1>2. b = [a EXCEPT !.stake = [a.stake EXCEPT ![node] = lock]]
  BY SoundParts DEF CancelNodeSlashing, Stakes
<1>3. StakeInTime(old)
  BY SoundParts DEF StakesInTime
<1> HIDE DEF old
<1>4. lock \in StakeLocks /\ lock.amount = old.amount /\ lock.unlock = old.unlock
  BY <1>1 DEF StakeLocks
<1>5. StakeInTime(lock)
  BY <1>3, <1>4, <1>1, LedgerAssumption DEF StakeInTime
<1> HIDE DEF lock
<1>6. Becomes(a, b, today, 0, AmountOf(old) - lock.amount) /\ b.escrow = a.escrow
  BY <1>2, <1>4, <1>5, StakeEffect DEF old
<1>7. AmountOf(old) - lock.amount = 0
  BY <1>1, <1>4
<1> QED
  BY <1>6, <1>7

------------------------------------------------------------------------------
(* Daily updates *)

\* Account b is a after an update that takes n tokens, and no spendable one.
Updated(a, b, today, n) ==
  /\ SoundAccount(b, today)
  /\ b.exists = a.exists
  /\ b.balance = a.balance - n
  /\ Spendable(b) >= Spendable(a)
  /\ b.escrow = a.escrow
  /\ NoLocks(a) => NoLocks(b)

LEMMA SoundLater ==
  ASSUME NEW a, NEW c \in Int, NEW d \in Int, c <= d, SoundAccount(a, c)
  PROVE  SoundAccount(a, d)
<1>1. \A e \in d..MaxDay : e \in c..MaxDay
  BY LedgerAssumption
<1> QED
  BY <1>1 DEF SoundAccount, InTime

\* A vesting lock as the schedule has it.
OnSchedule(lock, today) == lock.locked = Unreleased(lock, today) /\ VestingInTime(lock, today)

LEMMA RefreshedLock ==
  ASSUME NEW lock \in VestingLocks, NEW d \in Int,
         NEW new, new = [lock EXCEPT !.locked = Unreleased(lock, d)]
  PROVE  new \in VestingLocks /\ OnSchedule(new, d) /\ new.locked = Unreleased(lock, d)
<1>1. Unreleased(lock, d) \in Nat
  BY ScheduleDecreases
<1>2. /\ new \in VestingLocks
      /\ new.initial = lock.initial /\ new.start = lock.start /\ new.cliff = lock.cliff
      /\ new.duration = lock.duration /\ new.locked = Unreleased(lock, d)
  BY <1>1 DEF VestingLocks
<1>3. \A e : Unreleased(new, e) = Unreleased(lock, e)
  BY <1>2 DEF Unreleased
<1>4. \A e \in d..MaxDay : Unreleased(lock, e) <= Unreleased(lock, d)
  BY ScheduleDecreases, LedgerAssumption
<1> QED
  BY <1>2, <1>3, <1>4 DEF OnSchedule, VestingInTime

\* Vesting locks release tokens and take none.
LEMMA LinearVestingEffect ==
  ASSUME NEW a, NEW d \in 0..MaxDay, SoundAccount(a, d), NEW b, b = ApplyLinearVesting(a, d)
  PROVE  /\ Updated(a, b, d, 0)
         /\ b.stake = a.stake
         /\ \A i \in DOMAIN b.vesting : OnSchedule(b.vesting[i], d)
<1> DEFINE v == a.vesting
           updated == [i \in DOMAIN v |-> [v[i] EXCEPT !.locked = Unreleased(v[i], d)]]
           R == {lock \in VestingLocks : OnSchedule(lock, d)}
           w == Holding(updated)
<1>0. d \in Int /\ d \in d..MaxDay
  BY LedgerAssumption
<1>1. /\ v \in Seq(VestingLocks) /\ DOMAIN v = 1..Len(v) /\ Len(v) \in Nat
      /\ \A i \in 1..Len(v) : v[i] \in VestingLocks /\ Unreleased(v[i], d) <= v[i].locked
  <2>1. v \in Seq(VestingLocks) /\ VestingsInTime(v, d)
    BY SoundParts DEF Vestings
  <2>2. DOMAIN v = 1..Len(v) /\ Len(v) \in Nat /\ \A i \in 1..Len(v) : v[i] \in VestingLocks
    BY <2>1
  <2> QED
    BY <1>0, <2>1, <2>2 DEF VestingsInTime, VestingInTime
<1>2. b = [a EXCEPT !.vesting = w]
  BY DEF ApplyLinearVesting
<1> HIDE DEF v
<1>3. ASSUME NEW i \in 1..Len(v)
      PROVE  updated[i] \in R /\ updated[i].locked <= v[i].locked
  <2>1. updated[i] = [v[i] EXCEPT !.locked = Unreleased(v[i], d)]
    BY <1>1, <1>3
  <2>2. v[i] \in VestingLocks
    BY <1>1, <1>3
  <2> HIDE DEF updated
  <2>3. /\ updated[i] \in VestingLocks /\ OnSchedule(updated[i], d)
        /\ updated[i].locked = Unreleased(v[i], d)
    BY <1>0, <2>1, <2>2, RefreshedLock
  <2> QED
    BY <1>1, <1>3, <2>3
<1>4. updated \in Seq(R) /\ Len(updated) = Len(v)
  <2>1. updated = [i \in 1..Len(v) |-> updated[i]] /\ \A i \in 1..Len(v) : updated[i] \in R
    BY <1>1, <1>3
  <2> HIDE DEF updated, R
  <2> QED
    BY <1>1, <2>1
<1> HIDE DEF updated
<1>5. updated \in Seq(VestingLocks)
  BY <1>4
<1>6. VestedBy(updated) <= VestedBy(v)
  BY <1>1, <1>3, <1>4, <1>5, VestedByDecreases
<1>7. w \in Seq(R) /\ VestedBy(w) = VestedBy(updated)
  BY <1>4, <1>5, HoldingKeepsLocks, HoldingKeepsSum
<1> HIDE DEF w
<1>8. w \in Vestings /\ DOMAIN w = 1..Len(w) /\ \A i \in 1..Len(w) : w[i] \in R
  BY <1>7 DEF Vestings
<1>9. VestingsInTime(w, d)
  BY <1>8 DEF VestingsInTime, OnSchedule
<1>10. b = Account(a.exists, a.balance, w, a.escrow, a.stake)
  <2>1. a \in OpenAccounts
    BY SoundParts
  <2> QED
    BY <1>2, <2>1, FieldUpdates
<1>11. IsSound(b, d, a.exists, a.balance, w, a.escrow, a.stake)
  BY <1>8, <1>9, <1>10, SoundParts, AccountEffect
<1>12. Spendable(b) >= Spendable(a)
  <2>1. VestedBy(w) <= VestedBy(a.vesting) /\ VestedBy(w) \in Nat
    <3>1. VestedBy(w) \in Nat
      BY <1>8, VestedByType DEF Vestings
    <3> QED
      BY <1>6, <1>7, <3>1 DEF v
  <2> QED
    BY <1>11, <2>1, SoundParts DEF IsSound
<1>13. NoLocks(a) => NoLocks(b)
  <2> SUFFICES ASSUME NoLocks(a) PROVE NoLocks(b)
    OBVIOUS
  <2>1. v = <<>> /\ Len(v) = 0
    BY DEF v, NoLocks, HasVestingLocks
  <2>2. Holding(updated) = <<>>
    <3>1. PICK h \in [0..Len(updated) -> Seq(R)] :
            h[0] = <<>> /\ h[Len(updated)] = Holding(updated)
      BY <1>4, HoldingByPrefix
    <3> QED
      BY <1>4, <2>1, <3>1
  <2>3. b.vesting = <<>> /\ b.escrow = a.escrow /\ b.stake = a.stake
    BY <1>11, <2>2 DEF IsSound, w
  <2> QED
    BY <2>3 DEF NoLocks, HasVestingLocks, HasNodeStakingLocks
<1>14. b.balance = a.balance - 0
  BY <1>11, SoundParts DEF IsSound
<1>15. \A i \in DOMAIN b.vesting : OnSchedule(b.vesting[i], d)
  BY <1>8, <1>11 DEF IsSound
<1> QED
  BY <1>11, <1>12, <1>13, <1>14, <1>15 DEF Updated, IsSound

\* Stakes that hold less: what they no longer hold is released, or taken from the balance.
LEMMA StakesEffect ==
  ASSUME NEW a, NEW d, SoundAccount(a, d),
         NEW s \in Stakes, StakesInTime(s),
         NEW r, Summable(r, Nodes), \A n \in Nodes : r[n] >= 0,
         \A n \in Nodes : AmountOf(s[n]) = AmountOf(a.stake[n]) - r[n],
         \A n \in Nodes : a.stake[n] = Missing => s[n] = Missing,
         NEW m \in Nat, m <= SumFunctionOnSet(r, Nodes),
         NEW b, b = Account(a.exists, a.balance - m, a.vesting, a.escrow, s)
  PROVE  Updated(a, b, d, m) /\ b.vesting = a.vesting /\ b.stake = s
<1>1. a.balance - m \in Int
  BY SoundParts
<1>2. IsSound(b, d, a.exists, a.balance - m, a.vesting, a.escrow, s)
  BY <1>1, SoundParts, AccountEffect
<1>3. LockedBy(s) = LockedBy(a.stake) - SumFunctionOnSet(r, Nodes)
  <2>1. /\ a.stake \in [Nodes -> StakeLocks \cup {Missing}]
        /\ s \in [Nodes -> StakeLocks \cup {Missing}]
        /\ LockType(StakeLocks) /\ IsFiniteSet(Nodes)
    BY SoundParts, LockTypes, LedgerAssumption DEF Stakes
  <2> QED
    BY <2>1, LockedByDifference
<1>4. SumFunctionOnSet(r, Nodes) \in Nat
  BY SumOfNaturals
<1>5. Spendable(b) >= Spendable(a)
  <2> DEFINE R == SumFunctionOnSet(r, Nodes)
             V == VestedBy(a.vesting)
             E == LockedBy(a.escrow)
             S == LockedBy(a.stake)
  <2>1. Spendable(b) = a.balance - m - (V + E + (S - R))
    BY <1>2, <1>3 DEF IsSound
  <2>2. Spendable(a) = a.balance - (V + E + S)
    BY SoundParts
  <2>3. R \in Nat /\ V \in Nat /\ E \in Nat /\ S \in Nat /\ a.balance \in Int /\ m <= R
    BY <1>4, SoundParts
  <2> HIDE DEF R, V, E, S
  <2> QED
    BY <2>1, <2>2, <2>3
<1>6. NoLocks(a) => NoLocks(b)
  BY <1>2 DEF IsSound, NoLocks, HasVestingLocks, HasNodeStakingLocks
<1> QED
  BY <1>2, <1>5, <1>6 DEF Updated, IsSound

\* A stake after the release that is due.
Released(lock, d) ==
  IF ~IsUnlocking(lock, d) THEN lock
  ELSE IF lock.unlock = lock.amount THEN Missing
  ELSE [lock EXCEPT !.amount = lock.amount - lock.unlock, !.unlock = 0]

LEMMA ReleasedLock ==
  ASSUME NEW lock \in StakeLocks \cup {Missing}, NEW d, StakeInTime(lock),
         NEW new, new = Released(lock, d)
  PROVE  /\ new \in StakeLocks \cup {Missing}
         /\ StakeInTime(new)
         /\ lock = Missing => new = Missing
         /\ ~IsUnlocking(new, d)
         /\ AmountOf(new) = AmountOf(lock) - (IF IsUnlocking(lock, d) THEN lock.unlock ELSE 0)
         /\ AmountOf(lock) \in Nat
         /\ IsUnlocking(lock, d) => lock.unlock \in Nat
<1>1. CASE lock = Missing
  BY <1>1 DEF Released, IsUnlocking, AmountOf, StakeInTime
<1>2. CASE lock # Missing
  <2>1. /\ lock \in StakeLocks /\ lock.amount \in Nat \ {0} /\ lock.unlock \in Nat
        /\ lock.unlock <= lock.amount /\ AmountOf(lock) = lock.amount
    BY <1>2 DEF StakeLocks, StakeInTime, AmountOf
  <2>2. CASE ~IsUnlocking(lock, d)
    BY <1>2, <2>1, <2>2 DEF Released
  <2>3. CASE IsUnlocking(lock, d) /\ lock.unlock = lock.amount
    BY <1>2, <2>1, <2>3 DEF Released, IsUnlocking, AmountOf, StakeInTime
  <2>4. CASE IsUnlocking(lock, d) /\ lock.unlock # lock.amount
    <3>1. new = [lock EXCEPT !.amount = lock.amount - lock.unlock, !.unlock = 0]
      BY <2>4 DEF Released
    <3>2. lock.amount - lock.unlock \in Nat \ {0}
      BY <2>1, <2>4
    <3>3. /\ new \in StakeLocks /\ new.amount = lock.amount - lock.unlock /\ new.unlock = 0
      <4> DEFINE q == lock.amount - lock.unlock
      <4>1. new = [lock EXCEPT !.amount = q, !.unlock = 0] /\ q \in Nat \ {0} /\ 0 \in Nat
        BY <3>1, <3>2
      <4> HIDE DEF q
      <4>2. new \in StakeLocks
        BY <2>1, <4>1 DEF StakeLocks
      <4>3. new.amount = q /\ new.unlock = 0
        BY <2>1, <4>1 DEF StakeLocks
      <4> QED
        BY <4>2, <4>3 DEF q
    <3>4. new # Missing
      BY <3>3, LedgerAssumption
    <3>5. StakeInTime(new) /\ ~IsUnlocking(new, d)
      BY <3>2, <3>3, <3>4 DEF StakeInTime, IsUnlocking
    <3>6. AmountOf(new) = new.amount
      BY <3>4 DEF AmountOf
    <3> QED
      BY <1>2, <2>1, <2>4, <3>3, <3>5, <3>6
  <2> QED
    BY <2>2, <2>3, <2>4
<1> QED
  BY <1>1, <1>2

\* The unlocks that are due release tokens and take none.
LEMMA UnlocksEffect ==
  ASSUME NEW a, NEW d, SoundAccount(a, d), NEW b, b = ApplyNodeStakingUnlocks(a, d)
  PROVE  /\ Updated(a, b, d, 0)
         /\ b.vesting = a.vesting
         /\ \A n \in Nodes : ~IsUnlocking(b.stake[n], d)
<1> DEFINE s == [n \in Nodes |-> Released(a.stake[n], d)]
           r == [n \in Nodes |-> IF IsUnlocking(a.stake[n], d) THEN a.stake[n].unlock ELSE 0]
<1>1. b = [a EXCEPT !.stake = s]
  <2>1. s = [n \in Nodes |->
               LET lock == a.stake[n] IN
                 IF ~IsUnlocking(lock, d) THEN lock
                 ELSE IF lock.unlock = lock.amount THEN Missing
                 ELSE [lock EXCEPT !.amount = @ - lock.unlock, !.unlock = 0]]
    BY DEF Released
  <2> HIDE DEF s
  <2> QED
    BY <2>1 DEF ApplyNodeStakingUnlocks
<1>2. \A n \in Nodes : a.stake[n] \in StakeLocks \cup {Missing} /\ StakeInTime(a.stake[n])
  BY SoundParts DEF Stakes, StakesInTime
<1>3. \A n \in Nodes : s[n] = Released(a.stake[n], d)
  OBVIOUS
<1>4. \A n \in Nodes : r[n] = IF IsUnlocking(a.stake[n], d) THEN a.stake[n].unlock ELSE 0
  OBVIOUS
<1>5. s = [n \in Nodes |-> s[n]]
  OBVIOUS
<1> HIDE DEF s, r
<1>6. ASSUME NEW n \in Nodes
      PROVE  /\ s[n] \in StakeLocks \cup {Missing} /\ StakeInTime(s[n])
             /\ a.stake[n] = Missing => s[n] = Missing
             /\ ~IsUnlocking(s[n], d)
             /\ AmountOf(s[n]) = AmountOf(a.stake[n]) - r[n]
             /\ r[n] \in Nat
  <2>1. a.stake[n] \in StakeLocks \cup {Missing} /\ StakeInTime(a.stake[n])
    BY <1>2, <1>6
  <2>2. s[n] = Released(a.stake[n], d)
    BY <1>3, <1>6
  <2>3. r[n] = IF IsUnlocking(a.stake[n], d) THEN a.stake[n].unlock ELSE 0
    BY <1>4, <1>6
  <2> HIDE DEF Released
  <2> QED
    BY <2>1, <2>2, <2>3, ReleasedLock
<1>7. s \in Stakes
  BY <1>5, <1>6 DEF Stakes
<1>8. StakesInTime(s)
  BY <1>6 DEF StakesInTime
<1>9. Summable(r, Nodes)
  BY <1>6, LedgerAssumption DEF Summable
<1>10. 0 <= SumFunctionOnSet(r, Nodes) /\ \A n \in Nodes : r[n] >= 0
  <2>1. \A n \in Nodes : r[n] >= 0
    BY <1>6
  <2>2. SumFunctionOnSet(r, Nodes) \in Nat
    BY <1>9, <2>1, SumOfNaturals
  <2> QED
    BY <2>1, <2>2
<1>11. b = Account(a.exists, a.balance - 0, a.vesting, a.escrow, s)
  <2>1. a \in OpenAccounts /\ a.balance - 0 = a.balance
    BY SoundParts
  <2> QED
    BY <1>1, <2>1, FieldUpdates
<1>12. Updated(a, b, d, 0) /\ b.vesting = a.vesting /\ b.stake = s
  BY <1>6, <1>7, <1>8, <1>9, <1>10, <1>11, StakesEffect
<1> QED
  BY <1>6, <1>12

\* The stakes that are slashed leave the balance.
LEMMA SlashingEffect ==
  ASSUME NEW a, NEW d, SoundAccount(a, d), NEW b, b = ApplyNodeSlashing(a, d)
  PROVE  /\ SlashedAmount(a, d) \in Nat
         /\ Updated(a, b, d, SlashedAmount(a, d))
         /\ b.vesting = a.vesting
         /\ \A n \in Nodes : /\ ~IsSlashed(b.stake[n], d)
                             /\ IsUnlocking(b.stake[n], d) => IsUnlocking(a.stake[n], d)
<1> DEFINE m == SlashedAmount(a, d)
           s == [n \in Nodes |-> IF IsSlashed(a.stake[n], d) THEN Missing ELSE a.stake[n]]
           r == [n \in Nodes |-> IF IsSlashed(a.stake[n], d) THEN a.stake[n].amount ELSE 0]
<1>1. b = [a EXCEPT !.balance = a.balance - m, !.stake = s]
  <2>1. a \in OpenAccounts
    BY SoundParts
  <2> HIDE DEF m
  <2> QED
    BY <2>1 DEF ApplyNodeSlashing, m, OpenAccounts
<1>2. \A n \in Nodes : a.stake[n] \in StakeLocks \cup {Missing} /\ StakeInTime(a.stake[n])
  BY SoundParts DEF Stakes, StakesInTime
<1>3. \A n \in Nodes : s[n] = IF IsSlashed(a.stake[n], d) THEN Missing ELSE a.stake[n]
  OBVIOUS
<1>4. \A n \in Nodes : r[n] = IF IsSlashed(a.stake[n], d) THEN a.stake[n].amount ELSE 0
  OBVIOUS
<1>5. s = [n \in Nodes |-> s[n]] /\ m = SumFunctionOnSet(r, Nodes)
  BY DEF SlashedAmount, SumFunction
<1> HIDE DEF s, r, m
<1>6. ASSUME NEW n \in Nodes
      PROVE  /\ s[n] \in StakeLocks \cup {Missing} /\ StakeInTime(s[n])
             /\ a.stake[n] = Missing => s[n] = Missing
             /\ ~IsSlashed(s[n], d)
             /\ IsUnlocking(s[n], d) => IsUnlocking(a.stake[n], d)
             /\ AmountOf(s[n]) = AmountOf(a.stake[n]) - r[n]
             /\ r[n] \in Nat
  <2> DEFINE lock == a.stake[n]
  <2>1. lock \in StakeLocks \cup {Missing} /\ StakeInTime(lock)
    BY <1>2, <1>6
  <2>2. /\ s[n] = IF IsSlashed(lock, d) THEN Missing ELSE lock
        /\ r[n] = IF IsSlashed(lock, d) THEN lock.amount ELSE 0
    BY <1>3, <1>4, <1>6
  <2> HIDE DEF lock
  <2>3. CASE IsSlashed(lock, d)
    <3>1. lock # Missing /\ s[n] = Missing /\ r[n] = lock.amount
      BY <2>2, <2>3 DEF IsSlashed
    <3>2. lock.amount \in Nat /\ AmountOf(lock) = lock.amount
      BY <2>1, <3>1 DEF StakeLocks, AmountOf
    <3> QED
      BY <3>1, <3>2 DEF IsSlashed, IsUnlocking, AmountOf, StakeInTime, lock
  <2>4. CASE ~IsSlashed(lock, d)
    <3>1. s[n] = lock /\ r[n] = 0
      BY <2>2, <2>4
    <3>2. AmountOf(lock) \in Nat
      BY <2>1 DEF StakeLocks, AmountOf
    <3> QED
      BY <2>1, <2>4, <3>1, <3>2 DEF lock
  <2> QED
    BY <2>3, <2>4
<1>7. s \in Stakes
  BY <1>5, <1>6 DEF Stakes
<1>8. StakesInTime(s)
  BY <1>6 DEF StakesInTime
<1>9. Summable(r, Nodes) /\ \A n \in Nodes : r[n] >= 0
  BY <1>6, LedgerAssumption DEF Summable
<1>10. m \in Nat /\ m <= SumFunctionOnSet(r, Nodes)
  <2>1. SumFunctionOnSet(r, Nodes) \in Nat
    BY <1>9, SumOfNaturals
  <2> QED
    BY <1>5, <2>1
<1>11. b = Account(a.exists, a.balance - m, a.vesting, a.escrow, s)
  <2>1. a \in OpenAccounts
    BY SoundParts
  <2> QED
    BY <1>1, <2>1, BalanceAndStakeUpdate
<1>12. Updated(a, b, d, m) /\ b.vesting = a.vesting /\ b.stake = s
  BY <1>6, <1>7, <1>8, <1>9, <1>10, <1>11, StakesEffect
<1> QED
  BY <1>6, <1>10, <1>12 DEF m

\* An account whose stakes at the nodes of W are to be slashed on a given day.
WarnedAt(a, W, today) ==
  [a EXCEPT !.stake = [n \in Nodes |->
     IF n \in W THEN [@[n] EXCEPT !.slashDay = today] ELSE @[n]]]

LEMMA WarnedEffect ==
  ASSUME NEW a, NEW d, SoundAccount(a, d), NEW today \in Nat,
         NEW W, \A n \in W : n \in Nodes /\ a.stake[n] # Missing,
         NEW b, b = WarnedAt(a, W, today)
  PROVE  Updated(a, b, d, 0) /\ b.vesting = a.vesting
<1> DEFINE s == [n \in Nodes |-> IF n \in W THEN [a.stake[n] EXCEPT !.slashDay = today]
                                 ELSE a.stake[n]]
           r == [n \in Nodes |-> 0]
<1>1. b = [a EXCEPT !.stake = s]
  BY DEF WarnedAt
<1>2. \A n \in Nodes : a.stake[n] \in StakeLocks \cup {Missing} /\ StakeInTime(a.stake[n])
  BY SoundParts DEF Stakes, StakesInTime
<1>3. \A n \in Nodes : s[n] = IF n \in W THEN [a.stake[n] EXCEPT !.slashDay = today]
                              ELSE a.stake[n]
  OBVIOUS
<1>4. \A n \in Nodes : r[n] = 0
  OBVIOUS
<1>5. s = [n \in Nodes |-> s[n]]
  OBVIOUS
<1> HIDE DEF s, r
<1>6. ASSUME NEW n \in Nodes
      PROVE  /\ s[n] \in StakeLocks \cup {Missing} /\ StakeInTime(s[n])
             /\ a.stake[n] = Missing => s[n] = Missing
             /\ AmountOf(s[n]) = AmountOf(a.stake[n]) - r[n]
  <2> DEFINE lock == a.stake[n]
  <2>1. lock \in StakeLocks \cup {Missing} /\ StakeInTime(lock)
    BY <1>2, <1>6
  <2>2. s[n] = IF n \in W THEN [lock EXCEPT !.slashDay = today] ELSE lock
    BY <1>3, <1>6
  <2>3. n \in W => lock # Missing
    OBVIOUS
  <2>4. r[n] = 0
    BY <1>4, <1>6
  <2> HIDE DEF lock
  <2>5. CASE n \in W
    <3>1. s[n] = [lock EXCEPT !.slashDay = today] /\ lock \in StakeLocks /\ lock # Missing
      BY <2>1, <2>2, <2>3, <2>5
    <3>2. s[n] \in StakeLocks /\ s[n].amount = lock.amount /\ s[n].unlock = lock.unlock
      BY <3>1 DEF StakeLocks
    <3>3. s[n] # Missing /\ lock.amount \in Nat
      BY <3>1, <3>2, LedgerAssumption DEF StakeLocks
    <3> QED
      BY <2>1, <2>4, <3>1, <3>2, <3>3 DEF AmountOf, StakeInTime, lock
  <2>6. CASE n \notin W
    <3>1. AmountOf(lock) \in Nat
      BY <2>1 DEF AmountOf, StakeLocks
    <3> QED
      BY <2>1, <2>2, <2>4, <2>6, <3>1 DEF lock
  <2> QED
    BY <2>5, <2>6
<1>7. s \in Stakes
  BY <1>5, <1>6 DEF Stakes
<1>8. StakesInTime(s)
  BY <1>6 DEF StakesInTime
<1>9. Summable(r, Nodes) /\ \A n \in Nodes : r[n] >= 0
  BY <1>4, LedgerAssumption DEF Summable
<1>10. 0 <= SumFunctionOnSet(r, Nodes)
  <2>1. SumFunctionOnSet(r, Nodes) \in Nat
    BY <1>9, SumOfNaturals
  <2> QED
    BY <2>1
<1>11. b = Account(a.exists, a.balance - 0, a.vesting, a.escrow, s)
  <2>1. a \in OpenAccounts /\ a.balance - 0 = a.balance
    BY SoundParts
  <2> QED
    BY <1>1, <2>1, FieldUpdates
<1>12. Updated(a, b, d, 0) /\ b.vesting = a.vesting /\ b.stake = s
  BY <1>6, <1>7, <1>8, <1>9, <1>10, <1>11, StakesEffect
<1> QED
  BY <1>12

------------------------------------------------------------------------------
(* The sum of a sequence *)

\* The recursive function of a fold that adds the numbers f.
AddsUp(h, f, D) ==
  h = [s \in SUBSET D |-> IF s = {} THEN 0 ELSE LET i == Max(s) IN h[s \ {i}] + f[i]]

LEMMA AddingUp ==
  ASSUME NEW n \in Nat, NEW f, Summable(f, 1..n), NEW D, D = 1..n
  PROVE  (CHOOSE h : AddsUp(h, f, D))[D] = SumFunctionOnSet(f, D)
<1>1. \A s \in SUBSET D : s # {} => Max(s) \in s
  BY MaxOfPositions
<1>2. ASSUME NEW s \in SUBSET D, s # {}
      PROVE  SumFunctionOnSet(f, s) = SumFunctionOnSet(f, s \ {Max(s)}) + f[Max(s)]
  <2>1. Summable(f, s) /\ Max(s) \in s /\ f[Max(s)] \in Int
    BY <1>1, <1>2, SummableSubset DEF Summable
  <2>2. SumFunctionOnSet(f, s) = f[Max(s)] + SumFunctionOnSet(f, s \ {Max(s)})
    BY <2>1, SumRemove
  <2>3. SumFunctionOnSet(f, s \ {Max(s)}) \in Int
    <3>1. Summable(f, s \ {Max(s)})
      BY <1>2, SummableSubset
    <3> QED
      BY <3>1, SumType
  <2> QED
    BY <2>1, <2>2, <2>3
<1> DEFINE g == [s \in SUBSET D |-> SumFunctionOnSet(f, s)]
<1>3. AddsUp(g, f, D)
  <2>1. ASSUME NEW s \in SUBSET D
        PROVE  g[s] = IF s = {} THEN 0 ELSE LET i == Max(s) IN g[s \ {i}] + f[i]
    <3>1. g[s] = SumFunctionOnSet(f, s) /\ g[s \ {Max(s)}] = SumFunctionOnSet(f, s \ {Max(s)})
      OBVIOUS
    <3> QED
      BY <1>2, <3>1, SumOfNothing
  <2> QED
    BY <2>1 DEF AddsUp
<1> DEFINE k == CHOOSE h : AddsUp(h, f, D)
<1>4. AddsUp(k, f, D)
  BY <1>3
<1> HIDE DEF k, g
<1> DEFINE F == {s \in SUBSET D : k[s] = SumFunctionOnSet(f, s)}
<1>5. ASSUME NEW s \in SUBSET D, \A x \in s : s \ {x} \in F
      PROVE  k[s] = SumFunctionOnSet(f, s)
  <2>1. k[s] = IF s = {} THEN 0 ELSE k[s \ {Max(s)}] + f[Max(s)]
    BY <1>4 DEF AddsUp
  <2>2. CASE s = {}
    BY <2>1, <2>2, SumOfNothing
  <2>3. CASE s # {}
    <3>1. k[s \ {Max(s)}] = SumFunctionOnSet(f, s \ {Max(s)})
      BY <1>1, <1>5, <2>3
    <3> QED
      BY <1>2, <2>1, <2>3, <3>1
  <2> QED
    BY <2>2, <2>3
<1>6. D \in F
  <2>1. IsFiniteSet(D)
    BY FS_Interval
  <2>2. \A s \in SUBSET D : (\A x \in s : s \ {x} \in F) => s \in F
    BY <1>5
  <2> HIDE DEF F
  <2> QED
    BY <2>1, <2>2, InductionOnSets
<1> QED
  BY <1>6 DEF k

LEMMA TotalOfSum ==
  ASSUME NEW s \in Seq(Nat)
  PROVE  /\ TotalOf(s) = SumFunctionOnSet(s, 1..Len(s))
         /\ Summable(s, 1..Len(s))
         /\ TotalOf(s) \in Nat
<1>1. DOMAIN s = 1..Len(s) /\ Len(s) \in Nat /\ \A i \in 1..Len(s) : s[i] \in Nat
  OBVIOUS
<1>2. Summable(s, 1..Len(s)) /\ \A i \in 1..Len(s) : s[i] >= 0
  BY <1>1, FS_Interval DEF Summable
<1>3. TotalOf(s) = (CHOOSE h : AddsUp(h, s, DOMAIN s))[DOMAIN s]
  BY DEF TotalOf, FoldLeft, MapThenFoldSet, AddsUp
<1>4. TotalOf(s) = SumFunctionOnSet(s, 1..Len(s))
  BY <1>1, <1>2, <1>3, AddingUp
<1> QED
  BY <1>2, <1>4, SumOfNaturals

LEMMA SumOfMultiples ==
  ASSUME NEW S, NEW f, Summable(f, S), NEW c \in Int, NEW g, \A x \in S : g[x] = c * f[x]
  PROVE  Summable(g, S) /\ SumFunctionOnSet(g, S) = c * SumFunctionOnSet(f, S)
<1>1. Summable(g, S)
  BY DEF Summable
<1> DEFINE F == {s \in SUBSET S : SumFunctionOnSet(g, s) = c * SumFunctionOnSet(f, s)}
<1>2. ASSUME NEW s \in SUBSET S, \A x \in s : s \ {x} \in F
      PROVE  SumFunctionOnSet(g, s) = c * SumFunctionOnSet(f, s)
  <2>1. CASE s = {}
    BY <2>1, SumOfNothing
  <2>2. CASE s # {}
    <3>1. PICK x \in s : TRUE
      BY <2>2
    <3> DEFINE r == s \ {x}
    <3>2. Summable(f, s) /\ Summable(g, s) /\ Summable(f, r)
      BY <1>1, SummableSubset
    <3>3. /\ SumFunctionOnSet(g, s) = g[x] + SumFunctionOnSet(g, r)
          /\ SumFunctionOnSet(f, s) = f[x] + SumFunctionOnSet(f, r)
      BY <3>2, SumRemove
    <3>4. SumFunctionOnSet(g, r) = c * SumFunctionOnSet(f, r)
      BY <1>2
    <3>5. SumFunctionOnSet(f, r) \in Int /\ f[x] \in Int /\ g[x] = c * f[x]
      BY <3>2, SumType DEF Summable
    <3> QED
      BY <3>3, <3>4, <3>5
  <2> QED
    BY <2>1, <2>2
<1>3. S \in F
  <2>1. IsFiniteSet(S) /\ \A s \in SUBSET S : (\A x \in s : s \ {x} \in F) => s \in F
    BY <1>2 DEF Summable
  <2> HIDE DEF F
  <2> QED
    BY <2>1, InductionOnSets
<1> QED
  BY <1>1, <1>3

------------------------------------------------------------------------------
(* The rounded shares *)

LEMMA RoundingDown ==
  ASSUME NEW n \in Nat, NEW d \in Nat, d > 0
  PROVE  n \div d \in Nat /\ d * (n \div d) <= n
  OBVIOUS

LEMMA LessByFactor ==
  ASSUME NEW d \in Nat, d > 0, NEW x \in Int, NEW y \in Int, d * x <= y * d
  PROVE  x <= y
  OBVIOUS

LEMMA SharesWithinFees ==
  ASSUME NEW fees \in Nat, NEW powers \in Seq(Nat), TotalOf(powers) > 0,
         NEW rounded, rounded = [i \in 1..Len(powers) |-> (fees * powers[i]) \div TotalOf(powers)]
  PROVE  /\ rounded \in Seq(Nat) /\ Len(rounded) = Len(powers)
         /\ TotalOf(rounded) <= fees
<1> DEFINE n == Len(powers)
           total == TotalOf(powers)
           x == [i \in 1..n |-> fees * powers[i]]
           y == [i \in 1..n |-> total * rounded[i]]
<1>1. n \in Nat /\ \A i \in 1..n : powers[i] \in Nat
  OBVIOUS
<1>2. /\ total = SumFunctionOnSet(powers, 1..n) /\ Summable(powers, 1..n) /\ total \in Nat
      /\ total > 0
  BY TotalOfSum
<1>3. /\ \A i \in 1..n : x[i] = fees * powers[i]
      /\ \A i \in 1..n : y[i] = total * rounded[i]
      /\ \A i \in 1..n : rounded[i] = (fees * powers[i]) \div total
  OBVIOUS
<1>4. rounded = [i \in 1..n |-> rounded[i]]
  OBVIOUS
<1> HIDE DEF x, y, total
<1>5. ASSUME NEW i \in 1..n
      PROVE  rounded[i] \in Nat /\ y[i] <= x[i]
  <2>1. fees * powers[i] \in Nat
    BY <1>1, <1>5
  <2> QED
    BY <1>2, <1>3, <1>5, <2>1, RoundingDown
<1>6. rounded \in Seq(Nat) /\ Len(rounded) = n
  BY <1>1, <1>4, <1>5
<1> HIDE DEF n
<1>7. /\ TotalOf(rounded) = SumFunctionOnSet(rounded, 1..n) /\ Summable(rounded, 1..n)
      /\ TotalOf(rounded) \in Nat
  BY <1>6, TotalOfSum
<1>8. Summable(x, 1..n) /\ SumFunctionOnSet(x, 1..n) = fees * total
  <2>1. fees \in Int
    OBVIOUS
  <2>2. SumFunctionOnSet(x, 1..n) = fees * SumFunctionOnSet(powers, 1..n) /\ Summable(x, 1..n)
    BY <1>2, <1>3, <2>1, SumOfMultiples
  <2> QED
    BY <1>2, <2>2
<1>9. Summable(y, 1..n) /\ SumFunctionOnSet(y, 1..n) = total * TotalOf(rounded)
  <2>1. total \in Int
    BY <1>2
  <2>2. SumFunctionOnSet(y, 1..n) = total * SumFunctionOnSet(rounded, 1..n) /\ Summable(y, 1..n)
    BY <1>3, <1>7, <2>1, SumOfMultiples
  <2> QED
    BY <1>7, <2>2
<1>10. total * TotalOf(rounded) <= fees * total
  BY <1>5, <1>8, <1>9, SumIsMonotonic
<1> QED
  BY <1>2, <1>6, <1>7, <1>10, LessByFactor DEF n

------------------------------------------------------------------------------
(* The remainder *)

\* The units of R that go to the i-th of n validators.
UnitsOf(i, n, at, R) == {k \in R : (at + k) % n = i - 1}

\* Counting units by the validator that gets them.
LEMMA UnitsAddUp ==
  ASSUME NEW n \in Nat, n > 0, NEW at \in Nat, NEW R \in SUBSET Nat, IsFiniteSet(R),
         NEW c, \A i \in 1..n : c[i] = Cardinality(UnitsOf(i, n, at, R))
  PROVE  /\ \A i \in 1..n : c[i] \in Nat
         /\ SumFunctionOnSet(c, 1..n) = Cardinality(R)
<1> DEFINE Count(S) == [i \in 1..n |-> Cardinality(UnitsOf(i, n, at, S))]
           F == {S \in SUBSET R : SumFunctionOnSet(Count(S), 1..n) = Cardinality(S)}
<1>1. ASSUME NEW S \in SUBSET R
      PROVE  /\ IsFiniteSet(S)
             /\ \A i \in 1..n : /\ Count(S)[i] = Cardinality(UnitsOf(i, n, at, S))
                                /\ Count(S)[i] \in Nat
                                /\ IsFiniteSet(UnitsOf(i, n, at, S))
             /\ Summable(Count(S), 1..n)
  <2>1. IsFiniteSet(S)
    BY FS_Subset
  <2>2. ASSUME NEW i \in 1..n
        PROVE  /\ Count(S)[i] = Cardinality(UnitsOf(i, n, at, S))
               /\ Count(S)[i] \in Nat
               /\ IsFiniteSet(UnitsOf(i, n, at, S))
    <3>1. IsFiniteSet(UnitsOf(i, n, at, S))
      <4>1. UnitsOf(i, n, at, S) \subseteq S
        BY DEF UnitsOf
      <4> QED
        BY <2>1, <4>1, FS_Subset
    <3>2. Cardinality(UnitsOf(i, n, at, S)) \in Nat
      BY <3>1, FS_CardinalityType
    <3> QED
      BY <3>1, <3>2
  <2>3. Summable(Count(S), 1..n)
    BY <2>2, FS_Interval DEF Summable
  <2> QED
    BY <2>1, <2>2, <2>3
<1>2. ASSUME NEW S \in SUBSET R, \A k \in S : S \ {k} \in F
      PROVE  SumFunctionOnSet(Count(S), 1..n) = Cardinality(S)
  <2>1. CASE S = {}
    <3>1. \A i \in (1..n) \ {} : Count(S)[i] = 0
      <4>1. \A i \in 1..n : UnitsOf(i, n, at, S) = {}
        BY <2>1 DEF UnitsOf
      <4> QED
        BY <1>1, <4>1, FS_EmptySet
    <3>2. Summable(Count(S), 1..n)
      BY <1>1
    <3>3. {} \in SUBSET (1..n)
      OBVIOUS
    <3> HIDE DEF Count
    <3>4. SumFunctionOnSet(Count(S), 1..n) = SumFunctionOnSet(Count(S), {})
      BY <3>1, <3>2, <3>3, SumWithoutZeros
    <3> QED
      BY <2>1, <3>4, SumOfNothing, FS_EmptySet
  <2>2. CASE S # {}
    <3>1. PICK k \in S : TRUE
      BY <2>2
    <3> DEFINE T == S \ {k}
               j == ((at + k) % n) + 1
    <3>2. T \in SUBSET R /\ k \notin T /\ k \in Nat /\ S = T \cup {k}
      BY <3>1
    <3>3. j \in 1..n /\ j - 1 = (at + k) % n
      BY <3>2
    <3>4. UnitsOf(j, n, at, S) = UnitsOf(j, n, at, T) \cup {k}
          /\ k \notin UnitsOf(j, n, at, T)
      BY <3>2, <3>3 DEF UnitsOf
    <3>5. \A i \in (1..n) \ {j} : UnitsOf(i, n, at, S) = UnitsOf(i, n, at, T)
      BY <3>2, <3>3 DEF UnitsOf
    <3> HIDE DEF T, j
    <3>6. Count(S)[j] = Count(T)[j] + 1 /\ Count(T)[j] \in Nat
      <4>1. /\ IsFiniteSet(UnitsOf(j, n, at, T))
            /\ Count(S)[j] = Cardinality(UnitsOf(j, n, at, S))
            /\ Count(T)[j] = Cardinality(UnitsOf(j, n, at, T))
            /\ Count(T)[j] \in Nat
        BY <1>1, <3>2, <3>3
      <4>2. Cardinality(UnitsOf(j, n, at, T) \cup {k})
              = Cardinality(UnitsOf(j, n, at, T)) + 1
        BY <3>4, <4>1, FS_AddElement
      <4> QED
        BY <3>4, <4>1, <4>2
    <3>7. \A i \in (1..n) \ {j} : Count(S)[i] = Count(T)[i]
      BY <1>1, <3>2, <3>5
    <3>8. Summable(Count(T), 1..n) /\ Count(S)[j] \in Int
      <4>1. Summable(Count(T), 1..n)
        BY <1>1, <3>2
      <4>2. Count(S)[j] \in Int
        BY <3>6
      <4> QED
        BY <4>1, <4>2
    <3>9. SumFunctionOnSet(Count(T), 1..n) = Cardinality(T) /\ Cardinality(S) = Cardinality(T) + 1
      <4>1. T \in F
        BY <1>2, <3>1 DEF T
      <4>2. IsFiniteSet(T)
        BY <1>1, <3>2
      <4>3. Cardinality(S) = Cardinality(T) + 1
        BY <3>2, <4>2, FS_AddElement
      <4> QED
        BY <4>1, <4>3
    <3>10. Cardinality(T) \in Nat
      BY <1>1, <3>2, FS_CardinalityType
    <3> HIDE DEF Count, F
    <3>11. SumFunctionOnSet(Count(S), 1..n)
             = SumFunctionOnSet(Count(T), 1..n) - Count(T)[j] + Count(S)[j]
      BY <3>3, <3>7, <3>8, SumOfUpdate
    <3> QED
      BY <3>6, <3>9, <3>10, <3>11
  <2> QED
    BY <2>1, <2>2
<1>3. SumFunctionOnSet(Count(R), 1..n) = Cardinality(R)
  <2>1. \A S \in SUBSET R : (\A k \in S : S \ {k} \in F) => S \in F
    BY <1>2
  <2>2. R \in F
    <3> HIDE DEF F
    <3> QED
      BY <2>1, InductionOnSets
  <2> QED
    BY <2>2
<1>4. Summable(Count(R), 1..n) /\ \A i \in 1..n : c[i] = Count(R)[i] /\ Count(R)[i] \in Nat
  BY <1>1
<1> HIDE DEF Count
<1> QED
  BY <1>3, <1>4, SumOfSame

------------------------------------------------------------------------------
(* The dispatch *)

\* "Should preserve total fees after dispatch": every validator gets a natural number, and
\* the shares add up to the fees; if no validator has a stake they are all 0.
THEOREM SharesAddUp ==
  ASSUME NEW fees \in Nat, NEW powers \in Seq(Nat), NEW at \in Nat
  PROVE  /\ Dispatch(fees, powers, at) \in Seq(Nat)
         /\ Len(Dispatch(fees, powers, at)) = Len(powers)
         /\ TotalOf(Dispatch(fees, powers, at)) = IF TotalOf(powers) = 0 THEN 0 ELSE fees
<1> DEFINE n == Len(powers)
           d == Dispatch(fees, powers, at)
<1>0. n \in Nat /\ TotalOf(powers) \in Nat
  BY TotalOfSum
<1>1. CASE TotalOf(powers) = 0
  <2>1. d = [i \in 1..n |-> 0]
    BY <1>1 DEF Dispatch
  <2>2. d \in Seq(Nat) /\ Len(d) = n /\ \A i \in 1..n : d[i] = 0
    BY <1>0, <2>1
  <2> HIDE DEF d, n
  <2>3. TotalOf(d) = SumFunctionOnSet(d, 1..n) /\ Summable(d, 1..n)
    BY <2>2, TotalOfSum
  <2>4. SumFunctionOnSet(d, 1..n) = 0
    <3>1. {} \in SUBSET (1..n) /\ \A i \in (1..n) \ {} : d[i] = 0
      BY <2>2
    <3>2. SumFunctionOnSet(d, 1..n) = SumFunctionOnSet(d, {})
      BY <2>3, <3>1, SumWithoutZeros
    <3> QED
      BY <3>2, SumOfNothing
  <2> QED
    BY <1>1, <2>2, <2>3, <2>4 DEF d, n
<1>2. CASE TotalOf(powers) # 0
  <2> DEFINE rounded == [i \in 1..n |-> (fees * powers[i]) \div TotalOf(powers)]
             rest == Remainder(fees, rounded)
             c == [i \in 1..n |-> UnitsFor(i, n, at, rest)]
             R == 0..(rest - 1)
  <2>1. d = [i \in 1..n |-> rounded[i] + UnitsFor(i, n, at, rest)]
    BY <1>2 DEF Dispatch
  <2>2. \A i \in 1..n : d[i] = rounded[i] + c[i]
    BY <2>1
  <2>3. \A i \in 1..n : c[i] = Cardinality(UnitsOf(i, n, at, R))
    BY DEF UnitsFor, UnitsOf
  <2>4. d = [i \in 1..n |-> d[i]]
    BY <2>1
  <2>5. /\ rounded \in Seq(Nat) /\ Len(rounded) = n
        /\ TotalOf(rounded) <= fees
    <3>1. TotalOf(powers) > 0
      BY <1>0, <1>2
    <3> HIDE DEF rounded
    <3> QED
      BY <3>1, SharesWithinFees DEF rounded
  <2>6. n > 0
    <3>1. n = 0 => 1..n = {}
      OBVIOUS
    <3>2. n = 0 => TotalOf(powers) = 0
      BY <3>1, TotalOfSum, SumOfNothing
    <3> QED
      BY <1>0, <1>2, <3>2
  <2> HIDE DEF d, n, rounded, c
  <2>7. /\ TotalOf(rounded) = SumFunctionOnSet(rounded, 1..n) /\ Summable(rounded, 1..n)
        /\ TotalOf(rounded) \in Nat
    BY <2>5, TotalOfSum
  <2>8. rest \in Nat /\ rest = fees - TotalOf(rounded)
    BY <2>5, <2>7 DEF Remainder
  <2>9. R \in SUBSET Nat /\ IsFiniteSet(R) /\ Cardinality(R) = rest
    <3> HIDE DEF rest
    <3>1. IsFiniteSet(0..(rest - 1))
          /\ Cardinality(0..(rest - 1)) = IF 0 > rest - 1 THEN 0 ELSE (rest - 1) - 0 + 1
      <4>1. 0 \in Int /\ rest - 1 \in Int
        BY <2>8
      <4> QED
        BY <4>1, FS_Interval
    <3> QED
      BY <2>8, <3>1 DEF R
  <2> HIDE DEF rest, R
  <2>10. (\A i \in 1..n : c[i] \in Nat) /\ SumFunctionOnSet(c, 1..n) = rest
    <3>1. n \in Nat /\ at \in Nat
      BY <1>0
    <3>2. (\A i \in 1..n : c[i] \in Nat) /\ SumFunctionOnSet(c, 1..n) = Cardinality(R)
      BY <2>3, <2>6, <2>9, <3>1, UnitsAddUp
    <3> QED
      BY <2>9, <3>2
  <2>11. ASSUME NEW i \in 1..n
         PROVE  d[i] \in Nat /\ rounded[i] = d[i] - c[i]
    <3>1. rounded[i] \in Nat /\ c[i] \in Nat
      BY <2>5, <2>10
    <3> QED
      BY <2>2, <3>1
  <2>12. d \in Seq(Nat) /\ Len(d) = n
    BY <1>0, <2>4, <2>11
  <2>13. TotalOf(d) = SumFunctionOnSet(d, 1..n) /\ Summable(d, 1..n) /\ TotalOf(d) \in Nat
    BY <2>12, TotalOfSum
  <2>14. SumFunctionOnSet(rounded, 1..n)
           = SumFunctionOnSet(d, 1..n) - SumFunctionOnSet(c, 1..n)
    <3>1. Summable(c, 1..n)
      <4>1. \A i \in 1..n : c[i] \in Int
        BY <2>10
      <4>2. IsFiniteSet(1..n)
        BY <1>0, FS_Interval
      <4> QED
        BY <4>1, <4>2 DEF Summable
    <3> QED
      BY <2>11, <2>13, <3>1, SumOfDifferences
  <2>15. TotalOf(d) = fees
    BY <2>7, <2>8, <2>10, <2>13, <2>14
  <2> QED
    BY <1>2, <2>12, <2>15 DEF d, n
<1> QED
  BY <1>1, <1>2

------------------------------------------------------------------------------
(* Ledgers and the index tables *)

\* A ledger and its accounts have the fields that Accounts and Balance describe.
WellFormedAccount(a) ==
  /\ a = [exists |-> a.exists, balance |-> a.balance, vesting |-> a.vesting,
          escrow |-> a.escrow, stake |-> a.stake]
  /\ a.stake = [n \in Nodes |-> a.stake[n]]

WellFormed(L) ==
  /\ L = [accounts |-> L.accounts, escrows |-> L.escrows, cache |-> L.cache,
          vestingRows |-> L.vestingRows, stakingRows |-> L.stakingRows, keys |-> L.keys]
  /\ L.accounts = [x \in Accounts |-> L.accounts[x]]
  /\ \A x \in Accounts : WellFormedAccount(L.accounts[x])

\* The index tables are complete, and no account has warnings but those of a set.
Good(L, warned) ==
  /\ WellFormed(L)
  /\ Indexed(L)
  /\ \A x \in Accounts : HasWarnings(L.accounts[x]) => x \in warned

\* Account a is b with another balance and other escrow locks.
SameLocks(a, b) ==
  a \in [exists : {a.exists}, balance : {a.balance}, vesting : {b.vesting},
         escrow : {a.escrow}, stake : {b.stake}]

\* Ledger L has these accounts and index tables.
Holds(L, accounts, vestingRows, stakingRows) ==
  L \in [accounts : {accounts}, escrows : {L.escrows}, cache : {L.cache},
         vestingRows : {vestingRows}, stakingRows : {stakingRows}, keys : {L.keys}]

\* Account a has locks of a kind, or warnings, only if b has.
NoNewLocks(a, b) ==
  /\ WellFormedAccount(a)
  /\ HasVestingLocks(a) => HasVestingLocks(b)
  /\ HasNodeStakingLocks(a) => HasNodeStakingLocks(b)
  /\ HasWarnings(a) => HasWarnings(b)

------------------------------------------------------------------------------
(* Records *)

LEMMA SameLocksFields ==
  ASSUME NEW a, NEW b, WellFormedAccount(b), SameLocks(a, b)
  PROVE  NoNewLocks(a, b) /\ a.vesting = b.vesting /\ a.stake = b.stake
<1>1. /\ a = [exists |-> a.exists, balance |-> a.balance, vesting |-> a.vesting,
              escrow |-> a.escrow, stake |-> a.stake]
      /\ a.vesting = b.vesting
      /\ a.stake = b.stake
  BY DEF SameLocks
<1>2. QED
  BY <1>1 DEF NoNewLocks, WellFormedAccount, HasVestingLocks, HasNodeStakingLocks, HasWarnings

LEMMA HoldsFields ==
  ASSUME NEW L, NEW A, NEW V, NEW S, Holds(L, A, V, S)
  PROVE  /\ L = [accounts |-> L.accounts, escrows |-> L.escrows, cache |-> L.cache,
                 vestingRows |-> L.vestingRows, stakingRows |-> L.stakingRows, keys |-> L.keys]
         /\ L.accounts = A /\ L.vestingRows = V /\ L.stakingRows = S
  BY DEF Holds

LEMMA WellFormedHolds ==
  ASSUME NEW L, WellFormed(L)
  PROVE  Holds(L, L.accounts, L.vestingRows, L.stakingRows)
  BY DEF WellFormed, Holds

LEMMA WellFormedSameLocks ==
  ASSUME NEW a, WellFormedAccount(a)
  PROVE  SameLocks(a, a)
  BY DEF WellFormedAccount, SameLocks

\* Operations on an account that leave its vesting locks and stakes alone.
LEMMA BalanceKeepsLocks ==
  ASSUME NEW a, WellFormedAccount(a), NEW n, NEW id, NEW lock
  PROVE  /\ SameLocks([a EXCEPT !.exists = TRUE], a)
         /\ SameLocks(AddSpendableTokens(a, n), a)
         /\ SameLocks(RemoveEscrowLock(a, id), a)
         /\ SameLocks(AddEscrowedTokens(a, id, lock), a)
<1>0. SameLocks(a, a)
  BY WellFormedSameLocks
<1>1. SameLocks([a EXCEPT !.exists = TRUE], a)
  BY <1>0 DEF SameLocks
<1>2. ASSUME NEW m PROVE SameLocks(AddSpendableTokens(a, m), a)
  BY <1>0 DEF SameLocks, AddSpendableTokens
<1>3. SameLocks(RemoveEscrowLock(a, id), a)
  BY <1>0 DEF SameLocks, RemoveEscrowLock
<1>4. SameLocks(AddEscrowedTokens(a, id, lock), a)
  <2> DEFINE b == AddSpendableTokens(a, lock.amount)
  <2>1. SameLocks(b, a)
    BY <1>2
  <2> HIDE DEF b
  <2>2. SameLocks([b EXCEPT !.escrow[id] = lock], a)
    BY <2>1 DEF SameLocks
  <2> QED
    BY <2>2 DEF b, AddEscrowedTokens
<1>5. QED
  BY <1>1, <1>2, <1>3, <1>4

------------------------------------------------------------------------------
(* Ledgers *)

\* A ledger whose accounts gained no lock that their rows do not cover.
LEMMA CoveredGood ==
  ASSUME NEW warned, NEW A, NEW V, NEW S, NEW L, Holds(L, A, V, S),
         A = [x \in Accounts |-> A[x]],
         \A x \in Accounts : /\ WellFormedAccount(A[x])
                             /\ HasVestingLocks(A[x]) => x \in V
                             /\ HasNodeStakingLocks(A[x]) => x \in S
                             /\ HasWarnings(A[x]) => x \in warned
  PROVE  Good(L, warned)
<1>1. /\ L = [accounts |-> L.accounts, escrows |-> L.escrows, cache |-> L.cache,
              vestingRows |-> L.vestingRows, stakingRows |-> L.stakingRows, keys |-> L.keys]
      /\ L.accounts = A /\ L.vestingRows = V /\ L.stakingRows = S
  BY HoldsFields
<1>2. QED
  BY <1>1 DEF Good, WellFormed, Indexed

\* What saveAccountState() writes.
LEMMA SaveHolds ==
  ASSUME NEW L, WellFormed(L), NEW x, NEW a
  PROVE  Holds(SaveAccountState(L, x, a), [L.accounts EXCEPT ![x] = [a EXCEPT !.exists = TRUE]],
               L.vestingRows, L.stakingRows)
<1>1. Holds(L, L.accounts, L.vestingRows, L.stakingRows)
  BY WellFormedHolds
<1> DEFINE b == [a EXCEPT !.exists = TRUE]
<1>2. SaveAccountState(L, x, a) = [L EXCEPT !.accounts[x] = b]
  BY DEF SaveAccountState
<1> HIDE DEF b
<1>3. Holds([L EXCEPT !.accounts[x] = b], [L.accounts EXCEPT ![x] = b],
            L.vestingRows, L.stakingRows)
  BY <1>1 DEF Holds
<1>4. QED
  BY <1>2, <1>3 DEF b

\* Writing an account that gained no lock keeps a ledger good.
LEMMA SaveKeepsGood ==
  ASSUME NEW warned, NEW L, Good(L, warned), NEW x, NEW a,
         x \in Accounts => NoNewLocks(a, L.accounts[x])
  PROVE  Good(SaveAccountState(L, x, a), warned)
<1> DEFINE b == [a EXCEPT !.exists = TRUE]
           A == [L.accounts EXCEPT ![x] = b]
           M == SaveAccountState(L, x, a)
<1>1. Holds(M, A, L.vestingRows, L.stakingRows)
  BY SaveHolds DEF Good
<1>2. x \in Accounts => NoNewLocks(b, L.accounts[x])
  <2> SUFFICES ASSUME x \in Accounts PROVE NoNewLocks(b, L.accounts[x])
    OBVIOUS
  <2>1. WellFormedAccount(a)
    BY DEF NoNewLocks
  <2>2. NoNewLocks(b, a)
    BY <2>1, BalanceKeepsLocks, SameLocksFields
  <2> QED
    BY <2>2 DEF NoNewLocks
<1> HIDE DEF b, M
<1>3. /\ A = [y \in Accounts |-> A[y]]
      /\ \A y \in Accounts : A[y] = IF y = x THEN b ELSE L.accounts[y]
  BY DEF Good, WellFormed
<1> HIDE DEF A
<1>4. \A y \in Accounts : NoNewLocks(A[y], L.accounts[y])
  BY <1>2, <1>3 DEF NoNewLocks, Good, WellFormed
<1>5. \A y \in Accounts : /\ WellFormedAccount(A[y])
                          /\ HasVestingLocks(A[y]) => y \in L.vestingRows
                          /\ HasNodeStakingLocks(A[y]) => y \in L.stakingRows
                          /\ HasWarnings(A[y]) => y \in warned
  BY <1>4 DEF Good, Indexed, NoNewLocks
<1>6. Good(M, warned)
  BY <1>1, <1>3, <1>5, CoveredGood
<1> QED
  BY <1>6 DEF M

\* Writing tables other than the accounts and the indexes keeps a ledger good.
LEMMA TablesKeepGood ==
  ASSUME NEW warned, NEW L, Good(L, warned), NEW c, NEW k, NEW e
  PROVE  /\ Good([L EXCEPT !.cache = c], warned)
         /\ Good([L EXCEPT !.keys[k] = e], warned)
         /\ Good([L EXCEPT !.escrows = e, !.cache = c], warned)
<1>0. Holds(L, L.accounts, L.vestingRows, L.stakingRows)
  BY WellFormedHolds DEF Good
<1>1. ASSUME NEW M, Holds(M, L.accounts, L.vestingRows, L.stakingRows)
      PROVE  Good(M, warned)
  BY <1>1, CoveredGood DEF Good, WellFormed, Indexed
<1>2. Holds([L EXCEPT !.cache = c], L.accounts, L.vestingRows, L.stakingRows)
  BY <1>0 DEF Holds
<1>3. Holds([L EXCEPT !.keys[k] = e], L.accounts, L.vestingRows, L.stakingRows)
  BY <1>0 DEF Holds
<1>4. Holds([L EXCEPT !.escrows = e, !.cache = c], L.accounts, L.vestingRows, L.stakingRows)
  BY <1>0 DEF Holds
<1>5. QED
  BY <1>1, <1>2, <1>3, <1>4

\* Writing an account and adding its rows to the index tables.
LEMMA SaveIndexedGood ==
  ASSUME NEW warned, NEW L, Good(L, warned), NEW x, NEW a, NEW V, NEW S, NEW M,
         Holds(M, [L.accounts EXCEPT ![x] = [a EXCEPT !.exists = TRUE]], V, S),
         L.vestingRows \subseteq V, L.stakingRows \subseteq S,
         x \in Accounts => /\ WellFormedAccount(a)
                           /\ HasVestingLocks(a) => x \in V
                           /\ HasNodeStakingLocks(a) => x \in S
                           /\ HasWarnings(a) => x \in warned
  PROVE  Good(M, warned)
<1> DEFINE b == [a EXCEPT !.exists = TRUE]
           A == [L.accounts EXCEPT ![x] = b]
<1>1. Holds(M, A, V, S)
  OBVIOUS
<1>2. x \in Accounts => /\ WellFormedAccount(b)
                        /\ HasVestingLocks(b) => x \in V
                        /\ HasNodeStakingLocks(b) => x \in S
                        /\ HasWarnings(b) => x \in warned
  <2> SUFFICES ASSUME x \in Accounts
               PROVE  /\ WellFormedAccount(b)
                      /\ HasVestingLocks(b) => x \in V
                      /\ HasNodeStakingLocks(b) => x \in S
                      /\ HasWarnings(b) => x \in warned
    OBVIOUS
  <2>1. NoNewLocks(b, a)
    BY BalanceKeepsLocks, SameLocksFields
  <2> QED
    BY <2>1 DEF NoNewLocks
<1> HIDE DEF b
<1>3. /\ A = [y \in Accounts |-> A[y]]
      /\ \A y \in Accounts : A[y] = IF y = x THEN b ELSE L.accounts[y]
  BY DEF Good, WellFormed
<1> HIDE DEF A
<1>4. \A y \in Accounts : /\ WellFormedAccount(A[y])
                          /\ HasVestingLocks(A[y]) => y \in V
                          /\ HasNodeStakingLocks(A[y]) => y \in S
                          /\ HasWarnings(A[y]) => y \in warned
  BY <1>2, <1>3 DEF Good, WellFormed, Indexed
<1>5. QED
  BY <1>1, <1>3, <1>4, CoveredGood

------------------------------------------------------------------------------
(* Transfers *)

LEMMA DebitKeepsGood ==
  ASSUME NEW warned, NEW L, Good(L, warned), NEW t
  PROVE  Good(Debit(L, t), warned)
<1> DEFINE a == AddSpendableTokens(L.accounts[t.payer], -t.amount)
<1>1. t.payer \in Accounts => NoNewLocks(a, L.accounts[t.payer])
  BY BalanceKeepsLocks, SameLocksFields DEF Good, WellFormed
<1> HIDE DEF a
<1>2. Good(SaveAccountState(L, t.payer, a), warned)
  BY <1>1, SaveKeepsGood
<1>3. QED
  BY <1>2 DEF Debit, a

LEMMA CreditSpendableKeepsGood ==
  ASSUME NEW warned, NEW L, Good(L, warned), NEW t
  PROVE  Good(CreditSpendable(L, t).ledger, warned)
<1> DEFINE a == AddSpendableTokens(L.accounts[t.payee], t.amount)
<1>1. t.payee \in Accounts => NoNewLocks(a, L.accounts[t.payee])
  BY BalanceKeepsLocks, SameLocksFields DEF Good, WellFormed
<1> HIDE DEF a
<1>2. Good(SaveAccountState(L, t.payee, a), warned)
  BY <1>1, SaveKeepsGood
<1>3. QED
  BY <1>2 DEF CreditSpendable, Done, a

\* A vesting lock comes with its row.
LEMMA CreditVestedKeepsGood ==
  ASSUME NEW warned, NEW L, Good(L, warned), NEW t
  PROVE  Good(CreditVested(L, t).ledger, warned)
<1> DEFINE x == t.payee
           spent == AddSpendableTokens(L.accounts[x], t.amount)
           a == AddVestedTokens(L.accounts[x], t.amount, t.vesting)
           M == SaveAccountState(L, x, a)
           N == [M EXCEPT !.vestingRows = @ \cup {x}]
<1>1. x \in Accounts => WellFormedAccount(a) /\ a.stake = L.accounts[x].stake
  <2> SUFFICES ASSUME x \in Accounts
               PROVE  WellFormedAccount(a) /\ a.stake = L.accounts[x].stake
    OBVIOUS
  <2>1. WellFormedAccount(L.accounts[x])
    BY DEF Good, WellFormed
  <2>2. SameLocks(spent, L.accounts[x])
    BY <2>1, BalanceKeepsLocks
  <2>3. \E v : a = [spent EXCEPT !.vesting = v]
    BY DEF AddVestedTokens
  <2> HIDE DEF a, spent
  <2>4. PICK v : a = [spent EXCEPT !.vesting = v]
    BY <2>3
  <2>5. a \in [exists : {spent.exists}, balance : {spent.balance}, vesting : {v},
               escrow : {spent.escrow}, stake : {L.accounts[x].stake}]
    BY <2>2, <2>4 DEF SameLocks
  <2>6. /\ a = [exists |-> a.exists, balance |-> a.balance, vesting |-> a.vesting,
                escrow |-> a.escrow, stake |-> a.stake]
        /\ a.stake = L.accounts[x].stake
    BY <2>5
  <2> QED
    BY <2>1, <2>6 DEF WellFormedAccount
<1> HIDE DEF a
<1>2. Holds(M, [L.accounts EXCEPT ![x] = [a EXCEPT !.exists = TRUE]],
            L.vestingRows, L.stakingRows)
  BY SaveHolds DEF Good
<1> HIDE DEF M
<1>3. Holds(N, [L.accounts EXCEPT ![x] = [a EXCEPT !.exists = TRUE]],
            L.vestingRows \cup {x}, L.stakingRows)
  BY <1>2 DEF Holds
<1>4. x \in Accounts => /\ HasNodeStakingLocks(a) => x \in L.stakingRows
                        /\ HasWarnings(a) => x \in warned
  BY <1>1 DEF HasNodeStakingLocks, HasWarnings, Good, Indexed
<1> HIDE DEF N
<1>5. Good(N, warned)
  <2> DEFINE V == L.vestingRows \cup {x}
  <2>1. /\ Holds(N, [L.accounts EXCEPT ![x] = [a EXCEPT !.exists = TRUE]], V, L.stakingRows)
        /\ L.vestingRows \subseteq V /\ L.stakingRows \subseteq L.stakingRows
    BY <1>3
  <2>2. x \in Accounts => /\ WellFormedAccount(a)
                          /\ HasVestingLocks(a) => x \in V
                          /\ HasNodeStakingLocks(a) => x \in L.stakingRows
                          /\ HasWarnings(a) => x \in warned
    BY <1>1, <1>4
  <2> HIDE DEF V, x
  <2> QED
    BY <2>1, <2>2, SaveIndexedGood
<1>6. QED
  BY <1>5 DEF CreditVested, Done, N, M, a

LEMMA CreditEscrowedKeepsGood ==
  ASSUME NEW warned, NEW L, Good(L, warned), NEW t
  PROVE  Good(CreditEscrowed(L, t).ledger, warned)
<1> DEFINE lock == [amount |-> t.amount, agent |-> t.escrow.agent,
                    end |-> t.escrow.start + t.escrow.duration]
           row == [payer |-> t.payer, payee |-> t.payee, agent |-> t.escrow.agent]
           a == AddEscrowedTokens(L.accounts[t.payee], t.escrow.id, lock)
           M == SaveAccountState(L, t.payee, a)
<1> HIDE DEF lock, row
<1>1. t.payee \in Accounts => NoNewLocks(a, L.accounts[t.payee])
  BY BalanceKeepsLocks, SameLocksFields DEF Good, WellFormed
<1> HIDE DEF a
<1>2. Good(M, warned)
  BY <1>1, SaveKeepsGood
<1> HIDE DEF M
<1>3. Good([M EXCEPT !.cache = PutRaw(@, t.escrow.id, row)], warned)
  BY <1>2, TablesKeepGood
<1>4. CreditEscrowed(L, t).ledger \in {L, [M EXCEPT !.cache = PutRaw(@, t.escrow.id, row)]}
  BY DEF CreditEscrowed, Done, Throw, M, a, lock, row
<1>5. QED
  BY <1>3, <1>4

LEMMA TransferKeepsGood ==
  ASSUME NEW warned, NEW L, Good(L, warned), NEW t
  PROVE  Good(TokenTransfer(L, t).ledger, warned)
<1>1. Good(Credit(Debit(L, t), t).ledger, warned)
  BY DebitKeepsGood, CreditVestedKeepsGood, CreditEscrowedKeepsGood, CreditSpendableKeepsGood
     DEF Credit
<1>2. QED
  BY <1>1 DEF TokenTransfer, Throw

------------------------------------------------------------------------------
(* Escrow *)

LEMMA UnlockKeepsGood ==
  ASSUME NEW warned, NEW L, Good(L, warned), NEW row, NEW id
  PROVE  Good(Unlock(L, row, id), warned)
<1> DEFINE a == RemoveEscrowLock(L.accounts[row.payee], id)
<1>1. row.payee \in Accounts => NoNewLocks(a, L.accounts[row.payee])
  BY BalanceKeepsLocks, SameLocksFields DEF Good, WellFormed
<1> HIDE DEF a
<1>2. Good(SaveAccountState(L, row.payee, a), warned)
  BY <1>1, SaveKeepsGood
<1>3. QED
  BY <1>2 DEF Unlock, a

LEMMA DelEscrowKeepsGood ==
  ASSUME NEW warned, NEW L, Good(L, warned), NEW id
  PROVE  Good(DelEscrow(L, id), warned)
  BY TablesKeepGood DEF DelEscrow

LEMMA RefundKeepsGood ==
  ASSUME NEW warned, NEW L, Good(L, warned), NEW row, NEW id, NEW amount
  PROVE  Good(Refund(Unlock(L, row, id), row, amount).ledger, warned)
  BY UnlockKeepsGood, TransferKeepsGood DEF Refund

LEMMA SettlementKeepsGood ==
  ASSUME NEW warned, NEW L, Good(L, warned), NEW x, NEW id, NEW confirmed
  PROVE  Good(EscrowSettlement(L, x, id, confirmed).ledger, warned)
<1> DEFINE row == GetEscrow(L, id)
           refund == Refund(Unlock(L, row, id), row, LockOf(L, row, id).amount)
<1>1. Good(Unlock(L, row, id), warned) /\ Good(refund.ledger, warned)
  BY UnlockKeepsGood, RefundKeepsGood
<1> HIDE DEF refund
<1>2. Good(DelEscrow(Unlock(L, row, id), id), warned) /\ Good(DelEscrow(refund.ledger, id), warned)
  BY <1>1, DelEscrowKeepsGood
<1>3. EscrowSettlement(L, x, id, confirmed).ledger \in
        {L, DelEscrow(Unlock(L, row, id), id), DelEscrow(refund.ledger, id), refund.ledger}
  BY DEF EscrowSettlement, Done, Throw, refund
<1>4. QED
  BY <1>1, <1>2, <1>3

LEMMA ExpiryKeepsGood ==
  ASSUME NEW warned, NEW L, Good(L, warned), NEW id, NEW d
  PROVE  Good(UpdateExpiredEscrow(L, id, d).ledger, warned)
<1> DEFINE row == GetEscrow(L, id)
           refund == Refund(Unlock(L, row, id), row, LockOf(L, row, id).amount)
<1>1. Good(refund.ledger, warned)
  BY RefundKeepsGood
<1> HIDE DEF refund
<1>2. Good(DelEscrow(refund.ledger, id), warned)
  BY <1>1, DelEscrowKeepsGood
<1>3. UpdateExpiredEscrow(L, id, d).ledger \in {L, DelEscrow(refund.ledger, id), refund.ledger}
  BY DEF UpdateExpiredEscrow, Done, Throw, refund
<1>4. QED
  BY <1>1, <1>2, <1>3

------------------------------------------------------------------------------
(* Staking *)

\* Changing the stake of one node.
LEMMA StakeUpdate ==
  ASSUME NEW a, WellFormedAccount(a), NEW node, NEW lock, NEW b,
         b = [a EXCEPT !.stake[node] = lock]
  PROVE  /\ WellFormedAccount(b) /\ b.vesting = a.vesting
         /\ \A n \in Nodes : b.stake[n] = IF n = node THEN lock ELSE a.stake[n]
<1>1. SameLocks(a, a)
  BY WellFormedSameLocks
<1>2. b \in [exists : {a.exists}, balance : {a.balance}, vesting : {a.vesting},
             escrow : {a.escrow}, stake : {[a.stake EXCEPT ![node] = lock]}]
  BY <1>1 DEF SameLocks
<1>3. /\ b = [exists |-> b.exists, balance |-> b.balance, vesting |-> b.vesting,
              escrow |-> b.escrow, stake |-> b.stake]
      /\ b.vesting = a.vesting
      /\ b.stake = [a.stake EXCEPT ![node] = lock]
  BY <1>2
<1> QED
  BY <1>3 DEF WellFormedAccount

\* A stake comes with its row.
LEMMA StakeKeepsGood ==
  ASSUME NEW warned, NEW L, Good(L, warned), NEW x, NEW amount, NEW node
  PROVE  Good(Stake(L, x, amount, node).ledger, warned)
<1> DEFINE old == L.accounts[x]
           a == AddNodeStaking(old, amount, node)
           M == SaveAccountState(L, x, a)
           N == [M EXCEPT !.stakingRows = @ \cup {x}]
<1>1. x \in Accounts => /\ WellFormedAccount(a) /\ a.vesting = old.vesting
                        /\ HasWarnings(a) => HasWarnings(old)
  <2> SUFFICES ASSUME x \in Accounts
               PROVE  /\ WellFormedAccount(a) /\ a.vesting = old.vesting
                      /\ HasWarnings(a) => HasWarnings(old)
    OBVIOUS
  <2>1. WellFormedAccount(old)
    BY DEF Good, WellFormed
  <2>2. PICK lock : /\ a = [old EXCEPT !.stake[node] = lock]
                    /\ lock.slashDay # Missing =>
                         old.stake[node] # Missing /\ old.stake[node].slashDay # Missing
    <3>1. CASE old.stake[node] = Missing
      <4> DEFINE new == [amount |-> amount, unlock |-> 0, unlockDay |-> 0, slashDay |-> Missing]
      <4>1. a = [old EXCEPT !.stake[node] = new] /\ new.slashDay = Missing
        BY <3>1 DEF AddNodeStaking
      <4> QED
        BY <4>1
    <3>2. CASE old.stake[node] # Missing
      <4> DEFINE was == old.stake[node]
                 new == [was EXCEPT !.amount = @ + amount]
      <4>1. a = [old EXCEPT !.stake[node] = new]
        BY <3>2 DEF AddNodeStaking
      <4>2. new.slashDay = was.slashDay
        OBVIOUS
      <4> QED
        BY <3>2, <4>1, <4>2
    <3> QED
      BY <3>1, <3>2
  <2> HIDE DEF a, old
  <2>3. /\ WellFormedAccount(a) /\ a.vesting = old.vesting
        /\ \A n \in Nodes : a.stake[n] = IF n = node THEN lock ELSE old.stake[n]
    BY <2>1, <2>2, StakeUpdate
  <2> QED
    BY <2>2, <2>3 DEF HasWarnings
<1> HIDE DEF a
<1>2. Holds(M, [L.accounts EXCEPT ![x] = [a EXCEPT !.exists = TRUE]],
            L.vestingRows, L.stakingRows)
  BY SaveHolds DEF Good
<1> HIDE DEF M
<1>3. Holds(N, [L.accounts EXCEPT ![x] = [a EXCEPT !.exists = TRUE]],
            L.vestingRows, L.stakingRows \cup {x})
  BY <1>2 DEF Holds
<1>4. x \in Accounts => /\ HasVestingLocks(a) => x \in L.vestingRows
                        /\ HasWarnings(a) => x \in warned
  BY <1>1 DEF HasVestingLocks, Good, Indexed
<1> HIDE DEF N
<1>5. Good(N, warned)
  BY <1>1, <1>3, <1>4, SaveIndexedGood
<1>6. Stake(L, x, amount, node).ledger \in {L, N}
  BY DEF Stake, Done, Throw, N, M, a
<1>7. QED
  BY <1>5, <1>6

\* Changing a lock that is there adds none, and no warning if the lock gets none.
LEMMA StakeChangeAddsNoLocks ==
  ASSUME NEW a, WellFormedAccount(a), NEW node, NEW lock, a.stake[node] # Missing,
         lock.slashDay # Missing => a.stake[node].slashDay # Missing
  PROVE  NoNewLocks([a EXCEPT !.stake[node] = lock], a)
  BY StakeUpdate DEF NoNewLocks, HasVestingLocks, HasNodeStakingLocks, HasWarnings

LEMMA UnstakeKeepsGood ==
  ASSUME NEW warned, NEW L, Good(L, warned), NEW x, NEW amount, NEW node, NEW d
  PROVE  Good(PlanUnstake(L, x, amount, node, d).ledger, warned)
<1> DEFINE old == L.accounts[x]
           a == PlanNodeStakingUnlock(old, amount, node, d + UnstakingDelay)
<1>1. CASE old.stake[node] = Missing
  BY <1>1 DEF PlanUnstake, Throw
<1>2. CASE old.stake[node] # Missing
  <2>1. SUFFICES Good(SaveAccountState(L, x, a), warned)
    BY DEF PlanUnstake, Throw, Done
  <2>2. x \in Accounts => NoNewLocks(a, old)
    <3> SUFFICES ASSUME x \in Accounts PROVE NoNewLocks(a, old)
      OBVIOUS
    <3>1. WellFormedAccount(old)
      BY DEF Good, WellFormed
    <3>2. \E lock : /\ a = [old EXCEPT !.stake[node] = lock]
                    /\ lock.slashDay # Missing => old.stake[node].slashDay # Missing
      <4> DEFINE was == old.stake[node]
                 new == [was EXCEPT !.unlock = amount, !.unlockDay = d + UnstakingDelay]
      <4>1. a = [old EXCEPT !.stake[node] = new]
        BY <3>1 DEF PlanNodeStakingUnlock, WellFormedAccount
      <4>2. new.slashDay = was.slashDay
        OBVIOUS
      <4> QED
        BY <4>1, <4>2
    <3> HIDE DEF a
    <3> QED
      BY <1>2, <3>1, <3>2, StakeChangeAddsNoLocks
  <2> HIDE DEF a
  <2> QED
    BY <2>2, SaveKeepsGood
<1>3. QED
  BY <1>1, <1>2

LEMMA CancellationKeepsGood ==
  ASSUME NEW warned, NEW L, Good(L, warned), NEW node
  PROVE  Good(CancelSlashing(L, node).ledger, warned)
<1> DEFINE x == OwnerOf[node]
           old == L.accounts[x]
           a == CancelNodeSlashing(old, node)
<1>1. CASE old.stake[node] = Missing
  BY <1>1 DEF CancelSlashing, Throw
<1>2. CASE old.stake[node] # Missing
  <2>1. SUFFICES Good(SaveAccountState(L, x, a), warned)
    BY DEF CancelSlashing, Throw, Done
  <2>2. x \in Accounts => NoNewLocks(a, old)
    <3> SUFFICES ASSUME x \in Accounts PROVE NoNewLocks(a, old)
      OBVIOUS
    <3>1. WellFormedAccount(old)
      BY DEF Good, WellFormed
    <3>2. \E lock : /\ a = [old EXCEPT !.stake[node] = lock]
                    /\ lock.slashDay # Missing => old.stake[node].slashDay # Missing
      <4> DEFINE was == old.stake[node]
                 new == [was EXCEPT !.slashDay = Missing]
      <4>1. a = [old EXCEPT !.stake[node] = new]
        BY DEF CancelNodeSlashing
      <4>2. new.slashDay # Missing => was.slashDay # Missing
        OBVIOUS
      <4> QED
        BY <4>1, <4>2
    <3> HIDE DEF a
    <3> QED
      BY <1>2, <3>1, <3>2, StakeChangeAddsNoLocks
  <2> HIDE DEF a
  <2> QED
    BY <2>2, SaveKeepsGood
<1>3. QED
  BY <1>1, <1>2

------------------------------------------------------------------------------
(* Microblocks *)

LEMMA CreationKeepsGood ==
  ASSUME NEW warned, NEW L, Good(L, warned), NEW m, NEW s
  PROVE  Good(CreateAccount(L, m, s).ledger, warned)
<1> DEFINE t == [type |-> "sale", payer |-> s.seller, payee |-> m.owner,
                 amount |-> s.amount, fees |-> m.fees]
           sale == TokenTransfer(L, t)
<1>1. Good(sale.ledger, warned)
  BY TransferKeepsGood
<1> HIDE DEF sale
<1>2. Good([sale.ledger EXCEPT !.keys[s.key] = m.owner], warned)
  BY <1>1, TablesKeepGood
<1>3. CreateAccount(L, m, s).ledger
        \in {L, sale.ledger, [sale.ledger EXCEPT !.keys[s.key] = m.owner]}
  BY DEF CreateAccount, Done, Throw, sale
<1>4. QED
  BY <1>1, <1>2, <1>3

LEMMA SectionKeepsGood ==
  ASSUME NEW warned, NEW L, Good(L, warned), NEW m, NEW s \in Sections, NEW d
  PROVE  Good(ExecSection(L, m, s, d).ledger, warned)
<1>1. CASE s.kind = "creation"
  BY <1>1, CreationKeepsGood DEF ExecSection
<1>2. CASE s.kind = "transfer"
  BY <1>2, TransferKeepsGood DEF ExecSection
<1>3. CASE s.kind = "vesting"
  BY <1>3, TransferKeepsGood DEF ExecSection
<1>4. CASE s.kind = "escrow"
  BY <1>4, TransferKeepsGood DEF ExecSection
<1>5. CASE s.kind = "settlement"
  BY <1>5, SettlementKeepsGood DEF ExecSection
<1>6. CASE s.kind = "stake"
  BY <1>6, StakeKeepsGood DEF ExecSection
<1>7. CASE s.kind = "unstake"
  BY <1>7, UnstakeKeepsGood DEF ExecSection
<1>8. CASE s.kind = "cancellation"
  BY <1>8, CancellationKeepsGood DEF ExecSection
<1>9. QED
  BY <1>1, <1>2, <1>3, <1>4, <1>5, <1>6, <1>7, <1>8 DEF Sections

LEMMA PayFeesKeepsGood ==
  ASSUME NEW warned, NEW L, Good(L, warned), NEW m, NEW share
  PROVE  Good(PayFees(L, m).ledger, warned) /\ Good(PayShare(L, share).ledger, warned)
  BY TransferKeepsGood DEF PayFees, PayShare

LEMMA CommitKeepsGood ==
  ASSUME NEW warned, NEW L, Good(L, warned)
  PROVE  Good(CommitTables(L), warned)
  BY TablesKeepGood DEF CommitTables

------------------------------------------------------------------------------
(* Daily updates and misbehaviours *)

\* Changing all vesting locks of an account.
LEMMA VestingUpdate ==
  ASSUME NEW a, WellFormedAccount(a), NEW v
  PROVE  LET b == [a EXCEPT !.vesting = v] IN WellFormedAccount(b) /\ b.stake = a.stake
<1> DEFINE b == [a EXCEPT !.vesting = v]
<1>1. SameLocks(a, a)
  BY WellFormedSameLocks
<1>2. b \in [exists : {a.exists}, balance : {a.balance}, vesting : {v},
             escrow : {a.escrow}, stake : {a.stake}]
  BY <1>1 DEF SameLocks
<1> HIDE DEF b
<1>3. /\ b = [exists |-> b.exists, balance |-> b.balance, vesting |-> b.vesting,
              escrow |-> b.escrow, stake |-> b.stake]
      /\ b.stake = a.stake
  BY <1>2
<1>4. WellFormedAccount(b) /\ b.stake = a.stake
  BY <1>3 DEF WellFormedAccount
<1>5. QED
  BY <1>4 DEF b

\* Account b is a with other stakes f and another balance n.
LEMMA StakesUpdate ==
  ASSUME NEW a, NEW n, NEW f, NEW b, f = [k \in Nodes |-> f[k]],
         b \in [exists : {a.exists}, balance : {n}, vesting : {a.vesting},
               escrow : {a.escrow}, stake : {f}]
  PROVE  WellFormedAccount(b) /\ b.vesting = a.vesting /\ b.stake = f
<1>1. /\ b = [exists |-> b.exists, balance |-> b.balance, vesting |-> b.vesting,
              escrow |-> b.escrow, stake |-> b.stake]
      /\ b.vesting = a.vesting
      /\ b.stake = f
  OBVIOUS
<1>2. QED
  BY <1>1 DEF WellFormedAccount

LEMMA StakesOnlyUpdate ==
  ASSUME NEW a, WellFormedAccount(a), NEW f, f = [k \in Nodes |-> f[k]]
  PROVE  LET b == [a EXCEPT !.stake = f] IN
           WellFormedAccount(b) /\ b.vesting = a.vesting /\ b.stake = f
<1> DEFINE b == [a EXCEPT !.stake = f]
<1>1. SameLocks(a, a)
  BY WellFormedSameLocks
<1>2. b \in [exists : {a.exists}, balance : {a.balance}, vesting : {a.vesting},
             escrow : {a.escrow}, stake : {f}]
  BY <1>1 DEF SameLocks
<1> HIDE DEF b
<1>3. WellFormedAccount(b) /\ b.vesting = a.vesting /\ b.stake = f
  BY <1>2, StakesUpdate
<1>4. QED
  BY <1>3 DEF b

\* A row goes only with the last vesting lock.
LEMMA VestingLocksKeepGood ==
  ASSUME NEW warned, NEW L, Good(L, warned), NEW d
  PROVE  Good(UpdateVestingLocks(L, d), warned)
<1> DEFINE A == [x \in Accounts |-> IF x \in L.vestingRows
                                    THEN ApplyLinearVesting(L.accounts[x], d)
                                    ELSE L.accounts[x]]
           V == {x \in L.vestingRows : A[x] = L.accounts[x] \/ HasVestingLocks(A[x])}
           M == [L EXCEPT !.accounts = A, !.vestingRows = V]
<1>1. UpdateVestingLocks(L, d) = M
  BY DEF UpdateVestingLocks
<1>2. \A x \in Accounts : /\ WellFormedAccount(A[x])
                          /\ A[x].stake = L.accounts[x].stake
                          /\ x \notin L.vestingRows => A[x] = L.accounts[x]
  BY VestingUpdate DEF ApplyLinearVesting, Good, WellFormed
<1>3. A = [x \in Accounts |-> A[x]]
  OBVIOUS
<1> HIDE DEF A
<1>4. \A x \in Accounts : /\ HasVestingLocks(A[x]) => x \in V
                          /\ HasNodeStakingLocks(A[x]) => x \in L.stakingRows
                          /\ HasWarnings(A[x]) => x \in warned
  BY <1>2 DEF Good, Indexed, HasNodeStakingLocks, HasWarnings
<1>5. Holds(L, L.accounts, L.vestingRows, L.stakingRows)
  BY WellFormedHolds DEF Good
<1> HIDE DEF V
<1>6. Holds(M, A, V, L.stakingRows)
  BY <1>5 DEF Holds
<1> HIDE DEF M
<1>7. QED
  BY <1>1, <1>2, <1>3, <1>4, <1>6, CoveredGood

\* A row goes only with the last stake.
LEMMA UnlocksKeepGood ==
  ASSUME NEW warned, NEW L, Good(L, warned), NEW d
  PROVE  Good(ApplyUnlocks(L, d), warned)
<1> DEFINE A == [x \in Accounts |-> IF x \in L.stakingRows
                                    THEN ApplyNodeStakingUnlocks(L.accounts[x], d)
                                    ELSE L.accounts[x]]
           S == {x \in L.stakingRows : A[x] = L.accounts[x] \/ HasNodeStakingLocks(A[x])}
           M == [L EXCEPT !.accounts = A, !.stakingRows = S]
<1>1. ApplyUnlocks(L, d) = M
  BY DEF ApplyUnlocks
<1>2. \A x \in Accounts : /\ WellFormedAccount(A[x])
                          /\ A[x].vesting = L.accounts[x].vesting
                          /\ x \notin L.stakingRows => A[x] = L.accounts[x]
                          /\ HasWarnings(A[x]) => HasWarnings(L.accounts[x])
  <2> SUFFICES ASSUME NEW x \in Accounts
               PROVE  /\ WellFormedAccount(A[x])
                      /\ A[x].vesting = L.accounts[x].vesting
                      /\ x \notin L.stakingRows => A[x] = L.accounts[x]
                      /\ HasWarnings(A[x]) => HasWarnings(L.accounts[x])
    OBVIOUS
  <2> DEFINE a == L.accounts[x]
             b == ApplyNodeStakingUnlocks(a, d)
             f == [n \in Nodes |->
                     IF ~IsUnlocking(a.stake[n], d) THEN a.stake[n]
                     ELSE IF a.stake[n].unlock = a.stake[n].amount THEN Missing
                     ELSE [a.stake[n] EXCEPT !.amount = @ - a.stake[n].unlock, !.unlock = 0]]
  <2>1. WellFormedAccount(a)
    BY DEF Good, WellFormed
  <2>2. b = [a EXCEPT !.stake = f]
    BY DEF ApplyNodeStakingUnlocks
  <2>3. f = [n \in Nodes |-> f[n]]
    OBVIOUS
  <2>6. ASSUME NEW n \in Nodes, f[n] # Missing, f[n].slashDay # Missing
        PROVE  a.stake[n] # Missing /\ a.stake[n].slashDay # Missing
    <3> DEFINE lock == a.stake[n]
               rest == [lock EXCEPT !.amount = @ - lock.unlock, !.unlock = 0]
    <3>1. f[n] = IF ~IsUnlocking(lock, d) THEN lock
                 ELSE IF lock.unlock = lock.amount THEN Missing ELSE rest
      OBVIOUS
    <3>2. IsUnlocking(lock, d) => lock # Missing
      BY DEF IsUnlocking
    <3>3. rest.slashDay = lock.slashDay
      OBVIOUS
    <3> HIDE DEF rest, f, lock
    <3>4. f[n] = lock \/ (f[n] = rest /\ lock # Missing)
      BY <2>6, <3>1, <3>2
    <3>5. lock # Missing /\ lock.slashDay # Missing
      BY <2>6, <3>3, <3>4
    <3> QED
      BY <3>5 DEF lock
  <2>4. A[x] = IF x \in L.stakingRows THEN b ELSE a
    OBVIOUS
  <2> HIDE DEF f, b, A, a
  <2>5. WellFormedAccount(b) /\ b.vesting = a.vesting /\ b.stake = f
    BY <2>1, <2>2, <2>3, StakesOnlyUpdate
  <2>7. HasWarnings(b) => HasWarnings(a)
    BY <2>5, <2>6 DEF HasWarnings
  <2> QED
    BY <2>1, <2>4, <2>5, <2>7 DEF a
<1>3. A = [x \in Accounts |-> A[x]]
  OBVIOUS
<1> HIDE DEF A
<1>4. \A x \in Accounts : /\ HasVestingLocks(A[x]) => x \in L.vestingRows
                          /\ HasNodeStakingLocks(A[x]) => x \in S
                          /\ HasWarnings(A[x]) => x \in warned
  BY <1>2 DEF Good, Indexed, HasVestingLocks
<1>5. Holds(L, L.accounts, L.vestingRows, L.stakingRows)
  BY WellFormedHolds DEF Good
<1> HIDE DEF S
<1>6. Holds(M, A, L.vestingRows, S)
  BY <1>5 DEF Holds
<1> HIDE DEF M
<1>7. QED
  BY <1>1, <1>2, <1>3, <1>4, <1>6, CoveredGood

\* Changing the accounts without adding locks.
LEMMA AccountsKeepGood ==
  ASSUME NEW warned, NEW L, Good(L, warned), NEW A, A = [x \in Accounts |-> A[x]],
         \A x \in Accounts : NoNewLocks(A[x], L.accounts[x])
  PROVE  Good([L EXCEPT !.accounts = A], warned)
<1> DEFINE M == [L EXCEPT !.accounts = A]
<1>1. Holds(L, L.accounts, L.vestingRows, L.stakingRows)
  BY WellFormedHolds DEF Good
<1>2. Holds(M, A, L.vestingRows, L.stakingRows)
  BY <1>1 DEF Holds
<1>3. \A x \in Accounts : /\ WellFormedAccount(A[x])
                          /\ HasVestingLocks(A[x]) => x \in L.vestingRows
                          /\ HasNodeStakingLocks(A[x]) => x \in L.stakingRows
                          /\ HasWarnings(A[x]) => x \in warned
  BY DEF NoNewLocks, Good, Indexed
<1> HIDE DEF M
<1>4. Good(M, warned)
  BY <1>2, <1>3, CoveredGood
<1>5. QED
  BY <1>4 DEF M

LEMMA SlashingKeepsGood ==
  ASSUME NEW warned, NEW L, Good(L, warned), NEW d
  PROVE  Good(ApplySlashing(L, d), warned)
<1> DEFINE A == [x \in Accounts |-> IF x \in L.stakingRows
                                    THEN ApplyNodeSlashing(L.accounts[x], d)
                                    ELSE L.accounts[x]]
<1>1. ASSUME NEW x \in Accounts
      PROVE  NoNewLocks(A[x], L.accounts[x])
  <2> DEFINE a == L.accounts[x]
             b == ApplyNodeSlashing(a, d)
             n == a.balance - SlashedAmount(a, d)
             f == [k \in Nodes |-> IF IsSlashed(a.stake[k], d) THEN Missing ELSE a.stake[k]]
  <2>1. WellFormedAccount(a)
    BY DEF Good, WellFormed
  <2>2. b = [a EXCEPT !.balance = n, !.stake = f]
    BY DEF ApplyNodeSlashing
  <2>3. f = [k \in Nodes |-> f[k]] /\ \A k \in Nodes : f[k] # Missing => a.stake[k] = f[k]
    OBVIOUS
  <2>4. A[x] = IF x \in L.stakingRows THEN b ELSE a
    OBVIOUS
  <2> HIDE DEF f, n, b, A, a
  <2>5. SameLocks(a, a)
    BY <2>1, WellFormedSameLocks
  <2>6. [a EXCEPT !.balance = n, !.stake = f]
          \in [exists : {a.exists}, balance : {n}, vesting : {a.vesting},
              escrow : {a.escrow}, stake : {f}]
    BY <2>5 DEF SameLocks
  <2>7. WellFormedAccount(b) /\ b.vesting = a.vesting /\ b.stake = f
    BY <2>2, <2>3, <2>6, StakesUpdate
  <2> QED
    BY <2>1, <2>3, <2>4, <2>7 DEF a, NoNewLocks, HasVestingLocks, HasNodeStakingLocks, HasWarnings
<1>2. A = [x \in Accounts |-> A[x]]
  OBVIOUS
<1>3. ApplySlashing(L, d) = [L EXCEPT !.accounts = A]
  BY DEF ApplySlashing
<1> HIDE DEF A
<1>4. QED
  BY <1>1, <1>2, <1>3, AccountsKeepGood

\* A warning changes only locks that are there.
LEMMA WarningKeepsGood ==
  ASSUME NEW warned, NEW L, Good(L, warned), NEW offenders, NEW d
  PROVE  Good(SetNodeSlashing(L, offenders, d), Accounts)
<1> DEFINE Warned(x) == {n \in offenders : OwnerOf[n] = x /\ L.accounts[x].stake[n] # Missing}
           StakesAt(x) == [n \in Nodes |-> IF n \in Warned(x)
                                           THEN [L.accounts[x].stake[n] EXCEPT !.slashDay = d]
                                           ELSE L.accounts[x].stake[n]]
           A == [x \in Accounts |-> [L.accounts[x] EXCEPT !.stake = StakesAt(x)]]
<1>1. ASSUME NEW x \in Accounts
      PROVE  /\ WellFormedAccount(A[x])
             /\ HasVestingLocks(A[x]) => HasVestingLocks(L.accounts[x])
             /\ HasNodeStakingLocks(A[x]) => HasNodeStakingLocks(L.accounts[x])
  <2> DEFINE a == L.accounts[x]
             f == StakesAt(x)
             b == [a EXCEPT !.stake = f]
  <2>1. WellFormedAccount(a)
    BY DEF Good, WellFormed
  <2>2. f = [k \in Nodes |-> f[k]] /\ \A k \in Nodes : f[k] # Missing => a.stake[k] # Missing
    OBVIOUS
  <2>3. A[x] = b
    OBVIOUS
  <2> HIDE DEF f, A, a
  <2>4. WellFormedAccount(b) /\ b.vesting = a.vesting /\ b.stake = f
    BY <2>1, <2>2, StakesOnlyUpdate
  <2> HIDE DEF b
  <2> QED
    BY <2>2, <2>3, <2>4 DEF a, HasVestingLocks, HasNodeStakingLocks
<1>2. A = [x \in Accounts |-> A[x]]
  OBVIOUS
<1>3. SetNodeSlashing(L, offenders, d) = [L EXCEPT !.accounts = A]
  BY DEF SetNodeSlashing
<1> DEFINE M == [L EXCEPT !.accounts = A]
<1>4. Holds(L, L.accounts, L.vestingRows, L.stakingRows)
  BY WellFormedHolds DEF Good
<1> HIDE DEF A
<1>5. Holds(M, A, L.vestingRows, L.stakingRows)
  BY <1>4 DEF Holds
<1> HIDE DEF M
<1>6. \A x \in Accounts : /\ WellFormedAccount(A[x])
                          /\ HasVestingLocks(A[x]) => x \in L.vestingRows
                          /\ HasNodeStakingLocks(A[x]) => x \in L.stakingRows
                          /\ HasWarnings(A[x]) => x \in Accounts
  BY <1>1 DEF Good, Indexed
<1>7. Good(M, Accounts)
  BY <1>2, <1>5, <1>6, CoveredGood
<1> QED
  BY <1>3, <1>7 DEF M

LEMMA LedgersAreWellFormed ==
  ASSUME NEW L \in Ledgers
  PROVE  WellFormed(L)
<1>1. ASSUME NEW x \in Accounts PROVE WellFormedAccount(L.accounts[x])
  <2>1. L.accounts[x] \in AccountStates
    BY <1>1 DEF Ledgers
  <2> QED
    BY <2>1 DEF AccountStates, WellFormedAccount
<1> QED
  BY <1>1 DEF Ledgers, WellFormed

------------------------------------------------------------------------------
(* The fields of a ledger *)

AccountTables == [Accounts -> AccountStates]
Caches == [ins : EscrowTables, del : SUBSET EscrowIds]
IndexTables == SUBSET Accounts
KeyTables == [PublicKeys -> StandardAccounts \cup {Missing}]

LedgerOf(A, E, C, V, S, K) ==
  [accounts |-> A, escrows |-> E, cache |-> C, vestingRows |-> V, stakingRows |-> S,
   keys |-> K]

LEMMA LedgerFields ==
  ASSUME NEW L \in Ledgers
  PROVE  /\ L = LedgerOf(L.accounts, L.escrows, L.cache, L.vestingRows, L.stakingRows, L.keys)
         /\ L.accounts \in AccountTables
         /\ L.escrows \in EscrowTables
         /\ L.cache \in Caches
         /\ L.vestingRows \in IndexTables
         /\ L.stakingRows \in IndexTables
         /\ L.keys \in KeyTables
  BY DEF Ledgers, LedgerOf, AccountTables, Caches, KeyTables, IndexTables

LEMMA LedgerType ==
  ASSUME NEW A \in AccountTables, NEW E \in EscrowTables, NEW C \in Caches,
         NEW V \in IndexTables, NEW S \in IndexTables, NEW K \in KeyTables,
         NEW M, M = LedgerOf(A, E, C, V, S, K)
  PROVE  /\ M \in Ledgers
         /\ M.accounts = A /\ M.escrows = E /\ M.cache = C
         /\ M.vestingRows = V /\ M.stakingRows = S /\ M.keys = K
  BY DEF Ledgers, LedgerOf, AccountTables, Caches, KeyTables, IndexTables

\* Changing fields.
LEMMA LedgerUpdates ==
  ASSUME NEW L \in Ledgers, NEW p, NEW M
  PROVE  /\ M = [L EXCEPT !.accounts = p]
              => M = LedgerOf(p, L.escrows, L.cache, L.vestingRows, L.stakingRows, L.keys)
         /\ M = [L EXCEPT !.cache = p]
              => M = LedgerOf(L.accounts, L.escrows, p, L.vestingRows, L.stakingRows, L.keys)
         /\ M = [L EXCEPT !.vestingRows = p]
              => M = LedgerOf(L.accounts, L.escrows, L.cache, p, L.stakingRows, L.keys)
         /\ M = [L EXCEPT !.stakingRows = p]
              => M = LedgerOf(L.accounts, L.escrows, L.cache, L.vestingRows, p, L.keys)
         /\ M = [L EXCEPT !.keys = p]
              => M = LedgerOf(L.accounts, L.escrows, L.cache, L.vestingRows, L.stakingRows, p)
<1>1. M = [L EXCEPT !.accounts = p]
        => M = LedgerOf(p, L.escrows, L.cache, L.vestingRows, L.stakingRows, L.keys)
  BY DEF Ledgers, LedgerOf
<1>2. M = [L EXCEPT !.cache = p]
        => M = LedgerOf(L.accounts, L.escrows, p, L.vestingRows, L.stakingRows, L.keys)
  BY DEF Ledgers, LedgerOf
<1>3. M = [L EXCEPT !.vestingRows = p]
        => M = LedgerOf(L.accounts, L.escrows, L.cache, p, L.stakingRows, L.keys)
  BY DEF Ledgers, LedgerOf
<1>4. M = [L EXCEPT !.stakingRows = p]
        => M = LedgerOf(L.accounts, L.escrows, L.cache, L.vestingRows, p, L.keys)
  BY DEF Ledgers, LedgerOf
<1>5. M = [L EXCEPT !.keys = p]
        => M = LedgerOf(L.accounts, L.escrows, L.cache, L.vestingRows, L.stakingRows, p)
  BY DEF Ledgers, LedgerOf
<1> QED
  BY <1>1, <1>2, <1>3, <1>4, <1>5

LEMMA TwoFieldUpdates ==
  ASSUME NEW L \in Ledgers, NEW p, NEW q, NEW M
  PROVE  /\ M = [L EXCEPT !.accounts = p, !.vestingRows = q]
              => M = LedgerOf(p, L.escrows, L.cache, q, L.stakingRows, L.keys)
         /\ M = [L EXCEPT !.accounts = p, !.stakingRows = q]
              => M = LedgerOf(p, L.escrows, L.cache, L.vestingRows, q, L.keys)
         /\ M = [L EXCEPT !.escrows = p, !.cache = q]
              => M = LedgerOf(L.accounts, p, q, L.vestingRows, L.stakingRows, L.keys)
<1>1. L \in [accounts : {L.accounts}, escrows : {L.escrows}, cache : {L.cache},
             vestingRows : {L.vestingRows}, stakingRows : {L.stakingRows}, keys : {L.keys}]
  BY DEF Ledgers
<1>2. M = [L EXCEPT !.accounts = p, !.vestingRows = q]
        => M = LedgerOf(p, L.escrows, L.cache, q, L.stakingRows, L.keys)
  BY <1>1 DEF LedgerOf
<1>3. M = [L EXCEPT !.accounts = p, !.stakingRows = q]
        => M = LedgerOf(p, L.escrows, L.cache, L.vestingRows, q, L.keys)
  BY <1>1 DEF LedgerOf
<1>4. M = [L EXCEPT !.escrows = p, !.cache = q]
        => M = LedgerOf(L.accounts, p, q, L.vestingRows, L.stakingRows, L.keys)
  BY <1>1 DEF LedgerOf
<1> QED
  BY <1>2, <1>3, <1>4

------------------------------------------------------------------------------
(* The total of the balances *)

Balances(A) == [x \in Accounts |-> A[x].balance]
TotalOfAccounts(A) == SumFunctionOnSet(Balances(A), Accounts)

LEMMA TotalBalanceOf == ASSUME NEW L PROVE TotalBalance(L) = TotalOfAccounts(L.accounts)
  BY DEF TotalBalance, TotalOfAccounts, Balances, SumFunction

LEMMA TotalType ==
  ASSUME NEW A, \A x \in Accounts : A[x].balance \in Nat
  PROVE  /\ Summable(Balances(A), Accounts)
         /\ TotalOfAccounts(A) \in Nat
<1>1. \A x \in Accounts : Balances(A)[x] = A[x].balance
  BY DEF Balances
<1>2. Summable(Balances(A), Accounts) /\ \A x \in Accounts : Balances(A)[x] >= 0
  BY <1>1, LedgerAssumption DEF Summable
<1> QED
  BY <1>2, SumOfNaturals DEF TotalOfAccounts

\* One balance changes.
LEMMA TotalUpdate ==
  ASSUME NEW A, \A x \in Accounts : A[x].balance \in Nat,
         NEW y \in Accounts, NEW B, B[y].balance \in Int,
         \A x \in Accounts \ {y} : B[x] = A[x]
  PROVE  TotalOfAccounts(B) = TotalOfAccounts(A) - A[y].balance + B[y].balance
<1>1. /\ \A x \in Accounts : Balances(A)[x] = A[x].balance
      /\ \A x \in Accounts : Balances(B)[x] = B[x].balance
  BY DEF Balances
<1>2. Summable(Balances(A), Accounts)
  BY TotalType
<1>3. Balances(B)[y] \in Int /\ \A x \in Accounts \ {y} : Balances(B)[x] = Balances(A)[x]
  BY <1>1
<1>4. SumFunctionOnSet(Balances(B), Accounts)
        = SumFunctionOnSet(Balances(A), Accounts) - Balances(A)[y] + Balances(B)[y]
  BY <1>2, <1>3, SumOfUpdate
<1> QED
  BY <1>1, <1>4 DEF TotalOfAccounts

\* Each balance gets smaller by k.
LEMMA TotalDifference ==
  ASSUME NEW A, \A x \in Accounts : A[x].balance \in Nat, NEW k, Summable(k, Accounts),
         NEW B, \A x \in Accounts : B[x].balance = A[x].balance - k[x]
  PROVE  TotalOfAccounts(B) = TotalOfAccounts(A) - SumFunctionOnSet(k, Accounts)
<1>1. /\ \A x \in Accounts : Balances(A)[x] = A[x].balance
      /\ \A x \in Accounts : Balances(B)[x] = B[x].balance
  BY DEF Balances
<1>2. Summable(Balances(A), Accounts)
  BY TotalType
<1>3. \A x \in Accounts : Balances(B)[x] = Balances(A)[x] - k[x]
  BY <1>1
<1> QED
  BY <1>2, <1>3, SumOfDifferences DEF TotalOfAccounts

------------------------------------------------------------------------------
(* Solvent ledgers *)

\* A sound ledger, but for its index tables and for the rows of its escrows.
Solvent(L, d) ==
  /\ L \in Ledgers
  /\ Covered(L)
  /\ PayeesExist(L)
  /\ CacheDisjoint(L)
  /\ LocksInTime(L, d)

SolventAccount(a, d) == SoundAccount(a, d) /\ Spendable(a) >= 0

LEMMA SolventAccountType ==
  ASSUME NEW a, NEW d, SolventAccount(a, d)
  PROVE  a \in AccountStates /\ a \in OpenAccounts /\ InTime(a, d) /\ a.balance \in Nat
<1>1. a \in AccountStates
  BY CoveredAccount DEF SolventAccount, SoundAccount
<1> QED
  BY <1>1 DEF SolventAccount, SoundAccount, AccountStates

LEMMA SolventParts ==
  ASSUME NEW L, NEW d, Solvent(L, d)
  PROVE  /\ L \in Ledgers
         /\ \A x \in Accounts : SolventAccount(L.accounts[x], d)
         /\ \A x \in Accounts : L.accounts[x].balance \in Nat
         /\ TotalBalance(L) \in Nat
<1>1. ASSUME NEW x \in Accounts
      PROVE  SolventAccount(L.accounts[x], d) /\ L.accounts[x].balance \in Nat
  <2>1. L.accounts[x] \in AccountStates
    BY <1>1 DEF Solvent, Ledgers
  <2>2. L.accounts[x] \in OpenAccounts /\ L.accounts[x].balance \in Nat
    BY <2>1 DEF AccountStates, OpenAccounts, Vestings, Escrows, Stakes
  <2> QED
    BY <1>1, <2>2 DEF Solvent, SolventAccount, SoundAccount, Covered, LocksInTime
<1>2. L \in Ledgers
  BY DEF Solvent
<1>3. TotalBalance(L) \in Nat
  BY <1>1, TotalType, TotalBalanceOf
<1> QED
  BY <1>1, <1>2, <1>3

\* The escrows of two ledgers.
SameRows(L, M) == M.escrows = L.escrows /\ M.cache = L.cache

LEMMA SameRowsGive ==
  ASSUME NEW L, NEW M, SameRows(L, M)
  PROVE  Rows(M) = Rows(L) /\ \A id : GetEscrow(M, id) = GetEscrow(L, id)
  BY DEF SameRows, Rows, GetEscrow

\* Solvent accounts A to put in the place of those of L.
Replaces(A, L, d) ==
  /\ A = [x \in Accounts |-> A[x]]
  /\ \A x \in Accounts : SolventAccount(A[x], d)
  /\ \A x \in Accounts : L.accounts[x].exists => A[x].exists
  /\ NoLocks(A[FeesAccount])

\* The accounts of a solvent ledger change.
LEMMA AccountsChange ==
  ASSUME NEW L, NEW c, Solvent(L, c), NEW d, NEW A, Replaces(A, L, d),
         NEW V \in IndexTables, NEW S \in IndexTables, NEW K \in KeyTables,
         NEW M, M = LedgerOf(A, L.escrows, L.cache, V, S, K)
  PROVE  Solvent(M, d) /\ M.accounts = A /\ SameRows(L, M) /\ TotalBalance(M) = TotalOfAccounts(A)
<1>0. /\ A = [x \in Accounts |-> A[x]]
      /\ \A x \in Accounts : SolventAccount(A[x], d)
      /\ \A x \in Accounts : L.accounts[x].exists => A[x].exists
      /\ NoLocks(A[FeesAccount])
  BY DEF Replaces
<1>1. \A x \in Accounts : A[x] \in AccountStates /\ InTime(A[x], d)
  BY <1>0, SolventAccountType
<1>2. A \in AccountTables
  BY <1>0, <1>1 DEF AccountTables
<1>3. L.escrows \in EscrowTables /\ L.cache \in Caches /\ L \in Ledgers
  BY LedgerFields DEF Solvent
<1>4. /\ M \in Ledgers
      /\ M.accounts = A /\ M.escrows = L.escrows /\ M.cache = L.cache
  BY <1>2, <1>3, LedgerType
<1>5. SameRows(L, M) /\ Rows(M) = Rows(L)
  BY <1>4, SameRowsGive DEF SameRows
<1>6. Covered(M)
  BY <1>0, <1>4 DEF Covered, SolventAccount
<1>7. LocksInTime(M, d)
  BY <1>1, <1>4 DEF LocksInTime
<1>8. CacheDisjoint(M)
  BY <1>4 DEF CacheDisjoint, Solvent
<1>9. PayeesExist(M)
  <2>1. ASSUME NEW id \in EscrowIds, Rows(M)[id] # Missing
        PROVE  M.accounts[Rows(M)[id].payer].exists
    <3>1. Rows(L)[id] # Missing /\ L.accounts[Rows(L)[id].payer].exists
      BY <1>5, <2>1 DEF Solvent, PayeesExist
    <3>2. Rows(L)[id] \in EscrowRows
      <4>1. L.escrows \in EscrowTables /\ L.cache.ins \in EscrowTables
        BY <1>3 DEF Caches
      <4> QED
        BY <3>1, <4>1 DEF Rows, FullTable, EscrowTables
    <3>3. Rows(L)[id].payer \in Accounts
      BY <3>2 DEF EscrowRows, Accounts
    <3> QED
      BY <1>0, <1>4, <1>5, <3>1, <3>3
  <2>2. \A n \in Nodes : OwnerOf[n] \in Accounts
    BY AccountsAssumption DEF Accounts
  <2>3. FeesAccount \in Accounts
    BY DEF Accounts
  <2> QED
    BY <1>0, <1>4, <2>1, <2>2, <2>3 DEF Solvent, PayeesExist
<1>10. TotalBalance(M) = TotalOfAccounts(A)
  BY <1>4, TotalBalanceOf
<1> QED
  BY <1>4, <1>5, <1>6, <1>7, <1>8, <1>9, <1>10 DEF Solvent

\* Rows and payers.
LEMMA RowTypes ==
  ASSUME NEW L \in Ledgers, NEW id \in EscrowIds
  PROVE  /\ Rows(L)[id] \in EscrowRows \cup {Missing}
         /\ GetEscrow(L, id) \in EscrowRows \cup {Missing}
         /\ Rows(L)[id] # Missing => GetEscrow(L, id) = Rows(L)[id]
         /\ GetEscrow(L, id) = Missing => Rows(L)[id] = Missing
         /\ Rows(L)[id] # Missing => id \in GetKeys(L.escrows, L.cache)
<1>1. L.escrows \in EscrowTables /\ L.cache.ins \in EscrowTables
  BY LedgerFields DEF Caches
<1> QED
  BY <1>1 DEF Rows, GetEscrow, GetRaw, FullTable, EscrowTables, GetKeys

LEMMA RowParts ==
  ASSUME NEW row \in EscrowRows
  PROVE  /\ row.payer \in StandardAccounts /\ row.payee \in StandardAccounts
         /\ row.agent \in StandardAccounts
         /\ row.payer \in Accounts /\ row.payee \in Accounts
         /\ row.payer # FeesAccount /\ row.payee # FeesAccount
         /\ row # Missing
  BY AccountsAssumption, LedgerAssumption DEF EscrowRows, Accounts

\* The tables of the escrows of a solvent ledger change.
LEMMA TablesChange ==
  ASSUME NEW L, NEW d, Solvent(L, d), NEW E \in EscrowTables, NEW C \in Caches,
         \A id \in C.del : C.ins[id] = Missing,
         NEW M, M = LedgerOf(L.accounts, E, C, L.vestingRows, L.stakingRows, L.keys),
         \A id \in EscrowIds :
           FullTable(E, C)[id] # Missing => L.accounts[FullTable(E, C)[id].payer].exists
  PROVE  /\ Solvent(M, d) /\ M.accounts = L.accounts /\ Rows(M) = FullTable(E, C)
         /\ TotalBalance(M) = TotalBalance(L)
<1>1. /\ L.accounts \in AccountTables /\ L.vestingRows \in IndexTables
      /\ L.stakingRows \in IndexTables /\ L.keys \in KeyTables
  BY LedgerFields DEF Solvent
<1>2. M \in Ledgers /\ M.accounts = L.accounts /\ M.escrows = E /\ M.cache = C
  BY <1>1, LedgerType
<1>3. Rows(M) = FullTable(E, C)
  BY <1>2 DEF Rows
<1>4. Covered(M) /\ LocksInTime(M, d) /\ CacheDisjoint(M)
  BY <1>2 DEF Solvent, Covered, LocksInTime, CacheDisjoint
<1>5. PayeesExist(M)
  BY <1>2, <1>3 DEF Solvent, PayeesExist
<1>6. TotalBalance(M) = TotalBalance(L)
  BY <1>2, TotalBalanceOf
<1> QED
  BY <1>2, <1>3, <1>4, <1>5, <1>6 DEF Solvent

------------------------------------------------------------------------------
(* Saving an account *)

\* M is L with account x saved as a.
Saved(L, M, x, a, d) ==
  /\ Solvent(M, d)
  /\ SameRows(L, M)
  /\ TotalBalance(M) = TotalBalance(L) - L.accounts[x].balance + a.balance
  /\ \A y \in Accounts \ {x} : M.accounts[y] = L.accounts[y]
  /\ M.accounts[x].exists
  /\ M.accounts[x].escrow = a.escrow
  /\ M.accounts[x].balance = a.balance
  /\ Spendable(M.accounts[x]) = Spendable(a)
  /\ \A y \in Accounts : L.accounts[y].exists => M.accounts[y].exists

\* What the account table holds of a, which is saved: a as an existing account.
SavedAs(b, a, d) ==
  /\ SolventAccount(b, d)
  /\ b.exists
  /\ b.balance = a.balance
  /\ b.vesting = a.vesting /\ b.escrow = a.escrow /\ b.stake = a.stake
  /\ Spendable(b) = Spendable(a)

LEMMA ExistingAccount ==
  ASSUME NEW a, NEW d, SolventAccount(a, d), NEW b, b = [a EXCEPT !.exists = TRUE]
  PROVE  SavedAs(b, a, d)
  BY ExistsEffect DEF SolventAccount, SavedAs

LEMMA SaveEffect ==
  ASSUME NEW L, NEW d, Solvent(L, d), NEW x \in Accounts,
         NEW a, x = FeesAccount => NoLocks(a), NEW b, SavedAs(b, a, d),
         NEW V \in IndexTables, NEW S \in IndexTables, NEW K \in KeyTables,
         NEW M, M = LedgerOf([L.accounts EXCEPT ![x] = b], L.escrows, L.cache, V, S, K)
  PROVE  Saved(L, M, x, a, d)
<1> DEFINE A == [L.accounts EXCEPT ![x] = b]
<1>1. /\ SolventAccount(b, d) /\ b.exists
      /\ b.balance = a.balance
      /\ b.vesting = a.vesting /\ b.escrow = a.escrow /\ b.stake = a.stake
      /\ Spendable(b) = Spendable(a)
  BY DEF SavedAs
<1>2. b.balance \in Nat
  BY <1>1, SolventAccountType
<1>3. L.accounts \in AccountTables
  BY LedgerFields DEF Solvent
<1>4. /\ A = [y \in Accounts |-> A[y]]
      /\ A[x] = b /\ \A y \in Accounts \ {x} : A[y] = L.accounts[y]
  BY <1>3 DEF AccountTables
<1>5. M = LedgerOf(A, L.escrows, L.cache, V, S, K)
  OBVIOUS
<1> HIDE DEF A
<1>6. \A y \in Accounts : SolventAccount(L.accounts[y], d) /\ L.accounts[y].balance \in Nat
  BY SolventParts
<1>7. \A y \in Accounts : SolventAccount(A[y], d)
  BY <1>1, <1>4, <1>6
<1>8. \A y \in Accounts : L.accounts[y].exists => A[y].exists
  BY <1>1, <1>4
<1>9. NoLocks(A[FeesAccount])
  <2>1. CASE x = FeesAccount
    <3>1. NoLocks(a)
      BY <2>1
    <3> QED
      BY <1>1, <1>4, <2>1, <3>1 DEF NoLocks, HasVestingLocks, HasNodeStakingLocks
  <2>2. CASE x # FeesAccount
    <3>1. A[FeesAccount] = L.accounts[FeesAccount]
      BY <1>4, <2>2 DEF Accounts
    <3> QED
      BY <3>1 DEF Solvent, PayeesExist
  <2> QED
    BY <2>1, <2>2
<1>10. /\ Solvent(M, d) /\ M.accounts = A /\ SameRows(L, M)
       /\ TotalBalance(M) = TotalOfAccounts(A)
  <2>1. Replaces(A, L, d)
    BY <1>4, <1>7, <1>8, <1>9 DEF Replaces
  <2> QED
    BY <1>5, <2>1, AccountsChange
<1>11. TotalOfAccounts(A) = TotalOfAccounts(L.accounts) - L.accounts[x].balance + b.balance
  <2>1. A[x].balance \in Int
    BY <1>2, <1>4
  <2> QED
    BY <1>4, <1>6, <2>1, TotalUpdate
<1>12. TotalBalance(M) = TotalBalance(L) - L.accounts[x].balance + a.balance
  BY <1>1, <1>10, <1>11, TotalBalanceOf
<1> QED
  BY <1>1, <1>4, <1>8, <1>10, <1>12 DEF Saved

LEMMA SaveFieldsEffect ==
  ASSUME NEW L, NEW d, Solvent(L, d), NEW x \in Accounts,
         NEW a, x = FeesAccount => NoLocks(a), NEW b, SavedAs(b, a, d),
         NEW M, M = [L EXCEPT !.accounts = [L.accounts EXCEPT ![x] = b]]
  PROVE  Saved(L, M, x, a, d)
<1> DEFINE A == [L.accounts EXCEPT ![x] = b]
<1>1. M = [L EXCEPT !.accounts = A]
  OBVIOUS
<1>2. L \in Ledgers
  BY DEF Solvent
<1>3. M = LedgerOf(A, L.escrows, L.cache, L.vestingRows, L.stakingRows, L.keys)
  <2> HIDE DEF A
  <2> QED
    BY <1>1, <1>2, LedgerUpdates
<1>4. /\ L.vestingRows \in IndexTables /\ L.stakingRows \in IndexTables
      /\ L.keys \in KeyTables
  BY <1>2, LedgerFields
<1> QED
  BY <1>3, <1>4, SaveEffect

\* saveAccountState() itself.
LEMMA SaveAccountEffect ==
  ASSUME NEW L, NEW d, Solvent(L, d), NEW x \in Accounts,
         NEW a, SolventAccount(a, d), x = FeesAccount => NoLocks(a),
         NEW M, M = SaveAccountState(L, x, a)
  PROVE  Saved(L, M, x, a, d)
<1>1. PICK b : b = [a EXCEPT !.exists = TRUE]
  OBVIOUS
<1>2. SavedAs(b, a, d)
  BY <1>1, ExistingAccount
<1>3. M = [L EXCEPT !.accounts = [L.accounts EXCEPT ![x] = b]]
  BY <1>1 DEF SaveAccountState
<1> QED
  BY <1>2, <1>3, SaveFieldsEffect

------------------------------------------------------------------------------
(* Rows and locks *)

\* The escrow locks of the accounts A are those of the rows R.
RowMatches(A, row, id) ==
  /\ row = Missing => \A x \in Accounts : A[x].escrow[id] = Missing
  /\ row # Missing => /\ \A x \in Accounts : A[x].escrow[id] # Missing <=> x = row.payee
                      /\ A[row.payee].escrow[id].agent = row.agent

Matching(A, R) == \A id \in EscrowIds : RowMatches(A, R[id], id)

LEMMA RowsMatchingLocks ==
  ASSUME NEW L \in Ledgers
  PROVE  RowsMatchLocks(L) <=> Matching(L.accounts, Rows(L))
<1>1. \A id \in EscrowIds : Rows(L)[id] # Missing => Rows(L)[id].payee \in Accounts
  BY RowTypes, RowParts
<1> QED
  BY <1>1 DEF RowsMatchLocks, Matching, RowMatches, Holders, LockOf

\* M has n more tokens than L, and its escrows are as sound as those of L.
Keeps(L, M, d, n) ==
  /\ Solvent(M, d)
  /\ TotalBalance(M) = TotalBalance(L) + n
  /\ RowsMatchLocks(L) => RowsMatchLocks(M)

\* M has n more tokens than L, and the same escrows.
Moves(L, M, d, n) ==
  /\ Solvent(M, d)
  /\ TotalBalance(M) = TotalBalance(L) + n
  /\ SameRows(L, M)
  /\ \A x \in Accounts : M.accounts[x].escrow = L.accounts[x].escrow
  /\ \A x \in Accounts : L.accounts[x].exists => M.accounts[x].exists

LEMMA MovesKeeps ==
  ASSUME NEW L \in Ledgers, NEW M, NEW d, NEW n, Moves(L, M, d, n)
  PROVE  Keeps(L, M, d, n)
<1>1. Rows(M) = Rows(L)
  BY SameRowsGive DEF Moves
<1>2. M \in Ledgers
  BY DEF Moves, Solvent
<1>3. \A x \in Accounts : M.accounts[x].escrow = L.accounts[x].escrow
  BY DEF Moves
<1>4. Matching(L.accounts, Rows(L)) => Matching(M.accounts, Rows(M))
  <2>1. \A id \in EscrowIds : Rows(L)[id] # Missing => Rows(L)[id].payee \in Accounts
    BY RowTypes, RowParts
  <2> QED
    BY <1>1, <1>3, <2>1 DEF Matching, RowMatches
<1> QED
  BY <1>2, <1>4, RowsMatchingLocks DEF Moves, Keeps

LEMMA MovesTwice ==
  ASSUME NEW L, NEW M, NEW N, NEW d, NEW m \in Int, NEW n \in Int,
         Solvent(L, d), Moves(L, M, d, m), Moves(M, N, d, n)
  PROVE  Moves(L, N, d, m + n)
<1>1. TotalBalance(L) \in Nat
  BY SolventParts
<1>2. TotalBalance(N) = TotalBalance(L) + (m + n)
  BY <1>1 DEF Moves
<1> QED
  BY <1>2 DEF Moves, SameRows

LEMMA SavedMoves ==
  ASSUME NEW L, NEW d, Solvent(L, d), NEW x \in Accounts, NEW M, NEW a, NEW n \in Int,
         Saved(L, M, x, a, d), a.balance = L.accounts[x].balance + n,
         a.escrow = L.accounts[x].escrow
  PROVE  Moves(L, M, d, n)
<1>1. TotalBalance(L) \in Nat /\ L.accounts[x].balance \in Nat
  BY SolventParts
<1>2. TotalBalance(M) = TotalBalance(L) + n
  BY <1>1 DEF Saved
<1>3. \A y \in Accounts : M.accounts[y].escrow = L.accounts[y].escrow
  BY DEF Saved
<1> QED
  BY <1>2, <1>3 DEF Saved, Moves

------------------------------------------------------------------------------
(* Transfers *)

\* A solvent ledger whose rows match its locks.
Secure(L, d) == Solvent(L, d) /\ RowsMatchLocks(L)

LEMMA MovesSecure ==
  ASSUME NEW L, NEW M, NEW d, NEW n, Secure(L, d), Moves(L, M, d, n)
  PROVE  Secure(M, d) /\ TotalBalance(M) = TotalBalance(L) + n
<1>1. L \in Ledgers
  BY DEF Secure, Solvent
<1> QED
  BY <1>1, MovesKeeps DEF Secure, Keeps

\* A transfer as the handlers pass it.
TypedTransfer(t) ==
  /\ t.payer \in Accounts /\ t.payee \in Accounts
  /\ t.amount \in Nat /\ t.fees \in Nat
  /\ t.type = "vesting" => /\ t.payee # FeesAccount
                           /\ t.vesting.start \in Int
                           /\ t.vesting.cliff \in Nat /\ t.vesting.duration \in Nat
  /\ t.type = "escrow" => /\ t.payer \in StandardAccounts /\ t.payee \in StandardAccounts
                          /\ t.escrow.id \in EscrowIds /\ t.escrow.agent \in StandardAccounts
                          /\ t.escrow.start \in Int /\ t.escrow.duration \in Int

LEMMA NoLocksSame ==
  ASSUME NEW a, NEW b, NoLocks(a), b.vesting = a.vesting, b.escrow = a.escrow,
         b.stake = a.stake
  PROVE  NoLocks(b)
  BY DEF NoLocks, HasVestingLocks, HasNodeStakingLocks

\* Spendable tokens of account x are added, or taken.
LEMMA SaveSpendable ==
  ASSUME NEW L, NEW d, Solvent(L, d), NEW x \in Accounts, NEW n \in Int,
         Spendable(L.accounts[x]) + n >= 0,
         NEW M, M = SaveAccountState(L, x, AddSpendableTokens(L.accounts[x], n))
  PROVE  Moves(L, M, d, n) /\ M.accounts[x].exists
<1> DEFINE a == AddSpendableTokens(L.accounts[x], n)
<1>1. SolventAccount(L.accounts[x], d)
  BY SolventParts
<1>2. /\ Becomes(L.accounts[x], a, d, n, n)
      /\ a.vesting = L.accounts[x].vesting /\ a.escrow = L.accounts[x].escrow
      /\ a.stake = L.accounts[x].stake
  BY <1>1, AddSpendableEffect DEF SolventAccount
<1> HIDE DEF a
<1>3. SolventAccount(a, d) /\ a.balance = L.accounts[x].balance + n
  BY <1>2 DEF Becomes, SolventAccount
<1>4. x = FeesAccount => NoLocks(a)
  <2>1. x = FeesAccount => NoLocks(L.accounts[x])
    BY DEF Solvent, PayeesExist
  <2> QED
    BY <1>2, <2>1, NoLocksSame
<1>5. Saved(L, M, x, a, d)
  BY <1>3, <1>4, SaveAccountEffect DEF a
<1>6. Moves(L, M, d, n)
  BY <1>2, <1>3, <1>5, SavedMoves
<1> QED
  BY <1>5, <1>6 DEF Saved

LEMMA PayerCovers ==
  ASSUME NEW L, NEW d, Solvent(L, d), NEW t, TypedTransfer(t), ~Refused(L, t)
  PROVE  /\ t.payer # Missing
         /\ Spendable(L.accounts[t.payer]) >= t.amount
         /\ Spendable(L.accounts[t.payer]) \in Int
<1>1. t.payer \in Accounts /\ t.payer # Missing /\ t.amount \in Nat /\ t.fees \in Nat
  BY LedgerAssumption DEF TypedTransfer
<1>2. SoundAccount(L.accounts[t.payer], d)
  BY <1>1, SolventParts DEF SolventAccount
<1>3. Spendable(L.accounts[t.payer]) \in Int
  BY <1>2, SoundParts
<1>4. ~(Spendable(L.accounts[t.payer]) < t.amount + t.fees)
  BY <1>1 DEF Refused
<1> QED
  BY <1>1, <1>3, <1>4

LEMMA DebitEffect ==
  ASSUME NEW L, NEW d, Solvent(L, d), NEW t, TypedTransfer(t), ~Refused(L, t),
         NEW M, M = Debit(L, t)
  PROVE  Moves(L, M, d, -t.amount) /\ M.accounts[t.payer].exists
<1>1. /\ t.payer \in Accounts /\ t.payer # Missing /\ t.amount \in Nat
      /\ Spendable(L.accounts[t.payer]) >= t.amount
      /\ Spendable(L.accounts[t.payer]) \in Int
  BY PayerCovers DEF TypedTransfer
<1>2. M = SaveAccountState(L, t.payer, AddSpendableTokens(L.accounts[t.payer], -t.amount))
  BY <1>1 DEF Debit
<1>3. Spendable(L.accounts[t.payer]) + (-t.amount) >= 0 /\ -t.amount \in Int
  BY <1>1
<1> QED
  BY <1>1, <1>2, <1>3, SaveSpendable

\* The result r of a handler that adds n tokens to L, or throws at once.
Credited(L, r, d, n) ==
  /\ r.ok \in BOOLEAN
  /\ r.ok = FALSE => r.ledger = L
  /\ r.ok = TRUE => Secure(r.ledger, d) /\ TotalBalance(r.ledger) = TotalBalance(L) + n

LEMMA Results ==
  ASSUME NEW L
  PROVE  /\ Done(L).ok = TRUE /\ Done(L).ledger = L
         /\ Throw(L).ok = FALSE /\ Throw(L).ledger = L
  BY DEF Done, Throw

LEMMA CreditSpendableEffect ==
  ASSUME NEW L, NEW d, Solvent(L, d), NEW t, TypedTransfer(t)
  PROVE  /\ CreditSpendable(L, t).ok = TRUE
         /\ Moves(L, CreditSpendable(L, t).ledger, d, t.amount)
<1> DEFINE M == SaveAccountState(L, t.payee, AddSpendableTokens(L.accounts[t.payee], t.amount))
<1>1. t.payee \in Accounts /\ t.amount \in Nat
  BY DEF TypedTransfer
<1>2. Spendable(L.accounts[t.payee]) \in Int /\ Spendable(L.accounts[t.payee]) >= 0
  <2>1. SolventAccount(L.accounts[t.payee], d)
    BY <1>1, SolventParts
  <2> QED
    BY <2>1, SoundParts DEF SolventAccount
<1>3. Spendable(L.accounts[t.payee]) + t.amount >= 0 /\ t.amount \in Int
  BY <1>1, <1>2
<1>4. Moves(L, M, d, t.amount)
  BY <1>1, <1>3, SaveSpendable
<1>5. CreditSpendable(L, t) = Done(M)
  BY DEF CreditSpendable
<1> HIDE DEF M
<1> QED
  BY <1>4, <1>5, Results

\* The index tables and the keys of a ledger change.
LEMMA IndexChange ==
  ASSUME NEW L, NEW d, Solvent(L, d),
         NEW V \in IndexTables, NEW S \in IndexTables, NEW K \in KeyTables,
         NEW M, M = LedgerOf(L.accounts, L.escrows, L.cache, V, S, K)
  PROVE  Moves(L, M, d, 0) /\ M.accounts = L.accounts
<1>1. L.accounts \in AccountTables
  BY LedgerFields DEF Solvent
<1>2. L.accounts = [x \in Accounts |-> L.accounts[x]]
  BY <1>1 DEF AccountTables
<1>3. Replaces(L.accounts, L, d)
  BY <1>2, SolventParts DEF Replaces, Solvent, PayeesExist
<1>4. /\ Solvent(M, d) /\ M.accounts = L.accounts /\ SameRows(L, M)
      /\ TotalBalance(M) = TotalOfAccounts(L.accounts)
  BY <1>3, AccountsChange
<1>5. TotalBalance(M) = TotalBalance(L) + 0
  BY <1>4, TotalBalanceOf, SolventParts
<1> QED
  BY <1>4, <1>5 DEF Moves

LEMMA CreditVestedEffect ==
  ASSUME NEW L, NEW d \in Int, Secure(L, d), NEW t, TypedTransfer(t), t.type = "vesting"
  PROVE  Credited(L, CreditVested(L, t), d, t.amount)
<1> DEFINE x == t.payee
           a == AddVestedTokens(L.accounts[x], t.amount, t.vesting)
           M == SaveAccountState(L, x, a)
           N == [M EXCEPT !.vestingRows = M.vestingRows \cup {x}]
<1>1. /\ x \in Accounts /\ x # FeesAccount /\ t.amount \in Nat /\ Solvent(L, d)
      /\ t.vesting.start \in Int /\ t.vesting.cliff \in Nat /\ t.vesting.duration \in Nat
  BY DEF TypedTransfer, Secure
<1> HIDE DEF x
<1>2. SolventAccount(L.accounts[x], d) /\ L.accounts[x].balance \in Nat
  BY <1>1, SolventParts
<1>3. Becomes(L.accounts[x], a, d, t.amount, 0) /\ a.escrow = L.accounts[x].escrow
  BY <1>1, <1>2, AddVestedEffect DEF SolventAccount
<1> HIDE DEF a
<1>4. SolventAccount(a, d) /\ a.balance = L.accounts[x].balance + t.amount
  <2>1. Spendable(L.accounts[x]) \in Int /\ Spendable(L.accounts[x]) >= 0
    BY <1>2, SoundParts DEF SolventAccount
  <2> QED
    BY <1>3, <2>1 DEF Becomes, SolventAccount
<1>5. Saved(L, M, x, a, d)
  BY <1>1, <1>4, SaveAccountEffect
<1> HIDE DEF M
<1>6. Moves(L, M, d, t.amount)
  BY <1>1, <1>3, <1>4, <1>5, SavedMoves
<1>7. Secure(M, d) /\ TotalBalance(M) = TotalBalance(L) + t.amount
  BY <1>6, MovesSecure
<1>8. Moves(M, N, d, 0)
  <2> DEFINE V == M.vestingRows \cup {x}
  <2>1. /\ M \in Ledgers /\ Solvent(M, d) /\ V \in IndexTables /\ M.stakingRows \in IndexTables
        /\ M.keys \in KeyTables
    <3>1. M \in Ledgers /\ Solvent(M, d)
      BY <1>7 DEF Secure, Solvent
    <3>2. M.vestingRows \in IndexTables /\ M.stakingRows \in IndexTables /\ M.keys \in KeyTables
      BY <3>1, LedgerFields
    <3> QED
      BY <1>1, <3>1, <3>2 DEF IndexTables
  <2> HIDE DEF V
  <2>2. N = [M EXCEPT !.vestingRows = V]
    BY DEF V
  <2>3. N = LedgerOf(M.accounts, M.escrows, M.cache, V, M.stakingRows, M.keys)
    BY <2>1, <2>2, LedgerUpdates
  <2> QED
    BY <2>1, <2>3, IndexChange
<1>9. Secure(N, d) /\ TotalBalance(N) = TotalBalance(M) + 0
  BY <1>7, <1>8, MovesSecure
<1>10. CreditVested(L, t) = Done(N)
  BY DEF CreditVested, M, a, x
<1>11. TotalBalance(N) = TotalBalance(L) + t.amount
  <2>1. TotalBalance(M) \in Nat
    BY <1>7, SolventParts DEF Secure
  <2> QED
    BY <1>7, <1>9, <2>1
<1> HIDE DEF N
<1> QED
  BY <1>9, <1>10, <1>11, Results DEF Credited

\* A row put, and a row deleted.
LEMMA PutRowTable ==
  ASSUME NEW L \in Ledgers, NEW id \in EscrowIds, NEW row \in EscrowRows,
         \A i \in L.cache.del : L.cache.ins[i] = Missing,
         NEW C, C = PutRaw(L.cache, id, row)
  PROVE  /\ C \in Caches
         /\ \A i \in C.del : C.ins[i] = Missing
         /\ FullTable(L.escrows, C)[id] = row
         /\ \A i \in EscrowIds \ {id} : FullTable(L.escrows, C)[i] = Rows(L)[i]
<1>1. /\ L.escrows \in EscrowTables /\ L.cache.ins \in EscrowTables
      /\ L.cache.del \in SUBSET EscrowIds
  BY LedgerFields DEF Caches
<1>2. row # Missing
  BY RowParts
<1> DEFINE ins == [L.cache.ins EXCEPT ![id] = row]
           del == L.cache.del \ {id}
<1>3. C.ins = ins /\ C.del = del /\ C = [ins |-> ins, del |-> del]
  BY DEF PutRaw
<1>4. ins \in EscrowTables /\ del \in SUBSET EscrowIds
  BY <1>1 DEF EscrowTables
<1>5. ins[id] = row /\ \A i \in EscrowIds \ {id} : ins[i] = L.cache.ins[i]
  BY <1>1 DEF EscrowTables
<1> HIDE DEF ins
<1>6. C \in Caches
  BY <1>3, <1>4 DEF Caches
<1>7. \A i \in C.del : C.ins[i] = Missing
  BY <1>1, <1>3, <1>5
<1>8. FullTable(L.escrows, C)[id] = row
  BY <1>1, <1>2, <1>3, <1>5 DEF FullTable, EscrowTables
<1>9. \A i \in EscrowIds \ {id} : FullTable(L.escrows, C)[i] = Rows(L)[i]
  BY <1>1, <1>3, <1>5 DEF FullTable, EscrowTables, Rows
<1> QED
  BY <1>6, <1>7, <1>8, <1>9

LEMMA DelRowTable ==
  ASSUME NEW L \in Ledgers, NEW id \in EscrowIds,
         \A i \in L.cache.del : L.cache.ins[i] = Missing,
         NEW C, C = DelRaw(L.cache, id)
  PROVE  /\ C \in Caches
         /\ \A i \in C.del : C.ins[i] = Missing
         /\ FullTable(L.escrows, C)[id] = Missing
         /\ \A i \in EscrowIds \ {id} : FullTable(L.escrows, C)[i] = Rows(L)[i]
<1>1. /\ L.escrows \in EscrowTables /\ L.cache.ins \in EscrowTables
      /\ L.cache.del \in SUBSET EscrowIds
  BY LedgerFields DEF Caches
<1> DEFINE ins == [L.cache.ins EXCEPT ![id] = Missing]
           del == L.cache.del \cup {id}
<1>3. C.ins = ins /\ C.del = del /\ C = [ins |-> ins, del |-> del]
  BY DEF DelRaw
<1>4. ins \in EscrowTables /\ del \in SUBSET EscrowIds
  BY <1>1 DEF EscrowTables
<1>5. ins[id] = Missing /\ \A i \in EscrowIds \ {id} : ins[i] = L.cache.ins[i]
  BY <1>1 DEF EscrowTables
<1> HIDE DEF ins
<1>6. C \in Caches
  BY <1>3, <1>4 DEF Caches
<1>7. \A i \in C.del : C.ins[i] = Missing
  BY <1>1, <1>3, <1>5
<1>8. FullTable(L.escrows, C)[id] = Missing
  BY <1>1, <1>3, <1>5 DEF FullTable, EscrowTables
<1>9. \A i \in EscrowIds \ {id} : FullTable(L.escrows, C)[i] = Rows(L)[i]
  BY <1>1, <1>3, <1>5 DEF FullTable, EscrowTables, Rows
<1> QED
  BY <1>6, <1>7, <1>8, <1>9

\* The escrow locks of accounts B are those of A, but for those with identifier id.
SameOthers(A, B, id) ==
  \A x \in Accounts, i \in EscrowIds \ {id} : B[x].escrow[i] = A[x].escrow[i]

\* Rows Q are R, but for that of id.
SameOtherRows(Q, R, id) == \A i \in EscrowIds \ {id} : Q[i] = R[i]

LEMMA MatchingOthers ==
  ASSUME NEW L \in Ledgers, NEW B, NEW Q, NEW id \in EscrowIds, Matching(L.accounts, Rows(L)),
         SameOthers(L.accounts, B, id), SameOtherRows(Q, Rows(L), id), RowMatches(B, Q[id], id)
  PROVE  Matching(B, Q)
<1>1. ASSUME NEW i \in EscrowIds \ {id}
      PROVE  RowMatches(B, Q[i], i)
  <2>1. Q[i] = Rows(L)[i] /\ i \in EscrowIds
    BY <1>1 DEF SameOtherRows
  <2>2. \A x \in Accounts : B[x].escrow[i] = L.accounts[x].escrow[i]
    BY <1>1 DEF SameOthers
  <2>3. Rows(L)[i] # Missing => Rows(L)[i].payee \in Accounts
    BY <2>1, RowTypes, RowParts
  <2>4. RowMatches(L.accounts, Rows(L)[i], i)
    BY <2>1 DEF Matching
  <2> QED
    BY <2>1, <2>2, <2>3, <2>4 DEF RowMatches
<1> QED
  BY <1>1 DEF Matching

LEMMA CreditEscrowedEffect ==
  ASSUME NEW L, NEW d, Secure(L, d), NEW t, TypedTransfer(t), t.type = "escrow",
         L.accounts[t.payer].exists
  PROVE  Credited(L, CreditEscrowed(L, t), d, t.amount)
<1> DEFINE id == t.escrow.id
           lock == [amount |-> t.amount, agent |-> t.escrow.agent,
                    end |-> t.escrow.start + t.escrow.duration]
           row == [payer |-> t.payer, payee |-> t.payee, agent |-> t.escrow.agent]
           x == t.payee
           a == AddEscrowedTokens(L.accounts[x], id, lock)
           M == SaveAccountState(L, x, a)
           C == PutRaw(M.cache, id, row)
           N == [M EXCEPT !.cache = C]
<1>1. /\ x \in Accounts /\ x \in StandardAccounts /\ x # FeesAccount /\ t.amount \in Nat
      /\ t.payer \in StandardAccounts /\ t.payer \in Accounts
      /\ id \in EscrowIds /\ t.escrow.agent \in StandardAccounts
      /\ Solvent(L, d) /\ L \in Ledgers /\ Matching(L.accounts, Rows(L))
  BY AccountsAssumption, RowsMatchingLocks DEF TypedTransfer, Secure, Solvent, Accounts
<1>2. lock \in EscrowLocks /\ lock.amount = t.amount /\ lock.agent = t.escrow.agent
  BY DEF TypedTransfer, EscrowLocks
<1>3. /\ row \in EscrowRows /\ row.payee = x /\ row.payer = t.payer
      /\ row.agent = t.escrow.agent /\ row # Missing
  BY <1>1, LedgerAssumption DEF EscrowRows
<1>4. CreditEscrowed(L, t) = IF GetEscrow(L, id) # Missing THEN Throw(L) ELSE Done(N)
  BY DEF CreditEscrowed
<1>5. CASE GetEscrow(L, id) # Missing
  BY <1>4, <1>5, Results DEF Credited
<1>6. CASE GetEscrow(L, id) = Missing
  <2> HIDE DEF row, lock, id, x
  <2>1. Rows(L)[id] = Missing
    BY <1>1, <1>6, RowTypes
  <2>2. \A y \in Accounts : L.accounts[y].escrow[id] = Missing
    BY <1>1, <2>1 DEF Matching, RowMatches
  <2>3. SolventAccount(L.accounts[x], d) /\ L.accounts[x].balance \in Nat
    BY <1>1, SolventParts
  <2>4. /\ Becomes(L.accounts[x], a, d, t.amount, 0)
        /\ a.escrow = [L.accounts[x].escrow EXCEPT ![id] = lock]
    <3>1. L.accounts[x].escrow[id] = Missing
      BY <1>1, <2>2
    <3> QED
      BY <1>1, <1>2, <2>3, <3>1, AddEscrowedEffect DEF SolventAccount
  <2> HIDE DEF a
  <2>5. SolventAccount(a, d) /\ a.balance = L.accounts[x].balance + t.amount
    <3>1. Spendable(L.accounts[x]) \in Int /\ Spendable(L.accounts[x]) >= 0
      BY <2>3, SoundParts DEF SolventAccount
    <3> QED
      BY <2>4, <3>1 DEF Becomes, SolventAccount
  <2>6. Saved(L, M, x, a, d)
    BY <1>1, <2>5, SaveAccountEffect
  <2> HIDE DEF M
  <2>7. TotalBalance(M) = TotalBalance(L) + t.amount
    <3>1. TotalBalance(L) \in Nat
      BY <1>1, SolventParts
    <3> QED
      BY <1>1, <2>3, <2>5, <2>6, <3>1 DEF Saved
  <2>8. /\ Solvent(M, d) /\ M \in Ledgers /\ SameRows(L, M) /\ Rows(M) = Rows(L)
        /\ M.accounts[t.payer].exists
    BY <1>1, <2>6, SameRowsGive DEF Saved, Solvent
  <2>9. /\ C \in Caches
        /\ \A i \in C.del : C.ins[i] = Missing
        /\ FullTable(M.escrows, C)[id] = row
        /\ \A i \in EscrowIds \ {id} : FullTable(M.escrows, C)[i] = Rows(M)[i]
    <3>1. \A i \in M.cache.del : M.cache.ins[i] = Missing
      BY <2>8 DEF Solvent, CacheDisjoint
    <3>2. M \in Ledgers /\ id \in EscrowIds /\ row \in EscrowRows
      BY <1>1, <1>3, <2>8
    <3>3. C = PutRaw(M.cache, id, row)
      OBVIOUS
    <3> HIDE DEF C
    <3> QED
      BY <3>1, <3>2, <3>3, PutRowTable
  <2> HIDE DEF C
  <2>10. \A i \in EscrowIds : FullTable(M.escrows, C)[i] # Missing
                                => M.accounts[FullTable(M.escrows, C)[i].payer].exists
    <3>1. ASSUME NEW i \in EscrowIds, FullTable(M.escrows, C)[i] # Missing
          PROVE  M.accounts[FullTable(M.escrows, C)[i].payer].exists
      <4>1. CASE i = id
        BY <1>3, <2>8, <2>9, <4>1
      <4>2. CASE i # id
        <5>1. FullTable(M.escrows, C)[i] = Rows(M)[i]
          BY <2>9, <3>1, <4>2
        <5> QED
          BY <2>8, <3>1, <5>1 DEF Solvent, PayeesExist
      <4> QED
        BY <4>1, <4>2
    <3> QED
      BY <3>1
  <2>11. N = LedgerOf(M.accounts, M.escrows, C, M.vestingRows, M.stakingRows, M.keys)
    BY <2>8, LedgerUpdates
  <2> HIDE DEF N
  <2>12. /\ Solvent(N, d) /\ N.accounts = M.accounts /\ Rows(N) = FullTable(M.escrows, C)
         /\ TotalBalance(N) = TotalBalance(M)
    <3>1. M.escrows \in EscrowTables
      BY <2>8, LedgerFields
    <3> QED
      BY <2>8, <2>9, <2>10, <2>11, <3>1, TablesChange
  <2>13. /\ M.accounts[x].escrow[id] = lock
         /\ \A i \in EscrowIds \ {id} : M.accounts[x].escrow[i] = L.accounts[x].escrow[i]
         /\ \A y \in Accounts \ {x} : M.accounts[y] = L.accounts[y]
    <3>1. L.accounts[x].escrow \in Escrows
      BY <2>3, SoundParts DEF SolventAccount
    <3> QED
      BY <1>1, <2>4, <2>6, <3>1 DEF Saved, Escrows
  <2>14. SameOthers(L.accounts, N.accounts, id)
    BY <2>12, <2>13 DEF SameOthers
  <2>15. lock # Missing
    BY <1>2, LedgerAssumption
  <2>16. /\ \A y \in Accounts : N.accounts[y].escrow[id] # Missing <=> y = x
         /\ N.accounts[x].escrow[id].agent = row.agent
    BY <1>1, <1>2, <1>3, <2>2, <2>12, <2>13, <2>15
  <2>17. Matching(N.accounts, Rows(N))
    <3>1. SameOtherRows(Rows(N), Rows(L), id)
      BY <2>8, <2>9, <2>12 DEF SameOtherRows
    <3>2. Rows(N)[id] = row
      BY <2>9, <2>12
    <3>3. RowMatches(N.accounts, Rows(N)[id], id)
      BY <1>3, <2>16, <3>2 DEF RowMatches
    <3> QED
      BY <1>1, <2>14, <3>1, <3>3, MatchingOthers
  <2>18. Secure(N, d)
    BY <2>12, <2>17, RowsMatchingLocks DEF Secure, Solvent
  <2>19. CreditEscrowed(L, t) = Done(N)
    BY <1>4, <1>6
  <2> QED
    BY <2>7, <2>12, <2>18, <2>19, Results DEF Credited
<1> QED
  BY <1>5, <1>6

\* The result r of a handler that creates no tokens, and loses none unless it throws.
Outcome(L, r, d) ==
  /\ r.ok \in BOOLEAN
  /\ Secure(r.ledger, d)
  /\ TotalBalance(r.ledger) <= TotalBalance(L)
  /\ r.ok = TRUE => TotalBalance(r.ledger) = TotalBalance(L)

LEMMA Outcomes ==
  ASSUME NEW L, NEW d, NEW r, NEW M, r.ledger = M, Secure(M, d),
         TotalBalance(L) \in Nat, TotalBalance(M) \in Nat
  PROVE  /\ r.ok = FALSE /\ TotalBalance(M) <= TotalBalance(L) => Outcome(L, r, d)
         /\ r.ok = TRUE /\ TotalBalance(M) = TotalBalance(L) => Outcome(L, r, d)
<1>1. ASSUME r.ok = FALSE, TotalBalance(M) <= TotalBalance(L)
      PROVE  Outcome(L, r, d)
  <2>1. r.ok \in BOOLEAN /\ ~(r.ok = TRUE)
    BY <1>1
  <2>2. TotalBalance(r.ledger) <= TotalBalance(L)
    BY <1>1
  <2>3. Secure(r.ledger, d)
    OBVIOUS
  <2> QED
    BY <2>1, <2>2, <2>3 DEF Outcome
<1>2. ASSUME r.ok = TRUE, TotalBalance(M) = TotalBalance(L)
      PROVE  Outcome(L, r, d)
  <2>1. r.ok \in BOOLEAN
    BY <1>2
  <2>2. TotalBalance(r.ledger) = TotalBalance(L)
    BY <1>2
  <2>3. TotalBalance(r.ledger) <= TotalBalance(L)
    BY <1>2
  <2>4. Secure(r.ledger, d)
    OBVIOUS
  <2> QED
    BY <2>1, <2>2, <2>3, <2>4 DEF Outcome
<1> QED
  BY <1>1, <1>2

LEMMA SecureTotal ==
  ASSUME NEW L, NEW d, Secure(L, d)
  PROVE  TotalBalance(L) \in Nat /\ Solvent(L, d) /\ L \in Ledgers
  BY SolventParts DEF Secure, Solvent

LEMMA ThrowAtOnce ==
  ASSUME NEW L, NEW d, Secure(L, d), NEW r, r \in {Throw(L), Done(L)}
  PROVE  Outcome(L, r, d)
<1>1. TotalBalance(L) \in Nat
  BY SecureTotal
<1>2. TotalBalance(L) <= TotalBalance(L)
  BY <1>1
<1>3. CASE r = Throw(L)
  <2>1. r.ledger = L /\ r.ok = FALSE
    BY <1>3, Results
  <2> QED
    BY <1>1, <1>2, <2>1, Outcomes
<1>4. CASE r = Done(L)
  <2>1. r.ledger = L /\ r.ok = TRUE
    BY <1>4, Results
  <2> QED
    BY <1>1, <2>1, Outcomes
<1> QED
  BY <1>3, <1>4

\* A transfer of spendable tokens that is not refused succeeds.
LEMMA PlainTransferEffect ==
  ASSUME NEW L, NEW d, Solvent(L, d), NEW t, TypedTransfer(t),
         t.type \notin {"vesting", "escrow"}, ~Refused(L, t)
  PROVE  TokenTransfer(L, t).ok = TRUE /\ Moves(L, TokenTransfer(L, t).ledger, d, 0)
<1> DEFINE D == Debit(L, t)
           M == CreditSpendable(D, t).ledger
<1>1. t.amount \in Nat
  BY DEF TypedTransfer
<1>2. Moves(L, D, d, -t.amount)
  BY DebitEffect
<1>3. Solvent(D, d)
  BY <1>2 DEF Moves
<1> HIDE DEF D
<1>4. CreditSpendable(D, t).ok = TRUE /\ Moves(D, M, d, t.amount)
  BY <1>3, CreditSpendableEffect
<1>5. Moves(L, M, d, (-t.amount) + t.amount)
  <2>1. -t.amount \in Int /\ t.amount \in Int
    BY <1>1
  <2> HIDE DEF M
  <2> QED
    BY <1>2, <1>4, <2>1, MovesTwice
<1>6. (-t.amount) + t.amount = 0
  BY <1>1
<1>7. TokenTransfer(L, t) = CreditSpendable(D, t)
  BY DEF TokenTransfer, Credit, D
<1> QED
  BY <1>4, <1>5, <1>6, <1>7

LEMMA TransferEffect ==
  ASSUME NEW L, NEW d \in Int, Secure(L, d), NEW t, TypedTransfer(t)
  PROVE  Outcome(L, TokenTransfer(L, t), d)
<1>1. CASE Refused(L, t)
  <2>1. TokenTransfer(L, t) = Throw(L)
    BY <1>1 DEF TokenTransfer
  <2> QED
    BY <2>1, ThrowAtOnce
<1>2. CASE ~Refused(L, t)
  <2> DEFINE D == Debit(L, t)
             r == TokenTransfer(L, t)
  <2>1. t.amount \in Nat /\ TotalBalance(L) \in Nat /\ Solvent(L, d)
    BY SolventParts DEF TypedTransfer, Secure
  <2>2. CASE t.type \notin {"vesting", "escrow"}
    <3>1. r.ok = TRUE /\ Moves(L, r.ledger, d, 0)
      BY <1>2, <2>1, <2>2, PlainTransferEffect
    <3> HIDE DEF r
    <3>2. Secure(r.ledger, d) /\ TotalBalance(r.ledger) = TotalBalance(L) + 0
      BY <3>1, MovesSecure
    <3>3. Outcome(L, r, d)
      <4> DEFINE M == r.ledger
      <4>1. r.ledger = M /\ r.ok = TRUE
        BY <3>1
      <4>2. Secure(M, d) /\ TotalBalance(M) = TotalBalance(L)
        BY <2>1, <3>2
      <4> HIDE DEF M
      <4> QED
        BY <2>1, <4>1, <4>2, Outcomes
    <3> QED
      BY <3>3 DEF r
  <2>3. CASE t.type \in {"vesting", "escrow"}
    <3>1. Moves(L, D, d, -t.amount) /\ D.accounts[t.payer].exists
      BY <1>2, <2>1, DebitEffect
    <3>2. Secure(D, d) /\ TotalBalance(D) = TotalBalance(L) + (-t.amount)
      BY <3>1, MovesSecure
    <3>3. r = IF t.type = "vesting" THEN CreditVested(D, t) ELSE CreditEscrowed(D, t)
      BY <1>2, <2>3 DEF TokenTransfer, Credit
    <3> HIDE DEF D, r
    <3>4. Credited(D, r, d, t.amount)
      <4>1. CASE t.type = "vesting"
        BY <3>2, <3>3, <4>1, CreditVestedEffect
      <4>2. CASE t.type = "escrow"
        BY <3>1, <3>2, <3>3, <4>2, CreditEscrowedEffect
      <4> QED
        BY <2>3, <4>1, <4>2
    <3>5. Outcome(L, r, d)
      <4> DEFINE M == r.ledger
      <4>1. r.ledger = M /\ TotalBalance(D) \in Nat
        BY <3>2, SecureTotal
      <4>2. CASE r.ok = TRUE
        <5>1. Secure(M, d) /\ TotalBalance(M) = TotalBalance(D) + t.amount
          BY <3>4, <4>2 DEF Credited
        <5> HIDE DEF M
        <5>2. TotalBalance(M) = TotalBalance(L)
          BY <2>1, <3>2, <4>1, <5>1
        <5> QED
          BY <2>1, <4>1, <4>2, <5>1, <5>2, Outcomes
      <4>3. CASE r.ok = FALSE
        <5>1. M = D
          BY <3>4, <4>3 DEF Credited
        <5>2. TotalBalance(D) <= TotalBalance(L)
          BY <2>1, <3>2, <4>1
        <5> QED
          BY <2>1, <3>2, <4>1, <4>3, <5>1, <5>2, Outcomes
      <4>4. r.ok \in BOOLEAN
        BY <3>4 DEF Credited
      <4> QED
        BY <4>2, <4>3, <4>4
    <3> QED
      BY <3>5 DEF r
  <2> QED
    BY <2>2, <2>3
<1> QED
  BY <1>1, <1>2

------------------------------------------------------------------------------
(* Escrows *)

\* W has the rows of L, and its escrow locks but for those with identifier id, which are
\* gone.
Cleared(L, W, id, d) ==
  /\ Solvent(W, d)
  /\ TotalBalance(W) = TotalBalance(L)
  /\ SameRows(L, W)
  /\ SameOthers(L.accounts, W.accounts, id)
  /\ \A x \in Accounts : W.accounts[x].escrow[id] = Missing

LEMMA UnlockEffect ==
  ASSUME NEW L, NEW d, Secure(L, d), NEW id \in EscrowIds, NEW row,
         row # Missing, row = Rows(L)[id], NEW U, U = Unlock(L, row, id)
  PROVE  /\ row \in EscrowRows
         /\ LockOf(L, row, id) # Missing /\ LockOf(L, row, id).amount \in Nat
         /\ Cleared(L, U, id, d)
         /\ Spendable(U.accounts[row.payee]) >= LockOf(L, row, id).amount
         /\ U.accounts[row.payer].exists
<1> DEFINE x == row.payee
           a == RemoveEscrowLock(L.accounts[x], id)
           n == L.accounts[x].escrow[id].amount
<1>1. /\ Solvent(L, d) /\ L \in Ledgers /\ TotalBalance(L) \in Nat
      /\ Matching(L.accounts, Rows(L))
  BY SecureTotal, RowsMatchingLocks DEF Secure
<1>2. /\ row \in EscrowRows /\ x \in Accounts /\ x # FeesAccount /\ row.payer \in Accounts
  BY <1>1, RowTypes, RowParts
<1>3. /\ \A y \in Accounts : L.accounts[y].escrow[id] # Missing <=> y = x
      /\ L.accounts[x].escrow[id] # Missing
  <2>1. RowMatches(L.accounts, row, id)
    BY <1>1 DEF Matching
  <2> QED
    BY <1>2, <2>1 DEF RowMatches
<1>4. SolventAccount(L.accounts[x], d) /\ L.accounts[x].balance \in Nat
  BY <1>1, <1>2, SolventParts
<1>5. /\ Becomes(L.accounts[x], a, d, 0, n) /\ n \in Nat
      /\ a.escrow = [L.accounts[x].escrow EXCEPT ![id] = Missing]
  BY <1>3, <1>4, RemoveEscrowEffect, SMTT(30) DEF SolventAccount
<1>6. Spendable(L.accounts[x]) \in Int /\ Spendable(L.accounts[x]) >= 0
  BY <1>4, SoundParts DEF SolventAccount
<1> HIDE DEF a
<1>7. LockOf(L, row, id) = L.accounts[x].escrow[id]
  BY DEF LockOf
<1> HIDE DEF n
<1>8. SolventAccount(a, d) /\ a.balance = L.accounts[x].balance /\ Spendable(a) >= n
  BY <1>4, <1>5, <1>6, SMTT(30) DEF Becomes, SolventAccount
<1>9. Saved(L, U, x, a, d)
  BY <1>1, <1>2, <1>8, SaveAccountEffect DEF Unlock, a
<1>10. TotalBalance(U) = TotalBalance(L)
  BY <1>1, <1>4, <1>8, <1>9, SMTT(30) DEF Saved
<1>11. /\ U.accounts[x].escrow[id] = Missing
       /\ \A i \in EscrowIds \ {id} : U.accounts[x].escrow[i] = L.accounts[x].escrow[i]
       /\ \A y \in Accounts \ {x} : U.accounts[y] = L.accounts[y]
  <2>1. L.accounts[x].escrow \in Escrows
    BY <1>4, SoundParts DEF SolventAccount
  <2>2. /\ U.accounts[x].escrow = a.escrow
        /\ \A y \in Accounts \ {x} : U.accounts[y] = L.accounts[y]
    BY <1>9 DEF Saved
  <2>3. PICK e : e = L.accounts[x].escrow
    OBVIOUS
  <2>4. PICK f : f = [e EXCEPT ![id] = Missing]
    OBVIOUS
  <2>5. f[id] = Missing /\ \A i \in EscrowIds \ {id} : f[i] = e[i]
    BY <2>1, <2>3, <2>4 DEF Escrows
  <2>6. U.accounts[x].escrow = f
    BY <1>5, <2>2, <2>3, <2>4
  <2> QED
    BY <2>2, <2>3, <2>5, <2>6
<1>12. Cleared(L, U, id, d)
  <2>1. SameOthers(L.accounts, U.accounts, id)
    BY <1>11 DEF SameOthers
  <2>2. \A y \in Accounts : U.accounts[y].escrow[id] = Missing
    BY <1>3, <1>11
  <2> QED
    BY <1>9, <1>10, <2>1, <2>2 DEF Saved, Cleared
<1>13. U.accounts[row.payer].exists
  <2>1. L.accounts[row.payer].exists
    BY <1>1 DEF Solvent, PayeesExist
  <2> QED
    BY <1>2, <1>9, <2>1 DEF Saved
<1>14. Spendable(U.accounts[x]) >= n
  BY <1>8, <1>9 DEF Saved
<1> QED
  BY <1>2, <1>3, <1>5, <1>7, <1>12, <1>13, <1>14 DEF n

\* Then the row goes.
RowGone(L, N, id, d) ==
  /\ Secure(N, d)
  /\ TotalBalance(N) = TotalBalance(L)
  /\ Rows(N)[id] = Missing
  /\ SameOtherRows(Rows(N), Rows(L), id)
  /\ SameOthers(L.accounts, N.accounts, id)
  /\ \A x \in Accounts : N.accounts[x].escrow[id] = Missing

LEMMA RowGoes ==
  ASSUME NEW L, NEW d, Secure(L, d), NEW id \in EscrowIds, NEW W, Cleared(L, W, id, d),
         NEW N, N = DelEscrow(W, id)
  PROVE  RowGone(L, N, id, d)
<1> DEFINE C == DelRaw(W.cache, id)
<1>1. /\ L \in Ledgers /\ Matching(L.accounts, Rows(L))
      /\ Solvent(W, d) /\ W \in Ledgers /\ Rows(W) = Rows(L)
      /\ TotalBalance(W) = TotalBalance(L)
  BY SecureTotal, RowsMatchingLocks, SameRowsGive DEF Secure, Cleared, Solvent
<1>2. /\ C \in Caches
      /\ \A i \in C.del : C.ins[i] = Missing
      /\ FullTable(W.escrows, C)[id] = Missing
      /\ \A i \in EscrowIds \ {id} : FullTable(W.escrows, C)[i] = Rows(W)[i]
  <2>1. \A i \in W.cache.del : W.cache.ins[i] = Missing
    BY <1>1 DEF Solvent, CacheDisjoint
  <2> QED
    BY <1>1, <2>1, DelRowTable
<1>3. N = [W EXCEPT !.cache = C]
  BY DEF DelEscrow
<1> HIDE DEF C
<1>4. N = LedgerOf(W.accounts, W.escrows, C, W.vestingRows, W.stakingRows, W.keys)
  BY <1>1, <1>3, LedgerUpdates
<1>5. \A i \in EscrowIds : FullTable(W.escrows, C)[i] # Missing
                             => W.accounts[FullTable(W.escrows, C)[i].payer].exists
  <2>1. ASSUME NEW i \in EscrowIds, FullTable(W.escrows, C)[i] # Missing
        PROVE  W.accounts[FullTable(W.escrows, C)[i].payer].exists
    <3>1. i # id /\ FullTable(W.escrows, C)[i] = Rows(W)[i]
      BY <1>2, <2>1
    <3> QED
      BY <1>1, <2>1, <3>1 DEF Solvent, PayeesExist
  <2> QED
    BY <2>1
<1>6. /\ Solvent(N, d) /\ N.accounts = W.accounts /\ Rows(N) = FullTable(W.escrows, C)
      /\ TotalBalance(N) = TotalBalance(W)
  <2>1. W.escrows \in EscrowTables
    BY <1>1, LedgerFields
  <2> QED
    BY <1>1, <1>2, <1>4, <1>5, <2>1, TablesChange
<1>7. /\ SameOthers(L.accounts, N.accounts, id)
      /\ \A x \in Accounts : N.accounts[x].escrow[id] = Missing
  BY <1>6 DEF Cleared
<1>8. SameOtherRows(Rows(N), Rows(L), id) /\ Rows(N)[id] = Missing
  BY <1>1, <1>2, <1>6 DEF SameOtherRows
<1>9. RowMatches(N.accounts, Rows(N)[id], id)
  BY <1>7, <1>8 DEF RowMatches
<1>10. Matching(N.accounts, Rows(N))
  BY <1>1, <1>7, <1>8, <1>9, MatchingOthers
<1>11. Secure(N, d)
  BY <1>6, <1>10, RowsMatchingLocks DEF Secure, Solvent
<1> QED
  BY <1>1, <1>6, <1>7, <1>8, <1>11 DEF RowGone

LEMMA MovesCleared ==
  ASSUME NEW L, NEW U, NEW W, NEW id \in EscrowIds, NEW d, TotalBalance(L) \in Nat,
         Cleared(L, U, id, d), Moves(U, W, d, 0)
  PROVE  Cleared(L, W, id, d)
<1>1. TotalBalance(W) = TotalBalance(L)
  BY DEF Cleared, Moves
<1>2. SameRows(L, W)
  BY DEF Cleared, Moves, SameRows
<1>3. \A x \in Accounts : W.accounts[x].escrow = U.accounts[x].escrow
  BY DEF Moves
<1>4. SameOthers(L.accounts, W.accounts, id)
  BY <1>3 DEF Cleared, SameOthers
<1>5. \A x \in Accounts : W.accounts[x].escrow[id] = Missing
  BY <1>3 DEF Cleared
<1> QED
  BY <1>1, <1>2, <1>4, <1>5 DEF Cleared, Moves

\* The refund of an escrow, and the deletion of its row.
SentBack(L, row, id) ==
  LET refund == Refund(Unlock(L, row, id), row, LockOf(L, row, id).amount) IN
    IF refund.ok THEN Done(DelEscrow(refund.ledger, id)) ELSE refund

\* A refund never fails: the payee has just got the tokens, and the payer has an account.
LEMMA SentBackEffect ==
  ASSUME NEW L, NEW d, Secure(L, d), NEW id \in EscrowIds, NEW row,
         row # Missing, row = Rows(L)[id], NEW r, r = SentBack(L, row, id)
  PROVE  r.ok = TRUE /\ RowGone(L, r.ledger, id, d)
<1> DEFINE U == Unlock(L, row, id)
           n == LockOf(L, row, id).amount
           t == [type |-> "refund", payer |-> row.payee, payee |-> row.payer,
                 amount |-> n, fees |-> 0]
           W == TokenTransfer(U, t).ledger
<1>1. /\ row \in EscrowRows /\ n \in Nat
      /\ Cleared(L, U, id, d)
      /\ Spendable(U.accounts[row.payee]) >= n
      /\ U.accounts[row.payer].exists
  BY UnlockEffect
<1> HIDE DEF U, n
<1>2. /\ t.type = "refund" /\ t.payer = row.payee /\ t.payee = row.payer /\ t.amount = n
      /\ t.fees = 0 /\ row.payee \in Accounts /\ row.payer \in Accounts /\ row.payee # Missing
  BY <1>1, RowParts, LedgerAssumption
<1>3. SentBack(L, row, id) = IF TokenTransfer(U, t).ok
                             THEN Done(DelEscrow(TokenTransfer(U, t).ledger, id))
                             ELSE TokenTransfer(U, t)
  BY DEF SentBack, Refund, U, n
<1> HIDE DEF t
<1>4. TypedTransfer(t) /\ t.type \notin {"vesting", "escrow"}
  BY <1>1, <1>2 DEF TypedTransfer
<1>5. Solvent(U, d)
  BY <1>1 DEF Cleared
<1>6. ~Refused(U, t)
  <2>1. Spendable(U.accounts[t.payer]) \in Int
    <3>1. SolventAccount(U.accounts[t.payer], d)
      BY <1>2, <1>5, SolventParts
    <3> QED
      BY <3>1, SoundParts DEF SolventAccount
  <2>2. ~(Spendable(U.accounts[t.payer]) < t.amount + t.fees)
    BY <1>1, <1>2, <2>1
  <2>3. U.accounts[t.payee].exists /\ t.type \notin {"sale", "issuance"}
    BY <1>1, <1>2
  <2> QED
    BY <2>2, <2>3 DEF Refused
<1>7. TokenTransfer(U, t).ok = TRUE /\ Moves(U, W, d, 0)
  BY <1>4, <1>5, <1>6, PlainTransferEffect
<1>8. r = Done(DelEscrow(W, id))
  BY <1>3, <1>7
<1> HIDE DEF W
<1>9. Cleared(L, W, id, d)
  <2>1. TotalBalance(L) \in Nat
    BY SecureTotal
  <2> QED
    BY <1>1, <1>7, <2>1, MovesCleared
<1>10. PICK N : N = DelEscrow(W, id)
  OBVIOUS
<1>11. RowGone(L, N, id, d)
  BY <1>9, <1>10, RowGoes
<1>12. r = Done(N)
  BY <1>8, <1>10
<1> QED
  BY <1>11, <1>12, Results

LEMMA GoneOutcome ==
  ASSUME NEW L, NEW d, Secure(L, d), NEW id, NEW r, r.ok = TRUE, RowGone(L, r.ledger, id, d)
  PROVE  Outcome(L, r, d)
<1> DEFINE M == r.ledger
<1>1. Secure(M, d) /\ TotalBalance(M) = TotalBalance(L)
  BY DEF RowGone
<1>2. TotalBalance(L) \in Nat /\ r.ledger = M
  BY SecureTotal
<1> HIDE DEF M
<1> QED
  BY <1>1, <1>2, Outcomes

\* The row of a lock that is there is the one that is looked up.
LEMMA RowOfLock ==
  ASSUME NEW L, NEW d, Secure(L, d), NEW id \in EscrowIds, NEW row, row = GetEscrow(L, id),
         row # Missing, LockOf(L, row, id) # Missing
  PROVE  row = Rows(L)[id]
<1>1. L \in Ledgers /\ Matching(L.accounts, Rows(L))
  BY SecureTotal, RowsMatchingLocks DEF Secure
<1>2. row \in EscrowRows /\ row.payee \in Accounts
  BY <1>1, RowTypes, RowParts
<1>3. Rows(L)[id] # Missing
  <2>1. RowMatches(L.accounts, Rows(L)[id], id)
    BY <1>1 DEF Matching
  <2> QED
    BY <1>2, <2>1 DEF RowMatches, LockOf
<1> QED
  BY <1>1, <1>3, RowTypes

LEMMA SettlementEffect ==
  ASSUME NEW L, NEW d, Secure(L, d), NEW x, NEW id \in EscrowIds, NEW confirmed,
         NEW r, r = EscrowSettlement(L, x, id, confirmed)
  PROVE  Outcome(L, r, d)
<1> DEFINE row == GetEscrow(L, id)
<1>1. r = IF row = Missing \/ x # row.agent \/ LockOf(L, row, id) = Missing THEN Throw(L)
          ELSE IF confirmed THEN Done(DelEscrow(Unlock(L, row, id), id))
          ELSE SentBack(L, row, id)
  BY DEF EscrowSettlement, SentBack
<1>2. CASE row = Missing \/ x # row.agent \/ LockOf(L, row, id) = Missing
  BY <1>1, <1>2, ThrowAtOnce
<1>3. CASE ~(row = Missing \/ x # row.agent \/ LockOf(L, row, id) = Missing)
  <2>1. row # Missing /\ row = Rows(L)[id]
    BY <1>3, RowOfLock
  <2> HIDE DEF row
  <2>2. CASE confirmed
    <3>1. PICK N : N = DelEscrow(Unlock(L, row, id), id)
      OBVIOUS
    <3>2. r = Done(N)
      BY <1>1, <1>3, <2>2, <3>1
    <3>3. Cleared(L, Unlock(L, row, id), id, d)
      BY <2>1, UnlockEffect
    <3>4. RowGone(L, N, id, d)
      BY <3>1, <3>3, RowGoes
    <3>5. r.ok = TRUE /\ r.ledger = N
      BY <3>2, Results
    <3> QED
      BY <3>4, <3>5, GoneOutcome
  <2>3. CASE ~confirmed
    <3>1. r = SentBack(L, row, id)
      BY <1>1, <1>3, <2>3
    <3> QED
      BY <2>1, <3>1, SentBackEffect, GoneOutcome
  <2> QED
    BY <2>2, <2>3
<1> QED
  BY <1>2, <1>3

\* The daily update of an escrow never throws, and leaves no escrow past its end.
LEMMA ExpiryEffect ==
  ASSUME NEW L, NEW d, Secure(L, d), NEW id \in EscrowIds, Rows(L)[id] # Missing,
         NEW r, r = UpdateExpiredEscrow(L, id, d)
  PROVE  /\ r.ok = TRUE
         /\ \/ RowGone(L, r.ledger, id, d)
            \/ /\ r.ledger = L
               /\ d <= LockOf(L, Rows(L)[id], id).end
<1> DEFINE row == Rows(L)[id]
<1>1. L \in Ledgers /\ row = GetEscrow(L, id) /\ row # Missing /\ row = Rows(L)[id]
  BY SecureTotal, RowTypes
<1>2. LockOf(L, row, id) # Missing
  BY <1>1, UnlockEffect
<1>3. r = IF d <= LockOf(L, row, id).end THEN Done(L) ELSE SentBack(L, row, id)
  BY <1>1, <1>2 DEF UpdateExpiredEscrow, SentBack
<1>4. CASE d <= LockOf(L, row, id).end
  BY <1>3, <1>4, Results
<1>5. CASE ~(d <= LockOf(L, row, id).end)
  <2>1. r = SentBack(L, row, id)
    BY <1>3, <1>5
  <2> HIDE DEF row
  <2> QED
    BY <1>1, <2>1, SentBackEffect
<1> QED
  BY <1>4, <1>5

------------------------------------------------------------------------------
(* Stakes *)

\* An account is saved with the same balance and the same escrows.
LEMMA SaveLocks ==
  ASSUME NEW L, NEW d, Solvent(L, d), NEW x \in Accounts, x # FeesAccount,
         NEW a, NEW m \in Int, Becomes(L.accounts[x], a, d, 0, m),
         Spendable(L.accounts[x]) + m >= 0, a.escrow = L.accounts[x].escrow,
         NEW M, M = SaveAccountState(L, x, a)
  PROVE  Moves(L, M, d, 0)
<1>1. L.accounts[x].balance \in Nat
  BY SolventParts
<1>2. SolventAccount(a, d) /\ a.balance = L.accounts[x].balance + 0
  BY <1>1 DEF Becomes, SolventAccount
<1>3. Saved(L, M, x, a, d)
  BY <1>2, SaveAccountEffect
<1> QED
  BY <1>2, <1>3, SavedMoves

LEMMA MovesOutcome ==
  ASSUME NEW L, NEW d, Secure(L, d), NEW r, NEW M, Moves(L, M, d, 0), r = Done(M)
  PROVE  Outcome(L, r, d)
<1>1. Secure(M, d) /\ TotalBalance(M) = TotalBalance(L) + 0
  BY MovesSecure
<1>2. r.ok = TRUE /\ r.ledger = M
  BY Results
<1>3. TotalBalance(L) \in Nat
  BY SecureTotal
<1>4. TotalBalance(M) = TotalBalance(L)
  BY <1>1, <1>3
<1> QED
  BY <1>1, <1>2, <1>3, <1>4, Outcomes

\* What an account has staked for a node.
LEMMA StakedAmount ==
  ASSUME NEW a, NEW d, SolventAccount(a, d), NEW node \in Nodes
  PROVE  /\ NodeStakingLockAmount(a, node) \in Nat
         /\ Spendable(a) \in Int /\ Spendable(a) >= 0
<1>1. a.stake \in [Nodes -> StakeLocks \cup {Missing}] /\ Spendable(a) \in Int
  BY SoundParts DEF SolventAccount, Stakes
<1>2. NodeStakingLockAmount(a, node) \in Nat
  BY <1>1, LockTypes, AmountsAreNatural DEF NodeStakingLockAmount
<1> QED
  BY <1>1, <1>2 DEF SolventAccount

LEMMA StakingEffect ==
  ASSUME NEW L, NEW d, Secure(L, d), NEW x \in StandardAccounts, NEW n \in Nat,
         NEW node \in Nodes, NEW r, r = Stake(L, x, n, node)
  PROVE  Outcome(L, r, d)
<1> DEFINE old == L.accounts[x]
           sum == NodeStakingLockAmount(old, node) + n
           a == AddNodeStaking(old, n, node)
           M == SaveAccountState(L, x, a)
           N == [M EXCEPT !.stakingRows = M.stakingRows \cup {x}]
<1>1. x \in Accounts /\ x # FeesAccount /\ Solvent(L, d) /\ TotalBalance(L) \in Nat
  BY AccountsAssumption, SecureTotal DEF Accounts
<1>2. SolventAccount(old, d)
  BY <1>1, SolventParts
<1>3. r = IF sum < MinStake \/ MaxStake < sum \/ Spendable(old) < n THEN Throw(L) ELSE Done(N)
  BY DEF Stake
<1>4. CASE sum < MinStake \/ MaxStake < sum \/ Spendable(old) < n
  BY <1>3, <1>4, ThrowAtOnce
<1>5. CASE ~(sum < MinStake \/ MaxStake < sum \/ Spendable(old) < n)
  <2>1. /\ sum >= MinStake /\ Spendable(old) + (-n) >= 0 /\ -n \in Int
        /\ NodeStakingLockAmount(old, node) + n >= MinStake
    <3>1. /\ NodeStakingLockAmount(old, node) \in Nat /\ Spendable(old) \in Int
          /\ MinStake \in Nat
      BY <1>2, StakedAmount, AccountsAssumption
    <3> QED
      BY <1>5, <3>1
  <2>2. Becomes(old, a, d, 0, -n) /\ a.escrow = old.escrow
    BY <1>2, <2>1, AddStakingEffect DEF SolventAccount
  <2> HIDE DEF a
  <2>3. Moves(L, M, d, 0)
    BY <1>1, <2>1, <2>2, SaveLocks
  <2> HIDE DEF M
  <2>4. M \in Ledgers /\ Solvent(M, d)
    BY <2>3 DEF Moves, Solvent
  <2>5. Moves(M, N, d, 0)
    <3> DEFINE S == M.stakingRows \cup {x}
    <3>1. M.vestingRows \in IndexTables /\ M.stakingRows \in IndexTables /\ M.keys \in KeyTables
      BY <2>4, LedgerFields
    <3>2. S \in IndexTables
      BY <1>1, <3>1 DEF IndexTables
    <3> HIDE DEF S
    <3>3. N = [M EXCEPT !.stakingRows = S]
      BY DEF S
    <3>4. N = LedgerOf(M.accounts, M.escrows, M.cache, M.vestingRows, S, M.keys)
      BY <2>4, <3>3, LedgerUpdates
    <3> QED
      BY <2>4, <3>1, <3>2, <3>4, IndexChange
  <2> HIDE DEF N
  <2>6. Moves(L, N, d, 0 + 0)
    BY <1>1, <2>3, <2>5, MovesTwice
  <2>7. r = Done(N) /\ Moves(L, N, d, 0)
    BY <1>3, <1>5, <2>6
  <2> QED
    BY <2>7, MovesOutcome
<1> QED
  BY <1>4, <1>5

LEMMA UnstakingEffect ==
  ASSUME NEW L, NEW d, Secure(L, d), NEW x \in StandardAccounts, NEW n \in Nat,
         NEW node \in Nodes, NEW c \in Int, NEW r, r = PlanUnstake(L, x, n, node, c)
  PROVE  Outcome(L, r, d)
<1> DEFINE old == L.accounts[x]
           left == NodeStakingLockAmount(old, node) - n
           a == PlanNodeStakingUnlock(old, n, node, c + UnstakingDelay)
           M == SaveAccountState(L, x, a)
<1>1. x \in Accounts /\ x # FeesAccount /\ Solvent(L, d)
  BY AccountsAssumption, SecureTotal DEF Accounts
<1>2. SolventAccount(old, d)
  BY <1>1, SolventParts
<1>3. r = IF left < 0 \/ left \in 1..(MinStake - 1) \/ old.stake[node] = Missing
          THEN Throw(L) ELSE Done(M)
  BY DEF PlanUnstake
<1>4. CASE left < 0 \/ left \in 1..(MinStake - 1) \/ old.stake[node] = Missing
  BY <1>3, <1>4, ThrowAtOnce
<1>5. CASE ~(left < 0 \/ left \in 1..(MinStake - 1) \/ old.stake[node] = Missing)
  <2>1. n <= NodeStakingLockAmount(old, node) /\ Spendable(old) + 0 >= 0
    <3>1. /\ NodeStakingLockAmount(old, node) \in Nat /\ Spendable(old) \in Int
          /\ Spendable(old) >= 0
      BY <1>2, StakedAmount
    <3> QED
      BY <1>5, <3>1
  <2>2. Becomes(old, a, d, 0, 0) /\ a.escrow = old.escrow
    <3>1. c + UnstakingDelay \in Int
      BY AccountsAssumption
    <3> QED
      BY <1>2, <1>5, <2>1, <3>1, PlanUnlockEffect DEF SolventAccount
  <2> HIDE DEF a
  <2>3. Moves(L, M, d, 0)
    BY <1>1, <2>1, <2>2, SaveLocks
  <2> HIDE DEF M
  <2>4. r = Done(M)
    BY <1>3, <1>5
  <2> QED
    BY <2>3, <2>4, MovesOutcome
<1> QED
  BY <1>4, <1>5

LEMMA CancellationEffect ==
  ASSUME NEW L, NEW d, Secure(L, d), NEW node \in Nodes, NEW r, r = CancelSlashing(L, node)
  PROVE  Outcome(L, r, d)
<1> DEFINE x == OwnerOf[node]
           old == L.accounts[x]
           a == CancelNodeSlashing(old, node)
           M == SaveAccountState(L, x, a)
<1>1. x \in Accounts /\ x # FeesAccount /\ Solvent(L, d)
  BY AccountsAssumption, SecureTotal DEF Accounts
<1>2. SolventAccount(old, d)
  BY <1>1, SolventParts
<1>3. r = IF old.stake[node] = Missing THEN Throw(L) ELSE Done(M)
  BY DEF CancelSlashing
<1>4. CASE old.stake[node] = Missing
  BY <1>3, <1>4, ThrowAtOnce
<1>5. CASE old.stake[node] # Missing
  <2>1. Spendable(old) + 0 >= 0
    <3>1. Spendable(old) \in Int /\ Spendable(old) >= 0
      BY <1>2, StakedAmount
    <3> QED
      BY <3>1
  <2>2. Becomes(old, a, d, 0, 0) /\ a.escrow = old.escrow
    BY <1>2, <1>5, CancelSlashingEffect DEF SolventAccount
  <2> HIDE DEF a, x
  <2>3. Moves(L, M, d, 0)
    BY <1>1, <2>1, <2>2, SaveLocks
  <2> HIDE DEF M
  <2>4. r = Done(M)
    BY <1>3, <1>5
  <2> QED
    BY <2>3, <2>4, MovesOutcome
<1> QED
  BY <1>4, <1>5

------------------------------------------------------------------------------
(* Microblocks *)

LEMMA MicroblockParts ==
  ASSUME NEW m \in MicroblockBodies
  PROVE  /\ m.owner \in StandardAccounts /\ m.payer \in StandardAccounts
         /\ m.owner \in Accounts /\ m.payer \in Accounts
         /\ m.fees \in Nat /\ m.lead \in Int /\ m.sections \in Seq(Sections)
  BY DEF MicroblockBodies, Accounts

LEMMA CreationEffect ==
  ASSUME NEW L, NEW d \in Int, Secure(L, d), NEW m \in MicroblockBodies,
         NEW s, s.key \in PublicKeys, s.seller \in StandardAccounts, s.amount \in Nat,
         NEW r, r = CreateAccount(L, m, s)
  PROVE  Outcome(L, r, d)
<1> DEFINE t == [type |-> "sale", payer |-> s.seller, payee |-> m.owner,
                 amount |-> s.amount, fees |-> m.fees]
           sale == TokenTransfer(L, t)
           M == sale.ledger
           N == [M EXCEPT !.keys[s.key] = m.owner]
<1>1. r = IF L.keys[s.key] # Missing THEN Throw(L)
          ELSE IF sale.ok THEN Done(N) ELSE sale
  BY DEF CreateAccount
<1>2. TypedTransfer(t)
  BY MicroblockParts DEF TypedTransfer, Accounts
<1> HIDE DEF t
<1>3. Outcome(L, sale, d)
  BY <1>2, TransferEffect
<1>4. CASE L.keys[s.key] # Missing
  BY <1>1, <1>4, ThrowAtOnce
<1>5. CASE L.keys[s.key] = Missing /\ sale.ok = FALSE
  BY <1>1, <1>3, <1>5
<1>6. CASE L.keys[s.key] = Missing /\ sale.ok = TRUE
  <2>1. /\ Secure(M, d) /\ TotalBalance(M) = TotalBalance(L)
        /\ TotalBalance(L) \in Nat /\ r = Done(N)
    BY <1>1, <1>3, <1>6, SecureTotal DEF Outcome
  <2> HIDE DEF M
  <2>2. M \in Ledgers /\ Solvent(M, d)
    BY <2>1, SecureTotal
  <2>3. Moves(M, N, d, 0)
    <3> DEFINE K == [M.keys EXCEPT ![s.key] = m.owner]
    <3>1. M.vestingRows \in IndexTables /\ M.stakingRows \in IndexTables /\ M.keys \in KeyTables
      BY <2>2, LedgerFields
    <3>2. K \in KeyTables
      BY <3>1, MicroblockParts DEF KeyTables
    <3>3. N = [M EXCEPT !.keys = K]
      OBVIOUS
    <3> HIDE DEF K, N
    <3>4. N = LedgerOf(M.accounts, M.escrows, M.cache, M.vestingRows, M.stakingRows, K)
      BY <2>2, <3>3, LedgerUpdates
    <3> QED
      BY <2>2, <3>1, <3>2, <3>4, IndexChange
  <2> HIDE DEF N
  <2>4. Secure(N, d) /\ TotalBalance(N) = TotalBalance(M) + 0
    BY <2>1, <2>3, MovesSecure
  <2>5. TotalBalance(N) = TotalBalance(L)
    BY <2>1, <2>4
  <2>6. r.ok = TRUE /\ r.ledger = N
    BY <2>1, Results
  <2> QED
    BY <2>1, <2>4, <2>5, <2>6, Outcomes
<1>7. sale.ok \in BOOLEAN
  BY <1>3 DEF Outcome
<1> QED
  BY <1>4, <1>5, <1>6, <1>7

LEMMA SectionParts ==
  ASSUME NEW s \in Sections
  PROVE  /\ s.kind \in {"creation", "transfer", "vesting", "escrow", "settlement", "stake",
                        "unstake", "cancellation"}
         /\ s.kind = "creation"
              => s.key \in PublicKeys /\ s.seller \in StandardAccounts /\ s.amount \in Nat
         /\ s.kind = "transfer" => s.account \in StandardAccounts /\ s.amount \in Nat
         /\ s.kind = "vesting" => /\ s.account \in StandardAccounts /\ s.amount \in Nat
                                  /\ s.cliff \in Nat /\ s.duration \in Nat
         /\ s.kind = "escrow" => /\ s.account \in StandardAccounts /\ s.amount \in Nat
                                 /\ s.id \in EscrowIds /\ s.agent \in StandardAccounts
                                 /\ s.duration \in Nat
         /\ s.kind = "settlement" => s.id \in EscrowIds
         /\ s.kind \in {"stake", "unstake"} => s.amount \in Nat /\ s.node \in Nodes
         /\ s.kind = "cancellation" => s.node \in Nodes
  BY DEF Sections

LEMMA SectionEffect ==
  ASSUME NEW L, NEW d \in Int, Secure(L, d), NEW m \in MicroblockBodies, NEW s \in Sections,
         NEW r, r = ExecSection(L, m, s, d)
  PROVE  Outcome(L, r, d)
<1>0. /\ m.owner \in StandardAccounts /\ m.owner \in Accounts /\ m.fees \in Nat
      /\ m.lead \in Int /\ d + m.lead \in Int
  BY MicroblockParts
<1>1. CASE s.kind = "creation"
  <2>1. r = CreateAccount(L, m, s)
    BY <1>1 DEF ExecSection
  <2> QED
    BY <1>1, <2>1, SectionParts, CreationEffect
<1>2. CASE s.kind = "transfer"
  <2> DEFINE t == [type |-> "payment", payer |-> m.owner, payee |-> s.account,
                   amount |-> s.amount, fees |-> m.fees]
  <2>1. r = TokenTransfer(L, t)
    BY <1>2 DEF ExecSection
  <2>2. TypedTransfer(t)
    BY <1>0, <1>2, SectionParts DEF TypedTransfer, Accounts
  <2> HIDE DEF t
  <2> QED
    BY <2>1, <2>2, TransferEffect
<1>3. CASE s.kind = "vesting"
  <2> DEFINE p == [start |-> d + m.lead, cliff |-> s.cliff, duration |-> s.duration]
             t == [type |-> "vesting", payer |-> m.owner, payee |-> s.account,
                   amount |-> s.amount, fees |-> m.fees, vesting |-> p]
  <2>1. r = TokenTransfer(L, t)
    BY <1>3 DEF ExecSection
  <2>2. p.start \in Int /\ p.cliff \in Nat /\ p.duration \in Nat
    BY <1>0, <1>3, SectionParts
  <2> HIDE DEF p
  <2>3. TypedTransfer(t)
    <3>1. /\ t.type = "vesting" /\ t.payer = m.owner /\ t.payee = s.account
          /\ t.amount = s.amount /\ t.fees = m.fees /\ t.vesting = p
      OBVIOUS
    <3>2. s.account \in Accounts /\ s.account # FeesAccount /\ s.amount \in Nat
      BY <1>3, SectionParts, AccountsAssumption DEF Accounts
    <3> HIDE DEF t
    <3> QED
      BY <1>0, <2>2, <3>1, <3>2 DEF TypedTransfer
  <2> HIDE DEF t
  <2> QED
    BY <2>1, <2>3, TransferEffect
<1>4. CASE s.kind = "escrow"
  <2> DEFINE p == [id |-> s.id, agent |-> s.agent, start |-> d + m.lead,
                   duration |-> s.duration]
             t == [type |-> "escrow", payer |-> m.owner, payee |-> s.account,
                   amount |-> s.amount, fees |-> m.fees, escrow |-> p]
  <2>1. r = TokenTransfer(L, t)
    BY <1>4 DEF ExecSection
  <2>2. /\ p.id \in EscrowIds /\ p.agent \in StandardAccounts /\ p.start \in Int
        /\ p.duration \in Int
    BY <1>0, <1>4, SectionParts
  <2> HIDE DEF p
  <2>3. TypedTransfer(t)
    <3>1. /\ t.type = "escrow" /\ t.payer = m.owner /\ t.payee = s.account
          /\ t.amount = s.amount /\ t.fees = m.fees /\ t.escrow = p
      OBVIOUS
    <3>2. s.account \in StandardAccounts /\ s.account \in Accounts /\ s.amount \in Nat
      BY <1>4, SectionParts DEF Accounts
    <3> HIDE DEF t
    <3> QED
      BY <1>0, <2>2, <3>1, <3>2 DEF TypedTransfer
  <2> HIDE DEF t
  <2> QED
    BY <2>1, <2>3, TransferEffect
<1>5. CASE s.kind = "settlement"
  <2>1. r = EscrowSettlement(L, m.owner, s.id, s.confirmed)
    BY <1>5 DEF ExecSection
  <2>2. s.id \in EscrowIds
    BY <1>5, SectionParts
  <2> QED
    BY <2>1, <2>2, SettlementEffect
<1>6. CASE s.kind = "stake"
  <2>1. r = Stake(L, m.owner, s.amount, s.node)
    BY <1>6 DEF ExecSection
  <2>2. s.amount \in Nat /\ s.node \in Nodes
    BY <1>6, SectionParts
  <2> QED
    BY <1>0, <2>1, <2>2, StakingEffect
<1>7. CASE s.kind = "unstake"
  <2>1. r = PlanUnstake(L, m.owner, s.amount, s.node, d + m.lead)
    BY <1>7 DEF ExecSection
  <2>2. s.amount \in Nat /\ s.node \in Nodes
    BY <1>7, SectionParts
  <2> QED
    BY <1>0, <2>1, <2>2, UnstakingEffect
<1>8. CASE s.kind = "cancellation"
  <2>1. r = CancelSlashing(L, s.node)
    BY <1>8 DEF ExecSection
  <2>2. s.node \in Nodes
    BY <1>8, SectionParts
  <2> QED
    BY <2>1, <2>2, CancellationEffect
<1> QED
  BY <1>1, <1>2, <1>3, <1>4, <1>5, <1>6, <1>7, <1>8, SectionParts

LEMMA FeesEffect ==
  ASSUME NEW L, NEW d \in Int, Secure(L, d), NEW m \in MicroblockBodies, NEW r, r = PayFees(L, m)
  PROVE  Outcome(L, r, d)
<1> DEFINE t == [type |-> "txFees", payer |-> m.payer, payee |-> FeesAccount,
                 amount |-> m.fees, fees |-> 0]
<1>1. TypedTransfer(t)
  BY MicroblockParts DEF TypedTransfer, Accounts
<1> HIDE DEF t
<1>2. r = TokenTransfer(L, t)
  BY DEF PayFees, t
<1> QED
  BY <1>1, <1>2, TransferEffect

------------------------------------------------------------------------------
(* Daily updates and misbehaviours *)

\* A later day.
LEMMA SecureLater ==
  ASSUME NEW L, NEW c \in Int, NEW d \in Int, c <= d, Secure(L, c)
  PROVE  Secure(L, d)
<1>1. \A e \in d..MaxDay : e \in c..MaxDay
  BY LedgerAssumption
<1>2. LocksInTime(L, d)
  BY <1>1 DEF Secure, Solvent, LocksInTime, InTime
<1> QED
  BY <1>2 DEF Secure, Solvent

\* The accounts A are those of L after an update of each that takes k of its tokens.
UpdatedAll(L, A, d, k) ==
  /\ A = [x \in Accounts |-> A[x]]
  /\ \A x \in Accounts : k[x] \in Nat /\ Updated(L.accounts[x], A[x], d, k[x])

LEMMA UpdatedAllMoves ==
  ASSUME NEW L, NEW d, Secure(L, d), NEW A, NEW k, UpdatedAll(L, A, d, k),
         NEW V \in IndexTables, NEW S \in IndexTables,
         NEW M, M = LedgerOf(A, L.escrows, L.cache, V, S, L.keys)
  PROVE  /\ Moves(L, M, d, -SumFunctionOnSet(k, Accounts)) /\ Secure(M, d)
         /\ M.accounts = A
         /\ Summable(k, Accounts) /\ SumFunctionOnSet(k, Accounts) \in Nat
<1>1. /\ Solvent(L, d) /\ L \in Ledgers /\ L.keys \in KeyTables
      /\ \A x \in Accounts : SolventAccount(L.accounts[x], d) /\ L.accounts[x].balance \in Nat
  BY SecureTotal, LedgerFields, SolventParts
<1>2. ASSUME NEW x \in Accounts
      PROVE  /\ SolventAccount(A[x], d)
             /\ L.accounts[x].exists => A[x].exists
             /\ A[x].balance = L.accounts[x].balance - k[x]
             /\ A[x].escrow = L.accounts[x].escrow
             /\ k[x] \in Nat
             /\ NoLocks(L.accounts[x]) => NoLocks(A[x])
  <2>1. Updated(L.accounts[x], A[x], d, k[x]) /\ k[x] \in Nat
    BY <1>2 DEF UpdatedAll
  <2>2. Spendable(A[x]) \in Int /\ Spendable(L.accounts[x]) \in Int /\ Spendable(L.accounts[x]) >= 0
    <3>1. SoundAccount(A[x], d)
      BY <2>1 DEF Updated
    <3>2. SoundAccount(L.accounts[x], d) /\ Spendable(L.accounts[x]) >= 0
      BY <1>1, <1>2 DEF SolventAccount
    <3> QED
      BY <3>1, <3>2, SoundParts
  <2>3. Spendable(A[x]) >= 0
    BY <2>1, <2>2 DEF Updated
  <2> QED
    BY <2>1, <2>3 DEF Updated, SolventAccount
<1>3. Replaces(A, L, d)
  <2>1. NoLocks(A[FeesAccount])
    <3>1. NoLocks(L.accounts[FeesAccount]) /\ FeesAccount \in Accounts
      BY <1>1 DEF Solvent, PayeesExist, Accounts
    <3> QED
      BY <1>2, <3>1
  <2> QED
    BY <1>2, <2>1 DEF Replaces, UpdatedAll
<1>4. /\ Solvent(M, d) /\ M.accounts = A /\ SameRows(L, M)
      /\ TotalBalance(M) = TotalOfAccounts(A)
  BY <1>1, <1>3, AccountsChange
<1>5. Summable(k, Accounts) /\ \A x \in Accounts : k[x] >= 0
  BY <1>2, LedgerAssumption DEF Summable
<1>6. SumFunctionOnSet(k, Accounts) \in Nat
  BY <1>5, SumOfNaturals
<1>7. TotalOfAccounts(A) = TotalOfAccounts(L.accounts) - SumFunctionOnSet(k, Accounts)
  BY <1>1, <1>2, <1>5, TotalDifference
<1>8. TotalBalance(M) = TotalBalance(L) + (-SumFunctionOnSet(k, Accounts))
  <2>1. TotalBalance(L) = TotalOfAccounts(L.accounts) /\ TotalBalance(L) \in Nat
    BY TotalBalanceOf, SecureTotal
  <2> QED
    BY <1>4, <1>6, <1>7, <2>1
<1>9. Moves(L, M, d, -SumFunctionOnSet(k, Accounts))
  BY <1>2, <1>4, <1>8 DEF Moves
<1> QED
  BY <1>4, <1>5, <1>6, <1>9, MovesSecure

LEMMA UpdatedSame ==
  ASSUME NEW a, NEW d, SoundAccount(a, d)
  PROVE  Updated(a, a, d, 0)
<1>1. a.balance \in Int /\ Spendable(a) \in Int
  BY SoundParts
<1> QED
  BY <1>1 DEF Updated

\* Updates that take nothing.
LEMMA UpdatedForFree ==
  ASSUME NEW L, NEW d, Secure(L, d), NEW A, A = [x \in Accounts |-> A[x]],
         \A x \in Accounts : Updated(L.accounts[x], A[x], d, 0),
         NEW V \in IndexTables, NEW S \in IndexTables,
         NEW M, M = LedgerOf(A, L.escrows, L.cache, V, S, L.keys)
  PROVE  Moves(L, M, d, 0) /\ M.accounts = A
<1> DEFINE k == [x \in Accounts |-> 0]
<1>1. \A x \in Accounts : k[x] = 0
  OBVIOUS
<1> HIDE DEF k
<1>2. \A x \in Accounts : k[x] \in Nat /\ Updated(L.accounts[x], A[x], d, k[x])
  BY <1>1
<1>3. UpdatedAll(L, A, d, k)
  BY <1>2 DEF UpdatedAll
<1>4. /\ Moves(L, M, d, -SumFunctionOnSet(k, Accounts)) /\ M.accounts = A
      /\ Summable(k, Accounts)
  BY <1>3, UpdatedAllMoves
<1>5. SumFunctionOnSet(k, Accounts) = 0
  <2>1. {} \in SUBSET Accounts /\ \A x \in Accounts \ {} : k[x] = 0
    BY <1>1
  <2>2. SumFunctionOnSet(k, Accounts) = SumFunctionOnSet(k, {})
    BY <1>4, <2>1, SumWithoutZeros
  <2> QED
    BY <2>2, SumOfNothing
<1> QED
  BY <1>4, <1>5

LEMMA WarningMoves ==
  ASSUME NEW L, NEW d, Secure(L, d), NEW offenders \in SUBSET Nodes, NEW c \in Nat,
         NEW M, M = SetNodeSlashing(L, offenders, c)
  PROVE  Moves(L, M, d, 0)
<1> DEFINE W(x) == {n \in offenders : OwnerOf[n] = x /\ L.accounts[x].stake[n] # Missing}
           A == [x \in Accounts |-> WarnedAt(L.accounts[x], W(x), c)]
<1>1. M = [L EXCEPT !.accounts = A]
  BY DEF SetNodeSlashing, WarnedAt
<1>2. ASSUME NEW x \in Accounts
      PROVE  Updated(L.accounts[x], A[x], d, 0)
  <2>1. SoundAccount(L.accounts[x], d)
    BY <1>2, SecureTotal, SolventParts DEF SolventAccount
  <2>2. A[x] = WarnedAt(L.accounts[x], W(x), c)
    BY <1>2
  <2>3. \A n \in W(x) : n \in Nodes /\ L.accounts[x].stake[n] # Missing
    OBVIOUS
  <2> HIDE DEF A, W
  <2> QED
    BY <2>1, <2>2, <2>3, WarnedEffect
<1>3. A = [x \in Accounts |-> A[x]]
  OBVIOUS
<1> HIDE DEF A
<1>4. /\ L \in Ledgers /\ L.vestingRows \in IndexTables /\ L.stakingRows \in IndexTables
  BY SecureTotal, LedgerFields
<1>5. M = LedgerOf(A, L.escrows, L.cache, L.vestingRows, L.stakingRows, L.keys)
  BY <1>1, <1>4, LedgerUpdates
<1> QED
  BY <1>2, <1>3, <1>4, <1>5, UpdatedForFree

LEMMA VestingMoves ==
  ASSUME NEW L, NEW d \in 0..MaxDay, Secure(L, d), NEW M, M = UpdateVestingLocks(L, d)
  PROVE  /\ Moves(L, M, d, 0)
         /\ \A x \in Accounts : x \in L.vestingRows =>
              \A i \in DOMAIN M.accounts[x].vesting : OnSchedule(M.accounts[x].vesting[i], d)
         /\ \A x \in Accounts : x \notin L.vestingRows => M.accounts[x] = L.accounts[x]
<1> DEFINE A == [x \in Accounts |-> IF x \in L.vestingRows
                                    THEN ApplyLinearVesting(L.accounts[x], d)
                                    ELSE L.accounts[x]]
           V == {x \in L.vestingRows : A[x] = L.accounts[x] \/ HasVestingLocks(A[x])}
<1>1. M = [L EXCEPT !.accounts = A, !.vestingRows = V]
  BY DEF UpdateVestingLocks
<1>2. ASSUME NEW x \in Accounts
      PROVE  /\ Updated(L.accounts[x], A[x], d, 0)
             /\ x \in L.vestingRows => \A i \in DOMAIN A[x].vesting : OnSchedule(A[x].vesting[i], d)
             /\ x \notin L.vestingRows => A[x] = L.accounts[x]
  <2>1. SoundAccount(L.accounts[x], d)
    BY <1>2, SecureTotal, SolventParts DEF SolventAccount
  <2>2. A[x] = IF x \in L.vestingRows THEN ApplyLinearVesting(L.accounts[x], d)
               ELSE L.accounts[x]
    BY <1>2
  <2> HIDE DEF A
  <2>3. CASE x \in L.vestingRows
    <3>1. A[x] = ApplyLinearVesting(L.accounts[x], d)
      BY <2>2, <2>3
    <3> QED
      BY <2>1, <2>3, <3>1, LinearVestingEffect
  <2>4. CASE x \notin L.vestingRows
    BY <2>1, <2>2, <2>4, UpdatedSame
  <2> QED
    BY <2>3, <2>4
<1>3. A = [x \in Accounts |-> A[x]]
  OBVIOUS
<1> HIDE DEF A
<1>4. /\ L \in Ledgers /\ V \in IndexTables /\ L.stakingRows \in IndexTables
  <2>1. L \in Ledgers /\ L.vestingRows \in IndexTables /\ L.stakingRows \in IndexTables
    BY SecureTotal, LedgerFields
  <2> QED
    BY <2>1 DEF IndexTables
<1> HIDE DEF V
<1>5. M = LedgerOf(A, L.escrows, L.cache, V, L.stakingRows, L.keys)
  BY <1>1, <1>4, TwoFieldUpdates
<1>6. Moves(L, M, d, 0) /\ M.accounts = A
  BY <1>2, <1>3, <1>4, <1>5, UpdatedForFree
<1> QED
  BY <1>2, <1>6

LEMMA UnlocksMoves ==
  ASSUME NEW L, NEW d, Secure(L, d), NEW M, M = ApplyUnlocks(L, d)
  PROVE  /\ Moves(L, M, d, 0)
         /\ \A x \in Accounts : M.accounts[x].vesting = L.accounts[x].vesting
         /\ \A x \in Accounts : x \in L.stakingRows =>
              \A n \in Nodes : ~IsUnlocking(M.accounts[x].stake[n], d)
         /\ \A x \in Accounts : x \notin L.stakingRows => M.accounts[x] = L.accounts[x]
         /\ M.stakingRows \in IndexTables
<1> DEFINE A == [x \in Accounts |-> IF x \in L.stakingRows
                                    THEN ApplyNodeStakingUnlocks(L.accounts[x], d)
                                    ELSE L.accounts[x]]
           S == {x \in L.stakingRows : A[x] = L.accounts[x] \/ HasNodeStakingLocks(A[x])}
<1>1. M = [L EXCEPT !.accounts = A, !.stakingRows = S]
  BY DEF ApplyUnlocks
<1>2. ASSUME NEW x \in Accounts
      PROVE  /\ Updated(L.accounts[x], A[x], d, 0)
             /\ A[x].vesting = L.accounts[x].vesting
             /\ x \in L.stakingRows => \A n \in Nodes : ~IsUnlocking(A[x].stake[n], d)
             /\ x \notin L.stakingRows => A[x] = L.accounts[x]
  <2>1. SoundAccount(L.accounts[x], d)
    BY <1>2, SecureTotal, SolventParts DEF SolventAccount
  <2>2. A[x] = IF x \in L.stakingRows THEN ApplyNodeStakingUnlocks(L.accounts[x], d)
               ELSE L.accounts[x]
    BY <1>2
  <2> HIDE DEF A
  <2>3. CASE x \in L.stakingRows
    <3>1. A[x] = ApplyNodeStakingUnlocks(L.accounts[x], d)
      BY <2>2, <2>3
    <3> QED
      BY <2>1, <2>3, <3>1, UnlocksEffect
  <2>4. CASE x \notin L.stakingRows
    BY <2>1, <2>2, <2>4, UpdatedSame
  <2> QED
    BY <2>3, <2>4
<1>3. A = [x \in Accounts |-> A[x]]
  OBVIOUS
<1> HIDE DEF A
<1>4. /\ L \in Ledgers /\ S \in IndexTables /\ L.vestingRows \in IndexTables
  <2>1. L \in Ledgers /\ L.vestingRows \in IndexTables /\ L.stakingRows \in IndexTables
    BY SecureTotal, LedgerFields
  <2> QED
    BY <2>1 DEF IndexTables
<1> HIDE DEF S
<1>5. M = LedgerOf(A, L.escrows, L.cache, L.vestingRows, S, L.keys)
  BY <1>1, <1>4, TwoFieldUpdates
<1>6. Moves(L, M, d, 0) /\ M.accounts = A
  BY <1>2, <1>3, <1>4, <1>5, UpdatedForFree
<1>7. M.stakingRows = S
  BY <1>5 DEF LedgerOf
<1> QED
  BY <1>2, <1>4, <1>6, <1>7

\* What slashing takes from the accounts that the index table lists.
Slashed(L, d) == SumFunction([x \in L.stakingRows |-> SlashedAmount(L.accounts[x], d)])

LEMMA SlashingMoves ==
  ASSUME NEW L, NEW d, Secure(L, d), NEW M, M = ApplySlashing(L, d)
  PROVE  /\ Slashed(L, d) \in Nat
         /\ Moves(L, M, d, -Slashed(L, d))
         /\ \A x \in Accounts : M.accounts[x].vesting = L.accounts[x].vesting
         /\ \A x \in Accounts : x \in L.stakingRows =>
              \A n \in Nodes : /\ ~IsSlashed(M.accounts[x].stake[n], d)
                               /\ IsUnlocking(M.accounts[x].stake[n], d)
                                    => IsUnlocking(L.accounts[x].stake[n], d)
         /\ \A x \in Accounts : x \notin L.stakingRows => M.accounts[x] = L.accounts[x]
<1> DEFINE A == [x \in Accounts |-> IF x \in L.stakingRows
                                    THEN ApplyNodeSlashing(L.accounts[x], d)
                                    ELSE L.accounts[x]]
           k == [x \in Accounts |-> IF x \in L.stakingRows THEN SlashedAmount(L.accounts[x], d)
                                    ELSE 0]
           f == [x \in L.stakingRows |-> SlashedAmount(L.accounts[x], d)]
<1>1. M = [L EXCEPT !.accounts = A]
  BY DEF ApplySlashing
<1>2. ASSUME NEW x \in Accounts
      PROVE  /\ k[x] \in Nat /\ Updated(L.accounts[x], A[x], d, k[x])
             /\ A[x].vesting = L.accounts[x].vesting
             /\ x \in L.stakingRows =>
                  \A n \in Nodes : /\ ~IsSlashed(A[x].stake[n], d)
                                   /\ IsUnlocking(A[x].stake[n], d)
                                        => IsUnlocking(L.accounts[x].stake[n], d)
             /\ x \notin L.stakingRows => A[x] = L.accounts[x] /\ k[x] = 0
             /\ x \in L.stakingRows => k[x] = f[x]
  <2>1. SoundAccount(L.accounts[x], d)
    BY <1>2, SecureTotal, SolventParts DEF SolventAccount
  <2>2. /\ A[x] = IF x \in L.stakingRows THEN ApplyNodeSlashing(L.accounts[x], d)
                  ELSE L.accounts[x]
        /\ k[x] = IF x \in L.stakingRows THEN SlashedAmount(L.accounts[x], d) ELSE 0
        /\ x \in L.stakingRows => f[x] = SlashedAmount(L.accounts[x], d)
    BY <1>2
  <2> HIDE DEF A, k, f
  <2>3. CASE x \in L.stakingRows
    <3>1. A[x] = ApplyNodeSlashing(L.accounts[x], d) /\ k[x] = SlashedAmount(L.accounts[x], d)
      BY <2>2, <2>3
    <3> QED
      BY <2>1, <2>2, <2>3, <3>1, SlashingEffect
  <2>4. CASE x \notin L.stakingRows
    BY <2>1, <2>2, <2>4, UpdatedSame
  <2> QED
    BY <2>3, <2>4
<1>3. A = [x \in Accounts |-> A[x]] /\ DOMAIN f = L.stakingRows
  OBVIOUS
<1>4. Slashed(L, d) = SumFunctionOnSet(f, L.stakingRows)
  BY <1>3 DEF Slashed, SumFunction
<1> HIDE DEF A, k, f
<1>5. /\ L \in Ledgers /\ L.vestingRows \in IndexTables /\ L.stakingRows \in IndexTables
  BY SecureTotal, LedgerFields
<1>6. M = LedgerOf(A, L.escrows, L.cache, L.vestingRows, L.stakingRows, L.keys)
  BY <1>1, <1>5, LedgerUpdates
<1>7. /\ Moves(L, M, d, -SumFunctionOnSet(k, Accounts)) /\ M.accounts = A
      /\ Summable(k, Accounts) /\ SumFunctionOnSet(k, Accounts) \in Nat
  <2>1. UpdatedAll(L, A, d, k)
    BY <1>2, <1>3 DEF UpdatedAll
  <2> QED
    BY <1>5, <1>6, <2>1, UpdatedAllMoves
<1>8. SumFunctionOnSet(k, Accounts) = SumFunctionOnSet(f, L.stakingRows)
  <2>1. L.stakingRows \in SUBSET Accounts /\ \A x \in Accounts \ L.stakingRows : k[x] = 0
    BY <1>2, <1>5 DEF IndexTables
  <2>2. SumFunctionOnSet(k, Accounts) = SumFunctionOnSet(k, L.stakingRows)
    BY <1>7, <2>1, SumWithoutZeros
  <2>3. Summable(k, L.stakingRows)
    BY <1>7, <2>1, SummableSubset
  <2>4. \A x \in L.stakingRows : f[x] = k[x]
    BY <1>2, <2>1
  <2> QED
    BY <2>2, <2>3, <2>4, SumOfSame
<1> QED
  BY <1>2, <1>4, <1>7, <1>8

\* Commit writes the rows that the block has seen.
LEMMA CommitEffect ==
  ASSUME NEW L, NEW d, Secure(L, d), NEW M, M = CommitTables(L)
  PROVE  Secure(M, d) /\ TotalBalance(M) = TotalBalance(L) /\ M.accounts = L.accounts
<1> DEFINE E == BatchWrite(L.escrows, L.cache)
           C == EmptyCache(EscrowIds)
<1>1. M = [L EXCEPT !.escrows = E, !.cache = C]
  BY DEF CommitTables
<1>2. /\ L \in Ledgers /\ Solvent(L, d)
      /\ L.escrows \in EscrowTables /\ L.cache \in Caches
      /\ \A id \in L.cache.del : L.cache.ins[id] = Missing
  BY SecureTotal, LedgerFields DEF Solvent, CacheDisjoint
<1>3. L.cache.ins \in EscrowTables
  BY <1>2 DEF Caches
<1>4. E \in EscrowTables /\ \A id \in EscrowIds : E[id] = Rows(L)[id]
  BY <1>2, <1>3 DEF EscrowTables, BatchWrite, Rows, FullTable
<1>5. C \in Caches /\ C.del = {} /\ \A id \in EscrowIds : C.ins[id] = Missing
  BY DEF EmptyCache, Caches, EscrowTables
<1> HIDE DEF E, C
<1>6. \A id \in EscrowIds : FullTable(E, C)[id] = Rows(L)[id]
  BY <1>4, <1>5 DEF FullTable, EscrowTables
<1>7. M = LedgerOf(L.accounts, E, C, L.vestingRows, L.stakingRows, L.keys)
  BY <1>1, <1>2, TwoFieldUpdates
<1>8. /\ Solvent(M, d) /\ M.accounts = L.accounts /\ Rows(M) = FullTable(E, C)
      /\ TotalBalance(M) = TotalBalance(L)
  <2>1. \A id \in EscrowIds :
          FullTable(E, C)[id] # Missing => L.accounts[FullTable(E, C)[id].payer].exists
    BY <1>2, <1>6 DEF Solvent, PayeesExist
  <2>2. \A id \in C.del : C.ins[id] = Missing
    BY <1>5
  <2> QED
    BY <1>2, <1>4, <1>5, <1>7, <2>1, <2>2, TablesChange
<1>9. Matching(M.accounts, Rows(M))
  <2>1. Matching(L.accounts, Rows(L))
    BY <1>2, RowsMatchingLocks DEF Secure
  <2> QED
    BY <1>6, <1>8, <2>1 DEF Matching
<1>10. M \in Ledgers
  BY <1>8 DEF Solvent
<1> QED
  BY <1>8, <1>9, <1>10, RowsMatchingLocks DEF Secure

Shares == [node : Nodes, amount : Nat]

LEMMA ShareEffect ==
  ASSUME NEW L, NEW d \in Int, Secure(L, d), NEW share \in Shares, NEW r, r = PayShare(L, share)
  PROVE  Outcome(L, r, d)
<1> DEFINE t == [type |-> "blockFees", payer |-> FeesAccount, payee |-> OwnerOf[share.node],
                 amount |-> share.amount, fees |-> 0]
<1>1. TypedTransfer(t)
  BY AccountsAssumption DEF TypedTransfer, Accounts, Shares
<1> HIDE DEF t
<1>2. r = TokenTransfer(L, t)
  BY DEF PayShare, t
<1> QED
  BY <1>1, <1>2, TransferEffect

------------------------------------------------------------------------------
(* Fees *)

\* What the validators have still to be paid.
AmountsOf(s) == [i \in DOMAIN s |-> s[i].amount]
Due(s) == TotalOf(AmountsOf(s))

AddsAmounts(h, s) ==
  h = [t \in SUBSET DOMAIN s |-> IF t = {} THEN 0 ELSE LET i == Max(t) IN h[t \ {i}] + s[i].amount]

LEMMA AmountsType ==
  ASSUME NEW s \in Seq(Shares)
  PROVE  /\ AmountsOf(s) \in Seq(Nat) /\ Len(AmountsOf(s)) = Len(s)
         /\ \A i \in 1..Len(s) : AmountsOf(s)[i] = s[i].amount
         /\ Due(s) \in Nat
<1>1. \A i \in 1..Len(s) : s[i].amount \in Nat
  <2>1. \A share \in Shares : share.amount \in Nat
    BY DEF Shares
  <2>2. \A i \in 1..Len(s) : s[i] \in Shares
    OBVIOUS
  <2> QED
    BY <2>1, <2>2
<1>2. /\ AmountsOf(s) \in Seq(Nat) /\ Len(AmountsOf(s)) = Len(s)
      /\ \A i \in 1..Len(s) : AmountsOf(s)[i] = s[i].amount
  BY <1>1 DEF AmountsOf
<1> QED
  BY <1>2, TotalOfSum DEF Due

LEMMA DueIsPaid ==
  ASSUME NEW s \in Seq(Shares)
  PROVE  FoldLeft(LAMBDA sum, share : sum + share.amount, 0, s) = Due(s)
<1>1. FoldLeft(LAMBDA sum, share : sum + share.amount, 0, s)
        = (CHOOSE h : AddsAmounts(h, s))[DOMAIN s]
  BY DEF FoldLeft, MapThenFoldSet, AddsAmounts
<1>2. Due(s) = (CHOOSE h : AddsUp(h, AmountsOf(s), DOMAIN AmountsOf(s)))[DOMAIN AmountsOf(s)]
  BY DEF Due, TotalOf, FoldLeft, MapThenFoldSet, AddsUp
<1>3. DOMAIN AmountsOf(s) = DOMAIN s /\ DOMAIN s = 1..Len(s) /\ Len(s) \in Nat
  BY DEF AmountsOf
<1>4. \A t \in SUBSET DOMAIN s : t # {} => AmountsOf(s)[Max(t)] = s[Max(t)].amount
  BY <1>3, MaxOfPositions DEF AmountsOf
<1>5. ASSUME NEW h PROVE AddsAmounts(h, s) <=> AddsUp(h, AmountsOf(s), DOMAIN s)
  BY <1>4 DEF AddsAmounts, AddsUp
<1>6. (CHOOSE h : AddsAmounts(h, s)) = (CHOOSE h : AddsUp(h, AmountsOf(s), DOMAIN s))
  BY <1>5, Zenon
<1> QED
  BY <1>1, <1>2, <1>3, <1>6

\* The first share and the others.
LEMMA DueOfRest ==
  ASSUME NEW s \in Seq(Shares), s # <<>>
  PROVE  /\ Head(s) \in Shares /\ Tail(s) \in Seq(Shares)
         /\ Due(s) = Head(s).amount + Due(Tail(s))
<1> DEFINE n == Len(s)
           f == AmountsOf(s)
           g == AmountsOf(Tail(s))
<1>1. /\ Head(s) \in Shares /\ Head(s) = s[1] /\ Tail(s) \in Seq(Shares)
      /\ n \in Nat /\ n > 0 /\ Len(Tail(s)) = n - 1
      /\ \A i \in 1..(n - 1) : Tail(s)[i] = s[i + 1]
  OBVIOUS
<1>2. /\ f \in Seq(Nat) /\ Len(f) = n /\ f[1] = Head(s).amount
      /\ g \in Seq(Nat) /\ Len(g) = n - 1
      /\ \A i \in 1..(n - 1) : g[i] = f[i + 1]
  <2>1. /\ f \in Seq(Nat) /\ Len(f) = n /\ \A i \in 1..n : f[i] = s[i].amount
    BY AmountsType
  <2>2. /\ g \in Seq(Nat) /\ Len(g) = n - 1 /\ \A i \in 1..(n - 1) : g[i] = Tail(s)[i].amount
    BY <1>1, AmountsType
  <2>3. f[1] = Head(s).amount
    BY <1>1, <2>1
  <2>4. ASSUME NEW i \in 1..(n - 1) PROVE g[i] = f[i + 1]
    <3>1. i + 1 \in 1..n
      BY <1>1
    <3> HIDE DEF f, g
    <3>2. f[i + 1] = s[i + 1].amount
      BY <2>1, <3>1
    <3>3. g[i] = Tail(s)[i].amount
      BY <2>2, <2>4
    <3> QED
      BY <1>1, <2>4, <3>2, <3>3
  <2> QED
    BY <2>1, <2>2, <2>3, <2>4
<1> HIDE DEF f, g, n
<1>3. /\ TotalOf(f) = SumFunctionOnSet(f, 1..n) /\ Summable(f, 1..n)
      /\ TotalOf(g) = SumFunctionOnSet(g, 1..(n - 1)) /\ Summable(g, 1..(n - 1))
      /\ TotalOf(g) \in Nat
  BY <1>2, TotalOfSum
<1>4. SumFunctionOnSet(f, 1..n) = f[1] + SumFunctionOnSet(f, 2..n)
  <2>1. 1 \in 1..n /\ (1..n) \ {1} = 2..n
    BY <1>1
  <2>2. SumFunctionOnSet(f, 1..n) = f[1] + SumFunctionOnSet(f, (1..n) \ {1})
    <3> DEFINE D == 1..n
    <3>1. Summable(f, D) /\ 1 \in D
      BY <1>3, <2>1
    <3> HIDE DEF D
    <3>2. SumFunctionOnSet(f, D) = f[1] + SumFunctionOnSet(f, D \ {1})
      BY <3>1, SumRemove
    <3> QED
      BY <3>2 DEF D
  <2> QED
    BY <2>1, <2>2
<1> DEFINE N == {m \in Nat : m <= n - 1
                   => SumFunctionOnSet(f, 2..(m + 1)) = SumFunctionOnSet(g, 1..m)}
<1>5. 0 \in N
  <2>1. 2..(0 + 1) = {} /\ 1..0 = {}
    OBVIOUS
  <2>2. SumFunctionOnSet(f, 2..(0 + 1)) = 0 /\ SumFunctionOnSet(g, 1..0) = 0
    BY <2>1, SumOfNothing
  <2> QED
    BY <2>2
<1>6. ASSUME NEW m \in Nat, m \in N PROVE m + 1 \in N
  <2> SUFFICES ASSUME m + 1 <= n - 1
               PROVE  SumFunctionOnSet(f, 2..((m + 1) + 1)) = SumFunctionOnSet(g, 1..(m + 1))
    OBVIOUS
  <2> DEFINE F == 2..((m + 1) + 1)
             G == 1..(m + 1)
  <2>1. /\ F \in SUBSET (1..n) /\ G \in SUBSET (1..(n - 1))
        /\ m + 2 \in F /\ F \ {m + 2} = 2..(m + 1)
        /\ m + 1 \in G /\ G \ {m + 1} = 1..m
        /\ m <= n - 1
    BY <1>1
  <2>2. Summable(f, F) /\ Summable(g, G)
    BY <1>3, <2>1, SummableSubset
  <2>3. SumFunctionOnSet(f, 2..(m + 1)) = SumFunctionOnSet(g, 1..m)
    BY <1>6, <2>1
  <2>4. g[m + 1] = f[m + 2]
    <3>1. m + 1 \in 1..(n - 1) /\ (m + 1) + 1 = m + 2
      BY <1>1
    <3> QED
      BY <1>2, <3>1
  <2> HIDE DEF F, G
  <2>5. SumFunctionOnSet(f, F) = f[m + 2] + SumFunctionOnSet(f, F \ {m + 2})
    BY <2>1, <2>2, SumRemove
  <2>6. SumFunctionOnSet(g, G) = g[m + 1] + SumFunctionOnSet(g, G \ {m + 1})
    BY <2>1, <2>2, SumRemove
  <2>7. SumFunctionOnSet(f, F) = SumFunctionOnSet(g, G)
    BY <2>1, <2>3, <2>4, <2>5, <2>6
  <2> QED
    BY <2>7 DEF F, G
<1>7. SumFunctionOnSet(f, 2..n) = SumFunctionOnSet(g, 1..(n - 1))
  <2>1. n - 1 \in N
    <3>1. \A m \in Nat : m \in N => m + 1 \in N
      BY <1>6
    <3>2. n - 1 \in Nat
      BY <1>1
    <3> HIDE DEF N
    <3> QED
      BY <1>5, <3>1, <3>2, InductionOnNumbers
  <2>2. (n - 1) + 1 = n /\ n - 1 <= n - 1
    BY <1>1
  <2> QED
    BY <2>1, <2>2
<1>8. Due(s) = Head(s).amount + Due(Tail(s))
  BY <1>2, <1>3, <1>4, <1>7 DEF Due, f, g
<1> QED
  BY <1>1, <1>8

LEMMA NoLocksSpendable ==
  ASSUME NEW a, NEW d, SolventAccount(a, d), NoLocks(a)
  PROVE  Spendable(a) = a.balance
<1>1. /\ a.vesting = <<>>
      /\ \A id \in EscrowIds : a.escrow[id] = Missing
      /\ \A n \in Nodes : a.stake[n] = Missing
  BY DEF NoLocks, HasVestingLocks, HasNodeStakingLocks
<1>2. /\ a.vesting \in Vestings /\ a.escrow \in Escrows /\ a.stake \in Stakes
      /\ a.balance \in Int
      /\ Spendable(a) = a.balance - (VestedBy(a.vesting) + LockedBy(a.escrow) + LockedBy(a.stake))
  BY SoundParts DEF SolventAccount
<1>3. LockedBy(a.escrow) = 0
  <2>1. /\ LockedBy(a.escrow) = SumFunctionOnSet(Amounts(a.escrow), EscrowIds)
        /\ Summable(Amounts(a.escrow), EscrowIds)
    BY <1>2, LedgerAssumption, LockTypes, LockedByType DEF Escrows
  <2>2. \A id \in EscrowIds \ {} : Amounts(a.escrow)[id] = 0
    BY <1>1, <1>2 DEF Amounts, AmountOf, Escrows
  <2>3. {} \in SUBSET EscrowIds
    OBVIOUS
  <2>4. SumFunctionOnSet(Amounts(a.escrow), EscrowIds) = SumFunctionOnSet(Amounts(a.escrow), {})
    BY <2>1, <2>2, <2>3, SumWithoutZeros
  <2> QED
    BY <2>1, <2>4, SumOfNothing
<1>4. LockedBy(a.stake) = 0
  <2>1. /\ LockedBy(a.stake) = SumFunctionOnSet(Amounts(a.stake), Nodes)
        /\ Summable(Amounts(a.stake), Nodes)
    BY <1>2, LedgerAssumption, LockTypes, LockedByType DEF Stakes
  <2>2. \A n \in Nodes \ {} : Amounts(a.stake)[n] = 0
    BY <1>1, <1>2 DEF Amounts, AmountOf, Stakes
  <2>3. {} \in SUBSET Nodes
    OBVIOUS
  <2>4. SumFunctionOnSet(Amounts(a.stake), Nodes) = SumFunctionOnSet(Amounts(a.stake), {})
    BY <2>1, <2>2, <2>3, SumWithoutZeros
  <2> QED
    BY <2>1, <2>4, SumOfNothing
<1> QED
  BY <1>1, <1>2, <1>3, <1>4, VestedByNothing

\* A share that the fees cover is paid.
LEMMA CoveredShare ==
  ASSUME NEW L, NEW d, Secure(L, d), NEW share \in Shares,
         share.amount <= L.accounts[FeesAccount].balance,
         NEW r, r = PayShare(L, share)
  PROVE  /\ r.ok = TRUE
         /\ r.ledger.accounts[FeesAccount].balance
              = L.accounts[FeesAccount].balance - share.amount
<1> DEFINE n == share.amount
           x == OwnerOf[share.node]
           t == [type |-> "blockFees", payer |-> FeesAccount, payee |-> x, amount |-> n,
                 fees |-> 0]
           a == L.accounts[FeesAccount]
           D == SaveAccountState(L, FeesAccount, AddSpendableTokens(a, -n))
           M == SaveAccountState(D, x, AddSpendableTokens(D.accounts[x], n))
<1>1. /\ Solvent(L, d) /\ n \in Nat /\ FeesAccount \in Accounts /\ FeesAccount # Missing
      /\ x \in Accounts /\ x # FeesAccount
  BY SecureTotal, AccountsAssumption, LedgerAssumption DEF Shares, Accounts
<1>2. /\ SolventAccount(a, d) /\ a.balance \in Nat /\ Spendable(a) = a.balance
      /\ NoLocks(a) /\ L.accounts[x].exists
  <2>1. SolventAccount(a, d) /\ a.balance \in Nat
    BY <1>1, SolventParts
  <2>2. NoLocks(a) /\ L.accounts[x].exists
    BY <1>1 DEF Solvent, PayeesExist, Shares
  <2> QED
    BY <2>1, <2>2, NoLocksSpendable
<1>3. r = TokenTransfer(L, t)
  BY DEF PayShare
<1>4. t.payer = FeesAccount /\ t.payee = x /\ t.amount = n /\ t.fees = 0 /\ t.type = "blockFees"
  OBVIOUS
<1> HIDE DEF t
<1>5. ~Refused(L, t)
  <2>1. ~(Spendable(L.accounts[t.payer]) < t.amount + t.fees)
    BY <1>1, <1>2, <1>4
  <2>2. L.accounts[t.payee].exists /\ t.type \notin {"sale", "issuance"}
    BY <1>2, <1>4
  <2> QED
    BY <2>1, <2>2 DEF Refused
<1>6. Debit(L, t) = D
  BY <1>1, <1>4 DEF Debit
<1> HIDE DEF D
<1>7. r = CreditSpendable(D, t)
  BY <1>3, <1>4, <1>5, <1>6 DEF TokenTransfer, Credit
<1>8. r = Done(M)
  BY <1>4, <1>7 DEF CreditSpendable
<1>9. Solvent(D, d) /\ D.accounts[FeesAccount].balance = a.balance - n
  <2> DEFINE b == AddSpendableTokens(a, -n)
  <2>1. /\ Becomes(a, b, d, -n, -n)
        /\ b.vesting = a.vesting /\ b.escrow = a.escrow /\ b.stake = a.stake
    <3>1. SoundAccount(a, d) /\ -n \in Int
      BY <1>1, <1>2 DEF SolventAccount
    <3> HIDE DEF a, n
    <3> QED
      BY <3>1, AddSpendableEffect
  <2>2. D = SaveAccountState(L, FeesAccount, b)
    BY DEF D
  <2> HIDE DEF b
  <2>3. NoLocks(b) /\ SolventAccount(b, d) /\ b.balance = a.balance - n
    <3>1. SoundAccount(b, d) /\ Spendable(b) = Spendable(a) + (-n) /\ b.balance = a.balance + (-n)
      BY <2>1 DEF Becomes
    <3>2. a.balance >= n
      OBVIOUS
    <3>3. Spendable(b) >= 0 /\ b.balance = a.balance - n
      BY <1>1, <1>2, <3>1, <3>2
    <3> QED
      BY <1>2, <2>1, <3>1, <3>3, NoLocksSame DEF SolventAccount
  <2>4. Saved(L, D, FeesAccount, b, d)
    BY <1>1, <2>2, <2>3, SaveAccountEffect
  <2> QED
    BY <2>3, <2>4 DEF Saved
<1>10. M.accounts[FeesAccount] = D.accounts[FeesAccount]
  <2>1. D.accounts \in AccountTables /\ D \in Ledgers
    BY <1>9, LedgerFields DEF Solvent
  <2>2. PICK A : A = [D.accounts EXCEPT ![x] =
                        [AddSpendableTokens(D.accounts[x], n) EXCEPT !.exists = TRUE]]
    OBVIOUS
  <2>3. M = [D EXCEPT !.accounts = A]
    BY <2>2 DEF SaveAccountState
  <2>4. M.accounts = A
    BY <2>1, <2>3 DEF Ledgers
  <2>5. A[FeesAccount] = D.accounts[FeesAccount]
    BY <1>1, <2>1, <2>2 DEF AccountTables
  <2> QED
    BY <2>4, <2>5
<1> HIDE DEF M
<1>11. r.ok = TRUE /\ r.ledger = M
  BY <1>8, Results
<1>12. r.ledger.accounts[FeesAccount].balance = a.balance - n
  BY <1>9, <1>10, <1>11
<1> QED
  BY <1>11, <1>12 DEF n, a

\* The shares are natural numbers, and they add up to the fees, or to nothing.
LEMMA SharesEffect ==
  ASSUME NEW L, NEW d, Secure(L, d), NEW voters \in Seq(Nodes), NEW h \in Nat,
         NEW s, s = SharesOf(L, voters, h)
  PROVE  /\ s \in Seq(Shares)
         /\ Due(s) = IF \E i \in DOMAIN s : Staked(L.accounts[OwnerOf[s[i].node]]) > 0
                     THEN L.accounts[FeesAccount].balance ELSE 0
<1> DEFINE fees == L.accounts[FeesAccount].balance
           powers == [i \in DOMAIN voters |-> Staked(L.accounts[OwnerOf[voters[i]]])]
           p == Dispatch(fees, powers, h)
           n == Len(voters)
<1>1. /\ fees \in Nat
      /\ \A node \in Nodes : Staked(L.accounts[OwnerOf[node]]) \in Nat
  <2>1. Solvent(L, d) /\ FeesAccount \in Accounts
    BY SecureTotal DEF Accounts
  <2>2. ASSUME NEW node \in Nodes PROVE Staked(L.accounts[OwnerOf[node]]) \in Nat
    <3>1. OwnerOf[node] \in Accounts
      BY <2>2, AccountsAssumption DEF Accounts
    <3>2. SoundAccount(L.accounts[OwnerOf[node]], d)
      BY <2>1, <3>1, SolventParts DEF SolventAccount
    <3> QED
      BY <3>2, SoundParts DEF Staked
  <2> QED
    BY <2>1, <2>2, SolventParts
<1>2. voters \in Seq(Nodes) /\ DOMAIN voters = 1..n /\ n \in Nat
  OBVIOUS
<1>3. /\ powers \in Seq(Nat) /\ Len(powers) = n
      /\ \A i \in 1..n : powers[i] = Staked(L.accounts[OwnerOf[voters[i]]])
  <2>1. \A i \in 1..n : voters[i] \in Nodes
    BY <1>2
  <2> QED
    BY <1>1, <1>2, <2>1
<1>4. s = IF fees = 0 THEN <<>>
          ELSE [i \in 1..n |-> [node |-> voters[i], amount |-> p[i]]]
  BY <1>2 DEF SharesOf
<1>5. /\ p \in Seq(Nat) /\ Len(p) = n
      /\ TotalOf(p) = IF TotalOf(powers) = 0 THEN 0 ELSE fees
  <2> HIDE DEF fees, powers, n
  <2> QED
    BY <1>1, <1>3, SharesAddUp
<1> HIDE DEF fees, powers, p, n
<1>6. CASE fees = 0
  <2>1. s = <<>> /\ s \in Seq(Shares)
    BY <1>4, <1>6
  <2>2. Due(s) = 0
    <3>1. PICK g : g = AmountsOf(s)
      OBVIOUS
    <3>2. g \in Seq(Nat) /\ Len(g) = 0
      BY <2>1, <3>1, AmountsType
    <3>3. TotalOf(g) = SumFunctionOnSet(g, 1..Len(g))
      BY <3>2, TotalOfSum
    <3>4. 1..Len(g) = {}
      BY <3>2
    <3> QED
      BY <3>1, <3>3, <3>4, SumOfNothing DEF Due
  <2> QED
    BY <1>6, <2>1, <2>2 DEF fees
<1>7. CASE fees # 0
  <2>1. s = [i \in 1..n |-> [node |-> voters[i], amount |-> p[i]]]
    BY <1>4, <1>7
  <2>2. \A i \in 1..n : voters[i] \in Nodes /\ p[i] \in Nat
    BY <1>2, <1>5
  <2>3. /\ s \in Seq(Shares) /\ Len(s) = n /\ DOMAIN s = 1..n
        /\ \A i \in 1..n : s[i].node = voters[i] /\ s[i].amount = p[i]
    BY <1>2, <2>1, <2>2 DEF Shares
  <2>4. AmountsOf(s) = p
    <3>1. \A i \in 1..n : AmountsOf(s)[i] = p[i]
      BY <2>3 DEF AmountsOf
    <3>2. AmountsOf(s) = [i \in 1..n |-> AmountsOf(s)[i]]
      BY <2>3 DEF AmountsOf
    <3>3. p = [i \in 1..n |-> p[i]]
      BY <1>2, <1>5
    <3> QED
      BY <3>1, <3>2, <3>3
  <2>5. Due(s) = IF TotalOf(powers) = 0 THEN 0 ELSE fees
    BY <1>5, <2>4 DEF Due
  <2>6. TotalOf(powers) = 0 <=> \A i \in 1..n : ~(powers[i] > 0)
    <3>1. /\ TotalOf(powers) = SumFunctionOnSet(powers, 1..n)
          /\ Summable(powers, 1..n) /\ TotalOf(powers) \in Nat
      BY <1>3, TotalOfSum
    <3>2. \A i \in 1..n : powers[i] \in Nat
      BY <1>2, <1>3
    <3>3. ASSUME \A i \in 1..n : ~(powers[i] > 0)
          PROVE  TotalOf(powers) = 0
      <4>1. {} \in SUBSET (1..n) /\ \A i \in (1..n) \ {} : powers[i] = 0
        BY <3>2, <3>3
      <4>2. SumFunctionOnSet(powers, 1..n) = SumFunctionOnSet(powers, {})
        BY <3>1, <4>1, SumWithoutZeros
      <4> QED
        BY <3>1, <4>2, SumOfNothing
    <3>4. ASSUME NEW i \in 1..n, powers[i] > 0
          PROVE  TotalOf(powers) # 0
      <4> DEFINE D == 1..n
      <4>1. Summable(powers, D) /\ i \in D /\ D \ {i} \in SUBSET D
        BY <3>1
      <4>2. \A j \in D \ {i} : powers[j] >= 0
        BY <3>2
      <4>3. TotalOf(powers) = SumFunctionOnSet(powers, D)
        BY <3>1
      <4> HIDE DEF D
      <4>4. SumFunctionOnSet(powers, D) = powers[i] + SumFunctionOnSet(powers, D \ {i})
        BY <4>1, SumRemove
      <4>5. SumFunctionOnSet(powers, D \ {i}) \in Nat
        <5>1. Summable(powers, D \ {i})
          BY <4>1, SummableSubset
        <5> QED
          BY <4>2, <5>1, SumOfNaturals
      <4> QED
        BY <3>2, <3>4, <4>3, <4>4, <4>5
    <3> QED
      BY <3>3, <3>4
  <2>7. (\E i \in 1..n : powers[i] > 0)
          <=> \E i \in DOMAIN s : Staked(L.accounts[OwnerOf[s[i].node]]) > 0
    <3>1. \A i \in 1..n : powers[i] = Staked(L.accounts[OwnerOf[s[i].node]])
      BY <1>3, <2>3
    <3> QED
      BY <2>3, <3>1
  <2> QED
    BY <2>3, <2>5, <2>6, <2>7 DEF fees
<1> QED
  BY <1>6, <1>7

------------------------------------------------------------------------------
(* The daily updates, escrow by escrow *)

\* The daily updates of day d have still to visit the escrows I of L, which exist; the
\* others are not past their end, and the vesting locks are on schedule.
Visiting(L, I, d) ==
  /\ \A id \in I : Rows(L)[id] # Missing
  /\ \A x \in Accounts, id \in EscrowIds :
       L.accounts[x].escrow[id] # Missing => id \in I \/ d <= L.accounts[x].escrow[id].end
  /\ \A x \in Accounts : \A i \in DOMAIN L.accounts[x].vesting :
       OnSchedule(L.accounts[x].vesting[i], d)

LEMMA KeysHaveRows ==
  ASSUME NEW L \in Ledgers
  PROVE  \A id : id \in GetKeys(L.escrows, L.cache) <=> id \in EscrowIds /\ Rows(L)[id] # Missing
<1>1. DOMAIN L.escrows = EscrowIds
  BY LedgerFields DEF EscrowTables
<1> QED
  BY <1>1 DEF GetKeys, Rows, FullTable

\* The accounts of M have the vesting locks of L.
SameVesting(L, M) ==
  /\ WellFormed(M)
  /\ \A x \in Accounts : M.accounts[x].vesting = L.accounts[x].vesting

LEMMA SaveSameVesting ==
  ASSUME NEW L, WellFormed(L), NEW x, NEW a, x \in Accounts => SameLocks(a, L.accounts[x]),
         NEW M, M = SaveAccountState(L, x, a)
  PROVE  SameVesting(L, M)
<1> DEFINE b == [a EXCEPT !.exists = TRUE]
           A == [L.accounts EXCEPT ![x] = b]
<1>1. Holds(M, A, L.vestingRows, L.stakingRows)
  BY SaveHolds
<1>2. x \in Accounts => WellFormedAccount(b) /\ b.vesting = L.accounts[x].vesting
  <2> SUFFICES ASSUME x \in Accounts
               PROVE  WellFormedAccount(b) /\ b.vesting = L.accounts[x].vesting
    OBVIOUS
  <2>1. WellFormedAccount(L.accounts[x])
    BY DEF WellFormed
  <2>2. WellFormedAccount(a) /\ a.vesting = L.accounts[x].vesting
    BY <2>1, SameLocksFields DEF NoNewLocks
  <2>3. SameLocks(b, a)
    BY <2>2, BalanceKeepsLocks
  <2>4. WellFormedAccount(b) /\ b.vesting = a.vesting
    BY <2>2, <2>3, SameLocksFields DEF NoNewLocks
  <2> QED
    BY <2>2, <2>4
<1> HIDE DEF b
<1>3. \A y \in Accounts : WellFormedAccount(L.accounts[y])
  BY DEF WellFormed
<1>4. A = [y \in Accounts |-> A[y]]
  BY DEF WellFormed
<1>5. \A y \in Accounts : A[y] = IF y = x THEN b ELSE L.accounts[y]
  BY DEF WellFormed
<1> HIDE DEF A
<1>6. /\ M = [accounts |-> M.accounts, escrows |-> M.escrows, cache |-> M.cache,
              vestingRows |-> M.vestingRows, stakingRows |-> M.stakingRows, keys |-> M.keys]
      /\ M.accounts = A
  BY <1>1, HoldsFields
<1>7. \A y \in Accounts : WellFormedAccount(A[y]) /\ A[y].vesting = L.accounts[y].vesting
  BY <1>2, <1>3, <1>5
<1> QED
  BY <1>4, <1>6, <1>7 DEF SameVesting, WellFormed

LEMMA ExpirySameVesting ==
  ASSUME NEW L, WellFormed(L), NEW id, NEW d
  PROVE  \A x \in Accounts :
           UpdateExpiredEscrow(L, id, d).ledger.accounts[x].vesting = L.accounts[x].vesting
<1> DEFINE row == GetEscrow(L, id)
           n == LockOf(L, row, id).amount
           t == [type |-> "refund", payer |-> row.payee, payee |-> row.payer, amount |-> n,
                 fees |-> 0]
           U == Unlock(L, row, id)
           D == Debit(U, t)
           C == CreditSpendable(D, t).ledger
           refund == Refund(U, row, n)
<1>1. SameVesting(L, U)
  <2>1. row.payee \in Accounts
          => SameLocks(RemoveEscrowLock(L.accounts[row.payee], id), L.accounts[row.payee])
    BY BalanceKeepsLocks DEF WellFormed
  <2> HIDE DEF row
  <2> QED
    BY <2>1, SaveSameVesting DEF Unlock
<1>2. SameVesting(U, D)
  <2>1. WellFormed(U)
    BY <1>1 DEF SameVesting
  <2> HIDE DEF U, t
  <2>2. t.payer \in Accounts
          => SameLocks(AddSpendableTokens(U.accounts[t.payer], -t.amount), U.accounts[t.payer])
    BY <2>1, BalanceKeepsLocks DEF WellFormed
  <2> QED
    BY <2>1, <2>2, SaveSameVesting DEF Debit, SameVesting
<1>3. SameVesting(D, C)
  <2>1. WellFormed(D)
    BY <1>2 DEF SameVesting
  <2> HIDE DEF D, t
  <2>2. t.payee \in Accounts
          => SameLocks(AddSpendableTokens(D.accounts[t.payee], t.amount), D.accounts[t.payee])
    BY <2>1, BalanceKeepsLocks DEF WellFormed
  <2>3. C = SaveAccountState(D, t.payee, AddSpendableTokens(D.accounts[t.payee], t.amount))
    BY DEF CreditSpendable, Done
  <2> HIDE DEF C
  <2> QED
    BY <2>1, <2>2, <2>3, SaveSameVesting
<1>4. refund.ledger \in {U, C}
  <2>1. refund = TokenTransfer(U, t) /\ t.type = "refund"
    BY DEF Refund
  <2> HIDE DEF U, t, refund
  <2> QED
    BY <2>1 DEF TokenTransfer, Credit, Throw
<1> HIDE DEF refund, U, C, D
<1>5. SameVesting(L, refund.ledger)
  BY <1>1, <1>2, <1>3, <1>4 DEF SameVesting
<1>6. DelEscrow(refund.ledger, id).accounts = refund.ledger.accounts
  <2> DEFINE N == refund.ledger
             c == DelRaw(N.cache, id)
  <2>1. N = [accounts |-> N.accounts, escrows |-> N.escrows, cache |-> N.cache,
             vestingRows |-> N.vestingRows, stakingRows |-> N.stakingRows, keys |-> N.keys]
    BY <1>5 DEF SameVesting, WellFormed
  <2>2. DelEscrow(N, id) = [N EXCEPT !.cache = c]
    BY DEF DelEscrow
  <2> HIDE DEF c, N
  <2>3. [N EXCEPT !.cache = c].accounts = N.accounts
    BY <2>1
  <2> QED
    BY <2>2, <2>3 DEF N
<1>7. UpdateExpiredEscrow(L, id, d).ledger \in {L, DelEscrow(refund.ledger, id), refund.ledger}
  BY DEF UpdateExpiredEscrow, Done, Throw, refund, U
<1> QED
  BY <1>5, <1>6, <1>7 DEF SameVesting

\* After the vesting locks the escrows are still to be visited, all of them.
LEMMA VisitBegins ==
  ASSUME NEW warned, NEW L, NEW d \in 0..MaxDay, Secure(L, d), Good(L, warned),
         NEW M, M = UpdateVestingLocks(L, d),
         NEW I, I = GetKeys(L.escrows, L.cache)
  PROVE  Visiting(M, I, d) /\ I \subseteq EscrowIds
<1>1. /\ Moves(L, M, d, 0)
      /\ \A x \in Accounts : x \in L.vestingRows =>
           \A i \in DOMAIN M.accounts[x].vesting : OnSchedule(M.accounts[x].vesting[i], d)
      /\ \A x \in Accounts : x \notin L.vestingRows => M.accounts[x] = L.accounts[x]
  BY VestingMoves
<1>2. L \in Ledgers /\ Matching(L.accounts, Rows(L)) /\ Rows(M) = Rows(L)
  BY <1>1, SecureTotal, RowsMatchingLocks, SameRowsGive DEF Secure, Moves
<1>3. I \subseteq EscrowIds /\ \A id \in EscrowIds : id \in I <=> Rows(L)[id] # Missing
  BY <1>2, KeysHaveRows
<1>4. \A x \in Accounts, id \in EscrowIds : M.accounts[x].escrow[id] # Missing => id \in I
  BY <1>1, <1>2, <1>3 DEF Moves, Matching, RowMatches
<1>5. ASSUME NEW x \in Accounts, NEW i \in DOMAIN M.accounts[x].vesting
      PROVE  OnSchedule(M.accounts[x].vesting[i], d)
  <2>1. CASE x \in L.vestingRows
    BY <1>1, <1>5, <2>1
  <2>2. CASE x \notin L.vestingRows
    <3>1. M.accounts[x].vesting = <<>>
      BY <1>1, <2>2 DEF Good, Indexed, HasVestingLocks
    <3> QED
      BY <1>5, <3>1
  <2> QED
    BY <2>1, <2>2
<1> QED
  BY <1>2, <1>3, <1>4, <1>5 DEF Visiting

LEMMA VisitGoesOn ==
  ASSUME NEW warned, NEW L, NEW d, Secure(L, d), Good(L, warned),
         NEW I, I \subseteq EscrowIds, Visiting(L, I, d),
         NEW id \in EscrowIds, id \in I, NEW r, r = UpdateExpiredEscrow(L, id, d),
         NEW J, J = I \ {id}
  PROVE  /\ r.ok = TRUE
         /\ Outcome(L, r, d)
         /\ Visiting(r.ledger, J, d)
<1>1. id \in EscrowIds /\ Rows(L)[id] # Missing
  BY DEF Visiting
<1>2. /\ r.ok = TRUE
      /\ \/ RowGone(L, r.ledger, id, d)
         \/ r.ledger = L /\ d <= LockOf(L, Rows(L)[id], id).end
  BY <1>1, ExpiryEffect
<1>3. \A x \in Accounts : r.ledger.accounts[x].vesting = L.accounts[x].vesting
  BY ExpirySameVesting DEF Good
<1> DEFINE M == r.ledger
<1> HIDE DEF M
<1>4. \A x \in Accounts : \A i \in DOMAIN M.accounts[x].vesting :
        OnSchedule(M.accounts[x].vesting[i], d)
  BY <1>3 DEF Visiting, M
<1>5. CASE RowGone(L, M, id, d)
  <2>1. \A j \in J : Rows(M)[j] # Missing
    BY <1>5 DEF Visiting, RowGone, SameOtherRows
  <2>2. ASSUME NEW x \in Accounts, NEW j \in EscrowIds, M.accounts[x].escrow[j] # Missing
        PROVE  j \in J \/ d <= M.accounts[x].escrow[j].end
    <3>1. j # id
      BY <1>5, <2>2 DEF RowGone
    <3>2. M.accounts[x].escrow[j] = L.accounts[x].escrow[j]
      BY <1>5, <2>2, <3>1 DEF RowGone, SameOthers
    <3> QED
      BY <2>2, <3>1, <3>2 DEF Visiting
  <2>3. Visiting(M, J, d)
    BY <1>4, <2>1, <2>2 DEF Visiting
  <2>4. Outcome(L, r, d)
    BY <1>2, <1>5, GoneOutcome DEF M
  <2> QED
    BY <1>2, <2>3, <2>4 DEF M
<1>6. CASE M = L /\ d <= LockOf(L, Rows(L)[id], id).end
  <2>1. L \in Ledgers /\ Matching(L.accounts, Rows(L))
    BY SecureTotal, RowsMatchingLocks DEF Secure
  <2>2. \A x \in Accounts : L.accounts[x].escrow[id] # Missing => x = Rows(L)[id].payee
    BY <1>1, <2>1 DEF Matching, RowMatches
  <2>3. ASSUME NEW x \in Accounts, NEW j \in EscrowIds, M.accounts[x].escrow[j] # Missing
        PROVE  j \in J \/ d <= M.accounts[x].escrow[j].end
    <3>1. CASE j = id
      BY <1>6, <2>2, <2>3, <3>1 DEF LockOf
    <3>2. CASE j # id
      BY <1>6, <2>3, <3>2 DEF Visiting
    <3> QED
      BY <3>1, <3>2
  <2>4. \A j \in J : Rows(M)[j] # Missing
    <3>1. \A j \in I : Rows(L)[j] # Missing
      BY DEF Visiting
    <3>2. \A j \in J : Rows(L)[j] # Missing
      BY <3>1
    <3> QED
      BY <1>6, <3>2
  <2>5. Visiting(M, J, d)
    BY <1>4, <2>3, <2>4 DEF Visiting
  <2>6. Outcome(L, r, d)
    <3>1. r.ok = TRUE /\ r.ledger = L /\ Secure(L, d) /\ TotalBalance(L) \in Nat
      BY <1>2, <1>6, SecureTotal DEF M
    <3> QED
      BY <3>1, Outcomes
  <2> QED
    BY <1>2, <2>5, <2>6 DEF M
<1> QED
  BY <1>2, <1>5, <1>6 DEF M

LEMMA VisitEnds ==
  ASSUME NEW warned, NEW L, NEW d, Secure(L, d), Good(L, warned), Visiting(L, {}, d),
         NEW U, U = ApplyUnlocks(L, d), NEW M, M = ApplySlashing(U, d)
  PROVE  /\ Secure(M, d) /\ Slashed(U, d) \in Nat
         /\ TotalBalance(M) = TotalBalance(L) - Slashed(U, d)
         /\ NothingDue(M, d)
<1>1. /\ Moves(L, U, d, 0)
      /\ \A x \in Accounts : U.accounts[x].vesting = L.accounts[x].vesting
      /\ \A x \in Accounts : x \in L.stakingRows =>
           \A n \in Nodes : ~IsUnlocking(U.accounts[x].stake[n], d)
      /\ \A x \in Accounts : x \notin L.stakingRows => U.accounts[x] = L.accounts[x]
  BY UnlocksMoves
<1>2. Secure(U, d) /\ TotalBalance(U) = TotalBalance(L) + 0
  BY <1>1, MovesSecure
<1>3. /\ Slashed(U, d) \in Nat
      /\ Moves(U, M, d, -Slashed(U, d))
      /\ \A x \in Accounts : M.accounts[x].vesting = U.accounts[x].vesting
      /\ \A x \in Accounts : x \in U.stakingRows =>
           \A n \in Nodes : /\ ~IsSlashed(M.accounts[x].stake[n], d)
                            /\ IsUnlocking(M.accounts[x].stake[n], d)
                                 => IsUnlocking(U.accounts[x].stake[n], d)
      /\ \A x \in Accounts : x \notin U.stakingRows => M.accounts[x] = U.accounts[x]
  BY <1>2, SlashingMoves
<1>4. Secure(M, d) /\ TotalBalance(M) = TotalBalance(U) + (-Slashed(U, d))
  BY <1>2, <1>3, MovesSecure
<1>5. TotalBalance(M) = TotalBalance(L) - Slashed(U, d)
  <2>1. TotalBalance(L) \in Nat /\ TotalBalance(U) \in Nat
    BY <1>2, SecureTotal
  <2> QED
    BY <1>2, <1>3, <1>4, <2>1
<1>6. Good(U, warned)
  BY UnlocksKeepGood
<1>7. \A x \in Accounts, n \in Nodes : ~IsUnlocking(U.accounts[x].stake[n], d)
  BY <1>1 DEF Good, Indexed, HasNodeStakingLocks, IsUnlocking
<1>8. ASSUME NEW x \in Accounts, NEW n \in Nodes
      PROVE  ~IsUnlocking(M.accounts[x].stake[n], d) /\ ~IsSlashed(M.accounts[x].stake[n], d)
  <2>1. CASE x \in U.stakingRows
    BY <1>3, <1>7, <1>8, <2>1
  <2>2. CASE x \notin U.stakingRows
    <3>1. M.accounts[x].stake[n] = Missing
      BY <1>3, <1>6, <1>8, <2>2 DEF Good, Indexed, HasNodeStakingLocks
    <3> QED
      BY <3>1 DEF IsUnlocking, IsSlashed
  <2> QED
    BY <2>1, <2>2
<1>9. \A x \in Accounts, id \in EscrowIds :
        M.accounts[x].escrow[id] # Missing => d <= M.accounts[x].escrow[id].end
  BY <1>1, <1>3 DEF Moves, Visiting
<1>10. \A x \in Accounts : \A i \in DOMAIN M.accounts[x].vesting :
         M.accounts[x].vesting[i].locked = Unreleased(M.accounts[x].vesting[i], d)
  BY <1>1, <1>3 DEF Visiting, OnSchedule
<1>11. NothingDue(M, d)
  BY <1>8, <1>9, <1>10 DEF NothingDue
<1> QED
  BY <1>3, <1>4, <1>5, <1>11
==============================================================================
