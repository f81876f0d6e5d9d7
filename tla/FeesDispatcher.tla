--------------------------- MODULE FeesDispatcher ---------------------------
(***************************************************************************)
(* FeesDispatcher.dispatch(): how the fees of a block are split among the  *)
(* validators that voted for the previous one, in proportion of their      *)
(* stakes.                                                                 *)
(***************************************************************************)
EXTENDS Integers, SequencesExt

TotalOf(s) == FoldLeft(LAMBDA sum, x : sum + x, 0, s)

\* Mutation: the remainder is kept.
Remainder_Dropped(fees, shares) == 0

\* What the rounded shares leave to distribute.
Remainder(fees, shares) == fees - TotalOf(shares)

\* Mutation: one unit too many is distributed.
UnitsFor_OneMore(i, n, height, remaining) ==
  Cardinality({k \in 0..remaining : (height + k) % n = i - 1})

\* How many of the remaining units go to the i-th of n validators: unit k goes to
\* validator (height + k) % n, counting validators from 0.
UnitsFor(i, n, height, remaining) ==
  Cardinality({k \in 0..(remaining - 1) : (height + k) % n = i - 1})

\* Dividing by a total power of 0 gives NaN: every share becomes 0, and the remainder,
\* NaN as well, is not distributed.
Dispatch(fees, powers, height) ==
  LET n == Len(powers)
      total == TotalOf(powers) IN
    IF total = 0 THEN [i \in 1..n |-> 0]
    ELSE LET shares == [i \in 1..n |-> (fees * powers[i]) \div total] IN
           [i \in 1..n |-> shares[i] + UnitsFor(i, n, height, Remainder(fees, shares))]
==============================================================================
