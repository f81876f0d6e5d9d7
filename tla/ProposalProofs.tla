--------------------------- MODULE ProposalProofs ---------------------------
(***************************************************************************)
(* Proofs about proposals and blocks: what ProcessProposal accepted,       *)
(* FinalizeBlock executes without rejecting anything, no token is lost on  *)
(* the chain, the chain extends each virtual blockchain one microblock     *)
(* after the other, and a proposal in whose preparation nothing was        *)
(* rejected is accepted.                                                   *)
(*                                                                         *)
(* The handlers run through microblocks, sections, escrows and shares with *)
(* folds.  The first part turns each of them into the values that it has   *)
(* after so many elements: a run, in which every value comes from the one  *)
(* before.  Two loops over the same microblocks are then compared one      *)
(* element after the other.                                                *)
(***************************************************************************)
EXTENDS Proposal, AccountProofs

------------------------------------------------------------------------------
(* Runs *)

\* What the loops of this module do with an element x, acc being the value before.
StepOf(loop, acc, x) ==
  CASE loop.over = "sections" ->
         IF acc.ok THEN ExecSection(acc.ledger, loop.body, x, loop.day) ELSE acc
    [] loop.over = "escrows" ->
         IF acc.ok THEN UpdateExpiredEscrow(acc.ledger, x, loop.day) ELSE acc
    [] loop.over = "shares" -> IF acc.ok THEN PayShare(acc.ledger, x) ELSE acc
    [] loop.over = "sizes" -> acc + SizeOf[x]
    [] loop.over = "candidates" -> TryMicroblock(acc, x, loop.day)
    [] loop.over = "proposal" -> IF acc.ok THEN Execute(acc.state, x, loop.day) ELSE acc
    [] loop.over = "block" ->
         LET result == Execute(acc.state, x, loop.day)
         IN  [state |-> result.state, codes |-> Append(acc.codes, result.ok)]

\* h holds the value of the loop for every set of positions of s.
IsFoldOf(h, loop, base, s) ==
  /\ h = [t \in SUBSET DOMAIN s |-> h[t]]
  /\ \A t \in SUBSET DOMAIN s :
       h[t] = IF t = {} THEN base ELSE StepOf(loop, h[t \ {Max(t)}], s[Max(t)])

\* r holds the values of the loop after 0, 1, ... elements of s.
IsRunOf(r, loop, base, s) ==
  /\ r[0] = base
  /\ \A i \in 1..Len(s) : r[i] = StepOf(loop, r[i - 1], s[i])

\* h is the fold for the positions up to m alone.
FoldUpTo(h, loop, base, s, m) ==
  /\ h = [t \in SUBSET (1..m) |-> h[t]]
  /\ \A t \in SUBSET (1..m) :
       h[t] = IF t = {} THEN base ELSE StepOf(loop, h[t \ {Max(t)}], s[Max(t)])

LEMMA FoldGoesOn ==
  ASSUME NEW loop, NEW base, NEW s, NEW m \in Nat, NEW g, FoldUpTo(g, loop, base, s, m)
  PROVE  \E h : FoldUpTo(h, loop, base, s, m + 1)
<1> DEFINE e == [t \in SUBSET (1..m) |-> StepOf(loop, g[t], s[m + 1])]
           h == Extension(g, e, m)
<1>1. h = [t \in SUBSET (1..(m + 1)) |-> h[t]]
  BY DEF Extension
<1>2. \A t \in SUBSET (1..m) : e[t] = StepOf(loop, g[t], s[m + 1])
  OBVIOUS
<1>3. ExtendsBy(h, g, e, m)
  <2> HIDE DEF e
  <2> QED
    BY ExtensionSteps
<1> HIDE DEF e, h
<1>4. ASSUME NEW t \in SUBSET (1..(m + 1))
      PROVE  h[t] = IF t = {} THEN base ELSE StepOf(loop, h[t \ {Max(t)}], s[Max(t)])
  <2>1. PICK rest : rest = t \ {Max(t)}
    OBVIOUS
  <2>2. CASE m + 1 \in t
    <3>1. /\ Max(t) = m + 1 /\ rest \in SUBSET (1..m)
          /\ h[t] = e[rest] /\ h[rest] = g[rest]
      BY <1>3, <2>1, <2>2 DEF ExtendsBy
    <3>2. h[t] = StepOf(loop, h[rest], s[Max(t)])
      BY <1>2, <3>1
    <3> QED
      BY <2>1, <2>2, <3>2
  <2>3. CASE m + 1 \notin t
    <3>1. t \in SUBSET (1..m) /\ h[t] = g[t] /\ h[rest] = g[rest]
      BY <1>3, <2>1, <2>3 DEF ExtendsBy
    <3>2. g[t] = IF t = {} THEN base ELSE StepOf(loop, g[rest], s[Max(t)])
      BY <2>1, <3>1 DEF FoldUpTo
    <3> QED
      BY <2>1, <3>1, <3>2
  <2> QED
    BY <2>2, <2>3
<1> QED
  BY <1>1, <1>4 DEF FoldUpTo

LEMMA FoldOfExists ==
  ASSUME NEW loop, NEW base, NEW S, NEW s \in Seq(S)
  PROVE  \E h : IsFoldOf(h, loop, base, s)
<1> DEFINE N == {m \in Nat : \E h : FoldUpTo(h, loop, base, s, m)}
<1>1. 0 \in N
  <2> DEFINE h == [t \in SUBSET (1..0) |-> base]
  <2>1. h = [t \in SUBSET (1..0) |-> h[t]] /\ \A t \in SUBSET (1..0) : t = {} /\ h[t] = base
    OBVIOUS
  <2> HIDE DEF h
  <2>2. FoldUpTo(h, loop, base, s, 0)
    BY <2>1 DEF FoldUpTo
  <2> QED
    BY <2>2
<1>2. \A m \in Nat : m \in N => m + 1 \in N
  BY FoldGoesOn
<1>3. Nat \subseteq N
  <2> HIDE DEF N
  <2> QED
    BY <1>1, <1>2, InductionOnNumbers
<1>4. PICK n : n = Len(s)
  OBVIOUS
<1>5. n \in Nat /\ DOMAIN s = 1..n
  BY <1>4
<1>6. PICK h : FoldUpTo(h, loop, base, s, n)
  BY <1>3, <1>5
<1>7. IsFoldOf(h, loop, base, s)
  BY <1>5, <1>6 DEF FoldUpTo, IsFoldOf
<1> QED
  BY <1>7

\* The values for the positions 1..i are a run.
LEMMA FoldOfByPrefix ==
  ASSUME NEW loop, NEW base, NEW S, NEW s \in Seq(S), NEW h, IsFoldOf(h, loop, base, s)
  PROVE  \E r : IsRunOf(r, loop, base, s) /\ r[Len(s)] = h[DOMAIN s]
<1> DEFINE n == Len(s)
           r == [i \in 0..n |-> h[1..i]]
<1>1. n \in Nat /\ DOMAIN s = 1..n
  OBVIOUS
<1> HIDE DEF n
<1>2. \A i \in 0..n : r[i] = h[1..i]
  OBVIOUS
<1> HIDE DEF r
<1>3. r[0] = base
  <2>1. 1..0 = {} /\ 0 \in 0..n
    BY <1>1
  <2>2. h[{}] = base
    BY DEF IsFoldOf
  <2> QED
    BY <1>2, <2>1, <2>2
<1>4. ASSUME NEW i \in 1..n PROVE r[i] = StepOf(loop, r[i - 1], s[i])
  <2>1. 1..i \in SUBSET (1..n) /\ 1..i # {} /\ i \in 0..n /\ i - 1 \in 0..n
    <3>1. \A j \in 1..i : j \in 1..n
      BY <1>1, <1>4
    <3>2. i \in 1..i /\ i \in 0..n /\ i - 1 \in 0..n
      BY <1>1, <1>4
    <3> QED
      BY <3>1, <3>2
  <2>2. Max(1..i) = i /\ (1..i) \ {i} = 1..(i - 1)
    BY <1>1, MaxOfPositions
  <2>3. h[1..i] = StepOf(loop, h[(1..i) \ {Max(1..i)}], s[Max(1..i)])
    BY <1>1, <2>1 DEF IsFoldOf
  <2> QED
    BY <1>2, <2>1, <2>2, <2>3
<1>5. r[n] = h[DOMAIN s]
  <2>1. n \in 0..n
    BY <1>1
  <2> QED
    BY <1>1, <1>2, <2>1
<1> QED
  BY <1>3, <1>4, <1>5 DEF IsRunOf, n

\* Two runs over sequences that begin with the same elements agree on them.
LEMMA RunsAgree ==
  ASSUME NEW loop, NEW base, NEW s, NEW t, NEW p, IsRunOf(p, loop, base, s),
         NEW q, IsRunOf(q, loop, base, t), NEW m \in Nat,
         \A i \in 1..m : i \in 1..Len(s) /\ i \in 1..Len(t) /\ s[i] = t[i]
  PROVE  p[m] = q[m]
<1> DEFINE N == {i \in Nat : i <= m => p[i] = q[i]}
<1>1. 0 \in N
  BY DEF IsRunOf
<1>2. ASSUME NEW i \in Nat, i \in N PROVE i + 1 \in N
  <2> SUFFICES ASSUME i + 1 <= m PROVE p[i + 1] = q[i + 1]
    OBVIOUS
  <2>1. i + 1 \in 1..m /\ (i + 1) - 1 = i /\ p[i] = q[i]
    BY <1>2
  <2>2. i + 1 \in 1..Len(s) /\ i + 1 \in 1..Len(t) /\ s[i + 1] = t[i + 1]
    BY <2>1
  <2> HIDE DEF N
  <2>3. /\ p[i + 1] = StepOf(loop, p[(i + 1) - 1], s[i + 1])
        /\ q[i + 1] = StepOf(loop, q[(i + 1) - 1], t[i + 1])
    BY <2>2 DEF IsRunOf
  <2> QED
    BY <2>1, <2>2, <2>3
<1>3. Nat \subseteq N
  <2> HIDE DEF N
  <2> QED
    BY <1>1, <1>2, InductionOnNumbers
<1> QED
  BY <1>3

SizesLoop == [over |-> "sizes"]

IsSizesFold(h, txs) ==
  h = [t \in SUBSET DOMAIN txs |->
         IF t = {} THEN 0
         ELSE LET i == Max(t) IN
           h[t \ {i}] + SizeOf[txs[i]]]

\* The size of a block.
LEMMA SizesByPrefix ==
  ASSUME NEW S, NEW txs \in Seq(S)
  PROVE  \E r : /\ IsRunOf(r, SizesLoop, 0, txs)
               /\ SizeOfTxs(txs) = r[Len(txs)]
<1>1. PICK g : IsFoldOf(g, SizesLoop, 0, txs)
  BY FoldOfExists
<1>2. ASSUME NEW h
      PROVE  IsFoldOf(h, SizesLoop, 0, txs)
               <=> IsSizesFold(h, txs)
  <2>1. ASSUME NEW t \in SUBSET DOMAIN txs
        PROVE  StepOf(SizesLoop, h[t \ {Max(t)}], txs[Max(t)])
                 = h[t \ {Max(t)}] + SizeOf[txs[Max(t)]]
    BY DEF StepOf, SizesLoop
  <2> QED
    BY <2>1 DEF IsFoldOf, IsSizesFold
<1> DEFINE k == CHOOSE h : IsSizesFold(h, txs)
<1>3. IsFoldOf(k, SizesLoop, 0, txs)
  BY <1>1, <1>2
<1>4. SizeOfTxs(txs) = k[DOMAIN txs]
  BY DEF FoldLeft, MapThenFoldSet, IsSizesFold, SizeOfTxs
<1> HIDE DEF k
<1> QED
  BY <1>3, <1>4, FoldOfByPrefix

ChecksBegin(d) == [ok |-> TRUE, state |-> Begin(d)]
ChecksLoop(d) == [over |-> "proposal", day |-> d]

IsChecksFold(h, txs, d) ==
  h = [t \in SUBSET DOMAIN txs |->
         IF t = {} THEN ChecksBegin(d)
         ELSE LET i == Max(t) IN
           IF h[t \ {i}].ok THEN Execute(h[t \ {i}].state, txs[i], d)
           ELSE h[t \ {i}]]

\* What ProcessProposal does with the microblocks of a block.
LEMMA ChecksByPrefix ==
  ASSUME NEW S, NEW txs \in Seq(S), NEW d
  PROVE  \E r : /\ IsRunOf(r, ChecksLoop(d), ChecksBegin(d), txs)
               /\ AllExecute(txs, d) = r[Len(txs)].ok
<1>1. PICK g : IsFoldOf(g, ChecksLoop(d), ChecksBegin(d), txs)
  BY FoldOfExists
<1>2. ASSUME NEW h
      PROVE  IsFoldOf(h, ChecksLoop(d), ChecksBegin(d), txs)
               <=> IsChecksFold(h, txs, d)
  <2>1. ASSUME NEW t \in SUBSET DOMAIN txs
        PROVE  StepOf(ChecksLoop(d), h[t \ {Max(t)}], txs[Max(t)])
                 = IF h[t \ {Max(t)}].ok THEN Execute(h[t \ {Max(t)}].state, txs[Max(t)], d)
                   ELSE h[t \ {Max(t)}]
    BY DEF StepOf, ChecksLoop
  <2> QED
    BY <2>1 DEF IsFoldOf, IsChecksFold
<1> DEFINE k == CHOOSE h : IsChecksFold(h, txs, d)
<1>3. IsFoldOf(k, ChecksLoop(d), ChecksBegin(d), txs)
  BY <1>1, <1>2
<1>4. AllExecute(txs, d) = k[DOMAIN txs].ok
  BY DEF FoldLeft, MapThenFoldSet, IsChecksFold, AllExecute, ChecksBegin
<1> HIDE DEF k
<1> QED
  BY <1>3, <1>4, FoldOfByPrefix

TriesBegin(d) == [state |-> Begin(d), txs |-> <<>>, rejected |-> {}, open |-> TRUE]
TriesLoop(d) == [over |-> "candidates", day |-> d]

IsTriesFold(h, order, d) ==
  h = [t \in SUBSET DOMAIN order |->
         IF t = {} THEN TriesBegin(d)
         ELSE LET i == Max(t) IN
           TryMicroblock(h[t \ {i}], order[i], d)]

\* What PrepareProposal does with the candidates.
LEMMA TriesByPrefix ==
  ASSUME NEW S, NEW order \in Seq(S), NEW d
  PROVE  \E r : /\ IsRunOf(r, TriesLoop(d), TriesBegin(d), order)
               /\ Try(order, d) = r[Len(order)]
<1>1. PICK g : IsFoldOf(g, TriesLoop(d), TriesBegin(d), order)
  BY FoldOfExists
<1>2. ASSUME NEW h
      PROVE  IsFoldOf(h, TriesLoop(d), TriesBegin(d), order)
               <=> IsTriesFold(h, order, d)
  <2>1. ASSUME NEW t \in SUBSET DOMAIN order
        PROVE  StepOf(TriesLoop(d), h[t \ {Max(t)}], order[Max(t)])
                 = TryMicroblock(h[t \ {Max(t)}], order[Max(t)], d)
    BY DEF StepOf, TriesLoop
  <2> QED
    BY <2>1 DEF IsFoldOf, IsTriesFold
<1> DEFINE k == CHOOSE h : IsTriesFold(h, order, d)
<1>3. IsFoldOf(k, TriesLoop(d), TriesBegin(d), order)
  BY <1>1, <1>2
<1>4. Try(order, d) = k[DOMAIN order]
  BY DEF FoldLeft, MapThenFoldSet, IsTriesFold, Try, TriesBegin
<1> HIDE DEF k
<1> QED
  BY <1>3, <1>4, FoldOfByPrefix

ExecutionsBegin(d) == [state |-> Begin(d), codes |-> <<>>]
ExecutionsLoop(d) == [over |-> "block", day |-> d]

IsExecutionsFold(h, txs, d) ==
  h = [t \in SUBSET DOMAIN txs |->
         IF t = {} THEN ExecutionsBegin(d)
         ELSE LET i == Max(t) IN
           [state |-> Execute(h[t \ {i}].state, txs[i], d).state,
            codes |-> Append(h[t \ {i}].codes, Execute(h[t \ {i}].state, txs[i], d).ok)]]

\* What FinalizeBlock does with the microblocks of a block.
LEMMA ExecutionsByPrefix ==
  ASSUME NEW S, NEW txs \in Seq(S), NEW d
  PROVE  \E r : /\ IsRunOf(r, ExecutionsLoop(d), ExecutionsBegin(d), txs)
               /\ ExecuteBlock(txs, d) = r[Len(txs)]
<1>1. PICK g : IsFoldOf(g, ExecutionsLoop(d), ExecutionsBegin(d), txs)
  BY FoldOfExists
<1>2. ASSUME NEW h
      PROVE  IsFoldOf(h, ExecutionsLoop(d), ExecutionsBegin(d), txs)
               <=> IsExecutionsFold(h, txs, d)
  <2>1. ASSUME NEW t \in SUBSET DOMAIN txs
        PROVE  StepOf(ExecutionsLoop(d), h[t \ {Max(t)}], txs[Max(t)])
                 = [state |-> Execute(h[t \ {Max(t)}].state, txs[Max(t)], d).state,
                    codes |-> Append(h[t \ {Max(t)}].codes, Execute(h[t \ {Max(t)}].state, txs[Max(t)], d).ok)]
    BY DEF StepOf, ExecutionsLoop
  <2> QED
    BY <2>1 DEF IsFoldOf, IsExecutionsFold
<1> DEFINE k == CHOOSE h : IsExecutionsFold(h, txs, d)
<1>3. IsFoldOf(k, ExecutionsLoop(d), ExecutionsBegin(d), txs)
  BY <1>1, <1>2
<1>4. ExecuteBlock(txs, d) = k[DOMAIN txs]
  BY DEF FoldLeft, MapThenFoldSet, IsExecutionsFold, ExecuteBlock, ExecutionsBegin
<1> HIDE DEF k
<1> QED
  BY <1>3, <1>4, FoldOfByPrefix

\* The checks before the sections, and the fees after them.
Paid(result, L, mb) ==
  IF ~Admissible(L, mb) THEN Throw(L)
  ELSE IF result.ok THEN PayFees(result.ledger, mb) ELSE result

SectionsLoop(mb, d) == [over |-> "sections", body |-> mb, day |-> d]

IsSectionsFold(h, L, mb, d) ==
  h = [t \in SUBSET DOMAIN mb.sections |->
         IF t = {} THEN Done(L)
         ELSE LET i == Max(t) IN
           IF h[t \ {i}].ok THEN ExecSection(h[t \ {i}].ledger, mb, mb.sections[i], d)
           ELSE h[t \ {i}]]

\* What the node does with the sections of a microblock.
LEMMA SectionsByPrefix ==
  ASSUME NEW L, NEW mb, NEW S, mb.sections \in Seq(S), NEW d
  PROVE  \E r : /\ IsRunOf(r, SectionsLoop(mb, d), Done(L), mb.sections)
               /\ ExecMicroblock(L, mb, d) = Paid(r[Len(mb.sections)], L, mb)
<1>1. PICK g : IsFoldOf(g, SectionsLoop(mb, d), Done(L), mb.sections)
  BY FoldOfExists
<1>2. ASSUME NEW h
      PROVE  IsFoldOf(h, SectionsLoop(mb, d), Done(L), mb.sections)
               <=> IsSectionsFold(h, L, mb, d)
  <2>1. ASSUME NEW t \in SUBSET DOMAIN mb.sections
        PROVE  StepOf(SectionsLoop(mb, d), h[t \ {Max(t)}], mb.sections[Max(t)])
                 = IF h[t \ {Max(t)}].ok THEN ExecSection(h[t \ {Max(t)}].ledger, mb, mb.sections[Max(t)], d)
                   ELSE h[t \ {Max(t)}]
    BY DEF StepOf, SectionsLoop
  <2> QED
    BY <2>1 DEF IsFoldOf, IsSectionsFold
<1> DEFINE k == CHOOSE h : IsSectionsFold(h, L, mb, d)
<1>3. IsFoldOf(k, SectionsLoop(mb, d), Done(L), mb.sections)
  BY <1>1, <1>2
<1>4. ExecMicroblock(L, mb, d) = Paid(k[DOMAIN mb.sections], L, mb)
  BY DEF FoldLeft, MapThenFoldSet, IsSectionsFold, ExecMicroblock, Paid
<1> HIDE DEF k
<1> QED
  BY <1>3, <1>4, FoldOfByPrefix

EscrowsOf(L) == SetToSeq(GetKeys(L.escrows, L.cache))

\* The rest of the daily updates.
AfterEscrows(result, d) ==
  IF result.ok THEN Done(ApplySlashing(ApplyUnlocks(result.ledger, d), d)) ELSE result

UpdatesLoop(d) == [over |-> "escrows", day |-> d]

IsUpdatesFold(h, L, d) ==
  h = [t \in SUBSET DOMAIN EscrowsOf(L) |->
         IF t = {} THEN Done(UpdateVestingLocks(L, d))
         ELSE LET i == Max(t) IN
           IF h[t \ {i}].ok THEN UpdateExpiredEscrow(h[t \ {i}].ledger, EscrowsOf(L)[i], d)
           ELSE h[t \ {i}]]

\* What a new day does with the escrows.
LEMMA UpdatesByPrefix ==
  ASSUME NEW L, NEW S, EscrowsOf(L) \in Seq(S), NEW d
  PROVE  \E r : /\ IsRunOf(r, UpdatesLoop(d), Done(UpdateVestingLocks(L, d)), EscrowsOf(L))
               /\ DailyUpdates(L, d) = AfterEscrows(r[Len(EscrowsOf(L))], d)
<1>1. PICK g : IsFoldOf(g, UpdatesLoop(d), Done(UpdateVestingLocks(L, d)), EscrowsOf(L))
  BY FoldOfExists
<1>2. ASSUME NEW h
      PROVE  IsFoldOf(h, UpdatesLoop(d), Done(UpdateVestingLocks(L, d)), EscrowsOf(L))
               <=> IsUpdatesFold(h, L, d)
  <2>1. ASSUME NEW t \in SUBSET DOMAIN EscrowsOf(L)
        PROVE  StepOf(UpdatesLoop(d), h[t \ {Max(t)}], EscrowsOf(L)[Max(t)])
                 = IF h[t \ {Max(t)}].ok THEN UpdateExpiredEscrow(h[t \ {Max(t)}].ledger, EscrowsOf(L)[Max(t)], d)
                   ELSE h[t \ {Max(t)}]
    BY DEF StepOf, UpdatesLoop
  <2> QED
    BY <2>1 DEF IsFoldOf, IsUpdatesFold
<1> DEFINE k == CHOOSE h : IsUpdatesFold(h, L, d)
<1>3. IsFoldOf(k, UpdatesLoop(d), Done(UpdateVestingLocks(L, d)), EscrowsOf(L))
  BY <1>1, <1>2
<1>4. DailyUpdates(L, d) = AfterEscrows(k[DOMAIN EscrowsOf(L)], d)
  BY DEF FoldLeft, MapThenFoldSet, IsUpdatesFold, DailyUpdates, AfterEscrows, EscrowsOf
<1> HIDE DEF k
<1> QED
  BY <1>3, <1>4, FoldOfByPrefix

PaymentsLoop == [over |-> "shares"]

IsPaymentsFold(h, L, voters, height) ==
  h = [t \in SUBSET DOMAIN SharesOf(L, voters, height) |->
         IF t = {} THEN Done(L)
         ELSE LET i == Max(t) IN
           IF h[t \ {i}].ok THEN PayShare(h[t \ {i}].ledger, SharesOf(L, voters, height)[i])
           ELSE h[t \ {i}]]

\* What the node does with the shares of the validators.
LEMMA PaymentsByPrefix ==
  ASSUME NEW L, NEW voters, NEW height, NEW S,
         SharesOf(L, voters, height) \in Seq(S)
  PROVE  \E r : /\ IsRunOf(r, PaymentsLoop, Done(L), SharesOf(L, voters, height))
               /\ DispatchFees(L, voters, height) = r[Len(SharesOf(L, voters, height))]
<1>1. PICK g : IsFoldOf(g, PaymentsLoop, Done(L), SharesOf(L, voters, height))
  BY FoldOfExists
<1>2. ASSUME NEW h
      PROVE  IsFoldOf(h, PaymentsLoop, Done(L), SharesOf(L, voters, height))
               <=> IsPaymentsFold(h, L, voters, height)
  <2>1. ASSUME NEW t \in SUBSET DOMAIN SharesOf(L, voters, height)
        PROVE  StepOf(PaymentsLoop, h[t \ {Max(t)}], SharesOf(L, voters, height)[Max(t)])
                 = IF h[t \ {Max(t)}].ok THEN PayShare(h[t \ {Max(t)}].ledger, SharesOf(L, voters, height)[Max(t)])
                   ELSE h[t \ {Max(t)}]
    BY DEF StepOf, PaymentsLoop
  <2> QED
    BY <2>1 DEF IsFoldOf, IsPaymentsFold
<1> DEFINE k == CHOOSE h : IsPaymentsFold(h, L, voters, height)
<1>3. IsFoldOf(k, PaymentsLoop, Done(L), SharesOf(L, voters, height))
  BY <1>1, <1>2
<1>4. DispatchFees(L, voters, height) = k[DOMAIN SharesOf(L, voters, height)]
  BY DEF FoldLeft, MapThenFoldSet, IsPaymentsFold, DispatchFees
<1> HIDE DEF k
<1> QED
  BY <1>3, <1>4, FoldOfByPrefix

------------------------------------------------------------------------------
(* Loops over the microblocks of a block *)

\* ProcessProposal executes all of the microblocks from state S on: r holds the result of
\* each, the last of which is result.
RunsTo(S, txs, d, r, result) ==
  /\ IsRunOf(r, ChecksLoop(d), [ok |-> TRUE, state |-> S], txs)
  /\ r[Len(txs)] = result

Passes(S, txs, d) == \E r, result : RunsTo(S, txs, d, r, result) /\ result.ok

LEMMA ChecksStep ==
  ASSUME NEW acc, NEW m, NEW d
  PROVE  StepOf(ChecksLoop(d), acc, m) = IF acc.ok THEN Execute(acc.state, m, d) ELSE acc
  BY DEF StepOf, ChecksLoop

LEMMA AllExecuteIsPasses ==
  ASSUME NEW S, NEW txs \in Seq(S), NEW d
  PROVE  AllExecute(txs, d) <=> Passes(Begin(d), txs, d)
<1>1. PICK r : /\ IsRunOf(r, ChecksLoop(d), ChecksBegin(d), txs)
               /\ AllExecute(txs, d) = r[Len(txs)].ok
  BY ChecksByPrefix
<1>2. RunsTo(Begin(d), txs, d, r, r[Len(txs)])
  BY <1>1 DEF RunsTo, ChecksBegin
<1>3. ASSUME NEW p, NEW result, RunsTo(Begin(d), txs, d, p, result)
      PROVE  result = r[Len(txs)]
  <2>1. IsRunOf(p, ChecksLoop(d), ChecksBegin(d), txs) /\ p[Len(txs)] = result
    BY <1>3 DEF RunsTo, ChecksBegin
  <2>2. PICK n \in Nat : n = Len(txs)
    OBVIOUS
  <2>3. \A i \in 1..n : i \in 1..Len(txs) /\ i \in 1..Len(txs) /\ txs[i] = txs[i]
    BY <2>2
  <2>4. p[n] = r[n]
    BY <1>1, <2>1, <2>3, RunsAgree
  <2> QED
    BY <2>1, <2>2, <2>4
<1> QED
  BY <1>1, <1>2, <1>3 DEF Passes

\* None of the microblocks fails, so that each is executed in the state that the one
\* before it has left.
Succeeds(p, txs, d) ==
  \A i \in 1..Len(txs) : p[i] = Execute(p[i - 1].state, txs[i], d) /\ p[i].ok

LEMMA PassingRunSucceeds ==
  ASSUME NEW S, NEW T, NEW txs \in Seq(T), NEW d, NEW p, NEW result,
         RunsTo(S, txs, d, p, result), result.ok
  PROVE  /\ p[0] = [ok |-> TRUE, state |-> S]
         /\ Succeeds(p, txs, d)
<1> DEFINE n == Len(txs)
           N == {j \in Nat : j <= n => p[n - j].ok}
<1>0. /\ n \in Nat
      /\ p[0] = [ok |-> TRUE, state |-> S]
      /\ p[n] = result
      /\ \A i \in 1..n : p[i] = StepOf(ChecksLoop(d), p[i - 1], txs[i])
  BY DEF RunsTo, IsRunOf
<1> HIDE DEF n
<1>1. 0 \in N
  <2>1. n - 0 = n
    BY <1>0
  <2> QED
    BY <1>0, <2>1
<1>2. ASSUME NEW j \in Nat, j \in N PROVE j + 1 \in N
  <2> SUFFICES ASSUME j + 1 <= n PROVE p[n - (j + 1)].ok
    OBVIOUS
  <2>1. PICK i \in 1..n : i = n - j /\ i - 1 = n - (j + 1)
    BY <1>0
  <2>2. p[i].ok
    BY <1>0, <1>2, <2>1
  <2>3. p[i] = IF p[i - 1].ok THEN Execute(p[i - 1].state, txs[i], d) ELSE p[i - 1]
    BY <1>0, ChecksStep
  <2> HIDE DEF N
  <2>4. p[i - 1].ok
    BY <2>2, <2>3
  <2> QED
    BY <2>1, <2>4
<1>3. Nat \subseteq N
  <2> HIDE DEF N
  <2> QED
    BY <1>1, <1>2, InductionOnNumbers
<1>4. ASSUME NEW i \in 0..n PROVE p[i].ok
  <2>1. n - i \in Nat /\ n - i <= n /\ n - (n - i) = i
    BY <1>0
  <2>2. n - i \in N
    BY <1>3, <2>1
  <2> QED
    BY <2>1, <2>2
<1>5. ASSUME NEW i \in 1..n
      PROVE  p[i] = Execute(p[i - 1].state, txs[i], d) /\ p[i].ok
  <2>1. i \in 0..n /\ i - 1 \in 0..n
    BY <1>0
  <2>2. p[i].ok /\ p[i - 1].ok
    BY <1>4, <2>1
  <2>3. p[i] = IF p[i - 1].ok THEN Execute(p[i - 1].state, txs[i], d) ELSE p[i - 1]
    BY <1>0, ChecksStep
  <2> HIDE DEF N
  <2> QED
    BY <2>2, <2>3
<1> QED
  BY <1>0, <1>5 DEF Succeeds, n

\* FinalizeBlock does the same as ProcessProposal.
AllTrue(c) == \A i \in DOMAIN c : c[i]

LEMMA ExecutionsFollowChecks ==
  ASSUME NEW T, NEW txs \in Seq(T), NEW d, NEW p, NEW q,
         p[0] = [ok |-> TRUE, state |-> Begin(d)], Succeeds(p, txs, d),
         IsRunOf(q, ExecutionsLoop(d), ExecutionsBegin(d), txs)
  PROVE  q[Len(txs)].state = p[Len(txs)].state /\ AllTrue(q[Len(txs)].codes)
<1> DEFINE n == Len(txs)
           Codes == {p[i].ok : i \in 1..n}
           N == {i \in Nat : i <= n => q[i].state = p[i].state /\ q[i].codes \in Seq(Codes)}
<1>0. /\ n \in Nat
      /\ q[0] = [state |-> Begin(d), codes |-> <<>>]
      /\ \A i \in 1..n : q[i] = StepOf(ExecutionsLoop(d), q[i - 1], txs[i])
      /\ \A i \in 1..n : p[i] = Execute(p[i - 1].state, txs[i], d) /\ p[i].ok
  BY DEF IsRunOf, ExecutionsBegin, Succeeds
<1> HIDE DEF n
<1>1. 0 \in N
  <2>1. q[0].state = p[0].state /\ q[0].codes = <<>>
    BY <1>0
  <2>2. <<>> \in Seq(Codes)
    OBVIOUS
  <2> QED
    BY <2>1, <2>2
<1>2. ASSUME NEW i \in Nat, i \in N PROVE i + 1 \in N
  <2> SUFFICES ASSUME i + 1 <= n
               PROVE  /\ q[i + 1].state = p[i + 1].state
                      /\ q[i + 1].codes \in Seq(Codes)
    OBVIOUS
  <2>1. PICK k \in 1..n : k = i + 1 /\ k - 1 = i
    BY <1>0
  <2>2. q[i].state = p[i].state /\ q[i].codes \in Seq(Codes)
    BY <1>0, <1>2
  <2>3. p[k].ok \in Codes
    OBVIOUS
  <2> HIDE DEF N, Codes
  <2>4. q[k] = [state |-> Execute(q[i].state, txs[k], d).state,
                codes |-> Append(q[i].codes, Execute(q[i].state, txs[k], d).ok)]
    BY <1>0, <2>1 DEF StepOf, ExecutionsLoop
  <2>5. p[k] = Execute(q[i].state, txs[k], d)
    BY <1>0, <2>1, <2>2
  <2>6. q[k].state = p[k].state /\ q[k].codes = Append(q[i].codes, p[k].ok)
    BY <2>4, <2>5
  <2> QED
    BY <2>1, <2>2, <2>3, <2>6
<1>3. Nat \subseteq N
  <2> HIDE DEF N
  <2> QED
    BY <1>1, <1>2, InductionOnNumbers
<1>4. q[n].state = p[n].state /\ q[n].codes \in Seq(Codes)
  <2>1. n \in N
    <3> HIDE DEF N
    <3> QED
      BY <1>0, <1>3
  <2>2. n <= n
    BY <1>0
  <2> QED
    BY <2>1, <2>2
<1>5. \A c \in Codes : c
  BY <1>0
<1> QED
  BY <1>4, <1>5 DEF AllTrue, n

------------------------------------------------------------------------------
(* Ledgers *)

\* A sound ledger in which no node is to be slashed.
SafeLedger(L, d) == Secure(L, d) /\ Good(L, {})

\* The result r of a loop over L: the total is what it was if r.ok is one of codes kept.
SafeResult(L, r, d, kept) ==
  /\ r.ok \in BOOLEAN
  /\ SafeLedger(r.ledger, d)
  /\ r.ok \in kept => TotalBalance(r.ledger) = TotalBalance(L)

LEMMA SafeDone ==
  ASSUME NEW L, NEW d, SafeLedger(L, d), NEW kept
  PROVE  SafeResult(L, Done(L), d, kept) /\ SafeResult(L, Throw(L), d, kept)
<1>1. /\ Done(L).ok = TRUE /\ Done(L).ledger = L
      /\ Throw(L).ok = FALSE /\ Throw(L).ledger = L
  BY DEF Done, Throw
<1> QED
  BY <1>1 DEF SafeResult

LEMMA SafeStep ==
  ASSUME NEW L, NEW d, NEW a, SafeResult(L, a, d, {TRUE}), a.ok = TRUE,
         NEW r, Outcome(a.ledger, r, d), Good(r.ledger, {})
  PROVE  SafeResult(L, r, d, {TRUE})
  BY DEF SafeResult, SafeLedger, Outcome

\* The loop over the sections.
LEMMA SafeSection ==
  ASSUME NEW L, NEW d \in Int, NEW mb \in MicroblockBodies, NEW s \in Sections,
         NEW a, SafeResult(L, a, d, {TRUE})
  PROVE  SafeResult(L, StepOf(SectionsLoop(mb, d), a, s), d, {TRUE})
<1> DEFINE r == ExecSection(a.ledger, mb, s, d)
<1>1. StepOf(SectionsLoop(mb, d), a, s) = IF a.ok THEN r ELSE a
  BY DEF StepOf, SectionsLoop
<1>2. CASE a.ok = TRUE
  <2>1. Secure(a.ledger, d) /\ Good(a.ledger, {})
    BY DEF SafeResult, SafeLedger
  <2>2. Outcome(a.ledger, r, d)
    BY <2>1, SectionEffect
  <2>3. Good(r.ledger, {})
    BY <2>1, SectionKeepsGood
  <2> HIDE DEF r
  <2> QED
    BY <1>1, <1>2, <2>2, <2>3, SafeStep
<1>3. CASE a.ok = FALSE
  BY <1>1, <1>3
<1> QED
  BY <1>2, <1>3 DEF SafeResult

\* A loop that begins with a safe result and keeps it safe at every step.
LEMMA SafeRun ==
  ASSUME NEW L, NEW d, NEW kept, NEW loop, NEW base, NEW T, NEW s \in Seq(T),
         NEW r, IsRunOf(r, loop, base, s),
         SafeResult(L, base, d, kept),
         \A a, x : x \in T /\ SafeResult(L, a, d, kept) => SafeResult(L, StepOf(loop, a, x), d, kept)
  PROVE  SafeResult(L, r[Len(s)], d, kept)
<1> DEFINE n == Len(s)
           N == {i \in Nat : i <= n => SafeResult(L, r[i], d, kept)}
<1>0. /\ n \in Nat
      /\ r[0] = base
      /\ \A i \in 1..n : r[i] = StepOf(loop, r[i - 1], s[i]) /\ s[i] \in T
  BY DEF IsRunOf
<1> HIDE DEF n
<1>1. 0 \in N
  BY <1>0
<1>2. ASSUME NEW i \in Nat, i \in N PROVE i + 1 \in N
  <2> SUFFICES ASSUME i + 1 <= n PROVE SafeResult(L, r[i + 1], d, kept)
    OBVIOUS
  <2>1. PICK k \in 1..n : k = i + 1 /\ k - 1 = i
    BY <1>0
  <2>2. SafeResult(L, r[i], d, kept)
    BY <1>0, <1>2
  <2> HIDE DEF N
  <2>3. r[k] = StepOf(loop, r[i], s[k]) /\ s[k] \in T
    BY <1>0, <2>1
  <2> QED
    BY <2>1, <2>2, <2>3
<1>3. Nat \subseteq N
  <2> HIDE DEF N
  <2> QED
    BY <1>1, <1>2, InductionOnNumbers
<1>4. n \in N
  <2> HIDE DEF N
  <2> QED
    BY <1>0, <1>3
<1> QED
  BY <1>0, <1>4 DEF n

\* A microblock that does not fail neither creates nor loses a token.
LEMMA SafeMicroblock ==
  ASSUME NEW L, NEW d \in Int, SafeLedger(L, d), NEW mb \in MicroblockBodies,
         NEW r, r = ExecMicroblock(L, mb, d), r.ok
  PROVE  SafeLedger(r.ledger, d) /\ TotalBalance(r.ledger) = TotalBalance(L)
<1>1. mb.sections \in Seq(Sections)
  BY MicroblockParts
<1>2. PICK q : /\ IsRunOf(q, SectionsLoop(mb, d), Done(L), mb.sections)
               /\ ExecMicroblock(L, mb, d) = Paid(q[Len(mb.sections)], L, mb)
  BY <1>1, SectionsByPrefix
<1>3. PICK a : a = q[Len(mb.sections)]
  OBVIOUS
<1>4. SafeResult(L, a, d, {TRUE})
  <2>1. \A b, x : x \in Sections /\ SafeResult(L, b, d, {TRUE})
                    => SafeResult(L, StepOf(SectionsLoop(mb, d), b, x), d, {TRUE})
    BY SafeSection
  <2>2. SafeResult(L, Done(L), d, {TRUE})
    BY SafeDone
  <2> QED
    BY <1>1, <1>2, <1>3, <2>1, <2>2, SafeRun
<1>5. r = Paid(a, L, mb)
  BY <1>2, <1>3
<1>6. a.ok = TRUE /\ r = PayFees(a.ledger, mb)
  <2>1. CASE ~Admissible(L, mb)
    BY <1>5, <2>1 DEF Paid, Throw
  <2>2. CASE Admissible(L, mb)
    BY <1>4, <1>5, <2>2 DEF Paid, SafeResult
  <2> QED
    BY <2>1, <2>2
<1>7. Outcome(a.ledger, r, d) /\ Good(r.ledger, {})
  <2>1. Secure(a.ledger, d) /\ Good(a.ledger, {})
    BY <1>4 DEF SafeResult, SafeLedger
  <2>2. Outcome(a.ledger, r, d)
    BY <1>6, <2>1, FeesEffect
  <2> QED
    BY <1>6, <2>1, <2>2, PayFeesKeepsGood
<1>8. SafeResult(L, r, d, {TRUE})
  BY <1>4, <1>6, <1>7, SafeStep
<1> QED
  BY <1>8 DEF SafeResult

\* The daily update of one escrow loses nothing even if it throws.
LEMMA SafeEscrowUpdate ==
  ASSUME NEW L, NEW d \in Int, NEW id \in EscrowIds, NEW a, SafeResult(L, a, d, BOOLEAN)
  PROVE  SafeResult(L, StepOf(UpdatesLoop(d), a, id), d, BOOLEAN)
<1> DEFINE r == UpdateExpiredEscrow(a.ledger, id, d)
           row == GetEscrow(a.ledger, id)
<1>1. StepOf(UpdatesLoop(d), a, id) = IF a.ok THEN r ELSE a
  BY DEF StepOf, UpdatesLoop
<1>2. /\ Secure(a.ledger, d) /\ Good(a.ledger, {}) /\ Good(r.ledger, {})
      /\ TotalBalance(a.ledger) = TotalBalance(L)
  BY ExpiryKeepsGood DEF SafeResult, SafeLedger
<1>3. CASE row = Missing \/ LockOf(a.ledger, row, id) = Missing
  <2>1. r = Throw(a.ledger)
    BY <1>3 DEF UpdateExpiredEscrow
  <2>2. r.ok = FALSE /\ r.ledger = a.ledger
    BY <2>1, Results
  <2> HIDE DEF r, row
  <2> QED
    BY <1>1, <1>2, <2>2 DEF SafeResult, SafeLedger
<1>4. CASE row # Missing /\ LockOf(a.ledger, row, id) # Missing
  <2>1. Rows(a.ledger)[id] # Missing
    BY <1>2, <1>4, RowOfLock
  <2>2. /\ r.ok = TRUE
        /\ \/ RowGone(a.ledger, r.ledger, id, d)
           \/ r.ledger = a.ledger
    BY <1>2, <2>1, ExpiryEffect
  <2> HIDE DEF r, row
  <2>3. Secure(r.ledger, d) /\ TotalBalance(r.ledger) = TotalBalance(a.ledger)
    BY <1>2, <2>2 DEF RowGone
  <2> QED
    BY <1>1, <1>2, <2>2, <2>3 DEF SafeResult, SafeLedger
<1> QED
  BY <1>3, <1>4

\* Nothing is slashed where no node has been warned.
LEMMA NothingSlashed ==
  ASSUME NEW L, NEW d, SafeLedger(L, d)
  PROVE  Slashed(L, d) = 0
<1>1. ASSUME NEW x \in Accounts
      PROVE  SlashedAmount(L.accounts[x], d) = 0
  <2> DEFINE f == [n \in Nodes |-> IF IsSlashed(L.accounts[x].stake[n], d)
                                   THEN L.accounts[x].stake[n].amount ELSE 0]
  <2>1. \A n \in Nodes : f[n] = 0
    BY <1>1 DEF SafeLedger, Good, HasWarnings, IsSlashed
  <2>2. DOMAIN f = Nodes
    OBVIOUS
  <2> HIDE DEF f
  <2>3. Summable(f, Nodes)
    BY <2>1, LedgerAssumption DEF Summable
  <2>4. SumFunctionOnSet(f, Nodes) = SumFunctionOnSet(f, {})
    <3>1. {} \in SUBSET Nodes /\ \A n \in Nodes \ {} : f[n] = 0
      BY <2>1
    <3> QED
      BY <2>3, <3>1, SumWithoutZeros
  <2>5. SumFunctionOnSet(f, Nodes) = 0
    BY <2>4, SumOfNothing
  <2> QED
    BY <2>2, <2>5 DEF SlashedAmount, SumFunction, f
<1> DEFINE g == [x \in L.stakingRows |-> SlashedAmount(L.accounts[x], d)]
<1>2. L.stakingRows \subseteq Accounts /\ IsFiniteSet(L.stakingRows)
  <2>1. L.stakingRows \in SUBSET Accounts
    BY SecureTotal, LedgerFields DEF SafeLedger, IndexTables
  <2> QED
    BY <2>1, LedgerAssumption, FS_Subset DEF Accounts
<1>3. DOMAIN g = L.stakingRows /\ \A x \in L.stakingRows : g[x] = 0
  BY <1>1, <1>2
<1> HIDE DEF g
<1>4. SumFunctionOnSet(g, L.stakingRows) = 0
  <2>1. Summable(g, L.stakingRows)
    BY <1>2, <1>3 DEF Summable
  <2>2. {} \in SUBSET L.stakingRows /\ \A x \in L.stakingRows \ {} : g[x] = 0
    BY <1>3
  <2>3. SumFunctionOnSet(g, L.stakingRows) = SumFunctionOnSet(g, {})
    BY <2>1, <2>2, SumWithoutZeros
  <2> QED
    BY <2>3, SumOfNothing
<1> QED
  BY <1>3, <1>4 DEF Slashed, SumFunction, g

LEMMA SafeMoves ==
  ASSUME NEW L, NEW d, SafeLedger(L, d), NEW M, Moves(L, M, d, 0), Good(M, {})
  PROVE  SafeLedger(M, d) /\ TotalBalance(M) = TotalBalance(L)
<1>1. Secure(M, d) /\ TotalBalance(M) = TotalBalance(L) + 0 /\ TotalBalance(L) \in Nat
  BY MovesSecure, SecureTotal DEF SafeLedger
<1> QED
  BY <1>1 DEF SafeLedger

\* The daily updates, whether or not one of them throws.
LEMMA SafeDay ==
  ASSUME NEW L, NEW d \in 0..MaxDay, SafeLedger(L, d), NEW r, r = DailyUpdates(L, d)
  PROVE  SafeLedger(r.ledger, d) /\ TotalBalance(r.ledger) = TotalBalance(L)
<1>0. d \in Int /\ Secure(L, d) /\ Good(L, {}) /\ L \in Ledgers
  BY SecureTotal DEF SafeLedger
<1>1. PICK U : U = UpdateVestingLocks(L, d)
  OBVIOUS
<1>2. SafeLedger(U, d) /\ TotalBalance(U) = TotalBalance(L)
  <2>1. Moves(L, U, d, 0)
    BY <1>0, <1>1, VestingMoves
  <2>2. Good(U, {})
    BY <1>0, <1>1, VestingLocksKeepGood
  <2> QED
    BY <2>1, <2>2, SafeMoves
<1>3. EscrowsOf(L) \in Seq(EscrowIds)
  <2>1. GetKeys(L.escrows, L.cache) \subseteq EscrowIds
    BY <1>0, KeysHaveRows
  <2>2. PICK K : K = GetKeys(L.escrows, L.cache)
    OBVIOUS
  <2>3. IsFiniteSet(K)
    BY <2>1, <2>2, LedgerAssumption, FS_Subset
  <2>4. SetToSeq(K) \in Seq(K)
    BY <2>3, ElementsInSequence
  <2> QED
    BY <2>1, <2>2, <2>4 DEF EscrowsOf
<1>4. PICK q : /\ IsRunOf(q, UpdatesLoop(d), Done(U), EscrowsOf(L))
               /\ r = AfterEscrows(q[Len(EscrowsOf(L))], d)
  BY <1>1, <1>3, UpdatesByPrefix
<1>5. PICK a : a = q[Len(EscrowsOf(L))]
  OBVIOUS
<1>6. SafeResult(U, a, d, BOOLEAN)
  <2>1. \A b, x : x \in EscrowIds /\ SafeResult(U, b, d, BOOLEAN)
                    => SafeResult(U, StepOf(UpdatesLoop(d), b, x), d, BOOLEAN)
    BY <1>0, SafeEscrowUpdate
  <2>2. SafeResult(U, Done(U), d, BOOLEAN)
    BY <1>2, SafeDone
  <2> QED
    BY <1>3, <1>4, <1>5, <2>1, <2>2, SafeRun
<1>7. SafeLedger(a.ledger, d) /\ TotalBalance(a.ledger) = TotalBalance(U)
  BY <1>6 DEF SafeResult
<1>8. PICK V, W : V = ApplyUnlocks(a.ledger, d) /\ W = ApplySlashing(V, d)
  OBVIOUS
<1>9. SafeLedger(V, d) /\ TotalBalance(V) = TotalBalance(a.ledger)
  <2>1. Secure(a.ledger, d) /\ Good(a.ledger, {})
    BY <1>7 DEF SafeLedger
  <2>2. Moves(a.ledger, V, d, 0)
    BY <1>8, <2>1, UnlocksMoves
  <2>3. Good(V, {})
    BY <1>8, <2>1, UnlocksKeepGood
  <2> QED
    BY <1>7, <2>2, <2>3, SafeMoves
<1>10. SafeLedger(W, d) /\ TotalBalance(W) = TotalBalance(V)
  <2>1. Secure(V, d) /\ Good(V, {})
    BY <1>9 DEF SafeLedger
  <2>2. Moves(V, W, d, 0)
    <3>1. Moves(V, W, d, -Slashed(V, d))
      BY <1>8, <2>1, SlashingMoves
    <3>2. Slashed(V, d) = 0
      BY <1>9, NothingSlashed
    <3> QED
      BY <3>1, <3>2
  <2>3. Good(W, {})
    BY <1>8, <2>1, SlashingKeepsGood
  <2> QED
    BY <1>9, <2>2, <2>3, SafeMoves
<1>11. r \in {a, Done(W)}
  BY <1>4, <1>5, <1>8 DEF AfterEscrows
<1>12. r.ledger \in {a.ledger, W}
  BY <1>11, Results
<1> QED
  BY <1>2, <1>7, <1>9, <1>10, <1>12

\* The beginning of a block.
LEMMA SafeBegin ==
  ASSUME NEW L, NEW c \in 0..MaxDay, NEW d \in 0..MaxDay, c <= d, SafeLedger(L, c),
         NEW M, M = UpdateOnBlock(L, c, d)
  PROVE  SafeLedger(M, d) /\ TotalBalance(M) = TotalBalance(L)
<1>1. SafeLedger(L, d)
  <2>1. c \in Int /\ d \in Int
    BY LedgerAssumption
  <2> QED
    BY <2>1, SecureLater DEF SafeLedger
<1>2. M \in {L, DailyUpdates(L, d).ledger}
  BY DEF UpdateOnBlock
<1> QED
  BY <1>1, <1>2, SafeDay

------------------------------------------------------------------------------
(* Fees *)

LEMMA SafePayment ==
  ASSUME NEW L, NEW d \in Int, NEW share \in Shares, NEW a, SafeResult(L, a, d, {TRUE})
  PROVE  SafeResult(L, StepOf(PaymentsLoop, a, share), d, {TRUE})
<1> DEFINE r == PayShare(a.ledger, share)
<1>1. StepOf(PaymentsLoop, a, share) = IF a.ok THEN r ELSE a
  BY DEF StepOf, PaymentsLoop
<1>2. CASE a.ok = TRUE
  <2>1. Secure(a.ledger, d) /\ Good(a.ledger, {})
    BY DEF SafeResult, SafeLedger
  <2>2. Outcome(a.ledger, r, d) /\ Good(r.ledger, {})
    BY <2>1, ShareEffect, PayFeesKeepsGood
  <2> HIDE DEF r
  <2> QED
    BY <1>1, <1>2, <2>2, SafeStep
<1>3. CASE a.ok = FALSE
  BY <1>1, <1>3
<1> QED
  BY <1>2, <1>3 DEF SafeResult

\* The fees of a block go to the validators, from one account to others.
LEMMA SafeDispatch ==
  ASSUME NEW L, NEW d \in Int, SafeLedger(L, d), NEW voters \in Seq(Nodes), NEW h \in Nat,
         NEW r, r = DispatchFees(L, voters, h)
  PROVE  SafeResult(L, r, d, {TRUE})
<1>1. PICK s : s = SharesOf(L, voters, h)
  OBVIOUS
<1>2. s \in Seq(Shares)
  BY <1>1, SharesEffect DEF SafeLedger
<1>3. PICK q : IsRunOf(q, PaymentsLoop, Done(L), s) /\ r = q[Len(s)]
  BY <1>1, <1>2, PaymentsByPrefix
<1>4. \A b, x : x \in Shares /\ SafeResult(L, b, d, {TRUE})
                  => SafeResult(L, StepOf(PaymentsLoop, b, x), d, {TRUE})
  BY SafePayment
<1>5. SafeResult(L, Done(L), d, {TRUE})
  BY SafeDone
<1> QED
  BY <1>2, <1>3, <1>4, <1>5, SafeRun

------------------------------------------------------------------------------
(* Virtual blockchains *)

States == [ledger : Ledgers, vb : [VirtualBlockchains -> Nat]]

\* A state between two microblocks of a block of day d.
SafeState(S, d) ==
  /\ S \in States
  /\ SafeLedger(S.ledger, d)
  /\ TotalBalance(S.ledger) = TotalBalance(GenesisLedger)

\* How many of the first n microblocks of log extend v.
OnVb(log, v, n) == Cardinality({j \in 1..n : VbOf[log[j]] = v})

\* The first k microblocks of log extend each virtual blockchain one microblock after the
\* other, up to the heights vb.
CountedTo(log, vb, k) ==
  /\ \A i \in 1..k : PositionOf[log[i]] = OnVb(log, VbOf[log[i]], i)
  /\ \A v \in VirtualBlockchains : vb[v] = OnVb(log, v, k)

LEMMA OnVbStep ==
  ASSUME NEW log, NEW v, NEW k \in Nat
  PROVE  /\ OnVb(log, v, 0) = 0
         /\ OnVb(log, v, k) \in Nat
         /\ OnVb(log, v, k + 1) = OnVb(log, v, k) + IF VbOf[log[k + 1]] = v THEN 1 ELSE 0
<1> DEFINE P(n) == {j \in 1..n : VbOf[log[j]] = v}
<1>1. OnVb(log, v, 0) = 0
  <2>1. P(0) = {}
    OBVIOUS
  <2> QED
    BY <2>1, FS_EmptySet DEF OnVb
<1>2. IsFiniteSet(P(k)) /\ Cardinality(P(k)) \in Nat
  <2>1. IsFiniteSet(1..k)
    BY FS_Interval
  <2>2. P(k) \subseteq 1..k
    OBVIOUS
  <2> QED
    BY <2>1, <2>2, FS_Subset, FS_CardinalityType
<1>3. CASE VbOf[log[k + 1]] = v
  <2>1. P(k + 1) = P(k) \cup {k + 1} /\ k + 1 \notin P(k)
    BY <1>3
  <2>2. Cardinality(P(k + 1)) = Cardinality(P(k)) + 1
    BY <1>2, <2>1, FS_AddElement
  <2> QED
    BY <1>1, <1>2, <1>3, <2>2 DEF OnVb
<1>4. CASE VbOf[log[k + 1]] # v
  <2>1. P(k + 1) = P(k)
    BY <1>4
  <2> HIDE DEF P
  <2>2. Cardinality(P(k + 1)) = Cardinality(P(k)) + 0
    BY <1>2, <2>1
  <2> QED
    BY <1>1, <1>2, <1>4, <2>2 DEF OnVb, P
<1> QED
  BY <1>3, <1>4

\* Microblock m extends its virtual blockchain from the heights vb to the heights w.
ExtendedBy(vb, w, m) ==
  /\ vb[VbOf[m]] = PositionOf[m] - 1
  /\ w = [vb EXCEPT ![VbOf[m]] = PositionOf[m]]

\* One microblock more.
LEMMA CountedStep ==
  ASSUME NEW log, NEW k \in Nat, NEW vb \in [VirtualBlockchains -> Nat], CountedTo(log, vb, k),
         NEW m \in Microblocks, m = log[k + 1], NEW w, ExtendedBy(vb, w, m)
  PROVE  CountedTo(log, w, k + 1)
<1>1. VbOf[m] \in VirtualBlockchains /\ PositionOf[m] \in Nat
  BY ProposalAssumption DEF VirtualBlockchains
<1>2. OnVb(log, VbOf[m], k + 1) = PositionOf[m]
  <2>1. OnVb(log, VbOf[m], k + 1) = OnVb(log, VbOf[m], k) + 1
    BY OnVbStep
  <2>2. OnVb(log, VbOf[m], k) = PositionOf[m] - 1
    BY <1>1 DEF CountedTo, ExtendedBy
  <2> QED
    BY <1>1, <2>1, <2>2
<1>3. ASSUME NEW i \in 1..(k + 1)
      PROVE  PositionOf[log[i]] = OnVb(log, VbOf[log[i]], i)
  <2>1. CASE i = k + 1
    BY <1>2, <2>1
  <2>2. CASE i # k + 1
    <3>1. i \in 1..k
      BY <2>2
    <3> QED
      BY <3>1 DEF CountedTo
  <2> QED
    BY <2>1, <2>2
<1>4. ASSUME NEW v \in VirtualBlockchains PROVE w[v] = OnVb(log, v, k + 1)
  <2>1. CASE v = VbOf[m]
    BY <1>1, <1>2, <2>1 DEF ExtendedBy
  <2>2. CASE v # VbOf[m]
    <3>1. w[v] = vb[v] /\ vb[v] \in Nat
      BY <2>2 DEF ExtendedBy
    <3>2. vb[v] = OnVb(log, v, k)
      BY DEF CountedTo
    <3>3. OnVb(log, v, k + 1) = OnVb(log, v, k) + 0
      BY <2>2, OnVbStep
    <3> QED
      BY <3>1, <3>2, <3>3
  <2> QED
    BY <2>1, <2>2
<1> QED
  BY <1>3, <1>4 DEF CountedTo

\* A longer sequence begins with the same microblocks.
LEMMA CountedInLonger ==
  ASSUME NEW log, NEW vb, NEW k \in Nat, CountedTo(log, vb, k),
         NEW full, \A j \in 1..k : full[j] = log[j]
  PROVE  CountedTo(full, vb, k)
<1>1. ASSUME NEW v, NEW n \in 0..k PROVE OnVb(full, v, n) = OnVb(log, v, n)
  <2>1. \A j \in 1..n : full[j] = log[j]
    OBVIOUS
  <2>2. {j \in 1..n : VbOf[full[j]] = v} = {j \in 1..n : VbOf[log[j]] = v}
    BY <2>1
  <2> QED
    BY <2>2 DEF OnVb
<1>2. ASSUME NEW i \in 1..k
      PROVE  PositionOf[full[i]] = OnVb(full, VbOf[full[i]], i)
  <2>1. i \in 0..k /\ full[i] = log[i]
    OBVIOUS
  <2>2. PositionOf[log[i]] = OnVb(log, VbOf[log[i]], i)
    BY DEF CountedTo
  <2> QED
    BY <1>1, <2>1, <2>2
<1>3. ASSUME NEW v \in VirtualBlockchains PROVE vb[v] = OnVb(full, v, k)
  <2>1. k \in 0..k /\ vb[v] = OnVb(log, v, k)
    BY DEF CountedTo
  <2> QED
    BY <1>1, <2>1
<1> QED
  BY <1>2, <1>3 DEF CountedTo

\* What the execution of a microblock does that does not fail.
LEMMA ExecuteEffect ==
  ASSUME NEW S \in States, NEW m \in Microblocks, NEW d, NEW r, r = Execute(S, m, d), r.ok
  PROVE  /\ ExtendedBy(S.vb, r.state.vb, m)
         /\ r.state = [ledger |-> ExecMicroblock(S.ledger, Body[m], d).ledger, vb |-> r.state.vb]
         /\ ExecMicroblock(S.ledger, Body[m], d).ok
<1>1. Consistent(S, m)
  BY DEF Execute
<1>2. PICK e : e = ExecMicroblock(S.ledger, Body[m], d)
  OBVIOUS
<1>3. r = [ok |-> e.ok,
           state |-> [ledger |-> e.ledger,
                      vb |-> IF e.ok THEN [S.vb EXCEPT ![VbOf[m]] = PositionOf[m]] ELSE S.vb]]
  BY <1>1, <1>2 DEF Execute
<1>4. e.ok
  BY <1>3
<1> QED
  BY <1>1, <1>2, <1>3, <1>4 DEF Consistent, ExtendedBy

LEMMA ExecuteKeepsSafe ==
  ASSUME NEW d \in Int, NEW S, SafeState(S, d), NEW m \in Microblocks,
         NEW r, r = Execute(S, m, d), r.ok
  PROVE  SafeState(r.state, d)
<1>1. S \in States /\ S.vb \in [VirtualBlockchains -> Nat]
  BY DEF SafeState, States
<1>2. PICK e : e = ExecMicroblock(S.ledger, Body[m], d)
  OBVIOUS
<1>3. /\ ExtendedBy(S.vb, r.state.vb, m)
      /\ r.state = [ledger |-> e.ledger, vb |-> r.state.vb]
      /\ e.ok
  BY <1>1, <1>2, ExecuteEffect
<1>4. Body[m] \in MicroblockBodies
  BY ProposalAssumption
<1>5. SafeLedger(S.ledger, d)
  BY DEF SafeState
<1>6. SafeLedger(e.ledger, d) /\ TotalBalance(e.ledger) = TotalBalance(S.ledger)
  BY <1>2, <1>3, <1>4, <1>5, SafeMicroblock
<1>7. r.state.vb \in [VirtualBlockchains -> Nat]
  <2>1. VbOf[m] \in VirtualBlockchains /\ PositionOf[m] \in Nat
    BY ProposalAssumption DEF VirtualBlockchains
  <2> QED
    BY <1>1, <1>3, <2>1 DEF ExtendedBy
<1>8. e.ledger \in Ledgers
  BY <1>6, SecureTotal DEF SafeLedger
<1>9. PICK w : w = r.state.vb
  OBVIOUS
<1>10. r.state = [ledger |-> e.ledger, vb |-> w] /\ w \in [VirtualBlockchains -> Nat]
  BY <1>3, <1>7, <1>9
<1>11. r.state \in States /\ r.state.ledger = e.ledger
  BY <1>8, <1>10 DEF States
<1> QED
  BY <1>6, <1>11 DEF SafeState

Joined(full, log, txs) == full = log \o txs

\* A block whose microblocks all succeed.
LEMMA BlockKeepsSafe ==
  ASSUME NEW d \in Int, NEW log \in Seq(Microblocks), NEW txs \in Seq(Microblocks),
         NEW S, SafeState(S, d), CountedTo(log, S.vb, Len(log)),
         NEW p, p[0].state = S, Succeeds(p, txs, d),
         NEW full, Joined(full, log, txs),
         NEW T, T = p[Len(txs)].state
  PROVE  SafeState(T, d) /\ CountedTo(full, T.vb, Len(full))
<1> DEFINE n == Len(txs)
           l == Len(log)
           N == {i \in Nat : i <= n => /\ SafeState(p[i].state, d)
                                       /\ CountedTo(full, p[i].state.vb, l + i)}
<1>0. /\ n \in Nat /\ l \in Nat
      /\ \A j \in 1..l : full[j] = log[j]
      /\ \A i \in 1..n : full[l + i] = txs[i] /\ txs[i] \in Microblocks
      /\ Len(full) = l + n
  BY DEF Joined
<1>1. /\ \A i \in 1..n : p[i] = Execute(p[i - 1].state, txs[i], d) /\ p[i].ok
      /\ CountedTo(log, S.vb, l)
      /\ T = p[n].state
  BY DEF Succeeds
<1> HIDE DEF n, l
<1>2. 0 \in N
  <2>1. l + 0 = l
    BY <1>0
  <2>2. CountedTo(full, S.vb, l)
    BY <1>0, <1>1, CountedInLonger
  <2> QED
    BY <2>1, <2>2
<1>3. ASSUME NEW i \in Nat, i \in N PROVE i + 1 \in N
  <2> SUFFICES ASSUME i + 1 <= n
               PROVE  /\ SafeState(p[i + 1].state, d)
                      /\ CountedTo(full, p[i + 1].state.vb, l + (i + 1))
    OBVIOUS
  <2>1. PICK k \in 1..n : k = i + 1 /\ k - 1 = i /\ l + k = (l + i) + 1 /\ l + i \in Nat
    BY <1>0
  <2>2. SafeState(p[i].state, d) /\ CountedTo(full, p[i].state.vb, l + i)
    BY <1>0, <1>3
  <2> HIDE DEF N
  <2>3. PICK V, m, r : V = p[i].state /\ m = txs[k] /\ r = p[k]
    OBVIOUS
  <2>4. r = Execute(V, m, d) /\ r.ok /\ m = full[(l + i) + 1] /\ m \in Microblocks
    BY <1>0, <1>1, <2>1, <2>3
  <2>5. SafeState(V, d) /\ V \in States /\ V.vb \in [VirtualBlockchains -> Nat]
    BY <2>2, <2>3 DEF SafeState, States
  <2>6. SafeState(r.state, d)
    BY <2>4, <2>5, ExecuteKeepsSafe
  <2>7. ExtendedBy(V.vb, r.state.vb, m)
    BY <2>4, <2>5, ExecuteEffect
  <2>8. CountedTo(full, r.state.vb, (l + i) + 1)
    BY <2>1, <2>2, <2>3, <2>4, <2>5, <2>7, CountedStep
  <2> QED
    BY <2>1, <2>3, <2>6, <2>8
<1>4. Nat \subseteq N
  <2> HIDE DEF N
  <2> QED
    BY <1>2, <1>3, InductionOnNumbers
<1>5. n \in N
  <2> HIDE DEF N
  <2> QED
    BY <1>0, <1>4
<1> QED
  BY <1>0, <1>1, <1>5 DEF n

------------------------------------------------------------------------------
(* The preparation of a proposal *)

LEMMA SizesStep ==
  ASSUME NEW acc, NEW m
  PROVE  StepOf(SizesLoop, acc, m) = acc + SizeOf[m]
  BY DEF StepOf, SizesLoop

LEMMA SizeOfNothing == SizeOfTxs(<<>>) = 0
<1>1. <<>> \in Seq(Microblocks) /\ Len(<<>>) = 0
  OBVIOUS
<1>2. PICK txs : txs = <<>>
  OBVIOUS
<1>3. PICK r : IsRunOf(r, SizesLoop, 0, txs) /\ SizeOfTxs(txs) = r[Len(txs)]
  BY <1>1, <1>2, SizesByPrefix
<1> QED
  BY <1>1, <1>2, <1>3 DEF IsRunOf

OneMore(more, txs, m) == more = Append(txs, m)

LEMMA SizeOfMore ==
  ASSUME NEW txs \in Seq(Microblocks), NEW m \in Microblocks, NEW more, OneMore(more, txs, m)
  PROVE  SizeOfTxs(more) = SizeOfTxs(txs) + SizeOf[m]
<1>1. PICK n \in Nat : n = Len(txs)
  OBVIOUS
<1>2. more \in Seq(Microblocks) /\ Len(more) = n + 1 /\ more[n + 1] = m
  BY <1>1 DEF OneMore
<1>3. \A i \in 1..n : i \in 1..Len(txs) /\ i \in 1..Len(more) /\ txs[i] = more[i]
  BY <1>1 DEF OneMore
<1>4. PICK p : IsRunOf(p, SizesLoop, 0, txs) /\ SizeOfTxs(txs) = p[Len(txs)]
  BY SizesByPrefix
<1>5. PICK q : IsRunOf(q, SizesLoop, 0, more) /\ SizeOfTxs(more) = q[Len(more)]
  BY <1>2, SizesByPrefix
<1>6. p[n] = q[n]
  BY <1>3, <1>4, <1>5, RunsAgree
<1>7. q[n + 1] = StepOf(SizesLoop, q[n], m)
  <2>1. n + 1 \in 1..Len(more) /\ (n + 1) - 1 = n
    BY <1>1, <1>2
  <2> QED
    BY <1>2, <1>5, <2>1 DEF IsRunOf
<1> QED
  BY <1>1, <1>2, <1>4, <1>5, <1>6, <1>7, SizesStep

\* One microblock more is executed after the others.
LEMMA RunsOn ==
  ASSUME NEW S, NEW d, NEW txs \in Seq(Microblocks), NEW m \in Microblocks,
         NEW more, OneMore(more, txs, m),
         NEW p, NEW result, RunsTo(S, txs, d, p, result), result.ok,
         NEW r, r = Execute(result.state, m, d)
  PROVE  \E q : RunsTo(S, more, d, q, r)
<1>1. PICK n \in Nat : n = Len(txs)
  OBVIOUS
<1>2. /\ Len(more) = n + 1 /\ more[n + 1] = m
      /\ \A i \in 1..n : txs[i] = more[i]
  BY <1>1 DEF OneMore
<1> DEFINE base == [ok |-> TRUE, state |-> S]
           q == [i \in 0..(n + 1) |-> IF i = n + 1 THEN r ELSE p[i]]
<1>3. q[n + 1] = r /\ \A i \in 0..n : q[i] = p[i]
  BY <1>1
<1> HIDE DEF q
<1>4. /\ p[0] = base /\ p[n] = result
      /\ \A i \in 1..n : p[i] = StepOf(ChecksLoop(d), p[i - 1], txs[i])
  BY <1>1 DEF RunsTo, IsRunOf
<1> HIDE DEF base
<1>5. q[0] = base
  BY <1>1, <1>3, <1>4
<1>6. ASSUME NEW i \in 1..(n + 1)
      PROVE  q[i] = StepOf(ChecksLoop(d), q[i - 1], more[i])
  <2>1. CASE i = n + 1
    <3>1. i - 1 = n /\ n \in 0..n
      BY <1>1, <2>1
    <3>2. q[i - 1] = result /\ q[i] = r /\ more[i] = m
      BY <1>2, <1>3, <1>4, <2>1, <3>1
    <3> QED
      BY <3>2, ChecksStep
  <2>2. CASE i # n + 1
    <3>1. i \in 1..n /\ i \in 0..n /\ i - 1 \in 0..n
      BY <1>1, <1>6, <2>2
    <3> QED
      BY <1>2, <1>3, <1>4, <3>1
  <2> QED
    BY <2>1, <2>2
<1>7. IsRunOf(q, ChecksLoop(d), base, more)
  BY <1>2, <1>5, <1>6 DEF IsRunOf
<1> QED
  BY <1>2, <1>3, <1>7 DEF RunsTo, base

\* What ProcessProposal will find of the microblocks kept so far: they are within the
\* limits, and executed in turn from state S on they all succeed and lead to the state of
\* the loop.
KeptWell(acc, S, d) ==
  /\ Len(acc.txs) <= ProtocolLimit
  /\ SizeOfTxs(acc.txs) <= MaxBlockSize
  /\ \E p, result : RunsTo(S, acc.txs, d, p, result) /\ result.ok /\ result.state = acc.state

TryRecord(acc) ==
  [state |-> acc.state, txs |-> acc.txs, rejected |-> acc.rejected, open |-> acc.open]

Trying(acc, S, d) ==
  /\ acc = TryRecord(acc)
  /\ acc.txs \in Seq(Microblocks)
  /\ SizeOfTxs(acc.txs) \in Nat
  /\ acc.rejected = {} => KeptWell(acc, S, d)

\* The fields of a TryMicroblock that executes m.
LEMMA TryEffect ==
  ASSUME NEW acc, acc = TryRecord(acc), NEW m, NEW d, NEW r, r = TryMicroblock(acc, m, d),
         NEW e, e = Execute(acc.state, m, d)
  PROVE  \/ r = acc
         \/ /\ r = TryRecord(r)
            /\ r.txs = acc.txs /\ r.state = acc.state /\ r.rejected = acc.rejected
         \/ /\ r = TryRecord(r)
            /\ ~(NodeLimit <= Len(acc.txs) \/ SizeOfTxs(acc.txs) + SizeOf[m] > MaxBlockSize)
            /\ r.state = e.state
            /\ e.ok => r.txs = Append(acc.txs, m) /\ r.rejected = acc.rejected
            /\ ~e.ok => r.txs = acc.txs /\ r.rejected # {}
<1>1. PICK full : full <=> \/ NodeLimit <= Len(acc.txs)
                           \/ SizeOfTxs(acc.txs) + SizeOf[m] > MaxBlockSize
  <2> DEFINE full == \/ NodeLimit <= Len(acc.txs)
                     \/ SizeOfTxs(acc.txs) + SizeOf[m] > MaxBlockSize
  <2> QED
    OBVIOUS
<1>2. r = IF ~acc.open THEN acc
          ELSE IF full THEN [acc EXCEPT !.open = FALSE]
          ELSE [acc EXCEPT !.state = e.state,
                           !.txs = IF e.ok THEN Append(acc.txs, m) ELSE acc.txs,
                           !.rejected = IF e.ok THEN acc.rejected ELSE acc.rejected \cup {m}]
  BY <1>1 DEF TryMicroblock
<1>3. CASE ~acc.open
  BY <1>2, <1>3
<1>4. CASE acc.open /\ full
  <2>1. r = [acc EXCEPT !.open = FALSE]
    BY <1>2, <1>4
  <2> QED
    BY <2>1 DEF TryRecord
<1>5. CASE acc.open /\ ~full
  <2>1. r = [acc EXCEPT !.state = e.state,
                        !.txs = IF e.ok THEN Append(acc.txs, m) ELSE acc.txs,
                        !.rejected = IF e.ok THEN acc.rejected ELSE acc.rejected \cup {m}]
    BY <1>2, <1>5
  <2>2. /\ r = TryRecord(r)
        /\ r.state = e.state
        /\ r.txs = IF e.ok THEN Append(acc.txs, m) ELSE acc.txs
        /\ r.rejected = IF e.ok THEN acc.rejected ELSE acc.rejected \cup {m}
    BY <2>1 DEF TryRecord
  <2> QED
    BY <1>1, <1>5, <2>2
<1> QED
  BY <1>3, <1>4, <1>5

LEMMA TryKeepsTrying ==
  ASSUME NEW acc, NEW S, NEW d, Trying(acc, S, d), NEW m \in Microblocks,
         NEW r, r = TryMicroblock(acc, m, d)
  PROVE  Trying(r, S, d)
<1>0. /\ acc = TryRecord(acc) /\ acc.txs \in Seq(Microblocks) /\ SizeOfTxs(acc.txs) \in Nat
      /\ SizeOf[m] \in Nat /\ MaxBlockSize \in Nat
  BY ProposalAssumption DEF Trying
<1>1. PICK e : e = Execute(acc.state, m, d)
  OBVIOUS
<1>2. CASE r = acc
  BY <1>2
<1>3. CASE /\ r = TryRecord(r)
           /\ r.txs = acc.txs /\ r.state = acc.state /\ r.rejected = acc.rejected
  BY <1>3 DEF Trying, KeptWell
<1>4. CASE /\ r = TryRecord(r)
           /\ ~(NodeLimit <= Len(acc.txs) \/ SizeOfTxs(acc.txs) + SizeOf[m] > MaxBlockSize)
           /\ r.state = e.state
           /\ e.ok => r.txs = Append(acc.txs, m) /\ r.rejected = acc.rejected
           /\ ~e.ok => r.txs = acc.txs /\ r.rejected # {}
  <2>1. CASE ~e.ok
    BY <1>0, <1>4, <2>1 DEF Trying
  <2>2. CASE e.ok
    <3>1. PICK txs, more : txs = acc.txs /\ more = r.txs
      OBVIOUS
    <3>2. txs \in Seq(Microblocks) /\ OneMore(more, txs, m)
      BY <1>0, <1>4, <2>2, <3>1 DEF OneMore
    <3>3. r.txs \in Seq(Microblocks) /\ Len(r.txs) = Len(acc.txs) + 1 /\ Len(acc.txs) \in Nat
      BY <3>1, <3>2 DEF OneMore
    <3>4. SizeOfTxs(r.txs) = SizeOfTxs(acc.txs) + SizeOf[m]
      BY <3>1, <3>2, SizeOfMore
    <3>5. SizeOfTxs(r.txs) \in Nat /\ SizeOfTxs(r.txs) <= MaxBlockSize
      BY <1>0, <1>4, <3>4
    <3>6. Len(r.txs) <= ProtocolLimit
      <4>1. NodeLimit \in Nat /\ NodeLimit <= ProtocolLimit /\ ProtocolLimit \in Nat
        BY ProposalAssumption DEF NodeLimit
      <4>2. ~(NodeLimit <= Len(acc.txs))
        BY <1>4
      <4> QED
        BY <3>3, <4>1, <4>2
    <3>7. ASSUME r.rejected = {}
          PROVE  \E q, result : RunsTo(S, r.txs, d, q, result) /\ result.ok
                                  /\ result.state = r.state
      <4>1. KeptWell(acc, S, d)
        BY <1>4, <2>2, <3>7 DEF Trying
      <4>2. PICK p, last : /\ RunsTo(S, acc.txs, d, p, last) /\ last.ok
                           /\ last.state = acc.state
        BY <4>1 DEF KeptWell
      <4>3. e = Execute(last.state, m, d) /\ RunsTo(S, txs, d, p, last)
        BY <1>1, <3>1, <4>2
      <4>4. \E q : RunsTo(S, more, d, q, e)
        BY <3>2, <4>2, <4>3, RunsOn
      <4> QED
        BY <1>4, <2>2, <3>1, <4>4
    <3> QED
      BY <1>4, <3>3, <3>5, <3>6, <3>7 DEF Trying, KeptWell
  <2> QED
    BY <2>1, <2>2
<1> QED
  BY <1>0, <1>1, <1>2, <1>3, <1>4, TryEffect

LEMMA TryIsTrying ==
  ASSUME NEW order \in Seq(Microblocks), NEW d
  PROVE  Trying(Try(order, d), Begin(d), d)
<1>1. PICK r : /\ IsRunOf(r, TriesLoop(d), TriesBegin(d), order)
               /\ Try(order, d) = r[Len(order)]
  BY TriesByPrefix
<1>2. PICK S : S = Begin(d)
  OBVIOUS
<1> DEFINE n == Len(order)
           N == {i \in Nat : i <= n => Trying(r[i], S, d)}
<1>3. /\ n \in Nat
      /\ r[0] = TriesBegin(d)
      /\ \A i \in 1..n : r[i] = StepOf(TriesLoop(d), r[i - 1], order[i])
      /\ \A i \in 1..n : order[i] \in Microblocks
  BY <1>1 DEF IsRunOf
<1> HIDE DEF n
<1>4. 0 \in N
  <2>1. PICK acc : acc = r[0]
    OBVIOUS
  <2>2. acc = [state |-> S, txs |-> <<>>, rejected |-> {}, open |-> TRUE]
    BY <1>2, <1>3, <2>1 DEF TriesBegin
  <2>3. acc = TryRecord(acc) /\ acc.txs = <<>> /\ acc.state = S
    BY <2>2 DEF TryRecord
  <2>4. acc.txs \in Seq(Microblocks) /\ Len(acc.txs) = 0 /\ SizeOfTxs(acc.txs) = 0
    BY <2>3, SizeOfNothing
  <2>5. \E p, result : RunsTo(S, acc.txs, d, p, result) /\ result.ok /\ result.state = acc.state
    <3>1. PICK base : base = [ok |-> TRUE, state |-> S]
      OBVIOUS
    <3>2. PICK p : p = [i \in {0} |-> base]
      OBVIOUS
    <3>3. p[0] = base /\ base.ok /\ base.state = acc.state
      BY <2>3, <3>1, <3>2
    <3>4. RunsTo(S, acc.txs, d, p, base)
      BY <2>4, <3>1, <3>3 DEF RunsTo, IsRunOf
    <3> QED
      BY <3>3, <3>4
  <2>6. MaxBlockSize \in Nat /\ ProtocolLimit \in Nat
    BY ProposalAssumption
  <2>7. Trying(acc, S, d)
    BY <2>3, <2>4, <2>5, <2>6 DEF Trying, KeptWell
  <2> QED
    BY <2>1, <2>7
<1>5. ASSUME NEW i \in Nat, i \in N PROVE i + 1 \in N
  <2> SUFFICES ASSUME i + 1 <= n PROVE Trying(r[i + 1], S, d)
    OBVIOUS
  <2>1. PICK k \in 1..n : k = i + 1 /\ k - 1 = i
    BY <1>3
  <2>2. Trying(r[i], S, d)
    BY <1>3, <1>5
  <2> HIDE DEF N
  <2>3. r[k] = TryMicroblock(r[i], order[k], d) /\ order[k] \in Microblocks
    BY <1>3, <2>1 DEF StepOf, TriesLoop
  <2> QED
    BY <2>1, <2>2, <2>3, TryKeepsTrying
<1>6. Nat \subseteq N
  <2> HIDE DEF N
  <2> QED
    BY <1>4, <1>5, InductionOnNumbers
<1>7. n \in N
  <2> HIDE DEF N
  <2> QED
    BY <1>3, <1>6
<1> QED
  BY <1>1, <1>2, <1>3, <1>7 DEF n

------------------------------------------------------------------------------
(* The invariant *)

\* The state in which the microblocks of a block of day d are executed, c being the
\* committed state and previous the day of the block before.
BeginOf(c, previous, d) == [c EXCEPT !.ledger = UpdateOnBlock(@, previous, d)]

\* The committed state and the chain that has led to it.
ChainSafe(c, d, log) ==
  /\ d \in 0..MaxDay
  /\ SafeState(c, d)
  /\ log \in Seq(Seq(Microblocks))
  /\ CountedTo(FlattenSeq(log), c.vb, Len(FlattenSeq(log)))

PoolFinite(pool) == pool \in SUBSET Microblocks /\ IsFiniteSet(pool)

\* Block b will be executed without rejecting anything.
WillPass(b, c, d) == Passes(BeginOf(c, d, b.day), b.txs, b.day)

\* Block b will be accepted.
WillBeAccepted(b, c, d) ==
  /\ Len(b.txs) <= ProtocolLimit
  /\ SizeOfTxs(b.txs) <= MaxBlockSize
  /\ WillPass(b, c, d)

\* The block at hand, at control point p.
BlockFits(p, b, c, d) ==
  /\ b.txs \in Seq(Microblocks)
  /\ p \in {"proposed", "accepted", "finalized"} => b.day \in 0..MaxDay /\ d <= b.day
  /\ p = "proposed" /\ b.own /\ b.dropped = {} => WillBeAccepted(b, c, d)
  /\ p = "accepted" => WillPass(b, c, d)

\* The working state after FinalizeBlock.
WorkSafe(p, b, w, cs, log) ==
  p = "finalized" =>
    /\ AllTrue(cs)
    /\ SafeState(w, b.day)
    /\ CountedTo(FlattenSeq(log) \o b.txs, w.vb, Len(FlattenSeq(log) \o b.txs))

Inv ==
  /\ ChainSafe(committed, day, chain)
  /\ PoolFinite(mempool)
  /\ BlockFits(pc, block, committed, day)
  /\ WorkSafe(pc, block, work, codes, chain)

LEMMA BeginIsBeginOf ==
  ASSUME NEW d
  PROVE  Begin(d) = BeginOf(committed, day, d)
  BY DEF Begin, BeginOf

LEMMA BeginKeepsSafe ==
  ASSUME NEW previous \in 0..MaxDay, NEW d \in 0..MaxDay, previous <= d,
         NEW c, SafeState(c, previous), NEW S, S = BeginOf(c, previous, d)
  PROVE  SafeState(S, d) /\ S.vb = c.vb
<1>1. c \in States /\ SafeLedger(c.ledger, previous)
  BY DEF SafeState
<1>2. PICK L, M : L = c.ledger /\ M = UpdateOnBlock(L, previous, d)
  OBVIOUS
<1>3. SafeLedger(M, d) /\ TotalBalance(M) = TotalBalance(L)
  BY <1>1, <1>2, SafeBegin
<1>4. M \in Ledgers
  BY <1>3, SecureTotal DEF SafeLedger
<1>5. S = [c EXCEPT !.ledger = M]
  BY <1>2 DEF BeginOf
<1>6. S \in States /\ S.ledger = M /\ S.vb = c.vb
  BY <1>1, <1>4, <1>5 DEF States
<1> QED
  BY <1>2, <1>3, <1>6 DEF SafeState

LEMMA AcceptsIsWillBeAccepted ==
  ASSUME NEW b, b.txs \in Seq(Microblocks)
  PROVE  Accepts(b) <=> WillBeAccepted(b, committed, day)
<1>1. AllExecute(b.txs, b.day) <=> Passes(Begin(b.day), b.txs, b.day)
  BY AllExecuteIsPasses
<1> QED
  BY <1>1, BeginIsBeginOf DEF Accepts, WillBeAccepted, WillPass

LEMMA ByFeesType ==
  ASSUME PoolFinite(mempool), NEW order \in ByFees
  PROVE  order \in Seq(Microblocks)
<1>1. order \in SetToAllKPermutations(Candidates)
  BY DEF ByFees
<1>2. PICK s \in SUBSET Candidates : order \in SetToSeqs(s)
  BY <1>1 DEF SetToAllKPermutations
<1>3. s \subseteq Microblocks /\ IsFiniteSet(s)
  <2>1. s \subseteq mempool
    BY DEF Candidates
  <2> QED
    BY <2>1, FS_Subset DEF PoolFinite
<1>4. PICK n \in Nat : n = Cardinality(s)
  BY <1>3, FS_CardinalityType
<1>5. order \in [1..n -> s]
  BY <1>2, <1>4 DEF SetToSeqs
<1> QED
  BY <1>3, <1>5

LEMMA InitInv == Init => Inv
<1> SUFFICES ASSUME Init PROVE Inv
  OBVIOUS
<1>1. SafeLedger(GenesisLedger, 0) /\ GenesisLedger \in Ledgers
  <2>1. Secure(GenesisLedger, 0) /\ GenesisLedger \in Ledgers
    BY GenesisAssumption DEF Secure, Solvent, Sound
  <2>2. Good(GenesisLedger, {})
    BY GenesisAssumption, LedgersAreWellFormed DEF Sound, Unwarned, Good
  <2> QED
    BY <2>1, <2>2 DEF SafeLedger
<1>2. PICK v : v = [b \in VirtualBlockchains |-> 0]
  OBVIOUS
<1>3. v \in [VirtualBlockchains -> Nat] /\ \A b \in VirtualBlockchains : v[b] = 0
  BY <1>2
<1>4. committed = [ledger |-> GenesisLedger, vb |-> v]
  BY <1>2 DEF Init
<1>5. SafeState(committed, 0) /\ committed.vb = v
  BY <1>1, <1>3, <1>4 DEF SafeState, States
<1>6. FlattenSeq(chain) = <<>> /\ chain \in Seq(Seq(Microblocks))
  <2>1. chain = <<>> /\ Len(<<>>) = 0 /\ <<>> \in Seq(Seq(Microblocks))
    BY DEF Init
  <2> QED
    BY <2>1, FlattenDefinition
<1>7. PICK log : log = FlattenSeq(chain) /\ Len(log) = 0
  BY <1>6
<1>8. CountedTo(log, v, 0)
  BY <1>3, OnVbStep DEF CountedTo
<1>9. ChainSafe(committed, day, chain)
  <2>1. day = 0 /\ 0 \in 0..MaxDay
    BY LedgerAssumption DEF Init
  <2> QED
    BY <1>5, <1>6, <1>7, <1>8, <2>1 DEF ChainSafe
<1>10. PoolFinite(mempool)
  BY FS_EmptySet DEF Init, PoolFinite
<1>11. pc = "idle" /\ block.txs \in Seq(Microblocks)
  BY DEF Init, NoBlock
<1> QED
  BY <1>9, <1>10, <1>11 DEF Inv, BlockFits, WorkSafe

------------------------------------------------------------------------------
(* The steps *)

LEMMA CheckTxKeeps ==
  ASSUME Inv, NEW m \in Microblocks, CheckTx(m)
  PROVE  Inv'
<1>1. PoolFinite(mempool')
  BY FS_AddElement DEF Inv, PoolFinite, CheckTx
<1>2. /\ committed' = committed /\ day' = day /\ chain' = chain /\ pc' = pc
      /\ block' = block /\ work' = work /\ codes' = codes
  BY DEF CheckTx
<1> QED
  BY <1>1, <1>2 DEF Inv

\* A block that is to be judged, whoever has proposed it.
LEMMA ProposedFits ==
  ASSUME Inv, NEW txs \in Seq(Microblocks), NEW d \in 0..MaxDay, d >= day,
         NEW own, NEW dropped,
         block' = [txs |-> txs, day |-> d, own |-> own, dropped |-> dropped],
         own /\ dropped = {} => WillBeAccepted(block', committed, day),
         pc' = "proposed", UNCHANGED <<committed, day, mempool, work, codes, chain>>
  PROVE  Inv'
<1>1. /\ committed' = committed /\ day' = day /\ mempool' = mempool /\ chain' = chain
      /\ block'.txs = txs /\ block'.day = d /\ block'.own = own /\ block'.dropped = dropped
  OBVIOUS
<1>2. day \in 0..MaxDay
  BY DEF Inv, ChainSafe
<1>3. d \in 0..MaxDay /\ day <= d
  BY <1>2, LedgerAssumption
<1>4. BlockFits(pc', block', committed, day)
  BY <1>1, <1>3 DEF BlockFits
<1>5. WorkSafe(pc', block', work', codes', chain')
  BY DEF WorkSafe
<1> QED
  BY <1>1, <1>4, <1>5 DEF Inv

LEMMA PrepareProposalKeeps ==
  ASSUME Inv, NEW order \in ByFees, NEW d \in 0..MaxDay, PrepareProposal(order, d)
  PROVE  Inv'
<1>1. order \in Seq(Microblocks)
  BY ByFeesType DEF Inv
<1>2. PICK result : result = Try(order, d)
  OBVIOUS
<1>3. Trying(result, BeginOf(committed, day, d), d)
  BY <1>1, <1>2, TryIsTrying, BeginIsBeginOf
<1>4. /\ block' = [txs |-> result.txs, day |-> d, own |-> TRUE, dropped |-> result.rejected]
      /\ d >= day /\ pc' = "proposed"
      /\ UNCHANGED <<committed, day, mempool, work, codes, chain>>
  BY <1>2 DEF PrepareProposal
<1>5. result.txs \in Seq(Microblocks)
  BY <1>3 DEF Trying
<1>6. ASSUME result.rejected = {}
      PROVE  WillBeAccepted(block', committed, day)
  <2>1. KeptWell(result, BeginOf(committed, day, d), d)
    BY <1>3, <1>6 DEF Trying
  <2>2. /\ Len(result.txs) <= ProtocolLimit /\ SizeOfTxs(result.txs) <= MaxBlockSize
        /\ Passes(BeginOf(committed, day, d), result.txs, d)
    BY <2>1 DEF KeptWell, Passes
  <2>3. block'.txs = result.txs /\ block'.day = d
    BY <1>4
  <2> QED
    BY <2>2, <2>3 DEF WillBeAccepted, WillPass
<1> QED
  BY <1>4, <1>5, <1>6, ProposedFits

LEMMA ReceiveProposalKeeps ==
  ASSUME Inv, NEW txs \in SeqOf(Microblocks, ProtocolLimit + 1), NEW d \in 0..MaxDay,
         ReceiveProposal(txs, d)
  PROVE  Inv'
<1>1. txs \in Seq(Microblocks)
  <2>1. PICK n \in 0..(ProtocolLimit + 1) : txs \in [1..n -> Microblocks]
    BY DEF SeqOf
  <2>2. n \in Nat
    BY <2>1
  <2> QED
    BY <2>1, <2>2
<1>2. /\ block' = [txs |-> txs, day |-> d, own |-> FALSE, dropped |-> {}]
      /\ d >= day /\ pc' = "proposed"
      /\ UNCHANGED <<committed, day, mempool, work, codes, chain>>
  BY DEF ReceiveProposal
<1> QED
  BY <1>1, <1>2, ProposedFits

LEMMA ProcessProposalKeeps ==
  ASSUME Inv, ProcessProposal
  PROVE  Inv'
<1>1. /\ committed' = committed /\ day' = day /\ mempool' = mempool /\ chain' = chain
      /\ pc = "proposed"
  BY DEF ProcessProposal
<1>2. CASE Accepts(block)
  <2>1. pc' = "accepted" /\ block' = block
    BY <1>2 DEF ProcessProposal
  <2>2. WillPass(block, committed, day)
    <3>1. block.txs \in Seq(Microblocks)
      BY DEF Inv, BlockFits
    <3> QED
      BY <1>2, <3>1, AcceptsIsWillBeAccepted DEF WillBeAccepted
  <2>3. BlockFits(pc', block', committed, day)
    BY <1>1, <2>1, <2>2 DEF Inv, BlockFits
  <2>4. WorkSafe(pc', block', work', codes', chain')
    BY <2>1 DEF WorkSafe
  <2> QED
    BY <1>1, <2>3, <2>4 DEF Inv
<1>3. CASE ~Accepts(block)
  <2>1. pc' = "idle" /\ block' = NoBlock
    BY <1>3 DEF ProcessProposal
  <2>2. block'.txs \in Seq(Microblocks)
    BY <2>1 DEF NoBlock
  <2> QED
    BY <1>1, <2>1, <2>2 DEF Inv, BlockFits, WorkSafe
<1> QED
  BY <1>2, <1>3

LEMMA NextRoundKeeps ==
  ASSUME Inv, NextRound
  PROVE  Inv'
<1>1. /\ committed' = committed /\ day' = day /\ mempool' = mempool /\ chain' = chain
      /\ pc' = "idle" /\ block' = NoBlock
  BY DEF NextRound
<1>2. block'.txs \in Seq(Microblocks)
  BY <1>1 DEF NoBlock
<1> QED
  BY <1>1, <1>2 DEF Inv, BlockFits, WorkSafe

\* What FinalizeBlock does with an accepted block.
LEMMA ExecuteBlockEffect ==
  ASSUME Inv, pc = "accepted", NEW executed, executed = ExecuteBlock(block.txs, block.day)
  PROVE  /\ AllTrue(executed.codes)
         /\ SafeState(executed.state, block.day)
         /\ CountedTo(FlattenSeq(chain) \o block.txs, executed.state.vb,
                      Len(FlattenSeq(chain) \o block.txs))
<1>1. PICK d, txs : d = block.day /\ txs = block.txs
  OBVIOUS
<1>2. /\ txs \in Seq(Microblocks) /\ d \in 0..MaxDay /\ day \in 0..MaxDay /\ day <= d
      /\ Passes(BeginOf(committed, day, d), txs, d)
      /\ SafeState(committed, day)
      /\ chain \in Seq(Seq(Microblocks))
      /\ CountedTo(FlattenSeq(chain), committed.vb, Len(FlattenSeq(chain)))
  BY <1>1 DEF Inv, BlockFits, ChainSafe, WillPass
<1>3. d \in Int
  BY <1>2
<1>4. PICK S : S = BeginOf(committed, day, d)
  OBVIOUS
<1>5. SafeState(S, d) /\ S.vb = committed.vb /\ S = Begin(d)
  BY <1>2, <1>4, BeginKeepsSafe, BeginIsBeginOf
<1>6. PICK p, result : RunsTo(S, txs, d, p, result) /\ result.ok
  BY <1>2, <1>4 DEF Passes
<1>7. p[0] = [ok |-> TRUE, state |-> S] /\ Succeeds(p, txs, d)
  BY <1>2, <1>6, PassingRunSucceeds
<1>8. PICK q : /\ IsRunOf(q, ExecutionsLoop(d), ExecutionsBegin(d), txs)
               /\ executed = q[Len(txs)]
  BY <1>1, <1>2, ExecutionsByPrefix
<1>9. PICK T : T = p[Len(txs)].state
  OBVIOUS
<1>10. executed.state = T /\ AllTrue(executed.codes)
  <2>1. p[0] = [ok |-> TRUE, state |-> Begin(d)]
    BY <1>5, <1>7
  <2> QED
    BY <1>2, <1>7, <1>8, <1>9, <2>1, ExecutionsFollowChecks
<1>11. PICK log : log = FlattenSeq(chain)
  OBVIOUS
<1>12. log \in Seq(Microblocks) /\ CountedTo(log, S.vb, Len(log))
  BY <1>2, <1>5, <1>11, FlattenType
<1>13. PICK full : Joined(full, log, txs)
  BY DEF Joined
<1>14. p[0].state = S
  BY <1>7
<1>15. SafeState(T, d) /\ CountedTo(full, T.vb, Len(full))
  BY <1>2, <1>3, <1>5, <1>7, <1>9, <1>12, <1>13, <1>14, BlockKeepsSafe
<1> QED
  BY <1>1, <1>10, <1>11, <1>13, <1>15 DEF Joined

LEMMA FinalizeBlockKeeps ==
  ASSUME Inv, NEW voters \in SUBSET Nodes, FinalizeBlock(SetToSeq(voters))
  PROVE  Inv'
<1>1. PICK executed : executed = ExecuteBlock(block.txs, block.day)
  OBVIOUS
<1>2. PICK paid : paid = DispatchFees(executed.state.ledger, SetToSeq(voters), Len(chain) + 1)
  OBVIOUS
<1>3. /\ pc = "accepted"
      /\ work' = [executed.state EXCEPT !.ledger = paid.ledger]
      /\ codes' = executed.codes
      /\ pc' = IF paid.ok THEN "finalized" ELSE "panic"
      /\ committed' = committed /\ day' = day /\ mempool' = mempool
      /\ block' = block /\ chain' = chain
  BY <1>1, <1>2 DEF FinalizeBlock
<1>4. /\ AllTrue(executed.codes)
      /\ SafeState(executed.state, block.day)
      /\ CountedTo(FlattenSeq(chain) \o block.txs, executed.state.vb,
                   Len(FlattenSeq(chain) \o block.txs))
  BY <1>1, <1>3, ExecuteBlockEffect
<1>5. block.day \in 0..MaxDay /\ day <= block.day /\ block.txs \in Seq(Microblocks)
  BY <1>3 DEF Inv, BlockFits
<1>6. PICK L, d : L = executed.state.ledger /\ d = block.day
  OBVIOUS
<1>7. SafeResult(L, paid, d, {TRUE})
  <2>1. d \in Int /\ SafeLedger(L, d)
    BY <1>4, <1>5, <1>6 DEF SafeState
  <2>2. PICK s : s = SetToSeq(voters)
    OBVIOUS
  <2>3. s \in Seq(Nodes)
    <3>1. IsFiniteSet(voters) /\ voters \subseteq Nodes
      BY LedgerAssumption, FS_Subset
    <3>2. s \in Seq(voters)
      BY <2>2, <3>1, ElementsInSequence
    <3> QED
      BY <3>1, <3>2
  <2>4. PICK h \in Nat : h = Len(chain) + 1
    <3>1. Len(chain) \in Nat
      BY DEF Inv, ChainSafe
    <3> QED
      BY <3>1
  <2>5. paid = DispatchFees(L, s, h)
    BY <1>2, <1>6, <2>2, <2>4
  <2> QED
    BY <2>1, <2>3, <2>5, SafeDispatch
<1>8. ASSUME pc' = "finalized"
      PROVE  SafeState(work', d) /\ work'.vb = executed.state.vb
  <2>1. paid.ok = TRUE
    BY <1>3, <1>7, <1>8 DEF SafeResult
  <2>2. SafeLedger(paid.ledger, d) /\ TotalBalance(paid.ledger) = TotalBalance(L)
    BY <1>7, <2>1 DEF SafeResult
  <2>3. paid.ledger \in Ledgers
    BY <2>2, SecureTotal DEF SafeLedger
  <2>4. PICK M : M = paid.ledger
    OBVIOUS
  <2>5. executed.state \in States /\ work' = [executed.state EXCEPT !.ledger = M]
    BY <1>3, <1>4, <2>4 DEF SafeState
  <2>6. work' \in States /\ work'.ledger = M /\ work'.vb = executed.state.vb
    BY <2>3, <2>4, <2>5 DEF States
  <2>7. TotalBalance(L) = TotalBalance(GenesisLedger)
    BY <1>4, <1>6 DEF SafeState
  <2> QED
    BY <2>2, <2>4, <2>6, <2>7 DEF SafeState
<1>9. WorkSafe(pc', block', work', codes', chain')
  BY <1>3, <1>4, <1>6, <1>8 DEF WorkSafe
<1>10. BlockFits(pc', block', committed', day')
  BY <1>3, <1>5 DEF BlockFits
<1> QED
  BY <1>3, <1>9, <1>10 DEF Inv

LEMMA CommitKeeps ==
  ASSUME Inv, Commit
  PROVE  Inv'
<1>1. /\ pc = "finalized"
      /\ committed' = [work EXCEPT !.ledger = CommitTables(@)]
      /\ day' = block.day
      /\ chain' = Append(chain, block.txs)
      /\ block' = NoBlock /\ pc' = "idle"
      /\ mempool' \subseteq mempool
  BY DEF Commit
<1>2. /\ block.txs \in Seq(Microblocks) /\ block.day \in 0..MaxDay
      /\ SafeState(work, block.day)
      /\ CountedTo(FlattenSeq(chain) \o block.txs, work.vb, Len(FlattenSeq(chain) \o block.txs))
      /\ chain \in Seq(Seq(Microblocks))
  BY <1>1 DEF Inv, BlockFits, WorkSafe, ChainSafe
<1>3. PICK d, txs, log : d = block.day /\ txs = block.txs /\ log = chain'
  OBVIOUS
<1>4. log \in Seq(Seq(Microblocks))
  BY <1>1, <1>2, <1>3
<1>5. FlattenSeq(log) = FlattenSeq(chain) \o txs
  BY <1>1, <1>2, <1>3, FlattenAppend
<1>6. SafeState(committed', d) /\ committed'.vb = work.vb
  <2>1. PICK L, M : L = work.ledger /\ M = CommitTables(L)
    OBVIOUS
  <2>2. work \in States /\ SafeLedger(L, d)
    BY <1>2, <1>3, <2>1 DEF SafeState
  <2>3. Secure(L, d) /\ Good(L, {})
    BY <2>2 DEF SafeLedger
  <2>4. Secure(M, d) /\ TotalBalance(M) = TotalBalance(L)
    BY <2>1, <2>3, CommitEffect
  <2>5. Good(M, {})
    BY <2>1, <2>3, CommitKeepsGood
  <2>6. M \in Ledgers
    BY <2>4, SecureTotal
  <2>7. committed' = [work EXCEPT !.ledger = M]
    BY <1>1, <2>1
  <2>8. committed' \in States /\ committed'.ledger = M /\ committed'.vb = work.vb
    BY <2>2, <2>6, <2>7 DEF States
  <2>9. TotalBalance(L) = TotalBalance(GenesisLedger)
    BY <1>2, <2>1 DEF SafeState
  <2> QED
    BY <2>4, <2>5, <2>8, <2>9 DEF SafeState, SafeLedger
<1>7. ChainSafe(committed', day', chain')
  BY <1>1, <1>2, <1>3, <1>4, <1>5, <1>6 DEF ChainSafe
<1>8. PoolFinite(mempool')
  BY <1>1, FS_Subset DEF Inv, PoolFinite
<1>9. block'.txs \in Seq(Microblocks)
  BY <1>1 DEF NoBlock
<1> QED
  BY <1>1, <1>7, <1>8, <1>9 DEF Inv, BlockFits, WorkSafe

LEMMA NextInv == Inv /\ [Next]_vars => Inv'
<1> SUFFICES ASSUME Inv, [Next]_vars PROVE Inv'
  OBVIOUS
<1>1. ASSUME NEW m \in Microblocks, CheckTx(m) PROVE Inv'
  BY <1>1, CheckTxKeeps
<1>2. CASE ClearRejected
  <2>1. /\ committed' = committed /\ day' = day /\ chain' = chain /\ pc' = pc
        /\ block' = block /\ work' = work /\ codes' = codes /\ mempool' = mempool
    BY <1>2 DEF ClearRejected
  <2> QED
    BY <2>1 DEF Inv
<1>3. ASSUME NEW order \in ByFees, NEW d \in 0..MaxDay, PrepareProposal(order, d) PROVE Inv'
  BY <1>3, PrepareProposalKeeps
<1>4. ASSUME NEW txs \in SeqOf(Microblocks, ProtocolLimit + 1), NEW d \in 0..MaxDay,
             ReceiveProposal(txs, d)
      PROVE  Inv'
  BY <1>4, ReceiveProposalKeeps
<1>5. CASE ProcessProposal
  BY <1>5, ProcessProposalKeeps
<1>6. CASE NextRound
  BY <1>6, NextRoundKeeps
<1>7. ASSUME NEW voters \in SUBSET Nodes, FinalizeBlock(SetToSeq(voters)) PROVE Inv'
  BY <1>7, FinalizeBlockKeeps
<1>8. CASE Commit
  BY <1>8, CommitKeeps
<1>9. CASE UNCHANGED vars
  <2>1. /\ committed' = committed /\ day' = day /\ chain' = chain /\ pc' = pc
        /\ block' = block /\ work' = work /\ codes' = codes /\ mempool' = mempool
    BY <1>9 DEF vars
  <2> QED
    BY <2>1 DEF Inv
<1> QED
  BY <1>1, <1>2, <1>3, <1>4, <1>5, <1>6, <1>7, <1>8, <1>9 DEF Next

LEMMA ProposalInvariant == Spec => []Inv
<1> QED
  BY InitInv, NextInv, PTL DEF Spec

------------------------------------------------------------------------------
(* The properties *)

\* What ProcessProposal accepted, FinalizeBlock executes without rejecting any transaction.
THEOREM AcceptedBlocksExecute == Spec => []AcceptedTxsSucceed
<1>1. Inv => AcceptedTxsSucceed
  BY DEF Inv, WorkSafe, AllTrue, AcceptedTxsSucceed
<1> QED
  BY <1>1, ProposalInvariant, PTL

\* The balances of the committed state always add up to the supply of the genesis block:
\* what a microblock had written before it failed never gets there.
THEOREM ChainLosesNothing == Spec => []NothingLostOnChain
<1>1. Inv => NothingLostOnChain
  BY DEF Inv, ChainSafe, SafeState, NothingLostOnChain
<1> QED
  BY <1>1, ProposalInvariant, PTL

\* The blocks of the chain extend each virtual blockchain one microblock after the other.
THEOREM VirtualBlockchainsGrow == Spec => []ChainExtendsVirtualBlockchains
<1>1. Inv => ChainExtendsVirtualBlockchains
  <2> SUFFICES ASSUME Inv PROVE ChainExtendsVirtualBlockchains
    OBVIOUS
  <2>1. PICK log : log = FlattenSeq(chain)
    OBVIOUS
  <2>2. log \in Seq(Microblocks) /\ CountedTo(log, committed.vb, Len(log))
    BY <2>1, FlattenType DEF Inv, ChainSafe
  <2>3. DOMAIN log = 1..Len(log)
    BY <2>2
  <2> QED
    BY <2>1, <2>2, <2>3 DEF CountedTo, OnVb, ChainExtendsVirtualBlockchains
<1> QED
  BY <1>1, ProposalInvariant, PTL

\* A proposal in whose preparation nothing was rejected is accepted by every validator.
THEOREM UndisturbedProposalsPass == Spec => []UndisturbedProposalAccepted
<1>1. Inv => UndisturbedProposalAccepted
  <2> SUFFICES ASSUME Inv, pc = "proposed", block.own, block.dropped = {}
               PROVE  Accepts(block)
    BY DEF UndisturbedProposalAccepted
  <2>1. block.txs \in Seq(Microblocks) /\ WillBeAccepted(block, committed, day)
    BY DEF Inv, BlockFits
  <2> QED
    BY <2>1, AcceptsIsWillBeAccepted
<1> QED
  BY <1>1, ProposalInvariant, PTL
==============================================================================
