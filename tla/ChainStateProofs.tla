-------------------------- MODULE ChainStateProofs --------------------------
(***************************************************************************)
(* Proofs about the chain: executing a block again gives the same hash,    *)
(* CometBFT has the voting powers of the validator nodes, misbehaviours    *)
(* are attributed to nodes that declared the accused key, the chain halts  *)
(* only for the reasons that are known, histories of accounts have no gap, *)
(* the roots of the virtual blockchains are those of their microblocks,    *)
(* and both radix trees are those of the stored states.                    *)
(***************************************************************************)
EXTENDS ChainState, FoldTheorems

------------------------------------------------------------------------------
(* Loops *)

\* What the loops of ChainState do with an element x, acc being the value before: the
\* transactions of a block and the changed nodes go by position, the others are sets.
StepOf(loop, acc, x) ==
  CASE loop.over = "block" -> ExecTx(acc, loop.txs[x])
    [] loop.over = "genesis" -> ExecGenesisTx(acc, loop.txs[x])
    [] loop.over = "accused" -> SetSlashing(acc, SlashedNode(loop.state, x))
    [] loop.over = "shares" ->
         Update(Update(acc, FeesAccount, 0, loop.height), Owner, 0, loop.height)
    [] loop.over = "rows" ->
         Put(acc, KeyOf(loop.state, loop.nodes[x]),
             [node |-> loop.nodes[x], power |-> VotingPower(loop.state, loop.nodes[x])])
    [] loop.over = "range" -> WithPrevious(loop.history, loop.from, loop.to, acc)
    [] loop.over = "bits" -> acc \div 2
    [] loop.over = "leaf" -> MergeChildrenOf(acc, x, ColumnAt(loop.index, x))
    [] loop.over = "witnesses" ->
         IF ColumnAt(loop.index, x - 1) % 2 = 1 THEN MergeHashes(loop.witnesses[x], acc)
         ELSE MergeHashes(acc, loop.witnesses[x])
    [] loop.over = "levels" -> IF Len(acc) > 1 THEN RowAbove(acc) ELSE acc
    [] loop.over = "path" -> IF Len(acc) = x THEN Extend(acc, loop.key) ELSE acc
    [] loop.over = "rewrites" -> Rewrite(acc, loop.path, Len(loop.path) - 1 - x, loop.key)

\* The element that a fold takes out of a set of elements.
Picked(loop, s) == IF loop.ordered THEN Max(s) ELSE CHOOSE x \in s : TRUE

\* h has the value of the loop over every set of elements of S.
IsFoldOf(h, loop, base, S) ==
  h = [s \in SUBSET S |-> IF s = {} THEN base
                          ELSE StepOf(loop, h[s \ {Picked(loop, s)}], Picked(loop, s))]

\* The loop can take an element out of every set.
CanPick(loop, S) == \A s \in SUBSET S : s # {} => Picked(loop, s) \in s

\* The same for the sets of at most n elements.
SmallSets(S, n) == {s \in SUBSET S : Cardinality(s) <= n}
IsSmallFold(h, loop, base, S, n) ==
  /\ h = [s \in SmallSets(S, n) |-> h[s]]
  /\ \A s \in SmallSets(S, n) :
       h[s] = IF s = {} THEN base
              ELSE StepOf(loop, h[s \ {Picked(loop, s)}], Picked(loop, s))

LEMMA SmallFoldGoesOn ==
  ASSUME NEW S, IsFiniteSet(S), NEW loop, CanPick(loop, S), NEW base, NEW n \in Nat,
         NEW g, IsSmallFold(g, loop, base, S, n)
  PROVE  \E h : IsSmallFold(h, loop, base, S, n + 1)
<1> DEFINE Rest(s) == s \ {Picked(loop, s)}
           D == SmallSets(S, n)
           E == SmallSets(S, n + 1)
           h == [s \in E |-> IF s \in D THEN g[s] ELSE StepOf(loop, g[Rest(s)], Picked(loop, s))]
<1>1. \A s \in SUBSET S : IsFiniteSet(s) /\ Cardinality(s) \in Nat
  BY FS_Subset, FS_CardinalityType
<1>2. \A s \in E : s # {} => Rest(s) \in D /\ Rest(s) \in E
  <2> SUFFICES ASSUME NEW s \in E, s # {} PROVE Rest(s) \in D /\ Rest(s) \in E
    OBVIOUS
  <2>1. s \in SUBSET S /\ Cardinality(s) <= n + 1 /\ Picked(loop, s) \in s
    BY DEF SmallSets, CanPick
  <2>2. Cardinality(Rest(s)) = Cardinality(s) - 1 /\ Rest(s) \in SUBSET S
    BY <1>1, <2>1, FS_RemoveElement
  <2>3. Cardinality(Rest(s)) <= n /\ Cardinality(Rest(s)) <= n + 1
    BY <1>1, <2>1, <2>2
  <2> QED
    BY <2>2, <2>3 DEF SmallSets
<1>3. \A s \in D : s \in E
  BY <1>1 DEF SmallSets
<1>4. \A s \in E : s \notin D => s # {}
  BY FS_EmptySet DEF SmallSets
<1>5. h = [s \in E |-> h[s]]
  OBVIOUS
<1>6. \A s \in D : h[s] = g[s]
  BY <1>3
<1>7. \A s \in E : s \notin D => h[s] = StepOf(loop, g[Rest(s)], Picked(loop, s))
  OBVIOUS
<1> HIDE DEF h
<1>8. ASSUME NEW s \in E
      PROVE  h[s] = IF s = {} THEN base ELSE StepOf(loop, h[Rest(s)], Picked(loop, s))
  <2>1. CASE s \in D
    <3>1. g[s] = IF s = {} THEN base ELSE StepOf(loop, g[Rest(s)], Picked(loop, s))
      BY <2>1 DEF IsSmallFold
    <3>2. s # {} => h[Rest(s)] = g[Rest(s)]
      BY <1>2, <1>6
    <3> HIDE DEF Rest
    <3> QED
      BY <1>6, <2>1, <3>1, <3>2
  <2>2. CASE s \notin D
    <3>1. s # {} /\ h[Rest(s)] = g[Rest(s)]
      BY <1>2, <1>4, <1>6, <2>2
    <3> HIDE DEF Rest
    <3> QED
      BY <1>7, <2>2, <3>1
  <2> QED
    BY <2>1, <2>2
<1>9. IsSmallFold(h, loop, base, S, n + 1)
  BY <1>5, <1>8 DEF IsSmallFold
<1> QED
  BY <1>9

\* A fold over a finite set is well defined.
LEMMA FoldOfExists ==
  ASSUME NEW S, IsFiniteSet(S), NEW loop, CanPick(loop, S), NEW base
  PROVE  \E h : IsFoldOf(h, loop, base, S)
<1> DEFINE N == {n \in Nat : \E h : IsSmallFold(h, loop, base, S, n)}
<1>1. \A s \in SUBSET S : /\ IsFiniteSet(s) /\ Cardinality(s) \in Nat
                          /\ Cardinality(s) <= Cardinality(S)
  BY FS_Subset, FS_CardinalityType
<1>2. 0 \in N
  <2>1. \A s \in SmallSets(S, 0) : s = {}
    BY <1>1, FS_EmptySet DEF SmallSets
  <2>2. PICK h : h = [s \in SmallSets(S, 0) |-> base]
    OBVIOUS
  <2>3. IsSmallFold(h, loop, base, S, 0)
    BY <2>1, <2>2 DEF IsSmallFold
  <2> QED
    BY <2>3
<1>3. \A n \in Nat : n \in N => n + 1 \in N
  BY SmallFoldGoesOn
<1>4. Cardinality(S) \in N
  <2>1. Nat \subseteq N
    <3> HIDE DEF N
    <3> QED
      BY <1>2, <1>3, InductionOnNumbers
  <2> QED
    BY <1>1, <2>1
<1>5. SmallSets(S, Cardinality(S)) = SUBSET S
  BY <1>1 DEF SmallSets
<1>6. PICK h : IsSmallFold(h, loop, base, S, Cardinality(S))
  BY <1>4
<1>7. IsFoldOf(h, loop, base, S)
  BY <1>5, <1>6 DEF IsSmallFold, IsFoldOf
<1> QED
  BY <1>7

LEMMA CanPickAny ==
  ASSUME NEW S, NEW loop, ~loop.ordered
  PROVE  CanPick(loop, S)
BY DEF CanPick, Picked

LEMMA CanPickLast ==
  ASSUME NEW n \in Nat, NEW loop, loop.ordered
  PROVE  CanPick(loop, 1..n)
BY MaxOfPositions DEF CanPick, Picked

\* What a fold does at a set: its value there comes from the set without one element.
LEMMA FoldStep ==
  ASSUME NEW S, NEW loop, CanPick(loop, S), NEW base, NEW h, IsFoldOf(h, loop, base, S)
  PROVE  /\ h[{}] = base
         /\ \A s \in SUBSET S : s # {} =>
              \E x \in s : h[s] = StepOf(loop, h[s \ {x}], x)
<1>1. \A s \in SUBSET S : h[s] = IF s = {} THEN base
                          ELSE StepOf(loop, h[s \ {Picked(loop, s)}], Picked(loop, s))
  BY DEF IsFoldOf
<1> QED
  BY <1>1 DEF CanPick

\* A set of states that has the first one, and what the loop makes of each, has the last.
LEMMA FoldStaysIn ==
  ASSUME NEW S, IsFiniteSet(S), NEW loop, CanPick(loop, S), NEW base,
         NEW h, IsFoldOf(h, loop, base, S),
         NEW F, {} \in F,
         \A s \in SUBSET S, x \in S :
           x \in s /\ s \ {x} \in F /\ h[s] = StepOf(loop, h[s \ {x}], x) => s \in F
  PROVE  S \in F
<1>1. \A s \in SUBSET S : (\A x \in s : s \ {x} \in F) => s \in F
  <2> SUFFICES ASSUME NEW s \in SUBSET S, \A x \in s : s \ {x} \in F, s # {} PROVE s \in F
    OBVIOUS
  <2>1. PICK x \in s : h[s] = StepOf(loop, h[s \ {x}], x)
    BY FoldStep
  <2> QED
    BY <2>1
<1> QED
  BY <1>1, InductionOnSets

\* The values of an ordered loop after each of n elements.
IsRun(r, loop, base, n) == r[0] = base /\ \A i \in 1..n : r[i] = StepOf(loop, r[i - 1], i)

LEMMA RunOfFold ==
  ASSUME NEW n \in Nat, NEW loop, loop.ordered, NEW base, NEW h, IsFoldOf(h, loop, base, 1..n)
  PROVE  \E r : IsRun(r, loop, base, n) /\ r[n] = h[1..n]
<1>1. PICK r : r = [i \in 0..n |-> h[1..i]]
  OBVIOUS
<1>2. \A s \in SUBSET (1..n) :
        h[s] = IF s = {} THEN base ELSE StepOf(loop, h[s \ {Max(s)}], Max(s))
  BY DEF IsFoldOf, Picked
<1>3. r[0] = base
  <2>1. 1..0 = {} /\ 0 \in 0..n /\ {} \in SUBSET (1..n)
    OBVIOUS
  <2>2. h[{}] = base
    BY <1>2, <2>1
  <2>3. r[0] = h[1..0]
    BY <1>1, <2>1
  <2> QED
    BY <2>1, <2>2, <2>3
<1>4. ASSUME NEW i \in 1..n PROVE r[i] = StepOf(loop, r[i - 1], i)
  <2>1. 1..i \in SUBSET (1..n) /\ 1..i # {} /\ i \in 0..n /\ i - 1 \in 0..n
    <3>1. i \in Int /\ 1 <= i /\ i <= n
      OBVIOUS
    <3>2. 1..i \subseteq 1..n
      BY <3>1
    <3>3. i \in 1..i
      BY <3>1
    <3>4. i \in 0..n /\ i - 1 \in 0..n
      BY <3>1
    <3> QED
      BY <3>2, <3>3, <3>4
  <2>2. Max(1..i) = i /\ (1..i) \ {i} = 1..(i - 1)
    BY MaxOfPositions
  <2>3. h[1..i] = StepOf(loop, h[1..(i - 1)], i)
    BY <1>2, <2>1, <2>2
  <2>4. r[i] = h[1..i] /\ r[i - 1] = h[1..(i - 1)]
    BY <1>1, <2>1
  <2> QED
    BY <2>3, <2>4
<1>5. r[n] = h[1..n]
  BY <1>1
<1>6. IsRun(r, loop, base, n)
  BY <1>3, <1>4 DEF IsRun
<1> QED
  BY <1>5, <1>6

\* An ordered loop over the positions up to n can be folded.
LEMMA PositionsFoldExists ==
  ASSUME NEW n \in Nat, NEW loop, loop.ordered, NEW base
  PROVE  \E h : IsFoldOf(h, loop, base, 1..n)
<1>1. CanPick(loop, 1..n) /\ IsFiniteSet(1..n)
  BY CanPickLast, FS_Interval
<1> QED
  BY <1>1, FoldOfExists

------------------------------------------------------------------------------
(* The loops of ChainState *)

BlockLoop(txs) == [over |-> "block", ordered |-> TRUE, txs |-> txs]
GenesisLoop(txs) == [over |-> "genesis", ordered |-> TRUE, txs |-> txs]
AccusedLoop(w) == [over |-> "accused", ordered |-> FALSE, state |-> w]
SharesLoop(height) == [over |-> "shares", ordered |-> FALSE, height |-> height]
RowsLoop(w) == [over |-> "rows", ordered |-> TRUE, state |-> w, nodes |-> ChangedNodes(w)]

\* What these loops do with an element, and in which order they take the elements.
LEMMA BlockSteps ==
  ASSUME NEW txs
  PROVE  /\ \A acc, x : StepOf(BlockLoop(txs), acc, x) = ExecTx(acc, txs[x])
         /\ \A s : Picked(BlockLoop(txs), s) = Max(s)
         /\ BlockLoop(txs).ordered
<1>1. /\ BlockLoop(txs).over = "block" /\ BlockLoop(txs).ordered
      /\ BlockLoop(txs).txs = txs
  BY DEF BlockLoop
<1> QED
  BY <1>1 DEF StepOf, Picked

LEMMA GenesisSteps ==
  ASSUME NEW txs
  PROVE  /\ \A acc, x : StepOf(GenesisLoop(txs), acc, x) = ExecGenesisTx(acc, txs[x])
         /\ \A s : Picked(GenesisLoop(txs), s) = Max(s)
         /\ GenesisLoop(txs).ordered
<1>1. /\ GenesisLoop(txs).over = "genesis" /\ GenesisLoop(txs).ordered
      /\ GenesisLoop(txs).txs = txs
  BY DEF GenesisLoop
<1> QED
  BY <1>1 DEF StepOf, Picked

LEMMA AccusedSteps ==
  ASSUME NEW w
  PROVE  /\ \A acc, x : StepOf(AccusedLoop(w), acc, x) = SetSlashing(acc, SlashedNode(w, x))
         /\ \A s : Picked(AccusedLoop(w), s) = (CHOOSE x \in s : TRUE)
         /\ ~AccusedLoop(w).ordered
<1>1. /\ AccusedLoop(w).over = "accused" /\ ~AccusedLoop(w).ordered
      /\ AccusedLoop(w).state = w
  BY DEF AccusedLoop
<1> QED
  BY <1>1 DEF StepOf, Picked

LEMMA SharesSteps ==
  ASSUME NEW height
  PROVE  /\ \A acc, x : StepOf(SharesLoop(height), acc, x) = 
           Update(Update(acc, FeesAccount, 0, height), Owner, 0, height)
         /\ \A s : Picked(SharesLoop(height), s) = (CHOOSE x \in s : TRUE)
         /\ ~SharesLoop(height).ordered
<1>1. /\ SharesLoop(height).over = "shares" /\ ~SharesLoop(height).ordered
      /\ SharesLoop(height).height = height
  BY DEF SharesLoop
<1> QED
  BY <1>1 DEF StepOf, Picked

LEMMA RowsSteps ==
  ASSUME NEW w
  PROVE  /\ \A acc, x : StepOf(RowsLoop(w), acc, x) = 
           LET n == ChangedNodes(w)[x]
           IN  Put(acc, KeyOf(w, n), [node |-> n, power |-> VotingPower(w, n)])
         /\ \A s : Picked(RowsLoop(w), s) = Max(s)
         /\ RowsLoop(w).ordered
<1>1. /\ RowsLoop(w).over = "rows" /\ RowsLoop(w).ordered
      /\ RowsLoop(w).state = w /\ RowsLoop(w).nodes = ChangedNodes(w)
  BY DEF RowsLoop
<1> QED
  BY <1>1 DEF StepOf, Picked

\* A loop over a sequence can be folded.
LEMMA SequenceFoldExists ==
  ASSUME NEW S, NEW s \in Seq(S), NEW loop, loop.ordered, NEW base
  PROVE  /\ CanPick(loop, DOMAIN s) /\ IsFiniteSet(DOMAIN s)
         /\ \E h : IsFoldOf(h, loop, base, DOMAIN s)
<1>1. Len(s) \in Nat /\ DOMAIN s = 1..Len(s)
  OBVIOUS
<1>2. CanPick(loop, DOMAIN s) /\ IsFiniteSet(DOMAIN s)
  BY <1>1, CanPickLast, FS_Interval
<1> QED
  BY <1>2, FoldOfExists

IsBlockFold(h, w, txs) ==
  h = [s \in SUBSET DOMAIN txs |->
         IF s = {} THEN w ELSE LET i == Max(s) IN ExecTx(h[s \ {i}], txs[i])]

LEMMA BlockFold ==
  ASSUME NEW w, NEW S, NEW txs \in Seq(S)
  PROVE  \E h : IsFoldOf(h, BlockLoop(txs), w, DOMAIN txs) /\ h[DOMAIN txs] = FoldLeft(ExecTx, w, txs)
<1>1. PICK h : IsFoldOf(h, BlockLoop(txs), w, DOMAIN txs)
  BY BlockSteps, SequenceFoldExists
<1>2. ASSUME NEW g PROVE IsFoldOf(g, BlockLoop(txs), w, DOMAIN txs) <=> IsBlockFold(g, w, txs)
  <2> DEFINE A(s) == IF s = {} THEN w
                     ELSE StepOf(BlockLoop(txs), g[s \ {Picked(BlockLoop(txs), s)}],
                                 Picked(BlockLoop(txs), s))
             B(s) == IF s = {} THEN w
                     ELSE LET i == Max(s) IN ExecTx(g[s \ {i}], txs[i])
  <2>1. \A s : A(s) = B(s)
    BY BlockSteps
  <2> HIDE DEF A, B
  <2>2. [s \in SUBSET DOMAIN txs |-> A(s)] = [s \in SUBSET DOMAIN txs |-> B(s)]
    BY <2>1
  <2> QED
    BY <2>2 DEF IsFoldOf, IsBlockFold, A, B
<1> DEFINE k == CHOOSE g : IsBlockFold(g, w, txs)
<1>3. IsFoldOf(k, BlockLoop(txs), w, DOMAIN txs)
  BY <1>1, <1>2
<1>4. FoldLeft(ExecTx, w, txs) = k[DOMAIN txs]
  BY DEF FoldLeft, MapThenFoldSet, IsBlockFold
<1> QED
  BY <1>3, <1>4

IsGenesisFold(h, w, txs) ==
  h = [s \in SUBSET DOMAIN txs |->
         IF s = {} THEN w ELSE LET i == Max(s) IN ExecGenesisTx(h[s \ {i}], txs[i])]

LEMMA GenesisFold ==
  ASSUME NEW w, NEW S, NEW txs \in Seq(S)
  PROVE  \E h : /\ IsFoldOf(h, GenesisLoop(txs), w, DOMAIN txs)
                /\ h[DOMAIN txs] = FoldLeft(ExecGenesisTx, w, txs)
<1>1. PICK h : IsFoldOf(h, GenesisLoop(txs), w, DOMAIN txs)
  BY GenesisSteps, SequenceFoldExists
<1>2. ASSUME NEW g PROVE IsFoldOf(g, GenesisLoop(txs), w, DOMAIN txs) <=> IsGenesisFold(g, w, txs)
  <2> DEFINE A(s) == IF s = {} THEN w
                     ELSE StepOf(GenesisLoop(txs), g[s \ {Picked(GenesisLoop(txs), s)}],
                                 Picked(GenesisLoop(txs), s))
             B(s) == IF s = {} THEN w
                     ELSE LET i == Max(s) IN ExecGenesisTx(g[s \ {i}], txs[i])
  <2>1. \A s : A(s) = B(s)
    BY GenesisSteps
  <2> HIDE DEF A, B
  <2>2. [s \in SUBSET DOMAIN txs |-> A(s)] = [s \in SUBSET DOMAIN txs |-> B(s)]
    BY <2>1
  <2> QED
    BY <2>2 DEF IsFoldOf, IsGenesisFold, A, B
<1> DEFINE k == CHOOSE g : IsGenesisFold(g, w, txs)
<1>3. IsFoldOf(k, GenesisLoop(txs), w, DOMAIN txs)
  BY <1>1, <1>2
<1>4. FoldLeft(ExecGenesisTx, w, txs) = k[DOMAIN txs]
  BY DEF FoldLeft, MapThenFoldSet, IsGenesisFold
<1> QED
  BY <1>3, <1>4

IsAccusedFold(h, w, keys) ==
  h = [s \in SUBSET keys |->
         IF s = {} THEN w
         ELSE LET key == CHOOSE x \in s : TRUE
              IN  SetSlashing(h[s \ {key}], SlashedNode(w, key))]

LEMMA AccusedFold ==
  ASSUME NEW w, NEW keys, IsFiniteSet(keys)
  PROVE  \E h : IsFoldOf(h, AccusedLoop(w), w, keys) /\ h[keys] = Misbehaviours(w, keys)
<1>1. PICK h : IsFoldOf(h, AccusedLoop(w), w, keys)
  BY AccusedSteps, CanPickAny, FoldOfExists
<1>2. ASSUME NEW g PROVE IsFoldOf(g, AccusedLoop(w), w, keys) <=> IsAccusedFold(g, w, keys)
  <2> DEFINE A(s) == IF s = {} THEN w
                     ELSE StepOf(AccusedLoop(w), g[s \ {Picked(AccusedLoop(w), s)}],
                                 Picked(AccusedLoop(w), s))
             B(s) == IF s = {} THEN w
                     ELSE LET key == CHOOSE x \in s : TRUE
                          IN  SetSlashing(g[s \ {key}], SlashedNode(w, key))
  <2>1. \A s : A(s) = B(s)
    BY AccusedSteps
  <2> HIDE DEF A, B
  <2>2. [s \in SUBSET keys |-> A(s)] = [s \in SUBSET keys |-> B(s)]
    BY <2>1
  <2> QED
    BY <2>2 DEF IsFoldOf, IsAccusedFold, A, B
<1> DEFINE k == CHOOSE g : IsAccusedFold(g, w, keys)
<1>3. IsFoldOf(k, AccusedLoop(w), w, keys)
  BY <1>1, <1>2
<1>4. Misbehaviours(w, keys) = k[keys]
  BY DEF Misbehaviours, FoldSet, MapThenFoldSet, IsAccusedFold
<1> QED
  BY <1>3, <1>4

IsSharesFold(h, w, keys) ==
  h = [s \in SUBSET keys |->
         IF s = {} THEN w
         ELSE LET key == CHOOSE x \in s : TRUE
              IN  Update(Update(h[s \ {key}], FeesAccount, 0, w.height), Owner, 0, w.height)]

LEMMA SharesFold ==
  ASSUME NEW w, NEW voters, IsFiniteSet(voters \cap DOMAIN w.rows), AccountState(w, FeesAccount).fees # 0
  PROVE  \E h : /\ IsFoldOf(h, SharesLoop(w.height), w, voters \cap DOMAIN w.rows)
                /\ h[voters \cap DOMAIN w.rows] = DispatchFees(w, voters)
<1> DEFINE keys == voters \cap DOMAIN w.rows
<1>1. PICK h : IsFoldOf(h, SharesLoop(w.height), w, keys)
  BY SharesSteps, CanPickAny, FoldOfExists
<1>2. ASSUME NEW g PROVE IsFoldOf(g, SharesLoop(w.height), w, keys) <=> IsSharesFold(g, w, keys)
  <2> DEFINE A(s) == IF s = {} THEN w
                     ELSE StepOf(SharesLoop(w.height), g[s \ {Picked(SharesLoop(w.height), s)}],
                                 Picked(SharesLoop(w.height), s))
             B(s) == IF s = {} THEN w
                     ELSE LET key == CHOOSE x \in s : TRUE
                          IN  Update(Update(g[s \ {key}], FeesAccount, 0, w.height),
                                     Owner, 0, w.height)
  <2>1. \A s : A(s) = B(s)
    BY SharesSteps
  <2> HIDE DEF A, B
  <2>2. [s \in SUBSET keys |-> A(s)] = [s \in SUBSET keys |-> B(s)]
    BY <2>1
  <2> QED
    BY <2>2 DEF IsFoldOf, IsSharesFold, A, B
<1> DEFINE k == CHOOSE g : IsSharesFold(g, w, keys)
<1>3. IsFoldOf(k, SharesLoop(w.height), w, keys)
  BY <1>1, <1>2
<1>4. DispatchFees(w, voters) = k[keys]
  BY DEF DispatchFees, FoldSet, MapThenFoldSet, IsSharesFold
<1> QED
  BY <1>3, <1>4

IsRowsFold(h, w) ==
  h = [s \in SUBSET DOMAIN ChangedNodes(w) |->
         IF s = {} THEN w.rows
         ELSE LET i == Max(s)
                  n == ChangedNodes(w)[i]
              IN  Put(h[s \ {i}], KeyOf(w, n), [node |-> n, power |-> VotingPower(w, n)])]

LEMMA RowsFold ==
  ASSUME NEW w, NEW S, ChangedNodes(w) \in Seq(S)
  PROVE  \E h : /\ IsFoldOf(h, RowsLoop(w), w.rows, DOMAIN ChangedNodes(w))
                /\ h[DOMAIN ChangedNodes(w)] = UpdatedRows(w)
<1> DEFINE all == DOMAIN ChangedNodes(w)
<1>1. PICK h : IsFoldOf(h, RowsLoop(w), w.rows, all)
  BY RowsSteps, SequenceFoldExists
<1>2. ASSUME NEW g PROVE IsFoldOf(g, RowsLoop(w), w.rows, all) <=> IsRowsFold(g, w)
  <2> DEFINE A(s) == IF s = {} THEN w.rows
                     ELSE StepOf(RowsLoop(w), g[s \ {Picked(RowsLoop(w), s)}],
                                 Picked(RowsLoop(w), s))
             B(s) == IF s = {} THEN w.rows
                     ELSE LET i == Max(s)
                              n == ChangedNodes(w)[i]
                          IN  Put(g[s \ {i}], KeyOf(w, n),
                                  [node |-> n, power |-> VotingPower(w, n)])
  <2>1. \A s : A(s) = B(s)
    BY RowsSteps
  <2> HIDE DEF A, B
  <2>2. [s \in SUBSET all |-> A(s)] = [s \in SUBSET all |-> B(s)]
    BY <2>1
  <2> QED
    BY <2>2 DEF IsFoldOf, IsRowsFold, A, B
<1> DEFINE k == CHOOSE g : IsRowsFold(g, w)
<1>3. IsFoldOf(k, RowsLoop(w), w.rows, all)
  BY <1>1, <1>2
<1>4. UpdatedRows(w) = k[all]
  BY DEF UpdatedRows, FoldLeft, MapThenFoldSet, IsRowsFold
<1> QED
  BY <1>3, <1>4

------------------------------------------------------------------------------
(* Tables *)

LEMMA PutEffect ==
  ASSUME NEW f, NEW x, NEW a, NEW g, g = Put(f, x, a)
  PROVE  /\ DOMAIN g = DOMAIN f \cup {x}
         /\ g[x] = a
         /\ \A y \in DOMAIN f : y # x => g[y] = f[y]
BY DEF Put

StateFields == {"height", "hashes", "microblocks", "vbs", "merkle", "vbRadix", "tokenRadix",
                "accounts", "history", "touched", "modified", "index", "rows"}
AccountFields == {"height", "last", "fees", "stake", "slashed"}
VbFields == {"height", "root", "key", "approved"}

IsState(w) == w = [f \in StateFields |-> w[f]]
IsAccount(a) ==
  /\ a = [f \in AccountFields |-> a[f]]
  /\ a.height \in Nat /\ a.fees \in Nat /\ a.stake \in [Nodes -> Nat] /\ a.slashed \subseteq Nodes
IsVb(state) == state = [f \in VbFields |-> state[f]]

\* Somebody declared this key for the virtual blockchain.
Declared(microblocks, vb, key) ==
  \E mb \in DOMAIN microblocks :
    mb.vb = vb /\ mb.tx.kind \in {"create", "declare"} /\ mb.tx.key = key

GoodAccounts(w) == \A x \in Accounts : IsAccount(AccountState(w, x))
GoodVbs(w) ==
  \A vb \in DOMAIN w.vbs :
    /\ vb \in VirtualBlockchains /\ IsVb(w.vbs[vb])
    /\ Declared(w.microblocks, vb, KeyOf(w, vb))
GoodIndex(w) == w.index \subseteq Nodes \cap DOMAIN w.vbs

GoodRows(w) ==
  \A key \in DOMAIN w.rows :
    /\ w.rows[key].node \in w.index /\ w.rows[key].power \in Nat
    /\ Declared(w.microblocks, w.rows[key].node, key)

\* The organization has got its first tokens.
GoodOwner(w) == Owner \in DOMAIN w.vbs => Owner \in DOMAIN w.accounts

\* The tables are as the nodes and the organization can have them.
Sound(w) ==
  IsState(w) /\ GoodAccounts(w) /\ GoodVbs(w) /\ GoodIndex(w) /\ GoodRows(w) /\ GoodOwner(w)

\* No more than accounts, the trees of their states and their histories has changed.
SameChain(w, v) ==
  /\ v.height = w.height /\ v.hashes = w.hashes /\ v.microblocks = w.microblocks
  /\ v.vbs = w.vbs /\ v.merkle = w.merkle /\ v.vbRadix = w.vbRadix
  /\ v.modified = w.modified /\ v.index = w.index /\ v.rows = w.rows

LEMMA OwnerAndFees == Accounts = {Owner, FeesAccount} /\ Owner \in Accounts /\ FeesAccount \in Accounts /\ Owner # FeesAccount
BY ChainStateAssumption DEF Accounts, VirtualBlockchains

LEMMA NewAccountType == IsAccount(NewAccount)
BY DEF IsAccount, AccountFields, NewAccount

------------------------------------------------------------------------------
(* Accounts *)

\* v is w where account x has been saved as a.
Saved(w, v, x, a) ==
  /\ IsState(v) /\ SameChain(w, v)
  /\ v.touched = w.touched \cup {x}
  /\ v.tokenRadix = SetValue(w.tokenRadix, IdOf[x], a)
  /\ DOMAIN v.accounts = DOMAIN w.accounts \cup {x}
  /\ AccountState(v, x) = a
  /\ \A y \in Accounts \ {x} : AccountState(v, y) = AccountState(w, y)

LEMMA SaveAccountEffect ==
  ASSUME NEW w, IsState(w), NEW x, NEW a, NEW v, v = SaveAccountState(w, x, a)
  PROVE  Saved(w, v, x, a) /\ v.history = w.history
<1>1. /\ IsState(v) /\ SameChain(w, v) /\ v.history = w.history
      /\ v.touched = w.touched \cup {x} /\ v.accounts = Put(w.accounts, x, a)
      /\ v.tokenRadix = SetValue(w.tokenRadix, IdOf[x], a)
  <2>1. PICK t, p : t = SetValue(w.tokenRadix, IdOf[x], a) /\ p = Put(w.accounts, x, a)
    OBVIOUS
  <2>2. v = [w EXCEPT !.accounts = p, !.tokenRadix = t, !.touched = @ \cup {x}]
    BY <2>1 DEF SaveAccountState
  <2> QED
    BY <2>1, <2>2 DEF IsState, StateFields, SameChain
<1>2. PICK f, g : f = w.accounts /\ g = v.accounts
  OBVIOUS
<1>3. g = Put(f, x, a)
  BY <1>1, <1>2
<1>4. DOMAIN g = DOMAIN f \cup {x} /\ g[x] = a /\ \A y \in DOMAIN f : y # x => g[y] = f[y]
  BY <1>3 DEF Put
<1> QED
  BY <1>1, <1>2, <1>4 DEF Saved, AccountState

LEMMA SavedSound ==
  ASSUME NEW w, Sound(w), NEW x, NEW a, IsAccount(a), NEW v, Saved(w, v, x, a)
  PROVE  Sound(v)
<1>1. GoodAccounts(v)
  BY DEF Sound, GoodAccounts, Saved
<1>2. GoodVbs(v) /\ GoodIndex(v) /\ GoodRows(v) /\ GoodOwner(v)
  BY DEF Sound, GoodVbs, GoodIndex, GoodRows, GoodOwner, Saved, SameChain, KeyOf
<1> QED
  BY <1>1, <1>2 DEF Sound, Saved

\* One side of a transfer, b being what the account was.
Transferred(w, v, x, fees, reference, b, a) ==
  /\ Saved(w, v, x, a) /\ IsAccount(a)
  /\ b = AccountState(w, x)
  /\ a.height = b.height + 1 /\ a.fees = fees /\ a.stake = b.stake /\ a.slashed = b.slashed
  /\ a.last = [account |-> x, height |-> b.height + 1, reference |-> reference]
  /\ v.history = Put(w.history, a.last,
                     [height |-> b.height + 1, reference |-> reference, previous |-> b.last])

LEMMA UpdateEffect ==
  ASSUME NEW w, Sound(w), NEW x \in Accounts, NEW fees \in Nat, NEW reference,
         NEW v, v = Update(w, x, fees, reference)
  PROVE  \E a, b : Transferred(w, v, x, fees, reference, b, a)
<1>1. PICK b : b = AccountState(w, x)
  OBVIOUS
<1>2. IsAccount(b)
  BY <1>1 DEF Sound, GoodAccounts
<1>3. PICK c : c = [b EXCEPT !.height = @ + 1, !.fees = fees]
  OBVIOUS
<1>4. /\ IsAccount(c) /\ c.height = b.height + 1 /\ c.fees = fees
      /\ c.stake = b.stake /\ c.slashed = b.slashed /\ c.last = b.last
  <2>1. b = [f \in AccountFields |-> b[f]] /\ b.height \in Nat /\ b.stake \in [Nodes -> Nat] /\ b.slashed \subseteq Nodes
    BY <1>2 DEF IsAccount
  <2>2. /\ c = [f \in AccountFields |-> c[f]]
        /\ c.height = b.height + 1 /\ c.fees = fees
        /\ c.stake = b.stake /\ c.slashed = b.slashed /\ c.last = b.last
    BY <1>3, <2>1 DEF AccountFields
  <2>3. b.height + 1 \in Nat
    BY <2>1
  <2> QED
    BY <2>1, <2>2, <2>3 DEF IsAccount
<1>5. PICK entry : entry = HistoryEntry(x, c, reference)
  OBVIOUS
<1>6. entry = [height |-> b.height + 1, reference |-> reference, previous |-> b.last]
  BY <1>4, <1>5 DEF HistoryEntry
<1>7. PICK hash : hash = HistoryHash(x, entry)
  OBVIOUS
<1>8. hash = [account |-> x, height |-> b.height + 1, reference |-> reference]
  BY <1>6, <1>7 DEF HistoryHash
<1>9. PICK a : a = [c EXCEPT !.last = hash]
  OBVIOUS
<1>10. /\ IsAccount(a) /\ a.height = c.height /\ a.fees = c.fees /\ a.stake = c.stake
       /\ a.slashed = c.slashed /\ a.last = hash
  BY <1>4, <1>9 DEF IsAccount, AccountFields
<1>11. PICK u : u = [w EXCEPT !.history = Put(@, hash, entry)]
  OBVIOUS
<1>12. /\ IsState(u) /\ SameChain(w, u) /\ u.touched = w.touched /\ u.accounts = w.accounts
       /\ u.tokenRadix = w.tokenRadix
       /\ u.history = Put(w.history, hash, entry)
  BY <1>11 DEF Sound, IsState, StateFields, SameChain
<1>13. v = SaveAccountState(u, x, a)
  BY <1>1, <1>3, <1>5, <1>7, <1>9, <1>11 DEF Update, WithEntry
<1>14. Saved(u, v, x, a) /\ v.history = u.history
  BY <1>12, <1>13, SaveAccountEffect
<1>15. Saved(w, v, x, a)
  BY <1>12, <1>14 DEF Saved, SameChain, AccountState
<1>16. Transferred(w, v, x, fees, reference, b, a)
  BY <1>1, <1>4, <1>6, <1>8, <1>10, <1>12, <1>14, <1>15 DEF Transferred
<1> QED
  BY <1>16

------------------------------------------------------------------------------
(* What a block does, in elementary steps *)

\* v is u where the microblock mb of vb has been stored, with the new state of vb.
StoredAs(u, v, vb, state, mb) ==
  /\ IsState(v)
  /\ v.tokenRadix = u.tokenRadix /\ v.vbRadix = SetValue(u.vbRadix, IdOf[vb], state)
  /\ v.merkle = Put(u.merkle, vb, AddLeaf(MerkleOf(u, vb), state.height - 1, mb))
  /\ state.root = RootOf(v.merkle[vb], state.height)
  /\ v.microblocks = Put(u.microblocks, mb, [vb |-> vb, height |-> state.height])
  /\ v.height = u.height /\ v.hashes = u.hashes /\ v.modified = u.modified /\ v.rows = u.rows
  /\ v.accounts = u.accounts /\ v.history = u.history /\ v.touched = u.touched
  /\ DOMAIN v.microblocks = DOMAIN u.microblocks \cup {mb}
  /\ DOMAIN v.vbs = DOMAIN u.vbs \cup {vb} /\ v.vbs[vb] = state
  /\ \A x \in DOMAIN u.vbs : x # vb => v.vbs[x] = u.vbs[x]
  /\ u.index \subseteq v.index /\ v.index \subseteq u.index \cup ({vb} \cap Nodes)

\* An account is saved with a new entry in its history, or with as many entries as before.
WithNewEntry(w, v, x, a) ==
  \E fees \in Nat : \E reference, b : Transferred(w, v, x, fees, reference, b, a)
WithSameEntries(w, v, x, a) ==
  /\ x \in DOMAIN w.accounts /\ v.history = w.history
  /\ a.height = w.accounts[x].height /\ a.last = w.accounts[x].last
AccountStep(w, v) ==
  \E x \in Accounts : \E a : /\ Saved(w, v, x, a) /\ IsAccount(a)
                            /\ (WithNewEntry(w, v, x, a) \/ WithSameEntries(w, v, x, a))

\* A microblock is stored at the next height of its virtual blockchain.
HeightOf(w, vb) == IF vb \in DOMAIN w.vbs THEN w.vbs[vb].height ELSE 0
IsNext(w, vb, state, mb) ==
  /\ vb \in VirtualBlockchains /\ IsVb(state) /\ state.height = HeightOf(w, vb) + 1
  /\ mb.vb = vb /\ mb.height = state.height
MicroblockStep(w, v) ==
  \E vb, state, mb : IsNext(w, vb, state, mb) /\ StoredAs(w, v, vb, state, mb)

\* Only rows of the validator set are written.
RowsStep(w, v) ==
  /\ v.height = w.height /\ v.hashes = w.hashes /\ v.modified = w.modified
  /\ v.microblocks = w.microblocks /\ v.vbs = w.vbs /\ v.merkle = w.merkle
  /\ v.vbRadix = w.vbRadix /\ v.tokenRadix = w.tokenRadix
  /\ v.accounts = w.accounts /\ v.history = w.history /\ v.touched = w.touched

Step(w, v) == Sound(w) /\ Sound(v) /\ (AccountStep(w, v) \/ MicroblockStep(w, v) \/ RowsStep(w, v))

\* v is what some steps make of w.
IsTrace(tr, n, w, v) == tr[0] = w /\ tr[n] = v /\ \A i \in 1..n : Step(tr[i - 1], tr[i])
Leads(w, v) == \E n \in Nat : \E tr : IsTrace(tr, n, w, v)

LEMMA LeadsNowhere == ASSUME NEW w PROVE Leads(w, w)
<1>1. PICK tr : tr = [i \in {0} |-> w]
  OBVIOUS
<1>2. IsTrace(tr, 0, w, w)
  BY <1>1 DEF IsTrace
<1> QED
  BY <1>2 DEF Leads

LEMMA LeadsOneStep == ASSUME NEW w, NEW v, Step(w, v) PROVE Leads(w, v)
<1>1. PICK tr : tr = [i \in 0..1 |-> IF i = 0 THEN w ELSE v]
  OBVIOUS
<1>2. tr[0] = w /\ tr[1] = v /\ \A i \in 1..1 : i - 1 = 0 /\ i = 1
  BY <1>1
<1>3. \A i \in 1..1 : Step(tr[i - 1], tr[i])
  BY <1>2
<1>4. IsTrace(tr, 1, w, v)
  BY <1>2, <1>3 DEF IsTrace
<1> QED
  BY <1>4 DEF Leads

LEMMA LeadsOn ==
  ASSUME NEW w, NEW v, NEW u, Leads(w, v), Leads(v, u)
  PROVE  Leads(w, u)
<1>1. PICK n \in Nat : \E f : IsTrace(f, n, w, v)
  BY DEF Leads
<1>2. PICK f : IsTrace(f, n, w, v)
  BY <1>1
<1>3. PICK m \in Nat : \E g : IsTrace(g, m, v, u)
  BY DEF Leads
<1>4. PICK g : IsTrace(g, m, v, u)
  BY <1>3
<1>5. PICK h : h = [i \in 0..(n + m) |-> IF i <= n THEN f[i] ELSE g[i - n]]
  OBVIOUS
<1>6. /\ f[0] = w /\ f[n] = v /\ \A i \in 1..n : Step(f[i - 1], f[i])
      /\ g[0] = v /\ g[m] = u /\ \A i \in 1..m : Step(g[i - 1], g[i])
  BY <1>2, <1>4 DEF IsTrace
<1>7. \A i \in 0..n : h[i] = f[i]
  BY <1>5
<1>8. \A i \in 0..m : h[n + i] = g[i]
  <2> SUFFICES ASSUME NEW i \in 0..m PROVE h[n + i] = g[i]
    OBVIOUS
  <2>1. CASE i = 0
    BY <1>6, <1>7, <2>1
  <2>2. CASE i # 0
    <3>1. n + i \in 0..(n + m) /\ ~(n + i <= n) /\ (n + i) - n = i
      BY <2>2
    <3> QED
      BY <1>5, <3>1
  <2> QED
    BY <2>1, <2>2
<1>9. ASSUME NEW i \in 1..(n + m) PROVE Step(h[i - 1], h[i])
  <2>1. CASE i <= n
    <3>1. i \in 1..n /\ i \in 0..n /\ i - 1 \in 0..n
      BY <2>1
    <3> QED
      BY <1>6, <1>7, <3>1
  <2>2. CASE ~(i <= n)
    <3>1. PICK j : j = i - n
      OBVIOUS
    <3>2. j \in 1..m /\ j \in 0..m /\ j - 1 \in 0..m /\ n + j = i /\ n + (j - 1) = i - 1
      BY <2>2, <3>1
    <3>3. h[i] = g[j] /\ h[i - 1] = g[j - 1]
      BY <1>8, <3>2
    <3> QED
      BY <1>6, <3>2, <3>3
  <2> QED
    BY <2>1, <2>2
<1>10. h[0] = w /\ h[n + m] = u /\ n + m \in Nat
  BY <1>6, <1>7, <1>8
<1>11. IsTrace(h, n + m, w, u)
  BY <1>9, <1>10 DEF IsTrace
<1> QED
  BY <1>10, <1>11 DEF Leads

------------------------------------------------------------------------------
(* Payments *)

SlashedOf(w) == AccountState(w, Owner).slashed

\* v is what payments make of w.
Keeps(w, v) == Sound(v) /\ SameChain(w, v) /\ SlashedOf(v) = SlashedOf(w) /\ Leads(w, v)

LEMMA KeepsItself == ASSUME NEW w, Sound(w) PROVE Keeps(w, w)
BY LeadsNowhere DEF Keeps, SameChain

LEMMA KeepsOn ==
  ASSUME NEW w, NEW v, NEW u, Keeps(w, v), Keeps(v, u)
  PROVE  Keeps(w, u)
BY LeadsOn DEF Keeps, SameChain

LEMMA UpdateKeeps ==
  ASSUME NEW w, Sound(w), NEW x, x \in Accounts, NEW fees, fees \in Nat, NEW reference,
         NEW v, v = Update(w, x, fees, reference)
  PROVE  Keeps(w, v) /\ DOMAIN v.accounts = DOMAIN w.accounts \cup {x}
<1>1. PICK a, b : Transferred(w, v, x, fees, reference, b, a)
  BY UpdateEffect
<1>2. Saved(w, v, x, a) /\ IsAccount(a) /\ b = AccountState(w, x) /\ a.slashed = b.slashed
  BY <1>1 DEF Transferred
<1>3. Sound(v)
  BY <1>2, SavedSound
<1>4. AccountState(v, Owner).slashed = AccountState(w, Owner).slashed
  BY <1>2, OwnerAndFees DEF Saved
<1>5. AccountStep(w, v)
  BY <1>1, <1>2 DEF AccountStep, WithNewEntry
<1>6. Leads(w, v)
  BY <1>3, <1>5, LeadsOneStep DEF Step
<1> QED
  BY <1>2, <1>3, <1>4, <1>6 DEF Keeps, Saved, SlashedOf

LEMMA FeesOf ==
  ASSUME NEW w, Sound(w), NEW x, x \in Accounts
  PROVE  AccountState(w, x).fees \in Nat
BY DEF Sound, GoodAccounts, IsAccount

LEMMA PayFeesKeeps ==
  ASSUME NEW w, Sound(w), NEW mb, NEW v, v = PayFees(w, mb)
  PROVE  Keeps(w, v) /\ Owner \in DOMAIN v.accounts
<1>1. PICK u : u = Update(w, Owner, 0, mb)
  OBVIOUS
<1>2. Keeps(w, u)
  BY <1>1, OwnerAndFees, UpdateKeeps
<1>3. Sound(u)
  BY <1>2 DEF Keeps
<1>4. PICK fees : fees = AccountState(w, FeesAccount).fees + 1
  OBVIOUS
<1>5. fees \in Nat
  BY <1>4, FeesOf, OwnerAndFees
<1>6. v = Update(u, FeesAccount, fees, mb)
  BY <1>1, <1>4 DEF PayFees
<1>7. Keeps(u, v)
  BY <1>3, <1>5, <1>6, OwnerAndFees, UpdateKeeps
<1>8. Owner \in DOMAIN v.accounts
  <2>1. Owner \in DOMAIN u.accounts
    BY <1>1, OwnerAndFees, UpdateKeeps
  <2> QED
    BY <1>3, <1>5, <1>6, <2>1, OwnerAndFees, UpdateKeeps
<1> QED
  BY <1>2, <1>7, <1>8, KeepsOn

LEMMA ShareKeeps ==
  ASSUME NEW w, Sound(w), NEW height,
         NEW v, v = Update(Update(w, FeesAccount, 0, height), Owner, 0, height)
  PROVE  Keeps(w, v)
<1>1. PICK u : u = Update(w, FeesAccount, 0, height)
  OBVIOUS
<1>2. Keeps(w, u)
  BY <1>1, OwnerAndFees, UpdateKeeps
<1>3. Sound(u) /\ v = Update(u, Owner, 0, height)
  BY <1>1, <1>2 DEF Keeps
<1>4. Keeps(u, v)
  BY <1>3, OwnerAndFees, UpdateKeeps
<1> QED
  BY <1>2, <1>4, KeepsOn

LEMMA DispatchFeesKeeps ==
  ASSUME NEW w, Sound(w), IsFiniteSet(DOMAIN w.rows), NEW voters,
         NEW v, v = DispatchFees(w, voters)
  PROVE  Keeps(w, v)
<1>1. CASE AccountState(w, FeesAccount).fees = 0
  <2>1. v = w
    BY <1>1 DEF DispatchFees
  <2> QED
    BY <2>1, KeepsItself
<1>2. CASE AccountState(w, FeesAccount).fees # 0
  <2>1. PICK S : S = voters \cap DOMAIN w.rows
    OBVIOUS
  <2>2. IsFiniteSet(S)
    BY <2>1, FS_Subset
  <2>3. PICK h : IsFoldOf(h, SharesLoop(w.height), w, S) /\ h[S] = v
    BY <1>2, <2>1, <2>2, SharesFold
  <2>4. PICK loop : loop = SharesLoop(w.height)
    OBVIOUS
  <2>5. CanPick(loop, S) /\ IsFoldOf(h, loop, w, S)
    BY <2>3, <2>4, SharesSteps, CanPickAny
  <2>6. h[{}] = w
    BY <2>2, <2>5, FoldStep
  <2>7. PICK F : F = {s \in SUBSET S : Keeps(w, h[s])}
    OBVIOUS
  <2>8. {} \in F
    BY <2>6, <2>7, KeepsItself
  <2>9. ASSUME NEW s \in SUBSET S, NEW x \in S,
               x \in s /\ s \ {x} \in F /\ h[s] = StepOf(loop, h[s \ {x}], x)
        PROVE  s \in F
    <3>1. PICK u : u = h[s \ {x}]
      OBVIOUS
    <3>2. Keeps(w, u)
      BY <2>7, <2>9, <3>1
    <3>3. Sound(u)
      BY <3>2 DEF Keeps
    <3>4. h[s] = Update(Update(u, FeesAccount, 0, w.height), Owner, 0, w.height)
      BY <2>4, <2>9, <3>1, SharesSteps
    <3>5. Keeps(u, h[s])
      BY <3>3, <3>4, ShareKeeps
    <3>6. Keeps(w, h[s])
      BY <3>2, <3>5, KeepsOn
    <3> QED
      BY <2>7, <3>6
  <2>10. S \in F
    BY <2>2, <2>5, <2>8, <2>9, FoldStaysIn
  <2> QED
    BY <2>3, <2>7, <2>10
<1> QED
  BY <1>1, <1>2

\* Nothing but the stake or what is slashed changes: the account has its row already.
LEMMA SaveKeepsEntries ==
  ASSUME NEW w, Sound(w), Owner \in DOMAIN w.accounts, NEW a, IsAccount(a),
         a.height = AccountState(w, Owner).height, a.last = AccountState(w, Owner).last,
         NEW v, v = SaveAccountState(w, Owner, a)
  PROVE  Saved(w, v, Owner, a) /\ Sound(v) /\ Leads(w, v)
<1>1. Saved(w, v, Owner, a) /\ v.history = w.history
  BY SaveAccountEffect DEF Sound
<1>2. Sound(v)
  BY <1>1, SavedSound
<1>3. WithSameEntries(w, v, Owner, a)
  BY <1>1 DEF WithSameEntries, AccountState
<1>4. AccountStep(w, v)
  BY <1>1, <1>3, OwnerAndFees DEF AccountStep
<1>5. Leads(w, v)
  BY <1>2, <1>4, LeadsOneStep DEF Step
<1> QED
  BY <1>1, <1>2, <1>5

LEMMA AccountUpdatedKeeps ==
  ASSUME NEW w, Sound(w), NEW tx, IsTransaction(tx), ~IsRefused(w, tx), NEW mb,
         NEW v, v = AccountUpdated(w, tx, mb)
  PROVE  Keeps(w, v) /\ (tx.vb = Owner => Owner \in DOMAIN v.accounts)
<1>1. CASE tx.kind = "create" /\ tx.vb = Owner
  <2>1. v = Update(w, Owner, 0, mb)
    BY <1>1 DEF AccountUpdated
  <2>2. Owner \in DOMAIN v.accounts
    BY <2>1, OwnerAndFees, UpdateKeeps
  <2> QED
    BY <2>1, <2>2, OwnerAndFees, UpdateKeeps
<1>2. CASE tx.kind = "stake"
  <2>1. tx.node \in Nodes /\ tx.amount \in Nat
    BY <1>2 DEF IsTransaction
  <2>2. PICK b : b = AccountState(w, Owner)
    OBVIOUS
  <2>3. IsAccount(b)
    BY <2>2, OwnerAndFees DEF Sound, GoodAccounts
  <2>4. PICK stake : stake = [b.stake EXCEPT ![tx.node] = @ + tx.amount]
    OBVIOUS
  <2>5. PICK a : a = [b EXCEPT !.stake[tx.node] = @ + tx.amount]
    OBVIOUS
  <2>6. /\ b = [f \in AccountFields |-> b[f]] /\ b.stake \in [Nodes -> Nat]
        /\ b.height \in Nat /\ b.fees \in Nat /\ b.slashed \subseteq Nodes
    BY <2>3 DEF IsAccount
  <2>7. /\ a = [f \in AccountFields |-> a[f]] /\ a.height = b.height /\ a.fees = b.fees
        /\ a.slashed = b.slashed /\ a.stake = stake /\ a.last = b.last
    BY <2>4, <2>5, <2>6 DEF AccountFields
  <2>8. stake \in [Nodes -> Nat]
    BY <2>1, <2>4, <2>6
  <2>9. IsAccount(a)
    BY <2>6, <2>7, <2>8 DEF IsAccount
  <2>10. v = SaveAccountState(w, Owner, a)
    BY <1>2, <2>2, <2>5 DEF AccountUpdated
  <2>11. Owner \in DOMAIN w.accounts
    BY <1>2 DEF IsTransaction, IsRefused, Sound, GoodOwner
  <2>12. Saved(w, v, Owner, a) /\ Sound(v) /\ Leads(w, v)
    BY <2>2, <2>7, <2>9, <2>10, <2>11, SaveKeepsEntries
  <2>13. AccountState(v, Owner).slashed = AccountState(w, Owner).slashed
    BY <2>2, <2>7, <2>12 DEF Saved
  <2> QED
    BY <2>12, <2>13 DEF Keeps, Saved, SlashedOf
<1>3. CASE ~(tx.kind = "create" /\ tx.vb = Owner) /\ tx.kind # "stake"
  <2>1. v = w
    BY <1>3 DEF AccountUpdated
  <2>2. tx.vb # Owner
    BY <1>3, ChainStateAssumption DEF IsTransaction
  <2> QED
    BY <2>1, <2>2, KeepsItself
<1> QED
  BY <1>1, <1>2, <1>3

------------------------------------------------------------------------------
(* Misbehaviours *)

\* v is w where some nodes among `nodes' have been slashed.
Slashes(w, v, nodes) ==
  /\ Sound(v) /\ SameChain(w, v) /\ Leads(w, v)
  /\ SlashedOf(v) \subseteq SlashedOf(w) \cup nodes
  /\ AccountState(v, Owner).stake = AccountState(w, Owner).stake

LEMMA SlashesNone == ASSUME NEW w, Sound(w), NEW nodes PROVE Slashes(w, w, nodes)
BY LeadsNowhere DEF Slashes, SameChain

LEMMA SlashesOn ==
  ASSUME NEW w, NEW v, NEW u, NEW nodes, Slashes(w, v, nodes), Slashes(v, u, nodes)
  PROVE  Slashes(w, u, nodes)
BY LeadsOn DEF Slashes, SameChain

LEMMA SlashesMore ==
  ASSUME NEW w, NEW v, NEW nodes, NEW others, nodes \subseteq others, Slashes(w, v, nodes)
  PROVE  Slashes(w, v, others)
BY DEF Slashes

LEMMA SetSlashingEffect ==
  ASSUME NEW w, Sound(w), NEW node \in Nodes, NEW v, v = SetSlashing(w, node)
  PROVE  Slashes(w, v, {node})
<1>1. CASE AccountState(w, Owner).stake[node] = 0
  <2>1. v = w
    BY <1>1 DEF SetSlashing
  <2> QED
    BY <2>1, SlashesNone
<1>2. CASE AccountState(w, Owner).stake[node] # 0
  <2>1. PICK b : b = AccountState(w, Owner)
    OBVIOUS
  <2>2. IsAccount(b)
    BY <2>1, OwnerAndFees DEF Sound, GoodAccounts
  <2>3. PICK a : a = [b EXCEPT !.slashed = @ \cup {node}]
    OBVIOUS
  <2>4. /\ b = [f \in AccountFields |-> b[f]] /\ b.stake \in [Nodes -> Nat]
        /\ b.height \in Nat /\ b.fees \in Nat /\ b.slashed \subseteq Nodes
    BY <2>2 DEF IsAccount
  <2>5. /\ a = [f \in AccountFields |-> a[f]] /\ a.height = b.height /\ a.fees = b.fees
        /\ a.slashed = b.slashed \cup {node} /\ a.stake = b.stake /\ a.last = b.last
    BY <2>3, <2>4 DEF AccountFields
  <2>6. IsAccount(a)
    BY <2>4, <2>5 DEF IsAccount
  <2>7. v = SaveAccountState(w, Owner, a)
    BY <1>2, <2>1, <2>3 DEF SetSlashing
  <2>8. Owner \in DOMAIN w.accounts
    BY <1>2 DEF AccountState, NewAccount
  <2>9. Saved(w, v, Owner, a) /\ Sound(v) /\ Leads(w, v)
    BY <2>1, <2>5, <2>6, <2>7, <2>8, SaveKeepsEntries
  <2> QED
    BY <2>1, <2>5, <2>9 DEF Slashes, Saved, SlashedOf
<1> QED
  BY <1>1, <1>2

\* The nodes that the rows of these keys name.
NodesOf(rows, keys) == {rows[key].node : key \in keys}

LEMMA MisbehavioursEffect ==
  ASSUME NEW w, Sound(w), NEW keys, IsFiniteSet(keys), keys \subseteq DOMAIN w.rows,
         NEW v, v = Misbehaviours(w, keys)
  PROVE  Slashes(w, v, NodesOf(w.rows, keys))
<1>1. PICK h : IsFoldOf(h, AccusedLoop(w), w, keys) /\ h[keys] = v
  BY AccusedFold
<1>2. PICK loop : loop = AccusedLoop(w)
  OBVIOUS
<1>3. CanPick(loop, keys) /\ IsFoldOf(h, loop, w, keys)
  BY <1>1, <1>2, AccusedSteps, CanPickAny
<1>4. h[{}] = w
  BY <1>3, FoldStep
<1>5. PICK nodes : nodes = NodesOf(w.rows, keys)
  OBVIOUS
<1>6. PICK F : F = {s \in SUBSET keys : Slashes(w, h[s], nodes)}
  OBVIOUS
<1>7. {} \in F
  BY <1>4, <1>6, SlashesNone
<1>8. ASSUME NEW s \in SUBSET keys, NEW x \in keys,
             x \in s /\ s \ {x} \in F /\ h[s] = StepOf(loop, h[s \ {x}], x)
      PROVE  s \in F
  <2>1. PICK u : u = h[s \ {x}]
    OBVIOUS
  <2>2. Slashes(w, u, nodes)
    BY <1>6, <1>8, <2>1
  <2>3. Sound(u)
    BY <2>2 DEF Slashes
  <2>4. PICK n : n = SlashedNode(w, x)
    OBVIOUS
  <2>5. n \in Nodes /\ n \in nodes
    BY <1>5, <2>4 DEF SlashedNode, NodesOf, Sound, GoodRows, GoodIndex
  <2>6. h[s] = SetSlashing(u, n)
    BY <1>2, <1>8, <2>1, <2>4, AccusedSteps
  <2>7. Slashes(u, h[s], {n})
    BY <2>3, <2>5, <2>6, SetSlashingEffect
  <2>8. Slashes(u, h[s], nodes)
    BY <2>5, <2>7, SlashesMore
  <2>9. Slashes(w, h[s], nodes)
    BY <2>2, <2>8, SlashesOn
  <2> QED
    BY <1>6, <2>9
<1>9. keys \in F
  BY <1>3, <1>7, <1>8, FoldStaysIn
<1> QED
  BY <1>1, <1>5, <1>6, <1>9

------------------------------------------------------------------------------
(* Microblocks *)

\* v is w after transactions.
Follows(w, v) ==
  /\ Sound(v) /\ Leads(w, v)
  /\ v.height = w.height /\ v.hashes = w.hashes /\ v.modified = w.modified /\ v.rows = w.rows
  /\ w.index \subseteq v.index
  /\ DOMAIN w.microblocks \subseteq DOMAIN v.microblocks
  /\ SlashedOf(v) = SlashedOf(w)

LEMMA FollowsItself == ASSUME NEW w, Sound(w) PROVE Follows(w, w)
BY LeadsNowhere DEF Follows

LEMMA FollowsOn ==
  ASSUME NEW w, NEW v, NEW u, Follows(w, v), Follows(v, u)
  PROVE  Follows(w, u)
BY LeadsOn DEF Follows

LEMMA KeepsFollows ==
  ASSUME NEW w, NEW v, Keeps(w, v)
  PROVE  Follows(w, v)
BY DEF Follows, Keeps, SameChain

LEMMA SectionsAppliedEffect ==
  ASSUME NEW w, Sound(w), NEW tx, IsTransaction(tx), ~IsRefused(w, tx),
         NEW state, state = SectionsApplied(w, tx)
  PROVE  /\ IsVb(state) /\ tx.vb \in VirtualBlockchains /\ state.height = HeightOf(w, tx.vb) + 1
         /\ \/ tx.kind \in {"create", "declare"} /\ state.key = tx.key
            \/ Declared(w.microblocks, tx.vb, state.key)
<1>1. PICK old : old = IF tx.vb \in DOMAIN w.vbs THEN w.vbs[tx.vb]
                       ELSE [height |-> 0, root |-> NullHash, key |-> NoKey, approved |-> FALSE]
  OBVIOUS
<1>2. IsVb(old)
  BY <1>1 DEF Sound, GoodVbs, IsVb, VbFields
<1>3. state = [old EXCEPT !.height = @ + 1,
                  !.key = IF tx.kind \in {"create", "declare"} THEN tx.key ELSE @,
                  !.approved = IF tx.kind = "approval" THEN tx.status ELSE @]
  BY <1>1 DEF SectionsApplied
<1>4. /\ IsVb(state) /\ state.key = IF tx.kind \in {"create", "declare"} THEN tx.key ELSE old.key
      /\ state.height = old.height + 1
  BY <1>2, <1>3 DEF IsVb, VbFields
<1>5. tx.vb \in VirtualBlockchains
  BY DEF IsTransaction, VirtualBlockchains
<1>6. ASSUME tx.kind \notin {"create", "declare"} PROVE Declared(w.microblocks, tx.vb, state.key)
  <2>1. tx.vb \in DOMAIN w.vbs
    BY <1>6 DEF IsRefused
  <2>2. state.key = KeyOf(w, tx.vb)
    BY <1>1, <1>4, <1>6, <2>1 DEF KeyOf
  <2> QED
    BY <2>1, <2>2 DEF Sound, GoodVbs
<1>7. old.height = HeightOf(w, tx.vb)
  BY <1>1 DEF HeightOf
<1> QED
  BY <1>4, <1>5, <1>6, <1>7

LEMMA StoreHashEffect ==
  ASSUME NEW w, IsState(w), NEW vb, NEW state, NEW mb, NEW v, v = StoreHash(w, vb, state, mb)
  PROVE  /\ IsState(v)
         /\ v.height = w.height /\ v.hashes = w.hashes /\ v.modified = w.modified
         /\ v.rows = w.rows /\ v.accounts = w.accounts /\ v.history = w.history
         /\ v.touched = w.touched /\ v.microblocks = w.microblocks /\ v.vbs = w.vbs
         /\ v.index = w.index /\ v.vbRadix = w.vbRadix /\ v.tokenRadix = w.tokenRadix
         /\ v.merkle = Put(w.merkle, vb, AddLeaf(MerkleOf(w, vb), state.height - 1, mb))
<1>1. PICK m : m = Put(w.merkle, vb, AddLeaf(MerkleOf(w, vb), state.height - 1, mb))
  OBVIOUS
<1>2. v = [w EXCEPT !.merkle = m]
  BY <1>1 DEF StoreHash
<1> QED
  BY <1>1, <1>2 DEF IsState, StateFields

LEMMA StoreStateEffect ==
  ASSUME NEW w, IsState(w), NEW vb, NEW state, NEW v, v = StoreState(w, vb, state)
  PROVE  /\ IsState(v)
         /\ v.height = w.height /\ v.hashes = w.hashes /\ v.modified = w.modified
         /\ v.rows = w.rows /\ v.accounts = w.accounts /\ v.history = w.history
         /\ v.touched = w.touched /\ v.microblocks = w.microblocks /\ v.index = w.index
         /\ v.vbs = Put(w.vbs, vb, state) /\ v.vbRadix = SetValue(w.vbRadix, IdOf[vb], state)
         /\ v.tokenRadix = w.tokenRadix /\ v.merkle = w.merkle
<1>1. PICK r, p : r = SetValue(w.vbRadix, IdOf[vb], state) /\ p = Put(w.vbs, vb, state)
  OBVIOUS
<1>2. v = [w EXCEPT !.vbs = p, !.vbRadix = r]
  BY <1>1 DEF StoreState
<1> QED
  BY <1>1, <1>2 DEF IsState, StateFields

LEMMA StoreMicroblockEffect ==
  ASSUME NEW w, IsState(w), NEW vb, NEW height, NEW mb,
         NEW v, v = StoreMicroblock(w, vb, height, mb)
  PROVE  /\ IsState(v)
         /\ v.height = w.height /\ v.hashes = w.hashes /\ v.modified = w.modified
         /\ v.rows = w.rows /\ v.accounts = w.accounts /\ v.history = w.history
         /\ v.touched = w.touched /\ v.vbs = w.vbs
         /\ v.microblocks = Put(w.microblocks, mb, [vb |-> vb, height |-> height])
         /\ v.index = IF height = 1 /\ vb \in Nodes THEN w.index \cup {vb} ELSE w.index
         /\ v.vbRadix = w.vbRadix /\ v.tokenRadix = w.tokenRadix /\ v.merkle = w.merkle
<1>1. PICK p, i : /\ p = Put(w.microblocks, mb, [vb |-> vb, height |-> height])
                  /\ i = IF height = 1 /\ vb \in Nodes THEN w.index \cup {vb} ELSE w.index
  OBVIOUS
<1>2. v = [w EXCEPT !.microblocks = p, !.index = i]
  BY <1>1 DEF StoreMicroblock
<1> QED
  BY <1>1, <1>2 DEF IsState, StateFields

LEMMA StoredWithEffect ==
  ASSUME NEW u, IsState(u), NEW tx, NEW state, IsVb(state), NEW mb,
         NEW v, v = StoredWith(u, tx, state, mb)
  PROVE  \E rooted : /\ IsVb(rooted) /\ rooted.key = state.key /\ rooted.height = state.height
                     /\ StoredAs(u, v, tx.vb, rooted, mb)
<1>1. PICK a : a = StoreHash(u, tx.vb, state, mb)
  OBVIOUS
<1>2. PICK rooted : rooted = [state EXCEPT !.root = RootOf(a.merkle[tx.vb], state.height)]
  OBVIOUS
<1>3. /\ IsVb(rooted) /\ rooted.key = state.key /\ rooted.height = state.height
      /\ rooted.root = RootOf(a.merkle[tx.vb], state.height)
  <2>1. PICK r : r = RootOf(a.merkle[tx.vb], state.height)
    OBVIOUS
  <2>2. rooted = [state EXCEPT !.root = r]
    BY <1>2, <2>1
  <2> QED
    BY <2>1, <2>2 DEF IsVb, VbFields
<1>4. PICK b : b = StoreState(a, tx.vb, rooted)
  OBVIOUS
<1>5. v = StoreMicroblock(b, tx.vb, state.height, mb)
  BY <1>1, <1>2, <1>4 DEF StoredWith
<1>6. /\ IsState(a)
      /\ a.height = u.height /\ a.hashes = u.hashes /\ a.modified = u.modified
      /\ a.rows = u.rows /\ a.accounts = u.accounts /\ a.history = u.history
      /\ a.touched = u.touched /\ a.microblocks = u.microblocks /\ a.vbs = u.vbs
      /\ a.index = u.index /\ a.vbRadix = u.vbRadix /\ a.tokenRadix = u.tokenRadix
      /\ a.merkle = Put(u.merkle, tx.vb, AddLeaf(MerkleOf(u, tx.vb), state.height - 1, mb))
  BY <1>1, StoreHashEffect
<1>7. /\ IsState(b)
      /\ b.height = a.height /\ b.hashes = a.hashes /\ b.modified = a.modified
      /\ b.rows = a.rows /\ b.accounts = a.accounts /\ b.history = a.history
      /\ b.touched = a.touched /\ b.microblocks = a.microblocks /\ b.index = a.index
      /\ b.vbs = Put(a.vbs, tx.vb, rooted)
      /\ b.vbRadix = SetValue(a.vbRadix, IdOf[tx.vb], rooted)
      /\ b.tokenRadix = a.tokenRadix /\ b.merkle = a.merkle
  BY <1>4, <1>6, StoreStateEffect
<1>8. /\ IsState(v)
      /\ v.height = b.height /\ v.hashes = b.hashes /\ v.modified = b.modified
      /\ v.rows = b.rows /\ v.accounts = b.accounts /\ v.history = b.history
      /\ v.touched = b.touched /\ v.vbs = b.vbs
      /\ v.microblocks = Put(b.microblocks, mb, [vb |-> tx.vb, height |-> state.height])
      /\ v.index = IF state.height = 1 /\ tx.vb \in Nodes THEN b.index \cup {tx.vb} ELSE b.index
      /\ v.vbRadix = b.vbRadix /\ v.tokenRadix = b.tokenRadix /\ v.merkle = b.merkle
  BY <1>5, <1>7, StoreMicroblockEffect
<1>9. v.vbs = Put(u.vbs, tx.vb, rooted)
  BY <1>6, <1>7, <1>8
<1>10. /\ DOMAIN v.vbs = DOMAIN u.vbs \cup {tx.vb} /\ v.vbs[tx.vb] = rooted
       /\ \A x \in DOMAIN u.vbs : x # tx.vb => v.vbs[x] = u.vbs[x]
  BY <1>9 DEF Put
<1>11. DOMAIN v.microblocks = DOMAIN u.microblocks \cup {mb}
  BY <1>6, <1>7, <1>8 DEF Put
<1>12. u.index \subseteq v.index /\ v.index \subseteq u.index \cup ({tx.vb} \cap Nodes)
  BY <1>6, <1>7, <1>8
<1>13. /\ v.tokenRadix = u.tokenRadix /\ v.vbRadix = SetValue(u.vbRadix, IdOf[tx.vb], rooted)
       /\ v.merkle = Put(u.merkle, tx.vb, AddLeaf(MerkleOf(u, tx.vb), rooted.height - 1, mb))
       /\ rooted.root = RootOf(v.merkle[tx.vb], rooted.height)
       /\ v.microblocks = Put(u.microblocks, mb, [vb |-> tx.vb, height |-> rooted.height])
  BY <1>3, <1>6, <1>7, <1>8
<1>14. StoredAs(u, v, tx.vb, rooted, mb)
  BY <1>6, <1>7, <1>8, <1>10, <1>11, <1>12, <1>13 DEF StoredAs
<1> QED
  BY <1>3, <1>14

LEMMA DeclaredStays ==
  ASSUME NEW f, NEW g, DOMAIN f \subseteq DOMAIN g, NEW vb, NEW key, Declared(f, vb, key)
  PROVE  Declared(g, vb, key)
BY DEF Declared

LEMMA StoredFollows ==
  ASSUME NEW u, Sound(u), NEW tx, tx.vb \in VirtualBlockchains, NEW mb, mb.vb = tx.vb, mb.tx = tx,
         NEW state, IsVb(state), state.height = HeightOf(u, tx.vb) + 1, mb.height = state.height,
         tx.vb = Owner => Owner \in DOMAIN u.accounts,
         \/ tx.kind \in {"create", "declare"} /\ state.key = tx.key
         \/ Declared(u.microblocks, tx.vb, state.key),
         NEW v, v = StoredWith(u, tx, state, mb)
  PROVE  Follows(u, v)
<1>1. PICK rooted : /\ IsVb(rooted) /\ rooted.key = state.key /\ rooted.height = state.height
                    /\ StoredAs(u, v, tx.vb, rooted, mb)
  BY StoredWithEffect DEF Sound
<1>2. \A x : AccountState(v, x) = AccountState(u, x)
  BY <1>1 DEF StoredAs, AccountState
<1>3. GoodAccounts(v)
  BY <1>2 DEF Sound, GoodAccounts
<1>4. DOMAIN u.microblocks \subseteq DOMAIN v.microblocks /\ mb \in DOMAIN v.microblocks
  BY <1>1 DEF StoredAs
<1>5. Declared(v.microblocks, tx.vb, state.key)
  <2>1. CASE tx.kind \in {"create", "declare"} /\ state.key = tx.key
    BY <1>4, <2>1 DEF Declared
  <2>2. CASE Declared(u.microblocks, tx.vb, state.key)
    BY <1>4, <2>2, DeclaredStays
  <2> QED
    BY <2>1, <2>2
<1>6. GoodVbs(v)
  <2> SUFFICES ASSUME NEW x \in DOMAIN v.vbs
               PROVE  /\ x \in VirtualBlockchains /\ IsVb(v.vbs[x])
                      /\ Declared(v.microblocks, x, KeyOf(v, x))
    BY DEF GoodVbs
  <2>1. CASE x = tx.vb
    BY <1>1, <1>5, <2>1 DEF StoredAs, KeyOf
  <2>2. CASE x # tx.vb
    <3>1. x \in DOMAIN u.vbs /\ v.vbs[x] = u.vbs[x]
      BY <1>1, <2>2 DEF StoredAs
    <3>2. /\ x \in VirtualBlockchains /\ IsVb(u.vbs[x])
          /\ Declared(u.microblocks, x, KeyOf(u, x)) /\ KeyOf(v, x) = KeyOf(u, x)
      BY <3>1 DEF Sound, GoodVbs, KeyOf
    <3>3. Declared(v.microblocks, x, KeyOf(u, x))
      BY <1>4, <3>2, DeclaredStays
    <3> QED
      BY <3>1, <3>2, <3>3
  <2> QED
    BY <2>1, <2>2
<1>7. GoodIndex(v)
  BY <1>1 DEF Sound, GoodIndex, StoredAs
<1>8. GoodRows(v)
  <2> SUFFICES ASSUME NEW key \in DOMAIN v.rows
               PROVE  /\ v.rows[key].node \in v.index /\ v.rows[key].power \in Nat
                      /\ Declared(v.microblocks, v.rows[key].node, key)
    BY DEF GoodRows
  <2>1. v.rows = u.rows /\ u.index \subseteq v.index
    BY <1>1 DEF StoredAs
  <2>2. /\ u.rows[key].node \in u.index /\ u.rows[key].power \in Nat
        /\ Declared(u.microblocks, u.rows[key].node, key)
    BY <2>1 DEF Sound, GoodRows
  <2>3. Declared(v.microblocks, u.rows[key].node, key)
    BY <1>4, <2>2, DeclaredStays
  <2> QED
    BY <2>1, <2>2, <2>3
<1>9. GoodOwner(v)
  BY <1>1 DEF GoodOwner, Sound, StoredAs
<1>10. Sound(v)
  BY <1>1, <1>3, <1>6, <1>7, <1>8, <1>9 DEF Sound, StoredAs
<1>11. MicroblockStep(u, v)
  BY <1>1 DEF MicroblockStep, IsNext
<1>12. Leads(u, v)
  BY <1>10, <1>11, LeadsOneStep DEF Step
<1> QED
  BY <1>1, <1>2, <1>4, <1>10, <1>12 DEF Follows, StoredAs, SlashedOf

LEMMA ExecGenesisTxFollows ==
  ASSUME NEW w, Sound(w), NEW tx, IsTransaction(tx), NEW v, v = ExecGenesisTx(w, tx)
  PROVE  Follows(w, v)
<1>1. CASE IsRefused(w, tx)
  <2>1. v = w
    BY <1>1 DEF ExecGenesisTx
  <2> QED
    BY <2>1, FollowsItself
<1>2. CASE ~IsRefused(w, tx)
  <2>1. PICK state : state = SectionsApplied(w, tx)
    OBVIOUS
  <2>2. PICK mb : mb = Microblock(tx, state)
    OBVIOUS
  <2>3. PICK u : u = AccountUpdated(w, tx, mb)
    OBVIOUS
  <2>4. v = StoredWith(u, tx, state, mb)
    BY <1>2, <2>1, <2>2, <2>3 DEF ExecGenesisTx
  <2>5. Keeps(w, u) /\ (tx.vb = Owner => Owner \in DOMAIN u.accounts)
    BY <1>2, <2>3, AccountUpdatedKeeps
  <2>6. Sound(u) /\ u.microblocks = w.microblocks /\ u.vbs = w.vbs
    BY <2>5 DEF Keeps, SameChain
  <2>7. /\ IsVb(state) /\ tx.vb \in VirtualBlockchains /\ state.height = HeightOf(u, tx.vb) + 1
        /\ \/ tx.kind \in {"create", "declare"} /\ state.key = tx.key
           \/ Declared(u.microblocks, tx.vb, state.key)
    <3>1. HeightOf(u, tx.vb) = HeightOf(w, tx.vb)
      BY <2>6 DEF HeightOf
    <3> QED
      BY <1>2, <2>1, <2>6, <3>1, SectionsAppliedEffect
  <2>8. mb.vb = tx.vb /\ mb.tx = tx /\ mb.height = state.height
    BY <2>2 DEF Microblock
  <2>9. Follows(u, v)
    BY <2>4, <2>5, <2>6, <2>7, <2>8, StoredFollows
  <2> QED
    BY <2>5, <2>9, KeepsFollows, FollowsOn
<1> QED
  BY <1>1, <1>2

LEMMA ExecTxFollows ==
  ASSUME NEW w, Sound(w), NEW tx, IsTransaction(tx), NEW v, v = ExecTx(w, tx)
  PROVE  Follows(w, v)
<1>1. CASE IsRefused(w, tx)
  <2>1. v = w
    BY <1>1 DEF ExecTx
  <2> QED
    BY <2>1, FollowsItself
<1>2. CASE ~IsRefused(w, tx)
  <2>1. PICK state : state = SectionsApplied(w, tx)
    OBVIOUS
  <2>2. PICK mb : mb = Microblock(tx, state)
    OBVIOUS
  <2>3. PICK t : t = AccountUpdated(w, tx, mb)
    OBVIOUS
  <2>4. PICK u : u = PayFees(t, mb)
    OBVIOUS
  <2>5. v = StoredWith(u, tx, state, mb)
    BY <1>2, <2>1, <2>2, <2>3, <2>4 DEF ExecTx
  <2>6. Keeps(w, t)
    BY <1>2, <2>3, AccountUpdatedKeeps
  <2>7. Sound(t)
    BY <2>6 DEF Keeps
  <2>8. Keeps(w, u)
    BY <2>4, <2>6, <2>7, PayFeesKeeps, KeepsOn
  <2>9. Sound(u) /\ u.microblocks = w.microblocks /\ u.vbs = w.vbs
    BY <2>8 DEF Keeps, SameChain
  <2>10. /\ IsVb(state) /\ tx.vb \in VirtualBlockchains /\ state.height = HeightOf(u, tx.vb) + 1
         /\ \/ tx.kind \in {"create", "declare"} /\ state.key = tx.key
            \/ Declared(u.microblocks, tx.vb, state.key)
    <3>1. HeightOf(u, tx.vb) = HeightOf(w, tx.vb)
      BY <2>9 DEF HeightOf
    <3> QED
      BY <1>2, <2>1, <2>9, <3>1, SectionsAppliedEffect
  <2>11. mb.vb = tx.vb /\ mb.tx = tx /\ mb.height = state.height
    BY <2>2 DEF Microblock
  <2>12. Owner \in DOMAIN u.accounts
    BY <2>4, <2>7, PayFeesKeeps
  <2>13. Follows(u, v)
    BY <2>5, <2>9, <2>10, <2>11, <2>12, StoredFollows
  <2> QED
    BY <2>8, <2>13, KeepsFollows, FollowsOn
<1> QED
  BY <1>1, <1>2

\* Every transaction of a block, or of the genesis runoff, in turn.
AreTransactions(txs) ==
  txs \in Seq({txs[i] : i \in DOMAIN txs}) /\ \A i \in DOMAIN txs : IsTransaction(txs[i])

LEMMA BlockFollows ==
  ASSUME NEW w, Sound(w), NEW txs, AreTransactions(txs), NEW v, v = FoldLeft(ExecTx, w, txs)
  PROVE  Follows(w, v)
<1>1. PICK T : txs \in Seq(T)
  BY DEF AreTransactions
<1>2. PICK S : S = DOMAIN txs
  OBVIOUS
<1>3. PICK loop : loop = BlockLoop(txs)
  OBVIOUS
<1>4. PICK h : IsFoldOf(h, loop, w, S) /\ h[S] = v
  BY <1>1, <1>2, <1>3, BlockFold
<1>5. CanPick(loop, S) /\ IsFiniteSet(S)
  BY <1>1, <1>2, <1>3, BlockSteps, SequenceFoldExists
<1>6. h[{}] = w
  BY <1>4, <1>5, FoldStep
<1>7. PICK F : F = {s \in SUBSET S : Follows(w, h[s])}
  OBVIOUS
<1>8. {} \in F
  BY <1>6, <1>7, FollowsItself
<1>9. ASSUME NEW s \in SUBSET S, NEW x \in S,
             x \in s /\ s \ {x} \in F /\ h[s] = StepOf(loop, h[s \ {x}], x)
      PROVE  s \in F
  <2>1. PICK u, tx : u = h[s \ {x}] /\ tx = txs[x]
    OBVIOUS
  <2>2. Follows(w, u)
    BY <1>7, <1>9, <2>1
  <2>3. Sound(u) /\ IsTransaction(tx)
    BY <1>2, <2>1, <2>2 DEF Follows, AreTransactions
  <2>4. h[s] = ExecTx(u, tx)
    BY <1>3, <1>9, <2>1, BlockSteps
  <2>5. Follows(u, h[s])
    BY <2>3, <2>4, ExecTxFollows
  <2>6. Follows(w, h[s])
    BY <2>2, <2>5, FollowsOn
  <2> QED
    BY <1>7, <2>6
<1>10. S \in F
  BY <1>4, <1>5, <1>8, <1>9, FoldStaysIn
<1> QED
  BY <1>4, <1>7, <1>10

LEMMA GenesisFollows ==
  ASSUME NEW w, Sound(w), NEW txs, AreTransactions(txs), NEW v, v = FoldLeft(ExecGenesisTx, w, txs)
  PROVE  Follows(w, v)
<1>1. PICK T : txs \in Seq(T)
  BY DEF AreTransactions
<1>2. PICK S : S = DOMAIN txs
  OBVIOUS
<1>3. PICK loop : loop = GenesisLoop(txs)
  OBVIOUS
<1>4. PICK h : IsFoldOf(h, loop, w, S) /\ h[S] = v
  BY <1>1, <1>2, <1>3, GenesisFold
<1>5. CanPick(loop, S) /\ IsFiniteSet(S)
  BY <1>1, <1>2, <1>3, GenesisSteps, SequenceFoldExists
<1>6. h[{}] = w
  BY <1>4, <1>5, FoldStep
<1>7. PICK F : F = {s \in SUBSET S : Follows(w, h[s])}
  OBVIOUS
<1>8. {} \in F
  BY <1>6, <1>7, FollowsItself
<1>9. ASSUME NEW s \in SUBSET S, NEW x \in S,
             x \in s /\ s \ {x} \in F /\ h[s] = StepOf(loop, h[s \ {x}], x)
      PROVE  s \in F
  <2>1. PICK u, tx : u = h[s \ {x}] /\ tx = txs[x]
    OBVIOUS
  <2>2. Follows(w, u)
    BY <1>7, <1>9, <2>1
  <2>3. Sound(u) /\ IsTransaction(tx)
    BY <1>2, <2>1, <2>2 DEF Follows, AreTransactions
  <2>4. h[s] = ExecGenesisTx(u, tx)
    BY <1>3, <1>9, <2>1, GenesisSteps
  <2>5. Follows(u, h[s])
    BY <2>3, <2>4, ExecGenesisTxFollows
  <2>6. Follows(w, h[s])
    BY <2>2, <2>5, FollowsOn
  <2> QED
    BY <1>7, <2>6
<1>10. S \in F
  BY <1>4, <1>5, <1>8, <1>9, FoldStaysIn
<1> QED
  BY <1>4, <1>7, <1>10

------------------------------------------------------------------------------
(* The rows of the validator nodes *)

LEMMA InOrderSorts ==
  ASSUME NEW S, IsFiniteSet(S), S \subseteq Nat
  PROVE  Sorts(InOrder(S), S)
BY SomethingSorts DEF InOrder, Sorts

\* The nodes whose power is not the one of their key's row.
Changed(w) == {n \in w.index : RecordedPower(w, KeyOf(w, n)) # VotingPower(w, n)}

LEMMA ChangedNodesEffect ==
  ASSUME NEW w, Sound(w), NEW c, c = ChangedNodes(w), NEW S, S = Changed(w)
  PROVE  /\ c \in Seq(S) /\ IsFiniteSet(S)
         /\ \A n \in S : \E i \in DOMAIN c : c[i] = n
         /\ \A i, j \in DOMAIN c : c[i] = c[j] => i = j
<1>1. IsFiniteSet(S) /\ S \subseteq Nat
  BY ChainStateAssumption, FS_Subset DEF Sound, GoodIndex, Changed
<1>2. c = InOrder(S)
  BY DEF ChangedNodes, Changed
<1>3. Sorts(c, S)
  BY <1>1, <1>2, InOrderSorts
<1>4. /\ c \in Seq(S)
      /\ \A x \in S : \E i \in 1..Len(c) : c[i] = x
      /\ \A i, j \in 1..Len(c) : c[i] = c[j] => i = j
  <2> SUFFICES ASSUME IsFiniteSet(S), S \subseteq Nat, Sorts(c, S)
               PROVE  /\ c \in Seq(S)
                      /\ \A x \in S : \E i \in 1..Len(c) : c[i] = x
                      /\ \A i, j \in 1..Len(c) : c[i] = c[j] => i = j
    BY <1>1, <1>3
  <2> QED
    BY SortedElements
<1>5. DOMAIN c = 1..Len(c)
  BY <1>4
<1> QED
  BY <1>1, <1>4, <1>5

LEMMA VotingPowerType ==
  ASSUME NEW w, Sound(w), NEW n, n \in w.index
  PROVE  VotingPower(w, n) \in Nat
<1>1. n \in Nodes
  BY DEF Sound, GoodIndex
<1>2. AccountState(w, Owner).stake \in [Nodes -> Nat]
  BY OwnerAndFees DEF Sound, GoodAccounts, IsAccount
<1>3. StakeOf(w, n) \in Nat
  BY <1>1, <1>2 DEF StakeOf, AccountState
<1>4. PICK s : s = StakeOf(w, n)
  OBVIOUS
<1>5. s \div Unit \in Nat
  BY <1>3, <1>4, ValidatorsAssumption
<1> QED
  BY <1>4, <1>5 DEF VotingPower

RowFor(w, n) == [node |-> n, power |-> VotingPower(w, n)]

\* r is the table of rows of w where those of the keys of these nodes are renewed.
RowsAfter(w, nodes, r) ==
  /\ DOMAIN r = DOMAIN w.rows \cup {KeyOf(w, n) : n \in nodes}
  /\ \A key \in DOMAIN r :
       \/ \E n \in nodes : KeyOf(w, n) = key /\ r[key] = RowFor(w, n)
       \/ key \in DOMAIN w.rows /\ r[key] = w.rows[key] /\ \A n \in nodes : KeyOf(w, n) # key

LEMMA RowsAfterMore ==
  ASSUME NEW w, NEW nodes, NEW q, RowsAfter(w, nodes, q), NEW n,
         NEW r, r = Put(q, KeyOf(w, n), [node |-> n, power |-> VotingPower(w, n)]),
         NEW all, all = nodes \cup {n}
  PROVE  RowsAfter(w, all, r)
<1>1. PICK key : key = KeyOf(w, n)
  OBVIOUS
<1>2. r = Put(q, key, RowFor(w, n))
  BY <1>1 DEF RowFor
<1>3. DOMAIN r = DOMAIN q \cup {key} /\ r[key] = RowFor(w, n) /\ \A k \in DOMAIN q : k # key => r[k] = q[k]
  BY <1>2 DEF Put
<1>4. DOMAIN r = DOMAIN w.rows \cup {KeyOf(w, m) : m \in all}
  BY <1>1, <1>3 DEF RowsAfter
<1>5. ASSUME NEW k \in DOMAIN r
      PROVE  \/ \E m \in all : KeyOf(w, m) = k /\ r[k] = RowFor(w, m)
             \/ k \in DOMAIN w.rows /\ r[k] = w.rows[k] /\ \A m \in all : KeyOf(w, m) # k
  <2>1. CASE k = key
    BY <1>1, <1>3, <2>1
  <2>2. CASE k # key
    <3>1. k \in DOMAIN q /\ r[k] = q[k]
      BY <1>3, <2>2
    <3>2. \/ \E m \in nodes : KeyOf(w, m) = k /\ q[k] = RowFor(w, m)
          \/ k \in DOMAIN w.rows /\ q[k] = w.rows[k] /\ \A m \in nodes : KeyOf(w, m) # k
      BY <3>1 DEF RowsAfter
    <3> QED
      BY <1>1, <2>2, <3>1, <3>2
  <2> QED
    BY <2>1, <2>2
<1> QED
  BY <1>4, <1>5 DEF RowsAfter

LEMMA UpdatedRowsEffect ==
  ASSUME NEW w, Sound(w), NEW r, r = UpdatedRows(w)
  PROVE  RowsAfter(w, Changed(w), r)
<1>1. PICK c, all : c = ChangedNodes(w) /\ all = Changed(w)
  OBVIOUS
<1>2. c \in Seq(all) /\ \A n \in all : \E i \in DOMAIN c : c[i] = n
  BY <1>1, ChangedNodesEffect
<1>3. PICK S : S = DOMAIN c
  OBVIOUS
<1>4. PICK loop : loop = RowsLoop(w)
  OBVIOUS
<1>5. PICK h : IsFoldOf(h, loop, w.rows, S) /\ h[S] = r
  BY <1>1, <1>2, <1>3, <1>4, RowsFold
<1>6. CanPick(loop, S) /\ IsFiniteSet(S)
  BY <1>2, <1>3, <1>4, RowsSteps, SequenceFoldExists
<1>7. h[{}] = w.rows
  BY <1>5, <1>6, FoldStep
<1>8. PICK F : F = {s \in SUBSET S : RowsAfter(w, {c[i] : i \in s}, h[s])}
  OBVIOUS
<1>9. {} \in F
  <2>1. RowsAfter(w, {}, w.rows)
    BY DEF RowsAfter
  <2>2. {c[i] : i \in {}} = {}
    OBVIOUS
  <2> QED
    BY <1>7, <1>8, <2>1, <2>2
<1>10. ASSUME NEW s \in SUBSET S, NEW x \in S,
              x \in s /\ s \ {x} \in F /\ h[s] = StepOf(loop, h[s \ {x}], x)
       PROVE  s \in F
  <2>1. PICK q, n : q = h[s \ {x}] /\ n = c[x]
    OBVIOUS
  <2>2. PICK before, after : before = {c[i] : i \in s \ {x}} /\ after = {c[i] : i \in s}
    OBVIOUS
  <2>3. RowsAfter(w, before, q)
    BY <1>8, <1>10, <2>1, <2>2
  <2>4. after = before \cup {n}
    BY <1>10, <2>1, <2>2
  <2>5. h[s] = Put(q, KeyOf(w, n), [node |-> n, power |-> VotingPower(w, n)])
    BY <1>1, <1>4, <1>10, <2>1, RowsSteps
  <2>6. RowsAfter(w, after, h[s])
    BY <2>3, <2>4, <2>5, RowsAfterMore
  <2> QED
    BY <1>8, <2>2, <2>6
<1>11. S \in F
  BY <1>5, <1>6, <1>9, <1>10, FoldStaysIn
<1>12. {c[i] : i \in S} = all
  BY <1>2, <1>3
<1> QED
  BY <1>1, <1>5, <1>8, <1>11, <1>12
------------------------------------------------------------------------------
(* The updates of the validator set *)

DistinctKeys(u) == \A i, j \in DOMAIN u : u[i].key = u[j].key => i = j

LEMMA KeysCounted ==
  ASSUME NEW u, NEW n \in Nat, DOMAIN u = 1..n
  PROVE  Cardinality(KeysIn(u)) = n <=> DistinctKeys(u)
<1>1. PICK S : S = 1..n
  OBVIOUS
<1>2. IsFiniteSet(S) /\ Cardinality(S) = n
  BY <1>1, FS_Interval
<1>3. PICK f : f = [i \in S |-> u[i].key]
  OBVIOUS
<1>4. PICK T : T = KeysIn(u)
  OBVIOUS
<1>5. f \in Surjection(S, T)
  BY <1>1, <1>3, <1>4 DEF Surjection, KeysIn
<1>6. Cardinality(T) = Cardinality(S) <=> f \in Injection(S, T)
  BY <1>2, <1>5, FS_Surjection
<1>7. f \in Injection(S, T) <=> DistinctKeys(u)
  BY <1>1, <1>3, <1>5 DEF Injection, Surjection, IsInjective, DistinctKeys
<1> QED
  BY <1>2, <1>4, <1>6, <1>7

\* u tells the powers of the changed nodes of w, each of them once.
UpdatesFit(w, u) ==
  /\ Len(u) \in Nat /\ DOMAIN u = 1..Len(u)
  /\ \A i \in DOMAIN u :
       \E n \in Changed(w) : u[i].key = KeyOf(w, n) /\ u[i].power = VotingPower(w, n)
  /\ \A n \in Changed(w) :
       \E i \in DOMAIN u : u[i].key = KeyOf(w, n) /\ u[i].power = VotingPower(w, n)
  /\ (\A n \in w.index : ~SharesKey(w, n)) => DistinctKeys(u)

LEMMA ValidatorSetUpdatesEffect ==
  ASSUME NEW w, Sound(w), NEW u, u = ValidatorSetUpdates(w)
  PROVE  UpdatesFit(w, u)
<1>1. PICK c, all : c = ChangedNodes(w) /\ all = Changed(w)
  OBVIOUS
<1>2. /\ c \in Seq(all)
      /\ \A n \in all : \E i \in DOMAIN c : c[i] = n
      /\ \A i, j \in DOMAIN c : c[i] = c[j] => i = j
  BY <1>1, ChangedNodesEffect
<1>3. PICK k \in Nat : k = Len(c) /\ DOMAIN c = 1..k
  BY <1>2
<1>4. u = [i \in 1..k |-> [key |-> KeyOf(w, c[i]), power |-> VotingPower(w, c[i])]]
  BY <1>1, <1>3 DEF ValidatorSetUpdates
<1>5. DOMAIN u = 1..k
  BY <1>4
<1>6. \A i \in 1..k : u[i].key = KeyOf(w, c[i]) /\ u[i].power = VotingPower(w, c[i])
  BY <1>4
<1>7. Len(u) = k
  <2>1. PICK T : T = {u[i] : i \in 1..k}
    OBVIOUS
  <2>2. u \in [1..k -> T]
    BY <1>4, <1>5, <2>1
  <2> QED
    BY <2>2
<1>8. \A i \in 1..k : c[i] \in all /\ c[i] \in w.index
  BY <1>1, <1>2, <1>3 DEF Changed
<1>9. ASSUME \A n \in w.index : ~SharesKey(w, n) PROVE DistinctKeys(u)
  <2> SUFFICES ASSUME NEW i \in 1..k, NEW j \in 1..k, u[i].key = u[j].key PROVE i = j
    BY <1>5 DEF DistinctKeys
  <2>1. KeyOf(w, c[i]) = KeyOf(w, c[j]) /\ c[i] \in w.index /\ c[j] \in w.index
    BY <1>6, <1>8
  <2>2. c[i] = c[j]
    BY <1>9, <2>1 DEF SharesKey
  <2> QED
    BY <1>2, <1>3, <2>2
<1>10. ASSUME NEW i \in DOMAIN u
       PROVE  \E n \in Changed(w) : u[i].key = KeyOf(w, n) /\ u[i].power = VotingPower(w, n)
  BY <1>1, <1>5, <1>6, <1>8
<1>11. ASSUME NEW n \in Changed(w)
       PROVE  \E i \in DOMAIN u : u[i].key = KeyOf(w, n) /\ u[i].power = VotingPower(w, n)
  <2>1. PICK i \in 1..k : c[i] = n
    BY <1>1, <1>2, <1>3
  <2> QED
    BY <1>5, <1>6, <2>1
<1> QED
  BY <1>5, <1>7, <1>9, <1>10, <1>11 DEF UpdatesFit

PowerIn(powers, key) == IF key \in DOMAIN powers THEN powers[key] ELSE 0
ArePowers(powers) == \A key \in DOMAIN powers : powers[key] \in Nat

LEMMA UpdatedPowersEffect ==
  ASSUME NEW powers, ArePowers(powers), NEW u, DistinctKeys(u),
         \A i \in DOMAIN u : u[i].power \in Nat,
         NEW p, p = UpdatedPowers(powers, u)
  PROVE  /\ ArePowers(p)
         /\ DOMAIN p \subseteq DOMAIN powers \cup KeysIn(u)
         /\ \A i \in DOMAIN u : PowerIn(p, u[i].key) = u[i].power
         /\ \A key : key \notin KeysIn(u) => PowerIn(p, key) = PowerIn(powers, key)
         /\ \A key \in DOMAIN p : key \notin KeysIn(u) => key \in DOMAIN powers
<1>1. PICK K : K = KeysIn(u)
  OBVIOUS
<1>2. PICK new : new = [k \in K |-> (CHOOSE i \in DOMAIN u : u[i].key = k)]
  OBVIOUS
<1>3. PICK all : all = [k \in DOMAIN powers \cup K |->
                          IF k \in K THEN u[new[k]].power ELSE powers[k]]
  OBVIOUS
<1>4. p = [k \in {k \in DOMAIN all : all[k] > 0} |-> all[k]]
  BY <1>1, <1>2, <1>3 DEF UpdatedPowers
<1>5. \A i \in DOMAIN u : u[i].key \in K /\ new[u[i].key] = i
  <2> SUFFICES ASSUME NEW i \in DOMAIN u PROVE u[i].key \in K /\ new[u[i].key] = i
    OBVIOUS
  <2>1. u[i].key \in K
    BY <1>1 DEF KeysIn
  <2>2. PICK j : j = (CHOOSE m \in DOMAIN u : u[m].key = u[i].key)
    OBVIOUS
  <2>3. j \in DOMAIN u /\ u[j].key = u[i].key
    BY <2>2
  <2>4. j = i
    BY <2>3 DEF DistinctKeys
  <2> QED
    BY <1>2, <2>1, <2>2, <2>4
<1>6. DOMAIN all = DOMAIN powers \cup K
  BY <1>3
<1>7. \A i \in DOMAIN u : all[u[i].key] = u[i].power
  BY <1>3, <1>5
<1>8. \A k \in DOMAIN powers : k \notin K => all[k] = powers[k]
  BY <1>3
<1>9. \A k \in K : \E i \in DOMAIN u : u[i].key = k
  BY <1>1 DEF KeysIn
<1>10. \A k \in DOMAIN all : all[k] \in Nat
  BY <1>6, <1>7, <1>8, <1>9 DEF ArePowers
<1>11. \A k : k \in DOMAIN p <=> k \in DOMAIN all /\ all[k] > 0
  BY <1>4
<1>12. \A k \in DOMAIN p : p[k] = all[k]
  BY <1>4
<1> HIDE <1>4
<1>13. \A k \in DOMAIN all : PowerIn(p, k) = all[k]
  BY <1>10, <1>11, <1>12 DEF PowerIn
<1>14. ArePowers(p)
  BY <1>10, <1>11, <1>12 DEF ArePowers
<1>15. \A i \in DOMAIN u : PowerIn(p, u[i].key) = u[i].power
  BY <1>5, <1>6, <1>7, <1>13
<1>16. ASSUME NEW key, key \notin K PROVE PowerIn(p, key) = PowerIn(powers, key)
  BY <1>6, <1>8, <1>11, <1>13, <1>16 DEF PowerIn
<1> QED
  BY <1>1, <1>6, <1>11, <1>14, <1>15, <1>16

------------------------------------------------------------------------------
(* The state after a block *)

\* The validator nodes are the same in both states.
SameNodes(w, v) ==
  /\ v.vbs = w.vbs /\ v.index = w.index /\ v.rows = w.rows
  /\ \A n \in w.index : VotingPower(v, n) = VotingPower(w, n)

LEMMA SameNodesAgree ==
  ASSUME NEW w, NEW v, SameNodes(w, v)
  PROVE  /\ \A n : KeyOf(v, n) = KeyOf(w, n)
         /\ \A key : RecordedPower(v, key) = RecordedPower(w, key)
         /\ \A n : SharesKey(v, n) <=> SharesKey(w, n)
         /\ HasUnreferencedRow(v) <=> HasUnreferencedRow(w)
         /\ Changed(v) = Changed(w)
<1>1. \A n : KeyOf(v, n) = KeyOf(w, n)
  BY DEF SameNodes, KeyOf
<1>2. \A key : RecordedPower(v, key) = RecordedPower(w, key)
  BY DEF SameNodes, RecordedPower
<1>3. v.index = w.index /\ v.rows = w.rows /\ \A n \in w.index : VotingPower(v, n) = VotingPower(w, n)
  BY DEF SameNodes
<1>4. \A n : SharesKey(v, n) <=> SharesKey(w, n)
  BY <1>1, <1>3 DEF SharesKey
<1>5. HasUnreferencedRow(v) <=> HasUnreferencedRow(w)
  BY <1>1, <1>3 DEF HasUnreferencedRow
<1>6. Changed(v) = Changed(w)
  BY <1>1, <1>2, <1>3 DEF Changed
<1> QED
  BY <1>1, <1>2, <1>4, <1>5, <1>6

LEMMA SameNodesRows ==
  ASSUME NEW w, NEW v, SameNodes(w, v), NEW r, RowsAfter(v, Changed(v), r)
  PROVE  RowsAfter(w, Changed(w), r)
<1>1. /\ v.rows = w.rows /\ Changed(v) = Changed(w)
      /\ \A n : KeyOf(v, n) = KeyOf(w, n)
  BY SameNodesAgree DEF SameNodes
<1>2. \A n \in Changed(w) : RowFor(v, n) = RowFor(w, n)
  BY DEF Changed, RowFor, SameNodes
<1>3. DOMAIN r = DOMAIN w.rows \cup {KeyOf(w, n) : n \in Changed(w)}
  BY <1>1 DEF RowsAfter
<1>4. ASSUME NEW key \in DOMAIN r
      PROVE  \/ \E n \in Changed(w) : KeyOf(w, n) = key /\ r[key] = RowFor(w, n)
             \/ /\ key \in DOMAIN w.rows /\ r[key] = w.rows[key]
                /\ \A n \in Changed(w) : KeyOf(w, n) # key
  BY <1>1, <1>2 DEF RowsAfter
<1> QED
  BY <1>3, <1>4 DEF RowsAfter

LEMMA SameNodesUpdates ==
  ASSUME NEW w, NEW v, SameNodes(w, v), NEW u, UpdatesFit(v, u)
  PROVE  UpdatesFit(w, u)
<1>1. /\ v.index = w.index /\ Changed(v) = Changed(w)
      /\ \A n : KeyOf(v, n) = KeyOf(w, n)
      /\ \A n : SharesKey(v, n) <=> SharesKey(w, n)
  BY SameNodesAgree DEF SameNodes
<1>2. \A n \in Changed(w) : VotingPower(v, n) = VotingPower(w, n)
  BY DEF Changed, SameNodes
<1>3. Len(u) \in Nat /\ DOMAIN u = 1..Len(u)
  BY DEF UpdatesFit
<1>4. ASSUME NEW i \in DOMAIN u
      PROVE  \E n \in Changed(w) : u[i].key = KeyOf(w, n) /\ u[i].power = VotingPower(w, n)
  BY <1>1, <1>2 DEF UpdatesFit
<1>5. ASSUME NEW n \in Changed(w)
      PROVE  \E i \in DOMAIN u : u[i].key = KeyOf(w, n) /\ u[i].power = VotingPower(w, n)
  BY <1>1, <1>2 DEF UpdatesFit
<1>6. (\A n \in w.index : ~SharesKey(w, n)) => DistinctKeys(u)
  BY <1>1 DEF UpdatesFit
<1> QED
  BY <1>3, <1>4, <1>5, <1>6 DEF UpdatesFit

LEMMA SlashesSameNodes ==
  ASSUME NEW w, Sound(w), NEW v, NEW nodes, Slashes(w, v, nodes)
  PROVE  SameNodes(w, v)
<1>1. /\ v.vbs = w.vbs /\ v.index = w.index /\ v.rows = w.rows
      /\ AccountState(v, Owner).stake = AccountState(w, Owner).stake
  BY DEF Slashes, SameChain
<1>2. \A u, n : n \in Nodes => StakeOf(u, n) = AccountState(u, Owner).stake[n]
  BY DEF StakeOf, AccountState, NewAccount
<1>3. \A n \in w.index : n \in Nodes
  BY DEF Sound, GoodIndex
<1>4. \A n \in w.index : StakeOf(v, n) = StakeOf(w, n)
  BY <1>1, <1>2, <1>3
<1>5. \A n \in w.index : VotingPower(v, n) = VotingPower(w, n)
  BY <1>1, <1>4 DEF VotingPower
<1> QED
  BY <1>1, <1>5 DEF SameNodes

\* v has the tables of w, up to the radix trees and the accounts noted as modified.
SameTables(w, v) ==
  /\ IsState(v)
  /\ v.height = w.height /\ v.hashes = w.hashes /\ v.microblocks = w.microblocks
  /\ v.vbs = w.vbs /\ v.accounts = w.accounts /\ v.history = w.history
  /\ v.index = w.index /\ v.rows = w.rows

LEMMA SameTablesSound ==
  ASSUME NEW w, Sound(w), NEW v, SameTables(w, v)
  PROVE  Sound(v) /\ SlashedOf(v) = SlashedOf(w) /\ SameNodes(w, v)
<1>1. \A x : AccountState(v, x) = AccountState(w, x)
  BY DEF SameTables, AccountState
<1>2. GoodAccounts(v)
  BY <1>1 DEF Sound, GoodAccounts
<1>3. GoodVbs(v) /\ GoodIndex(v) /\ GoodRows(v) /\ GoodOwner(v)
  BY DEF Sound, SameTables, GoodVbs, GoodIndex, GoodRows, GoodOwner, KeyOf
<1>4. \A n : VotingPower(v, n) = VotingPower(w, n)
  BY DEF SameTables, VotingPower, StakeOf
<1> QED
  BY <1>1, <1>2, <1>3, <1>4 DEF Sound, SameTables, SlashedOf, SameNodes

LEMMA OpenStateTables ==
  ASSUME NEW d, IsState(d), NEW v, v = OpenState(d)
  PROVE  SameTables(d, v)
<1>1. PICK r, t : r = OpenTree(d.vbRadix) /\ t = OpenTree(d.tokenRadix)
  OBVIOUS
<1>2. v = [d EXCEPT !.vbRadix = r, !.tokenRadix = t, !.touched = {}]
  BY <1>1 DEF OpenState
<1> QED
  BY <1>2 DEF IsState, StateFields, SameTables

LEMMA CommitStateTables ==
  ASSUME NEW d, NEW w, IsState(w), NEW v, v = CommitState(d, w)
  PROVE  SameTables(w, v)
<1>1. PICK r, t : r = CommitTree(d.vbRadix, w.vbRadix) /\ t = CommitTree(d.tokenRadix, w.tokenRadix)
  OBVIOUS
<1>2. v = [w EXCEPT !.vbRadix = r, !.tokenRadix = t, !.touched = {}]
  BY <1>1 DEF CommitState
<1> QED
  BY <1>2 DEF IsState, StateFields, SameTables

\* The tables as a commit leaves them.
GoodDb(d) ==
  /\ Sound(d) /\ IsFiniteSet(DOMAIN d.rows)
  /\ d.height \in Nat /\ \A h \in DOMAIN d.hashes : h \in Nat /\ h >= 1 /\ h <= d.height

LEMMA SameTablesGood ==
  ASSUME NEW w, GoodDb(w), NEW v, SameTables(w, v)
  PROVE  GoodDb(v)
BY SameTablesSound DEF GoodDb, SameTables

\* The state in which the transactions of a block begin, but for the rows.
Begun(d, accuses) == Misbehaviours(OpenState(d), accuses)

Started(w) == [w EXCEPT !.rows = UpdatedRows(w)]

\* The state after a block.
Outcome(d, b, powers) ==
  EndOfBlock(d, DispatchFees(FoldLeft(ExecTx, Started(Begun(d, b.accuses)), b.txs), DOMAIN powers),
             d.height + 1)

LEMMA BegunEffect ==
  ASSUME NEW d, GoodDb(d), NEW keys, IsFiniteSet(keys), keys \subseteq DOMAIN d.rows,
         NEW w, w = Begun(d, keys)
  PROVE  /\ Sound(w) /\ SameNodes(d, w)
         /\ w.height = d.height /\ w.hashes = d.hashes /\ w.microblocks = d.microblocks
         /\ SlashedOf(w) \subseteq SlashedOf(d) \cup NodesOf(d.rows, keys)
         /\ Leads(OpenState(d), w)
<1>1. PICK v : v = OpenState(d)
  OBVIOUS
<1>2. SameTables(d, v)
  BY <1>1, OpenStateTables DEF GoodDb, Sound
<1>3. Sound(v) /\ SlashedOf(v) = SlashedOf(d) /\ SameNodes(d, v)
  BY <1>2, SameTablesSound DEF GoodDb
<1>4. v.rows = d.rows /\ v.height = d.height /\ v.hashes = d.hashes /\ v.microblocks = d.microblocks
  BY <1>2 DEF SameTables
<1>5. w = Misbehaviours(v, keys)
  BY <1>1 DEF Begun
<1>6. Slashes(v, w, NodesOf(v.rows, keys))
  BY <1>3, <1>4, <1>5, MisbehavioursEffect
<1>7. SameNodes(v, w)
  BY <1>3, <1>6, SlashesSameNodes
<1>8. SameNodes(d, w)
  BY <1>3, <1>7 DEF SameNodes
<1> QED
  BY <1>1, <1>3, <1>4, <1>6, <1>8 DEF Slashes, SameChain

LEMMA ChangedFinite ==
  ASSUME NEW w, IsFiniteSet(DOMAIN w.rows), Sound(w), NEW r, RowsAfter(w, Changed(w), r)
  PROVE  IsFiniteSet(DOMAIN r)
<1>1. PICK S : S = Changed(w)
  OBVIOUS
<1>2. IsFiniteSet(S)
  BY <1>1, ChangedNodesEffect
<1>3. PICK T : T = {KeyOf(w, n) : n \in S}
  OBVIOUS
<1>4. PICK f : f = [n \in S |-> KeyOf(w, n)]
  OBVIOUS
<1>5. f \in Surjection(S, T)
  BY <1>3, <1>4 DEF Surjection
<1>6. IsFiniteSet(T)
  BY <1>2, <1>5, FS_Surjection
<1>7. IsFiniteSet(DOMAIN w.rows \cup T)
  BY <1>6, FS_Union
<1>8. DOMAIN r = DOMAIN w.rows \cup T
  BY <1>1, <1>3 DEF RowsAfter
<1> QED
  BY <1>7, <1>8

LEMMA StartedEffect ==
  ASSUME NEW w, Sound(w), NEW v, v = Started(w)
  PROVE  /\ Sound(v)
         /\ v.height = w.height /\ v.hashes = w.hashes /\ v.microblocks = w.microblocks
         /\ v.vbs = w.vbs /\ v.index = w.index /\ v.accounts = w.accounts
         /\ RowsAfter(w, Changed(w), v.rows)
         /\ Leads(w, v)
<1>1. PICK r : r = UpdatedRows(w)
  OBVIOUS
<1>2. RowsAfter(w, Changed(w), r)
  BY <1>1, UpdatedRowsEffect
<1>3. v = [w EXCEPT !.rows = r]
  BY <1>1 DEF Started
<1>4. /\ IsState(v) /\ v.rows = r
      /\ v.height = w.height /\ v.hashes = w.hashes /\ v.microblocks = w.microblocks
      /\ v.vbs = w.vbs /\ v.index = w.index /\ v.accounts = w.accounts /\ RowsStep(w, v)
  BY <1>3 DEF Sound, IsState, StateFields, RowsStep
<1>5. \A x : AccountState(v, x) = AccountState(w, x)
  BY <1>4 DEF AccountState
<1>6. GoodAccounts(v) /\ GoodVbs(v) /\ GoodIndex(v) /\ GoodOwner(v)
  BY <1>4, <1>5 DEF Sound, GoodAccounts, GoodVbs, GoodIndex, GoodOwner, KeyOf
<1>7. GoodRows(v)
  <2> SUFFICES ASSUME NEW key \in DOMAIN r
               PROVE  /\ r[key].node \in w.index /\ r[key].power \in Nat
                      /\ Declared(w.microblocks, r[key].node, key)
    BY <1>4 DEF GoodRows
  <2>1. CASE \E n \in Changed(w) : KeyOf(w, n) = key /\ r[key] = RowFor(w, n)
    <3>1. PICK n \in Changed(w) : KeyOf(w, n) = key /\ r[key] = RowFor(w, n)
      BY <2>1
    <3>2. n \in w.index /\ r[key].node = n /\ r[key].power = VotingPower(w, n)
      BY <3>1 DEF Changed, RowFor
    <3>3. Declared(w.microblocks, n, key)
      BY <3>1, <3>2 DEF Sound, GoodIndex, GoodVbs
    <3> QED
      BY <3>2, <3>3, VotingPowerType
  <2>2. CASE key \in DOMAIN w.rows /\ r[key] = w.rows[key]
    BY <2>2 DEF Sound, GoodRows
  <2> QED
    BY <1>2, <2>1, <2>2 DEF RowsAfter
<1>8. Sound(v)
  BY <1>4, <1>6, <1>7 DEF Sound
<1>9. Leads(w, v)
  BY <1>4, <1>8, LeadsOneStep DEF Step
<1> QED
  BY <1>2, <1>4, <1>8, <1>9

LEMMA EndOfBlockEffect ==
  ASSUME NEW d, NEW w, Sound(w), NEW height, NEW v, v = EndOfBlock(d, w, height)
  PROVE  /\ Sound(v) /\ SlashedOf(v) = SlashedOf(w)
         /\ v.height = height /\ DOMAIN v.hashes = DOMAIN w.hashes \cup {height}
         /\ v.microblocks = w.microblocks /\ v.rows = w.rows /\ v.index = w.index
         /\ v.vbs = w.vbs
<1>1. PICK h, m : /\ h = Put(w.hashes, height, ApplicationStateHashes(d, w))
                  /\ m = Put(w.modified, height, w.touched)
  OBVIOUS
<1>2. v = [w EXCEPT !.height = height, !.hashes = h, !.modified = m]
  BY <1>1 DEF EndOfBlock
<1>3. /\ IsState(v) /\ v.height = height /\ v.hashes = h
      /\ v.microblocks = w.microblocks /\ v.rows = w.rows /\ v.index = w.index
      /\ v.vbs = w.vbs /\ v.accounts = w.accounts
  BY <1>2 DEF Sound, IsState, StateFields
<1>4. DOMAIN h = DOMAIN w.hashes \cup {height}
  BY <1>1 DEF Put
<1>5. \A x : AccountState(v, x) = AccountState(w, x)
  BY <1>3 DEF AccountState
<1>6. GoodAccounts(v) /\ GoodVbs(v) /\ GoodIndex(v) /\ GoodRows(v) /\ GoodOwner(v)
  BY <1>3, <1>5 DEF Sound, GoodAccounts, GoodVbs, GoodIndex, GoodRows, GoodOwner, KeyOf
<1> QED
  BY <1>3, <1>4, <1>5, <1>6 DEF Sound, SlashedOf

\* The steps of a block lead from the committed tables to the state that it ends with.
IsBlockOutcome(d, o) ==
  \E p : Sound(p) /\ Leads(OpenState(d), p) /\ o = EndOfBlock(d, p, d.height + 1)

LEMMA OutcomeEffect ==
  ASSUME NEW d, GoodDb(d), NEW b, AreTransactions(b.txs),
         IsFiniteSet(b.accuses), b.accuses \subseteq DOMAIN d.rows,
         NEW powers, NEW o, o = Outcome(d, b, powers)
  PROVE  /\ GoodDb(o) /\ o.height = d.height + 1
         /\ RowsAfter(d, Changed(d), o.rows)
         /\ d.index \subseteq o.index
         /\ DOMAIN d.microblocks \subseteq DOMAIN o.microblocks
         /\ SlashedOf(o) \subseteq SlashedOf(d) \cup NodesOf(d.rows, b.accuses)
         /\ IsBlockOutcome(d, o)
<1>1. PICK w : w = Begun(d, b.accuses)
  OBVIOUS
<1>2. /\ Sound(w) /\ SameNodes(d, w)
      /\ w.height = d.height /\ w.hashes = d.hashes /\ w.microblocks = d.microblocks
      /\ SlashedOf(w) \subseteq SlashedOf(d) \cup NodesOf(d.rows, b.accuses)
      /\ Leads(OpenState(d), w)
  BY <1>1, BegunEffect
<1>3. PICK v : v = Started(w)
  OBVIOUS
<1>4. /\ Sound(v)
      /\ v.height = w.height /\ v.hashes = w.hashes /\ v.microblocks = w.microblocks
      /\ v.vbs = w.vbs /\ v.index = w.index /\ v.accounts = w.accounts
      /\ RowsAfter(w, Changed(w), v.rows) /\ Leads(w, v)
  BY <1>2, <1>3, StartedEffect
<1>5. RowsAfter(d, Changed(d), v.rows)
  BY <1>2, <1>4, SameNodesRows
<1>6. IsFiniteSet(DOMAIN v.rows)
  BY <1>5, ChangedFinite DEF GoodDb
<1>7. PICK t : t = FoldLeft(ExecTx, v, b.txs)
  OBVIOUS
<1>8. Follows(v, t)
  BY <1>4, <1>7, BlockFollows
<1>9. Sound(t) /\ IsFiniteSet(DOMAIN t.rows)
  BY <1>6, <1>8 DEF Follows
<1>10. PICK p : p = DispatchFees(t, DOMAIN powers)
  OBVIOUS
<1>11. Keeps(t, p)
  BY <1>9, <1>10, DispatchFeesKeeps
<1>12. Follows(v, p)
  BY <1>8, <1>11, KeepsFollows, FollowsOn
<1>13. PICK n : n = d.height + 1
  OBVIOUS
<1>14. Sound(p)
  BY <1>12 DEF Follows
<1>15. o = EndOfBlock(d, p, n)
  BY <1>1, <1>3, <1>7, <1>10, <1>13 DEF Outcome
<1>16. /\ Sound(o) /\ SlashedOf(o) = SlashedOf(p)
       /\ o.height = n /\ DOMAIN o.hashes = DOMAIN p.hashes \cup {n}
       /\ o.microblocks = p.microblocks /\ o.rows = p.rows /\ o.index = p.index
  BY <1>14, <1>15, EndOfBlockEffect
<1>17. SlashedOf(v) = SlashedOf(w)
  BY <1>4 DEF SlashedOf, AccountState
<1>18. /\ p.hashes = d.hashes /\ p.rows = v.rows /\ v.index \subseteq p.index
       /\ DOMAIN v.microblocks \subseteq DOMAIN p.microblocks /\ SlashedOf(p) = SlashedOf(w)
  BY <1>2, <1>4, <1>12, <1>17 DEF Follows
<1>19. d.height \in Nat /\ \A h \in DOMAIN d.hashes : h \in Nat /\ h >= 1 /\ h <= d.height
  BY DEF GoodDb
<1>20. n \in Nat /\ \A h \in DOMAIN o.hashes : h \in Nat /\ h >= 1 /\ h <= n
  BY <1>13, <1>16, <1>18, <1>19
<1>21. GoodDb(o)
  BY <1>6, <1>16, <1>18, <1>20 DEF GoodDb
<1>22. d.index = v.index
  BY <1>2, <1>4 DEF SameNodes
<1>23. RowsAfter(d, Changed(d), o.rows)
  BY <1>5, <1>16, <1>18
<1>24. Leads(OpenState(d), p)
  BY <1>2, <1>4, <1>12, LeadsOn DEF Follows
<1>25. IsBlockOutcome(d, o)
  BY <1>13, <1>14, <1>15, <1>24 DEF IsBlockOutcome
<1> QED
  BY <1>2, <1>4, <1>13, <1>16, <1>18, <1>21, <1>22, <1>23, <1>25

------------------------------------------------------------------------------
(* The inductive invariant *)

AnswerOf(o) == o.hashes[o.height].app

PhaseInv ==
  /\ phase \in {"init", "idle", "decided", "finalized", "halted"}
  /\ status \in {"running", "unreferenced row", "refused updates"}
  /\ phase # "halted" => status = "running"

DbInv ==
  /\ GoodDb(db)
  /\ phase = "init" => db = EmptyTables /\ comet.powers = GenesisPowers /\ comet.past = {}

\* CometBFT decides blocks of transactions, and accuses whom it has known before.
BlockInv ==
  phase \in {"decided", "finalized"} =>
    /\ AreTransactions(block.txs)
    /\ IsFiniteSet(block.accuses) /\ block.accuses \subseteq comet.past \cap accused

\* What FinalizeBlock left depends on the committed tables and on the block only.
FinalizedInv ==
  phase = "finalized" =>
    /\ work = Outcome(db, block, comet.powers)
    /\ response.app = AnswerOf(work) /\ UpdatesFit(db, response.updates)

AnswersInv ==
  /\ \A a, b \in answers : a = b
  /\ phase \in {"init", "idle"} => answers = {}
  /\ phase \in {"decided", "finalized"} =>
       answers \subseteq {AnswerOf(Outcome(db, block, comet.powers))}
  /\ db.height > 1 => db.hashes[db.height].app = comet.app

\* The powers are those of the rows, or of the genesis file as long as there is no row.
SamePowers(powers, rows) ==
  \A key \in DOMAIN powers \cup DOMAIN rows :
    PowerIn(powers, key) = IF key \in DOMAIN rows THEN rows[key].power ELSE GenesisPowers[key]

PowersInv == ArePowers(comet.powers) /\ SamePowers(comet.powers, db.rows)

\* Whoever is a validator has a row, or gets one with the first block.
PastInv ==
  /\ comet.past \subseteq DOMAIN db.rows
  /\ phase # "init" =>
       DOMAIN comet.powers \subseteq DOMAIN db.rows \cup {KeyOf(db, n) : n \in Changed(db)}

\* A row whose key no node has is due to a node that left the key.
RowsExplained(w, left) ==
  \A key \in DOMAIN w.rows : key \in left \/ \E n \in w.index : KeyOf(w, n) = key

RekeyedInv == RowsExplained(db, rekeyed) /\ (phase = "finalized" => RowsExplained(work, rekeyed))

SlashedFor(w, keys) ==
  \A n \in SlashedOf(w) : \E key \in keys : Declared(w.microblocks, n, key)

SlashedInv == SlashedFor(db, accused)

ChainInv ==
  PhaseInv /\ DbInv /\ BlockInv /\ FinalizedInv /\ AnswersInv /\ PowersInv /\ PastInv
  /\ RekeyedInv /\ SlashedInv /\ HaltsExplained
------------------------------------------------------------------------------
(* Genesis *)

LEMMA EmptyTablesGood == GoodDb(EmptyTables) /\ DOMAIN EmptyTables.rows = {} /\ SlashedOf(EmptyTables) = {}
<1>1. PICK e : e = EmptyTables
  OBVIOUS
<1>2. /\ IsState(e) /\ e.height = 0 /\ e.hashes = <<>> /\ e.microblocks = <<>>
      /\ e.vbs = <<>> /\ e.accounts = <<>> /\ e.index = {} /\ e.rows = <<>>
  BY <1>1 DEF EmptyTables, IsState, StateFields
<1>3. PICK none : none = <<>> /\ DOMAIN none = {}
  OBVIOUS
<1>4. DOMAIN e.accounts = {} /\ DOMAIN e.vbs = {} /\ DOMAIN e.rows = {} /\ DOMAIN e.hashes = {}
  BY <1>2, <1>3
<1>5. \A x : AccountState(e, x) = NewAccount
  BY <1>4 DEF AccountState
<1>6. GoodAccounts(e)
  BY <1>5, NewAccountType DEF GoodAccounts
<1>7. GoodVbs(e) /\ GoodIndex(e) /\ GoodRows(e) /\ GoodOwner(e)
  BY <1>2, <1>4 DEF GoodVbs, GoodIndex, GoodRows, GoodOwner
<1>8. SlashedOf(e) = {}
  BY <1>5 DEF SlashedOf, NewAccount
<1>9. IsFiniteSet(DOMAIN e.rows)
  BY <1>4, FS_EmptySet
<1> QED
  BY <1>1, <1>2, <1>4, <1>6, <1>7, <1>8, <1>9 DEF GoodDb, Sound

LEMMA GenesisEffect ==
  /\ GoodDb(GenesisTables) /\ GenesisTables.height = 1
  /\ DOMAIN GenesisTables.rows = {} /\ SlashedOf(GenesisTables) = {}
  /\ \E o : IsBlockOutcome(EmptyTables, o) /\ GenesisTables = CommitState(EmptyTables, o)
<1>1. PICK e : e = EmptyTables
  OBVIOUS
<1>2. GoodDb(e) /\ DOMAIN e.rows = {} /\ SlashedOf(e) = {} /\ DOMAIN e.hashes = {}
  <2>1. DOMAIN e.hashes = {}
    BY <1>1 DEF EmptyTables
  <2> QED
    BY <1>1, <2>1, EmptyTablesGood
<1>3. PICK v : v = OpenState(e)
  OBVIOUS
<1>4. SameTables(e, v)
  BY <1>2, <1>3, OpenStateTables DEF GoodDb, Sound
<1>5. Sound(v) /\ SlashedOf(v) = {}
  BY <1>2, <1>4, SameTablesSound DEF GoodDb
<1>6. AreTransactions(GenesisTxs)
  BY BlocksAssumption DEF AreTransactions
<1>7. PICK t : t = FoldLeft(ExecGenesisTx, v, GenesisTxs)
  OBVIOUS
<1>8. Follows(v, t)
  BY <1>5, <1>6, <1>7, GenesisFollows
<1>9. Sound(t) /\ SlashedOf(t) = {} /\ DOMAIN t.rows = {} /\ DOMAIN t.hashes = {}
  BY <1>2, <1>4, <1>5, <1>8 DEF Follows, SameTables
<1>10. PICK o : o = EndOfBlock(e, t, 1)
  OBVIOUS
<1>11. /\ Sound(o) /\ SlashedOf(o) = SlashedOf(t)
       /\ o.height = 1 /\ DOMAIN o.hashes = DOMAIN t.hashes \cup {1} /\ o.rows = t.rows
  BY <1>9, <1>10, EndOfBlockEffect
<1>12. GoodDb(o)
  BY <1>9, <1>11, FS_EmptySet DEF GoodDb
<1>13. GenesisTables = CommitState(e, o)
  BY <1>1, <1>3, <1>7, <1>10 DEF GenesisTables
<1>14. PICK g : g = GenesisTables
  OBVIOUS
<1>15. SameTables(o, g)
  BY <1>11, <1>13, <1>14, CommitStateTables DEF Sound
<1>16. GoodDb(g) /\ SlashedOf(g) = SlashedOf(o)
  BY <1>11, <1>12, <1>15, SameTablesGood, SameTablesSound
<1>17. IsBlockOutcome(e, o)
  <2>1. e.height + 1 = 1
    BY <1>1 DEF EmptyTables
  <2> QED
    BY <1>3, <1>8, <1>9, <1>10, <2>1 DEF IsBlockOutcome, Follows
<1> QED
  BY <1>1, <1>9, <1>11, <1>13, <1>14, <1>15, <1>16, <1>17 DEF SameTables

LEMMA GenesisKeys ==
  \A key \in DOMAIN GenesisPowers :
    \E n \in Changed(GenesisTables) : KeyOf(GenesisTables, n) = key
<1> SUFFICES ASSUME NEW key \in DOMAIN GenesisPowers
             PROVE  \E n \in Changed(GenesisTables) : KeyOf(GenesisTables, n) = key
  OBVIOUS
<1>1. PICK g : g = GenesisTables
  OBVIOUS
<1>2. PICK n \in g.index : KeyOf(g, n) = key /\ VotingPower(g, n) # 0
  BY <1>1, GenesisAssumption
<1>3. RecordedPower(g, key) = 0
  BY <1>1, GenesisEffect DEF RecordedPower
<1>4. n \in Changed(g)
  BY <1>2, <1>3 DEF Changed
<1> QED
  BY <1>1, <1>2, <1>4

LEMMA ChainInitInv == ASSUME ChainInit PROVE ChainInv
<1>1. /\ db = EmptyTables /\ phase = "init" /\ status = "running" /\ answers = {}
      /\ comet.powers = GenesisPowers /\ comet.past = {}
  BY DEF ChainInit
<1>2. PhaseInv /\ BlockInv /\ FinalizedInv
  BY <1>1 DEF PhaseInv, BlockInv, FinalizedInv
<1>3. DbInv
  BY <1>1, EmptyTablesGood DEF DbInv
<1>4. DOMAIN db.rows = {} /\ SlashedOf(db) = {}
  BY <1>1, EmptyTablesGood
<1>5. AnswersInv
  <2>1. db.height = 0
    BY <1>1 DEF EmptyTables
  <2> QED
    BY <1>1, <2>1 DEF AnswersInv
<1>6. PowersInv
  BY <1>1, <1>4, PowersAssumption DEF PowersInv, ArePowers, SamePowers, PowerIn
<1>7. PastInv
  BY <1>1 DEF PastInv
<1>8. RekeyedInv
  BY <1>1, <1>4 DEF RekeyedInv, RowsExplained
<1>9. SlashedInv
  BY <1>4 DEF SlashedInv, SlashedFor
<1>10. HaltsExplained
  BY <1>1 DEF HaltsExplained
<1> QED
  BY <1>2, <1>3, <1>5, <1>6, <1>7, <1>8, <1>9, <1>10 DEF ChainInv

LEMMA InitChainInv == ASSUME ChainInv, InitChain PROVE ChainInv'
<1>1. /\ phase = "init" /\ phase' = "idle" /\ db' = GenesisTables
      /\ comet' = [comet EXCEPT !.app =
                     ApplicationStateHashes(GenesisTables, OpenState(GenesisTables)).app]
      /\ UNCHANGED <<status, block, response, faults, answers, accused, rekeyed>>
  BY DEF InitChain
<1>2. comet'.powers = comet.powers /\ comet'.past = comet.past
  <2>1. PICK a : a = ApplicationStateHashes(GenesisTables, OpenState(GenesisTables)).app
    OBVIOUS
  <2>2. comet' = [comet EXCEPT !.app = a]
    BY <1>1, <2>1
  <2> QED
    BY <2>2
<1>3. comet.powers = GenesisPowers /\ comet.past = {} /\ answers = {} /\ status = "running"
  BY <1>1 DEF ChainInv, DbInv, AnswersInv, PhaseInv
<1>4. DOMAIN db'.rows = {} /\ SlashedOf(db') = {} /\ GoodDb(db') /\ db'.height = 1
  BY <1>1, GenesisEffect
<1>5. PhaseInv' /\ BlockInv' /\ FinalizedInv' /\ DbInv'
  BY <1>1, <1>3, <1>4 DEF PhaseInv, BlockInv, FinalizedInv, DbInv
<1>6. AnswersInv'
  BY <1>1, <1>3, <1>4 DEF AnswersInv
<1>7. PowersInv'
  BY <1>2, <1>3, <1>4, PowersAssumption DEF PowersInv, ArePowers, SamePowers, PowerIn
<1>8. PastInv'
  BY <1>1, <1>2, <1>3, GenesisKeys DEF PastInv
<1>9. RekeyedInv'
  BY <1>1, <1>4 DEF RekeyedInv, RowsExplained
<1>10. SlashedInv'
  BY <1>4 DEF SlashedInv, SlashedFor
<1>11. HaltsExplained'
  BY <1>1, <1>3 DEF HaltsExplained
<1> QED
  BY <1>5, <1>6, <1>7, <1>8, <1>9, <1>10, <1>11 DEF ChainInv

------------------------------------------------------------------------------
(* Blocks *)

LEMMA DecideInv == ASSUME ChainInv, Decide PROVE ChainInv'
<1>1. PICK txs \in Blocks, accuses \in {{}} \cup {{k} : k \in comet.past} :
        /\ block' = [txs |-> txs, accuses |-> accuses]
        /\ accused' = accused \cup accuses
  BY DEF Decide
<1>2. /\ phase = "idle" /\ phase' = "decided"
      /\ UNCHANGED <<db, work, status, response, comet, answers, rekeyed>>
  BY DEF Decide
<1>3. block'.txs = txs /\ block'.accuses = accuses
  BY <1>1
<1>4. AreTransactions(txs)
  BY BlocksAssumption DEF AreTransactions
<1>5. IsFiniteSet(accuses) /\ accuses \subseteq comet.past
  BY FS_EmptySet, FS_Singleton
<1>6. status = "running" /\ answers = {}
  BY <1>2 DEF ChainInv, PhaseInv, AnswersInv
<1>7. BlockInv'
  BY <1>1, <1>2, <1>3, <1>4, <1>5 DEF BlockInv
<1>8. PhaseInv' /\ DbInv' /\ FinalizedInv' /\ PowersInv' /\ PastInv' /\ RekeyedInv'
  BY <1>2, <1>6 DEF ChainInv, PhaseInv, DbInv, FinalizedInv, PowersInv, PastInv, RekeyedInv
<1>9. AnswersInv'
  BY <1>2, <1>6 DEF ChainInv, AnswersInv
<1>10. SlashedInv'
  BY <1>1, <1>2 DEF ChainInv, SlashedInv, SlashedFor
<1>11. HaltsExplained'
  BY <1>2, <1>6 DEF HaltsExplained
<1> QED
  BY <1>7, <1>8, <1>9, <1>10, <1>11 DEF ChainInv

LEMMA RestartInv == ASSUME ChainInv, Restart PROVE ChainInv'
<1>1. /\ phase = "finalized" /\ phase' = "decided"
      /\ UNCHANGED <<db, status, block, response, comet, answers, accused, rekeyed>>
  BY DEF Restart
<1>2. status = "running"
  BY <1>1 DEF ChainInv, PhaseInv
<1>3. PhaseInv' /\ DbInv' /\ BlockInv' /\ FinalizedInv' /\ PowersInv' /\ PastInv' /\ SlashedInv'
  BY <1>1, <1>2
  DEF ChainInv, PhaseInv, DbInv, BlockInv, FinalizedInv, PowersInv, PastInv, SlashedInv
<1>4. AnswersInv' /\ RekeyedInv'
  BY <1>1 DEF ChainInv, AnswersInv, RekeyedInv
<1>5. HaltsExplained'
  BY <1>1, <1>2 DEF HaltsExplained
<1> QED
  BY <1>3, <1>4, <1>5 DEF ChainInv

\* FinalizeBlock gets past its first two checks.
LEMMA FinalizeBlockCases ==
  ASSUME ChainInv, FinalizeBlock
  PROVE  \E w : /\ w = Begun(db, block.accuses)
                /\ \/ HasUnreferencedRow(w) /\ Halt("unreferenced row")
                   \/ ~HasUnreferencedRow(w) /\ ExecBlock(w)
<1>1. phase = "decided"
  BY DEF FinalizeBlock
<1>2. PICK start : start = OpenState(db)
  OBVIOUS
<1>3. \/ db.height + 1 \in DOMAIN start.hashes
      \/ ~(block.accuses \subseteq DOMAIN start.rows)
      \/ \E w : /\ w = Misbehaviours(start, block.accuses)
                /\ IF HasUnreferencedRow(w) THEN Halt("unreferenced row") ELSE ExecBlock(w)
  <2>1. IF db.height + 1 \in DOMAIN start.hashes THEN Halt("duplicate block")
        ELSE IF ~(block.accuses \subseteq DOMAIN start.rows) THEN Halt("unknown validator")
        ELSE \E w \in {Misbehaviours(start, block.accuses)} :
               IF HasUnreferencedRow(w) THEN Halt("unreferenced row") ELSE ExecBlock(w)
    BY <1>2 DEF FinalizeBlock, ClearCaches
  <2> QED
    BY <2>1
<1>4. SameTables(db, start)
  BY <1>2, OpenStateTables DEF ChainInv, DbInv, GoodDb, Sound
<1>5. db.height + 1 \notin DOMAIN start.hashes
  <2>1. start.hashes = db.hashes
    BY <1>4 DEF SameTables
  <2>2. PICK n : n = db.height
    OBVIOUS
  <2>3. n \in Nat /\ \A h \in DOMAIN db.hashes : h \in Nat /\ h >= 1 /\ h <= n
    BY <2>2 DEF ChainInv, DbInv, GoodDb
  <2>4. n + 1 \notin DOMAIN db.hashes
    BY <2>3
  <2> QED
    BY <2>1, <2>2, <2>4
<1>6. block.accuses \subseteq DOMAIN start.rows
  BY <1>1, <1>4 DEF ChainInv, BlockInv, PastInv, SameTables
<1>7. PICK w : /\ w = Misbehaviours(start, block.accuses)
               /\ IF HasUnreferencedRow(w) THEN Halt("unreferenced row") ELSE ExecBlock(w)
  BY <1>3, <1>5, <1>6
<1>8. w = Begun(db, block.accuses)
  BY <1>2, <1>7 DEF Begun
<1> QED
  BY <1>7, <1>8

\* The keys of the rows of o that no node has were left during the block.
LEMMA LeftKeysExplain ==
  ASSUME NEW d, NEW w, SameNodes(d, w), ~HasUnreferencedRow(w),
         NEW o, RowsAfter(d, Changed(d), o.rows), d.index \subseteq o.index
  PROVE  RowsExplained(o, LeftKeys(w, o))
<1> SUFFICES ASSUME NEW key \in DOMAIN o.rows, \A n \in o.index : KeyOf(o, n) # key
             PROVE  key \in LeftKeys(w, o)
  BY DEF RowsExplained
<1>1. w.index = d.index /\ w.rows = d.rows /\ \A n : KeyOf(w, n) = KeyOf(d, n)
  BY SameNodesAgree DEF SameNodes
<1>2. \E n \in d.index : KeyOf(d, n) = key
  <2>1. CASE key \in DOMAIN d.rows
    BY <1>1, <2>1 DEF HasUnreferencedRow
  <2>2. CASE key \notin DOMAIN d.rows
    <3>1. key \in {KeyOf(d, n) : n \in Changed(d)}
      BY <2>2 DEF RowsAfter
    <3> QED
      BY <3>1 DEF Changed
  <2> QED
    BY <2>1, <2>2
<1>3. PICK n \in w.index : KeyOf(w, n) = key
  BY <1>1, <1>2
<1>4. n \in o.index /\ KeyOf(o, n) # KeyOf(w, n)
  BY <1>1, <1>3
<1> QED
  BY <1>3, <1>4 DEF LeftKeys

LEMMA FinalizeBlockInv == ASSUME ChainInv, FinalizeBlock PROVE ChainInv'
<1>1. phase = "decided" /\ UNCHANGED <<block, comet, faults, accused>>
  BY DEF FinalizeBlock
<1>2. PICK w : /\ w = Begun(db, block.accuses)
               /\ \/ HasUnreferencedRow(w) /\ Halt("unreferenced row")
                  \/ ~HasUnreferencedRow(w) /\ ExecBlock(w)
  BY FinalizeBlockCases
<1>3. /\ AreTransactions(block.txs) /\ IsFiniteSet(block.accuses)
      /\ block.accuses \subseteq DOMAIN db.rows
  BY <1>1 DEF ChainInv, BlockInv, PastInv
<1>4. GoodDb(db) /\ status = "running"
  BY <1>1 DEF ChainInv, DbInv, PhaseInv
<1>5. Sound(w) /\ SameNodes(db, w)
  BY <1>2, <1>3, <1>4, BegunEffect
<1>6. CASE HasUnreferencedRow(w) /\ Halt("unreferenced row")
  <2>1. /\ phase' = "halted" /\ status' = "unreferenced row"
        /\ UNCHANGED <<db, work, response, answers, rekeyed>>
    BY <1>6 DEF Halt
  <2>2. PhaseInv' /\ DbInv' /\ BlockInv' /\ FinalizedInv' /\ PowersInv' /\ PastInv' /\ SlashedInv'
    BY <1>1, <2>1
    DEF ChainInv, PhaseInv, DbInv, BlockInv, FinalizedInv, PowersInv, PastInv, SlashedInv
  <2>3. AnswersInv' /\ RekeyedInv'
    BY <1>1, <2>1 DEF ChainInv, AnswersInv, RekeyedInv
  <2>4. HasUnreferencedRow(db)
    BY <1>5, <1>6, SameNodesAgree
  <2>5. PICK key \in DOMAIN db.rows : \A n \in db.index : KeyOf(db, n) # key
    BY <2>4 DEF HasUnreferencedRow
  <2>6. key \in rekeyed
    BY <2>5 DEF ChainInv, RekeyedInv, RowsExplained
  <2>7. HaltsExplained'
    BY <2>1, <2>5, <2>6 DEF HaltsExplained
  <2> QED
    BY <2>2, <2>3, <2>7 DEF ChainInv
<1>7. CASE ~HasUnreferencedRow(w) /\ ExecBlock(w)
  <2>1. PICK o : o = Outcome(db, block, comet.powers)
    OBVIOUS
  <2>2. /\ work' = o
        /\ response' = [updates |-> ValidatorSetUpdates(w), app |-> AnswerOf(o)]
        /\ answers' = answers \cup {AnswerOf(o)}
        /\ rekeyed' = rekeyed \cup LeftKeys(w, o)
        /\ phase' = "finalized" /\ UNCHANGED <<db, status>>
    BY <1>2, <1>7, <2>1 DEF ExecBlock, Outcome, Started, AnswerOf
  <2>3. /\ GoodDb(o) /\ RowsAfter(db, Changed(db), o.rows) /\ db.index \subseteq o.index
    BY <1>3, <1>4, <2>1, OutcomeEffect
  <2>4. UpdatesFit(db, response'.updates)
    <3>1. PICK u : u = ValidatorSetUpdates(w)
      OBVIOUS
    <3>2. UpdatesFit(w, u)
      BY <1>5, <3>1, ValidatorSetUpdatesEffect
    <3>3. UpdatesFit(db, u)
      BY <1>5, <3>2, SameNodesUpdates
    <3> QED
      BY <2>2, <3>1, <3>3
  <2>5. FinalizedInv'
    <3>1. work' = Outcome(db', block', comet'.powers)
      BY <1>1, <2>1, <2>2
    <3>2. response'.app = AnswerOf(work') /\ UpdatesFit(db', response'.updates)
      BY <2>2, <2>4
    <3> QED
      BY <3>1, <3>2 DEF FinalizedInv
  <2>6. AnswersInv'
    <3>1. answers \subseteq {AnswerOf(o)}
      BY <1>1, <2>1 DEF ChainInv, AnswersInv
    <3>2. answers' = {AnswerOf(o)}
      BY <2>2, <3>1
    <3>3. answers' \subseteq {AnswerOf(Outcome(db', block', comet'.powers))}
      BY <1>1, <2>1, <2>2, <3>2
    <3>4. db'.height > 1 => db'.hashes[db'.height].app = comet'.app
      BY <1>1, <2>2 DEF ChainInv, AnswersInv
    <3> QED
      BY <2>2, <3>2, <3>3, <3>4 DEF AnswersInv
  <2>7. PhaseInv' /\ DbInv' /\ BlockInv' /\ PowersInv' /\ PastInv' /\ SlashedInv'
    BY <1>1, <1>4, <2>2
    DEF ChainInv, PhaseInv, DbInv, BlockInv, PowersInv, PastInv, SlashedInv
  <2>8. RowsExplained(o, LeftKeys(w, o))
    BY <1>5, <1>7, <2>3, LeftKeysExplain
  <2>9. RekeyedInv'
    BY <2>2, <2>8 DEF ChainInv, RekeyedInv, RowsExplained
  <2>10. HaltsExplained'
    BY <1>4, <2>2 DEF HaltsExplained
  <2> QED
    BY <2>5, <2>6, <2>7, <2>9, <2>10 DEF ChainInv
<1> QED
  BY <1>2, <1>6, <1>7

------------------------------------------------------------------------------
(* Commit *)

LEMMA UpdatesTypes ==
  ASSUME NEW d, Sound(d), NEW u, UpdatesFit(d, u)
  PROVE  \A i \in DOMAIN u : u[i].power \in Nat
<1> SUFFICES ASSUME NEW i \in DOMAIN u PROVE u[i].power \in Nat
  OBVIOUS
<1>1. PICK n \in Changed(d) : u[i].power = VotingPower(d, n)
  BY DEF UpdatesFit
<1>2. n \in d.index
  BY DEF Changed
<1> QED
  BY <1>1, <1>2, VotingPowerType

\* CometBFT and the rows agree after the updates, if no key is told twice.
LEMMA PowersStaySame ==
  ASSUME NEW d, Sound(d), NEW powers, ArePowers(powers), SamePowers(powers, d.rows),
         NEW u, UpdatesFit(d, u), DistinctKeys(u), NEW p, p = UpdatedPowers(powers, u),
         NEW r, RowsAfter(d, Changed(d), r)
  PROVE  ArePowers(p) /\ SamePowers(p, r) /\ DOMAIN p \subseteq DOMAIN powers \cup DOMAIN r
<1>1. \A i \in DOMAIN u : u[i].power \in Nat
  BY UpdatesTypes
<1>2. /\ ArePowers(p)
      /\ DOMAIN p \subseteq DOMAIN powers \cup KeysIn(u)
      /\ \A i \in DOMAIN u : PowerIn(p, u[i].key) = u[i].power
      /\ \A key : key \notin KeysIn(u) => PowerIn(p, key) = PowerIn(powers, key)
      /\ \A key \in DOMAIN p : key \notin KeysIn(u) => key \in DOMAIN powers
  BY <1>1, UpdatedPowersEffect
<1>3. ASSUME NEW key, key \in KeysIn(u)
      PROVE  key \in DOMAIN r /\ PowerIn(p, key) = r[key].power
  <2>1. PICK i \in DOMAIN u : u[i].key = key
    BY <1>3 DEF KeysIn
  <2>2. PICK n \in Changed(d) : key = KeyOf(d, n) /\ u[i].power = VotingPower(d, n)
    BY <2>1 DEF UpdatesFit
  <2>3. key \in DOMAIN r
    BY <2>2 DEF RowsAfter
  <2>4. PICK m \in Changed(d) : KeyOf(d, m) = key /\ r[key] = RowFor(d, m)
    BY <2>2, <2>3 DEF RowsAfter
  <2>5. PICK j \in DOMAIN u : u[j].key = KeyOf(d, m) /\ u[j].power = VotingPower(d, m)
    BY DEF UpdatesFit
  <2>6. i = j
    BY <2>1, <2>4, <2>5 DEF DistinctKeys
  <2>7. r[key].power = VotingPower(d, m)
    BY <2>4 DEF RowFor
  <2> QED
    BY <1>2, <2>1, <2>3, <2>5, <2>6, <2>7
<1>4. ASSUME NEW key, key \notin KeysIn(u)
      PROVE  /\ key \in DOMAIN r <=> key \in DOMAIN d.rows
             /\ key \in DOMAIN r => r[key] = d.rows[key]
  <2>1. \A n \in Changed(d) : KeyOf(d, n) # key
    <3> SUFFICES ASSUME NEW n \in Changed(d), KeyOf(d, n) = key PROVE FALSE
      OBVIOUS
    <3>1. PICK i \in DOMAIN u : u[i].key = KeyOf(d, n)
      BY DEF UpdatesFit
    <3> QED
      BY <1>4, <3>1 DEF KeysIn
  <2> QED
    BY <2>1 DEF RowsAfter
<1>5. ASSUME NEW key \in DOMAIN p \cup DOMAIN r
      PROVE  PowerIn(p, key) = IF key \in DOMAIN r THEN r[key].power ELSE GenesisPowers[key]
  <2>1. CASE key \in KeysIn(u)
    BY <1>3, <2>1
  <2>2. CASE key \notin KeysIn(u)
    <3>1. PowerIn(p, key) = PowerIn(powers, key)
      BY <1>2, <2>2
    <3>2. key \in DOMAIN powers \cup DOMAIN d.rows
      BY <1>2, <1>4, <2>2
    <3>3. PowerIn(powers, key) = IF key \in DOMAIN d.rows THEN d.rows[key].power
                                 ELSE GenesisPowers[key]
      BY <3>2 DEF SamePowers
    <3> QED
      BY <1>4, <2>2, <3>1, <3>3
  <2> QED
    BY <2>1, <2>2
<1>6. SamePowers(p, r)
  BY <1>5 DEF SamePowers
<1>7. DOMAIN p \subseteq DOMAIN powers \cup DOMAIN r
  BY <1>2, <1>3
<1> QED
  BY <1>2, <1>6, <1>7

\* CometBFT takes the updates if no two nodes share a key and somebody has power.
LEMMA UpdatesAccepted ==
  ASSUME NEW d, Sound(d), NEW powers, ArePowers(powers), SamePowers(powers, d.rows),
         NEW u, UpdatesFit(d, u),
         \A n \in d.index : ~SharesKey(d, n),
         \E n \in d.index : VotingPower(d, n) # 0
  PROVE  AcceptsUpdates(powers, u)
<1>1. DistinctKeys(u) /\ Len(u) \in Nat /\ DOMAIN u = 1..Len(u)
  BY DEF UpdatesFit
<1>2. Cardinality(KeysIn(u)) = Len(u)
  BY <1>1, KeysCounted
<1>3. ASSUME NEW i \in DOMAIN u, u[i].power = 0 PROVE u[i].key \in DOMAIN powers
  <2>1. PICK n \in Changed(d) : u[i].key = KeyOf(d, n) /\ u[i].power = VotingPower(d, n)
    BY DEF UpdatesFit
  <2>2. PICK key : key = KeyOf(d, n)
    OBVIOUS
  <2>3. key \in DOMAIN d.rows /\ d.rows[key].power # 0
    BY <1>3, <2>1, <2>2 DEF Changed, RecordedPower
  <2>4. PowerIn(powers, key) = d.rows[key].power
    BY <2>3 DEF SamePowers
  <2> QED
    BY <2>1, <2>2, <2>3, <2>4 DEF PowerIn
<1>4. PICK p : p = UpdatedPowers(powers, u)
  OBVIOUS
<1>5. \A i \in DOMAIN u : u[i].power \in Nat
  BY UpdatesTypes
<1>6. /\ \A i \in DOMAIN u : PowerIn(p, u[i].key) = u[i].power
      /\ \A key : key \notin KeysIn(u) => PowerIn(p, key) = PowerIn(powers, key)
  BY <1>1, <1>4, <1>5, UpdatedPowersEffect
<1>7. PICK n \in d.index : VotingPower(d, n) # 0
  OBVIOUS
<1>8. PICK key : key = KeyOf(d, n)
  OBVIOUS
<1>9. PowerIn(p, key) # 0
  <2>1. CASE n \in Changed(d)
    <3>1. PICK i \in DOMAIN u : u[i].key = key /\ u[i].power = VotingPower(d, n)
      BY <1>8, <2>1 DEF UpdatesFit
    <3> QED
      BY <1>6, <1>7, <3>1
  <2>2. CASE n \notin Changed(d)
    <3>1. RecordedPower(d, key) = VotingPower(d, n)
      BY <1>8, <2>2 DEF Changed
    <3>2. key \in DOMAIN d.rows /\ d.rows[key].power = VotingPower(d, n)
      BY <1>7, <3>1 DEF RecordedPower
    <3>3. PowerIn(powers, key) = VotingPower(d, n)
      BY <3>2 DEF SamePowers
    <3>4. key \notin KeysIn(u)
      <4> SUFFICES ASSUME key \in KeysIn(u) PROVE FALSE
        OBVIOUS
      <4>1. PICK i \in DOMAIN u : u[i].key = key
        BY DEF KeysIn
      <4>2. PICK m \in Changed(d) : u[i].key = KeyOf(d, m)
        BY DEF UpdatesFit
      <4>3. m # n /\ m \in d.index /\ KeyOf(d, m) = KeyOf(d, n)
        BY <1>8, <2>2, <4>1, <4>2 DEF Changed
      <4> QED
        BY <4>3 DEF SharesKey
    <3> QED
      BY <1>6, <1>7, <3>3, <3>4
  <2> QED
    BY <2>1, <2>2
<1>10. DOMAIN p # {}
  BY <1>9 DEF PowerIn
<1> QED
  BY <1>2, <1>3, <1>4, <1>10 DEF AcceptsUpdates

LEMMA CommitInv == ASSUME ChainInv, Commit PROVE ChainInv'
<1>1. phase = "finalized" /\ UNCHANGED <<faults, accused, rekeyed>>
  BY DEF Commit
<1>2. PICK u, p : u = response.updates /\ p = UpdatedPowers(comet.powers, u)
  OBVIOUS
<1>3. /\ AreTransactions(block.txs) /\ IsFiniteSet(block.accuses)
      /\ block.accuses \subseteq DOMAIN db.rows /\ block.accuses \subseteq accused
  BY <1>1 DEF ChainInv, BlockInv, PastInv
<1>4. GoodDb(db) /\ Sound(db) /\ status = "running"
  BY <1>1 DEF ChainInv, DbInv, PhaseInv, GoodDb
<1>5. /\ work = Outcome(db, block, comet.powers) /\ response.app = AnswerOf(work)
      /\ UpdatesFit(db, u)
  BY <1>1, <1>2 DEF ChainInv, FinalizedInv
<1>6. /\ GoodDb(work) /\ work.height = db.height + 1
      /\ RowsAfter(db, Changed(db), work.rows) /\ db.index \subseteq work.index
      /\ DOMAIN db.microblocks \subseteq DOMAIN work.microblocks
      /\ SlashedOf(work) \subseteq SlashedOf(db) \cup NodesOf(db.rows, block.accuses)
  BY <1>3, <1>4, <1>5, OutcomeEffect
<1>7. ArePowers(comet.powers) /\ SamePowers(comet.powers, db.rows)
  BY DEF ChainInv, PowersInv
<1>8. CASE AcceptsUpdates(comet.powers, u)
  <2>1. PICK d : d = CommitState(db, work)
    OBVIOUS
  <2>2. /\ db' = d /\ phase' = "idle" /\ answers' = {} /\ UNCHANGED status
        /\ comet' = [powers |-> p, past |-> comet.past \cup DOMAIN comet.powers,
                     app |-> response.app]
    BY <1>2, <1>8, <2>1 DEF Commit
  <2>3. /\ comet'.powers = p /\ comet'.app = AnswerOf(work)
        /\ comet'.past = comet.past \cup DOMAIN comet.powers
    BY <1>5, <2>2
  <2>4. SameTables(work, d)
    BY <1>6, <2>1, CommitStateTables DEF GoodDb, Sound
  <2>5. GoodDb(d) /\ SlashedOf(d) = SlashedOf(work) /\ SameNodes(work, d)
    BY <1>6, <2>4, SameTablesGood, SameTablesSound DEF GoodDb
  <2>6. d.rows = work.rows /\ d.hashes = work.hashes /\ d.height = work.height
        /\ d.index = work.index /\ d.microblocks = work.microblocks /\ d.vbs = work.vbs
    BY <2>4 DEF SameTables
  <2>7. DistinctKeys(u)
    <3>1. Len(u) \in Nat /\ DOMAIN u = 1..Len(u)
      BY <1>5 DEF UpdatesFit
    <3>2. Cardinality(KeysIn(u)) = Len(u)
      BY <1>8 DEF AcceptsUpdates
    <3> QED
      BY <3>1, <3>2, KeysCounted
  <2>8. PICK r : r = d.rows
    OBVIOUS
  <2>9. RowsAfter(db, Changed(db), r)
    BY <1>6, <2>6, <2>8
  <2>10. ArePowers(p) /\ SamePowers(p, r) /\ DOMAIN p \subseteq DOMAIN comet.powers \cup DOMAIN r
    BY <1>2, <1>4, <1>5, <1>7, <2>7, <2>9, PowersStaySame
  <2>11. PowersInv'
    BY <2>2, <2>3, <2>8, <2>10 DEF PowersInv
  <2>12. DOMAIN comet.powers \subseteq DOMAIN r /\ comet.past \subseteq DOMAIN r
    <3>1. DOMAIN r = DOMAIN db.rows \cup {KeyOf(db, n) : n \in Changed(db)}
      BY <2>9 DEF RowsAfter
    <3>2. DOMAIN comet.powers \subseteq DOMAIN db.rows \cup {KeyOf(db, n) : n \in Changed(db)}
      BY <1>1 DEF ChainInv, PastInv
    <3>3. comet.past \subseteq DOMAIN db.rows
      BY DEF ChainInv, PastInv
    <3> QED
      BY <3>1, <3>2, <3>3
  <2>13. PastInv'
    BY <2>2, <2>3, <2>8, <2>10, <2>12 DEF PastInv
  <2>14. PhaseInv' /\ BlockInv' /\ FinalizedInv' /\ DbInv'
    BY <1>4, <2>2, <2>5 DEF PhaseInv, BlockInv, FinalizedInv, DbInv
  <2>15. AnswersInv'
    <3>1. d.hashes[d.height].app = AnswerOf(work)
      BY <2>6 DEF AnswerOf
    <3> QED
      BY <2>2, <2>3, <3>1 DEF AnswersInv
  <2>16. RekeyedInv'
    <3>1. RowsExplained(work, rekeyed)
      BY <1>1 DEF ChainInv, RekeyedInv
    <3>2. RowsExplained(d, rekeyed)
      BY <2>6, <3>1 DEF RowsExplained, KeyOf
    <3> QED
      BY <1>1, <2>2, <3>2 DEF RekeyedInv
  <2>17. SlashedInv'
    <3> SUFFICES ASSUME NEW n \in SlashedOf(d)
                 PROVE  \E key \in accused : Declared(d.microblocks, n, key)
      BY <1>1, <2>2 DEF SlashedInv, SlashedFor
    <3>1. PICK key \in accused : Declared(db.microblocks, n, key)
      <4>1. CASE n \in SlashedOf(db)
        BY <4>1 DEF ChainInv, SlashedInv, SlashedFor
      <4>2. CASE n \in NodesOf(db.rows, block.accuses)
        <5>1. PICK key \in block.accuses : n = db.rows[key].node
          BY <4>2 DEF NodesOf
        <5>2. Declared(db.microblocks, n, key)
          BY <1>3, <1>4, <5>1 DEF Sound, GoodRows
        <5> QED
          BY <1>3, <5>1, <5>2
      <4> QED
        BY <1>6, <2>5, <4>1, <4>2
    <3>2. Declared(d.microblocks, n, key)
      BY <1>6, <2>6, <3>1, DeclaredStays
    <3> QED
      BY <3>2
  <2>18. HaltsExplained'
    BY <1>4, <2>2 DEF HaltsExplained
  <2> QED
    BY <2>11, <2>13, <2>14, <2>15, <2>16, <2>17, <2>18 DEF ChainInv
<1>9. CASE ~AcceptsUpdates(comet.powers, u)
  <2>1. /\ phase' = "halted" /\ status' = "refused updates"
        /\ UNCHANGED <<db, work, comet, answers>>
    BY <1>2, <1>9 DEF Commit
  <2>2. PhaseInv' /\ DbInv' /\ BlockInv' /\ FinalizedInv' /\ PowersInv' /\ PastInv' /\ SlashedInv'
    BY <1>1, <2>1
    DEF ChainInv, PhaseInv, DbInv, BlockInv, FinalizedInv, PowersInv, PastInv, SlashedInv
  <2>3. AnswersInv' /\ RekeyedInv'
    BY <1>1, <2>1 DEF ChainInv, AnswersInv, RekeyedInv
  <2>4. (\E n \in db.index : SharesKey(db, n)) \/ \A n \in db.index : VotingPower(db, n) = 0
    BY <1>4, <1>5, <1>7, <1>9, UpdatesAccepted
  <2>5. HaltsExplained'
    BY <2>1, <2>4 DEF HaltsExplained
  <2> QED
    BY <2>2, <2>3, <2>5 DEF ChainInv
<1> QED
  BY <1>8, <1>9

------------------------------------------------------------------------------
(* Theorems *)

LEMMA ChainNextInv == ASSUME ChainInv, [ChainNext]_chainVars PROVE ChainInv'
<1>1. CASE UNCHANGED chainVars
  <2>1. UNCHANGED <<db, work, phase, status, block, response, comet, faults,
                    answers, accused, rekeyed>>
    BY <1>1 DEF chainVars
  <2>2. PhaseInv' /\ DbInv' /\ BlockInv' /\ FinalizedInv' /\ PowersInv' /\ PastInv' /\ SlashedInv'
    BY <2>1
    DEF ChainInv, PhaseInv, DbInv, BlockInv, FinalizedInv, PowersInv, PastInv, SlashedInv
  <2>3. AnswersInv' /\ RekeyedInv' /\ HaltsExplained'
    BY <2>1 DEF ChainInv, AnswersInv, RekeyedInv, HaltsExplained
  <2> QED
    BY <2>2, <2>3 DEF ChainInv
<1>2. CASE RestartComet \/ RestartNode
  BY <1>2, RestartInv DEF RestartComet, RestartNode
<1> QED
  BY <1>1, <1>2, InitChainInv, DecideInv, FinalizeBlockInv, CommitInv DEF ChainNext

\* The committed tables are sound, CometBFT and the rows agree, and a block that awaits
\* Commit is the outcome of these tables and of the decided block alone.
THEOREM ChainInvariant == ChainSpec => []ChainInv
<1>1. ChainInit => ChainInv
  BY ChainInitInv
<1>2. ChainInv /\ [ChainNext]_chainVars => ChainInv'
  BY ChainNextInv
<1> QED
  BY <1>1, <1>2, PTL DEF ChainSpec

\* Executing a decided block again, from the caches or from the tables, gives the same
\* application hash, and that hash is the one CometBFT holds and the table has.
THEOREM SameBlockGivesSameHash == ChainSpec => []SameBlockSameHash
<1>1. ChainInv => SameBlockSameHash
  <2> SUFFICES ASSUME ChainInv PROVE SameBlockSameHash
    OBVIOUS
  <2>1. \A a, b \in answers : a = b
    BY DEF ChainInv, AnswersInv
  <2>2. Cardinality(answers) <= 1
    <3>1. CASE answers = {}
      BY <3>1, FS_EmptySet
    <3>2. CASE answers # {}
      <4>1. PICK a : answers = {a}
        BY <2>1, <3>2
      <4>2. Cardinality(answers) = 1
        BY <4>1, FS_Singleton
      <4> QED
        BY <4>2
    <3> QED
      BY <3>1, <3>2
  <2> QED
    BY <2>2 DEF ChainInv, PhaseInv, AnswersInv, SameBlockSameHash
<1> QED
  BY <1>1, ChainInvariant, PTL

\* The differences that buildValidatorSetUpdate() sends keep CometBFT at the powers of the
\* rows, and the rows at the stakes and approvals before the block.
THEOREM PowersOfTheRows == ChainSpec => []VotingPowersCurrent
<1>1. ChainInv => VotingPowersCurrent
  <2> SUFFICES ASSUME ChainInv PROVE VotingPowersCurrent
    OBVIOUS
  <2>1. ASSUME phase = "finalized", NEW n \in db.index, ~SharesKey(db, n)
        PROVE  RecordedPower(work, KeyOf(db, n)) = VotingPower(db, n)
    <3>1. /\ AreTransactions(block.txs) /\ IsFiniteSet(block.accuses)
          /\ block.accuses \subseteq DOMAIN db.rows
      BY <2>1 DEF ChainInv, BlockInv, PastInv
    <3>2. GoodDb(db) /\ work = Outcome(db, block, comet.powers)
      BY <2>1 DEF ChainInv, DbInv, FinalizedInv
    <3>3. RowsAfter(db, Changed(db), work.rows)
      BY <3>1, <3>2, OutcomeEffect
    <3>4. PICK key, r : key = KeyOf(db, n) /\ r = work.rows
      OBVIOUS
    <3>5. \A m \in Changed(db) : KeyOf(db, m) = key => m = n
      BY <2>1, <3>4 DEF Changed, SharesKey
    <3>6. CASE n \in Changed(db)
      <4>1. key \in DOMAIN r
        BY <3>3, <3>4, <3>6 DEF RowsAfter
      <4>2. r[key] = RowFor(db, n)
        BY <3>3, <3>4, <3>5, <3>6, <4>1 DEF RowsAfter
      <4> QED
        BY <3>4, <4>1, <4>2 DEF RecordedPower, RowFor
    <3>7. CASE n \notin Changed(db)
      <4>1. RecordedPower(db, key) = VotingPower(db, n)
        BY <2>1, <3>4, <3>7 DEF Changed
      <4>2. \A m \in Changed(db) : KeyOf(db, m) # key
        BY <3>5, <3>7
      <4>3. key \in DOMAIN r <=> key \in DOMAIN db.rows
        BY <3>3, <3>4, <4>2 DEF RowsAfter
      <4>4. key \in DOMAIN r => r[key] = db.rows[key]
        BY <3>3, <3>4, <4>2 DEF RowsAfter
      <4> QED
        BY <3>4, <4>1, <4>3, <4>4 DEF RecordedPower
    <3> QED
      BY <3>6, <3>7
  <2>2. SamePowers(comet.powers, db.rows)
    BY DEF ChainInv, PowersInv
  <2>3. \A key : PowerAtComet(key) = PowerIn(comet.powers, key)
    BY DEF PowerAtComet, PowerIn
  <2>4. \A key \in DOMAIN comet.powers \cup DOMAIN db.rows :
          PowerAtComet(key) = IF key \in DOMAIN db.rows THEN db.rows[key].power
                              ELSE GenesisPowers[key]
    BY <2>2, <2>3 DEF SamePowers
  <2> QED
    BY <2>1, <2>4 DEF VotingPowersCurrent
<1> QED
  BY <1>1, ChainInvariant, PTL

\* A validator of any earlier block can be accused, and the node that is slashed is one
\* that declared the accused key.
THEOREM AccusedAreFound == ChainSpec => []MisbehaviourAttributed
<1>1. ChainInv => MisbehaviourAttributed
  BY DEF ChainInv, PhaseInv, SlashedInv, SlashedFor, SlashedOf, Declared, HasDeclared,
         MisbehaviourAttributed
<1> QED
  BY <1>1, ChainInvariant, PTL

\* The chain halts only after a node left a key that had a row, when two nodes share a key
\* or when no node has any power.
THEOREM HaltsAreExplained == ChainSpec => []HaltsExplained
<1>1. ChainInv => HaltsExplained
  BY DEF ChainInv
<1> QED
  BY <1>1, ChainInvariant, PTL
------------------------------------------------------------------------------
(* The histories of accounts *)

RangeLoop(history, from, to) ==
  [over |-> "range", ordered |-> TRUE, history |-> history, from |-> from, to |-> to]

LEMMA RangeSteps ==
  ASSUME NEW history, NEW from, NEW to
  PROVE  /\ \A acc, x : StepOf(RangeLoop(history, from, to), acc, x) =
              WithPrevious(history, from, to, acc)
         /\ \A s : Picked(RangeLoop(history, from, to), s) = Max(s)
         /\ RangeLoop(history, from, to).ordered
<1>1. PICK loop : loop = RangeLoop(history, from, to)
  OBVIOUS
<1>2. /\ loop.over = "range" /\ loop.ordered
      /\ loop.history = history /\ loop.from = from /\ loop.to = to
  BY <1>1 DEF RangeLoop
<1>3. \A acc, x : StepOf(loop, acc, x) = WithPrevious(history, from, to, acc)
  BY <1>2 DEF StepOf
<1> QED
  BY <1>1, <1>2, <1>3 DEF Picked

IsRangeFold(h, history, from, to, n) ==
  h = [s \in SUBSET DOMAIN [i \in 1..n |-> i] |->
         IF s = {} THEN <<>>
         ELSE LET i == Max(s) IN WithPrevious(history, from, to, h[s \ {i}])]

LEMMA RangeRun ==
  ASSUME NEW history, NEW from, NEW to, NEW n \in Nat, n = Cardinality(DOMAIN history)
  PROVE  \E r : /\ r[0] = <<>> /\ r[n] = GetHistoryRange(history, from, to)
                /\ \A i \in 1..n : r[i] = WithPrevious(history, from, to, r[i - 1])
<1>1. PICK loop : loop = RangeLoop(history, from, to)
  OBVIOUS
<1>2. /\ loop.ordered /\ \A s : Picked(loop, s) = Max(s)
      /\ \A acc, x : StepOf(loop, acc, x) = WithPrevious(history, from, to, acc)
  BY <1>1, RangeSteps
<1>3. PICK e : e = <<>>
  OBVIOUS
<1>4. PICK h : IsFoldOf(h, loop, e, 1..n)
  BY <1>2, PositionsFoldExists
<1>5. DOMAIN [i \in 1..n |-> i] = 1..n
  OBVIOUS
<1>6. ASSUME NEW g PROVE IsFoldOf(g, loop, e, 1..n) <=> IsRangeFold(g, history, from, to, n)
  <2> DEFINE A(s) == IF s = {} THEN e
                     ELSE StepOf(loop, g[s \ {Picked(loop, s)}], Picked(loop, s))
             B(s) == IF s = {} THEN <<>>
                     ELSE LET i == Max(s) IN WithPrevious(history, from, to, g[s \ {i}])
  <2>1. \A s : A(s) = B(s)
    BY <1>2, <1>3
  <2> HIDE DEF A, B
  <2>2. [s \in SUBSET (1..n) |-> A(s)] = [s \in SUBSET (1..n) |-> B(s)]
    BY <2>1
  <2> QED
    BY <1>5, <2>2 DEF IsFoldOf, IsRangeFold, A, B
<1> DEFINE k == CHOOSE g : IsRangeFold(g, history, from, to, n)
<1>7. IsFoldOf(k, loop, e, 1..n)
  BY <1>4, <1>6
<1>8. GetHistoryRange(history, from, to) = k[DOMAIN [i \in 1..n |-> i]]
  BY DEF GetHistoryRange, FoldLeft, MapThenFoldSet, IsRangeFold
<1> HIDE DEF k
<1>9. PICK r : IsRun(r, loop, e, n) /\ r[n] = k[1..n]
  BY <1>2, <1>7, RunOfFold
<1>10. r[n] = GetHistoryRange(history, from, to)
  BY <1>5, <1>8, <1>9
<1>11. r[0] = <<>> /\ \A i \in 1..n : r[i] = WithPrevious(history, from, to, r[i - 1])
  <2>1. r[0] = e /\ \A i \in 1..n : r[i] = StepOf(loop, r[i - 1], i)
    BY <1>9 DEF IsRun
  <2> QED
    BY <1>2, <1>3, <2>1
<1> QED
  BY <1>10, <1>11

\* The hash of the last of the first h entries.
LastOf(c, h) == IF h = 0 THEN NullHash ELSE c[h]

\* c has the hashes of the entries of account x up to height h, which are linked.
IsChain(c, history, x, h) ==
  \A i \in 1..h :
    /\ c[i] \in DOMAIN history /\ c[i] # NullHash /\ c[i].account = x /\ c[i].height = i
    /\ history[c[i]].height = i /\ history[c[i]].previous = LastOf(c, i - 1)

\* The k entries up to height h, from the last one back.
Entries(c, history, h, k) == [j \in 1..k |-> history[c[h + 1 - j]]]

AreEntries(list, c, history, h, k) ==
  /\ DOMAIN list = 1..k /\ Len(list) = k /\ (list = <<>> <=> k = 0)
  /\ \A j \in 1..k : list[j] = history[c[h + 1 - j]]
  /\ k # 0 => Last(list) = history[c[h + 1 - k]]
  /\ Append(list, history[c[h - k]]) = Entries(c, history, h, k + 1)

\* The sequence s of length n, and one more element.
OneMore(s, n, e) == [j \in 1..(n + 1) |-> IF j <= n THEN s[j] ELSE e]

LEMMA AppendedElement ==
  ASSUME NEW S, NEW s, s \in Seq(S), NEW n, n = Len(s), NEW e, NEW t, t = Append(s, e)
  PROVE  t = OneMore(s, n, e)
<1>1. PICK T : T = S \cup {e}
  OBVIOUS
<1>2. s \in Seq(T) /\ e \in T /\ n \in Nat
  BY <1>1
<1>3. t \in Seq(T) /\ Len(t) = n + 1 /\ (\A i \in 1..n : t[i] = s[i]) /\ t[n + 1] = e
  BY <1>2, AppendProperties
<1>4. t = [j \in 1..(n + 1) |-> t[j]]
  <2>1. t \in [1..Len(t) -> T]
    BY <1>3, LenProperties
  <2> QED
    BY <1>3, <2>1
<1>5. \A j \in 1..(n + 1) : t[j] = IF j <= n THEN s[j] ELSE e
  <2> SUFFICES ASSUME NEW j \in 1..(n + 1) PROVE t[j] = IF j <= n THEN s[j] ELSE e
    OBVIOUS
  <2>1. CASE j <= n
    <3>1. j \in 1..n
      BY <1>2, <2>1
    <3> QED
      BY <1>3, <2>1, <3>1
  <2>2. CASE ~(j <= n)
    <3>1. j = n + 1
      BY <1>2, <2>2
    <3> QED
      BY <1>3, <2>2, <3>1
  <2> QED
    BY <2>1, <2>2
<1> QED
  BY <1>4, <1>5 DEF OneMore

LEMMA EntriesSequence ==
  ASSUME NEW c, NEW history, NEW h \in Nat, NEW k \in Nat, NEW list, list = Entries(c, history, h, k)
  PROVE  AreEntries(list, c, history, h, k)
<1>1. PICK S : S = {history[c[h + 1 - j]] : j \in 1..k}
  OBVIOUS
<1>2. list \in [1..k -> S]
  BY <1>1 DEF Entries
<1>3. list \in Seq(S) /\ Len(list) = k /\ DOMAIN list = 1..k
  BY <1>2
<1>4. \A j \in 1..k : list[j] = history[c[h + 1 - j]]
  BY DEF Entries
<1>5. list = <<>> <=> k = 0
  BY <1>3
<1>6. ASSUME k # 0 PROVE Last(list) = history[c[h + 1 - k]]
  <2>1. k \in 1..k
    BY <1>6
  <2> QED
    BY <1>3, <1>4, <2>1 DEF Last
<1>7. ASSUME NEW e, e = history[c[h - k]] PROVE Append(list, e) = Entries(c, history, h, k + 1)
  <2>1. Append(list, e) = [j \in 1..(k + 1) |-> IF j <= k THEN list[j] ELSE e]
    <3>1. PICK t : t = Append(list, e)
      OBVIOUS
    <3>2. list \in Seq(S) /\ k = Len(list)
      BY <1>3
    <3>3. t = OneMore(list, k, e)
      BY <3>1, <3>2, AppendedElement
    <3> QED
      BY <3>1, <3>3 DEF OneMore
  <2>2. \A j \in 1..(k + 1) : (IF j <= k THEN list[j] ELSE e) = history[c[h + 1 - j]]
    <3> SUFFICES ASSUME NEW j \in 1..(k + 1)
                 PROVE  (IF j <= k THEN list[j] ELSE e) = history[c[h + 1 - j]]
      OBVIOUS
    <3>1. CASE j <= k
      <4>1. j \in 1..k
        BY <3>1
      <4> QED
        BY <1>4, <3>1, <4>1
    <3>2. CASE ~(j <= k)
      <4>1. j = k + 1 /\ h + 1 - j = h - k
        BY <3>2
      <4> QED
        BY <1>7, <3>2, <4>1
    <3> QED
      BY <3>1, <3>2
  <2> QED
    BY <2>1, <2>2 DEF Entries
<1> QED
  BY <1>3, <1>4, <1>5, <1>6, <1>7 DEF AreEntries

\* The number of entries does not exceed that of the rows of the table.
LEMMA ChainFits ==
  ASSUME NEW history, IsFiniteSet(DOMAIN history), NEW x, NEW h \in Nat, NEW c,
         IsChain(c, history, x, h)
  PROVE  Cardinality(DOMAIN history) \in Nat /\ h <= Cardinality(DOMAIN history)
<1>1. PICK S, T : S = 1..h /\ T = DOMAIN history
  OBVIOUS
<1>2. PICK f : f = [i \in S |-> c[i]]
  OBVIOUS
<1>3. f \in [S -> T]
  BY <1>1, <1>2 DEF IsChain
<1>4. \A i, j \in S : f[i] = f[j] => i = j
  BY <1>1, <1>2 DEF IsChain
<1>5. f \in Injection(S, T)
  BY <1>3, <1>4 DEF Injection, IsInjective
<1>6. Cardinality(S) = h /\ IsFiniteSet(T)
  BY <1>1, FS_Interval
<1> QED
  BY <1>1, <1>5, <1>6, FS_Injection, FS_CardinalityType

\* The range from the last entry back to the one k entries before.
IsRangeOf(history, x, h, c, k, from, to) ==
  /\ h \in Nat /\ k \in Nat /\ k <= h /\ IsChain(c, history, x, h)
  /\ from = LastOf(c, h) /\ to = LastOf(c, h - k)

\* One call of the loop adds one entry, until the known one is reached.
LEMMA RangeGoesOn ==
  ASSUME NEW history, NEW x, NEW h, NEW c, NEW k, NEW from, NEW to,
         IsRangeOf(history, x, h, c, k, from, to),
         NEW i \in Nat, i <= k, NEW list, list = Entries(c, history, h, i),
         NEW next, next = IF i < k THEN i + 1 ELSE k
  PROVE  WithPrevious(history, from, to, list) = Entries(c, history, h, next)
<1>0. /\ h \in Nat /\ k \in Nat /\ k <= h /\ IsChain(c, history, x, h)
      /\ from = LastOf(c, h) /\ to = LastOf(c, h - k)
  BY DEF IsRangeOf
<1>1. PICK hash : hash = IF list = <<>> THEN from ELSE Last(list).previous
  OBVIOUS
<1>2. /\ list = <<>> <=> i = 0
      /\ i # 0 => Last(list) = history[c[h + 1 - i]]
      /\ Append(list, history[c[h - i]]) = Entries(c, history, h, i + 1)
  <2>1. AreEntries(list, c, history, h, i)
    BY <1>0, EntriesSequence
  <2> QED
    BY <2>1 DEF AreEntries
<1>3. PICK m : m = h - i
  OBVIOUS
<1>4. m \in Nat /\ m <= h
  BY <1>0, <1>3
<1>5. hash = LastOf(c, m)
  <2>1. CASE i = 0
    BY <1>0, <1>1, <1>2, <1>3, <2>1
  <2>2. CASE i # 0
    <3>1. h + 1 - i \in 1..h /\ (h + 1 - i) - 1 = m
      BY <1>0, <1>3, <2>2
    <3>2. history[c[h + 1 - i]].previous = LastOf(c, m)
      BY <1>0, <3>1 DEF IsChain
    <3> QED
      BY <1>1, <1>2, <2>2, <3>2
  <2> QED
    BY <2>1, <2>2
<1>6. WithPrevious(history, from, to, list) =
        IF hash \in {NullHash, to} \/ hash \notin DOMAIN history THEN list
        ELSE Append(list, history[hash])
  BY <1>1 DEF WithPrevious
<1>7. CASE i < k
  <2>1. m \in 1..h /\ m # 0 /\ h - k \in 0..h /\ h - k < m
    BY <1>0, <1>3, <1>7
  <2>2. hash = c[m] /\ c[m] \in DOMAIN history /\ c[m] # NullHash /\ c[m].height = m
    BY <1>0, <1>5, <2>1 DEF LastOf, IsChain
  <2>3. to # c[m]
    <3>1. CASE h - k = 0
      BY <1>0, <2>2, <3>1 DEF LastOf
    <3>2. CASE h - k # 0
      <4>1. h - k \in 1..h
        BY <2>1, <3>2
      <4>2. to = c[h - k] /\ c[h - k].height = h - k
        BY <1>0, <3>2, <4>1 DEF LastOf, IsChain
      <4> QED
        BY <2>1, <2>2, <4>2
    <3> QED
      BY <3>1, <3>2
  <2>4. WithPrevious(history, from, to, list) = Append(list, history[hash])
    BY <1>6, <2>2, <2>3
  <2> QED
    BY <1>2, <1>3, <1>7, <2>2, <2>4
<1>8. CASE ~(i < k)
  <2>1. i = k /\ hash = to
    BY <1>0, <1>3, <1>5, <1>8
  <2> QED
    BY <1>6, <1>8, <2>1
<1> QED
  BY <1>7, <1>8

LEMMA RangeOfChain ==
  ASSUME NEW history, IsFiniteSet(DOMAIN history), NEW x, NEW h \in Nat, NEW c,
         IsChain(c, history, x, h),
         NEW k \in Nat, k <= h, NEW from, from = LastOf(c, h), NEW to, to = LastOf(c, h - k),
         NEW list, list = GetHistoryRange(history, from, to)
  PROVE  /\ Len(list) = k
         /\ \A i \in DOMAIN list : list[i].height = h + 1 - i
<1>1. PICK n \in Nat : n = Cardinality(DOMAIN history)
  BY ChainFits
<1>2. h <= n
  BY <1>1, ChainFits
<1>3. PICK r : /\ r[0] = <<>> /\ r[n] = list
               /\ \A i \in 1..n : r[i] = WithPrevious(history, from, to, r[i - 1])
  BY <1>1, RangeRun
<1> DEFINE Upto(i) == IF i < k THEN i ELSE k
           N == {i \in Nat : i <= n => r[i] = Entries(c, history, h, Upto(i))}
<1>4. 0 \in N
  <2>1. Entries(c, history, h, 0) = <<>>
    <3>1. PICK none : none = Entries(c, history, h, 0)
      OBVIOUS
    <3>2. AreEntries(none, c, history, h, 0)
      BY <3>1, EntriesSequence
    <3> QED
      BY <3>1, <3>2 DEF AreEntries
  <2>2. Upto(0) = 0
    OBVIOUS
  <2> QED
    BY <1>3, <2>1, <2>2
<1>5. ASSUME NEW i \in Nat, i \in N PROVE i + 1 \in N
  <2> SUFFICES ASSUME i + 1 <= n PROVE r[i + 1] = Entries(c, history, h, Upto(i + 1))
    OBVIOUS
  <2>1. PICK j \in Nat : j = Upto(i)
    OBVIOUS
  <2>2. PICK next : next = Upto(i + 1)
    OBVIOUS
  <2>8. j <= k /\ next = IF j < k THEN j + 1 ELSE k
    BY <2>1, <2>2
  <2>3. PICK s : s = r[i]
    OBVIOUS
  <2>4. s = Entries(c, history, h, j)
    BY <1>5, <2>1, <2>3
  <2>5. i + 1 \in 1..n /\ (i + 1) - 1 = i
    OBVIOUS
  <2>6. r[i + 1] = WithPrevious(history, from, to, s)
    BY <1>3, <2>3, <2>5
  <2>7. WithPrevious(history, from, to, s) = Entries(c, history, h, next)
    <3>1. IsRangeOf(history, x, h, c, k, from, to)
      BY DEF IsRangeOf
    <3> QED
      BY <2>4, <2>8, <3>1, RangeGoesOn
  <2> QED
    BY <2>2, <2>6, <2>7
<1>6. n \in N
  <2> HIDE DEF N
  <2> QED
    BY <1>4, <1>5, InductionOnNumbers
<1>7. Upto(n) = k
  BY <1>2
<1>8. list = Entries(c, history, h, k)
  BY <1>3, <1>6, <1>7
<1>9. /\ DOMAIN list = 1..k /\ Len(list) = k
      /\ \A j \in 1..k : list[j] = history[c[h + 1 - j]]
  <2>1. AreEntries(list, c, history, h, k)
    BY <1>8, EntriesSequence
  <2> QED
    BY <2>1 DEF AreEntries
<1>10. ASSUME NEW j \in 1..k PROVE list[j].height = h + 1 - j
  <2>1. h + 1 - j \in 1..h
    OBVIOUS
  <2> QED
    BY <1>9, <2>1 DEF IsChain
<1> QED
  BY <1>9, <1>10
------------------------------------------------------------------------------
(* What a block does to the histories *)

\* Account x has gone from old to new, whose entries are linked down to those of old.
AccountGrows(history, touched, x, old, new) ==
  /\ old.height \in Nat /\ new.height \in Nat /\ old.height <= new.height
  /\ \E c : /\ IsChain(c, history, x, new.height)
            /\ new.last = LastOf(c, new.height) /\ old.last = LastOf(c, old.height)
  /\ x \in touched \/ new = old

HistoryGrows(d, w) ==
  /\ IsFiniteSet(DOMAIN w.history) /\ DOMAIN w.accounts \subseteq Accounts
  /\ \A x \in Accounts :
       AccountGrows(w.history, w.touched, x, AccountState(d, x), AccountState(w, x))

LEMMA ChainStays ==
  ASSUME NEW c, NEW history, NEW x, NEW h \in Nat, IsChain(c, history, x, h),
         NEW hash, NEW e, NEW g, g = Put(history, hash, e), \A i \in 1..h : c[i] # hash
  PROVE  IsChain(c, g, x, h)
<1>1. \A k \in DOMAIN history : k # hash => k \in DOMAIN g /\ g[k] = history[k]
  BY DEF Put
<1> QED
  BY <1>1 DEF IsChain

\* The entry at the next height, linked to the last one.
LEMMA ChainExtends ==
  ASSUME NEW c, NEW history, NEW x, NEW h \in Nat, IsChain(c, history, x, h),
         NEW reference, NEW hash, hash = [account |-> x, height |-> h + 1, reference |-> reference],
         NEW previous, previous = LastOf(c, h), NEW g,
         g = Put(history, hash, [height |-> h + 1, reference |-> reference, previous |-> previous])
  PROVE  \E b : /\ IsChain(b, g, x, h + 1) /\ hash = LastOf(b, h + 1)
                /\ \A i \in 0..h : LastOf(b, i) = LastOf(c, i)
<1>1. PICK b : b = [i \in 1..(h + 1) |-> IF i = h + 1 THEN hash ELSE c[i]]
  OBVIOUS
<1>2. PICK e : e = [height |-> h + 1, reference |-> reference, previous |-> previous]
  OBVIOUS
<1>3. e.height = h + 1 /\ e.previous = previous /\ g = Put(history, hash, e)
  BY <1>2
<1>4. hash.height = h + 1 /\ hash.account = x /\ hash # NullHash
  <2>1. DOMAIN hash = {"account", "height", "reference"} /\ DOMAIN NullHash = {"zeros"}
    BY DEF NullHash
  <2>2. "height" # "zeros"
    OBVIOUS
  <2> QED
    BY <2>1, <2>2
<1>5. \A i \in 1..h : i \in 1..(h + 1) /\ b[i] = c[i] /\ c[i] # hash
  <2>1. \A i \in 1..h : i \in 1..(h + 1) /\ i # h + 1
    OBVIOUS
  <2>2. \A i \in 1..h : c[i].height = i
    BY DEF IsChain
  <2> QED
    BY <1>1, <1>4, <2>1, <2>2
<1>6. IsChain(c, g, x, h)
  BY <1>3, <1>5, ChainStays
<1>7. b[h + 1] = hash /\ hash \in DOMAIN g /\ g[hash] = e
  <2>1. h + 1 \in 1..(h + 1)
    OBVIOUS
  <2>2. hash \in DOMAIN g /\ g[hash] = e
    BY <1>3 DEF Put
  <2> QED
    BY <1>1, <2>1, <2>2
<1>8. \A i \in 0..h : LastOf(b, i) = LastOf(c, i)
  <2> SUFFICES ASSUME NEW i \in 0..h PROVE LastOf(b, i) = LastOf(c, i)
    OBVIOUS
  <2>1. i = 0 \/ i \in 1..h
    OBVIOUS
  <2> QED
    BY <1>5, <2>1 DEF LastOf
<1>9. IsChain(b, g, x, h + 1)
  <2> SUFFICES ASSUME NEW i \in 1..(h + 1)
               PROVE  /\ b[i] \in DOMAIN g /\ b[i] # NullHash /\ b[i].account = x
                      /\ b[i].height = i /\ g[b[i]].height = i
                      /\ g[b[i]].previous = LastOf(b, i - 1)
    BY DEF IsChain
  <2>1. CASE i = h + 1
    <3>1. LastOf(b, i - 1) = previous
      <4>1. h \in 0..h /\ i - 1 = h
        BY <2>1
      <4> QED
        BY <1>8, <4>1
    <3> QED
      BY <1>3, <1>4, <1>7, <2>1, <3>1
  <2>2. CASE i # h + 1
    <3>1. i \in 1..h /\ i - 1 \in 0..h
      BY <2>2
    <3>2. LastOf(b, i - 1) = LastOf(c, i - 1) /\ b[i] = c[i]
      BY <1>5, <1>8, <3>1
    <3> QED
      BY <1>6, <3>1, <3>2 DEF IsChain
  <2> QED
    BY <2>1, <2>2
<1>10. LastOf(b, h + 1) = hash
  BY <1>7 DEF LastOf
<1> QED
  BY <1>8, <1>9, <1>10

\* An account that is not saved, while another gets an entry.
LEMMA OthersGrow ==
  ASSUME NEW history, NEW touched, NEW y, NEW old, NEW new,
         AccountGrows(history, touched, y, old, new),
         NEW more, touched \subseteq more,
         NEW hash, hash.account # y, NEW e, NEW g, g = Put(history, hash, e)
  PROVE  AccountGrows(g, more, y, old, new)
<1>1. PICK c : /\ IsChain(c, history, y, new.height) /\ new.height \in Nat
               /\ new.last = LastOf(c, new.height) /\ old.last = LastOf(c, old.height)
  BY DEF AccountGrows
<1>2. PICK h \in Nat : h = new.height
  BY <1>1
<1>3. \A i \in 1..h : c[i] # hash
  BY <1>1, <1>2 DEF IsChain
<1>4. IsChain(c, history, y, h)
  BY <1>1, <1>2
<1>5. IsChain(c, g, y, h)
  BY <1>3, <1>4, ChainStays
<1>6. IsChain(c, g, y, new.height)
  BY <1>2, <1>5
<1> QED
  BY <1>1, <1>6 DEF AccountGrows

\* The account that gets the entry.
LEMMA OneGrows ==
  ASSUME NEW history, NEW touched, NEW x, NEW old, NEW b,
         AccountGrows(history, touched, x, old, b),
         NEW a, a.height = b.height + 1, NEW reference,
         a.last = [account |-> x, height |-> b.height + 1, reference |-> reference],
         NEW g, g = Put(history, a.last,
                        [height |-> b.height + 1, reference |-> reference, previous |-> b.last]),
         NEW more, x \in more
  PROVE  AccountGrows(g, more, x, old, a)
<1>1. PICK c : /\ IsChain(c, history, x, b.height)
               /\ b.last = LastOf(c, b.height) /\ old.last = LastOf(c, old.height)
  BY DEF AccountGrows
<1>2. old.height \in Nat /\ b.height \in Nat /\ old.height <= b.height
  BY DEF AccountGrows
<1>3. PICK h \in Nat : h = b.height
  BY <1>2
<1>4. PICK hash, previous : hash = a.last /\ previous = b.last
  OBVIOUS
<1>5. /\ IsChain(c, history, x, h) /\ previous = LastOf(c, h)
      /\ hash = [account |-> x, height |-> h + 1, reference |-> reference]
      /\ g = Put(history, hash, [height |-> h + 1, reference |-> reference, previous |-> previous])
  BY <1>1, <1>3, <1>4
<1>6. PICK f : /\ IsChain(f, g, x, h + 1) /\ hash = LastOf(f, h + 1)
               /\ \A i \in 0..h : LastOf(f, i) = LastOf(c, i)
  BY <1>5, ChainExtends
<1>7. old.height \in 0..h
  BY <1>2, <1>3
<1>8. old.last = LastOf(f, old.height)
  BY <1>1, <1>6, <1>7
<1>9. a.height = h + 1 /\ h + 1 \in Nat /\ old.height <= h + 1
  BY <1>2, <1>3
<1>10. IsChain(f, g, x, a.height) /\ a.last = LastOf(f, a.height)
  BY <1>4, <1>6, <1>9
<1> QED
  BY <1>2, <1>8, <1>9, <1>10 DEF AccountGrows

LEMMA HistoryStep ==
  ASSUME NEW d, NEW w, NEW v, HistoryGrows(d, w), Step(w, v)
  PROVE  HistoryGrows(d, v)
<1>1. CASE MicroblockStep(w, v) \/ RowsStep(w, v)
  <2>1. v.accounts = w.accounts /\ v.history = w.history /\ v.touched = w.touched
    BY <1>1 DEF MicroblockStep, StoredAs, RowsStep
  <2>2. \A x : AccountState(v, x) = AccountState(w, x)
    BY <2>1 DEF AccountState
  <2> QED
    BY <2>1, <2>2 DEF HistoryGrows
<1>2. CASE AccountStep(w, v)
  <2>1. PICK x \in Accounts : \E a : /\ Saved(w, v, x, a) /\ IsAccount(a)
                                     /\ (WithNewEntry(w, v, x, a) \/ WithSameEntries(w, v, x, a))
    BY <1>2 DEF AccountStep
  <2>2. PICK a : /\ Saved(w, v, x, a)
                 /\ (WithNewEntry(w, v, x, a) \/ WithSameEntries(w, v, x, a))
    BY <2>1
  <2>3. /\ v.touched = w.touched \cup {x} /\ DOMAIN v.accounts = DOMAIN w.accounts \cup {x}
        /\ AccountState(v, x) = a
        /\ \A y \in Accounts \ {x} : AccountState(v, y) = AccountState(w, y)
    BY <2>2 DEF Saved
  <2>4. DOMAIN v.accounts \subseteq Accounts
    BY <2>3 DEF HistoryGrows
  <2>5. PICK touched, more : touched = w.touched /\ more = v.touched
    OBVIOUS
  <2>6. touched \subseteq more /\ x \in more
    BY <2>3, <2>5
  <2>7. CASE WithSameEntries(w, v, x, a)
    <3>1. v.history = w.history
      BY <2>7 DEF WithSameEntries
    <3>2. a.height = AccountState(w, x).height /\ a.last = AccountState(w, x).last
      BY <2>7 DEF WithSameEntries, AccountState
    <3>3. \A y \in Accounts : AccountGrows(w.history, touched, y, AccountState(d, y), AccountState(w, y))
      BY <2>5 DEF HistoryGrows
    <3>4. \A y \in Accounts : AccountGrows(w.history, more, y, AccountState(d, y), AccountState(v, y))
      <4> SUFFICES ASSUME NEW y \in Accounts
                   PROVE  AccountGrows(w.history, more, y, AccountState(d, y), AccountState(v, y))
        OBVIOUS
      <4>1. AccountGrows(w.history, touched, y, AccountState(d, y), AccountState(w, y))
        BY <3>3
      <4>2. CASE y = x
        BY <2>3, <2>6, <3>2, <4>1, <4>2 DEF AccountGrows
      <4>3. CASE y # x
        BY <2>3, <2>6, <4>1, <4>3 DEF AccountGrows
      <4> QED
        BY <4>2, <4>3
    <3> QED
      BY <2>4, <2>5, <3>1, <3>4 DEF HistoryGrows
  <2>8. CASE WithNewEntry(w, v, x, a)
    <3>1. PICK fees \in Nat : \E reference, b : Transferred(w, v, x, fees, reference, b, a)
      BY <2>8 DEF WithNewEntry
    <3>2. PICK reference, b : Transferred(w, v, x, fees, reference, b, a)
      BY <3>1
    <3>3. PICK hash, e : /\ hash = a.last
                         /\ e = [height |-> b.height + 1, reference |-> reference, previous |-> b.last]
      OBVIOUS
    <3>4. PICK history, g : history = w.history /\ g = v.history
      OBVIOUS
    <3>5. /\ b = AccountState(w, x) /\ a.height = b.height + 1
          /\ hash = [account |-> x, height |-> b.height + 1, reference |-> reference]
          /\ g = Put(history, hash, e)
      BY <3>2, <3>3, <3>4 DEF Transferred
    <3>6. hash.account = x
      BY <3>5
    <3>7. \A y \in Accounts : AccountGrows(history, touched, y, AccountState(d, y), AccountState(w, y))
      BY <2>5, <3>4 DEF HistoryGrows
    <3>8. ASSUME NEW y \in Accounts
          PROVE  AccountGrows(g, more, y, AccountState(d, y), AccountState(v, y))
      <4>1. PICK old, new : old = AccountState(d, y) /\ new = AccountState(w, y)
        OBVIOUS
      <4>2. AccountGrows(history, touched, y, old, new)
        BY <3>7, <4>1
      <4>3. CASE y = x
        <5>1. AccountGrows(history, touched, x, old, b)
          BY <3>5, <4>1, <4>2, <4>3
        <5>2. /\ a.last = [account |-> x, height |-> b.height + 1, reference |-> reference]
              /\ g = Put(history, a.last,
                         [height |-> b.height + 1, reference |-> reference, previous |-> b.last])
          BY <3>3, <3>5
        <5>3. AccountGrows(g, more, x, old, a)
          BY <2>6, <3>5, <5>1, <5>2, OneGrows
        <5> QED
          BY <2>3, <4>1, <4>3, <5>3
      <4>4. CASE y # x
        <5>1. AccountGrows(g, more, y, old, new)
          BY <2>6, <3>5, <3>6, <4>2, <4>4, OthersGrow
        <5> QED
          BY <2>3, <4>1, <4>4, <5>1
      <4> QED
        BY <4>3, <4>4
    <3>9. IsFiniteSet(DOMAIN g)
      <4>1. DOMAIN g = DOMAIN history \cup {hash}
        BY <3>5 DEF Put
      <4> QED
        BY <3>4, <4>1, FS_AddElement DEF HistoryGrows
    <3> QED
      BY <2>4, <2>5, <3>4, <3>8, <3>9 DEF HistoryGrows
  <2> QED
    BY <2>2, <2>7, <2>8
<1> QED
  BY <1>1, <1>2 DEF Step

\* So do all steps of a block together.
LEMMA HistoryLeads ==
  ASSUME NEW d, NEW w, NEW v, HistoryGrows(d, w), Leads(w, v)
  PROVE  HistoryGrows(d, v)
<1>1. PICK n \in Nat : \E tr : IsTrace(tr, n, w, v)
  BY DEF Leads
<1>2. PICK tr : IsTrace(tr, n, w, v)
  BY <1>1
<1>3. tr[0] = w /\ tr[n] = v /\ \A i \in 1..n : Step(tr[i - 1], tr[i])
  BY <1>2 DEF IsTrace
<1> DEFINE N == {i \in Nat : i <= n => HistoryGrows(d, tr[i])}
<1>4. 0 \in N
  BY <1>3
<1>5. ASSUME NEW i \in Nat, i \in N PROVE i + 1 \in N
  <2> SUFFICES ASSUME i + 1 <= n PROVE HistoryGrows(d, tr[i + 1])
    OBVIOUS
  <2>1. HistoryGrows(d, tr[i])
    BY <1>5
  <2>2. i + 1 \in 1..n /\ (i + 1) - 1 = i
    OBVIOUS
  <2>3. Step(tr[i], tr[i + 1])
    BY <1>3, <2>2
  <2> QED
    BY <2>1, <2>3, HistoryStep
<1>6. n \in N
  <2> HIDE DEF N
  <2> QED
    BY <1>4, <1>5, InductionOnNumbers
<1> QED
  BY <1>3, <1>6

\* The histories of a committed state: every account is at the end of its own.
Linked(d) ==
  /\ IsFiniteSet(DOMAIN d.history) /\ DOMAIN d.accounts \subseteq Accounts
  /\ \A x \in Accounts :
       AccountGrows(d.history, {}, x, AccountState(d, x), AccountState(d, x))

LEMMA LinkedGrows ==
  ASSUME NEW d, IsState(d), Linked(d), NEW w, w = OpenState(d)
  PROVE  HistoryGrows(d, w)
<1>1. SameTables(d, w)
  BY OpenStateTables
<1>2. w.history = d.history /\ w.accounts = d.accounts
  BY <1>1 DEF SameTables
<1>3. \A x : AccountState(w, x) = AccountState(d, x)
  BY <1>2 DEF AccountState
<1> QED
  BY <1>2, <1>3 DEF HistoryGrows, Linked, AccountGrows

LEMMA GrownIsLinked ==
  ASSUME NEW d, NEW w, HistoryGrows(d, w), NEW v, v.history = w.history, v.accounts = w.accounts
  PROVE  Linked(v)
<1>1. \A x : AccountState(v, x) = AccountState(w, x)
  BY DEF AccountState
<1>2. ASSUME NEW x \in Accounts
      PROVE  AccountGrows(v.history, {}, x, AccountState(v, x), AccountState(v, x))
  <2>1. AccountGrows(w.history, w.touched, x, AccountState(d, x), AccountState(w, x))
    BY DEF HistoryGrows
  <2> QED
    BY <1>1, <2>1 DEF AccountGrows
<1> QED
  BY <1>2 DEF HistoryGrows, Linked
------------------------------------------------------------------------------
(* Commits *)

LEMMA EndOfBlockAccounts ==
  ASSUME NEW d, NEW w, IsState(w), NEW height, NEW v, v = EndOfBlock(d, w, height)
  PROVE  /\ IsState(v) /\ v.height = height
         /\ v.accounts = w.accounts /\ v.history = w.history
         /\ height \in DOMAIN v.modified /\ v.modified[height] = w.touched
         /\ v.vbs = w.vbs /\ v.microblocks = w.microblocks /\ v.merkle = w.merkle
         /\ v.vbRadix = w.vbRadix /\ v.tokenRadix = w.tokenRadix
<1>1. PICK h, m : /\ h = Put(w.hashes, height, ApplicationStateHashes(d, w))
                  /\ m = Put(w.modified, height, w.touched)
  OBVIOUS
<1>2. v = [w EXCEPT !.height = height, !.hashes = h, !.modified = m]
  BY <1>1 DEF EndOfBlock
<1>3. height \in DOMAIN m /\ m[height] = w.touched
  BY <1>1 DEF Put
<1> QED
  BY <1>2, <1>3 DEF IsState, StateFields

LEMMA CommitStateKeeps ==
  ASSUME NEW d, NEW w, IsState(w), NEW v, v = CommitState(d, w)
  PROVE  /\ v.height = w.height /\ v.accounts = w.accounts /\ v.history = w.history
         /\ v.modified = w.modified /\ v.vbs = w.vbs /\ v.microblocks = w.microblocks
         /\ v.merkle = w.merkle
         /\ v.vbRadix = CommitTree(d.vbRadix, w.vbRadix)
         /\ v.tokenRadix = CommitTree(d.tokenRadix, w.tokenRadix)
<1>1. PICK r, t : r = CommitTree(d.vbRadix, w.vbRadix) /\ t = CommitTree(d.tokenRadix, w.tokenRadix)
  OBVIOUS
<1>2. v = [w EXCEPT !.vbRadix = r, !.tokenRadix = t, !.touched = {}]
  BY <1>1 DEF CommitState
<1> QED
  BY <1>1, <1>2 DEF IsState, StateFields

\* The tables change when a block is committed, and only then.
LEMMA TablesChange ==
  ASSUME ChainInv, [ChainNext]_chainVars, db' # db
  PROVE  \E o : IsBlockOutcome(db, o) /\ db' = CommitState(db, o)
<1>1. CASE InitChain
  <2>1. db = EmptyTables /\ db' = GenesisTables
    BY <1>1 DEF InitChain, ChainInv, DbInv
  <2> QED
    BY <2>1, GenesisEffect
<1>2. CASE Commit
  <2>1. phase = "finalized" /\ db' = CommitState(db, work)
    BY <1>2 DEF Commit
  <2>2. /\ AreTransactions(block.txs) /\ IsFiniteSet(block.accuses)
        /\ block.accuses \subseteq DOMAIN db.rows
    BY <2>1 DEF ChainInv, BlockInv, PastInv
  <2>3. GoodDb(db) /\ work = Outcome(db, block, comet.powers)
    BY <2>1 DEF ChainInv, DbInv, FinalizedInv
  <2>4. IsBlockOutcome(db, work)
    BY <2>2, <2>3, OutcomeEffect
  <2> QED
    BY <2>1, <2>4
<1>3. CASE FinalizeBlock
  <2>1. db' = db
    BY <1>3 DEF FinalizeBlock, Halt, ExecBlock
  <2> QED
    BY <2>1
<1>4. CASE UNCHANGED chainVars
  BY <1>4 DEF chainVars
<1>5. CASE Decide \/ RestartComet \/ RestartNode
  BY <1>5 DEF Decide, RestartComet, RestartNode, Restart
<1> QED
  BY <1>1, <1>2, <1>3, <1>4, <1>5 DEF ChainNext

\* What an indexer sees of a commit.
AccountIndexed(d, v, x, old, new) ==
  LET list == GetHistoryRange(v.history, new.last, old.last)
  IN  /\ new # old => x \in v.modified[v.height]
      /\ Len(list) = new.height - old.height
      /\ \A i \in DOMAIN list : list[i].height = new.height + 1 - i

LEMMA GrownIsIndexed ==
  ASSUME NEW history, IsFiniteSet(DOMAIN history), NEW touched, NEW x, NEW old, NEW new,
         AccountGrows(history, touched, x, old, new),
         NEW d, NEW v, v.history = history, v.modified[v.height] = touched
  PROVE  AccountIndexed(d, v, x, old, new)
<1>1. PICK c : /\ IsChain(c, history, x, new.height)
               /\ new.last = LastOf(c, new.height) /\ old.last = LastOf(c, old.height)
  BY DEF AccountGrows
<1>2. PICK h, k : h = new.height /\ k = new.height - old.height
  OBVIOUS
<1>3. old.height \in Nat /\ new.height \in Nat /\ old.height <= new.height
  BY DEF AccountGrows
<1>4. h \in Nat /\ k \in Nat /\ k <= h /\ h - k = old.height
  BY <1>2, <1>3
<1>5. PICK from, to : from = new.last /\ to = old.last
  OBVIOUS
<1>6. IsChain(c, history, x, h) /\ from = LastOf(c, h) /\ to = LastOf(c, h - k)
  BY <1>1, <1>2, <1>4, <1>5
<1>7. PICK list : list = GetHistoryRange(history, from, to)
  OBVIOUS
<1>8. Len(list) = k /\ \A i \in DOMAIN list : list[i].height = h + 1 - i
  BY <1>4, <1>6, <1>7, RangeOfChain
<1>9. list = GetHistoryRange(v.history, new.last, old.last)
  BY <1>5, <1>7
<1>10. new # old => x \in v.modified[v.height]
  BY DEF AccountGrows
<1> QED
  BY <1>2, <1>8, <1>9, <1>10 DEF AccountIndexed

\* A committed block leaves the histories linked, and the indexer misses nothing of it.
LEMMA CommitIndexed ==
  ASSUME NEW d, IsState(d), Linked(d), NEW o, IsBlockOutcome(d, o),
         NEW v, v = CommitState(d, o)
  PROVE  /\ Linked(v)
         /\ \A x \in DOMAIN v.accounts :
              AccountIndexed(d, v, x, AccountState(d, x), v.accounts[x])
<1>1. PICK p : Sound(p) /\ Leads(OpenState(d), p) /\ o = EndOfBlock(d, p, d.height + 1)
  BY DEF IsBlockOutcome
<1>2. HistoryGrows(d, p)
  BY <1>1, LinkedGrows, HistoryLeads
<1>3. PICK n : n = d.height + 1
  OBVIOUS
<1>4. IsState(p) /\ o = EndOfBlock(d, p, n)
  BY <1>1, <1>3 DEF Sound
<1>5. /\ IsState(o) /\ o.height = n /\ o.accounts = p.accounts /\ o.history = p.history
      /\ o.modified[n] = p.touched
  BY <1>4, EndOfBlockAccounts
<1>6. /\ v.height = o.height /\ v.accounts = o.accounts /\ v.history = o.history
      /\ v.modified = o.modified
  BY <1>5, CommitStateKeeps
<1>7. v.history = p.history /\ v.accounts = p.accounts /\ v.modified[v.height] = p.touched
  BY <1>5, <1>6
<1>8. Linked(v)
  BY <1>2, <1>7, GrownIsLinked
<1>9. ASSUME NEW x \in DOMAIN v.accounts
      PROVE  AccountIndexed(d, v, x, AccountState(d, x), v.accounts[x])
  <2>1. x \in Accounts /\ IsFiniteSet(DOMAIN p.history)
    BY <1>2, <1>7 DEF HistoryGrows
  <2>2. PICK old, new : old = AccountState(d, x) /\ new = AccountState(p, x)
    OBVIOUS
  <2>3. new = v.accounts[x]
    BY <1>7, <2>2 DEF AccountState
  <2>4. AccountGrows(p.history, p.touched, x, old, new)
    BY <1>2, <2>1, <2>2 DEF HistoryGrows
  <2>5. AccountIndexed(d, v, x, old, new)
    BY <1>7, <2>1, <2>4, GrownIsIndexed
  <2> QED
    BY <2>2, <2>3, <2>5
<1> QED
  BY <1>8, <1>9

LEMMA EmptyIsLinked == Linked(EmptyTables)
<1>1. PICK e : e = EmptyTables
  OBVIOUS
<1>2. e.history = <<>> /\ e.accounts = <<>>
  BY <1>1 DEF EmptyTables
<1>3. DOMAIN e.history = {} /\ DOMAIN e.accounts = {}
  BY <1>2
<1>4. \A x : AccountState(e, x) = NewAccount
  BY <1>3 DEF AccountState
<1>5. NewAccount.height = 0 /\ NewAccount.last = NullHash
  BY DEF NewAccount
<1>6. ASSUME NEW x PROVE AccountGrows(e.history, {}, x, NewAccount, NewAccount)
  <2>1. PICK c : c = <<>>
    OBVIOUS
  <2>2. IsChain(c, e.history, x, 0) /\ LastOf(c, 0) = NullHash
    BY DEF IsChain, LastOf
  <2> QED
    BY <1>5, <2>2 DEF AccountGrows
<1> QED
  BY <1>1, <1>3, <1>4, <1>6, FS_EmptySet DEF Linked

LEMMA LinkedNext == ASSUME ChainInv, Linked(db), [ChainNext]_chainVars PROVE Linked(db)'
<1>1. CASE db' = db
  BY <1>1 DEF Linked
<1>2. CASE db' # db
  <2>1. PICK o : IsBlockOutcome(db, o) /\ db' = CommitState(db, o)
    BY <1>2, TablesChange
  <2>2. IsState(db)
    BY DEF ChainInv, DbInv, GoodDb, Sound
  <2>3. PICK d, v : d = db /\ v = db'
    OBVIOUS
  <2>4. IsState(d) /\ Linked(d) /\ IsBlockOutcome(d, o) /\ v = CommitState(d, o)
    BY <2>1, <2>2, <2>3
  <2>5. Linked(v)
    BY <2>4, CommitIndexed
  <2> QED
    BY <2>3, <2>5
<1> QED
  BY <1>1, <1>2

LEMMA NextIndexed ==
  ASSUME ChainInv, Linked(db), [ChainNext]_chainVars, db' # db, NEW x \in DOMAIN db'.accounts
  PROVE  AccountIndexed(db, db', x, AccountState(db, x), db'.accounts[x])
<1>1. PICK o : IsBlockOutcome(db, o) /\ db' = CommitState(db, o)
  BY TablesChange
<1>2. IsState(db)
  BY DEF ChainInv, DbInv, GoodDb, Sound
<1>3. PICK d, v : d = db /\ v = db'
  OBVIOUS
<1>4. IsState(d) /\ Linked(d) /\ IsBlockOutcome(d, o) /\ v = CommitState(d, o)
  BY <1>1, <1>2, <1>3
<1>5. \A y \in DOMAIN v.accounts : AccountIndexed(d, v, y, AccountState(d, y), v.accounts[y])
  BY <1>4, CommitIndexed
<1> QED
  BY <1>3, <1>5

\* After every block the accounts that an indexer is told of, and their histories back to
\* the entries it knows, are all that has changed.
THEOREM HistoriesAreComplete == ChainSpec => IndexerMissesNothing
<1>1. ChainInit => Linked(db)
  BY EmptyIsLinked DEF ChainInit
<1>2. ChainInv /\ Linked(db) /\ [ChainNext]_chainVars => Linked(db)'
  BY LinkedNext
<1>3. ChainInv /\ Linked(db) /\ [ChainNext]_chainVars =>
        [\A x \in DOMAIN db'.accounts :
           LET old == AccountState(db, x)
               new == db'.accounts[x]
               list == GetHistoryRange(db'.history, new.last, old.last)
           IN  /\ new # old => x \in db'.modified[db'.height]
               /\ Len(list) = new.height - old.height
               /\ \A i \in DOMAIN list : list[i].height = new.height + 1 - i]_db
  BY NextIndexed DEF AccountIndexed
<1> QED
  BY <1>1, <1>2, <1>3, ChainInvariant, PTL DEF ChainSpec, IndexerMissesNothing
------------------------------------------------------------------------------
------------------------------------------------------------------------------
(* Columns of a Merkle tree *)

BitsLoop == [over |-> "bits", ordered |-> TRUE]

LEMMA BitsSteps ==
  /\ \A acc, x : StepOf(BitsLoop, acc, x) = acc \div 2
  /\ \A s : Picked(BitsLoop, s) = Max(s)
  /\ BitsLoop.ordered
<1>1. PICK loop : loop = BitsLoop
  OBVIOUS
<1>2. loop.over = "bits" /\ loop.ordered
  BY <1>1 DEF BitsLoop
<1>3. \A acc, x : StepOf(loop, acc, x) = acc \div 2
  BY <1>2 DEF StepOf
<1> QED
  BY <1>1, <1>2, <1>3 DEF Picked

IsBitsFold(h, index, n) ==
  h = [s \in SUBSET DOMAIN [i \in 1..n |-> i] |->
         IF s = {} THEN index ELSE LET i == Max(s) IN h[s \ {i}] \div 2]

\* The columns of a leaf in rows 0 to n.
AreColumns(r, index, n) == r[0] = index /\ \A i \in 1..n : r[i] = r[i - 1] \div 2

LEMMA ColumnsRun ==
  ASSUME NEW n \in Nat, NEW index
  PROVE  \E r : AreColumns(r, index, n) /\ r[n] = ColumnAt(index, n)
<1>1. PICK loop : loop = BitsLoop
  OBVIOUS
<1>2. /\ loop.ordered /\ \A s : Picked(loop, s) = Max(s)
      /\ \A acc, x : StepOf(loop, acc, x) = acc \div 2
  BY <1>1, BitsSteps
<1>3. PICK h : IsFoldOf(h, loop, index, 1..n)
  BY <1>2, PositionsFoldExists
<1>4. DOMAIN [i \in 1..n |-> i] = 1..n
  OBVIOUS
<1>5. ASSUME NEW g PROVE IsFoldOf(g, loop, index, 1..n) <=> IsBitsFold(g, index, n)
  <2> DEFINE A(s) == IF s = {} THEN index
                     ELSE StepOf(loop, g[s \ {Picked(loop, s)}], Picked(loop, s))
             B(s) == IF s = {} THEN index ELSE LET i == Max(s) IN g[s \ {i}] \div 2
  <2>1. \A s : A(s) = B(s)
    BY <1>2
  <2> HIDE DEF A, B
  <2>2. [s \in SUBSET (1..n) |-> A(s)] = [s \in SUBSET (1..n) |-> B(s)]
    BY <2>1
  <2> QED
    BY <1>4, <2>2 DEF IsFoldOf, IsBitsFold, A, B
<1> DEFINE k == CHOOSE g : IsBitsFold(g, index, n)
<1>6. IsFoldOf(k, loop, index, 1..n)
  BY <1>3, <1>5
<1>7. ColumnAt(index, n) = k[DOMAIN [i \in 1..n |-> i]]
  BY DEF ColumnAt, FoldLeft, MapThenFoldSet, IsBitsFold
<1> HIDE DEF k
<1>8. PICK r : IsRun(r, loop, index, n) /\ r[n] = k[1..n]
  BY <1>2, <1>6, RunOfFold
<1>9. r[n] = ColumnAt(index, n)
  BY <1>4, <1>7, <1>8
<1>10. r[0] = index /\ \A i \in 1..n : r[i] = StepOf(loop, r[i - 1], i)
  BY <1>8 DEF IsRun
<1>11. AreColumns(r, index, n)
  BY <1>2, <1>10 DEF AreColumns
<1> QED
  BY <1>9, <1>11

\* The columns of a leaf, row by row.
LEMMA ColumnSteps ==
  ASSUME NEW index \in Nat
  PROVE  /\ ColumnAt(index, 0) = index
         /\ \A row \in Nat : /\ ColumnAt(index, row) \in Nat
                             /\ ColumnAt(index, row + 1) = ColumnAt(index, row) \div 2
<1>1. ASSUME NEW n \in Nat, NEW r, AreColumns(r, index, n), NEW q, AreColumns(q, index, n)
      PROVE  r[n] = q[n]
  <2> DEFINE N == {i \in Nat : i <= n => r[i] = q[i]}
  <2>1. 0 \in N
    BY <1>1 DEF AreColumns
  <2>2. ASSUME NEW i \in Nat, i \in N PROVE i + 1 \in N
    <3> SUFFICES ASSUME i + 1 <= n PROVE r[i + 1] = q[i + 1]
      OBVIOUS
    <3>1. i + 1 \in 1..n /\ (i + 1) - 1 = i /\ r[i] = q[i]
      BY <2>2
    <3>2. r[i + 1] = r[i] \div 2 /\ q[i + 1] = q[i] \div 2
      BY <1>1, <3>1 DEF AreColumns
    <3> QED
      BY <3>1, <3>2
  <2>3. n \in N
    <3> HIDE DEF N
    <3> QED
      BY <2>1, <2>2, InductionOnNumbers
  <2> QED
    BY <2>3
<1>2. ColumnAt(index, 0) = index
  <2>1. PICK r : AreColumns(r, index, 0) /\ r[0] = ColumnAt(index, 0)
    BY ColumnsRun
  <2> QED
    BY <2>1 DEF AreColumns
<1>3. ASSUME NEW row \in Nat PROVE ColumnAt(index, row + 1) = ColumnAt(index, row) \div 2
  <2>1. PICK n \in Nat : n = row + 1
    OBVIOUS
  <2>2. PICK r : AreColumns(r, index, n) /\ r[n] = ColumnAt(index, n)
    BY ColumnsRun
  <2>3. PICK q : AreColumns(q, index, row) /\ q[row] = ColumnAt(index, row)
    BY ColumnsRun
  <2>4. AreColumns(r, index, row)
    BY <2>1, <2>2 DEF AreColumns
  <2>5. r[row] = q[row]
    BY <1>1, <2>3, <2>4
  <2>6. n \in 1..n /\ n - 1 = row
    BY <2>1
  <2>7. r[n] = r[row] \div 2
    BY <2>2, <2>6 DEF AreColumns
  <2> QED
    BY <2>1, <2>2, <2>3, <2>5, <2>7
<1>4. \A row \in Nat : ColumnAt(index, row) \in Nat
  <2> DEFINE N == {row \in Nat : ColumnAt(index, row) \in Nat}
  <2>1. 0 \in N
    BY <1>2
  <2>2. ASSUME NEW row \in Nat, row \in N PROVE row + 1 \in N
    <3>1. PICK c \in Nat : c = ColumnAt(index, row)
      BY <2>2
    <3>2. ColumnAt(index, row + 1) = c \div 2 /\ c \div 2 \in Nat
      BY <1>3, <3>1
    <3> QED
      BY <3>2
  <2>3. Nat \subseteq N
    <3> HIDE DEF N
    <3> QED
      BY <2>1, <2>2, InductionOnNumbers
  <2> QED
    BY <2>3
<1> QED
  BY <1>2, <1>3, <1>4

\* A smaller leaf is never further to the right.
LEMMA ColumnsOrdered ==
  ASSUME NEW i \in Nat, NEW j \in Nat, i <= j
  PROVE  \A row \in Nat : ColumnAt(i, row) <= ColumnAt(j, row)
<1> DEFINE N == {row \in Nat : ColumnAt(i, row) <= ColumnAt(j, row)}
<1>1. 0 \in N
  BY ColumnSteps
<1>2. ASSUME NEW row \in Nat, row \in N PROVE row + 1 \in N
  <2>1. PICK b, c : b = ColumnAt(i, row) /\ c = ColumnAt(j, row)
    OBVIOUS
  <2>2. b \in Nat /\ c \in Nat /\ b <= c
    BY <1>2, <2>1, ColumnSteps
  <2>3. ColumnAt(i, row + 1) = b \div 2 /\ ColumnAt(j, row + 1) = c \div 2
    BY <2>1, ColumnSteps
  <2>4. b \div 2 <= c \div 2
    BY <2>2
  <2> QED
    BY <2>3, <2>4
<1>3. Nat \subseteq N
  <2> HIDE DEF N
  <2> QED
    BY <1>1, <1>2, InductionOnNumbers
<1> QED
  BY <1>3

\* One more leaf: its column is that of the last one, or the next one as long as all
\* columns of the rows below are even.
LEMMA NextColumns ==
  ASSUME NEW i \in Nat
  PROVE  \A row \in Nat :
           \/ /\ ColumnAt(i + 1, row) = ColumnAt(i, row) + 1
              /\ \A r \in 0..row - 1 : ColumnAt(i + 1, r) % 2 = 0
           \/ /\ ColumnAt(i + 1, row) = ColumnAt(i, row)
              /\ \E r \in 0..row - 1 : ColumnAt(i + 1, r) % 2 # 0
<1>1. PICK j \in Nat : j = i + 1
  OBVIOUS
<1> DEFINE P(row) == \/ /\ ColumnAt(j, row) = ColumnAt(i, row) + 1
                        /\ \A r \in 0..row - 1 : ColumnAt(j, r) % 2 = 0
                     \/ /\ ColumnAt(j, row) = ColumnAt(i, row)
                        /\ \E r \in 0..row - 1 : ColumnAt(j, r) % 2 # 0
           N == {row \in Nat : P(row)}
<1>2. 0 \in N
  <2>1. ColumnAt(j, 0) = ColumnAt(i, 0) + 1
    BY <1>1, ColumnSteps
  <2>2. 0..0 - 1 = {}
    OBVIOUS
  <2> QED
    BY <2>1, <2>2
<1>3. ASSUME NEW row \in Nat, row \in N PROVE row + 1 \in N
  <2>1. PICK b, c : b = ColumnAt(i, row) /\ c = ColumnAt(j, row)
    OBVIOUS
  <2>2. b \in Nat /\ c \in Nat
    BY <2>1, ColumnSteps
  <2>3. ColumnAt(i, row + 1) = b \div 2 /\ ColumnAt(j, row + 1) = c \div 2
    BY <2>1, ColumnSteps
  <2>4. row \in 0..(row + 1) - 1 /\ \A r \in 0..(row + 1) - 1 : r = row \/ r \in 0..row - 1
    OBVIOUS
  <2>5. \A r \in 0..row - 1 : r \in 0..(row + 1) - 1
    OBVIOUS
  <2>6. CASE c = b + 1 /\ \A r \in 0..row - 1 : ColumnAt(j, r) % 2 = 0
    <3>1. CASE c % 2 = 0
      <4>1. c \div 2 = b \div 2 + 1
        BY <2>2, <2>6, <3>1
      <4>2. \A r \in 0..(row + 1) - 1 : ColumnAt(j, r) % 2 = 0
        BY <2>1, <2>4, <2>6, <3>1
      <4> QED
        BY <2>3, <4>1, <4>2
    <3>2. CASE c % 2 # 0
      <4>1. c \div 2 = b \div 2
        BY <2>2, <2>6, <3>2
      <4> QED
        BY <2>1, <2>3, <2>4, <3>2, <4>1
    <3> QED
      BY <3>1, <3>2
  <2>7. CASE c = b /\ \E r \in 0..row - 1 : ColumnAt(j, r) % 2 # 0
    BY <2>3, <2>5, <2>7
  <2> QED
    BY <1>3, <2>1, <2>6, <2>7
<1>4. Nat \subseteq N
  <2> HIDE DEF N
  <2> QED
    BY <1>2, <1>3, InductionOnNumbers
<1> QED
  BY <1>1, <1>4

\* The column of a leaf gets to 0, in the row of the root at the latest.
LEMMA HeightOfSize ==
  ASSUME NEW size \in Nat, size # 0, NEW h, h = SizeToHeight(size)
  PROVE  /\ h \in Nat /\ 1 <= h /\ h - 1 <= size
         /\ \A row \in Nat : ColumnAt(size - 1, row) = 0 <=> h - 1 <= row
<1>1. PICK index \in Nat : index = size - 1
  OBVIOUS
<1>2. PICK c : c = [row \in Nat |-> ColumnAt(index, row)]
  OBVIOUS
<1>3. \A row \in Nat : ColumnAt(index, row) = c[row]
  BY <1>2
<1>4. c[0] = index /\ \A row \in Nat : c[row] \in Nat /\ c[row + 1] = c[row] \div 2
  <2>1. \A row \in Nat : row + 1 \in Nat /\ c[row + 1] = ColumnAt(index, row + 1)
    BY <1>3
  <2>2. /\ ColumnAt(index, 0) = index
        /\ \A row \in Nat : /\ ColumnAt(index, row) \in Nat
                            /\ ColumnAt(index, row + 1) = ColumnAt(index, row) \div 2
    BY ColumnSteps
  <2> QED
    BY <1>3, <2>1, <2>2
<1>5. \A row \in Nat : c[row] = 0 \/ c[row] + row <= index
  <2> DEFINE N == {row \in Nat : c[row] = 0 \/ c[row] + row <= index}
  <2>1. 0 \in N
    BY <1>4
  <2>2. ASSUME NEW row \in Nat, row \in N PROVE row + 1 \in N
    <3>1. PICK b \in Nat : b = c[row]
      BY <1>4
    <3>2. c[row + 1] = b \div 2
      BY <1>4, <3>1
    <3>3. b = 0 => b \div 2 = 0
      OBVIOUS
    <3>4. b # 0 => b \div 2 <= b - 1 /\ b \div 2 \in Nat
      OBVIOUS
    <3> QED
      BY <2>2, <3>1, <3>2, <3>3, <3>4
  <2>3. Nat \subseteq N
    <3> HIDE DEF N
    <3> QED
      BY <2>1, <2>2, InductionOnNumbers
  <2> QED
    BY <2>3
<1> DEFINE S == {n \in 0..size : ColumnAt(size - 1, n) = 0}
<1>6. S \subseteq Nat /\ size \in S
  <2>1. c[size] = 0
    <3>1. c[size] \in Nat /\ (c[size] = 0 \/ c[size] + size <= index)
      BY <1>4, <1>5
    <3> QED
      BY <1>1, <3>1
  <2> QED
    BY <1>1, <1>3, <2>1
<1>7. PICK m \in S : \A y \in S : m <= y
  BY <1>6, LeastNumber
<1>8. Min(S) \in S /\ \A y \in S : Min(S) <= y
  BY <1>7 DEF Min
<1>9. h = 1 + Min(S)
  BY DEF SizeToHeight
<1>10. PICK k : k = Min(S)
  OBVIOUS
<1>11. k \in 0..size /\ c[k] = 0 /\ \A y \in 0..size : c[y] = 0 => k <= y
  BY <1>1, <1>3, <1>8, <1>10
<1>12. \A row \in Nat : k <= row => c[row] = 0
  <2> DEFINE N == {row \in Nat : k <= row => c[row] = 0}
  <2>1. 0 \in N
    BY <1>11
  <2>2. ASSUME NEW row \in Nat, row \in N PROVE row + 1 \in N
    <3>1. CASE k <= row
      BY <1>4, <2>2, <3>1
    <3>2. CASE k = row + 1
      BY <1>11, <3>2
    <3> QED
      BY <1>11, <3>1, <3>2
  <2>3. Nat \subseteq N
    <3> HIDE DEF N
    <3> QED
      BY <2>1, <2>2, InductionOnNumbers
  <2> QED
    BY <2>3
<1>13. \A row \in Nat : c[row] = 0 <=> k <= row
  BY <1>11, <1>12
<1>14. h = 1 + k /\ k \in Nat /\ k <= size
  BY <1>9, <1>10, <1>11
<1>15. \A row \in Nat : ColumnAt(size - 1, row) = c[row]
  BY <1>1, <1>3
<1> QED
  BY <1>13, <1>14, <1>15

\* The height of the tree with one more leaf.
LEMMA HeightGrows ==
  ASSUME NEW n \in Nat, n # 0, NEW h, h = SizeToHeight(n), NEW g, g = SizeToHeight(n + 1)
  PROVE  h <= g /\ g <= h + 1
<1>1. PICK i \in Nat : i = n - 1
  OBVIOUS
<1>2. /\ h \in Nat /\ 1 <= h
      /\ \A row \in Nat : ColumnAt(i, row) = 0 <=> h - 1 <= row
  BY <1>1, HeightOfSize
<1>3. PICK m \in Nat : m = n + 1
  OBVIOUS
<1>4. m # 0 /\ m - 1 = n /\ g = SizeToHeight(m) /\ n = i + 1
  BY <1>1, <1>3
<1>5. g \in Nat /\ 1 <= g /\ \A row \in Nat : ColumnAt(m - 1, row) = 0 <=> g - 1 <= row
  BY <1>4, HeightOfSize
<1>6. \A row \in Nat : ColumnAt(n, row) = 0 <=> g - 1 <= row
  BY <1>4, <1>5
<1>7. h <= g
  <2>1. PICK k \in Nat : k = g - 1
    BY <1>5
  <2>2. ColumnAt(n, k) = 0
    BY <1>6, <2>1
  <2>3. i <= n
    BY <1>4
  <2>4. ColumnAt(i, k) <= ColumnAt(n, k)
    BY <2>3, ColumnsOrdered
  <2>5. ColumnAt(i, k) \in Nat
    BY ColumnSteps
  <2>6. ColumnAt(i, k) = 0
    BY <2>2, <2>4, <2>5
  <2> QED
    BY <1>2, <1>5, <2>1, <2>6
<1>8. g <= h + 1
  <2>1. PICK k \in Nat : k = h - 1
    BY <1>2
  <2>2. ColumnAt(i, k) = 0
    BY <1>2, <2>1
  <2>3. PICK b \in Nat : b = ColumnAt(n, k)
    BY ColumnSteps
  <2>4. b = 0 \/ b = 1
    BY <1>4, <2>2, <2>3, NextColumns
  <2>5. ColumnAt(n, k + 1) = b \div 2
    BY <2>3, ColumnSteps
  <2>6. ColumnAt(n, k + 1) = 0
    BY <2>4, <2>5
  <2>7. k + 1 \in Nat /\ k + 1 = h
    BY <2>1, <1>2
  <2> QED
    BY <1>2, <1>5, <1>6, <2>6, <2>7
<1> QED
  BY <1>7, <1>8

\* The two children of the node above a leaf: one is above the leaf, or is it, the other
\* one is its sibling.
AreChildren(index, row, b, c) ==
  /\ b \in Nat /\ c \in Nat
  /\ \/ b % 2 = 0 /\ b = 2 * c /\ WitnessAt(index, row) = <<row, 2 * c + 1>>
     \/ b % 2 = 1 /\ b = 2 * c + 1 /\ WitnessAt(index, row) = <<row, 2 * c>>

LEMMA TwoChildren ==
  ASSUME NEW index \in Nat, NEW row \in Nat, NEW b, b = ColumnAt(index, row),
         NEW above, above = row + 1, NEW c, c = ColumnAt(index, above)
  PROVE  AreChildren(index, row, b, c)
<1>1. b \in Nat /\ c \in Nat /\ c = b \div 2
  BY ColumnSteps
<1>2. CASE b % 2 = 0
  <2>1. b = 2 * c
    BY <1>1, <1>2
  <2> QED
    BY <1>1, <1>2, <2>1 DEF WitnessAt, AreChildren
<1>3. CASE b % 2 = 1
  <2>1. b = 2 * c + 1
    BY <1>1, <1>3
  <2>2. b - 1 = 2 * c /\ b % 2 # 0
    BY <1>1, <1>3, <2>1
  <2> QED
    BY <1>3, <2>1, <2>2, <1>1 DEF WitnessAt, AreChildren
<1>4. b % 2 = 0 \/ b % 2 = 1
  BY <1>1
<1> QED
  BY <1>1, <1>2, <1>3, <1>4 DEF AreChildren
------------------------------------------------------------------------------
(* A Merkle tree *)

LeafLoop(index) == [over |-> "leaf", ordered |-> TRUE, index |-> index]

LEMMA LeafSteps ==
  ASSUME NEW index
  PROVE  /\ \A acc, x : StepOf(LeafLoop(index), acc, x) = MergeChildrenOf(acc, x, ColumnAt(index, x))
         /\ \A s : Picked(LeafLoop(index), s) = Max(s)
         /\ LeafLoop(index).ordered
<1>1. PICK loop : loop = LeafLoop(index)
  OBVIOUS
<1>2. loop.over = "leaf" /\ loop.ordered /\ loop.index = index
  BY <1>1 DEF LeafLoop
<1>3. \A acc, x : StepOf(loop, acc, x) = MergeChildrenOf(acc, x, ColumnAt(index, x))
  BY <1>2 DEF StepOf
<1> QED
  BY <1>1, <1>2, <1>3 DEF Picked

IsLeafFold(h, index, base, n) ==
  h = [s \in SUBSET DOMAIN [row \in 1..n |-> row] |->
         IF s = {} THEN base
         ELSE LET i == Max(s) IN
                MergeChildrenOf(h[s \ {i}], [row \in 1..n |-> row][i],
                                ColumnAt(index, [row \in 1..n |-> row][i]))]

\* The tree after each merge on the way up from a leaf.
IsMerging(q, index, n) ==
  \A k \in 1..n : q[k] = MergeChildrenOf(q[k - 1], k, ColumnAt(index, k))

LEMMA LeafRun ==
  ASSUME NEW index, NEW n \in Nat, n = SizeToHeight(index + 1) - 1, NEW tree, NEW hash,
         NEW base, base = WithSiblings(SetNode(tree, 0, index, hash), index)
  PROVE  \E q : q[0] = base /\ q[n] = AddLeaf(tree, index, hash) /\ IsMerging(q, index, n)
<1>1. PICK loop : loop = LeafLoop(index)
  OBVIOUS
<1>2. /\ loop.ordered /\ \A s : Picked(loop, s) = Max(s)
      /\ \A acc, x : StepOf(loop, acc, x) = MergeChildrenOf(acc, x, ColumnAt(index, x))
  BY <1>1, LeafSteps
<1>3. PICK h : IsFoldOf(h, loop, base, 1..n)
  BY <1>2, PositionsFoldExists
<1>4. DOMAIN [row \in 1..n |-> row] = 1..n /\ \A i \in 1..n : [row \in 1..n |-> row][i] = i
  OBVIOUS
<1>5. ASSUME NEW g PROVE IsFoldOf(g, loop, base, 1..n) <=> IsLeafFold(g, index, base, n)
  <2> DEFINE A(s) == IF s = {} THEN base
                     ELSE StepOf(loop, g[s \ {Picked(loop, s)}], Picked(loop, s))
             B(s) == IF s = {} THEN base
                     ELSE LET i == Max(s) IN
                            MergeChildrenOf(g[s \ {i}], [row \in 1..n |-> row][i],
                                            ColumnAt(index, [row \in 1..n |-> row][i]))
  <2>1. ASSUME NEW s \in SUBSET (1..n) PROVE A(s) = B(s)
    <3>1. CASE s = {}
      BY <3>1
    <3>2. CASE s # {}
      <4>1. PICK i : i = Max(s)
        OBVIOUS
      <4>2. i \in 1..n
        BY <3>2, <4>1, MaxOfPositions
      <4>3. [row \in 1..n |-> row][i] = i
        BY <4>2
      <4>4. A(s) = MergeChildrenOf(g[s \ {i}], i, ColumnAt(index, i))
        BY <1>2, <3>2, <4>1
      <4>5. B(s) = MergeChildrenOf(g[s \ {i}], i, ColumnAt(index, i))
        BY <3>2, <4>1, <4>3
      <4> QED
        BY <4>4, <4>5
    <3> QED
      BY <3>1, <3>2
  <2> HIDE DEF A, B
  <2>2. [s \in SUBSET (1..n) |-> A(s)] = [s \in SUBSET (1..n) |-> B(s)]
    BY <2>1
  <2> QED
    BY <1>4, <2>2 DEF IsFoldOf, IsLeafFold, A, B
<1> DEFINE k == CHOOSE g : IsLeafFold(g, index, base, n)
<1>6. IsFoldOf(k, loop, base, 1..n)
  BY <1>3, <1>5
<1>7. AddLeaf(tree, index, hash) = k[DOMAIN [row \in 1..n |-> row]]
  BY DEF AddLeaf, FoldLeft, MapThenFoldSet, IsLeafFold
<1> HIDE DEF k
<1>8. PICK r : IsRun(r, loop, base, n) /\ r[n] = k[1..n]
  BY <1>2, <1>6, RunOfFold
<1>9. r[n] = AddLeaf(tree, index, hash)
  BY <1>4, <1>7, <1>8
<1>10. r[0] = base /\ \A i \in 1..n : r[i] = StepOf(loop, r[i - 1], i)
  BY <1>8 DEF IsRun
<1>11. IsMerging(r, index, n)
  BY <1>2, <1>10 DEF IsMerging
<1> QED
  BY <1>9, <1>10, <1>11

LEMMA PutElsewhere ==
  ASSUME NEW f, NEW x, NEW a, NEW g, g = Put(f, x, a), NEW y \in DOMAIN f, y # x
  PROVE  y \in DOMAIN g /\ g[y] = f[y]
BY DEF Put

\* The node at a place is the hash of its two children, which are there.
IsMerged(g, row, c) ==
  /\ <<row - 1, 2 * c>> \in DOMAIN g /\ <<row - 1, 2 * c + 1>> \in DOMAIN g
  /\ <<row, c>> \in DOMAIN g
  /\ g[<<row, c>>] = MergeHashes(g[<<row - 1, 2 * c>>], g[<<row - 1, 2 * c + 1>>])

\* The tree g is the tree t with the nodes above a leaf merged up to a row.
MergedUpTo(t, g, index, k) ==
  /\ DOMAIN t \subseteq DOMAIN g
  /\ \A x \in DOMAIN t : (\A r \in 1..k : x # <<r, ColumnAt(index, r)>>) => g[x] = t[x]
  /\ \A r \in 1..k : IsMerged(g, r, ColumnAt(index, r))

LEMMA MergeOneMore ==
  ASSUME NEW index \in Nat, NEW t, NEW g, NEW k \in Nat, MergedUpTo(t, g, index, k),
         <<0, index>> \in DOMAIN t, WitnessAt(index, k) \in DOMAIN t,
         NEW f, f = MergeChildrenOf(g, k + 1, ColumnAt(index, k + 1))
  PROVE  MergedUpTo(t, f, index, k + 1)
<1>1. PICK row, b, c : row = k + 1 /\ b = ColumnAt(index, k) /\ c = ColumnAt(index, row)
  OBVIOUS
<1>2. /\ b \in Nat /\ c \in Nat /\ row \in Nat /\ row - 1 = k
      /\ \/ b = 2 * c /\ WitnessAt(index, k) = <<k, 2 * c + 1>>
         \/ b = 2 * c + 1 /\ WitnessAt(index, k) = <<k, 2 * c>>
  <2>1. b = ColumnAt(index, k) /\ row = k + 1 /\ c = ColumnAt(index, row)
    BY <1>1
  <2>2. AreChildren(index, k, b, c)
    BY <2>1, TwoChildren
  <2>3. row \in Nat /\ row - 1 = k
    BY <1>1
  <2> QED
    BY <2>2, <2>3 DEF AreChildren
<1>3. <<k, b>> \in DOMAIN g
  <2>1. CASE k = 0
    BY <1>1, <2>1, ColumnSteps DEF MergedUpTo
  <2>2. CASE k # 0
    <3>1. k \in 1..k
      BY <2>2
    <3> QED
      BY <1>1, <3>1 DEF MergedUpTo, IsMerged
  <2> QED
    BY <2>1, <2>2
<1>4. WitnessAt(index, k) \in DOMAIN g
  BY DEF MergedUpTo
<1>5. <<k, 2 * c>> \in DOMAIN g /\ <<k, 2 * c + 1>> \in DOMAIN g
  BY <1>2, <1>3, <1>4
<1>6. PICK x, a, l, r : /\ x = <<row, c>> /\ l = <<k, 2 * c>> /\ r = <<k, 2 * c + 1>>
                        /\ a = MergeHashes(g[l], g[r])
  OBVIOUS
<1>7. f = Put(g, x, a)
  BY <1>1, <1>2, <1>6 DEF MergeChildrenOf, SetNode
<1>8. DOMAIN f = DOMAIN g \cup {x} /\ f[x] = a
  BY <1>7 DEF Put
<1>9. \A y \in DOMAIN g : y # x => f[y] = g[y]
  BY <1>7, PutElsewhere
<1>10. l # x /\ r # x
  BY <1>1, <1>6
<1>11. IsMerged(f, row, c)
  <2>1. l \in DOMAIN f /\ r \in DOMAIN f /\ f[l] = g[l] /\ f[r] = g[r]
    BY <1>5, <1>6, <1>8, <1>9, <1>10
  <2> QED
    BY <1>2, <1>6, <1>8, <2>1 DEF IsMerged
<1>12. ASSUME NEW i \in 1..k PROVE IsMerged(f, i, ColumnAt(index, i))
  <2>1. PICK e : e = ColumnAt(index, i)
    OBVIOUS
  <2>2. IsMerged(g, i, e)
    BY <2>1 DEF MergedUpTo
  <2>3. i # row /\ i - 1 # row
    BY <1>1
  <2>4. PICK y, left, right : y = <<i, e>> /\ left = <<i - 1, 2 * e>> /\ right = <<i - 1, 2 * e + 1>>
    OBVIOUS
  <2>5. y # x /\ left # x /\ right # x
    BY <1>6, <2>3, <2>4
  <2>6. /\ y \in DOMAIN g /\ left \in DOMAIN g /\ right \in DOMAIN g
        /\ g[y] = MergeHashes(g[left], g[right])
    BY <2>2, <2>4 DEF IsMerged
  <2>7. /\ y \in DOMAIN f /\ left \in DOMAIN f /\ right \in DOMAIN f
        /\ f[y] = MergeHashes(f[left], f[right])
    BY <1>8, <1>9, <2>5, <2>6
  <2> QED
    BY <2>1, <2>4, <2>7 DEF IsMerged
<1>13. \A i \in 1..row : i \in 1..k \/ i = row
  BY <1>1
<1>14. \A i \in 1..row : IsMerged(f, i, ColumnAt(index, i))
  BY <1>1, <1>11, <1>12, <1>13
<1>15. ASSUME NEW y \in DOMAIN t, \A i \in 1..row : y # <<i, ColumnAt(index, i)>>
       PROVE  f[y] = t[y]
  <2>1. y # x
    <3>1. row \in 1..row
      BY <1>1
    <3> QED
      BY <1>1, <1>6, <1>15, <3>1
  <2>2. \A i \in 1..k : i \in 1..row
    BY <1>1
  <2>3. g[y] = t[y] /\ y \in DOMAIN g
    BY <1>15, <2>2 DEF MergedUpTo
  <2> QED
    BY <1>9, <2>1, <2>3
<1>16. DOMAIN t \subseteq DOMAIN f
  BY <1>8 DEF MergedUpTo
<1> QED
  BY <1>1, <1>14, <1>15, <1>16 DEF MergedUpTo

LEMMA MergingEffect ==
  ASSUME NEW index \in Nat, NEW n \in Nat, NEW q, IsMerging(q, index, n),
         NEW t, t = q[0], <<0, index>> \in DOMAIN t,
         \A row \in 0..n - 1 : WitnessAt(index, row) \in DOMAIN t
  PROVE  MergedUpTo(t, q[n], index, n)
<1> DEFINE N == {k \in Nat : k <= n => MergedUpTo(t, q[k], index, k)}
<1>1. 0 \in N
  BY DEF MergedUpTo
<1>2. ASSUME NEW k \in Nat, k \in N PROVE k + 1 \in N
  <2> SUFFICES ASSUME k + 1 <= n PROVE MergedUpTo(t, q[k + 1], index, k + 1)
    OBVIOUS
  <2>1. k + 1 \in 1..n /\ (k + 1) - 1 = k /\ k \in 0..n - 1 /\ k <= n
    OBVIOUS
  <2>2. PICK g, f : g = q[k] /\ f = q[k + 1]
    OBVIOUS
  <2>3. f = MergeChildrenOf(g, k + 1, ColumnAt(index, k + 1))
    BY <2>1, <2>2 DEF IsMerging
  <2>4. MergedUpTo(t, g, index, k) /\ WitnessAt(index, k) \in DOMAIN t
    BY <1>2, <2>1, <2>2
  <2>5. MergedUpTo(t, f, index, k + 1)
    BY <2>3, <2>4, MergeOneMore
  <2> QED
    BY <2>2, <2>5
<1>3. n \in N
  <2> HIDE DEF N
  <2> QED
    BY <1>1, <1>2, InductionOnNumbers
<1> QED
  BY <1>3

\* A tree of n leaves and height h, where c has the column of the last leaf in each row:
\* every node is merged from its children, and the last one is never without a sibling.
IsTreeWith(t, n, h, c) ==
  /\ \A col \in 0..n - 1 : <<0, col>> \in DOMAIN t
  /\ \A row \in 1..h - 1, col \in Nat : col <= c[row] => IsMerged(t, row, col)
  /\ \A row \in 0..h - 2 :
       c[row] % 2 = 0 => <<row, c[row] + 1>> \in DOMAIN t /\ t[<<row, c[row] + 1>>] = NullHash

IsTree(t, n) == IsTreeWith(t, n, SizeToHeight(n), [row \in Nat |-> ColumnAt(n - 1, row)])

IsColumns(e, index) == e = [row \in Nat |-> ColumnAt(index, row)]

\* The tree t with a new leaf at index n, and its siblings in the rows below m.
HasSiblings(t, b, n, hash, m, e) ==
  /\ DOMAIN t \subseteq DOMAIN b
  /\ <<0, n>> \in DOMAIN b /\ b[<<0, n>>] = hash
  /\ \A row \in 0..m - 1 : (\A r \in 0..row : e[r] % 2 = 0) =>
       <<row, e[row] + 1>> \in DOMAIN b /\ b[<<row, e[row] + 1>>] = NullHash
  /\ \A row \in Nat, col \in Nat :
       <<row, col>> \in DOMAIN t /\ <<row, col>> # <<0, n>> =>
         b[<<row, col>>] = t[<<row, col>>] \/ (col = e[row] + 1 /\ b[<<row, col>>] = NullHash)

LEMMA WithSiblingsEffect ==
  ASSUME NEW t, NEW n \in Nat, NEW hash, NEW b, b = WithSiblings(SetNode(t, 0, n, hash), n),
         NEW m, m = SizeToHeight(n + 1) - 1, NEW e, IsColumns(e, n)
  PROVE  HasSiblings(t, b, n, hash, m, e)
<1>1. /\ e[0] = n /\ \A row \in Nat : e[row] \in Nat /\ ColumnAt(n, row) = e[row]
  BY ColumnSteps DEF IsColumns
<1>2. PICK new : new = {<<row, ColumnAt(n, row) + 1>> : row \in EmptySiblings(n)}
  OBVIOUS
<1>3. PICK s : s = SetNode(t, 0, n, hash)
  OBVIOUS
<1>4. b = [x \in DOMAIN s \cup new |-> IF x \in new THEN NullHash ELSE s[x]]
  BY <1>2, <1>3 DEF WithSiblings
<1>5. s = Put(t, <<0, n>>, hash)
  BY <1>3 DEF SetNode
<1>6. PICK x : x = <<0, n>>
  OBVIOUS
<1>7. DOMAIN s = DOMAIN t \cup {x} /\ s[x] = hash /\ \A y \in DOMAIN t : y # x => s[y] = t[y]
  BY <1>5, <1>6 DEF Put
<1>8. ASSUME NEW y \in new PROVE \E row \in EmptySiblings(n) : y = <<row, e[row] + 1>> /\ row \in Nat
  <2>1. PICK row \in EmptySiblings(n) : y = <<row, ColumnAt(n, row) + 1>>
    BY <1>2
  <2>2. row \in Nat
    BY DEF EmptySiblings
  <2> QED
    BY <1>1, <2>1, <2>2
<1>9. x \notin new
  <2> SUFFICES ASSUME x \in new PROVE FALSE
    OBVIOUS
  <2>1. PICK row \in EmptySiblings(n) : x = <<row, e[row] + 1>> /\ row \in Nat
    BY <1>8
  <2>2. row = 0 /\ n = e[row] + 1
    BY <1>6, <2>1
  <2>3. e[row] = n
    BY <1>1, <2>2
  <2> QED
    BY <2>2, <2>3
<1>10. x \in DOMAIN b /\ b[x] = hash
  BY <1>4, <1>7, <1>9
<1>11. ASSUME NEW row \in 0..m - 1, \A r \in 0..row : e[r] % 2 = 0
       PROVE  <<row, e[row] + 1>> \in DOMAIN b /\ b[<<row, e[row] + 1>>] = NullHash
  <2>1. 0..SizeToHeight(n + 1) - 2 = 0..m - 1
    <3>1. SizeToHeight(n + 1) \in Nat
      <4>1. PICK size \in Nat : size = n + 1
        OBVIOUS
      <4>2. size # 0
        BY <4>1
      <4> QED
        BY <4>1, <4>2, HeightOfSize
    <3> QED
      BY <3>1
  <2>2. \A r \in 0..row : ColumnAt(n, r) % 2 = 0
    BY <1>1, <1>11
  <2>3. row \in EmptySiblings(n)
    BY <2>1, <2>2 DEF EmptySiblings
  <2>4. row \in Nat
    OBVIOUS
  <2>5. PICK y : y = <<row, e[row] + 1>>
    OBVIOUS
  <2>6. y \in new
    BY <1>1, <1>2, <2>3, <2>4, <2>5
  <2> QED
    BY <1>4, <2>5, <2>6
<1>12. ASSUME NEW row \in Nat, NEW col \in Nat,
              <<row, col>> \in DOMAIN t, <<row, col>> # <<0, n>>
       PROVE  b[<<row, col>>] = t[<<row, col>>] \/ (col = e[row] + 1 /\ b[<<row, col>>] = NullHash)
  <2>1. PICK y : y = <<row, col>>
    OBVIOUS
  <2>2. y \in DOMAIN t /\ y # x
    BY <1>6, <1>12, <2>1
  <2>3. CASE y \in new
    <3>1. PICK r \in EmptySiblings(n) : y = <<r, e[r] + 1>> /\ r \in Nat
      BY <1>8, <2>3
    <3>2. r = row /\ col = e[row] + 1
      BY <2>1, <3>1
    <3> QED
      BY <1>4, <2>1, <2>3, <3>2
  <2>4. CASE y \notin new
    <3>1. y \in DOMAIN s /\ s[y] = t[y]
      BY <1>7, <2>2
    <3>2. b[y] = s[y]
      BY <1>4, <2>4, <3>1
    <3>3. b[y] = t[y]
      BY <3>1, <3>2
    <3>4. b[<<row, col>>] = t[<<row, col>>]
      BY <2>1, <3>3
    <3> QED
      BY <3>4
  <2> QED
    BY <2>3, <2>4
<1>13. DOMAIN t \subseteq DOMAIN b
  BY <1>4, <1>7
<1> QED
  BY <1>6, <1>10, <1>11, <1>12, <1>13 DEF HasSiblings

LEMMA LeafAdded ==
  ASSUME NEW n \in Nat, n # 0, NEW t, IsTree(t, n), NEW hash, NEW v, v = AddLeaf(t, n, hash)
  PROVE  /\ IsTree(v, n + 1) /\ v[<<0, n>>] = hash
         /\ \A i \in 0..n - 1 : v[<<0, i>>] = t[<<0, i>>]
<1>1. PICK h, g, c, e :
        /\ h = SizeToHeight(n) /\ g = SizeToHeight(n + 1)
        /\ c = [row \in Nat |-> ColumnAt(n - 1, row)] /\ e = [row \in Nat |-> ColumnAt(n, row)]
  OBVIOUS
<1>2. IsTreeWith(t, n, h, c)
  BY <1>1 DEF IsTree
<1>3. /\ e[0] = n /\ c[0] = n - 1
      /\ \A row \in Nat : /\ e[row] \in Nat /\ c[row] \in Nat
                          /\ e[row + 1] = e[row] \div 2
                          /\ ColumnAt(n, row) = e[row]
  <2>1. PICK i \in Nat : i = n - 1
    OBVIOUS
  <2>2. \A row \in Nat : row + 1 \in Nat /\ ColumnAt(n, row + 1) = e[row + 1]
    BY <1>1
  <2>3. /\ ColumnAt(n, 0) = n /\ ColumnAt(i, 0) = i
        /\ \A row \in Nat : /\ ColumnAt(n, row) \in Nat /\ ColumnAt(i, row) \in Nat
                            /\ ColumnAt(n, row + 1) = ColumnAt(n, row) \div 2
    BY <2>1, ColumnSteps
  <2> QED
    BY <1>1, <2>1, <2>2, <2>3
<1>4. /\ h \in Nat /\ 1 <= h /\ g \in Nat /\ 1 <= g /\ h <= g /\ g <= h + 1
      /\ \A row \in Nat : (c[row] = 0 <=> h - 1 <= row) /\ (e[row] = 0 <=> g - 1 <= row)
  <2>1. h \in Nat /\ 1 <= h /\ \A row \in Nat : ColumnAt(n - 1, row) = 0 <=> h - 1 <= row
    BY <1>1, HeightOfSize
  <2>2. PICK m \in Nat : m = n + 1
    OBVIOUS
  <2>3. m # 0 /\ g = SizeToHeight(m) /\ m - 1 = n
    BY <1>1, <2>2
  <2>4. g \in Nat /\ 1 <= g /\ \A row \in Nat : ColumnAt(m - 1, row) = 0 <=> g - 1 <= row
    BY <2>3, HeightOfSize
  <2>5. h <= g /\ g <= h + 1
    BY <1>1, HeightGrows
  <2> QED
    BY <1>1, <2>1, <2>3, <2>4, <2>5
<1>5. \A row \in Nat : \/ e[row] = c[row] + 1 /\ \A r \in 0..row - 1 : e[r] % 2 = 0
                       \/ e[row] = c[row]
  <2>1. PICK i \in Nat : i = n - 1
    OBVIOUS
  <2>2. \A row \in Nat :
           \/ /\ ColumnAt(i + 1, row) = ColumnAt(i, row) + 1
              /\ \A r \in 0..row - 1 : ColumnAt(i + 1, r) % 2 = 0
           \/ ColumnAt(i + 1, row) = ColumnAt(i, row)
    BY NextColumns
  <2>3. i + 1 = n /\ \A row \in Nat : \A r \in 0..row - 1 : r \in Nat
    BY <2>1
  <2> QED
    BY <1>1, <2>1, <2>2, <2>3
<1>6. PICK m : m = g - 1
  OBVIOUS
<1>7. m \in Nat /\ m = SizeToHeight(n + 1) - 1
  BY <1>1, <1>4, <1>6
<1>8. PICK b : b = WithSiblings(SetNode(t, 0, n, hash), n)
  OBVIOUS
<1>9. /\ DOMAIN t \subseteq DOMAIN b
      /\ <<0, n>> \in DOMAIN b /\ b[<<0, n>>] = hash
      /\ \A row \in 0..m - 1 : (\A r \in 0..row : e[r] % 2 = 0) =>
           <<row, e[row] + 1>> \in DOMAIN b /\ b[<<row, e[row] + 1>>] = NullHash
      /\ \A row \in Nat, col \in Nat :
           <<row, col>> \in DOMAIN t /\ <<row, col>> # <<0, n>> =>
             b[<<row, col>>] = t[<<row, col>>] \/ (col = e[row] + 1 /\ b[<<row, col>>] = NullHash)
  <2>1. IsColumns(e, n)
    BY <1>1 DEF IsColumns
  <2>2. HasSiblings(t, b, n, hash, m, e)
    BY <1>7, <1>8, <2>1, WithSiblingsEffect
  <2> QED
    BY <2>2 DEF HasSiblings
<1>10. ASSUME NEW row \in 0..m - 1
       PROVE  /\ e[row] % 2 = 0 => /\ <<row, e[row] + 1>> \in DOMAIN b
                                  /\ b[<<row, e[row] + 1>>] = NullHash
              /\ e[row] % 2 = 1 => <<row, e[row] - 1>> \in DOMAIN b
  <2>1. row \in Nat /\ e[row] # 0 /\ row <= h - 1 /\ e[row] \in Nat /\ c[row] \in Nat
    BY <1>3, <1>4, <1>6
  <2>2. ASSUME e[row] % 2 = 0
        PROVE  <<row, e[row] + 1>> \in DOMAIN b /\ b[<<row, e[row] + 1>>] = NullHash
    <3>1. CASE \A r \in 0..row - 1 : e[r] % 2 = 0
      <4>1. \A r \in 0..row : r = row \/ r \in 0..row - 1
        BY <2>1
      <4>2. \A r \in 0..row : e[r] % 2 = 0
        BY <2>2, <3>1, <4>1
      <4> QED
        BY <1>9, <4>2
    <3>2. CASE e[row] = c[row]
      <4>1. ~(h - 1 <= row)
        BY <1>4, <2>1, <3>2
      <4>2. row \in 0..h - 2
        BY <1>4, <2>1, <4>1
      <4>3. <<row, c[row] + 1>> \in DOMAIN t /\ t[<<row, c[row] + 1>>] = NullHash
        BY <1>2, <2>2, <3>2, <4>2 DEF IsTreeWith
      <4>4. PICK col \in Nat : col = e[row] + 1
        BY <2>1
      <4>5. <<row, col>> # <<0, n>>
        BY <1>3, <4>4
      <4>6. <<row, col>> \in DOMAIN t /\ t[<<row, col>>] = NullHash
        BY <3>2, <4>3, <4>4
      <4>7. b[<<row, col>>] = NullHash
        BY <1>9, <2>1, <4>5, <4>6
      <4> QED
        BY <1>9, <4>4, <4>6, <4>7
    <3> QED
      BY <1>5, <2>1, <3>1, <3>2
  <2>3. ASSUME e[row] % 2 = 1 PROVE <<row, e[row] - 1>> \in DOMAIN b
    <3>1. PICK col : col = e[row] - 1
      OBVIOUS
    <3>2. col \in Nat /\ col <= c[row]
      BY <1>5, <2>1, <3>1
    <3>3. CASE row = 0
      <4>1. col \in 0..n - 1
        BY <1>3, <3>1, <3>2, <3>3
      <4> QED
        BY <1>2, <1>9, <3>1, <3>3, <4>1 DEF IsTreeWith
    <3>4. CASE row # 0
      <4>1. row \in 1..h - 1
        BY <1>4, <2>1, <3>4
      <4>2. IsMerged(t, row, col)
        BY <1>2, <3>2, <4>1 DEF IsTreeWith
      <4> QED
        BY <1>9, <3>1, <4>2 DEF IsMerged
    <3> QED
      BY <3>3, <3>4
  <2> QED
    BY <2>2, <2>3
<1>11. ASSUME NEW row \in 0..m - 1 PROVE WitnessAt(n, row) \in DOMAIN b
  <2>1. row \in Nat
    OBVIOUS
  <2>2. PICK col : col = e[row]
    OBVIOUS
  <2>3. col \in Nat /\ ColumnAt(n, row) = col
    BY <1>3, <2>1, <2>2
  <2>4. CASE col % 2 = 0
    <3>1. WitnessAt(n, row) = <<row, col + 1>>
      BY <2>3, <2>4 DEF WitnessAt
    <3> QED
      BY <1>10, <2>2, <2>4, <3>1
  <2>5. CASE col % 2 = 1
    <3>1. col % 2 # 0
      BY <2>5
    <3>2. WitnessAt(n, row) = <<row, col - 1>>
      BY <2>3, <3>1 DEF WitnessAt
    <3> QED
      BY <1>10, <2>2, <2>5, <3>2
  <2> QED
    BY <2>3, <2>4, <2>5
<1>12. PICK q : q[0] = b /\ q[m] = v /\ IsMerging(q, n, m)
  BY <1>7, <1>8, LeafRun
<1>13. MergedUpTo(b, v, n, m)
  BY <1>7, <1>9, <1>11, <1>12, MergingEffect
<1>14. /\ DOMAIN b \subseteq DOMAIN v
       /\ \A row \in 1..m : IsMerged(v, row, e[row])
  BY <1>3, <1>13 DEF MergedUpTo
<1>15. ASSUME NEW row \in Nat, NEW col \in Nat, <<row, col>> \in DOMAIN b, row = 0 \/ col # e[row]
       PROVE  v[<<row, col>>] = b[<<row, col>>]
  <2>1. \A r \in 1..m : <<row, col>> # <<r, ColumnAt(n, r)>>
    BY <1>3, <1>15
  <2>2. PICK x \in DOMAIN b : x = <<row, col>>
    BY <1>15
  <2>3. \A r \in 1..m : x # <<r, ColumnAt(n, r)>>
    BY <2>1, <2>2
  <2>4. v[x] = b[x]
    BY <1>13, <2>3 DEF MergedUpTo
  <2> QED
    BY <2>2, <2>4

\* Nothing on the left of the new leaf changes.
<1>16. ASSUME NEW row \in Nat, NEW col \in Nat, <<row, col>> \in DOMAIN t, col < e[row]
       PROVE  <<row, col>> \in DOMAIN v /\ v[<<row, col>>] = t[<<row, col>>]
  <2>1. <<row, col>> \in DOMAIN b /\ e[row] \in Nat /\ <<row, col>> # <<0, n>>
    BY <1>3, <1>9, <1>16
  <2>2. col # e[row] + 1 /\ col # e[row]
    BY <1>16, <2>1
  <2>3. b[<<row, col>>] = t[<<row, col>>]
    BY <1>9, <1>16, <2>1, <2>2
  <2>4. v[<<row, col>>] = b[<<row, col>>]
    BY <1>15, <2>1, <2>2
  <2> QED
    BY <1>14, <2>1, <2>3, <2>4
<1>17. ASSUME NEW row \in 1..g - 1, NEW col \in Nat, col <= e[row] PROVE IsMerged(v, row, col)
  <2>1. row \in Nat /\ e[row] \in Nat /\ row - 1 \in Nat /\ row \in 1..m
    BY <1>3, <1>4, <1>6
  <2>2. CASE col = e[row]
    BY <1>14, <2>1, <2>2
  <2>3. CASE col # e[row]
    <3>1. col < e[row] /\ e[row] # 0
      BY <1>17, <2>1, <2>3
    <3>2. row \in 1..h - 1
      BY <1>4, <2>1, <3>1
    <3>3. col <= c[row]
      <4>1. c[row] \in Nat /\ (e[row] = c[row] + 1 \/ e[row] = c[row])
        BY <1>3, <1>5, <2>1
      <4> QED
        BY <2>1, <3>1, <4>1
    <3>4. IsMerged(t, row, col)
      BY <1>2, <3>2, <3>3 DEF IsTreeWith
    <3>5. PICK r \in Nat : r = row - 1
      BY <2>1
    <3>6. PICK d \in Nat : d = e[r]
      BY <1>3
    <3>7. r + 1 = row /\ e[row] = d \div 2
      BY <1>3, <3>5, <3>6
    <3>8. 2 * col < d /\ 2 * col + 1 < d /\ 2 * col \in Nat /\ 2 * col + 1 \in Nat
      BY <3>1, <3>7
    <3>9. PICK i, j \in Nat : i = 2 * col /\ j = 2 * col + 1
      BY <3>8
    <3>10. /\ <<r, i>> \in DOMAIN t /\ <<r, j>> \in DOMAIN t /\ <<row, col>> \in DOMAIN t
           /\ t[<<row, col>>] = MergeHashes(t[<<r, i>>], t[<<r, j>>])
      BY <3>4, <3>5, <3>9 DEF IsMerged
    <3>11. /\ <<r, i>> \in DOMAIN v /\ v[<<r, i>>] = t[<<r, i>>]
           /\ <<r, j>> \in DOMAIN v /\ v[<<r, j>>] = t[<<r, j>>]
           /\ <<row, col>> \in DOMAIN v /\ v[<<row, col>>] = t[<<row, col>>]
      BY <1>16, <2>1, <3>1, <3>6, <3>8, <3>9, <3>10
    <3> QED
      BY <3>5, <3>9, <3>10, <3>11 DEF IsMerged
  <2> QED
    BY <2>2, <2>3
<1>18. ASSUME NEW row \in 0..g - 2, e[row] % 2 = 0
       PROVE  <<row, e[row] + 1>> \in DOMAIN v /\ v[<<row, e[row] + 1>>] = NullHash
  <2>1. row \in 0..m - 1 /\ row \in Nat
    BY <1>4, <1>6
  <2>2. PICK col \in Nat : col = e[row] + 1
    BY <1>3, <2>1
  <2>3. <<row, col>> \in DOMAIN b /\ b[<<row, col>>] = NullHash
    BY <1>10, <1>18, <2>1, <2>2
  <2>4. col # e[row]
    BY <1>3, <2>1, <2>2
  <2>5. v[<<row, col>>] = b[<<row, col>>]
    BY <1>15, <2>1, <2>3, <2>4
  <2> QED
    BY <1>14, <2>2, <2>3, <2>5
<1>19. ASSUME NEW i \in 0..n - 1 PROVE <<0, i>> \in DOMAIN v /\ v[<<0, i>>] = t[<<0, i>>]
  <2>1. <<0, i>> \in DOMAIN t /\ i \in Nat /\ i < e[0]
    BY <1>2, <1>3 DEF IsTreeWith
  <2> QED
    BY <1>16, <2>1
<1>20. <<0, n>> \in DOMAIN v /\ v[<<0, n>>] = hash
  BY <1>9, <1>14, <1>15
<1>21. PICK k : k = n + 1
  OBVIOUS
<1>22. \A col \in 0..k - 1 : <<0, col>> \in DOMAIN v
  <2>1. \A col \in 0..k - 1 : col = n \/ col \in 0..n - 1
    BY <1>21
  <2> QED
    BY <1>19, <1>20, <2>1
<1>23. IsTreeWith(v, k, g, e)
  BY <1>17, <1>18, <1>22 DEF IsTreeWith
<1>24. IsTree(v, k)
  <2>1. k - 1 = n
    BY <1>21
  <2> QED
    BY <1>1, <1>21, <1>23, <2>1 DEF IsTree
<1> QED
  BY <1>19, <1>20, <1>21, <1>24

LEMMA FirstLeaf ==
  ASSUME NEW t, DOMAIN t = {}, NEW hash, NEW v, v = AddLeaf(t, 0, hash)
  PROVE  IsTree(v, 1) /\ v[<<0, 0>>] = hash
<1>1. PICK h, c : h = SizeToHeight(1) /\ c = [row \in Nat |-> ColumnAt(0, row)]
  OBVIOUS
<1>2. h = 1
  <2>1. PICK size \in Nat : size = 1
    OBVIOUS
  <2>2. size # 0 /\ h = SizeToHeight(size) /\ size - 1 = 0
    BY <1>1, <2>1
  <2>3. h \in Nat /\ 1 <= h /\ \A row \in Nat : ColumnAt(size - 1, row) = 0 <=> h - 1 <= row
    BY <2>2, HeightOfSize
  <2>4. ColumnAt(0, 0) = 0
    BY ColumnSteps
  <2> QED
    BY <2>2, <2>3, <2>4
<1>3. PICK b : b = WithSiblings(SetNode(t, 0, 0, hash), 0)
  OBVIOUS
<1>4. <<0, 0>> \in DOMAIN b /\ b[<<0, 0>>] = hash
  <2>1. PICK n, m : n = 0 /\ m = 0
    OBVIOUS
  <2>2. n \in Nat /\ m = SizeToHeight(n + 1) - 1 /\ b = WithSiblings(SetNode(t, 0, n, hash), n)
    BY <1>1, <1>2, <1>3, <2>1
  <2>3. IsColumns(c, n)
    BY <1>1, <2>1 DEF IsColumns
  <2>4. HasSiblings(t, b, n, hash, m, c)
    BY <2>2, <2>3, WithSiblingsEffect
  <2> QED
    BY <2>1, <2>4 DEF HasSiblings
<1>5. v = b
  <2>1. PICK n, index : n = 0 /\ index = 0
    OBVIOUS
  <2>2. /\ n \in Nat /\ n = SizeToHeight(index + 1) - 1
        /\ b = WithSiblings(SetNode(t, 0, index, hash), index)
    BY <1>1, <1>2, <1>3, <2>1
  <2>3. PICK q : q[0] = b /\ q[n] = AddLeaf(t, index, hash)
    BY <2>2, LeafRun
  <2> QED
    BY <2>1, <2>3
<1>6. IsTreeWith(v, 1, h, c)
  BY <1>2, <1>4, <1>5 DEF IsTreeWith
<1>7. IsTree(v, 1)
  <2>1. PICK n : n = 1
    OBVIOUS
  <2>2. n - 1 = 0
    BY <2>1
  <2> QED
    BY <1>1, <1>6, <2>1, <2>2 DEF IsTree
<1> QED
  BY <1>4, <1>5, <1>7

------------------------------------------------------------------------------
(* The root over the leaves *)

LevelsLoop == [over |-> "levels", ordered |-> TRUE]

LEMMA LevelsSteps ==
  /\ \A acc, x : StepOf(LevelsLoop, acc, x) = IF Len(acc) > 1 THEN RowAbove(acc) ELSE acc
  /\ \A s : Picked(LevelsLoop, s) = Max(s)
  /\ LevelsLoop.ordered
<1>1. PICK loop : loop = LevelsLoop
  OBVIOUS
<1>2. loop.over = "levels" /\ loop.ordered
  BY <1>1 DEF LevelsLoop
<1>3. \A acc, x : StepOf(loop, acc, x) = IF Len(acc) > 1 THEN RowAbove(acc) ELSE acc
  BY <1>2 DEF StepOf
<1> QED
  BY <1>1, <1>2, <1>3 DEF Picked

IsLevelsFold(h, leaves, n) ==
  h = [s \in SUBSET DOMAIN [i \in 1..n |-> i] |->
         IF s = {} THEN leaves
         ELSE LET i == Max(s) IN
                IF Len(h[s \ {i}]) > 1 THEN RowAbove(h[s \ {i}]) ELSE h[s \ {i}]]

LEMMA LevelsRun ==
  ASSUME NEW leaves, NEW n \in Nat, n = Len(leaves)
  PROVE  \E r : /\ r[0] = leaves /\ RootOver(leaves) = r[n][1]
                /\ \A i \in 1..n :
                     r[i] = IF Len(r[i - 1]) > 1 THEN RowAbove(r[i - 1]) ELSE r[i - 1]
<1>1. PICK loop : loop = LevelsLoop
  OBVIOUS
<1>2. /\ loop.ordered /\ \A s : Picked(loop, s) = Max(s)
      /\ \A acc, x : StepOf(loop, acc, x) = IF Len(acc) > 1 THEN RowAbove(acc) ELSE acc
  BY <1>1, LevelsSteps
<1>3. PICK h : IsFoldOf(h, loop, leaves, 1..n)
  BY <1>2, PositionsFoldExists
<1>4. DOMAIN [i \in 1..n |-> i] = 1..n
  OBVIOUS
<1>5. ASSUME NEW g PROVE IsFoldOf(g, loop, leaves, 1..n) <=> IsLevelsFold(g, leaves, n)
  <2> DEFINE A(s) == IF s = {} THEN leaves
                     ELSE StepOf(loop, g[s \ {Picked(loop, s)}], Picked(loop, s))
             B(s) == IF s = {} THEN leaves
                     ELSE LET i == Max(s) IN
                            IF Len(g[s \ {i}]) > 1 THEN RowAbove(g[s \ {i}]) ELSE g[s \ {i}]
  <2>1. \A s : A(s) = B(s)
    BY <1>2
  <2> HIDE DEF A, B
  <2>2. [s \in SUBSET (1..n) |-> A(s)] = [s \in SUBSET (1..n) |-> B(s)]
    BY <2>1
  <2> QED
    BY <1>4, <2>2 DEF IsFoldOf, IsLevelsFold, A, B
<1> DEFINE k == CHOOSE g : IsLevelsFold(g, leaves, n)
<1>6. IsFoldOf(k, loop, leaves, 1..n)
  BY <1>3, <1>5
<1>7. RootOver(leaves) = k[DOMAIN [i \in 1..n |-> i]][1]
  BY DEF RootOver, FoldLeft, MapThenFoldSet, IsLevelsFold
<1> HIDE DEF k
<1>8. PICK r : IsRun(r, loop, leaves, n) /\ r[n] = k[1..n]
  BY <1>2, <1>6, RunOfFold
<1>9. RootOver(leaves) = r[n][1]
  BY <1>4, <1>7, <1>8
<1>10. r[0] = leaves /\ \A i \in 1..n : r[i] = StepOf(loop, r[i - 1], i)
  BY <1>8 DEF IsRun
<1> QED
  BY <1>2, <1>9, <1>10

\* The first k nodes of a row.
RowOf(t, row, k) == [j \in 1..k |-> t[<<row, j - 1>>]]

LEMMA RowOfEffect ==
  ASSUME NEW t, NEW row, NEW k \in Nat, NEW r, r = RowOf(t, row, k)
  PROVE  Len(r) = k /\ \A j \in 1..k : r[j] = t[<<row, j - 1>>]
<1>1. PICK S : S = {t[<<row, j - 1>>] : j \in 1..k}
  OBVIOUS
<1>2. r \in [1..k -> S]
  BY <1>1 DEF RowOf
<1>3. r \in Seq(S) /\ Len(r) = k
  BY <1>2
<1>4. \A j \in 1..k : r[j] = t[<<row, j - 1>>]
  BY DEF RowOf
<1> QED
  BY <1>3, <1>4

\* The row above one that ends in a column is merged from it.
RowFits(t, row, last, above, end) ==
  /\ above = row + 1 /\ end = last \div 2
  /\ \A col \in Nat : col <= end => IsMerged(t, above, col)
  /\ last % 2 = 0 => t[<<row, last + 1>>] = NullHash

LEMMA RowAboveEffect ==
  ASSUME NEW t, NEW row \in Nat, NEW last \in Nat, NEW above, NEW end,
         RowFits(t, row, last, above, end),
         NEW k, k = last + 1, NEW r, r = RowOf(t, row, k)
  PROVE  RowAbove(r) = RowOf(t, above, end + 1)
<1>0. /\ above = row + 1 /\ end = last \div 2
      /\ \A col \in Nat : col <= end => IsMerged(t, above, col)
      /\ last % 2 = 0 => t[<<row, last + 1>>] = NullHash
  BY DEF RowFits
<1>1. k \in Nat /\ k = last + 1
  OBVIOUS
<1>2. Len(r) = k /\ \A j \in 1..k : r[j] = t[<<row, j - 1>>]
  BY <1>1, RowOfEffect
<1>3. PICK m \in Nat : m = end + 1
  BY <1>0
<1>4. (k + 1) \div 2 = m
  <2>1. (last + 2) \div 2 = last \div 2 + 1
    OBVIOUS
  <2> QED
    BY <1>0, <1>1, <1>3, <2>1
<1> DEFINE A(i) == MergeHashes(r[2 * i - 1], IF 2 * i <= Len(r) THEN r[2 * i] ELSE NullHash)
           B(i) == t[<<above, i - 1>>]
<1>5. ASSUME NEW i \in 1..m PROVE A(i) = B(i)
  <2>1. PICK col \in Nat : col = i - 1
    OBVIOUS
  <2>2. col <= end /\ end \in Nat
    BY <1>0, <1>3, <2>1
  <2>3. t[<<above, col>>] = MergeHashes(t[<<above - 1, 2 * col>>], t[<<above - 1, 2 * col + 1>>])
    BY <1>0, <2>2 DEF IsMerged
  <2>4. PICK x, y \in Nat : x = 2 * i - 1 /\ y = 2 * i
    OBVIOUS
  <2>5. x \in 1..k /\ x - 1 = 2 * col /\ y - 1 = 2 * col + 1 /\ above - 1 = row /\ y \in Nat /\ y >= 1
    BY <1>0, <1>1, <2>1, <2>2, <2>4
  <2>6. r[x] = t[<<row, 2 * col>>]
    BY <1>2, <2>5
  <2>7. CASE y <= k
    <3>1. r[y] = t[<<row, 2 * col + 1>>]
      <4>1. y \in 1..k
        BY <2>5, <2>7
      <4>2. r[y] = t[<<row, y - 1>>]
        BY <1>2, <4>1
      <4> QED
        BY <2>5, <4>2
    <3> QED
      BY <1>2, <2>1, <2>3, <2>4, <2>5, <2>6, <2>7, <3>1
  <2>8. CASE ~(y <= k)
    <3>1. y = last + 2 /\ last % 2 = 0
      BY <1>0, <1>1, <2>1, <2>2, <2>4, <2>8
    <3>2. t[<<row, 2 * col + 1>>] = NullHash
      <4>1. last + 1 = 2 * col + 1
        BY <2>1, <2>4, <3>1
      <4> QED
        BY <1>0, <3>1, <4>1
    <3> QED
      BY <1>2, <2>1, <2>3, <2>4, <2>5, <2>6, <2>8, <3>2
  <2> QED
    BY <2>7, <2>8
<1> HIDE DEF A, B
<1>6. [i \in 1..m |-> A(i)] = [i \in 1..m |-> B(i)]
  BY <1>5
<1>7. RowAbove(r) = [i \in 1..m |-> A(i)]
  BY <1>2, <1>4 DEF RowAbove, A
<1>8. RowOf(t, above, m) = [i \in 1..m |-> B(i)]
  BY DEF RowOf, B
<1> QED
  BY <1>3, <1>6, <1>7, <1>8

\* The root of a tree is the one that its leaves have when they are merged row by row.
LEMMA RootOfTree ==
  ASSUME NEW n \in Nat, n # 0, NEW t, IsTree(t, n), NEW leaves, leaves = RowOf(t, 0, n)
  PROVE  RootOver(leaves) = RootOf(t, n)
<1>1. PICK h, c : h = SizeToHeight(n) /\ c = [row \in Nat |-> ColumnAt(n - 1, row)]
  OBVIOUS
<1>2. IsTreeWith(t, n, h, c)
  BY <1>1 DEF IsTree
<1>3. /\ c[0] = n - 1
      /\ \A row \in Nat : c[row] \in Nat /\ c[row + 1] = c[row] \div 2
  <2>1. PICK i \in Nat : i = n - 1
    OBVIOUS
  <2>2. \A row \in Nat : row + 1 \in Nat /\ ColumnAt(i, row + 1) = c[row + 1]
    BY <1>1, <2>1
  <2>3. /\ ColumnAt(i, 0) = i
        /\ \A row \in Nat : /\ ColumnAt(i, row) \in Nat
                            /\ ColumnAt(i, row + 1) = ColumnAt(i, row) \div 2
    BY ColumnSteps
  <2> QED
    BY <1>1, <2>1, <2>2, <2>3
<1>4. /\ h \in Nat /\ 1 <= h /\ h - 1 <= n
      /\ \A row \in Nat : c[row] = 0 <=> h - 1 <= row
  BY <1>1, HeightOfSize
<1>5. n = Len(leaves)
  BY RowOfEffect
<1>6. PICK r : /\ r[0] = leaves /\ RootOver(leaves) = r[n][1]
               /\ \A i \in 1..n :
                    r[i] = IF Len(r[i - 1]) > 1 THEN RowAbove(r[i - 1]) ELSE r[i - 1]
  BY <1>5, LevelsRun
<1> DEFINE Upto(i) == IF i < h - 1 THEN i ELSE h - 1
           N == {i \in Nat : i <= n => r[i] = RowOf(t, Upto(i), c[Upto(i)] + 1)}
<1>7. 0 \in N
  <2>1. Upto(0) = 0
    BY <1>4
  <2>2. c[0] + 1 = n
    BY <1>3
  <2> QED
    BY <1>6, <2>1, <2>2
<1>8. ASSUME NEW i \in Nat, i \in N PROVE i + 1 \in N
  <2> SUFFICES ASSUME i + 1 <= n PROVE r[i + 1] = RowOf(t, Upto(i + 1), c[Upto(i + 1)] + 1)
    OBVIOUS
  <2>1. i + 1 \in 1..n /\ (i + 1) - 1 = i /\ i <= n
    OBVIOUS
  <2>2. PICK row : row = Upto(i)
    OBVIOUS
  <2>3. row \in Nat /\ row <= h - 1
    BY <1>4, <2>2
  <2>4. PICK last \in Nat : last = c[row]
    BY <1>3, <2>3
  <2>5. PICK s : s = r[i]
    OBVIOUS
  <2>6. s = RowOf(t, row, last + 1)
    BY <1>8, <2>1, <2>2, <2>4, <2>5
  <2>7. PICK k \in Nat : k = last + 1
    OBVIOUS
  <2>8. Len(s) = k
    BY <2>6, <2>7, RowOfEffect
  <2>9. r[i + 1] = IF Len(s) > 1 THEN RowAbove(s) ELSE s
    BY <1>6, <2>1, <2>5
  <2>10. CASE i < h - 1
    <3>1. row = i /\ Upto(i + 1) = i + 1 /\ row \in 0..h - 2
      BY <1>4, <2>2, <2>10
    <3>2. last # 0
      BY <1>4, <2>3, <2>4, <2>10, <3>1
    <3>3. Len(s) > 1
      BY <2>7, <2>8, <3>2
    <3>4. PICK above, end : above = row + 1 /\ end = last \div 2
      OBVIOUS
    <3>5. end = c[above]
      BY <1>3, <2>3, <2>4, <3>4
    <3>6. above \in 1..h - 1
      BY <1>4, <3>1, <3>4
    <3>7. \A col \in Nat : col <= end => IsMerged(t, above, col)
      BY <1>2, <3>5, <3>6 DEF IsTreeWith
    <3>8. last % 2 = 0 => t[<<row, last + 1>>] = NullHash
      BY <1>2, <2>4, <3>1 DEF IsTreeWith
    <3>9. RowAbove(s) = RowOf(t, above, end + 1)
      <4>1. RowFits(t, row, last, above, end)
        BY <3>4, <3>7, <3>8 DEF RowFits
      <4>2. s = RowOf(t, row, k)
        BY <2>6, <2>7
      <4> QED
        BY <2>3, <2>7, <4>1, <4>2, RowAboveEffect
    <3> QED
      BY <2>9, <3>1, <3>3, <3>4, <3>5, <3>9
  <2>11. CASE ~(i < h - 1)
    <3>1. row = h - 1 /\ Upto(i + 1) = row
      BY <1>4, <2>2, <2>11
    <3>2. last = 0
      BY <1>4, <2>3, <2>4, <3>1
    <3>3. ~(Len(s) > 1)
      BY <2>7, <2>8, <3>2
    <3> QED
      BY <2>4, <2>6, <2>9, <3>1, <3>3
  <2> QED
    BY <2>10, <2>11
<1>9. n \in N
  <2> HIDE DEF N
  <2> QED
    BY <1>7, <1>8, InductionOnNumbers
<1>10. PICK top \in Nat : top = h - 1
  BY <1>4
<1>11. Upto(n) = top /\ c[top] = 0
  BY <1>4, <1>10
<1>12. r[n] = RowOf(t, top, 1)
  BY <1>9, <1>11
<1>13. r[n][1] = t[<<top, 0>>]
  BY <1>12 DEF RowOf
<1>14. RootOf(t, n) = t[<<top, 0>>]
  BY <1>1, <1>10 DEF RootOf
<1> QED
  BY <1>6, <1>13, <1>14
------------------------------------------------------------------------------
(* The Merkle trees of the virtual blockchains *)

\* The tree of a virtual blockchain is over the sequence s of its n microblocks.
HasTree(w, vb, s, n) ==
  /\ n = w.vbs[vb].height /\ n \in Nat /\ n # 0
  /\ IsTree(w.merkle[vb], n) /\ w.vbs[vb].root = RootOf(w.merkle[vb], n)
  /\ \A h \in 1..n : /\ w.merkle[vb][<<0, h - 1>>] = s[h] /\ s[h] \in DOMAIN w.microblocks
                     /\ s[h].vb = vb /\ s[h].height = h

\* Microblocks are at the heights of their virtual blockchain, one at each.
KnowsMicroblocks(w) ==
  /\ \A mb \in DOMAIN w.microblocks :
       /\ w.microblocks[mb] = [vb |-> mb.vb, height |-> mb.height]
       /\ mb.vb \in DOMAIN w.vbs /\ mb.height \in Nat \ {0} /\ mb.height <= w.vbs[mb.vb].height
  /\ \A a, b \in DOMAIN w.microblocks : a.vb = b.vb /\ a.height = b.height => a = b

HasTrees(w) ==
  /\ DOMAIN w.merkle = DOMAIN w.vbs /\ KnowsMicroblocks(w)
  /\ \A vb \in DOMAIN w.vbs : \E s, n : HasTree(w, vb, s, n)

SameTrees(w, v) == v.vbs = w.vbs /\ v.merkle = w.merkle /\ v.microblocks = w.microblocks

LEMMA SameTreesHas == ASSUME NEW w, HasTrees(w), NEW v, SameTrees(w, v) PROVE HasTrees(v)
<1>1. v.vbs = w.vbs /\ v.merkle = w.merkle /\ v.microblocks = w.microblocks
  BY DEF SameTrees
<1>2. KnowsMicroblocks(v)
  <2>1. KnowsMicroblocks(w)
    BY DEF HasTrees
  <2> QED
    BY <1>1, <2>1 DEF KnowsMicroblocks
<1>3. ASSUME NEW vb, NEW s, NEW n, HasTree(w, vb, s, n) PROVE HasTree(v, vb, s, n)
  BY <1>1, <1>3 DEF HasTree
<1>4. DOMAIN v.merkle = DOMAIN v.vbs
  BY <1>1 DEF HasTrees
<1>5. ASSUME NEW vb \in DOMAIN v.vbs PROVE \E s, n : HasTree(v, vb, s, n)
  <2>1. vb \in DOMAIN w.vbs
    BY <1>1
  <2>2. PICK s, n : HasTree(w, vb, s, n)
    BY <2>1 DEF HasTrees
  <2> QED
    BY <1>3, <2>2
<1> QED
  BY <1>2, <1>4, <1>5 DEF HasTrees

LEMMA HeightsTyped ==
  ASSUME NEW w, HasTrees(w)
  PROVE  /\ \A x \in DOMAIN w.vbs : w.vbs[x].height \in Nat
         /\ \A vb : HeightOf(w, vb) \in Nat
<1>1. \A x \in DOMAIN w.vbs : w.vbs[x].height \in Nat
  BY DEF HasTrees, HasTree
<1> QED
  BY <1>1 DEF HeightOf

LEMMA MicroblockKnown ==
  ASSUME NEW w, HasTrees(w), NEW v, NEW vb, NEW state, NEW mb,
         IsNext(w, vb, state, mb), StoredAs(w, v, vb, state, mb)
  PROVE  mb \notin DOMAIN w.microblocks /\ KnowsMicroblocks(v)
<1>1. KnowsMicroblocks(w)
  BY DEF HasTrees
<1>2. /\ mb.vb = vb /\ mb.height = state.height /\ state.height = HeightOf(w, vb) + 1
      /\ DOMAIN v.vbs = DOMAIN w.vbs \cup {vb} /\ v.vbs[vb] = state
      /\ \A x \in DOMAIN w.vbs : x # vb => v.vbs[x] = w.vbs[x]
      /\ v.microblocks = Put(w.microblocks, mb, [vb |-> vb, height |-> state.height])
  BY DEF IsNext, StoredAs
<1>3. HeightOf(w, vb) \in Nat /\ \A x \in DOMAIN w.vbs : w.vbs[x].height \in Nat
  BY HeightsTyped
<1>4. PICK n \in Nat : n = HeightOf(w, vb)
  BY <1>3
<1>5. \A a \in DOMAIN w.microblocks : a.vb = vb => a.height \in Nat /\ a.height <= n
  BY <1>1, <1>4 DEF KnowsMicroblocks, HeightOf
<1>6. \A a \in DOMAIN w.microblocks : a.vb = vb => a.height # state.height
  <2> SUFFICES ASSUME NEW a \in DOMAIN w.microblocks, a.vb = vb, a.height = n + 1 PROVE FALSE
    BY <1>2, <1>4
  <2>1. a.height <= n
    BY <1>5
  <2> QED
    BY <2>1
<1>7. mb \notin DOMAIN w.microblocks
  BY <1>2, <1>6
<1>8. PICK m, e : m = v.microblocks /\ e = [vb |-> vb, height |-> state.height]
  OBVIOUS
<1>9. /\ DOMAIN m = DOMAIN w.microblocks \cup {mb} /\ m[mb] = e
      /\ \A a \in DOMAIN w.microblocks : m[a] = w.microblocks[a]
  BY <1>2, <1>7, <1>8 DEF Put
<1>10. ASSUME NEW a \in DOMAIN m
       PROVE  /\ m[a] = [vb |-> a.vb, height |-> a.height]
              /\ a.vb \in DOMAIN v.vbs /\ a.height \in Nat \ {0} /\ a.height <= v.vbs[a.vb].height
  <2>1. CASE a = mb
    <3>1. state.height \in Nat \ {0} /\ state.height <= state.height
      BY <1>2, <1>4
    <3> QED
      BY <1>2, <1>8, <1>9, <2>1, <3>1
  <2>2. CASE a # mb
    <3>1. /\ a \in DOMAIN w.microblocks /\ a.vb \in DOMAIN w.vbs
          /\ w.microblocks[a] = [vb |-> a.vb, height |-> a.height]
          /\ a.height \in Nat \ {0} /\ a.height <= w.vbs[a.vb].height
      BY <1>1, <1>9, <2>2 DEF KnowsMicroblocks
    <3>2. CASE a.vb = vb
      <4>1. a.height <= n /\ v.vbs[a.vb].height = n + 1
        BY <1>2, <1>4, <1>5, <3>1, <3>2
      <4>2. a.height <= v.vbs[a.vb].height
        BY <3>1, <4>1
      <4> QED
        BY <1>2, <1>9, <3>1, <4>2
    <3>3. CASE a.vb # vb
      BY <1>2, <1>9, <3>1, <3>3
    <3> QED
      BY <3>2, <3>3
  <2> QED
    BY <2>1, <2>2
<1>11. ASSUME NEW a \in DOMAIN m, NEW b \in DOMAIN m, a.vb = b.vb, a.height = b.height
       PROVE  a = b
  <2>1. CASE a # mb /\ b # mb
    BY <1>1, <1>9, <1>11, <2>1 DEF KnowsMicroblocks
  <2>2. CASE a = mb \/ b = mb
    BY <1>2, <1>6, <1>9, <1>11, <2>2
  <2> QED
    BY <2>1, <2>2
<1> QED
  BY <1>7, <1>8, <1>10, <1>11 DEF KnowsMicroblocks

LEMMA TreesStep == ASSUME NEW w, NEW v, HasTrees(w), Step(w, v) PROVE HasTrees(v)
<1>1. CASE AccountStep(w, v) \/ RowsStep(w, v)
  <2>1. SameTrees(w, v)
    BY <1>1 DEF AccountStep, Saved, SameChain, RowsStep, SameTrees
  <2> QED
    BY <2>1, SameTreesHas
<1>2. CASE MicroblockStep(w, v)
  <2>1. PICK vb, state, mb : IsNext(w, vb, state, mb) /\ StoredAs(w, v, vb, state, mb)
    BY <1>2 DEF MicroblockStep
  <2>2. mb \notin DOMAIN w.microblocks /\ KnowsMicroblocks(v)
    BY <2>1, MicroblockKnown
  <2>3. PICK n \in Nat : n = HeightOf(w, vb)
    BY HeightsTyped
  <2>5. /\ mb.vb = vb /\ mb.height = n + 1 /\ state.height = n + 1 /\ (n + 1) - 1 = n
        /\ DOMAIN v.vbs = DOMAIN w.vbs \cup {vb} /\ v.vbs[vb] = state
        /\ \A x \in DOMAIN w.vbs : x # vb => v.vbs[x] = w.vbs[x]
        /\ DOMAIN v.microblocks = DOMAIN w.microblocks \cup {mb}
        /\ state.root = RootOf(v.merkle[vb], state.height)
        /\ v.merkle = Put(w.merkle, vb, AddLeaf(MerkleOf(w, vb), state.height - 1, mb))
    BY <2>1, <2>3 DEF IsNext, StoredAs
  <2>6. PICK t, u, m : t = MerkleOf(w, vb) /\ u = AddLeaf(t, n, mb) /\ m = n + 1
    OBVIOUS
  <2>7. /\ DOMAIN v.merkle = DOMAIN w.merkle \cup {vb} /\ v.merkle[vb] = u
        /\ \A x \in DOMAIN w.merkle : x # vb => v.merkle[x] = w.merkle[x]
    <3>1. v.merkle = Put(w.merkle, vb, u)
      BY <2>5, <2>6
    <3> QED
      BY <3>1 DEF Put
  <2>8. \E s : HasTree(v, vb, s, m)
    <3>1. /\ m = v.vbs[vb].height /\ m \in Nat /\ m # 0 /\ v.vbs[vb].root = RootOf(v.merkle[vb], m)
          /\ mb \in DOMAIN v.microblocks /\ mb.vb = vb /\ mb.height = m
      BY <2>5, <2>6
    <3>2. CASE vb \in DOMAIN w.vbs
      <4>1. PICK s, k : HasTree(w, vb, s, k)
        BY <3>2 DEF HasTrees
      <4>2. k = n /\ n # 0
        BY <2>3, <3>2, <4>1 DEF HasTree, HeightOf
      <4>3. t = w.merkle[vb]
        BY <2>6, <3>2 DEF HasTrees, MerkleOf
      <4>4. IsTree(t, n)
        BY <4>1, <4>2, <4>3 DEF HasTree
      <4>5. /\ IsTree(u, n + 1) /\ u[<<0, n>>] = mb
            /\ \A i \in 0..n - 1 : u[<<0, i>>] = t[<<0, i>>]
        BY <2>6, <4>2, <4>4, LeafAdded
      <4>6. PICK r : r = [h \in 1..m |-> IF h = m THEN mb ELSE s[h]]
        OBVIOUS
      <4>7. ASSUME NEW h \in 1..m
            PROVE  /\ u[<<0, h - 1>>] = r[h] /\ r[h] \in DOMAIN v.microblocks
                   /\ r[h].vb = vb /\ r[h].height = h
        <5>1. CASE h = m
          <6>1. r[h] = mb /\ h - 1 = n
            BY <2>6, <4>6, <5>1
          <6> QED
            BY <3>1, <4>5, <5>1, <6>1
        <5>2. CASE h # m
          <6>1. h \in 1..n /\ h - 1 \in 0..n - 1 /\ r[h] = s[h]
            BY <2>6, <4>6, <5>2
          <6>2. /\ t[<<0, h - 1>>] = s[h] /\ s[h] \in DOMAIN w.microblocks
                /\ s[h].vb = vb /\ s[h].height = h
            BY <4>1, <4>2, <4>3, <6>1 DEF HasTree
          <6> QED
            BY <2>5, <4>5, <6>1, <6>2
        <5> QED
          BY <5>1, <5>2
      <4>8. IsTree(v.merkle[vb], m)
        BY <2>6, <2>7, <4>5
      <4> QED
        BY <2>7, <3>1, <4>7, <4>8 DEF HasTree
    <3>3. CASE vb \notin DOMAIN w.vbs
      <4>1. n = 0 /\ m = 1
        BY <2>3, <2>6, <3>3 DEF HeightOf
      <4>2. t = <<>>
        BY <2>6, <3>3 DEF HasTrees, MerkleOf
      <4>3. DOMAIN t = {}
        BY <4>2
      <4>4. u = AddLeaf(t, 0, mb)
        BY <2>6, <4>1
      <4>5. IsTree(u, 1) /\ u[<<0, 0>>] = mb
        BY <4>3, <4>4, FirstLeaf
      <4>6. PICK r : r = [h \in 1..1 |-> mb]
        OBVIOUS
      <4>7. \A h \in 1..m : h = 1 /\ h - 1 = 0 /\ r[h] = mb
        BY <4>1, <4>6
      <4>8. IsTree(v.merkle[vb], m)
        BY <2>7, <4>1, <4>5
      <4> QED
        BY <2>7, <3>1, <4>1, <4>5, <4>7, <4>8 DEF HasTree
    <3> QED
      BY <3>2, <3>3
  <2>9. ASSUME NEW x \in DOMAIN w.vbs, x # vb PROVE \E s, k : HasTree(v, x, s, k)
    <3>1. PICK s, k : HasTree(w, x, s, k)
      BY DEF HasTrees
    <3>2. x \in DOMAIN w.merkle
      BY DEF HasTrees
    <3>3. v.vbs[x] = w.vbs[x] /\ v.merkle[x] = w.merkle[x]
      BY <2>5, <2>7, <2>9, <3>2
    <3>4. HasTree(v, x, s, k)
      BY <2>5, <3>1, <3>3 DEF HasTree
    <3> QED
      BY <3>4
  <2>10. \A x \in DOMAIN v.vbs : \E s, k : HasTree(v, x, s, k)
    BY <2>5, <2>8, <2>9
  <2>11. DOMAIN v.merkle = DOMAIN v.vbs
    BY <2>5, <2>7 DEF HasTrees
  <2> QED
    BY <2>2, <2>10, <2>11 DEF HasTrees
<1> QED
  BY <1>1, <1>2 DEF Step

LEMMA TreesLeads == ASSUME NEW w, NEW v, HasTrees(w), Leads(w, v) PROVE HasTrees(v)
<1>1. PICK n \in Nat : \E tr : IsTrace(tr, n, w, v)
  BY DEF Leads
<1>2. PICK tr : IsTrace(tr, n, w, v)
  BY <1>1
<1>3. tr[0] = w /\ tr[n] = v /\ \A i \in 1..n : Step(tr[i - 1], tr[i])
  BY <1>2 DEF IsTrace
<1> DEFINE N == {i \in Nat : i <= n => HasTrees(tr[i])}
<1>4. 0 \in N
  BY <1>3
<1>5. ASSUME NEW i \in Nat, i \in N PROVE i + 1 \in N
  <2> SUFFICES ASSUME i + 1 <= n PROVE HasTrees(tr[i + 1])
    OBVIOUS
  <2>1. HasTrees(tr[i])
    BY <1>5
  <2>2. i + 1 \in 1..n /\ (i + 1) - 1 = i
    OBVIOUS
  <2>3. Step(tr[i], tr[i + 1])
    BY <1>3, <2>2
  <2> QED
    BY <2>1, <2>3, TreesStep
<1>6. n \in N
  <2> HIDE DEF N
  <2> QED
    BY <1>4, <1>5, InductionOnNumbers
<1> QED
  BY <1>3, <1>6

LEMMA OpenStateTrees ==
  ASSUME NEW d, IsState(d), NEW v, v = OpenState(d)
  PROVE  /\ SameTrees(d, v)
         /\ v.vbRadix = OpenTree(d.vbRadix) /\ v.tokenRadix = OpenTree(d.tokenRadix)
<1>1. PICK r, t : r = OpenTree(d.vbRadix) /\ t = OpenTree(d.tokenRadix)
  OBVIOUS
<1>2. v = [d EXCEPT !.vbRadix = r, !.tokenRadix = t, !.touched = {}]
  BY <1>1 DEF OpenState
<1> QED
  BY <1>1, <1>2 DEF IsState, StateFields, SameTrees

\* A committed block leaves the trees over the microblocks.
LEMMA CommitTrees ==
  ASSUME NEW d, IsState(d), HasTrees(d), NEW o, IsBlockOutcome(d, o), NEW v, v = CommitState(d, o)
  PROVE  HasTrees(v)
<1>1. PICK p : Sound(p) /\ Leads(OpenState(d), p) /\ o = EndOfBlock(d, p, d.height + 1)
  BY DEF IsBlockOutcome
<1>2. PICK w, n : w = OpenState(d) /\ n = d.height + 1
  OBVIOUS
<1>3. SameTrees(d, w) /\ Leads(w, p)
  BY <1>1, <1>2, OpenStateTrees
<1>4. HasTrees(p)
  BY <1>3, SameTreesHas, TreesLeads
<1>5. IsState(p) /\ o = EndOfBlock(d, p, n)
  BY <1>1, <1>2 DEF Sound
<1>6. IsState(o) /\ SameTrees(p, o)
  BY <1>5, EndOfBlockAccounts DEF SameTrees
<1>7. SameTrees(o, v)
  BY <1>6, CommitStateKeeps DEF SameTrees
<1> QED
  BY <1>4, <1>6, <1>7, SameTreesHas

LEMMA EmptyHasTrees == HasTrees(EmptyTables)
<1>1. PICK e : e = EmptyTables
  OBVIOUS
<1>2. e.merkle = <<>> /\ e.vbs = <<>> /\ e.microblocks = <<>>
  BY <1>1 DEF EmptyTables
<1>3. DOMAIN e.merkle = {} /\ DOMAIN e.vbs = {} /\ DOMAIN e.microblocks = {}
  BY <1>2
<1> QED
  BY <1>1, <1>3 DEF HasTrees, KnowsMicroblocks

\* The root in the state of a virtual blockchain is that over its microblocks.
LEMMA TreesGiveRoots ==
  ASSUME NEW d, HasTrees(d), NEW vb \in DOMAIN d.vbs
  PROVE  d.vbs[vb].root = RootOver(MicroblocksOf(d, vb))
<1>1. PICK s, n : HasTree(d, vb, s, n)
  BY DEF HasTrees
<1>2. n = d.vbs[vb].height /\ n \in Nat /\ n # 0
  BY <1>1 DEF HasTree
<1>3. PICK t : t = d.merkle[vb]
  OBVIOUS
<1>4. /\ IsTree(t, n) /\ d.vbs[vb].root = RootOf(t, n)
      /\ \A h \in 1..n : /\ t[<<0, h - 1>>] = s[h] /\ s[h] \in DOMAIN d.microblocks
                         /\ s[h].vb = vb /\ s[h].height = h
  BY <1>1, <1>3 DEF HasTree
<1> DEFINE A(h) == CHOOSE mb \in DOMAIN d.microblocks :
                     d.microblocks[mb] = [vb |-> vb, height |-> h]
           B(h) == t[<<0, h - 1>>]
<1>5. ASSUME NEW h \in 1..n PROVE A(h) = B(h)
  <2>1. PICK e : e = [vb |-> vb, height |-> h]
    OBVIOUS
  <2>2. /\ s[h] \in DOMAIN d.microblocks /\ s[h].vb = vb /\ s[h].height = h
        /\ d.microblocks[s[h]] = [vb |-> s[h].vb, height |-> s[h].height]
    BY <1>4 DEF HasTrees, KnowsMicroblocks
  <2>3. d.microblocks[s[h]] = e
    BY <2>1, <2>2
  <2>4. ASSUME NEW mb \in DOMAIN d.microblocks, d.microblocks[mb] = e PROVE mb = s[h]
    <3>1. d.microblocks[mb] = [vb |-> mb.vb, height |-> mb.height]
      BY DEF HasTrees, KnowsMicroblocks
    <3>2. mb.vb = vb /\ mb.height = h
      BY <2>1, <2>4, <3>1
    <3> QED
      BY <2>2, <3>2 DEF HasTrees, KnowsMicroblocks
  <2>5. (CHOOSE mb \in DOMAIN d.microblocks : d.microblocks[mb] = e) = s[h]
    BY <2>2, <2>3, <2>4
  <2>6. A(h) = s[h]
    BY <2>1, <2>5
  <2> QED
    BY <1>4, <2>6
<1> HIDE DEF A, B
<1>6. [h \in 1..n |-> A(h)] = [h \in 1..n |-> B(h)]
  BY <1>5
<1>7. MicroblocksOf(d, vb) = [h \in 1..n |-> A(h)]
  BY <1>2 DEF MicroblocksOf, A
<1>8. PICK leaves : leaves = MicroblocksOf(d, vb)
  OBVIOUS
<1>9. leaves = RowOf(t, 0, n)
  BY <1>6, <1>7, <1>8 DEF RowOf, B
<1>10. RootOver(leaves) = RootOf(t, n)
  BY <1>2, <1>4, <1>9, RootOfTree
<1> QED
  BY <1>4, <1>8, <1>10

LEMMA TreesNext == ASSUME ChainInv, HasTrees(db), [ChainNext]_chainVars PROVE HasTrees(db)'
<1>1. CASE db' = db
  <2>1. PICK d, v : d = db /\ v = db'
    OBVIOUS
  <2>2. HasTrees(d) /\ v = d
    BY <1>1, <2>1
  <2>3. HasTrees(v)
    BY <2>2
  <2> QED
    BY <2>1, <2>3
<1>2. CASE db' # db
  <2>1. PICK o : IsBlockOutcome(db, o) /\ db' = CommitState(db, o)
    BY <1>2, TablesChange
  <2>2. IsState(db)
    BY DEF ChainInv, DbInv, GoodDb, Sound
  <2>3. PICK d, v : d = db /\ v = db'
    OBVIOUS
  <2>4. IsState(d) /\ HasTrees(d) /\ IsBlockOutcome(d, o) /\ v = CommitState(d, o)
    BY <2>1, <2>2, <2>3
  <2>5. HasTrees(v)
    BY <2>4, CommitTrees
  <2> QED
    BY <2>3, <2>5
<1> QED
  BY <1>1, <1>2

\* The root that is maintained leaf by leaf is, in every committed state of a virtual
\* blockchain, the root over all its microblocks.
THEOREM RootsOfMicroblocks == ChainSpec => MerkleRootsRebuilt
<1>1. ChainInit => HasTrees(db)
  BY EmptyHasTrees DEF ChainInit
<1>2. ChainInv /\ HasTrees(db) /\ [ChainNext]_chainVars => HasTrees(db)'
  BY TreesNext
<1>3. HasTrees(db)' =>
        [\A vb \in DOMAIN db'.vbs : db'.vbs[vb].root = RootOver(MicroblocksOf(db', vb))]_db
  BY TreesGiveRoots
<1> QED
  BY <1>1, <1>2, <1>3, ChainInvariant, PTL DEF ChainSpec, MerkleRootsRebuilt

------------------------------------------------------------------------------
(* Keys of a radix tree *)

IsKey(k) == k \in [1..KeyLength -> 0..15]
\* Two keys differ before the last nibble.
DifferEarly(j, k) == \E i \in 1..KeyLength - 1 : j[i] # k[i]
AreKeys(keys) == (\A k \in keys : IsKey(k)) /\ \A j, k \in keys : j # k => DifferEarly(j, k)

Agree(j, k, depth) == \A i \in 1..depth : j[i] = k[i]

LEMMA KeyLengthType == KeyLength \in Nat /\ KeyLength >= 1
BY RadixTreeAssumption

LEMMA KeySequence ==
  ASSUME NEW k, IsKey(k)
  PROVE  /\ k \in Seq(0..15) /\ Len(k) = KeyLength
         /\ \A i \in 1..KeyLength : k[i] \in 0..15
BY KeyLengthType DEF IsKey

\* What is left of a key.
IsRest(s, k, depth) ==
  /\ s \in Seq(0..15) /\ Len(s) = KeyLength - depth
  /\ \A i \in 1..KeyLength - depth : s[i] = k[depth + i]

LEMMA RestOfKey ==
  ASSUME NEW k, IsKey(k), NEW depth \in 0..KeyLength - 1,
         NEW next, next = depth + 1, NEW s, s = SubSeq(k, next, KeyLength)
  PROVE  IsRest(s, k, depth)
<1>1. k \in Seq(0..15) /\ Len(k) = KeyLength /\ KeyLength \in Nat
  BY KeySequence, KeyLengthType
<1>2. next \in 1..KeyLength /\ depth \in Nat
  BY <1>1
<1>3. s \in Seq(0..15)
  BY <1>1, <1>2
<1>4. Len(s) = KeyLength - depth
  BY <1>1, <1>2
<1>5. ASSUME NEW i \in 1..KeyLength - depth PROVE s[i] = k[depth + i]
  BY <1>1, <1>2
<1> QED
  BY <1>3, <1>4, <1>5 DEF IsRest

LEMMA OneInFront ==
  ASSUME NEW S, NEW s \in Seq(S), NEW x \in S, NEW t, t = <<x>> \o s
  PROVE  /\ t \in Seq(S) /\ Len(t) = Len(s) + 1 /\ t[1] = x
         /\ \A i \in 1..Len(s) : t[i + 1] = s[i]
<1>1. <<x>> \in Seq(S) /\ Len(<<x>>) = 1 /\ <<x>>[1] = x
  OBVIOUS
<1>2. t \in Seq(S) /\ Len(t) = 1 + Len(s)
  BY <1>1
<1>3. t[1] = x
  BY <1>1
<1>4. ASSUME NEW i \in 1..Len(s) PROVE t[i + 1] = s[i]
  <2>1. i + 1 \in 1..Len(t) /\ i + 1 > 1 /\ (i + 1) - 1 = i
    BY <1>2
  <2> QED
    BY <1>1, <2>1
<1> QED
  BY <1>2, <1>3, <1>4

LEMMA SameKey ==
  ASSUME NEW j, IsKey(j), NEW k, IsKey(k), \A i \in 1..KeyLength : j[i] = k[i]
  PROVE  j = k
<1> DEFINE D == 1..KeyLength
<1>1. j \in [D -> 0..15] /\ k \in [D -> 0..15]
  BY DEF IsKey
<1>2. \A i \in D : j[i] = k[i]
  OBVIOUS
<1> HIDE DEF D
<1>3. j = [i \in D |-> j[i]] /\ k = [i \in D |-> k[i]]
  BY <1>1
<1>4. [i \in D |-> j[i]] = [i \in D |-> k[i]]
  BY <1>2
<1> QED
  BY <1>3, <1>4

\* The two forms of what an early leaf has of a key.
IsTrailing(t, depth, k) ==
  /\ t \in Seq(0..15)
  /\ IF depth % 2 = 1
     THEN /\ Len(t) = KeyLength - depth + 1 /\ t[1] = 15 - k[depth]
          /\ \A i \in 1..KeyLength - depth : t[i + 1] = k[depth + i]
     ELSE /\ Len(t) = KeyLength - depth
          /\ \A i \in 1..KeyLength - depth : t[i] = k[depth + i]

LEMMA TrailingEffect ==
  ASSUME NEW k, IsKey(k), NEW depth \in 0..KeyLength - 1, NEW t, t = Trailing(depth, k)
  PROVE  IsTrailing(t, depth, k)
<1>1. PICK next, s : next = depth + 1 /\ s = SubSeq(k, next, KeyLength)
  OBVIOUS
<1>2. IsRest(s, k, depth)
  BY <1>1, RestOfKey
<1>3. depth \in Nat /\ KeyLength \in Nat /\ depth < KeyLength
  BY KeyLengthType
<1>4. CASE depth % 2 = 1
  <2>1. depth \in 1..KeyLength
    BY <1>3, <1>4
  <2>2. PICK x : x = Packed(depth, k[depth])
    OBVIOUS
  <2>3. x = 15 - k[depth] /\ x \in 0..15
    <3>1. k[depth] \in 0..15
      BY <2>1, KeySequence
    <3>2. x = 15 - k[depth]
      BY <2>2 DEF Packed
    <3> QED
      BY <3>1, <3>2
  <2>4. t = <<x>> \o s
    BY <1>1, <1>4, <2>2 DEF Trailing, IsOdd
  <2>5. s \in Seq(0..15) /\ Len(s) = KeyLength - depth
    BY <1>2 DEF IsRest
  <2>6. t \in Seq(0..15) /\ Len(t) = Len(s) + 1 /\ t[1] = x /\ \A i \in 1..Len(s) : t[i + 1] = s[i]
    BY <2>3, <2>4, <2>5, OneInFront
  <2>7. Len(t) = KeyLength - depth + 1 /\ \A i \in 1..KeyLength - depth : t[i + 1] = s[i]
    BY <1>3, <2>5, <2>6
  <2> QED
    BY <1>2, <1>4, <2>3, <2>6, <2>7 DEF IsTrailing, IsRest
<1>5. CASE depth % 2 # 1
  <2>1. t = s
    BY <1>1, <1>5 DEF Trailing, IsOdd
  <2> QED
    BY <1>2, <1>5, <2>1 DEF IsTrailing, IsRest
<1> QED
  BY <1>4, <1>5

\* The trailing path of a key at one depth is never its trailing path at another.
LEMMA TrailingDepth ==
  ASSUME NEW k, IsKey(k), NEW d \in 0..KeyLength - 1, NEW e \in 0..KeyLength - 1,
         Trailing(d, k) = Trailing(e, k)
  PROVE  d = e
<1>1. PICK t : t = Trailing(d, k)
  OBVIOUS
<1>2. IsTrailing(t, d, k) /\ IsTrailing(t, e, k)
  BY <1>1, TrailingEffect
<1>3. KeyLength \in Nat /\ d \in Nat /\ e \in Nat
  BY KeyLengthType
<1>4. CASE d % 2 = e % 2
  <2>1. KeyLength - d = KeyLength - e
    BY <1>2, <1>3, <1>4 DEF IsTrailing
  <2> QED
    BY <1>3, <2>1
<1>5. ASSUME NEW a \in 0..KeyLength - 1, NEW b \in 0..KeyLength - 1, a % 2 = 1, b % 2 # 1,
             IsTrailing(t, a, k), IsTrailing(t, b, k)
      PROVE  FALSE
  <2>1. Len(t) = KeyLength - a + 1 /\ t[1] = 15 - k[a]
    BY <1>5 DEF IsTrailing
  <2>2. Len(t) = KeyLength - b /\ \A i \in 1..KeyLength - b : t[i] = k[b + i]
    BY <1>5 DEF IsTrailing
  <2>3. a = b + 1 /\ 1 \in 1..KeyLength - b /\ a \in 1..KeyLength
    BY <1>3, <2>1, <2>2
  <2>4. t[1] = k[a]
    BY <2>2, <2>3
  <2>5. k[a] \in 0..15
    BY <2>3, KeySequence
  <2> QED
    BY <2>1, <2>4, <2>5
<1>6. (d % 2 = 0 \/ d % 2 = 1) /\ (e % 2 = 0 \/ e % 2 = 1)
  BY <1>3
<1> QED
  BY <1>2, <1>4, <1>5, <1>6

------------------------------------------------------------------------------
(* Early leaves *)

LeafOf(content, depth, k) == Leaf(Trailing(depth, k), content[k])

LEMMA LeafFields ==
  ASSUME NEW path, NEW value, NEW a, a = Leaf(path, value)
  PROVE  a.path = path /\ a.value = value /\ ~IsStandard(a) /\ a # NullHash
<1>1. a.path = path /\ a.value = value
  BY DEF Leaf
<1>2. DOMAIN a = {"path", "value"}
  BY DEF Leaf
<1>3. DOMAIN NullHash = {"zeros"}
  BY DEF NullHash
<1> QED
  BY <1>1, <1>2, <1>3 DEF IsStandard

LEMMA StandardFields ==
  ASSUME NEW h, NEW a, a = Standard(h)
  PROVE  a.child = h /\ IsStandard(a) /\ a # NullHash
<1>1. a.child = h
  BY DEF Standard
<1>2. DOMAIN a = {"child"}
  BY DEF Standard
<1>3. DOMAIN NullHash = {"zeros"}
  BY DEF NullHash
<1> QED
  BY <1>1, <1>2, <1>3 DEF IsStandard

LEMMA RemainingEffect ==
  ASSUME NEW k, IsKey(k), NEW depth \in 0..KeyLength - 1, NEW value,
         NEW a, a = Leaf(Trailing(depth, k), value), NEW s, s = Remaining(depth, a)
  PROVE  IsRest(s, k, depth)
<1>1. PICK t : t = Trailing(depth, k)
  OBVIOUS
<1>2. IsTrailing(t, depth, k) /\ a.path = t
  BY <1>1, TrailingEffect, LeafFields
<1>3. depth \in Nat /\ KeyLength \in Nat /\ depth < KeyLength
  BY KeyLengthType
<1>4. CASE depth % 2 = 1
  <2>1. s = Tail(t)
    BY <1>2, <1>4 DEF Remaining, IsOdd
  <2>2. t \in Seq(0..15) /\ Len(t) = KeyLength - depth + 1 /\ t # <<>>
    BY <1>2, <1>3, <1>4 DEF IsTrailing
  <2>3. s \in Seq(0..15) /\ Len(s) = KeyLength - depth /\ \A i \in 1..KeyLength - depth : s[i] = t[i + 1]
    BY <1>3, <2>1, <2>2
  <2> QED
    BY <1>2, <1>4, <2>3 DEF IsTrailing, IsRest
<1>5. CASE depth % 2 # 1
  <2>1. s = t
    BY <1>2, <1>5 DEF Remaining, IsOdd
  <2> QED
    BY <1>2, <1>5, <2>1 DEF IsTrailing, IsRest
<1> QED
  BY <1>4, <1>5

LEMMA SameSequence ==
  ASSUME NEW S, NEW s \in Seq(S), NEW t \in Seq(S), Len(s) = Len(t),
         \A i \in 1..Len(s) : s[i] = t[i]
  PROVE  s = t
OBVIOUS

\* A leaf holds a key that agrees with its own up to its depth only if it is that key.
LEMMA HoldsKeyEffect ==
  ASSUME NEW j, IsKey(j), NEW k, IsKey(k), NEW depth \in 0..KeyLength - 1, Agree(j, k, depth),
         NEW value, NEW a, a = Leaf(Trailing(depth, j), value)
  PROVE  HoldsKey(depth, a, k) <=> j = k
<1>1. PICK next, s, t : next = depth + 1 /\ s = SubSeq(k, next, KeyLength) /\ t = Remaining(depth, a)
  OBVIOUS
<1>2. IsRest(s, k, depth) /\ IsRest(t, j, depth)
  BY <1>1, RestOfKey, RemainingEffect
<1>3. depth \in Nat /\ KeyLength \in Nat /\ depth < KeyLength
  BY KeyLengthType
<1>4. HoldsKey(depth, a, k) <=> t = s
  BY <1>1 DEF HoldsKey
<1>5. ASSUME t = s PROVE j = k
  <2>1. \A i \in 1..KeyLength - depth : j[depth + i] = k[depth + i]
    BY <1>2, <1>5 DEF IsRest
  <2>2. ASSUME NEW i \in 1..KeyLength PROVE j[i] = k[i]
    <3>1. CASE i <= depth
      BY <1>3, <3>1 DEF Agree
    <3>2. CASE i > depth
      <4>1. PICK n : n = i - depth
        OBVIOUS
      <4>2. n \in 1..KeyLength - depth /\ depth + n = i
        BY <1>3, <3>2, <4>1
      <4> QED
        BY <2>1, <4>2
    <3> QED
      BY <1>3, <3>1, <3>2
  <2> QED
    BY <2>2, SameKey
<1>6. ASSUME j = k PROVE t = s
  <2>1. s \in Seq(0..15) /\ t \in Seq(0..15) /\ Len(s) = KeyLength - depth /\ Len(t) = Len(s)
    BY <1>2 DEF IsRest
  <2>2. \A i \in 1..Len(s) : s[i] = t[i]
    BY <1>2, <1>6, <2>1 DEF IsRest
  <2> QED
    BY <2>1, <2>2, SameSequence
<1> QED
  BY <1>4, <1>5, <1>6

LEMMA PushedDownEffect ==
  ASSUME NEW k, IsKey(k), NEW depth \in 0..KeyLength - 1, NEW next, next = depth + 1,
         next \in 0..KeyLength - 1, NEW value
  PROVE  PushedDown(depth, Leaf(Trailing(depth, k), value)) = Leaf(Trailing(next, k), value)
<1>1. PICK t, u, a : t = Trailing(depth, k) /\ u = Trailing(next, k) /\ a = Leaf(t, value)
  OBVIOUS
<1>2. IsTrailing(t, depth, k) /\ IsTrailing(u, next, k)
  BY <1>1, TrailingEffect
<1>3. a.path = t /\ a.value = value
  BY <1>1, LeafFields
<1>4. depth \in Nat /\ KeyLength \in Nat /\ next < KeyLength
  BY KeyLengthType
<1>5. CASE depth % 2 = 1
  <2>1. next % 2 # 1
    BY <1>4, <1>5
  <2>2. t \in Seq(0..15) /\ Len(t) = KeyLength - depth + 1
    BY <1>2, <1>5 DEF IsTrailing
  <2>3. \A i \in 1..KeyLength - depth : t[i + 1] = k[depth + i]
    BY <1>2, <1>5 DEF IsTrailing
  <2>4. PICK s : s = Tail(Tail(t))
    OBVIOUS
  <2>5. /\ s \in Seq(0..15) /\ Len(s) = KeyLength - depth - 1
        /\ \A i \in 1..KeyLength - depth - 1 : s[i] = t[i + 2]
    <3>1. PICK r : r = Tail(t)
      OBVIOUS
    <3>2. Len(t) >= 2
      BY <1>4, <2>2
    <3>3. r \in Seq(0..15) /\ Len(r) = KeyLength - depth /\ \A i \in 1..KeyLength - depth : r[i] = t[i + 1]
      BY <1>4, <2>2, <3>1, <3>2
    <3>4. Len(r) >= 1 /\ s = Tail(r)
      BY <1>4, <2>4, <3>1, <3>3
    <3>5. s \in Seq(0..15) /\ Len(s) = Len(r) - 1 /\ \A i \in 1..Len(r) - 1 : s[i] = r[i + 1]
      BY <3>3, <3>4
    <3> QED
      BY <1>4, <3>3, <3>5
  <2>6. u \in Seq(0..15) /\ Len(u) = KeyLength - next /\ \A i \in 1..KeyLength - next : u[i] = k[next + i]
    BY <1>2, <2>1 DEF IsTrailing
  <2>7. Len(s) = Len(u) /\ Len(s) = KeyLength - next
    BY <1>4, <2>5, <2>6
  <2>8. ASSUME NEW i \in 1..Len(s) PROVE s[i] = u[i]
    <3>1. s[i] = t[i + 2] /\ u[i] = k[next + i]
      BY <2>5, <2>6, <2>7, <1>4
    <3>2. PICK n : n = i + 1
      OBVIOUS
    <3>3. n \in 1..KeyLength - depth /\ n + 1 = i + 2 /\ depth + n = next + i
      BY <1>4, <2>7, <3>2
    <3> QED
      BY <2>3, <3>1, <3>3
  <2>9. s = u
    BY <2>5, <2>6, <2>7, <2>8, SameSequence
  <2> QED
    BY <1>1, <1>3, <1>5, <2>4, <2>9 DEF PushedDown, IsOdd
<1>6. CASE depth % 2 # 1
  <2>1. next % 2 = 1
    BY <1>4, <1>6
  <2>2. t \in Seq(0..15) /\ Len(t) = KeyLength - depth /\ \A i \in 1..KeyLength - depth : t[i] = k[depth + i]
    BY <1>2, <1>6 DEF IsTrailing
  <2>3. /\ u \in Seq(0..15) /\ Len(u) = KeyLength - next + 1 /\ u[1] = 15 - k[next]
        /\ \A i \in 1..KeyLength - next : u[i + 1] = k[next + i]
    BY <1>2, <2>1 DEF IsTrailing
  <2>4. PICK r, x, s : r = Tail(t) /\ x = Packed(next, Head(t)) /\ s = <<x>> \o r
    OBVIOUS
  <2>5. Len(t) >= 1 /\ 1 \in 1..KeyLength - depth /\ depth + 1 = next
    BY <1>4, <2>2
  <2>6. Head(t) = k[next] /\ next \in 1..KeyLength
    BY <1>4, <2>2, <2>5
  <2>7. x = 15 - k[next] /\ x \in 0..15
    <3>1. k[next] \in 0..15
      BY <2>6, KeySequence
    <3>2. x = 15 - k[next]
      BY <2>4, <2>6 DEF Packed
    <3> QED
      BY <3>1, <3>2
  <2>8. r \in Seq(0..15) /\ Len(r) = KeyLength - next /\ \A i \in 1..KeyLength - next : r[i] = t[i + 1]
    BY <1>4, <2>2, <2>4, <2>5
  <2>9. /\ s \in Seq(0..15) /\ Len(s) = KeyLength - next + 1 /\ s[1] = x
        /\ \A i \in 1..KeyLength - next : s[i + 1] = r[i]
    BY <1>4, <2>4, <2>7, <2>8
  <2>10. ASSUME NEW i \in 1..Len(s) PROVE s[i] = u[i]
    <3>1. CASE i = 1
      BY <2>3, <2>7, <2>9, <3>1
    <3>2. CASE i # 1
      <4>1. PICK n : n = i - 1
        OBVIOUS
      <4>2. n \in 1..KeyLength - next /\ n + 1 = i /\ n + 1 \in 1..KeyLength - depth /\ depth + (n + 1) = next + n
        BY <1>4, <2>9, <3>2, <4>1
      <4>3. s[i] = r[n] /\ r[n] = t[n + 1] /\ t[n + 1] = k[next + n] /\ u[i] = k[next + n]
        BY <2>2, <2>3, <2>8, <2>9, <4>2
      <4> QED
        BY <4>3
    <3> QED
      BY <3>1, <3>2
  <2>11. s = u
    BY <2>3, <2>9, <2>10, SameSequence
  <2> QED
    BY <1>1, <1>3, <1>6, <2>4, <2>11 DEF PushedDown, IsOdd
<1> QED
  BY <1>5, <1>6
------------------------------------------------------------------------------
(* The nodes that a content should have *)

\* The nodes below the one over keys that agree before position i.
ChildrenOver(f, i, keys) == [n \in NibblesAt(keys, i) |-> f[<<i, Having(keys, i, n)>>]]

NodeOver(f, content, depth, keys) ==
  IF IsShared(keys) THEN Standard(ChildrenOver(f, depth + 1, keys))
  ELSE LeafOf(content, depth, CHOOSE k \in keys : TRUE)

\* f has the node over each class of keys.
AreNodes(f, content) ==
  \A depth \in 0..KeyLength - 1, k \in DOMAIN content :
    LET keys == Sharing(DOMAIN content, k, depth) IN
      f[<<depth, keys>>] = NodeOver(f, content, depth, keys)

LEMMA SharingOfMember ==
  ASSUME NEW keys, NEW k, NEW depth, NEW j \in Sharing(keys, k, depth)
  PROVE  /\ j \in keys /\ Agree(j, k, depth) /\ j \in Sharing(keys, j, depth)
         /\ Sharing(keys, j, depth) = Sharing(keys, k, depth)
BY DEF Sharing, Agree

LEMMA NextSharing ==
  ASSUME NEW keys, NEW k, NEW depth \in Nat, NEW next, next = depth + 1
  PROVE  Sharing(keys, k, next) = Having(Sharing(keys, k, depth), next, k[next])
<1>1. \A i : i \in 1..next <=> i \in 1..depth \/ i = next
  OBVIOUS
<1>2. ASSUME NEW j PROVE Agree(j, k, next) <=> Agree(j, k, depth) /\ j[next] = k[next]
  BY <1>1 DEF Agree
<1>3. \A j : j \in Sharing(keys, k, next) <=> j \in keys /\ Agree(j, k, next)
  BY DEF Sharing, Agree
<1>4. \A j : j \in Sharing(keys, k, depth) <=> j \in keys /\ Agree(j, k, depth)
  BY DEF Sharing, Agree
<1>5. \A j : j \in Having(Sharing(keys, k, depth), next, k[next]) <=>
             j \in Sharing(keys, k, depth) /\ j[next] = k[next]
  BY DEF Having
<1> QED
  BY <1>2, <1>3, <1>4, <1>5

LEMMA SharingLess ==
  ASSUME NEW keys, NEW k, NEW depth \in Nat, NEW next, next = depth + 1
  PROVE  Sharing(keys, k, next) \subseteq Sharing(keys, k, depth)
BY NextSharing DEF Having

\* No two keys agree up to the last nibble.
LEMMA LastIsAlone ==
  ASSUME NEW keys, AreKeys(keys), NEW j \in keys, NEW k \in keys,
         NEW depth, depth >= KeyLength - 1, depth \in Nat, Agree(j, k, depth)
  PROVE  j = k
<1> SUFFICES ASSUME j # k PROVE FALSE
  OBVIOUS
<1>1. PICK i \in 1..KeyLength - 1 : j[i] # k[i]
  BY DEF AreKeys, DifferEarly
<1>2. i \in 1..depth
  BY KeyLengthType
<1> QED
  BY <1>1, <1>2 DEF Agree

\* The keys of a class that is shared are in classes of the next depth.
LEMMA ClassBelow ==
  ASSUME NEW keys, AreKeys(keys), NEW k, NEW depth \in 0..KeyLength - 1,
         NEW S, S = Sharing(keys, k, depth), IsShared(S), NEW next, next = depth + 1
  PROVE  /\ next \in 0..KeyLength - 1
         /\ \A j \in S : /\ j \in keys /\ Having(S, next, j[next]) = Sharing(keys, j, next)
                         /\ j \in Sharing(keys, j, next)
<1>1. KeyLength \in Nat /\ depth \in Nat
  BY KeyLengthType
<1>2. PICK a, b \in S : a # b
  BY DEF IsShared
<1>3. a \in keys /\ b \in keys /\ Sharing(keys, a, depth) = S /\ b \in Sharing(keys, a, depth)
  BY <1>2, SharingOfMember
<1>4. Agree(b, a, depth)
  BY <1>3, SharingOfMember
<1>5. ~(depth >= KeyLength - 1)
  BY <1>1, <1>2, <1>3, <1>4, LastIsAlone
<1>6. next \in 0..KeyLength - 1
  BY <1>1, <1>5
<1>7. ASSUME NEW j \in S
      PROVE  /\ j \in keys /\ Having(S, next, j[next]) = Sharing(keys, j, next)
             /\ j \in Sharing(keys, j, next)
  <2>1. j \in keys /\ Sharing(keys, j, depth) = S
    BY SharingOfMember
  <2>2. Sharing(keys, j, next) = Having(S, next, j[next])
    BY <1>1, <2>1, NextSharing
  <2>3. j \in Sharing(keys, j, next)
    BY <2>1 DEF Sharing
  <2> QED
    BY <2>1, <2>2, <2>3
<1> QED
  BY <1>6, <1>7

\* The classes at depth KeyLength - n and below.
DeepClasses(keys, n) == {p \in Classes(keys) : p[1] >= KeyLength - n}
NodeAt(f, content, p) == NodeOver(f, content, p[1], p[2])

LEMMA ClassIsPlace ==
  ASSUME NEW keys, NEW k \in keys, NEW depth \in 0..KeyLength - 1,
         NEW S, S = Sharing(keys, k, depth), NEW p, p = <<depth, S>>
  PROVE  p \in Classes(keys) /\ p[1] = depth /\ p[2] = S
BY DEF Classes

LEMMA PlaceOfClass ==
  ASSUME NEW keys, NEW p \in Classes(keys)
  PROVE  \E depth \in 0..KeyLength - 1, k \in keys :
           /\ p = <<depth, Sharing(keys, k, depth)>>
           /\ p[1] = depth /\ p[2] = Sharing(keys, k, depth)
BY DEF Classes

SameAt(f, g, keys, depth) ==
  \A j \in keys : LET T == Sharing(keys, j, depth) IN f[<<depth, T>>] = g[<<depth, T>>]

\* The node over a class depends on the nodes at the next depth only.
LEMMA NodeNeedsBelow ==
  ASSUME NEW keys, AreKeys(keys), NEW content, keys = DOMAIN content,
         NEW k \in keys, NEW depth \in 0..KeyLength - 1, NEW S, S = Sharing(keys, k, depth),
         NEW f, NEW g, NEW next, next = depth + 1,
         next \in 0..KeyLength - 1 => SameAt(f, g, keys, next)
  PROVE  NodeOver(f, content, depth, S) = NodeOver(g, content, depth, S)
<1>1. CASE ~IsShared(S)
  BY <1>1 DEF NodeOver
<1>2. CASE IsShared(S)
  <2>1. /\ next \in 0..KeyLength - 1
        /\ \A j \in S : j \in keys /\ Having(S, next, j[next]) = Sharing(keys, j, next)
    BY <1>2, ClassBelow
  <2>2. ASSUME NEW n \in NibblesAt(S, next)
        PROVE  f[<<next, Having(S, next, n)>>] = g[<<next, Having(S, next, n)>>]
    <3>1. PICK j \in S : n = j[next]
      BY DEF NibblesAt
    <3>2. PICK T : T = Sharing(keys, j, next)
      OBVIOUS
    <3>3. f[<<next, T>>] = g[<<next, T>>] /\ Having(S, next, n) = T
      BY <2>1, <3>1, <3>2 DEF SameAt
    <3> QED
      BY <3>3
  <2>3. ChildrenOver(f, next, S) = ChildrenOver(g, next, S)
    BY <2>2 DEF ChildrenOver
  <2> QED
    BY <1>2, <2>3 DEF NodeOver
<1> QED
  BY <1>1, <1>2

LEMMA DeepNodesExist ==
  ASSUME NEW content, NEW keys, keys = DOMAIN content, AreKeys(keys),
         NEW n \in Nat, NEW f, \A p \in DeepClasses(keys, n) : f[p] = NodeAt(f, content, p)
  PROVE  \E g : /\ g = [p \in Classes(keys) |-> g[p]]
                /\ \A p \in DeepClasses(keys, n + 1) : g[p] = NodeAt(g, content, p)
<1> DEFINE g == [p \in Classes(keys) |-> IF p \in DeepClasses(keys, n) THEN f[p] ELSE NodeAt(f, content, p)]
<1>1. \A p \in DeepClasses(keys, n) : g[p] = f[p] /\ g[p] = NodeAt(f, content, p)
  BY DEF DeepClasses
<1>2. \A p \in Classes(keys) : g[p] = NodeAt(f, content, p)
  BY <1>1
<1>3. g = [p \in Classes(keys) |-> g[p]]
  OBVIOUS
<1> HIDE DEF g
<1>4. ASSUME NEW p \in DeepClasses(keys, n + 1) PROVE NodeAt(f, content, p) = NodeAt(g, content, p)
  <2>1. p \in Classes(keys) /\ p[1] >= KeyLength - (n + 1)
    BY DEF DeepClasses
  <2>2. PICK depth \in 0..KeyLength - 1, k \in keys :
          p[1] = depth /\ p[2] = Sharing(keys, k, depth)
    BY <2>1, PlaceOfClass
  <2>3. PICK next, S : next = depth + 1 /\ S = Sharing(keys, k, depth)
    OBVIOUS
  <2>4. ASSUME next \in 0..KeyLength - 1, NEW j \in keys, NEW T, T = Sharing(keys, j, next)
        PROVE  f[<<next, T>>] = g[<<next, T>>]
    <3>1. PICK q : q = <<next, T>>
      OBVIOUS
    <3>2. q \in Classes(keys) /\ q[1] = next
      BY <2>4, <3>1, ClassIsPlace
    <3>3. next >= KeyLength - n
      BY <2>1, <2>2, <2>3, KeyLengthType
    <3>4. q \in DeepClasses(keys, n)
      BY <3>2, <3>3 DEF DeepClasses
    <3> QED
      BY <1>1, <3>1, <3>4
  <2>6. next \in 0..KeyLength - 1 => SameAt(f, g, keys, next)
    BY <2>4 DEF SameAt
  <2>5. NodeOver(f, content, depth, S) = NodeOver(g, content, depth, S)
    BY <2>3, <2>6, NodeNeedsBelow
  <2> QED
    BY <2>2, <2>3, <2>5 DEF NodeAt
<1>5. \A p \in DeepClasses(keys, n + 1) : g[p] = NodeAt(g, content, p)
  BY <1>2, <1>4 DEF DeepClasses
<1> QED
  BY <1>3, <1>5

IsRecursive(f, content) ==
  f = [p \in Classes(DOMAIN content) |-> NodeAt(f, content, p)]

LEMMA NodesExist ==
  ASSUME NEW content, AreKeys(DOMAIN content)
  PROVE  \E f : IsRecursive(f, content)
<1>1. PICK keys : keys = DOMAIN content
  OBVIOUS
<1> DEFINE Exists(n) == \E f : /\ f = [p \in Classes(keys) |-> f[p]]
                               /\ \A p \in DeepClasses(keys, n) : f[p] = NodeAt(f, content, p)
           N == {n \in Nat : Exists(n)}
<1>2. 0 \in N
  <2>1. DeepClasses(keys, 0) = {}
    <3> SUFFICES ASSUME NEW p \in DeepClasses(keys, 0) PROVE FALSE
      OBVIOUS
    <3>1. p \in Classes(keys) /\ p[1] >= KeyLength - 0
      BY DEF DeepClasses
    <3>2. p[1] \in 0..KeyLength - 1
      BY <3>1, PlaceOfClass
    <3> QED
      BY <3>1, <3>2, KeyLengthType
  <2>2. PICK f : f = [p \in Classes(keys) |-> p]
    OBVIOUS
  <2>3. f = [p \in Classes(keys) |-> f[p]]
    BY <2>2
  <2> QED
    BY <2>1, <2>3
<1>3. ASSUME NEW n \in Nat, n \in N PROVE n + 1 \in N
  <2>1. PICK f : \A p \in DeepClasses(keys, n) : f[p] = NodeAt(f, content, p)
    BY <1>3
  <2>2. \E g : /\ g = [p \in Classes(keys) |-> g[p]]
               /\ \A p \in DeepClasses(keys, n + 1) : g[p] = NodeAt(g, content, p)
    BY <1>1, <2>1, DeepNodesExist
  <2> QED
    BY <2>2
<1> HIDE DEF N
<1>4. KeyLength \in N
  BY <1>2, <1>3, InductionOnNumbers, KeyLengthType
<1>5. PICK f : /\ f = [p \in Classes(keys) |-> f[p]]
               /\ \A p \in DeepClasses(keys, KeyLength) : f[p] = NodeAt(f, content, p)
  BY <1>4 DEF N
<1>6. \A p \in Classes(keys) : p \in DeepClasses(keys, KeyLength)
  BY KeyLengthType, PlaceOfClass DEF DeepClasses
<1>7. \A p \in Classes(keys) : f[p] = NodeAt(f, content, p)
  BY <1>5, <1>6
<1>8. [p \in Classes(keys) |-> f[p]] = [p \in Classes(keys) |-> NodeAt(f, content, p)]
  BY <1>7
<1> QED
  BY <1>1, <1>5, <1>8 DEF IsRecursive

IsNodesFor(f, content) ==
  f = [p \in Classes(DOMAIN content) |->
        LET depth == p[1]
            keys == p[2] IN
          IF IsShared(keys)
          THEN Standard([n \in NibblesAt(keys, depth + 1) |->
                           f[<<depth + 1, Having(keys, depth + 1, n)>>]])
          ELSE LET k == CHOOSE k \in keys : TRUE IN Leaf(Trailing(depth, k), content[k])]

LEMMA NodesForEffect ==
  ASSUME NEW content, AreKeys(DOMAIN content), NEW f, f = NodesFor(content)
  PROVE  AreNodes(f, content)
<1>1. ASSUME NEW g PROVE IsNodesFor(g, content) <=> IsRecursive(g, content)
  BY DEF IsNodesFor, IsRecursive, NodeAt, NodeOver, ChildrenOver, LeafOf
<1>2. \E g : IsNodesFor(g, content)
  BY <1>1, NodesExist
<1>3. f = CHOOSE g : IsNodesFor(g, content)
  BY DEF NodesFor, IsNodesFor
<1>4. IsRecursive(f, content)
  BY <1>1, <1>2, <1>3
<1>5. \A p \in Classes(DOMAIN content) : f[p] = NodeAt(f, content, p)
  BY <1>4 DEF IsRecursive
<1>6. ASSUME NEW depth \in 0..KeyLength - 1, NEW k \in DOMAIN content,
             NEW keys, keys = Sharing(DOMAIN content, k, depth)
      PROVE  f[<<depth, keys>>] = NodeOver(f, content, depth, keys)
  <2>1. PICK p : p = <<depth, keys>>
    OBVIOUS
  <2>2. p \in Classes(DOMAIN content) /\ p[1] = depth /\ p[2] = keys
    BY <1>6, <2>1, ClassIsPlace
  <2> QED
    BY <1>5, <2>1, <2>2 DEF NodeAt
<1> QED
  BY <1>6 DEF AreNodes

LEMMA NodeOfClass ==
  ASSUME NEW content, NEW f, AreNodes(f, content), NEW k \in DOMAIN content,
         NEW depth \in 0..KeyLength - 1, NEW S, S = Sharing(DOMAIN content, k, depth),
         NEW a, a = f[<<depth, S>>], NEW next, next = depth + 1
  PROVE  /\ IsShared(S) => a = Standard(ChildrenOver(f, next, S))
         /\ \A j : S = {j} => a = LeafOf(content, depth, j)
<1>1. a = NodeOver(f, content, depth, S)
  BY DEF AreNodes
<1>2. ASSUME IsShared(S) PROVE a = Standard(ChildrenOver(f, next, S))
  BY <1>1, <1>2 DEF NodeOver
<1>3. ASSUME NEW j, S = {j} PROVE a = LeafOf(content, depth, j)
  <2>1. ~IsShared(S) /\ (CHOOSE i \in S : TRUE) = j
    BY <1>3 DEF IsShared
  <2> QED
    BY <1>1, <2>1 DEF NodeOver
<1> QED
  BY <1>2, <1>3

\* A class is shared, or it is one key.
LEMMA SharedOrNot ==
  ASSUME NEW S, NEW k \in S
  PROVE  IsShared(S) \/ (S = {k} /\ ~IsShared(S))
BY DEF IsShared

\* What a value says of the key that has it, in two contents.
Distinct(c, d) == \A j \in DOMAIN c, k \in DOMAIN d : c[j] = d[k] => j = k
SameContent(c, d, keys) == \A j \in keys : j \in DOMAIN c /\ j \in DOMAIN d /\ c[j] = d[j]

\* The classes at a depth that have the same keys with the same values have the same node.
SameNodesAt(f, c, g, d, depth) ==
  \A j \in DOMAIN c :
    LET S == Sharing(DOMAIN c, j, depth) IN
      j \in DOMAIN d /\ S = Sharing(DOMAIN d, j, depth) /\ SameContent(c, d, S)
        => f[<<depth, S>>] = g[<<depth, S>>]

LEMMA SameNodesAbove ==
  ASSUME NEW c, NEW d, AreKeys(DOMAIN c), AreKeys(DOMAIN d), NEW f, NEW g,
         AreNodes(f, c), AreNodes(g, d), NEW depth \in 0..KeyLength - 1, NEW next, next = depth + 1,
         next \in 0..KeyLength - 1 => SameNodesAt(f, c, g, d, next)
  PROVE  SameNodesAt(f, c, g, d, depth)
<1> SUFFICES ASSUME NEW j \in DOMAIN c, NEW S, S = Sharing(DOMAIN c, j, depth), j \in DOMAIN d,
                    S = Sharing(DOMAIN d, j, depth), SameContent(c, d, S)
             PROVE  f[<<depth, S>>] = g[<<depth, S>>]
  BY DEF SameNodesAt
<1>1. PICK a, b : a = f[<<depth, S>>] /\ b = g[<<depth, S>>]
  OBVIOUS
<1>2. /\ IsShared(S) => a = Standard(ChildrenOver(f, next, S))
      /\ \A i : S = {i} => a = LeafOf(c, depth, i)
  BY <1>1, NodeOfClass
<1>3. /\ IsShared(S) => b = Standard(ChildrenOver(g, next, S))
      /\ \A i : S = {i} => b = LeafOf(d, depth, i)
  BY <1>1, NodeOfClass
<1>4. j \in S
  BY DEF Sharing
<1>5. CASE S = {j}
  <2>1. c[j] = d[j]
    BY <1>4 DEF SameContent
  <2> QED
    BY <1>1, <1>2, <1>3, <1>5, <2>1 DEF LeafOf
<1>6. CASE IsShared(S)
  <2>1. /\ next \in 0..KeyLength - 1
        /\ \A i \in S : i \in DOMAIN c /\ Having(S, next, i[next]) = Sharing(DOMAIN c, i, next)
    BY <1>6, ClassBelow
  <2>2. \A i \in S : i \in DOMAIN d /\ Having(S, next, i[next]) = Sharing(DOMAIN d, i, next)
    BY <1>6, ClassBelow
  <2>3. ASSUME NEW n \in NibblesAt(S, next), NEW T, T = Having(S, next, n)
        PROVE  f[<<next, T>>] = g[<<next, T>>]
    <3>1. PICK i \in S : n = i[next]
      BY DEF NibblesAt
    <3>2. i \in DOMAIN c /\ i \in DOMAIN d /\ T = Sharing(DOMAIN c, i, next) /\ T = Sharing(DOMAIN d, i, next)
      BY <2>1, <2>2, <2>3, <3>1
    <3>3. SameContent(c, d, T)
      BY <2>3 DEF SameContent, Having
    <3> QED
      BY <2>1, <3>2, <3>3 DEF SameNodesAt
  <2>4. ChildrenOver(f, next, S) = ChildrenOver(g, next, S)
    BY <2>3 DEF ChildrenOver
  <2> QED
    BY <1>1, <1>2, <1>3, <1>6, <2>4
<1> QED
  BY <1>4, <1>5, <1>6, SharedOrNot

LEMMA SameNodesEverywhere ==
  ASSUME NEW c, NEW d, AreKeys(DOMAIN c), AreKeys(DOMAIN d), NEW f, NEW g,
         AreNodes(f, c), AreNodes(g, d), NEW depth \in 0..KeyLength - 1
  PROVE  SameNodesAt(f, c, g, d, depth)
<1> DEFINE N == {n \in Nat : \A e \in 0..KeyLength - 1 : e >= KeyLength - n => SameNodesAt(f, c, g, d, e)}
<1>1. 0 \in N
  BY KeyLengthType
<1>2. ASSUME NEW n \in Nat, n \in N PROVE n + 1 \in N
  <2> SUFFICES ASSUME NEW e \in 0..KeyLength - 1, e >= KeyLength - (n + 1) PROVE SameNodesAt(f, c, g, d, e)
    OBVIOUS
  <2>1. PICK next : next = e + 1
    OBVIOUS
  <2>2. next \in 0..KeyLength - 1 => SameNodesAt(f, c, g, d, next)
    <3>1. next >= KeyLength - n
      BY <2>1, KeyLengthType
    <3> QED
      BY <1>2, <3>1
  <2> QED
    BY <2>1, <2>2, SameNodesAbove
<1> HIDE DEF N
<1>3. KeyLength \in N
  BY <1>1, <1>2, InductionOnNumbers, KeyLengthType
<1> QED
  BY <1>3, KeyLengthType DEF N

\* The same node at two places, maybe of two contents: it is one place, with the same
\* keys and values below.
SamePlaceAt(f, c, g, d, depth) ==
  \A e \in 0..KeyLength - 1, j \in DOMAIN c, k \in DOMAIN d :
    LET S == Sharing(DOMAIN c, j, depth)
        T == Sharing(DOMAIN d, k, e) IN
      f[<<depth, S>>] = g[<<e, T>>] => depth = e /\ S = T /\ SameContent(c, d, S)

LEMMA SameLeaf ==
  ASSUME NEW c, NEW d, Distinct(c, d), NEW j \in DOMAIN c, NEW k \in DOMAIN d, IsKey(j),
         NEW depth \in 0..KeyLength - 1, NEW e \in 0..KeyLength - 1,
         LeafOf(c, depth, j) = LeafOf(d, e, k)
  PROVE  depth = e /\ j = k /\ c[j] = d[k]
<1>1. PICK a, b, t, u, x, y : /\ a = Leaf(t, x) /\ t = Trailing(depth, j) /\ x = c[j]
                              /\ b = Leaf(u, y) /\ u = Trailing(e, k) /\ y = d[k]
  OBVIOUS
<1>2. a = b
  BY <1>1 DEF LeafOf
<1>3. t = u /\ x = y
  <2>1. a = Leaf(t, x)
    BY <1>1
  <2>2. a.path = t /\ a.value = x
    BY <2>1, LeafFields
  <2>3. b = Leaf(u, y)
    BY <1>1
  <2>4. b.path = u /\ b.value = y
    BY <2>3, LeafFields
  <2> QED
    BY <1>2, <2>2, <2>4
<1>4. j = k
  BY <1>1, <1>3 DEF Distinct
<1>5. depth = e
  BY <1>1, <1>3, <1>4, TrailingDepth
<1> QED
  BY <1>1, <1>3, <1>4, <1>5

LEMMA SamePlaceAbove ==
  ASSUME NEW c, NEW d, AreKeys(DOMAIN c), AreKeys(DOMAIN d), Distinct(c, d), NEW f, NEW g,
         AreNodes(f, c), AreNodes(g, d), NEW depth \in 0..KeyLength - 1, NEW next, next = depth + 1,
         next \in 0..KeyLength - 1 => SamePlaceAt(f, c, g, d, next)
  PROVE  SamePlaceAt(f, c, g, d, depth)
<1> SUFFICES ASSUME NEW e \in 0..KeyLength - 1, NEW j \in DOMAIN c, NEW k \in DOMAIN d,
                    NEW S, S = Sharing(DOMAIN c, j, depth), NEW T, T = Sharing(DOMAIN d, k, e),
                    f[<<depth, S>>] = g[<<e, T>>]
             PROVE  depth = e /\ S = T /\ SameContent(c, d, S)
  BY DEF SamePlaceAt
<1>1. PICK a, over : a = f[<<depth, S>>] /\ a = g[<<e, T>>] /\ over = e + 1
  OBVIOUS
<1>2. /\ IsShared(S) => a = Standard(ChildrenOver(f, next, S))
      /\ \A i : S = {i} => a = LeafOf(c, depth, i)
  BY <1>1, NodeOfClass
<1>3. /\ IsShared(T) => a = Standard(ChildrenOver(g, over, T))
      /\ \A i : T = {i} => a = LeafOf(d, e, i)
  BY <1>1, NodeOfClass
<1>4. j \in S /\ k \in T
  BY DEF Sharing
<1>5. IsKey(j)
  BY DEF AreKeys
<1>6. CASE S = {j} /\ T = {k}
  <2>1. LeafOf(c, depth, j) = LeafOf(d, e, k)
    BY <1>2, <1>3, <1>6
  <2>2. depth = e /\ j = k /\ c[j] = d[k]
    BY <1>5, <2>1, SameLeaf
  <2> QED
    BY <1>6, <2>2 DEF SameContent
<1>7. ASSUME NEW h, a = Standard(h), NEW i, NEW v, NEW n, a = LeafOf(v, n, i) PROVE FALSE
  <2>1. IsStandard(a)
    BY <1>7, StandardFields
  <2>2. PICK t, x : t = Trailing(n, i) /\ x = v[i]
    OBVIOUS
  <2>3. a = Leaf(t, x)
    BY <1>7, <2>2 DEF LeafOf
  <2>4. ~IsStandard(a)
    BY <2>3, LeafFields
  <2> QED
    BY <2>1, <2>4
<1>8. CASE IsShared(S) /\ IsShared(T)
  <2>1. PICK p, q : /\ p = ChildrenOver(f, next, S) /\ q = ChildrenOver(g, over, T)
                    /\ a = Standard(p) /\ a = Standard(q)
    BY <1>2, <1>3, <1>8
  <2>2. p = q
    BY <2>1, StandardFields
  <2>3. /\ DOMAIN p = NibblesAt(S, next)
        /\ \A n \in NibblesAt(S, next) : p[n] = f[<<next, Having(S, next, n)>>]
    BY <2>1 DEF ChildrenOver
  <2>4. /\ DOMAIN q = NibblesAt(T, over)
        /\ \A n \in NibblesAt(T, over) : q[n] = g[<<over, Having(T, over, n)>>]
    BY <2>1 DEF ChildrenOver
  <2>5. /\ next \in 0..KeyLength - 1
        /\ \A i \in S : i \in DOMAIN c /\ Having(S, next, i[next]) = Sharing(DOMAIN c, i, next)
                        /\ i \in Sharing(DOMAIN c, i, next)
    BY <1>8, ClassBelow
  <2>6. /\ over \in 0..KeyLength - 1
        /\ \A i \in T : i \in DOMAIN d /\ Having(T, over, i[over]) = Sharing(DOMAIN d, i, over)
                        /\ i \in Sharing(DOMAIN d, i, over)
    BY <1>1, <1>8, ClassBelow
  <2>7. ASSUME NEW n \in DOMAIN p
        PROVE  /\ next = over /\ Having(S, next, n) = Having(T, over, n)
               /\ SameContent(c, d, Having(S, next, n))
    <3>1. PICK x \in S : x[next] = n
      BY <2>3, <2>7 DEF NibblesAt
    <3>2. PICK y \in T : y[over] = n
      BY <2>2, <2>4, <2>7 DEF NibblesAt
    <3>3. PICK U, V : U = Having(S, next, n) /\ V = Having(T, over, n)
      OBVIOUS
    <3>4. U = Sharing(DOMAIN c, x, next) /\ x \in DOMAIN c
      BY <2>5, <3>1, <3>3
    <3>5. V = Sharing(DOMAIN d, y, over) /\ y \in DOMAIN d
      BY <2>6, <3>2, <3>3
    <3>6. f[<<next, U>>] = g[<<over, V>>]
      BY <2>2, <2>3, <2>4, <2>7, <3>3
    <3>7. next = over /\ U = V /\ SameContent(c, d, U)
      BY <2>5, <2>6, <3>4, <3>5, <3>6 DEF SamePlaceAt
    <3> QED
      BY <3>3, <3>7
  <2>8. ASSUME NEW x \in S PROVE next = over /\ x \in T /\ x \in DOMAIN c /\ x \in DOMAIN d /\ c[x] = d[x]
    <3>1. PICK n, U : n = x[next] /\ U = Having(S, next, n)
      OBVIOUS
    <3>2. n \in DOMAIN p /\ x \in U
      BY <2>3, <3>1 DEF NibblesAt, Having
    <3>3. next = over /\ U = Having(T, over, n) /\ SameContent(c, d, U)
      BY <2>7, <3>1, <3>2
    <3>4. x \in T
      BY <3>2, <3>3 DEF Having
    <3> QED
      BY <3>2, <3>3, <3>4 DEF SameContent
  <2>9. ASSUME NEW y \in T PROVE y \in S
    <3>1. PICK n : n = y[over]
      OBVIOUS
    <3>2. n \in DOMAIN p /\ y \in Having(T, over, n)
      BY <2>2, <2>4, <3>1 DEF NibblesAt, Having
    <3>3. y \in Having(S, next, n)
      BY <2>7, <3>2
    <3> QED
      BY <3>3 DEF Having
  <2>10. S = T /\ next = over
    BY <1>4, <2>8, <2>9
  <2>11. depth = e
    BY <1>1, <2>10, KeyLengthType
  <2> QED
    BY <2>8, <2>10, <2>11 DEF SameContent
<1>9. (IsShared(S) \/ S = {j}) /\ (IsShared(T) \/ T = {k})
  BY <1>4, SharedOrNot
<1> QED
  BY <1>2, <1>3, <1>6, <1>7, <1>8, <1>9

LEMMA SamePlace ==
  ASSUME NEW c, NEW d, AreKeys(DOMAIN c), AreKeys(DOMAIN d), Distinct(c, d), NEW f, NEW g,
         AreNodes(f, c), AreNodes(g, d), NEW depth \in 0..KeyLength - 1
  PROVE  SamePlaceAt(f, c, g, d, depth)
<1> DEFINE N == {n \in Nat : \A e \in 0..KeyLength - 1 : e >= KeyLength - n => SamePlaceAt(f, c, g, d, e)}
<1>1. 0 \in N
  BY KeyLengthType
<1>2. ASSUME NEW n \in Nat, n \in N PROVE n + 1 \in N
  <2> SUFFICES ASSUME NEW e \in 0..KeyLength - 1, e >= KeyLength - (n + 1) PROVE SamePlaceAt(f, c, g, d, e)
    OBVIOUS
  <2>1. PICK next : next = e + 1
    OBVIOUS
  <2>2. next \in 0..KeyLength - 1 => SamePlaceAt(f, c, g, d, next)
    <3>1. next >= KeyLength - n
      BY <2>1, KeyLengthType
    <3> QED
      BY <1>2, <3>1
  <2> QED
    BY <2>1, <2>2, SamePlaceAbove
<1> HIDE DEF N
<1>3. KeyLength \in N
  BY <1>1, <1>2, InductionOnNumbers, KeyLengthType
<1> QED
  BY <1>3, KeyLengthType DEF N
------------------------------------------------------------------------------
(* The path of a key *)

\* The children of the node over a class, also if that is still a leaf.
LEMMA ChildrenEffect ==
  ASSUME NEW content, AreKeys(DOMAIN content), NEW f, AreNodes(f, content), NEW k \in DOMAIN content,
         NEW depth \in 0..KeyLength - 1, NEW S, S = Sharing(DOMAIN content, k, depth),
         NEW next, next = depth + 1, next \in 0..KeyLength - 1, NEW a, a = f[<<depth, S>>]
  PROVE  Children(depth, a) = ChildrenOver(f, next, S)
<1>1. /\ IsShared(S) => a = Standard(ChildrenOver(f, next, S))
      /\ \A j : S = {j} => a = LeafOf(content, depth, j)
  BY NodeOfClass
<1>2. k \in S
  BY DEF Sharing
<1>3. CASE IsShared(S)
  <2>1. PICK h : h = ChildrenOver(f, next, S)
    OBVIOUS
  <2>2. IsStandard(a) /\ a.child = h
    BY <1>1, <1>3, <2>1, StandardFields
  <2> QED
    BY <2>1, <2>2 DEF Children
<1>4. CASE S = {k}
  <2>1. PICK t, x, b, u : t = Trailing(depth, k) /\ x = content[k] /\ u = Trailing(next, k) /\ b = Leaf(u, x)
    OBVIOUS
  <2>2. a = Leaf(t, x)
    BY <1>1, <1>4, <2>1 DEF LeafOf
  <2>3. ~IsStandard(a)
    BY <2>2, LeafFields
  <2>4. IsKey(k) /\ depth \in Nat /\ KeyLength \in Nat
    BY KeyLengthType DEF AreKeys
  <2>5. PushedDown(depth, a) = b
    BY <2>1, <2>2, <2>4, PushedDownEffect
  <2>6. PICK s : s = Remaining(depth, a)
    OBVIOUS
  <2>7. IsRest(s, k, depth)
    BY <2>1, <2>2, <2>4, <2>6, RemainingEffect
  <2>8. Head(s) = k[next]
    <3>1. 1 \in 1..KeyLength - depth
      BY <2>4
    <3>2. s[1] = k[depth + 1]
      BY <2>7, <3>1 DEF IsRest
    <3> QED
      BY <2>4, <2>7, <3>1, <3>2 DEF IsRest
  <2>9. Children(depth, a) = [n \in {k[next]} |-> b]
    BY <2>3, <2>5, <2>6, <2>8 DEF Children
  <2>10. NibblesAt(S, next) = {k[next]} /\ Having(S, next, k[next]) = S
    BY <1>4 DEF NibblesAt, Having
  <2>11. Sharing(DOMAIN content, k, next) = S
    BY <2>4, <2>10, NextSharing
  <2>12. f[<<next, S>>] = b
    <3>1. f[<<next, S>>] = LeafOf(content, next, k)
      BY <1>4, <2>11, NodeOfClass
    <3> QED
      BY <2>1, <3>1 DEF LeafOf
  <2>13. \A n \in {k[next]} : f[<<next, Having(S, next, n)>>] = b
    BY <2>10, <2>12
  <2>14. ChildrenOver(f, next, S) = [n \in {k[next]} |-> b]
    BY <2>10, <2>13 DEF ChildrenOver
  <2> QED
    BY <2>9, <2>14
<1> QED
  BY <1>2, <1>3, <1>4, SharedOrNot

\* The node of a tree at a depth on the path of a key, which may be missing in it.
OnPath(f, keys, key, depth) == f[<<depth, Sharing(keys, key, depth)>>]

\* The path ends at a depth: the key is alone there, or it is missing below.
Ends(keys, key, depth) == Sharing(keys, key, depth) = {key} \/ Sharing(keys, key, depth + 1) = {}

IsPath(path, f, keys, key, n) ==
  /\ n \in 1..KeyLength
  /\ path = [i \in 1..n |-> OnPath(f, keys, key, i - 1)]
  /\ \A d \in 0..n - 1 : Sharing(keys, key, d) # {}
  /\ \A d \in 0..n - 2 : ~Ends(keys, key, d)

LEMMA PathLength ==
  ASSUME NEW path, NEW f, NEW keys, NEW key, NEW n, IsPath(path, f, keys, key, n)
  PROVE  /\ n \in Nat /\ n >= 1 /\ n <= KeyLength /\ Len(path) = n
         /\ \A i \in 1..n : path[i] = OnPath(f, keys, key, i - 1)
<1>1. n \in Nat /\ n >= 1 /\ n <= KeyLength
  BY KeyLengthType DEF IsPath
<1>2. PICK S : S = {OnPath(f, keys, key, i - 1) : i \in 1..n}
  OBVIOUS
<1>3. path = [i \in 1..n |-> OnPath(f, keys, key, i - 1)]
  BY DEF IsPath
<1>4. path \in [1..n -> S]
  BY <1>2, <1>3
<1>5. Len(path) = n
  BY <1>1, <1>4
<1>6. \A i \in 1..n : path[i] = OnPath(f, keys, key, i - 1)
  BY <1>3
<1> QED
  BY <1>1, <1>5, <1>6

\* The node on the path of a key, whether it is a leaf and whether that is its own.
LEMMA NodeOnPath ==
  ASSUME NEW content, NEW keys, keys = DOMAIN content, NEW key, AreKeys(keys \cup {key}),
         NEW f, AreNodes(f, content), NEW depth \in 0..KeyLength - 1,
         NEW S, S = Sharing(keys, key, depth), S # {}, NEW a, a = OnPath(f, keys, key, depth)
  PROVE  /\ IsShared(S) => IsStandard(a)
         /\ ~IsShared(S) => ~IsStandard(a) /\ \E j \in keys : S = {j} /\ a = LeafOf(content, depth, j)
         /\ ~IsStandard(a) /\ HoldsKey(depth, a, key) <=> S = {key}
<1>1. PICK k \in S : TRUE
  OBVIOUS
<1>2. k \in keys /\ S = Sharing(keys, k, depth) /\ Agree(k, key, depth)
  BY <1>1, SharingOfMember
<1>3. a = f[<<depth, S>>]
  BY DEF OnPath
<1>4. PICK next : next = depth + 1
  OBVIOUS
<1>5. /\ IsShared(S) => a = Standard(ChildrenOver(f, next, S))
      /\ \A j : S = {j} => a = LeafOf(content, depth, j)
  BY <1>2, <1>3, <1>4, NodeOfClass
<1>6. CASE IsShared(S)
  <2>1. PICK h : h = ChildrenOver(f, next, S)
    OBVIOUS
  <2>2. IsStandard(a)
    BY <1>5, <1>6, <2>1, StandardFields
  <2>3. S # {key}
    BY <1>6 DEF IsShared
  <2> QED
    BY <1>6, <2>2, <2>3
<1>7. CASE S = {k} /\ ~IsShared(S)
  <2>1. PICK t, x : t = Trailing(depth, k) /\ x = content[k]
    OBVIOUS
  <2>2. a = LeafOf(content, depth, k) /\ a = Leaf(t, x)
    BY <1>5, <1>7, <2>1 DEF LeafOf
  <2>3. ~IsStandard(a)
    BY <2>2, LeafFields
  <2>4. IsKey(k) /\ IsKey(key)
    BY <1>2 DEF AreKeys
  <2>5. HoldsKey(depth, a, key) <=> k = key
    BY <1>2, <2>1, <2>2, <2>4, HoldsKeyEffect
  <2> QED
    BY <1>2, <1>7, <2>2, <2>3, <2>5
<1> QED
  BY <1>6, <1>7, SharedOrNot

LEMMA PathExtended ==
  ASSUME NEW path, NEW f, NEW keys, NEW key, NEW n, IsPath(path, f, keys, key, n), n < KeyLength,
         Sharing(keys, key, n) # {}, ~Ends(keys, key, n - 1),
         NEW a, a = OnPath(f, keys, key, n), NEW longer, longer = Append(path, a),
         NEW next, next = n + 1
  PROVE  IsPath(longer, f, keys, key, next)
<1>1. n \in Nat /\ n >= 1 /\ Len(path) = n /\ \A i \in 1..n : path[i] = OnPath(f, keys, key, i - 1)
  BY PathLength
<1>2. path = [i \in 1..n |-> OnPath(f, keys, key, i - 1)]
  BY DEF IsPath
<1>3. PICK S : S = {OnPath(f, keys, key, i - 1) : i \in 1..n}
  OBVIOUS
<1>4. path \in [1..n -> S]
  BY <1>2, <1>3
<1>5. path \in Seq(S)
  BY <1>1, <1>4
<1>6. longer = OneMore(path, n, a)
  BY <1>1, <1>5, AppendedElement
<1>7. \A i \in 1..next : (IF i <= n THEN path[i] ELSE a) = OnPath(f, keys, key, i - 1)
  <2> SUFFICES ASSUME NEW i \in 1..next PROVE (IF i <= n THEN path[i] ELSE a) = OnPath(f, keys, key, i - 1)
    OBVIOUS
  <2>1. CASE i <= n
    <3>1. i \in 1..n
      BY <1>1, <2>1
    <3> QED
      BY <1>1, <2>1, <3>1
  <2>2. CASE ~(i <= n)
    <3>1. i - 1 = n
      BY <1>1, <2>2
    <3> QED
      BY <2>2, <3>1
  <2> QED
    BY <2>1, <2>2
<1>8. longer = [i \in 1..next |-> OnPath(f, keys, key, i - 1)]
  BY <1>6, <1>7 DEF OneMore
<1>9. next \in 1..KeyLength
  BY <1>1, KeyLengthType
<1>10. ASSUME NEW d \in 0..next - 1 PROVE Sharing(keys, key, d) # {}
  <2>1. d \in 0..n - 1 \/ d = n
    BY <1>1
  <2>2. \A e \in 0..n - 1 : Sharing(keys, key, e) # {}
    BY DEF IsPath
  <2> QED
    BY <2>1, <2>2
<1>11. ASSUME NEW d \in 0..next - 2 PROVE ~Ends(keys, key, d)
  <2>1. d \in 0..n - 2 \/ d = n - 1
    BY <1>1
  <2>2. \A e \in 0..n - 2 : ~Ends(keys, key, e)
    BY DEF IsPath
  <2> QED
    BY <2>1, <2>2
<1> QED
  BY <1>8, <1>9, <1>10, <1>11 DEF IsPath

\* A path that has ended, or goes on by one node.
IsExtended(path, longer, f, keys, key, n, next) ==
  \/ Ends(keys, key, n - 1) /\ longer = path
  \/ ~Ends(keys, key, n - 1) /\ IsPath(longer, f, keys, key, next)

LEMMA ExtendEffect ==
  ASSUME NEW content, NEW keys, keys = DOMAIN content, NEW key, AreKeys(keys \cup {key}),
         NEW f, AreNodes(f, content), NEW path, NEW n, IsPath(path, f, keys, key, n), n < KeyLength,
         NEW longer, longer = Extend(path, key), NEW next, next = n + 1
  PROVE  IsExtended(path, longer, f, keys, key, n, next)
<1>1. /\ n \in Nat /\ n >= 1 /\ Len(path) = n
      /\ \A i \in 1..n : path[i] = OnPath(f, keys, key, i - 1)
  BY PathLength
<1>2. PICK depth, a, x : depth = n - 1 /\ a = path[n] /\ x = key[n]
  OBVIOUS
<1>3. /\ depth \in 0..KeyLength - 1 /\ n \in 0..KeyLength - 1 /\ depth + 1 = n /\ n \in 1..n
      /\ a = OnPath(f, keys, key, depth)
  BY <1>1, <1>2, KeyLengthType
<1>4. PICK S : S = Sharing(keys, key, depth)
  OBVIOUS
<1>5. S # {}
  BY <1>2, <1>3, <1>4 DEF IsPath
<1>6. ~IsStandard(a) /\ HoldsKey(depth, a, key) <=> S = {key}
  BY <1>3, <1>4, <1>5, NodeOnPath
<1>7. PICK k \in S : TRUE
  BY <1>5
<1>8. k \in keys /\ S = Sharing(keys, k, depth)
  BY <1>4, <1>7, SharingOfMember
<1>9. AreKeys(keys)
  BY DEF AreKeys
<1>10. a = f[<<depth, S>>]
  BY <1>3, <1>4 DEF OnPath
<1>11. PICK h : h = Children(depth, a)
  OBVIOUS
<1>12. h = ChildrenOver(f, n, S)
  BY <1>3, <1>8, <1>9, <1>10, <1>11, ChildrenEffect
<1>13. Sharing(keys, key, n) = Having(S, n, x)
  <2>1. depth \in Nat
    BY <1>3
  <2> QED
    BY <1>2, <1>3, <1>4, <2>1, NextSharing
<1>14. DOMAIN h = NibblesAt(S, n) /\ (x \in DOMAIN h => h[x] = OnPath(f, keys, key, n))
  BY <1>12, <1>13 DEF ChildrenOver, OnPath
<1>15. x \in DOMAIN h <=> Sharing(keys, key, n) # {}
  BY <1>13, <1>14 DEF NibblesAt, Having
<1>16. Ends(keys, key, n - 1) <=> S = {key} \/ Sharing(keys, key, n) = {}
  <2>1. n - 1 = depth /\ depth + 1 = n
    BY <1>2, <1>3
  <2> QED
    BY <1>4, <2>1 DEF Ends
<1>17. longer = IF S = {key} THEN path ELSE IF x \notin DOMAIN h THEN path ELSE Append(path, h[x])
  <2>1. Len(path) = n /\ n - 1 = depth /\ depth + 1 = n
    BY <1>1, <1>2, <1>3
  <2>2. longer = IF ~IsStandard(a) /\ HoldsKey(depth, a, key) THEN path
                 ELSE IF x \notin DOMAIN h THEN path ELSE Append(path, h[x])
    BY <1>2, <1>11, <2>1 DEF Extend
  <2> QED
    BY <1>6, <2>2
<1>18. CASE Ends(keys, key, n - 1)
  BY <1>15, <1>16, <1>17, <1>18 DEF IsExtended
<1>19. CASE ~Ends(keys, key, n - 1)
  <2>1. Sharing(keys, key, n) # {} /\ longer = Append(path, h[x]) /\ h[x] = OnPath(f, keys, key, n)
    BY <1>14, <1>15, <1>16, <1>17, <1>19
  <2>2. IsPath(longer, f, keys, key, next)
    BY <1>19, <2>1, PathExtended
  <2> QED
    BY <1>19, <2>2 DEF IsExtended
<1> QED
  BY <1>18, <1>19

PathLoop(key) == [over |-> "path", ordered |-> TRUE, key |-> key]

LEMMA PathSteps ==
  ASSUME NEW key
  PROVE  /\ \A acc, x : StepOf(PathLoop(key), acc, x) = IF Len(acc) = x THEN Extend(acc, key) ELSE acc
         /\ \A s : Picked(PathLoop(key), s) = Max(s)
         /\ PathLoop(key).ordered
<1>1. PICK loop : loop = PathLoop(key)
  OBVIOUS
<1>2. loop.over = "path" /\ loop.ordered /\ loop.key = key
  BY <1>1 DEF PathLoop
<1>3. \A acc, x : StepOf(loop, acc, x) = IF Len(acc) = x THEN Extend(acc, key) ELSE acc
  BY <1>2 DEF StepOf
<1> QED
  BY <1>1, <1>2, <1>3 DEF Picked

IsPathFold(h, key, base, n) ==
  h = [s \in SUBSET DOMAIN [i \in 1..n |-> i] |->
         IF s = {} THEN base
         ELSE LET i == Max(s) IN
                IF Len(h[s \ {i}]) = [j \in 1..n |-> j][i] THEN Extend(h[s \ {i}], key)
                ELSE h[s \ {i}]]

\* The path after each depth.
IsPathRun(r, root, key, n) ==
  /\ r[0] = <<RootNode(root)>>
  /\ \A i \in 1..n : r[i] = IF Len(r[i - 1]) = i THEN Extend(r[i - 1], key) ELSE r[i - 1]

LEMMA PathRun ==
  ASSUME NEW root, NEW key, NEW n, n = KeyLength - 1
  PROVE  \E r : IsPathRun(r, root, key, n) /\ r[n] = PathTo(root, key)
<1>1. PICK loop, base : loop = PathLoop(key) /\ base = <<RootNode(root)>>
  OBVIOUS
<1>2. /\ loop.ordered /\ \A s : Picked(loop, s) = Max(s)
      /\ \A acc, x : StepOf(loop, acc, x) = IF Len(acc) = x THEN Extend(acc, key) ELSE acc
  BY <1>1, PathSteps
<1>n. n \in Nat
  BY KeyLengthType
<1>3. PICK h : IsFoldOf(h, loop, base, 1..n)
  BY <1>2, <1>n, PositionsFoldExists
<1>4. DOMAIN [i \in 1..n |-> i] = 1..n /\ \A i \in 1..n : [j \in 1..n |-> j][i] = i
  OBVIOUS
<1>5. ASSUME NEW g PROVE IsFoldOf(g, loop, base, 1..n) <=> IsPathFold(g, key, base, n)
  <2> DEFINE A(s) == IF s = {} THEN base
                     ELSE StepOf(loop, g[s \ {Picked(loop, s)}], Picked(loop, s))
             B(s) == IF s = {} THEN base
                     ELSE LET i == Max(s) IN
                            IF Len(g[s \ {i}]) = [j \in 1..n |-> j][i] THEN Extend(g[s \ {i}], key)
                            ELSE g[s \ {i}]
  <2>1. ASSUME NEW s \in SUBSET (1..n) PROVE A(s) = B(s)
    <3>1. CASE s = {}
      BY <3>1
    <3>2. CASE s # {}
      <4>1. PICK i, b : i = Max(s) /\ b = g[s \ {i}]
        OBVIOUS
      <4>2. i \in 1..n
        BY <1>n, <3>2, <4>1, MaxOfPositions
      <4>3. [j \in 1..n |-> j][i] = i
        BY <4>2
      <4>4. A(s) = IF Len(b) = i THEN Extend(b, key) ELSE b
        <5>1. Picked(loop, s) = i
          BY <1>2, <4>1
        <5>2. A(s) = StepOf(loop, b, i)
          BY <3>2, <4>1, <5>1
        <5>3. StepOf(loop, b, i) = IF Len(b) = i THEN Extend(b, key) ELSE b
          BY <1>2
        <5> QED
          BY <5>2, <5>3
      <4>5. B(s) = IF Len(b) = i THEN Extend(b, key) ELSE b
        BY <3>2, <4>1, <4>3
      <4> QED
        BY <4>4, <4>5
    <3> QED
      BY <3>1, <3>2
  <2> HIDE DEF A, B
  <2>2. [s \in SUBSET (1..n) |-> A(s)] = [s \in SUBSET (1..n) |-> B(s)]
    BY <2>1
  <2> QED
    BY <1>4, <2>2 DEF IsFoldOf, IsPathFold, A, B
<1> DEFINE k == CHOOSE g : IsPathFold(g, key, base, n)
<1>6. IsFoldOf(k, loop, base, 1..n)
  BY <1>3, <1>5
<1>7. PathTo(root, key) = k[DOMAIN [i \in 1..n |-> i]]
  BY <1>1 DEF PathTo, FoldLeft, MapThenFoldSet, IsPathFold
<1> HIDE DEF k
<1>8. PICK r : IsRun(r, loop, base, n) /\ r[n] = k[1..n]
  BY <1>2, <1>6, <1>n, RunOfFold
<1>9. r[n] = PathTo(root, key)
  BY <1>4, <1>7, <1>8
<1>10. r[0] = base /\ \A i \in 1..n : r[i] = StepOf(loop, r[i - 1], i)
  BY <1>8 DEF IsRun
<1>11. IsPathRun(r, root, key, n)
  BY <1>1, <1>2, <1>10 DEF IsPathRun
<1> QED
  BY <1>9, <1>11

\* At the last depth before the leaves of depth KeyLength, the path of a key has ended.
LEMMA LastEnds ==
  ASSUME NEW keys, NEW key, AreKeys(keys \cup {key}), NEW depth, depth = KeyLength - 1,
         Sharing(keys, key, depth) # {}
  PROVE  Ends(keys, key, depth)
<1>1. PICK k \in Sharing(keys, key, depth) : TRUE
  OBVIOUS
<1>2. \A j \in Sharing(keys, key, depth) : j = key
  <2> SUFFICES ASSUME NEW j \in Sharing(keys, key, depth) PROVE j = key
    OBVIOUS
  <2>1. j \in keys /\ Agree(j, key, depth)
    BY SharingOfMember
  <2>2. depth \in Nat /\ depth >= KeyLength - 1
    BY KeyLengthType
  <2>3. PICK all : all = keys \cup {key}
    OBVIOUS
  <2>4. AreKeys(all) /\ j \in all /\ key \in all
    BY <2>1, <2>3
  <2> QED
    BY <2>1, <2>2, <2>4, LastIsAlone
<1> QED
  BY <1>1, <1>2 DEF Ends

\* A path that goes down to where it ends.
IsWholePath(path, f, keys, key, n) == IsPath(path, f, keys, key, n) /\ Ends(keys, key, n - 1)

LEMMA PathToEffect ==
  ASSUME NEW content, NEW keys, keys = DOMAIN content, keys # {}, NEW key, AreKeys(keys \cup {key}),
         NEW f, AreNodes(f, content), NEW root, RootNode(root) = f[<<0, keys>>],
         NEW path, path = PathTo(root, key)
  PROVE  \E n : IsWholePath(path, f, keys, key, n)
<1>1. PICK last : last = KeyLength - 1
  OBVIOUS
<1>11. PICK r : IsPathRun(r, root, key, last) /\ r[last] = path
  BY <1>1, PathRun
<1>2. /\ r[0] = <<RootNode(root)>> /\ r[last] = path
      /\ \A i \in 1..last : r[i] = IF Len(r[i - 1]) = i THEN Extend(r[i - 1], key) ELSE r[i - 1]
  BY <1>11 DEF IsPathRun
<1> DEFINE Good(i, n) == IsPath(r[i], f, keys, key, n) /\ (n = i + 1 \/ (n <= i /\ Ends(keys, key, n - 1)))
           N == {i \in Nat : i <= last => \E n \in 1..i + 1 : Good(i, n)}
<1>3. last \in Nat /\ last + 1 = KeyLength
  BY <1>1, KeyLengthType
<1>4. 0 \in N
  <2>1. Sharing(keys, key, 0) = keys
    BY DEF Sharing
  <2>2. OnPath(f, keys, key, 0) = RootNode(root)
    BY <2>1 DEF OnPath
  <2>3. PICK p : p = [i \in 1..1 |-> OnPath(f, keys, key, i - 1)]
    OBVIOUS
  <2>4. p = r[0]
    BY <1>2, <2>2, <2>3
  <2>5. 1 \in 1..KeyLength
    BY <1>3
  <2>6. IsPath(p, f, keys, key, 1)
    BY <2>1, <2>3, <2>5 DEF IsPath
  <2>7. Good(0, 1)
    BY <2>4, <2>6
  <2>8. 1 \in 1..0 + 1
    OBVIOUS
  <2> QED
    BY <2>7, <2>8
<1>5. ASSUME NEW i \in Nat, i \in N PROVE i + 1 \in N
  <2> SUFFICES ASSUME i + 1 <= last PROVE \E n \in 1..(i + 1) + 1 : Good(i + 1, n)
    OBVIOUS
  <2>1. PICK n \in 1..i + 1 : Good(i, n)
    BY <1>3, <1>5
  <2>2. PICK j, p, q : j = i + 1 /\ p = r[i] /\ q = r[j]
    OBVIOUS
  <2>3. j \in 1..last /\ j - 1 = i
    BY <1>3, <2>2
  <2>4. q = IF Len(p) = j THEN Extend(p, key) ELSE p
    BY <1>2, <2>2, <2>3
  <2>5. IsPath(p, f, keys, key, n) /\ Len(p) = n /\ n \in Nat
    BY <2>1, <2>2, PathLength
  <2>6. CASE n = j
    <3>1. PICK next : next = n + 1
      OBVIOUS
    <3>2. n < KeyLength
      BY <1>3, <2>3, <2>6
    <3>3. q = Extend(p, key)
      BY <2>4, <2>5, <2>6
    <3>4. \/ Ends(keys, key, n - 1) /\ q = p
          \/ ~Ends(keys, key, n - 1) /\ IsPath(q, f, keys, key, next)
      <4>1. IsExtended(p, q, f, keys, key, n, next)
        BY <2>5, <3>1, <3>2, <3>3, ExtendEffect
      <4> QED
        BY <4>1 DEF IsExtended
    <3>5. CASE Ends(keys, key, n - 1) /\ q = p
      BY <2>2, <2>3, <2>5, <2>6, <3>5
    <3>6. CASE IsPath(q, f, keys, key, next)
      <4>1. next = (i + 1) + 1 /\ next \in 1..(i + 1) + 1
        BY <2>2, <2>6, <3>1
      <4>2. Good(i + 1, next)
        BY <2>2, <3>6, <4>1
      <4> QED
        BY <4>1, <4>2
    <3> QED
      BY <3>4, <3>5, <3>6
  <2>7. CASE n # j
    <3>1. q = p
      BY <2>4, <2>5, <2>7
    <3>2. n <= i /\ Ends(keys, key, n - 1)
      BY <2>1, <2>2, <2>7
    <3> QED
      BY <2>2, <2>3, <2>5, <3>1, <3>2
  <2> QED
    BY <2>6, <2>7
<1> HIDE DEF N
<1>6. last \in N
  BY <1>3, <1>4, <1>5, InductionOnNumbers
<1>7. PICK n \in 1..last + 1 : Good(last, n)
  BY <1>3, <1>6 DEF N
<1>8. IsPath(path, f, keys, key, n)
  BY <1>2, <1>7
<1>9. CASE n = last + 1
  <2>1. n - 1 = last /\ last \in 0..n - 1
    BY <1>3, <1>9
  <2>2. Sharing(keys, key, last) # {}
    BY <1>8, <2>1 DEF IsPath
  <2>3. Ends(keys, key, last)
    BY <1>1, <2>2, LastEnds
  <2> QED
    BY <1>8, <2>1, <2>3 DEF IsWholePath
<1>10. CASE n # last + 1
  BY <1>7, <1>8, <1>10 DEF IsWholePath
<1> QED
  BY <1>9, <1>10
------------------------------------------------------------------------------
(* The cached table of nodes *)

CacheFields == {"root", "ins", "del"}
IsCache(cache) == cache = [x \in CacheFields |-> cache[x]]
\* The nodes that the cache shows over those of the table.
Visible(nodes, cache) == (nodes \cup cache.ins) \ cache.del

CacheWith(cache, ins, del) == [cache EXCEPT !.ins = ins, !.del = del]

LEMMA ChangedCache ==
  ASSUME NEW cache, IsCache(cache), NEW ins, NEW del, NEW other,
         other = CacheWith(cache, ins, del)
  PROVE  IsCache(other) /\ other.ins = ins /\ other.del = del /\ other.root = cache.root
BY DEF IsCache, CacheFields, CacheWith

LEMMA SetToStorageEffect ==
  ASSUME NEW cache, IsCache(cache), NEW node, NEW other, other = SetToStorage(cache, node), NEW nodes
  PROVE  /\ IsCache(other) /\ other.root = cache.root
         /\ Visible(nodes, other) = Visible(nodes, cache) \cup {node}
<1>1. PICK ins, del : ins = cache.ins \cup {node} /\ del = cache.del \ {node}
  OBVIOUS
<1>2. other = CacheWith(cache, ins, del)
  BY <1>1 DEF SetToStorage, CacheWith
<1>3. IsCache(other) /\ other.ins = ins /\ other.del = del /\ other.root = cache.root
  BY <1>2, ChangedCache
<1> QED
  BY <1>1, <1>3 DEF Visible

LEMMA RemoveFromStorageEffect ==
  ASSUME NEW cache, IsCache(cache), NEW node, NEW other, other = RemoveFromStorage(cache, node), NEW nodes
  PROVE  /\ IsCache(other) /\ other.root = cache.root
         /\ Visible(nodes, other) = Visible(nodes, cache) \ {node}
<1>1. PICK ins, del : ins = cache.ins \ {node} /\ del = cache.del \cup {node}
  OBVIOUS
<1>2. other = CacheWith(cache, ins, del)
  BY <1>1 DEF RemoveFromStorage, CacheWith
<1>3. IsCache(other) /\ other.ins = ins /\ other.del = del /\ other.root = cache.root
  BY <1>2, ChangedCache
<1> QED
  BY <1>1, <1>3 DEF Visible

LEMMA ReplacedEffect ==
  ASSUME NEW cache, IsCache(cache), NEW old, NEW new, NEW nodes,
         NEW other, other = SetToStorage(RemoveFromStorage(cache, old), new)
  PROVE  /\ IsCache(other) /\ other.root = cache.root
         /\ Visible(nodes, other) = (Visible(nodes, cache) \ {old}) \cup {new}
<1>1. PICK between : between = RemoveFromStorage(cache, old)
  OBVIOUS
<1>2. /\ IsCache(between) /\ between.root = cache.root
      /\ Visible(nodes, between) = Visible(nodes, cache) \ {old}
  BY <1>1, RemoveFromStorageEffect
<1>3. other = SetToStorage(between, new)
  BY <1>1
<1> QED
  BY <1>2, <1>3, SetToStorageEffect

------------------------------------------------------------------------------
(* The nodes that a write leaves *)

\* f and g have the nodes before and after a value is written under a key.
Writes(c, d, key, value, f, g) ==
  /\ DOMAIN c # {} /\ d = Put(c, key, value) /\ AreKeys(DOMAIN d)
  /\ Distinct(c, d) /\ AreNodes(f, c) /\ AreNodes(g, d)

LEMMA WritesEffect ==
  ASSUME NEW c, NEW d, NEW key, NEW value, NEW f, NEW g, Writes(c, d, key, value, f, g)
  PROVE  /\ DOMAIN d = DOMAIN c \cup {key} /\ d[key] = value
         /\ \A j \in DOMAIN c : j # key => d[j] = c[j]
         /\ AreKeys(DOMAIN d) /\ AreKeys(DOMAIN c) /\ IsKey(key)
         /\ Distinct(c, d) /\ AreNodes(f, c) /\ AreNodes(g, d)
<1>1. d = Put(c, key, value) /\ AreKeys(DOMAIN d) /\ Distinct(c, d) /\ AreNodes(f, c) /\ AreNodes(g, d)
  BY DEF Writes
<1>2. DOMAIN d = DOMAIN c \cup {key} /\ d[key] = value
  BY <1>1 DEF Put
<1>3. \A j \in DOMAIN c : j # key => d[j] = c[j]
  BY <1>1 DEF Put
<1>4. AreKeys(DOMAIN c) /\ IsKey(key)
  BY <1>1, <1>2 DEF AreKeys
<1> QED
  BY <1>1, <1>2, <1>3, <1>4

LEMMA SharingWithKey ==
  ASSUME NEW keys, NEW key, NEW all, all = keys \cup {key}, NEW depth
  PROVE  /\ Sharing(all, key, depth) = Sharing(keys, key, depth) \cup {key}
         /\ \A j \in keys : key \notin Sharing(all, j, depth) =>
              Sharing(all, j, depth) = Sharing(keys, j, depth)
BY DEF Sharing

\* The children after a write: only the one on the path of the key has changed.
LEMMA WrittenChildren ==
  ASSUME NEW c, NEW d, NEW key, NEW value, NEW f, NEW g, Writes(c, d, key, value, f, g),
         NEW keys, keys = DOMAIN c, NEW all, all = DOMAIN d, NEW depth \in 0..KeyLength - 1,
         NEW next, next = depth + 1, next \in 0..KeyLength - 1,
         NEW S, S = Sharing(keys, key, depth), S # {}, NEW T, T = Sharing(all, key, depth),
         NEW hash, hash = OnPath(g, all, key, next)
  PROVE  Put(ChildrenOver(f, next, S), key[next], hash) = ChildrenOver(g, next, T)
<1>1. /\ all = keys \cup {key} /\ AreKeys(all) /\ AreKeys(keys)
      /\ AreNodes(f, c) /\ AreNodes(g, d) /\ \A j \in keys : j # key => d[j] = c[j]
  <2>1. /\ DOMAIN d = DOMAIN c \cup {key} /\ AreKeys(DOMAIN d) /\ AreKeys(DOMAIN c)
        /\ AreNodes(f, c) /\ AreNodes(g, d)
    BY WritesEffect
  <2>2. \A j \in DOMAIN c : j # key => d[j] = c[j]
    <3>1. d = Put(c, key, value)
      BY DEF Writes
    <3> QED
      BY <3>1 DEF Put
  <2> QED
    BY <2>1, <2>2
<1>2. T = S \cup {key} /\ depth \in Nat
  BY <1>1, SharingWithKey, KeyLengthType
<1>3. PICK x, h : x = key[next] /\ h = ChildrenOver(f, next, S)
  OBVIOUS
<1>4. NibblesAt(T, next) = NibblesAt(S, next) \cup {x}
  BY <1>2, <1>3 DEF NibblesAt
<1>5. g[<<next, Having(T, next, x)>>] = hash
  <2>1. Sharing(all, key, next) = Having(T, next, x)
    BY <1>2, <1>3, NextSharing
  <2> QED
    BY <2>1 DEF OnPath
<1>6. ASSUME NEW n \in NibblesAt(S, next), n # x
      PROVE  g[<<next, Having(T, next, n)>>] = f[<<next, Having(S, next, n)>>]
  <2>1. PICK U : U = Having(S, next, n)
    OBVIOUS
  <2>2. U = Having(T, next, n) /\ key \notin U
    BY <1>2, <1>3, <1>6, <2>1 DEF Having
  <2>3. PICK j \in S : j[next] = n
    BY DEF NibblesAt
  <2>4. j \in keys /\ Sharing(keys, j, depth) = S
    BY <2>3, SharingOfMember
  <2>5. Sharing(keys, j, next) = U
    BY <1>2, <2>1, <2>3, <2>4, NextSharing
  <2>6. j \in T /\ Sharing(all, j, depth) = T
    <3>1. j \in T
      BY <1>2, <2>3
    <3> QED
      BY <3>1, SharingOfMember
  <2>7. Sharing(all, j, next) = U
    BY <1>2, <2>2, <2>3, <2>6, NextSharing
  <2>8. SameContent(c, d, U)
    <3>1. \A i \in U : i \in keys /\ i # key
      BY <2>2, <2>5, SharingOfMember
    <3> QED
      BY <1>1, <3>1 DEF SameContent
  <2>9. SameNodesAt(f, c, g, d, next)
    BY <1>1, SameNodesEverywhere
  <2>10. f[<<next, U>>] = g[<<next, U>>]
    BY <1>1, <2>4, <2>5, <2>7, <2>8, <2>9 DEF SameNodesAt
  <2> QED
    BY <2>1, <2>2, <2>10
<1>7. DOMAIN h = NibblesAt(S, next) /\ \A n \in NibblesAt(S, next) : h[n] = f[<<next, Having(S, next, n)>>]
  BY <1>3 DEF ChildrenOver
<1> DEFINE A(n) == IF n = x THEN hash ELSE h[n]
           B(n) == g[<<next, Having(T, next, n)>>]
<1>8. \A n \in NibblesAt(T, next) : A(n) = B(n)
  <2> SUFFICES ASSUME NEW n \in NibblesAt(T, next) PROVE A(n) = B(n)
    OBVIOUS
  <2>1. CASE n = x
    BY <1>5, <2>1
  <2>2. CASE n # x
    <3>1. n \in NibblesAt(S, next)
      BY <1>4, <2>2
    <3>2. h[n] = f[<<next, Having(S, next, n)>>]
      BY <1>7, <3>1
    <3>3. A(n) = h[n]
      BY <2>2
    <3> QED
      BY <1>6, <2>2, <3>1, <3>2, <3>3
  <2> QED
    BY <2>1, <2>2
<1>9. Put(h, x, hash) = [n \in NibblesAt(T, next) |-> A(n)]
  BY <1>4, <1>7 DEF Put
<1>10. ChildrenOver(g, next, T) = [n \in NibblesAt(T, next) |-> B(n)]
  BY DEF ChildrenOver
<1> HIDE DEF A, B
<1>11. [n \in NibblesAt(T, next) |-> A(n)] = [n \in NibblesAt(T, next) |-> B(n)]
  BY <1>8
<1> QED
  BY <1>3, <1>9, <1>10, <1>11

\* What is written at one depth of the path.
IsWriting(t, s, nodes, old, new) ==
  /\ IsCache(t.cache) /\ t.cache.root = s.cache.root /\ t.hash = new
  /\ Visible(nodes, t.cache) = (Visible(nodes, s.cache) \ {old}) \cup {new}

LEMMA RewriteEffect ==
  ASSUME NEW c, NEW d, NEW key, NEW value, NEW f, NEW g, Writes(c, d, key, value, f, g),
         NEW keys, keys = DOMAIN c, NEW all, all = DOMAIN d, NEW depth \in 0..KeyLength - 1,
         NEW next, next = depth + 1, next \in 0..KeyLength - 1,
         NEW S, S = Sharing(keys, key, depth), S # {}, S # {key},
         NEW path, path[next] = OnPath(f, keys, key, depth),
         NEW s, IsCache(s.cache), s.hash = OnPath(g, all, key, next),
         NEW nodes, NEW t, t = Rewrite(s, path, depth, key)
  PROVE  IsWriting(t, s, nodes, OnPath(f, keys, key, depth), OnPath(g, all, key, depth))
<1>1. all = keys \cup {key} /\ AreKeys(all) /\ AreKeys(keys) /\ AreNodes(f, c) /\ AreNodes(g, d)
  BY WritesEffect
<1>2. PICK T, old, hash, x : /\ T = Sharing(all, key, depth) /\ old = OnPath(f, keys, key, depth)
                             /\ hash = s.hash /\ x = key[next]
  OBVIOUS
<1>3. T = S \cup {key}
  <2>1. Sharing(all, key, depth) = Sharing(keys, key, depth) \cup {key}
    BY <1>1 DEF Sharing
  <2> QED
    BY <1>2, <2>1
<1>4. IsShared(T)
  BY <1>3 DEF IsShared
<1>5. PICK k \in S : TRUE
  OBVIOUS
<1>6. k \in keys /\ S = Sharing(keys, k, depth) /\ old = f[<<depth, S>>]
  BY <1>2, <1>5, SharingOfMember DEF OnPath
<1>7. Children(depth, old) = ChildrenOver(f, next, S)
  BY <1>1, <1>6, ChildrenEffect
<1>8. PICK children, new : children = Put(Children(depth, old), x, hash) /\ new = Standard(children)
  OBVIOUS
<1>9. children = ChildrenOver(g, next, T)
  BY <1>2, <1>7, <1>8, WrittenChildren
<1>10. new = OnPath(g, all, key, depth)
  <2>1. key \in all
    BY <1>3, <1>1
  <2>3. PICK a : a = g[<<depth, T>>]
    OBVIOUS
  <2>4. AreNodes(g, d) /\ key \in DOMAIN d /\ T = Sharing(DOMAIN d, key, depth)
    BY <1>1, <1>2, <2>1
  <2>5. IsShared(T) => a = Standard(ChildrenOver(g, next, T))
    BY <2>3, <2>4, NodeOfClass
  <2>2. g[<<depth, T>>] = Standard(ChildrenOver(g, next, T))
    BY <1>4, <2>3, <2>5
  <2> QED
    BY <1>2, <1>8, <1>9, <2>2 DEF OnPath
<1>11. t = [hash |-> new, cache |-> SetToStorage(RemoveFromStorage(s.cache, old), new)]
  BY <1>2, <1>8 DEF Rewrite
<1>12. t.hash = new /\ t.cache = SetToStorage(RemoveFromStorage(s.cache, old), new)
  BY <1>11
<1>13. PICK before, after : before = s.cache /\ after = t.cache
  OBVIOUS
<1>14. /\ IsCache(after) /\ after.root = before.root
       /\ Visible(nodes, after) = (Visible(nodes, before) \ {old}) \cup {new}
  BY <1>12, <1>13, ReplacedEffect
<1> QED
  BY <1>2, <1>10, <1>12, <1>13, <1>14 DEF IsWriting

\* The nodes of the path that have been replaced from the last depth up to one, and those
\* written; the deepest one written is the leaf of the key.
OldNodes(f, keys, key, depth, last) == {OnPath(f, keys, key, e) : e \in depth..last}

IsWritten(s, nodes, base, before, new, depth, last, deepest, f, keys, key) ==
  /\ IsCache(s.cache) /\ s.cache.root = base
  /\ Visible(nodes, s.cache) =
       (before \ OldNodes(f, keys, key, depth, last)) \cup {new[e] : e \in depth..deepest}
  /\ s.hash = new[depth]

\* The depth of the leaf of a key after a write.
LeafDepth(keys, key, last) == IF Sharing(keys, key, last) = {key} THEN last ELSE last + 1

LEMMA OldIsNotNew ==
  ASSUME NEW c, NEW d, NEW key, NEW value, NEW f, NEW g, Writes(c, d, key, value, f, g),
         NEW keys, keys = DOMAIN c, NEW all, all = DOMAIN d,
         NEW depth \in 0..KeyLength - 1, Sharing(keys, key, depth) # {},
         NEW e \in 0..KeyLength - 1, depth # e
  PROVE  OnPath(f, keys, key, depth) # OnPath(g, all, key, e)
<1>1. /\ all = keys \cup {key} /\ AreKeys(DOMAIN d) /\ AreKeys(DOMAIN c) /\ AreNodes(f, c)
      /\ AreNodes(g, d) /\ Distinct(c, d)
  BY WritesEffect
<1>2. SamePlaceAt(f, c, g, d, depth)
  BY <1>1, SamePlace
<1>3. PICK j \in Sharing(keys, key, depth) : TRUE
  OBVIOUS
<1>4. j \in keys /\ Sharing(keys, j, depth) = Sharing(keys, key, depth)
  BY <1>3, SharingOfMember
<1>5. key \in all
  BY <1>1
<1>6. PICK S, T : S = Sharing(keys, key, depth) /\ T = Sharing(all, key, e)
  OBVIOUS
<1>7. f[<<depth, S>>] # g[<<e, T>>]
  BY <1>2, <1>4, <1>5, <1>6 DEF SamePlaceAt
<1> QED
  BY <1>6, <1>7 DEF OnPath

\* The nodes of a tree at the depths of the path of a key, as a function.
NodesOnPath(g, all, key) == [e \in 0..KeyLength - 1 |-> OnPath(g, all, key, e)]

\* What a path that has gone down has found on its way.
IsDown(path, f, keys, key, n, last) ==
  /\ n \in Nat /\ last \in 0..KeyLength - 1 /\ Len(path) = n /\ n = last + 1
  /\ \A e \in 0..last : /\ path[e + 1] = OnPath(f, keys, key, e)
                        /\ Sharing(keys, key, e) # {}
                        /\ e # last => Sharing(keys, key, e) # {key}
  /\ Sharing(keys, key, last) # {key} => /\ Sharing(keys, key, n) = {}
                                         /\ n \in 0..KeyLength - 1
  /\ LeafDepth(keys, key, last) \in 0..KeyLength - 1

LEMMA WholePathEffect ==
  ASSUME NEW path, NEW f, NEW keys, NEW key, NEW n, IsWholePath(path, f, keys, key, n),
         AreKeys(keys \cup {key}), NEW last, last = n - 1
  PROVE  IsDown(path, f, keys, key, n, last)
<1>1. IsPath(path, f, keys, key, n) /\ Ends(keys, key, n - 1)
  BY DEF IsWholePath
<1>2. /\ n \in Nat /\ n >= 1 /\ n <= KeyLength /\ Len(path) = n
      /\ \A i \in 1..n : path[i] = OnPath(f, keys, key, i - 1)
  BY <1>1, PathLength
<1>3. last \in Nat /\ last \in 0..KeyLength - 1 /\ n = last + 1
  BY <1>2, KeyLengthType
<1>4. ASSUME NEW e \in 0..last
      PROVE  /\ path[e + 1] = OnPath(f, keys, key, e) /\ Sharing(keys, key, e) # {}
             /\ e # last => Sharing(keys, key, e) # {key}
  <2>1. PICK i : i = e + 1
    OBVIOUS
  <2>2. i \in 1..n /\ i - 1 = e /\ e \in 0..n - 1
    BY <1>2, <1>3, <2>1
  <2>3. path[i] = OnPath(f, keys, key, e)
    BY <1>2, <2>2
  <2>4. Sharing(keys, key, e) # {}
    BY <1>1, <2>2 DEF IsPath
  <2>5. ASSUME e # last PROVE Sharing(keys, key, e) # {key}
    <3>1. e \in 0..n - 2
      BY <1>2, <1>3, <2>5
    <3>2. ~Ends(keys, key, e)
      BY <1>1, <3>1 DEF IsPath
    <3> QED
      BY <3>2 DEF Ends
  <2> QED
    BY <2>1, <2>3, <2>4, <2>5
<1>5. ASSUME Sharing(keys, key, last) # {key}
      PROVE  Sharing(keys, key, n) = {} /\ n \in 0..KeyLength - 1
  <2>1. Sharing(keys, key, n) = {}
    BY <1>1, <1>2, <1>3, <1>5 DEF Ends
  <2>2. PICK j \in Sharing(keys, key, last) : j # key
    <3>1. Sharing(keys, key, last) # {}
      BY <1>3, <1>4
    <3> QED
      BY <1>5, <3>1
  <2>3. j \in keys /\ Agree(j, key, last)
    BY <2>2, SharingOfMember
  <2>4. PICK all : all = keys \cup {key}
    OBVIOUS
  <2>5. AreKeys(all) /\ j \in all /\ key \in all
    BY <2>3, <2>4
  <2>6. ~(last >= KeyLength - 1)
    BY <1>3, <2>2, <2>3, <2>5, LastIsAlone
  <2> QED
    BY <1>3, <2>1, <2>6, KeyLengthType
<1>6. LeafDepth(keys, key, last) \in 0..KeyLength - 1
  BY <1>3, <1>5 DEF LeafDepth
<1> QED
  BY <1>2, <1>3, <1>4, <1>5, <1>6 DEF IsDown

\* One more depth is rewritten.
LEMMA WrittenOneMore ==
  ASSUME NEW c, NEW d, NEW key, NEW value, NEW f, NEW g, Writes(c, d, key, value, f, g),
         NEW keys, keys = DOMAIN c, NEW all, all = DOMAIN d, NEW new, new = NodesOnPath(g, all, key),
         NEW last \in 0..KeyLength - 1, NEW deepest \in 0..KeyLength - 1, deepest >= last,
         NEW depth \in 0..last, NEW next, next = depth + 1, next <= deepest,
         Sharing(keys, key, depth) # {},
         NEW s, NEW t, NEW nodes, NEW base, NEW before,
         \/ IsWritten(s, nodes, base, before, new, next, last, deepest, f, keys, key)
         \/ /\ depth = last /\ next = deepest /\ IsCache(s.cache) /\ s.cache.root = base
            /\ s.hash = new[next] /\ Visible(nodes, s.cache) = before \cup {new[next]},
         IsWriting(t, s, nodes, OnPath(f, keys, key, depth), OnPath(g, all, key, depth))
  PROVE  IsWritten(t, nodes, base, before, new, depth, last, deepest, f, keys, key)
<1>1. PICK a, b, old, older, news, newer :
        /\ a = OnPath(f, keys, key, depth) /\ b = OnPath(g, all, key, depth)
        /\ older = OldNodes(f, keys, key, depth, last)
        /\ newer = {new[e] : e \in depth..deepest} /\ news = {new[e] : e \in next..deepest}
        /\ old = OldNodes(f, keys, key, next, last)
  OBVIOUS
<1>2. depth \in Nat /\ last \in Nat /\ deepest \in Nat /\ KeyLength \in Nat /\ next \in Nat
  BY KeyLengthType
<1>3. /\ IsCache(t.cache) /\ t.cache.root = s.cache.root /\ t.hash = b
      /\ Visible(nodes, t.cache) = (Visible(nodes, s.cache) \ {a}) \cup {b}
  BY <1>1 DEF IsWriting
<1>4. depth \in 0..KeyLength - 1 /\ \A e \in 0..KeyLength - 1 : new[e] = OnPath(g, all, key, e)
  BY <1>2 DEF NodesOnPath
<1>5. new[depth] = b
  BY <1>1, <1>4
<1>6. a \notin news
  <2> SUFFICES ASSUME NEW e \in next..deepest, a = new[e] PROVE FALSE
    BY <1>1
  <2>1. e \in 0..KeyLength - 1 /\ e # depth
    BY <1>2
  <2>2. a = OnPath(g, all, key, e)
    BY <1>4, <2>1
  <2> QED
    BY <1>1, <1>4, <2>1, <2>2, OldIsNotNew
<1>7. newer = news \cup {b}
  <2>1. \A e : e \in depth..deepest <=> e = depth \/ e \in next..deepest
    BY <1>2
  <2> QED
    BY <1>1, <1>5, <2>1
<1>8. older = old \cup {a}
  <2>1. \A e : e \in depth..last <=> e = depth \/ e \in next..last
    BY <1>2
  <2> QED
    BY <1>1, <2>1 DEF OldNodes
<1>9. s.cache.root = base /\ Visible(nodes, s.cache) = (before \ old) \cup news
  <2>1. CASE IsWritten(s, nodes, base, before, new, next, last, deepest, f, keys, key)
    BY <1>1, <2>1 DEF IsWritten
  <2>2. CASE /\ depth = last /\ next = deepest /\ s.cache.root = base
             /\ Visible(nodes, s.cache) = before \cup {new[next]}
    <3>1. next..last = {} /\ next..deepest = {next}
      BY <1>2, <2>2
    <3>2. old = {} /\ news = {new[next]}
      BY <1>1, <3>1 DEF OldNodes
    <3> QED
      BY <2>2, <3>2
  <2> QED
    BY <2>1, <2>2
<1>10. Visible(nodes, t.cache) = (before \ older) \cup newer
  BY <1>3, <1>6, <1>7, <1>8, <1>9
<1> QED
  BY <1>1, <1>3, <1>5, <1>9, <1>10 DEF IsWritten

LEMMA LeafReplaced ==
  ASSUME NEW path, NEW x, NEW a, a = Leaf(path, x), NEW y
  PROVE  [a EXCEPT !.value = y] = Leaf(path, y)
BY DEF Leaf

\* The deepest write of a path of n nodes.
LEMMA DeepestEffect ==
  ASSUME NEW c, NEW d, NEW key, NEW value, NEW f, NEW g, Writes(c, d, key, value, f, g),
         NEW keys, keys = DOMAIN c, NEW all, all = DOMAIN d, NEW new, new = NodesOnPath(g, all, key),
         NEW path, NEW n, IsWholePath(path, f, keys, key, n), NEW last, last = n - 1,
         NEW deepest, deepest = LeafDepth(keys, key, last),
         NEW cache, IsCache(cache), NEW base, base = cache.root,
         NEW nodes, NEW before, before = Visible(nodes, cache),
         NEW t, t = Deepest(cache, path, key, value)
  PROVE  IsWritten(t, nodes, base, before, new, last, last, deepest, f, keys, key)
<1>1. all = keys \cup {key} /\ AreKeys(all) /\ AreKeys(keys) /\ AreNodes(f, c) /\ AreNodes(g, d) /\ d[key] = value
  <2>1. DOMAIN d = DOMAIN c \cup {key} /\ AreKeys(DOMAIN d) /\ AreKeys(DOMAIN c)
    BY WritesEffect
  <2>2. AreNodes(f, c) /\ AreNodes(g, d)
    BY DEF Writes
  <2>3. d[key] = value
    BY DEF Writes, Put
  <2> QED
    BY <2>1, <2>2, <2>3
<1>2. /\ n \in Nat /\ last \in 0..KeyLength - 1 /\ Len(path) = n /\ n = last + 1
      /\ \A e \in 0..last : path[e + 1] = OnPath(f, keys, key, e) /\ Sharing(keys, key, e) # {}
      /\ Sharing(keys, key, last) # {key} => /\ Sharing(keys, key, n) = {}
                                             /\ n \in 0..KeyLength - 1
      /\ deepest \in 0..KeyLength - 1
  <2>1. AreKeys(keys \cup {key})
    BY <1>1
  <2>2. IsDown(path, f, keys, key, n, last)
    BY <2>1, WholePathEffect
  <2> QED
    BY <2>2 DEF IsDown
<1>3. last \in Nat /\ last \in 0..last /\ KeyLength \in Nat
  BY <1>2, KeyLengthType
<1>4. PICK S, a : S = Sharing(keys, key, last) /\ a = path[n]
  OBVIOUS
<1>5. a = OnPath(f, keys, key, last) /\ S # {}
  BY <1>2, <1>3, <1>4
<1>6. ~IsStandard(a) /\ HoldsKey(last, a, key) <=> S = {key}
  BY <1>1, <1>2, <1>4, <1>5, NodeOnPath
<1>7. \A e \in 0..KeyLength - 1 : new[e] = OnPath(g, all, key, e)
  BY DEF NodesOnPath
<1>8. key \in DOMAIN d /\ \A e : Sharing(all, key, e) = Sharing(keys, key, e) \cup {key}
  BY <1>1 DEF Sharing
<1>9. ASSUME NEW e \in 0..KeyLength - 1, Sharing(all, key, e) = {key}
      PROVE  new[e] = Leaf(Trailing(e, key), value)
  <2>1. PICK T, b : T = Sharing(all, key, e) /\ b = g[<<e, T>>]
    OBVIOUS
  <2>2. b = LeafOf(d, e, key)
    <3>1. PICK next : next = e + 1
      OBVIOUS
    <3>2. AreNodes(g, d) /\ key \in DOMAIN d /\ T = Sharing(DOMAIN d, key, e) /\ T = {key}
      BY <1>1, <1>8, <1>9, <2>1
    <3> QED
      BY <2>1, <3>1, <3>2, NodeOfClass
  <2>3. new[e] = b
    BY <1>7, <2>1 DEF OnPath
  <2> QED
    BY <1>1, <2>2, <2>3 DEF LeafOf
<1>10. CASE S = {key}
  <2>1. deepest = last
    BY <1>4, <1>10 DEF LeafDepth
  <2>2. PICK u, x, b : u = Trailing(last, key) /\ x = c[key] /\ b = Leaf(u, value)
    OBVIOUS
  <2>3. key \in keys
    BY <1>4, <1>10, SharingOfMember
  <2>4. a = Leaf(u, x)
    <3>1. a = f[<<last, S>>]
      BY <1>4, <1>5 DEF OnPath
    <3>2. a = LeafOf(c, last, key)
      BY <1>1, <1>2, <1>4, <1>10, <2>3, <3>1, NodeOfClass
    <3> QED
      BY <2>2, <3>2 DEF LeafOf
  <2>5. [a EXCEPT !.value = value] = b
    BY <2>2, <2>4, LeafReplaced
  <2>6. t = [hash |-> b, cache |-> SetToStorage(RemoveFromStorage(cache, a), b)]
    BY <1>2, <1>4, <1>6, <1>10, <2>5 DEF Deepest
  <2>7. PICK after : after = SetToStorage(RemoveFromStorage(cache, a), b)
    OBVIOUS
  <2>8. t.hash = b /\ t.cache = after
    BY <2>6, <2>7
  <2>9. /\ IsCache(after) /\ after.root = base /\ Visible(nodes, after) = (before \ {a}) \cup {b}
    BY <2>7, ReplacedEffect
  <2>10. new[last] = b
    <3>1. Sharing(all, key, last) = {key}
      BY <1>4, <1>8, <1>10
    <3> QED
      BY <1>2, <1>9, <2>2, <3>1
  <2>11. OldNodes(f, keys, key, last, last) = {a} /\ {new[e] : e \in last..deepest} = {b}
    <3>1. last..last = {last}
      BY <1>3
    <3> QED
      BY <1>5, <2>1, <2>10, <3>1 DEF OldNodes
  <2> QED
    BY <2>8, <2>9, <2>10, <2>11 DEF IsWritten
<1>11. CASE S # {key}
  <2>1. deepest = n /\ n \in 0..KeyLength - 1 /\ Sharing(keys, key, n) = {}
    BY <1>2, <1>4, <1>11 DEF LeafDepth
  <2>2. PICK leaf, between, s : /\ leaf = Leaf(Trailing(n, key), value)
                                /\ between = SetToStorage(cache, leaf)
                                /\ s = [hash |-> leaf, cache |-> between]
    OBVIOUS
  <2>3. new[n] = leaf
    BY <1>8, <1>9, <2>1, <2>2
  <2>4. IsCache(between) /\ between.root = base /\ Visible(nodes, between) = before \cup {leaf}
    BY <2>2, SetToStorageEffect
  <2>5. s.hash = leaf /\ s.cache = between
    BY <2>2
  <2>6. t = Rewrite(s, path, last, key)
    <3>1. Len(path) - 1 = last /\ last + 1 = n
      BY <1>2, <1>3
    <3> QED
      BY <1>2, <1>4, <1>6, <1>11, <2>2, <3>1 DEF Deepest
  <2>7. path[n] = OnPath(f, keys, key, last) /\ s.hash = OnPath(g, all, key, n)
    BY <1>4, <1>5, <1>7, <2>1, <2>3, <2>5
  <2>8. IsWriting(t, s, nodes, OnPath(f, keys, key, last), OnPath(g, all, key, last))
    BY <1>2, <1>4, <1>5, <1>11, <2>1, <2>4, <2>5, <2>6, <2>7, RewriteEffect
  <2>9. /\ last = last /\ n = deepest /\ IsCache(s.cache) /\ s.cache.root = base
        /\ s.hash = new[n] /\ Visible(nodes, s.cache) = before \cup {new[n]}
    BY <2>1, <2>3, <2>4, <2>5
  <2>10. deepest >= last /\ n <= deepest /\ deepest \in 0..KeyLength - 1 /\ last \in 0..last
    BY <1>2, <1>3, <2>1
  <2>11. Sharing(keys, key, last) # {}
    BY <1>4, <1>5
  <2> QED
    BY <1>2, <2>8, <2>9, <2>10, <2>11, WrittenOneMore
<1> QED
  BY <1>10, <1>11

RewriteLoop(path, key) == [over |-> "rewrites", ordered |-> TRUE, path |-> path, key |-> key]

LEMMA RewriteSteps ==
  ASSUME NEW path, NEW key
  PROVE  /\ \A acc, x : StepOf(RewriteLoop(path, key), acc, x) = Rewrite(acc, path, Len(path) - 1 - x, key)
         /\ \A s : Picked(RewriteLoop(path, key), s) = Max(s)
         /\ RewriteLoop(path, key).ordered
<1>1. PICK loop : loop = RewriteLoop(path, key)
  OBVIOUS
<1>2. loop.over = "rewrites" /\ loop.ordered /\ loop.path = path /\ loop.key = key
  BY <1>1 DEF RewriteLoop
<1>3. \A acc, x : StepOf(loop, acc, x) = Rewrite(acc, path, Len(path) - 1 - x, key)
  BY <1>2 DEF StepOf
<1> QED
  BY <1>1, <1>2, <1>3 DEF Picked

IsRewriteFold(h, path, key, base, n) ==
  h = [s \in SUBSET DOMAIN [i \in 1..n |-> i] |->
         IF s = {} THEN base
         ELSE LET i == Max(s) IN
                Rewrite(h[s \ {i}], path, Len(path) - 1 - [j \in 1..n |-> j][i], key)]

\* The cache in which the leaves that the path pushes down are stored.
WithPushed(cache, pushed) == [cache EXCEPT !.ins = @ \cup pushed, !.del = @ \ pushed]

IsRewriteRun(r, cache, path, key, value, n) ==
  /\ r[0] = Deepest(WithPushed(cache, PushedLeaves(path, key)), path, key, value)
  /\ r[n] = WriteAlong(cache, path, key, value)
  /\ \A i \in 1..n : r[i] = Rewrite(r[i - 1], path, n - i, key)

LEMMA RewriteRun ==
  ASSUME NEW cache, NEW path, NEW key, NEW value, NEW n \in Nat, n = Len(path) - 1
  PROVE  \E r : IsRewriteRun(r, cache, path, key, value, n)
<1>1. PICK loop, base : /\ loop = RewriteLoop(path, key)
                        /\ base = Deepest(WithPushed(cache, PushedLeaves(path, key)), path, key, value)
  OBVIOUS
<1>2. /\ loop.ordered /\ \A s : Picked(loop, s) = Max(s)
      /\ \A acc, x : StepOf(loop, acc, x) = Rewrite(acc, path, Len(path) - 1 - x, key)
  BY <1>1, RewriteSteps
<1>3. PICK h : IsFoldOf(h, loop, base, 1..n)
  BY <1>2, PositionsFoldExists
<1>4. DOMAIN [i \in 1..n |-> i] = 1..n /\ \A i \in 1..n : [j \in 1..n |-> j][i] = i
  OBVIOUS
<1>5. ASSUME NEW g PROVE IsFoldOf(g, loop, base, 1..n) <=> IsRewriteFold(g, path, key, base, n)
  <2> DEFINE A(s) == IF s = {} THEN base
                     ELSE StepOf(loop, g[s \ {Picked(loop, s)}], Picked(loop, s))
             B(s) == IF s = {} THEN base
                     ELSE LET i == Max(s) IN
                            Rewrite(g[s \ {i}], path, Len(path) - 1 - [j \in 1..n |-> j][i], key)
  <2>1. ASSUME NEW s \in SUBSET (1..n) PROVE A(s) = B(s)
    <3>1. CASE s = {}
      BY <3>1
    <3>2. CASE s # {}
      <4>1. PICK i, b : i = Max(s) /\ b = g[s \ {i}]
        OBVIOUS
      <4>2. i \in 1..n
        BY <3>2, <4>1, MaxOfPositions
      <4>3. [j \in 1..n |-> j][i] = i
        BY <4>2
      <4>4. A(s) = Rewrite(b, path, Len(path) - 1 - i, key)
        <5>1. Picked(loop, s) = i
          BY <1>2, <4>1
        <5>2. A(s) = StepOf(loop, b, i)
          BY <3>2, <4>1, <5>1
        <5>3. StepOf(loop, b, i) = Rewrite(b, path, Len(path) - 1 - i, key)
          BY <1>2
        <5> QED
          BY <5>2, <5>3
      <4>5. B(s) = Rewrite(b, path, Len(path) - 1 - i, key)
        BY <3>2, <4>1, <4>3
      <4> QED
        BY <4>4, <4>5
    <3> QED
      BY <3>1, <3>2
  <2> HIDE DEF A, B
  <2>2. [s \in SUBSET (1..n) |-> A(s)] = [s \in SUBSET (1..n) |-> B(s)]
    BY <2>1
  <2> QED
    BY <1>4, <2>2 DEF IsFoldOf, IsRewriteFold, A, B
<1> DEFINE k == CHOOSE g : IsRewriteFold(g, path, key, base, n)
<1>6. IsFoldOf(k, loop, base, 1..n)
  BY <1>3, <1>5
<1>7. WriteAlong(cache, path, key, value) = k[DOMAIN [i \in 1..n |-> i]]
  BY <1>1 DEF WriteAlong, FoldLeft, MapThenFoldSet, IsRewriteFold, WithPushed
<1> HIDE DEF k
<1>8. PICK r : IsRun(r, loop, base, n) /\ r[n] = k[1..n]
  BY <1>2, <1>6, RunOfFold
<1>9. r[n] = WriteAlong(cache, path, key, value)
  BY <1>4, <1>7, <1>8
<1>10. r[0] = base /\ \A i \in 1..n : r[i] = StepOf(loop, r[i - 1], i)
  BY <1>8 DEF IsRun
<1>11. ASSUME NEW i \in 1..n PROVE r[i] = Rewrite(r[i - 1], path, n - i, key)
  BY <1>2, <1>10
<1> QED
  BY <1>1, <1>9, <1>10, <1>11 DEF IsRewriteRun
------------------------------------------------------------------------------
(* The places of a tree after a write *)

\* There is a node over the keys that share a key's first nibbles.
PlaceAt(keys, k, depth) == depth = 0 \/ IsShared(Sharing(keys, k, depth - 1))
PlaceNodes(f, keys) == {f[p] : p \in Places(keys)}

LEMMA SharingAll ==
  ASSUME NEW keys, NEW k
  PROVE  Sharing(keys, k, 0) = keys
BY DEF Sharing

LEMMA FewerShared ==
  ASSUME NEW S, NEW T, S \subseteq T, IsShared(S)
  PROVE  IsShared(T)
BY DEF IsShared

LEMMA PlaceNodesAre ==
  ASSUME NEW keys, keys # {}, NEW f
  PROVE  \A x : x \in PlaceNodes(f, keys) <=>
           \E depth \in 0..KeyLength - 1, k \in keys :
             x = OnPath(f, keys, k, depth) /\ PlaceAt(keys, k, depth)
<1>1. ASSUME NEW x, x \in PlaceNodes(f, keys)
      PROVE  \E depth \in 0..KeyLength - 1, k \in keys :
               x = OnPath(f, keys, k, depth) /\ PlaceAt(keys, k, depth)
  <2>1. PICK p \in Places(keys) : x = f[p]
    BY <1>1 DEF PlaceNodes
  <2>2. CASE p = <<0, keys>>
    <3>1. PICK k \in keys : TRUE
      OBVIOUS
    <3>2. x = OnPath(f, keys, k, 0) /\ PlaceAt(keys, k, 0)
      BY <2>1, <2>2, SharingAll DEF OnPath, PlaceAt
    <3>3. 0 \in 0..KeyLength - 1
      BY KeyLengthType
    <3> QED
      BY <3>1, <3>2, <3>3
  <2>3. CASE p # <<0, keys>>
    <3>1. PICK k \in keys, depth \in 1..KeyLength - 1 :
            p = <<depth, Sharing(keys, k, depth)>> /\ IsShared(Sharing(keys, k, depth - 1))
      BY <2>1, <2>3 DEF Places
    <3>2. x = OnPath(f, keys, k, depth) /\ PlaceAt(keys, k, depth)
      BY <2>1, <3>1 DEF OnPath, PlaceAt
    <3>3. depth \in 0..KeyLength - 1
      BY <3>1, KeyLengthType
    <3> QED
      BY <3>1, <3>2, <3>3
  <2> QED
    BY <2>2, <2>3
<1>2. ASSUME NEW depth \in 0..KeyLength - 1, NEW k \in keys, PlaceAt(keys, k, depth),
             NEW x, x = OnPath(f, keys, k, depth)
      PROVE  x \in PlaceNodes(f, keys)
  <2>1. PICK p : p = <<depth, Sharing(keys, k, depth)>>
    OBVIOUS
  <2>2. CASE depth = 0
    <3>1. p = <<0, keys>>
      BY <2>1, <2>2, SharingAll
    <3>2. p \in Places(keys)
      BY <3>1 DEF Places
    <3> QED
      BY <1>2, <2>1, <3>2 DEF PlaceNodes, OnPath
  <2>3. CASE depth # 0
    <3>1. depth \in 1..KeyLength - 1 /\ IsShared(Sharing(keys, k, depth - 1))
      BY <1>2, <2>3, KeyLengthType DEF PlaceAt
    <3>2. p \in Places(keys)
      BY <2>1, <3>1 DEF Places
    <3> QED
      BY <1>2, <2>1, <3>2 DEF PlaceNodes, OnPath
  <2> QED
    BY <2>2, <2>3
<1> QED
  BY <1>1, <1>2

LEMMA SharingDeeper ==
  ASSUME NEW keys, NEW k, NEW depth \in Nat, NEW e \in Nat, depth <= e
  PROVE  Sharing(keys, k, e) \subseteq Sharing(keys, k, depth)
<1>1. \A i \in 1..depth : i \in 1..e
  OBVIOUS
<1> QED
  BY <1>1 DEF Sharing

\* Where the path of a key has ended, nothing but the key is below.
LEMMA NothingBelow ==
  ASSUME NEW path, NEW f, NEW keys, NEW key, NEW n, NEW last, IsDown(path, f, keys, key, n, last),
         NEW e \in Nat, e > last
  PROVE  /\ Sharing(keys, key, e) \subseteq {key}
         /\ Sharing(keys, key, last) # {key} => Sharing(keys, key, e) = {}
<1>1. last \in Nat /\ n \in Nat /\ n = last + 1
  BY KeyLengthType DEF IsDown
<1>2. last <= e /\ n <= e
  BY <1>1
<1>3. Sharing(keys, key, e) \subseteq Sharing(keys, key, last)
  BY <1>1, <1>2, SharingDeeper
<1>4. Sharing(keys, key, e) \subseteq Sharing(keys, key, n)
  BY <1>1, <1>2, SharingDeeper
<1>5. Sharing(keys, key, last) # {key} => Sharing(keys, key, n) = {}
  BY DEF IsDown
<1> QED
  BY <1>3, <1>4, <1>5

\* The places over the key after the write.
LEMMA PlacesOfKey ==
  ASSUME NEW path, NEW f, NEW keys, NEW key, NEW n, NEW last, IsDown(path, f, keys, key, n, last),
         NEW all, all = keys \cup {key}, NEW deepest, deepest = LeafDepth(keys, key, last),
         NEW e \in 0..KeyLength - 1
  PROVE  PlaceAt(all, key, e) <=> e \in 0..deepest
<1>1. last \in Nat /\ KeyLength \in Nat /\ deepest \in Nat /\ e \in Nat
  BY KeyLengthType DEF IsDown
<1>2. CASE e = 0
  BY <1>1, <1>2 DEF PlaceAt
<1>3. CASE e # 0
  <2>1. PICK up, S, T : up = e - 1 /\ S = Sharing(keys, key, up) /\ T = Sharing(all, key, up)
    OBVIOUS
  <2>2. up \in Nat /\ up \in 0..KeyLength - 1 /\ e = up + 1
    BY <1>1, <1>3, <2>1
  <2>3. T = S \cup {key}
    BY <2>1, SharingWithKey
  <2>4. PlaceAt(all, key, e) <=> IsShared(T)
    BY <1>3, <2>1 DEF PlaceAt
  <2>5. IsShared(T) <=> S # {} /\ S # {key}
    BY <2>3 DEF IsShared
  <2>6. CASE up < last
    <3>1. up \in 0..last /\ up # last
      BY <1>1, <2>2, <2>6
    <3>2. S # {} /\ S # {key}
      BY <2>1, <3>1 DEF IsDown
    <3>3. e \in 0..deepest
      BY <1>1, <2>2, <2>6 DEF LeafDepth
    <3> QED
      BY <2>4, <2>5, <3>2, <3>3
  <2>7. CASE up = last
    <3>1. last \in 0..last
      BY <1>1
    <3>2. S # {}
      BY <2>1, <2>7, <3>1 DEF IsDown
    <3>3. deepest = IF S = {key} THEN last ELSE last + 1
      BY <2>1, <2>7 DEF LeafDepth
    <3>4. e \in 0..deepest <=> S # {key}
      BY <1>1, <2>2, <2>7, <3>3
    <3> QED
      BY <2>4, <2>5, <3>2, <3>4
  <2>8. CASE up > last
    <3>1. S \subseteq {key}
      BY <2>1, <2>2, <2>8, NothingBelow
    <3>2. deepest <= last + 1
      BY <1>1 DEF LeafDepth
    <3>3. e \notin 0..deepest
      BY <1>1, <2>2, <2>8, <3>2
    <3> QED
      BY <2>4, <2>5, <3>1, <3>3
  <2> QED
    BY <1>1, <2>2, <2>6, <2>7, <2>8
<1> QED
  BY <1>2, <1>3

\* The places over the key before the write have been visited.
LEMMA PlacesVisited ==
  ASSUME NEW path, NEW f, NEW keys, NEW key, NEW n, NEW last, IsDown(path, f, keys, key, n, last),
         NEW e \in 0..KeyLength - 1, NEW k \in Sharing(keys, key, e), PlaceAt(keys, k, e)
  PROVE  e \in 0..last /\ OnPath(f, keys, k, e) = OnPath(f, keys, key, e)
<1>1. last \in Nat /\ KeyLength \in Nat /\ e \in Nat
  BY KeyLengthType DEF IsDown
<1>2. Agree(k, key, e) /\ k \in keys /\ Sharing(keys, k, e) = Sharing(keys, key, e)
  BY SharingOfMember
<1>3. ASSUME e > last PROVE FALSE
  <2>1. PICK up : up = e - 1
    OBVIOUS
  <2>2. up \in Nat /\ up >= last /\ e # 0 /\ up <= e
    BY <1>1, <1>3, <2>1
  <2>3. Sharing(keys, key, e) \subseteq Sharing(keys, key, up)
    BY <1>1, <2>2, SharingDeeper
  <2>4. k \in Sharing(keys, key, up)
    BY <2>3
  <2>5. Sharing(keys, k, up) = Sharing(keys, key, up)
    BY <2>4, SharingOfMember
  <2>6. IsShared(Sharing(keys, key, up))
    BY <2>1, <2>2, <2>5 DEF PlaceAt
  <2>7. CASE Sharing(keys, key, last) = {key}
    <3>1. Sharing(keys, key, up) \subseteq {key}
      BY <1>1, <2>2, <2>7, SharingDeeper
    <3> QED
      BY <2>6, <3>1 DEF IsShared
  <2>8. CASE Sharing(keys, key, last) # {key}
    <3>1. Sharing(keys, key, e) = {}
      BY <1>1, <1>3, <2>8, NothingBelow
    <3> QED
      BY <3>1
  <2> QED
    BY <2>7, <2>8
<1> QED
  BY <1>1, <1>2, <1>3 DEF OnPath

\* The nodes beside the path of a key stay what they are.
LEMMA BesidePath ==
  ASSUME NEW c, NEW d, NEW key, NEW value, NEW f, NEW g, Writes(c, d, key, value, f, g),
         NEW keys, keys = DOMAIN c, NEW all, all = DOMAIN d,
         NEW depth \in 0..KeyLength - 1, NEW k \in all, key \notin Sharing(all, k, depth)
  PROVE  /\ k \in keys /\ key \notin Sharing(keys, k, depth) /\ depth # 0
         /\ Sharing(all, k, depth) = Sharing(keys, k, depth)
         /\ OnPath(g, all, k, depth) = OnPath(f, keys, k, depth)
<1>1. all = keys \cup {key} /\ AreKeys(all) /\ AreKeys(keys)
  BY WritesEffect
<1>2. AreNodes(f, c) /\ AreNodes(g, d)
  BY DEF Writes
<1>3. \A j \in keys : j # key => d[j] = c[j]
  BY DEF Writes, Put
<1>4. k \in Sharing(all, k, depth)
  BY DEF Sharing
<1>5. k \in keys /\ k # key
  BY <1>1, <1>4
<1>6. Sharing(all, k, depth) = Sharing(keys, k, depth)
  BY <1>1, <1>5, SharingWithKey
<1>7. depth # 0
  <2>1. ASSUME depth = 0 PROVE FALSE
    <3>1. Sharing(all, k, depth) = all
      BY <2>1, SharingAll
    <3> QED
      BY <1>1, <3>1
  <2> QED
    BY <2>1
<1>8. PICK S : S = Sharing(keys, k, depth)
  OBVIOUS
<1>9. SameContent(c, d, S)
  <2>1. ASSUME NEW j \in S PROVE j \in DOMAIN c /\ j \in DOMAIN d /\ c[j] = d[j]
    <3>1. j \in keys /\ j # key
      BY <1>6, <1>8, <2>1 DEF Sharing
    <3> QED
      BY <1>1, <1>3, <3>1
  <2> QED
    BY <2>1 DEF SameContent
<1>10. SameNodesAt(f, c, g, d, depth)
  <2>1. AreKeys(DOMAIN c) /\ AreKeys(DOMAIN d)
    BY <1>1
  <2> QED
    BY <1>2, <2>1, SameNodesEverywhere
<1>11. f[<<depth, S>>] = g[<<depth, S>>]
  BY <1>5, <1>6, <1>8, <1>9, <1>10 DEF SameNodesAt
<1> QED
  BY <1>5, <1>6, <1>7, <1>8, <1>11 DEF OnPath

\* A node beside the path is none of the nodes of the path.
LEMMA BesideIsNotOld ==
  ASSUME NEW c, NEW d, NEW key, NEW value, NEW f, NEW g, Writes(c, d, key, value, f, g),
         NEW keys, keys = DOMAIN c, NEW all, all = DOMAIN d,
         NEW depth \in 0..KeyLength - 1, NEW k \in all, key \notin Sharing(all, k, depth),
         NEW e \in 0..KeyLength - 1, Sharing(keys, key, e) # {}
  PROVE  OnPath(g, all, k, depth) # OnPath(f, keys, key, e)
<1>1. all = keys \cup {key} /\ AreKeys(DOMAIN c) /\ AreKeys(DOMAIN d)
  BY WritesEffect
<1>2. AreNodes(f, c) /\ AreNodes(g, d) /\ Distinct(c, d)
  BY DEF Writes
<1>3. SUFFICES ASSUME OnPath(g, all, k, depth) = OnPath(f, keys, key, e) PROVE FALSE
  OBVIOUS
<1>4. PICK j : j \in Sharing(keys, key, e)
  OBVIOUS
<1>5. j \in DOMAIN c /\ Agree(j, key, e) /\ Sharing(keys, j, e) = Sharing(keys, key, e)
  BY <1>4, SharingOfMember
<1>6. SamePlaceAt(f, c, g, d, e)
  BY <1>1, <1>2, SamePlace
<1>7. PICK S, T : S = Sharing(DOMAIN c, j, e) /\ T = Sharing(DOMAIN d, k, depth)
  OBVIOUS
<1>8. f[<<e, S>>] = g[<<depth, T>>]
  BY <1>3, <1>5, <1>7 DEF OnPath
<1>9. e = depth /\ S = T
  BY <1>5, <1>6, <1>7, <1>8 DEF SamePlaceAt
<1>10. j \in Sharing(all, k, depth)
  BY <1>4, <1>5, <1>7, <1>9
<1>11. Agree(j, k, depth) /\ Agree(j, key, depth)
  BY <1>5, <1>9, <1>10 DEF Sharing, Agree
<1>12. key \in Sharing(all, k, depth)
  BY <1>1, <1>11 DEF Sharing, Agree
<1> QED
  BY <1>12

\* A place beside the path has been one before, or it is that of the leaf pushed down last.
LEMMA BesidePlace ==
  ASSUME NEW path, NEW f, NEW keys, NEW key, NEW n, NEW last, IsDown(path, f, keys, key, n, last),
         NEW all, all = keys \cup {key},
         NEW depth \in 0..KeyLength - 1, NEW k \in all, key \notin Sharing(all, k, depth)
  PROVE  /\ PlaceAt(keys, k, depth) => PlaceAt(all, k, depth)
         /\ PlaceAt(all, k, depth) =>
              \/ PlaceAt(keys, k, depth)
              \/ depth = last + 1 /\ Sharing(keys, key, last) = {k} /\ k # key
<1>1. last \in Nat /\ KeyLength \in Nat /\ depth \in Nat
  BY KeyLengthType DEF IsDown
<1>2. k \in keys /\ k # key /\ k \in Sharing(all, k, depth)
  <2>1. k \in Sharing(all, k, depth)
    BY DEF Sharing
  <2> QED
    BY <2>1
<1>3. CASE depth = 0
  BY <1>3 DEF PlaceAt
<1>4. CASE depth # 0
  <2>1. PICK up, S, T : up = depth - 1 /\ S = Sharing(keys, k, up) /\ T = Sharing(all, k, up)
    OBVIOUS
  <2>2. up \in Nat /\ up <= depth /\ depth = up + 1
    BY <1>1, <1>4, <2>1
  <2>3. PlaceAt(keys, k, depth) <=> IsShared(S)
    BY <1>4, <2>1 DEF PlaceAt
  <2>4. PlaceAt(all, k, depth) <=> IsShared(T)
    BY <1>4, <2>1 DEF PlaceAt
  <2>5. S \subseteq T /\ k \in S
    BY <1>2, <2>1 DEF Sharing
  <2>6. IsShared(S) => IsShared(T)
    BY <2>5, FewerShared
  <2>7. ASSUME IsShared(T), ~IsShared(S)
        PROVE  depth = last + 1 /\ Sharing(keys, key, last) = {k}
    <3>1. S = {k}
      BY <2>5, <2>7, SharedOrNot
    <3>2. key \in T
      <4>1. key \notin T => T = S
        BY <2>1 DEF Sharing
      <4> QED
        BY <2>7, <4>1
    <3>3. Agree(key, k, up)
      BY <2>1, <3>2 DEF Sharing, Agree
    <3>4. Sharing(keys, key, up) = {k}
      BY <2>1, <3>1, <3>3 DEF Sharing, Agree
    <3>5. ~Agree(key, k, depth)
      BY DEF Sharing, Agree
    <3>6. Sharing(keys, key, depth) = {}
      <4>1. Sharing(keys, key, depth) \subseteq {k}
        BY <1>1, <2>2, <3>4, SharingDeeper
      <4>2. k \notin Sharing(keys, key, depth)
        BY <3>5 DEF Sharing, Agree
      <4> QED
        BY <4>1, <4>2
    <3>7. ~(up > last)
      <4>1. ASSUME up > last PROVE FALSE
        <5>1. Sharing(keys, key, up) \subseteq {key}
          BY <2>2, <4>1, NothingBelow
        <5> QED
          BY <1>2, <3>4, <5>1
      <4> QED
        BY <4>1
    <3>8. ~(up < last)
      <4>1. ASSUME up < last PROVE FALSE
        <5>1. depth \in 0..last
          BY <1>1, <2>2, <4>1
        <5> QED
          BY <3>6, <5>1 DEF IsDown
      <4> QED
        BY <4>1
    <3>9. up = last
      BY <1>1, <2>2, <3>7, <3>8
    <3> QED
      BY <2>2, <3>4, <3>9
  <2> QED
    BY <1>2, <2>3, <2>4, <2>6, <2>7
<1> QED
  BY <1>3, <1>4

\* The leaves that the path of a key pushes down.
PushedAt(f, keys, key, last) ==
  {f[<<e + 1, Sharing(keys, key, e)>>] :
     e \in {d \in 0..last : ~IsShared(Sharing(keys, key, d)) /\ Sharing(keys, key, d) # {key}}}

LEMMA PushedLeavesEffect ==
  ASSUME NEW c, NEW keys, keys = DOMAIN c, NEW key, AreKeys(keys \cup {key}), NEW f, AreNodes(f, c),
         NEW path, NEW n, NEW last, IsDown(path, f, keys, key, n, last)
  PROVE  PushedLeaves(path, key) = PushedAt(f, keys, key, last)
<1>1. last \in Nat /\ KeyLength \in Nat /\ n = last + 1 /\ Len(path) = n /\ last \in 0..KeyLength - 1
  BY KeyLengthType DEF IsDown
<1>2. ASSUME NEW e \in 0..last
      PROVE  /\ ~IsStandard(path[e + 1]) /\ ~HoldsKey(e, path[e + 1], key)
                  <=> ~IsShared(Sharing(keys, key, e)) /\ Sharing(keys, key, e) # {key}
             /\ ~IsShared(Sharing(keys, key, e)) /\ Sharing(keys, key, e) # {key}
                  => PushedDown(e, path[e + 1]) = f[<<e + 1, Sharing(keys, key, e)>>]
  <2>1. PICK S, a, next : S = Sharing(keys, key, e) /\ a = path[e + 1] /\ next = e + 1
    OBVIOUS
  <2>2. a = OnPath(f, keys, key, e) /\ S # {} /\ e \in 0..KeyLength - 1 /\ e \in Nat
    BY <1>1, <2>1 DEF IsDown
  <2>3. IsShared(S) => IsStandard(a)
    BY <2>1, <2>2, NodeOnPath
  <2>4. ~IsShared(S) => ~IsStandard(a) /\ \E j \in keys : S = {j} /\ a = LeafOf(c, e, j)
    BY <2>1, <2>2, NodeOnPath
  <2>5. ~IsStandard(a) /\ HoldsKey(e, a, key) <=> S = {key}
    BY <2>1, <2>2, NodeOnPath
  <2>6. ASSUME ~IsShared(S), S # {key} PROVE PushedDown(e, a) = f[<<next, S>>]
    <3>1. PICK j \in keys : S = {j} /\ a = LeafOf(c, e, j)
      BY <2>4, <2>6
    <3>2. next \in 0..KeyLength - 1
      <4>1. CASE e = last
        <5>1. n \in 0..KeyLength - 1
          BY <2>1, <2>6, <4>1 DEF IsDown
        <5> QED
          BY <1>1, <2>1, <4>1, <5>1
      <4>2. CASE e # last
        BY <1>1, <2>1, <4>2
      <4> QED
        BY <4>1, <4>2
    <3>3. IsKey(j)
      BY DEF AreKeys
    <3>4. PICK x : x = c[j]
      OBVIOUS
    <3>5. PushedDown(e, Leaf(Trailing(e, j), x)) = Leaf(Trailing(next, j), x)
      BY <2>1, <2>2, <3>2, <3>3, PushedDownEffect
    <3>6. Sharing(DOMAIN c, j, next) = {j}
      <4>1. Sharing(keys, j, e) = S
        <5>1. j \in Sharing(keys, key, e)
          BY <2>1, <3>1
        <5> QED
          BY <2>1, <5>1, SharingOfMember
      <4>2. Sharing(keys, j, next) \subseteq S
        BY <2>1, <2>2, <4>1, SharingLess
      <4>3. j \in Sharing(keys, j, next)
        BY DEF Sharing
      <4> QED
        BY <3>1, <4>2, <4>3
    <3>7. PICK T, b, after : T = Sharing(DOMAIN c, j, next) /\ b = f[<<next, T>>] /\ after = next + 1
      OBVIOUS
    <3>8. b = LeafOf(c, next, j)
      <4>1. j \in DOMAIN c /\ T = {j}
        BY <3>6, <3>7
      <4> QED
        BY <3>2, <3>7, <4>1, NodeOfClass
    <3> QED
      BY <3>1, <3>4, <3>5, <3>6, <3>7, <3>8 DEF LeafOf
  <2> QED
    BY <2>1, <2>3, <2>4, <2>5, <2>6
<1>3. ASSUME NEW j \in 1..Len(path)
      PROVE  j - 1 \in 0..last /\ j - 1 + 1 = j
  BY <1>1
<1>4. ASSUME NEW x, x \in PushedLeaves(path, key) PROVE x \in PushedAt(f, keys, key, last)
  <2>1. PICK j \in 1..Len(path) : /\ ~IsStandard(path[j]) /\ ~HoldsKey(j - 1, path[j], key)
                                  /\ x = PushedDown(j - 1, path[j])
    BY <1>4 DEF PushedLeaves
  <2>2. PICK e : e = j - 1
    OBVIOUS
  <2>3. e \in 0..last /\ e + 1 = j
    BY <1>3, <2>2
  <2>4. ~IsShared(Sharing(keys, key, e)) /\ Sharing(keys, key, e) # {key}
    BY <1>2, <2>1, <2>2, <2>3
  <2>5. x = f[<<e + 1, Sharing(keys, key, e)>>]
    BY <1>2, <2>1, <2>2, <2>3, <2>4
  <2> QED
    BY <2>3, <2>4, <2>5 DEF PushedAt
<1>5. ASSUME NEW e \in 0..last, ~IsShared(Sharing(keys, key, e)), Sharing(keys, key, e) # {key},
             NEW x, x = f[<<e + 1, Sharing(keys, key, e)>>]
      PROVE  x \in PushedLeaves(path, key)
  <2>1. PICK j : j = e + 1
    OBVIOUS
  <2>2. j \in 1..Len(path) /\ j - 1 = e
    BY <1>1, <2>1
  <2>3. ~IsStandard(path[j]) /\ ~HoldsKey(j - 1, path[j], key) /\ x = PushedDown(j - 1, path[j])
    BY <1>2, <1>5, <2>1, <2>2
  <2> QED
    BY <2>2, <2>3 DEF PushedLeaves
<1>6. \A x : x \in PushedAt(f, keys, key, last) => x \in PushedLeaves(path, key)
  BY <1>5 DEF PushedAt
<1> QED
  BY <1>4, <1>6

LEMMA WithPushedEffect ==
  ASSUME NEW cache, IsCache(cache), NEW pushed, NEW other, other = WithPushed(cache, pushed), NEW nodes
  PROVE  /\ IsCache(other) /\ other.root = cache.root
         /\ Visible(nodes, other) = Visible(nodes, cache) \cup pushed
<1>1. PICK ins, del : ins = cache.ins \cup pushed /\ del = cache.del \ pushed
  OBVIOUS
<1>2. other = CacheWith(cache, ins, del)
  BY <1>1 DEF WithPushed, CacheWith
<1>3. IsCache(other) /\ other.ins = ins /\ other.del = del /\ other.root = cache.root
  BY <1>2, ChangedCache
<1> QED
  BY <1>1, <1>3 DEF Visible

\* All that a write does along the path.
LEMMA WriteAlongEffect ==
  ASSUME NEW c, NEW d, NEW key, NEW value, NEW f, NEW g, Writes(c, d, key, value, f, g),
         NEW keys, keys = DOMAIN c, NEW all, all = DOMAIN d, NEW new, new = NodesOnPath(g, all, key),
         NEW path, NEW n, IsWholePath(path, f, keys, key, n), NEW last, last = n - 1,
         NEW deepest, deepest = LeafDepth(keys, key, last),
         NEW cache, IsCache(cache), NEW base, base = cache.root, NEW nodes,
         NEW before, before = Visible(nodes, cache) \cup PushedLeaves(path, key),
         NEW t, t = WriteAlong(cache, path, key, value)
  PROVE  IsWritten(t, nodes, base, before, new, 0, last, deepest, f, keys, key)
<1>1. AreKeys(keys \cup {key})
  <2>1. DOMAIN d = DOMAIN c \cup {key} /\ AreKeys(DOMAIN d)
    BY WritesEffect
  <2> QED
    BY <2>1
<1>2. IsDown(path, f, keys, key, n, last)
  BY <1>1, WholePathEffect
<1>3. /\ n \in Nat /\ last \in 0..KeyLength - 1 /\ last \in Nat /\ KeyLength \in Nat
      /\ Len(path) = n /\ n = last + 1 /\ deepest \in 0..KeyLength - 1 /\ deepest \in Nat
  BY <1>2, KeyLengthType DEF IsDown
<1>4. last <= deepest
  BY <1>3 DEF LeafDepth
<1>5. PICK r : IsRewriteRun(r, cache, path, key, value, last)
  <2>1. last \in Nat /\ last = Len(path) - 1
    BY <1>3
  <2> QED
    BY <2>1, RewriteRun
<1> DEFINE Good(i) == IsWritten(r[i], nodes, base, before, new, last - i, last, deepest, f, keys, key)
           N == {i \in Nat : i <= last => Good(i)}
<1>6. 0 \in N
  <2>1. PICK pushed, other : pushed = PushedLeaves(path, key) /\ other = WithPushed(cache, pushed)
    OBVIOUS
  <2>2. IsCache(other) /\ other.root = base /\ Visible(nodes, other) = before
    BY <2>1, WithPushedEffect
  <2>3. PICK s : s = Deepest(other, path, key, value)
    OBVIOUS
  <2>4. IsWritten(s, nodes, base, before, new, last, last, deepest, f, keys, key)
    BY <2>2, <2>3, DeepestEffect
  <2>5. r[0] = s /\ last - 0 = last
    BY <1>3, <1>5, <2>1, <2>3 DEF IsRewriteRun
  <2> QED
    BY <2>4, <2>5
<1>7. ASSUME NEW i \in Nat, i \in N PROVE i + 1 \in N
  <2> SUFFICES ASSUME i + 1 <= last PROVE Good(i + 1)
    OBVIOUS
  <2>1. PICK j, depth, next, s, q : /\ j = i + 1 /\ depth = last - j /\ next = depth + 1
                                    /\ s = r[i] /\ q = r[j]
    OBVIOUS
  <2>2. /\ j \in 1..last /\ j - 1 = i /\ n - j - 1 = depth /\ next = last - i
        /\ depth \in 0..KeyLength - 1 /\ next \in 0..KeyLength - 1 /\ depth \in 0..last
        /\ depth # last /\ next <= deepest
    BY <1>3, <1>4, <2>1
  <2>3. IsWritten(s, nodes, base, before, new, next, last, deepest, f, keys, key)
    BY <1>3, <1>7, <2>1, <2>2
  <2>4. q = Rewrite(s, path, depth, key)
    <3>1. r[j] = Rewrite(r[j - 1], path, last - j, key)
      BY <1>5, <2>2 DEF IsRewriteRun
    <3> QED
      BY <2>1, <2>2, <3>1
  <2>5. PICK S : S = Sharing(keys, key, depth)
    OBVIOUS
  <2>6. S # {} /\ S # {key} /\ path[next] = OnPath(f, keys, key, depth)
    BY <1>2, <2>1, <2>2, <2>5 DEF IsDown
  <2>7. IsCache(s.cache) /\ s.hash = OnPath(g, all, key, next)
    BY <2>2, <2>3 DEF IsWritten, NodesOnPath
  <2>8. IsWriting(q, s, nodes, OnPath(f, keys, key, depth), OnPath(g, all, key, depth))
    BY <2>1, <2>2, <2>4, <2>5, <2>6, <2>7, RewriteEffect
  <2>9. Sharing(keys, key, depth) # {} /\ deepest >= last
    BY <1>3, <1>4, <2>5, <2>6
  <2>10. IsWritten(q, nodes, base, before, new, depth, last, deepest, f, keys, key)
    BY <1>3, <2>1, <2>2, <2>3, <2>8, <2>9, WrittenOneMore
  <2> QED
    BY <2>1, <2>10
<1> HIDE DEF N
<1>8. last \in N
  BY <1>3, <1>6, <1>7, InductionOnNumbers
<1>9. IsWritten(r[last], nodes, base, before, new, last - last, last, deepest, f, keys, key)
  BY <1>3, <1>8 DEF N
<1>10. r[last] = t /\ last - last = 0
  BY <1>3, <1>5 DEF IsRewriteRun
<1> QED
  BY <1>9, <1>10

\* The nodes that a write leaves, from those that it has found.
LEMMA NodesWritten ==
  ASSUME NEW c, NEW d, NEW key, NEW value, NEW f, NEW g, Writes(c, d, key, value, f, g),
         NEW keys, keys = DOMAIN c, NEW all, all = DOMAIN d, NEW new, new = NodesOnPath(g, all, key),
         NEW path, NEW n, NEW last, IsDown(path, f, keys, key, n, last),
         NEW deepest, deepest = LeafDepth(keys, key, last),
         NEW visible, NEW root, root = f[<<0, keys>>],
         visible \cup {root} = PlaceNodes(f, keys)
  PROVE  ((visible \cup PushedLeaves(path, key)) \ OldNodes(f, keys, key, 0, last))
           \cup {new[e] : e \in 0..deepest} = PlaceNodes(g, all)
<1>1. all = keys \cup {key} /\ AreKeys(all) /\ keys # {} /\ all # {}
  <2>1. DOMAIN d = DOMAIN c \cup {key} /\ AreKeys(DOMAIN d)
    BY DEF Writes, Put
  <2>2. DOMAIN c # {}
    BY DEF Writes
  <2> QED
    BY <2>1, <2>2
<1>2. AreNodes(f, c) /\ AreNodes(g, d)
  BY DEF Writes
<1>3. PICK P, O, W : /\ P = PushedLeaves(path, key) /\ O = OldNodes(f, keys, key, 0, last)
                     /\ W = {new[e] : e \in 0..deepest}
  OBVIOUS
<1>4. P = PushedAt(f, keys, key, last)
  <2>1. AreKeys(keys \cup {key})
    BY <1>1
  <2> QED
    BY <1>2, <1>3, <2>1, PushedLeavesEffect
<1>5. last \in Nat /\ KeyLength \in Nat /\ deepest \in 0..KeyLength - 1 /\ last \in 0..KeyLength - 1
  BY KeyLengthType DEF IsDown
<1>6. \A x : x \in PlaceNodes(g, all) <=>
        \E depth \in 0..KeyLength - 1, k \in all : x = OnPath(g, all, k, depth) /\ PlaceAt(all, k, depth)
  BY <1>1, PlaceNodesAre
<1>7. \A x : x \in PlaceNodes(f, keys) <=>
        \E depth \in 0..KeyLength - 1, k \in keys : x = OnPath(f, keys, k, depth) /\ PlaceAt(keys, k, depth)
  BY <1>1, PlaceNodesAre
<1>8. ASSUME NEW e \in 0..KeyLength - 1
      PROVE  PlaceAt(all, key, e) <=> e \in 0..deepest
  BY <1>1, PlacesOfKey
<1>9. ASSUME NEW e \in 0..deepest PROVE new[e] \in PlaceNodes(g, all)
  <2>1. e \in 0..KeyLength - 1
    BY <1>5
  <2>2. new[e] = OnPath(g, all, key, e) /\ PlaceAt(all, key, e)
    BY <1>8, <2>1 DEF NodesOnPath
  <2> QED
    BY <1>1, <1>6, <2>1, <2>2
<1>10. root \in O
  <2>1. root = OnPath(f, keys, key, 0)
    BY SharingAll DEF OnPath
  <2>2. 0 \in 0..last
    BY <1>5
  <2> QED
    BY <1>3, <2>1, <2>2 DEF OldNodes
<1>11. ASSUME NEW x \in visible, x \notin O PROVE x \in PlaceNodes(g, all)
  <2>1. PICK depth \in 0..KeyLength - 1, k \in keys :
          x = OnPath(f, keys, k, depth) /\ PlaceAt(keys, k, depth)
    BY <1>7
  <2>2. k \in all
    BY <1>1
  <2>3. CASE key \in Sharing(all, k, depth)
    <3>1. k \in Sharing(keys, key, depth)
      BY <2>3 DEF Sharing
    <3>2. depth \in 0..last /\ OnPath(f, keys, k, depth) = OnPath(f, keys, key, depth)
      BY <2>1, <3>1, PlacesVisited
    <3> QED
      BY <1>3, <1>11, <2>1, <3>2 DEF OldNodes
  <2>4. CASE key \notin Sharing(all, k, depth)
    <3>1. OnPath(g, all, k, depth) = OnPath(f, keys, k, depth)
      BY <2>2, <2>4, BesidePath
    <3>2. PlaceAt(all, k, depth)
      BY <1>1, <2>1, <2>2, <2>4, BesidePlace
    <3> QED
      BY <1>6, <2>1, <2>2, <3>1, <3>2
  <2> QED
    BY <2>3, <2>4
<1>12. ASSUME NEW e \in 0..last, ~IsShared(Sharing(keys, key, e)), Sharing(keys, key, e) # {key},
              NEW x, x = f[<<e + 1, Sharing(keys, key, e)>>]
       PROVE  x \in O \cup PlaceNodes(g, all)
  <2>1. PICK S, next : S = Sharing(keys, key, e) /\ next = e + 1
    OBVIOUS
  <2>2. S # {} /\ e \in 0..KeyLength - 1 /\ e \in Nat
    BY <1>5, <2>1 DEF IsDown
  <2>3. PICK j : j \in S
    BY <2>2
  <2>4. S = {j}
    BY <1>12, <2>1, <2>3, SharedOrNot
  <2>5. j # key
    BY <1>12, <2>1, <2>4
  <2>6. Sharing(keys, key, next) \subseteq S
    BY <2>1, <2>2, SharingLess
  <2>7. CASE e # last
    <3>1. next \in 0..last
      BY <1>5, <2>1, <2>7
    <3>2. Sharing(keys, key, next) # {}
      BY <3>1 DEF IsDown
    <3>3. Sharing(keys, key, next) = S
      BY <2>4, <2>6, <3>2
    <3>4. x = OnPath(f, keys, key, next)
      BY <1>12, <2>1, <3>3 DEF OnPath
    <3> QED
      BY <1>3, <3>1, <3>4 DEF OldNodes
  <2>8. CASE e = last
    <3>1. n = next /\ n \in 0..KeyLength - 1 /\ Sharing(keys, key, n) = {}
      BY <1>12, <2>1, <2>8 DEF IsDown
    <3>2. j \in keys /\ j \in all /\ Agree(j, key, e)
      BY <1>1, <2>1, <2>3, SharingOfMember
    <3>3. ~Agree(j, key, next)
      BY <3>1, <3>2 DEF Sharing, Agree
    <3>4. key \notin Sharing(all, j, next)
      BY <3>3 DEF Sharing, Agree
    <3>5. /\ key \notin Sharing(keys, j, next) /\ next # 0
          /\ Sharing(all, j, next) = Sharing(keys, j, next)
          /\ OnPath(g, all, j, next) = OnPath(f, keys, j, next)
      BY <3>1, <3>2, <3>4, BesidePath
    <3>6. Sharing(keys, j, next) = S
      <4>1. Sharing(keys, j, e) = S
        BY <2>1, <2>3, SharingOfMember
      <4>2. Sharing(keys, j, next) \subseteq S
        BY <2>1, <2>2, <4>1, SharingLess
      <4>3. j \in Sharing(keys, j, next)
        BY <3>2 DEF Sharing
      <4> QED
        BY <2>4, <4>2, <4>3
    <3>7. x = OnPath(g, all, j, next)
      BY <1>12, <2>1, <3>5, <3>6 DEF OnPath
    <3>8. PlaceAt(all, j, next)
      <4>1. j \in Sharing(all, j, e) /\ key \in Sharing(all, j, e)
        BY <1>1, <3>2 DEF Sharing, Agree
      <4>2. IsShared(Sharing(all, j, e))
        BY <2>5, <4>1 DEF IsShared
      <4>3. next - 1 = e
        BY <2>1, <2>2
      <4> QED
        BY <4>2, <4>3 DEF PlaceAt
    <3>9. next \in 0..KeyLength - 1
      BY <3>1
    <3> QED
      BY <1>6, <3>2, <3>7, <3>8, <3>9
  <2> QED
    BY <2>7, <2>8
<1>13. ASSUME NEW x \in P, x \notin O PROVE x \in PlaceNodes(g, all)
  BY <1>4, <1>12, <1>13 DEF PushedAt
<1>14. ASSUME NEW x \in PlaceNodes(g, all), x \notin W
       PROVE  x \in visible \cup P /\ x \notin O
  <2>1. PICK depth \in 0..KeyLength - 1, k \in all :
          x = OnPath(g, all, k, depth) /\ PlaceAt(all, k, depth)
    BY <1>6
  <2>2. CASE key \in Sharing(all, k, depth)
    <3>1. Sharing(all, k, depth) = Sharing(all, key, depth)
      BY <2>2, SharingOfMember
    <3>2. x = OnPath(g, all, key, depth)
      BY <2>1, <3>1 DEF OnPath
    <3>3. PlaceAt(all, key, depth)
      <4>1. CASE depth = 0
        BY <4>1 DEF PlaceAt
      <4>2. CASE depth # 0
        <5>1. PICK up : up = depth - 1
          OBVIOUS
        <5>2. up \in Nat /\ up <= depth /\ depth \in Nat
          BY <4>2, <5>1, KeyLengthType
        <5>3. Sharing(all, k, depth) \subseteq Sharing(all, k, up)
          BY <5>2, SharingDeeper
        <5>4. Sharing(all, k, up) = Sharing(all, key, up)
          BY <2>2, <5>3, SharingOfMember
        <5>5. IsShared(Sharing(all, k, up))
          BY <2>1, <4>2, <5>1 DEF PlaceAt
        <5> QED
          BY <5>1, <5>4, <5>5 DEF PlaceAt
      <4> QED
        BY <4>1, <4>2
    <3>4. depth \in 0..deepest
      BY <1>8, <3>3
    <3>5. x = new[depth]
      BY <3>2 DEF NodesOnPath
    <3> QED
      BY <1>3, <1>14, <3>4, <3>5
  <2>3. CASE key \notin Sharing(all, k, depth)
    <3>1. /\ k \in keys /\ OnPath(g, all, k, depth) = OnPath(f, keys, k, depth)
          /\ Sharing(all, k, depth) = Sharing(keys, k, depth)
      BY <2>3, BesidePath
    <3>2. \/ PlaceAt(keys, k, depth)
          \/ depth = last + 1 /\ Sharing(keys, key, last) = {k} /\ k # key
      BY <1>1, <2>1, <2>3, BesidePlace
    <3>3. x \notin O
      <4>1. ASSUME NEW e \in 0..last PROVE x # OnPath(f, keys, key, e)
        <5>1. e \in 0..KeyLength - 1 /\ Sharing(keys, key, e) # {}
          BY <1>5 DEF IsDown
        <5> QED
          BY <2>1, <2>3, <5>1, BesideIsNotOld
      <4> QED
        BY <1>3, <4>1 DEF OldNodes
    <3>4. CASE PlaceAt(keys, k, depth)
      <4>1. x \in PlaceNodes(f, keys)
        BY <1>7, <2>1, <3>1, <3>4
      <4> QED
        BY <1>10, <3>3, <4>1
    <3>5. CASE depth = last + 1 /\ Sharing(keys, key, last) = {k} /\ k # key
      <4>1. k \in Sharing(keys, key, last) /\ last <= depth /\ depth \in Nat
        BY <1>5, <3>5
      <4>2. Sharing(keys, k, last) = {k}
        BY <3>5, <4>1, SharingOfMember
      <4>3. Sharing(keys, k, depth) \subseteq {k}
        BY <1>5, <4>1, <4>2, SharingDeeper
      <4>4. Sharing(keys, k, depth) = {k}
        BY <3>1, <4>3 DEF Sharing
      <4>5. x = f[<<last + 1, Sharing(keys, key, last)>>]
        BY <2>1, <3>1, <3>5, <4>4 DEF OnPath
      <4>6. ~IsShared(Sharing(keys, key, last)) /\ Sharing(keys, key, last) # {key} /\ last \in 0..last
        <5>1. PICK S : S = Sharing(keys, key, last)
          OBVIOUS
        <5>2. S = {k} /\ k # key
          BY <3>5, <5>1
        <5>3. ~IsShared(S) /\ S # {key}
          BY <5>2 DEF IsShared
        <5> QED
          BY <1>5, <5>1, <5>3
      <4>7. x \in PushedAt(f, keys, key, last)
        BY <4>5, <4>6 DEF PushedAt
      <4> QED
        BY <1>4, <3>3, <4>7
    <3> QED
      BY <3>2, <3>4, <3>5
  <2> QED
    BY <2>2, <2>3
<1>15. W \subseteq PlaceNodes(g, all)
  BY <1>3, <1>9
<1>16. ((visible \cup P) \ O) \cup W = PlaceNodes(g, all)
  BY <1>11, <1>13, <1>14, <1>15
<1> QED
  BY <1>3, <1>16
------------------------------------------------------------------------------
(* set() *)

\* The tree of a content, as its nodes and its root; it is empty before the first write.
IsTreeOf(visible, root, f, content) ==
  /\ RootNode(root) = f[<<0, DOMAIN content>>]
  /\ visible \cup {RootNode(root)} = PlaceNodes(f, DOMAIN content)

LEMMA SetValueNodes ==
  ASSUME NEW c, NEW d, NEW key, NEW value, NEW f, NEW g, Writes(c, d, key, value, f, g),
         NEW cache, IsCache(cache), NEW nodes, NEW root, root = cache.root,
         NEW visible, visible = Visible(nodes, cache), IsTreeOf(visible, root, f, c),
         NEW t, t = SetValue(cache, key, value)
  PROVE  /\ IsCache(t) /\ t.root = g[<<0, DOMAIN d>>]
         /\ Visible(nodes, t) = PlaceNodes(g, DOMAIN d)
<1>1. PICK keys, all : keys = DOMAIN c /\ all = DOMAIN d
  OBVIOUS
<1>2. all = keys \cup {key} /\ AreKeys(all) /\ keys # {}
  BY <1>1 DEF Writes, Put
<1>3. AreNodes(f, c)
  BY DEF Writes
<1>4. PICK path : path = PathTo(root, key)
  OBVIOUS
<1>5. RootNode(root) = f[<<0, keys>>]
  BY <1>1 DEF IsTreeOf
<1>6. AreKeys(keys \cup {key})
  BY <1>2
<1>7. PICK n : IsWholePath(path, f, keys, key, n)
  BY <1>1, <1>2, <1>3, <1>4, <1>5, <1>6, PathToEffect
<1>8. PICK last, deepest, new, s : /\ last = n - 1 /\ deepest = LeafDepth(keys, key, last)
                                   /\ new = NodesOnPath(g, all, key)
                                   /\ s = WriteAlong(cache, path, key, value)
  OBVIOUS
<1>9. IsDown(path, f, keys, key, n, last)
  BY <1>6, <1>7, <1>8, WholePathEffect
<1>10. PICK before : before = visible \cup PushedLeaves(path, key)
  OBVIOUS
<1>11. IsWritten(s, nodes, root, before, new, 0, last, deepest, f, keys, key)
  BY <1>1, <1>7, <1>8, <1>10, WriteAlongEffect
<1>12. PICK top : top = f[<<0, keys>>]
  OBVIOUS
<1>13. visible \cup {top} = PlaceNodes(f, keys)
  BY <1>1, <1>5, <1>12 DEF IsTreeOf
<1>14. (before \ OldNodes(f, keys, key, 0, last)) \cup {new[e] : e \in 0..deepest} = PlaceNodes(g, all)
  BY <1>1, <1>8, <1>9, <1>10, <1>12, <1>13, NodesWritten
<1>15. IsCache(s.cache) /\ Visible(nodes, s.cache) = PlaceNodes(g, all) /\ s.hash = new[0]
  BY <1>11, <1>14 DEF IsWritten
<1>16. new[0] = g[<<0, all>>]
  <2>1. 0 \in 0..KeyLength - 1
    BY KeyLengthType
  <2>2. new[0] = OnPath(g, all, key, 0)
    BY <1>8, <2>1 DEF NodesOnPath
  <2> QED
    BY <2>2, SharingAll DEF OnPath
<1>17. t = [s.cache EXCEPT !.root = s.hash]
  BY <1>4, <1>8 DEF SetValue
<1>18. IsCache(t) /\ t.root = s.hash /\ t.ins = s.cache.ins /\ t.del = s.cache.del
  <2>1. PICK w, h : w = s.cache /\ h = s.hash
    OBVIOUS
  <2>2. w = [x \in CacheFields |-> w[x]]
    BY <1>15, <2>1 DEF IsCache
  <2>3. t = [w EXCEPT !.root = h]
    BY <1>17, <2>1
  <2>4. t = [x \in CacheFields |-> t[x]] /\ t.root = h /\ t.ins = w.ins /\ t.del = w.del
    BY <2>2, <2>3 DEF CacheFields
  <2> QED
    BY <2>1, <2>4 DEF IsCache
<1> QED
  BY <1>1, <1>15, <1>16, <1>18 DEF Visible


\* The tree that a cache shows over the committed nodes.
ShownTree(nodes, cache) == [root |-> cache.root, nodes |-> Visible(nodes, cache)]

\* The content of a tree of at least one value, with the null key.
Entered(content) == Put(content, NullKey, NullHash)

LEMMA NullKeyIsKey == IsKey(NullKey)
BY DEF IsKey, NullKey

LEMMA WholeKeyTrails ==
  ASSUME NEW k, IsKey(k)
  PROVE  Trailing(0, k) = k
<1>1. PICK s, next, zero : zero = 0 /\ next = zero + 1 /\ s = SubSeq(k, next, KeyLength)
  OBVIOUS
<1>2. IsRest(s, k, zero)
  <2>1. zero \in 0..KeyLength - 1
    BY <1>1, KeyLengthType
  <2> QED
    BY <1>1, <2>1, RestOfKey
<1>3. /\ s \in Seq(0..15) /\ Len(s) = KeyLength /\ \A i \in 1..KeyLength : s[i] = k[i]
  BY <1>1, <1>2, KeyLengthType DEF IsRest
<1>4. k \in Seq(0..15) /\ Len(k) = KeyLength
  BY KeySequence
<1>5. \A i \in 1..Len(s) : s[i] = k[i]
  BY <1>3
<1>6. s = k
  BY <1>3, <1>4, <1>5, SameSequence
<1>7. ~IsOdd(0)
  BY DEF IsOdd
<1> QED
  BY <1>1, <1>6, <1>7 DEF Trailing

\* What the tables and the cache say, before and after the first write.
LEMMA TreeIsShown ==
  ASSUME NEW content, NullKey \notin DOMAIN content, NEW all, all = Entered(content), AreKeys(DOMAIN all),
         NEW f, f = NodesFor(all), NEW tree, tree = TreeOf(content)
  PROVE  /\ AreNodes(f, all)
         /\ DOMAIN content # {} => /\ tree = [root |-> f[<<0, DOMAIN all>>], nodes |-> PlaceNodes(f, DOMAIN all)]
                                   /\ RootNode(tree.root) = tree.root
         /\ IsTreeOf(tree.nodes, tree.root, f, all)
<1>1. AreNodes(f, all)
  BY NodesForEffect
<1>2. PICK keys, root : keys = DOMAIN all /\ root = f[<<0, keys>>]
  OBVIOUS
<1>3. keys = DOMAIN content \cup {NullKey} /\ all[NullKey] = NullHash
  BY <1>2 DEF Entered, Put
<1>4. Sharing(keys, NullKey, 0) = keys /\ NullKey \in keys
  BY <1>3, SharingAll
<1>5. PICK zero, next : zero = 0 /\ next = zero + 1
  OBVIOUS
<1>6. zero \in 0..KeyLength - 1 /\ keys = Sharing(DOMAIN all, NullKey, zero) /\ NullKey \in DOMAIN all
      /\ root = f[<<zero, keys>>]
  BY <1>2, <1>4, <1>5, KeyLengthType
<1>7. CASE DOMAIN content # {}
  <2>1. tree = [root |-> root, nodes |-> PlaceNodes(f, keys)]
    BY <1>2, <1>7 DEF TreeOf, Entered, PlaceNodes
  <2>2. IsShared(keys)
    BY <1>3, <1>7 DEF IsShared
  <2>3. root = Standard(ChildrenOver(f, next, keys))
    BY <1>1, <1>5, <1>6, <2>2, NodeOfClass
  <2>4. root # NullHash
    BY <2>3, StandardFields
  <2>5. tree.root = root /\ tree.nodes = PlaceNodes(f, keys) /\ RootNode(root) = root
    BY <2>1, <2>4 DEF RootNode
  <2>6. root \in PlaceNodes(f, keys)
    <3>1. <<0, keys>> \in Places(keys)
      BY DEF Places
    <3> QED
      BY <1>2, <3>1 DEF PlaceNodes
  <2> QED
    BY <1>1, <1>2, <2>1, <2>5, <2>6 DEF IsTreeOf
<1>8. CASE DOMAIN content = {}
  <2>1. tree.root = NullHash /\ tree.nodes = {}
    BY <1>8 DEF TreeOf, EmptyTree
  <2>2. keys = {NullKey}
    BY <1>3, <1>8
  <2>3. root = LeafOf(all, zero, NullKey)
    BY <1>1, <1>5, <1>6, <2>2, NodeOfClass
  <2>4. root = Leaf(NullKey, NullHash)
    BY <1>3, <1>5, <2>3, NullKeyIsKey, WholeKeyTrails DEF LeafOf
  <2>5. RootNode(tree.root) = root
    BY <2>1, <2>4 DEF RootNode
  <2>6. ~IsShared(keys)
    BY <2>2 DEF IsShared
  <2>7. Places(keys) = {<<0, keys>>}
    <3>1. ASSUME NEW k \in keys, NEW d PROVE ~IsShared(Sharing(keys, k, d))
      <4>1. Sharing(keys, k, d) \subseteq keys
        BY DEF Sharing
      <4> QED
        BY <2>6, <4>1, FewerShared
    <3> QED
      BY <3>1 DEF Places
  <2>8. PlaceNodes(f, keys) = {root}
    BY <1>2, <2>7 DEF PlaceNodes
  <2> QED
    BY <1>1, <1>2, <1>8, <2>1, <2>5, <2>8 DEF IsTreeOf
<1> QED
  BY <1>7, <1>8

\* Whatever a write finds, it leaves the tree of the content with the new value.
LEMMA SetValueEffect ==
  ASSUME NEW nodes, NEW cache, IsCache(cache), NEW content, ShownTree(nodes, cache) = TreeOf(content),
         NEW key, NEW value, NEW more, more = Put(content, key, value),
         NullKey \notin DOMAIN more, AreKeys(DOMAIN Entered(more)),
         Distinct(Entered(content), Entered(more)),
         NEW t, t = SetValue(cache, key, value)
  PROVE  IsCache(t) /\ ShownTree(nodes, t) = TreeOf(more)
<1>1. PICK c, d : c = Entered(content) /\ d = Entered(more)
  OBVIOUS
<1>2. /\ DOMAIN more = DOMAIN content \cup {key} /\ key # NullKey
      /\ DOMAIN c = DOMAIN content \cup {NullKey} /\ DOMAIN d = DOMAIN more \cup {NullKey}
  BY <1>1 DEF Put, Entered
<1>3. d = Put(c, key, value)
  <2>1. ASSUME NEW j \in DOMAIN d
        PROVE  d[j] = IF j = key THEN value ELSE c[j]
    <3>1. CASE j = NullKey
      BY <1>1, <1>2, <3>1 DEF Put, Entered
    <3>2. CASE j # NullKey
      BY <1>1, <1>2, <3>2 DEF Put, Entered
    <3> QED
      BY <3>1, <3>2
  <2>2. d = [j \in DOMAIN d |-> d[j]]
    BY <1>1 DEF Put, Entered
  <2>3. DOMAIN d = DOMAIN c \cup {key}
    BY <1>2
  <2> DEFINE D == DOMAIN c \cup {key}
             A(j) == d[j]
             B(j) == IF j = key THEN value ELSE c[j]
  <2>4. \A j \in D : A(j) = B(j)
    BY <2>1, <2>3
  <2>5. d = [j \in D |-> A(j)]
    BY <2>2, <2>3
  <2>6. Put(c, key, value) = [j \in D |-> B(j)]
    BY DEF Put
  <2> HIDE DEF A, B, D
  <2>7. [j \in D |-> A(j)] = [j \in D |-> B(j)]
    BY <2>4
  <2> QED
    BY <2>5, <2>6, <2>7
<1>4. AreKeys(DOMAIN d) /\ AreKeys(DOMAIN c)
  BY <1>1, <1>2 DEF AreKeys
<1>5. PICK f, g : f = NodesFor(c) /\ g = NodesFor(d)
  OBVIOUS
<1>6. PICK tree, next : tree = TreeOf(content) /\ next = TreeOf(more)
  OBVIOUS
<1>7. NullKey \notin DOMAIN content
  BY <1>2
<1>8. AreNodes(f, c) /\ IsTreeOf(tree.nodes, tree.root, f, c)
  BY <1>1, <1>4, <1>5, <1>6, <1>7, TreeIsShown
<1>9. DOMAIN more # {}
  BY <1>2
<1>10. AreNodes(g, d) /\ next = [root |-> g[<<0, DOMAIN d>>], nodes |-> PlaceNodes(g, DOMAIN d)]
  BY <1>1, <1>4, <1>5, <1>6, <1>9, TreeIsShown
<1>11. Writes(c, d, key, value, f, g)
  <2>1. DOMAIN c # {}
    BY <1>2
  <2>2. Distinct(c, d)
    BY <1>1
  <2> QED
    BY <1>3, <1>4, <1>8, <1>10, <2>1, <2>2 DEF Writes
<1>12. PICK root, visible : root = cache.root /\ visible = Visible(nodes, cache)
  OBVIOUS
<1>13. tree.root = root /\ tree.nodes = visible
  BY <1>6, <1>12 DEF ShownTree
<1>14. IsTreeOf(visible, root, f, c)
  BY <1>8, <1>13
<1>15. IsCache(t) /\ t.root = g[<<0, DOMAIN d>>] /\ Visible(nodes, t) = PlaceNodes(g, DOMAIN d)
  BY <1>11, <1>12, <1>14, SetValueNodes
<1> QED
  BY <1>6, <1>10, <1>15 DEF ShownTree
------------------------------------------------------------------------------
(* The states in a radix tree *)

\* What the tree of a table of states holds.
Content(rows) ==
  [id \in {IdOf[x] : x \in DOMAIN rows} |-> rows[CHOOSE x \in DOMAIN rows : IdOf[x] = id]]

LEMMA SameFront ==
  ASSUME NEW j, IsKey(j), NEW k, IsKey(k), \A i \in 1..KeyLength - 1 : j[i] = k[i]
  PROVE  Front(j) = Front(k)
<1>1. PICK n : n = KeyLength - 1
  OBVIOUS
<1>2. n \in Nat /\ n <= KeyLength /\ KeyLength \in Nat
  BY <1>1, KeyLengthType
<1>3. j \in Seq(0..15) /\ Len(j) = KeyLength /\ k \in Seq(0..15) /\ Len(k) = KeyLength
  BY KeySequence
<1>4. PICK s, t : s = SubSeq(j, 1, n) /\ t = SubSeq(k, 1, n)
  OBVIOUS
<1>5. /\ s \in Seq(0..15) /\ Len(s) = n /\ \A i \in 1..n : s[i] = j[i]
      /\ t \in Seq(0..15) /\ Len(t) = n /\ \A i \in 1..n : t[i] = k[i]
  BY <1>2, <1>3, <1>4
<1>6. \A i \in 1..Len(s) : s[i] = t[i]
  BY <1>1, <1>5
<1>7. s = t
  BY <1>5, <1>6, SameSequence
<1> QED
  BY <1>1, <1>3, <1>4, <1>7 DEF Front

LEMMA IdsAreKeys ==
  /\ \A x \in DOMAIN IdOf : IsKey(IdOf[x]) /\ IdOf[x] # NullKey
  /\ \A x, y \in DOMAIN IdOf : IdOf[x] = IdOf[y] => x = y
  /\ AreKeys({IdOf[x] : x \in DOMAIN IdOf} \cup {NullKey})
<1>1. \A x \in DOMAIN IdOf : IsKey(IdOf[x])
  BY ChainStateAssumption DEF IsKey
<1>2. \A x \in DOMAIN IdOf : Front(IdOf[x]) # Front(NullKey)
  BY ChainStateAssumption
<1>3. \A x, y \in DOMAIN IdOf : x # y => Front(IdOf[x]) # Front(IdOf[y])
  BY ChainStateAssumption
<1>4. ASSUME NEW j, IsKey(j), NEW k, IsKey(k), Front(j) # Front(k)
      PROVE  DifferEarly(j, k)
  BY <1>4, SameFront DEF DifferEarly
<1>5. PICK keys : keys = {IdOf[x] : x \in DOMAIN IdOf} \cup {NullKey}
  OBVIOUS
<1>6. ASSUME NEW j \in keys, NEW k \in keys, j # k PROVE Front(j) # Front(k)
  <2>1. CASE j = NullKey
    <3>1. PICK y \in DOMAIN IdOf : k = IdOf[y]
      BY <1>5, <1>6, <2>1
    <3> QED
      BY <1>2, <2>1, <3>1
  <2>2. CASE k = NullKey
    <3>1. PICK x \in DOMAIN IdOf : j = IdOf[x]
      BY <1>5, <1>6, <2>2
    <3> QED
      BY <1>2, <2>2, <3>1
  <2>3. CASE j # NullKey /\ k # NullKey
    <3>1. PICK x \in DOMAIN IdOf : j = IdOf[x]
      BY <1>5, <2>3
    <3>2. PICK y \in DOMAIN IdOf : k = IdOf[y]
      BY <1>5, <2>3
    <3>3. x # y
      BY <1>6, <3>1, <3>2
    <3> QED
      BY <1>3, <3>1, <3>2, <3>3
  <2> QED
    BY <2>1, <2>2, <2>3
<1>7. \A k \in keys : IsKey(k)
  BY <1>1, <1>5, NullKeyIsKey
<1>8. AreKeys(keys)
  BY <1>4, <1>6, <1>7 DEF AreKeys
<1> QED
  BY <1>1, <1>2, <1>3, <1>5, <1>8

LEMMA ContentEffect ==
  ASSUME NEW rows, DOMAIN rows \subseteq DOMAIN IdOf, NEW content, content = Content(rows)
  PROVE  /\ DOMAIN content = {IdOf[x] : x \in DOMAIN rows}
         /\ \A x \in DOMAIN rows : content[IdOf[x]] = rows[x]
<1>1. ASSUME NEW x \in DOMAIN rows
      PROVE  content[IdOf[x]] = rows[x]
  <2>1. PICK id : id = IdOf[x]
    OBVIOUS
  <2>2. \A y \in DOMAIN rows : IdOf[y] = id => y = x
    BY <2>1, IdsAreKeys
  <2>3. (CHOOSE y \in DOMAIN rows : IdOf[y] = id) = x
    BY <2>1, <2>2
  <2>4. content[id] = rows[CHOOSE y \in DOMAIN rows : IdOf[y] = id]
    BY <2>1 DEF Content
  <2> QED
    BY <2>1, <2>3, <2>4
<1>2. DOMAIN content = {IdOf[x] : x \in DOMAIN rows}
  BY DEF Content
<1> QED
  BY <1>1, <1>2

LEMMA RowsInContent ==
  ASSUME NEW rows, DOMAIN rows \subseteq DOMAIN IdOf, NEW content, content = Content(rows)
  PROVE  \A y \in DOMAIN rows : content[IdOf[y]] = rows[y]
BY ContentEffect

\* The table new has the row a under x, and else those of rows.
ChangedRow(rows, new, x, a) ==
  /\ DOMAIN new = DOMAIN rows \cup {x} /\ new[x] = a
  /\ \A y \in DOMAIN rows : y # x => new[y] = rows[y]

LEMMA ContentChange ==
  ASSUME NEW rows, DOMAIN rows \subseteq DOMAIN IdOf, NEW x \in DOMAIN IdOf, NEW a,
         NEW new, ChangedRow(rows, new, x, a)
  PROVE  Content(new) = Put(Content(rows), IdOf[x], a)
<1>1. PICK c, d, key : c = Content(rows) /\ d = Content(new) /\ key = IdOf[x]
  OBVIOUS
<1>2. DOMAIN new = DOMAIN rows \cup {x} /\ DOMAIN new \subseteq DOMAIN IdOf /\ new[x] = a
  BY DEF ChangedRow
<1>3. /\ DOMAIN c = {IdOf[y] : y \in DOMAIN rows} /\ \A y \in DOMAIN rows : c[IdOf[y]] = rows[y]
  <2>1. DOMAIN c = {IdOf[y] : y \in DOMAIN rows}
    BY <1>1, ContentEffect
  <2>2. \A y \in DOMAIN rows : c[IdOf[y]] = rows[y]
    BY <1>1, RowsInContent
  <2> QED
    BY <2>1, <2>2
<1>4. /\ DOMAIN d = {IdOf[y] : y \in DOMAIN new} /\ \A y \in DOMAIN new : d[IdOf[y]] = new[y]
  BY <1>1, <1>2, ContentEffect
<1> DEFINE D == DOMAIN c \cup {key}
           A(id) == d[id]
           B(id) == IF id = key THEN a ELSE c[id]
<1>5. DOMAIN d = D
  BY <1>1, <1>2, <1>3, <1>4
<1>6. ASSUME NEW id \in D PROVE A(id) = B(id)
  <2>1. CASE id = key
    BY <1>1, <1>2, <1>4, <2>1
  <2>2. CASE id # key
    <3>1. PICK y \in DOMAIN rows : id = IdOf[y]
      BY <1>3, <2>2
    <3>2. y # x
      BY <1>1, <2>2, <3>1
    <3>3. new[y] = rows[y] /\ y \in DOMAIN new
      BY <1>2, <3>2 DEF ChangedRow
    <3>4. d[id] = new[y] /\ c[id] = rows[y]
      BY <1>3, <1>4, <3>1, <3>3
    <3> QED
      BY <2>2, <3>3, <3>4
  <2> QED
    BY <2>1, <2>2
<1>7. d = [id \in D |-> A(id)]
  BY <1>1, <1>5 DEF Content
<1>8. Put(c, key, a) = [id \in D |-> B(id)]
  BY DEF Put
<1> HIDE DEF A, B, D
<1>9. [id \in D |-> A(id)] = [id \in D |-> B(id)]
  BY <1>6
<1> QED
  BY <1>1, <1>7, <1>8, <1>9

\* A state tells whose it is, in two tables.
Tells(rows, new) == \A x \in DOMAIN rows, y \in DOMAIN new : rows[x] = new[y] => x = y
NoneIsNull(rows) == \A x \in DOMAIN rows : rows[x] # NullHash

LEMMA EnteredDistinct ==
  ASSUME NEW rows, DOMAIN rows \subseteq DOMAIN IdOf, NEW new, DOMAIN new \subseteq DOMAIN IdOf,
         Tells(rows, new), NoneIsNull(rows), NoneIsNull(new)
  PROVE  Distinct(Entered(Content(rows)), Entered(Content(new)))
<1>1. PICK b, c : b = Content(rows) /\ c = Content(new)
  OBVIOUS
<1>2. /\ DOMAIN b = {IdOf[y] : y \in DOMAIN rows} /\ \A y \in DOMAIN rows : b[IdOf[y]] = rows[y]
  BY <1>1, ContentEffect
<1>3. /\ DOMAIN c = {IdOf[y] : y \in DOMAIN new} /\ \A y \in DOMAIN new : c[IdOf[y]] = new[y]
  BY <1>1, ContentEffect
<1>4. PICK p, q : p = Entered(b) /\ q = Entered(c)
  OBVIOUS
<1>5. /\ DOMAIN p = DOMAIN b \cup {NullKey} /\ p[NullKey] = NullHash
      /\ \A j \in DOMAIN b : j # NullKey => p[j] = b[j]
  BY <1>4 DEF Entered, Put
<1>6. /\ DOMAIN q = DOMAIN c \cup {NullKey} /\ q[NullKey] = NullHash
      /\ \A j \in DOMAIN c : j # NullKey => q[j] = c[j]
  BY <1>4 DEF Entered, Put
<1>7. ASSUME NEW j \in DOMAIN p, j # NullKey
      PROVE  \E x \in DOMAIN rows : j = IdOf[x] /\ p[j] = rows[x] /\ p[j] # NullHash
  BY <1>2, <1>5, <1>7 DEF NoneIsNull
<1>8. ASSUME NEW j \in DOMAIN q, j # NullKey
      PROVE  \E x \in DOMAIN new : j = IdOf[x] /\ q[j] = new[x] /\ q[j] # NullHash
  BY <1>3, <1>6, <1>8 DEF NoneIsNull
<1>9. ASSUME NEW j \in DOMAIN p, NEW k \in DOMAIN q, p[j] = q[k] PROVE j = k
  <2>1. CASE j = NullKey \/ k = NullKey
    BY <1>5, <1>6, <1>7, <1>8, <1>9, <2>1
  <2>2. CASE j # NullKey /\ k # NullKey
    <3>1. PICK x \in DOMAIN rows : j = IdOf[x] /\ p[j] = rows[x]
      BY <1>7, <2>2
    <3>2. PICK y \in DOMAIN new : k = IdOf[y] /\ q[k] = new[y]
      BY <1>8, <2>2
    <3>3. rows[x] = new[y]
      BY <1>9, <3>1, <3>2
    <3>4. x = y
      BY <3>3 DEF Tells
    <3> QED
      BY <3>1, <3>2, <3>4
  <2> QED
    BY <2>1, <2>2
<1>10. Distinct(p, q)
  BY <1>9 DEF Distinct
<1> QED
  BY <1>1, <1>4, <1>10

LEMMA EnteredKeys ==
  ASSUME NEW rows, DOMAIN rows \subseteq DOMAIN IdOf
  PROVE  NullKey \notin DOMAIN Content(rows) /\ AreKeys(DOMAIN Entered(Content(rows)))
<1>1. PICK b, c : b = Content(rows) /\ c = Entered(b)
  OBVIOUS
<1>2. DOMAIN b = {IdOf[y] : y \in DOMAIN rows}
  BY <1>1, ContentEffect
<1>3. NullKey \notin DOMAIN b
  BY <1>2, IdsAreKeys
<1>4. DOMAIN c = DOMAIN b \cup {NullKey}
  BY <1>1 DEF Entered, Put
<1>5. PICK keys : keys = {IdOf[x] : x \in DOMAIN IdOf} \cup {NullKey}
  OBVIOUS
<1>6. AreKeys(keys) /\ DOMAIN c \subseteq keys
  BY <1>2, <1>4, <1>5, IdsAreKeys
<1>7. AreKeys(DOMAIN c)
  BY <1>6 DEF AreKeys
<1> QED
  BY <1>1, <1>3, <1>7

\* The cache over these nodes shows the tree of a table.
ShowsRows(nodes, cache, rows) == IsCache(cache) /\ ShownTree(nodes, cache) = TreeOf(Content(rows))

LEMMA RowSaved ==
  ASSUME NEW nodes, NEW cache, NEW rows, ShowsRows(nodes, cache, rows), DOMAIN rows \subseteq DOMAIN IdOf,
         NEW x \in DOMAIN IdOf, NEW a, NEW new, ChangedRow(rows, new, x, a),
         Tells(rows, new), NoneIsNull(rows), NoneIsNull(new),
         NEW t, t = SetValue(cache, IdOf[x], a)
  PROVE  ShowsRows(nodes, t, new)
<1>1. PICK b, c, key : b = Content(rows) /\ c = Content(new) /\ key = IdOf[x]
  OBVIOUS
<1>2. DOMAIN new \subseteq DOMAIN IdOf
  BY DEF ChangedRow
<1>3. c = Put(b, key, a)
  BY <1>1, ContentChange
<1>4. NullKey \notin DOMAIN c /\ AreKeys(DOMAIN Entered(c))
  BY <1>1, <1>2, EnteredKeys
<1>5. Distinct(Entered(b), Entered(c))
  BY <1>1, <1>2, EnteredDistinct
<1>6. IsCache(cache) /\ ShownTree(nodes, cache) = TreeOf(b)
  BY <1>1 DEF ShowsRows
<1>7. t = SetValue(cache, key, a)
  BY <1>1
<1>8. IsCache(t) /\ ShownTree(nodes, t) = TreeOf(c)
  BY <1>3, <1>4, <1>5, <1>6, <1>7, SetValueEffect
<1> QED
  BY <1>1, <1>8 DEF ShowsRows
------------------------------------------------------------------------------
(* States tell whose they are *)

\* Two trees of the same size with the same root have the same first leaf.
LEMMA SameRootSameFirst ==
  ASSUME NEW n \in Nat, n # 0, NEW t, IsTree(t, n), NEW u, IsTree(u, n), RootOf(t, n) = RootOf(u, n)
  PROVE  t[<<0, 0>>] = u[<<0, 0>>]
<1>1. PICK h, c : h = SizeToHeight(n) /\ c = [row \in Nat |-> ColumnAt(n - 1, row)]
  OBVIOUS
<1>2. IsTreeWith(t, n, h, c) /\ IsTreeWith(u, n, h, c)
  BY <1>1 DEF IsTree
<1>3. h \in Nat /\ h >= 1
  BY <1>1, HeightOfSize
<1>4. \A row \in Nat : c[row] \in Nat
  <2>1. PICK i \in Nat : i = n - 1
    OBVIOUS
  <2>2. \A row \in Nat : ColumnAt(i, row) \in Nat
    BY ColumnSteps
  <2> QED
    BY <1>1, <2>1, <2>2
<1> DEFINE N == {i \in Nat : i <= h - 1 => t[<<h - 1 - i, 0>>] = u[<<h - 1 - i, 0>>]}
<1>5. 0 \in N
  <2>1. PICK top : top = h - 1
    OBVIOUS
  <2>2. t[<<top, 0>>] = u[<<top, 0>>]
    BY <1>1, <2>1 DEF RootOf
  <2>3. h - 1 - 0 = top
    BY <1>3, <2>1
  <2> QED
    BY <2>2, <2>3
<1>6. ASSUME NEW i \in Nat, i \in N PROVE i + 1 \in N
  <2> SUFFICES ASSUME i + 1 <= h - 1 PROVE t[<<h - 1 - (i + 1), 0>>] = u[<<h - 1 - (i + 1), 0>>]
    OBVIOUS
  <2>1. PICK row, below : row = h - 1 - i /\ below = h - 1 - (i + 1)
    OBVIOUS
  <2>2. row \in 1..h - 1 /\ row - 1 = below /\ row \in Nat /\ i <= h - 1
    BY <1>3, <2>1
  <2>3. t[<<row, 0>>] = u[<<row, 0>>]
    BY <1>6, <2>1, <2>2
  <2>4. 0 <= c[row] /\ 0 \in Nat
    BY <1>4, <2>2
  <2>5. IsMerged(t, row, 0) /\ IsMerged(u, row, 0)
    BY <1>2, <2>2, <2>4 DEF IsTreeWith
  <2>6. 2 * 0 = 0 /\ 2 * 0 + 1 = 1
    OBVIOUS
  <2>7. /\ t[<<row, 0>>] = MergeHashes(t[<<below, 0>>], t[<<below, 1>>])
        /\ u[<<row, 0>>] = MergeHashes(u[<<below, 0>>], u[<<below, 1>>])
    BY <2>2, <2>5, <2>6 DEF IsMerged
  <2>8. t[<<below, 0>>] = u[<<below, 0>>]
    <3>1. PICK l, r, p, q : /\ l = t[<<below, 0>>] /\ r = t[<<below, 1>>]
                            /\ p = u[<<below, 0>>] /\ q = u[<<below, 1>>]
      OBVIOUS
    <3>2. MergeHashes(l, r) = MergeHashes(p, q)
      BY <2>3, <2>7, <3>1
    <3>3. l = p
      BY <3>2 DEF MergeHashes
    <3> QED
      BY <3>1, <3>3
  <2> QED
    BY <2>1, <2>8
<1> HIDE DEF N
<1>7. PICK last \in Nat : last = h - 1
  BY <1>3
<1>8. last \in N
  BY <1>5, <1>6, <1>7, InductionOnNumbers
<1>9. h - 1 - last = 0 /\ last <= h - 1
  BY <1>3, <1>7
<1> QED
  BY <1>8, <1>9 DEF N

\* The root of its microblocks tells whose state it is.
LEMMA VbsTell ==
  ASSUME NEW w, HasTrees(w), NEW v, HasTrees(v)
  PROVE  Tells(w.vbs, v.vbs)
<1>1. ASSUME NEW x \in DOMAIN w.vbs, NEW y \in DOMAIN v.vbs, w.vbs[x] = v.vbs[y] PROVE x = y
  <2>1. PICK s, n : HasTree(w, x, s, n)
    BY DEF HasTrees
  <2>2. PICK r, m : HasTree(v, y, r, m)
    BY DEF HasTrees
  <2>3. n = m /\ n \in Nat /\ n # 0
    BY <1>1, <2>1, <2>2 DEF HasTree
  <2>4. PICK t, u : t = w.merkle[x] /\ u = v.merkle[y]
    OBVIOUS
  <2>5. IsTree(t, n) /\ IsTree(u, n) /\ RootOf(t, n) = RootOf(u, n)
    BY <1>1, <2>1, <2>2, <2>3, <2>4 DEF HasTree
  <2>6. t[<<0, 0>>] = u[<<0, 0>>]
    BY <2>3, <2>5, SameRootSameFirst
  <2>7. 1 \in 1..n /\ 1 \in 1..m /\ 1 - 1 = 0
    BY <2>3
  <2>8. t[<<0, 0>>] = s[1] /\ s[1].vb = x
    BY <2>1, <2>4, <2>7 DEF HasTree
  <2>9. u[<<0, 0>>] = r[1] /\ r[1].vb = y
    BY <2>2, <2>4, <2>7 DEF HasTree
  <2> QED
    BY <2>6, <2>8, <2>9
<1> QED
  BY <1>1 DEF Tells

\* Every account that exists has an entry, which is under its name.
AccountsNamed(w) ==
  /\ DOMAIN w.accounts \subseteq Accounts
  /\ \A x \in DOMAIN w.accounts : w.accounts[x].last.account = x

LEMMA AccountsTell ==
  ASSUME NEW w, AccountsNamed(w), NEW v, AccountsNamed(v)
  PROVE  Tells(w.accounts, v.accounts)
BY DEF AccountsNamed, Tells

LEMMA StatesNotNull ==
  ASSUME NEW w, Sound(w), DOMAIN w.accounts \subseteq Accounts
  PROVE  NoneIsNull(w.vbs) /\ NoneIsNull(w.accounts)
<1>1. ASSUME NEW a, IsVb(a) \/ IsAccount(a) PROVE a # NullHash
  <2>1. DOMAIN NullHash = {"zeros"}
    BY DEF NullHash
  <2>2. "height" \in DOMAIN a
    BY <1>1 DEF IsVb, IsAccount, VbFields, AccountFields
  <2> QED
    BY <2>1, <2>2
<1>2. \A x \in DOMAIN w.vbs : IsVb(w.vbs[x])
  BY DEF Sound, GoodVbs
<1>3. \A x \in DOMAIN w.accounts : IsAccount(w.accounts[x])
  BY DEF Sound, GoodAccounts, AccountState
<1> QED
  BY <1>1, <1>2, <1>3 DEF NoneIsNull

LEMMA OwnersAreKnown ==
  ASSUME NEW w, Sound(w), DOMAIN w.accounts \subseteq Accounts
  PROVE  DOMAIN w.vbs \subseteq DOMAIN IdOf /\ DOMAIN w.accounts \subseteq DOMAIN IdOf
<1>1. DOMAIN IdOf = Nodes \cup Accounts
  BY ChainStateAssumption
<1>2. DOMAIN w.vbs \subseteq VirtualBlockchains
  BY DEF Sound, GoodVbs
<1> QED
  BY <1>1, <1>2 DEF VirtualBlockchains, Accounts

\* The working state w over the tables d shows the trees of its states.
ShowsStates(d, w) ==
  /\ ShowsRows(d.vbRadix.nodes, w.vbRadix, w.vbs)
  /\ ShowsRows(d.tokenRadix.nodes, w.tokenRadix, w.accounts)

LEMMA AccountRowChanged ==
  ASSUME NEW w, DOMAIN w.accounts \subseteq Accounts, NEW v, NEW x \in Accounts, NEW a, Saved(w, v, x, a)
  PROVE  ChangedRow(w.accounts, v.accounts, x, a)
<1>1. /\ DOMAIN v.accounts = DOMAIN w.accounts \cup {x} /\ AccountState(v, x) = a
      /\ \A y \in Accounts \ {x} : AccountState(v, y) = AccountState(w, y)
  BY DEF Saved
<1>2. v.accounts[x] = a
  BY <1>1 DEF AccountState
<1>3. ASSUME NEW y \in DOMAIN w.accounts, y # x PROVE v.accounts[y] = w.accounts[y]
  <2>1. y \in Accounts \ {x} /\ y \in DOMAIN v.accounts
    BY <1>1, <1>3
  <2>2. AccountState(v, y) = AccountState(w, y)
    BY <1>1, <2>1
  <2> QED
    BY <2>1, <2>2 DEF AccountState
<1> QED
  BY <1>1, <1>2, <1>3 DEF ChangedRow

LEMMA AccountsStayNamed ==
  ASSUME NEW w, AccountsNamed(w), NEW v, Step(w, v)
  PROVE  AccountsNamed(v)
<1>1. CASE MicroblockStep(w, v) \/ RowsStep(w, v)
  <2>1. v.accounts = w.accounts
    BY <1>1 DEF MicroblockStep, StoredAs, RowsStep
  <2> QED
    BY <2>1 DEF AccountsNamed
<1>2. CASE AccountStep(w, v)
  <2>0. PICK x \in Accounts : \E a : /\ Saved(w, v, x, a)
                                     /\ (WithNewEntry(w, v, x, a) \/ WithSameEntries(w, v, x, a))
    BY <1>2 DEF AccountStep
  <2>1. PICK a : Saved(w, v, x, a) /\ (WithNewEntry(w, v, x, a) \/ WithSameEntries(w, v, x, a))
    BY <2>0
  <2>2. ChangedRow(w.accounts, v.accounts, x, a)
    BY <2>1, AccountRowChanged DEF AccountsNamed
  <2>3. a.last.account = x
    <3>1. CASE WithNewEntry(w, v, x, a)
      BY <3>1 DEF WithNewEntry, Transferred
    <3>2. CASE WithSameEntries(w, v, x, a)
      BY <3>2 DEF WithSameEntries, AccountsNamed
    <3> QED
      BY <2>1, <3>1, <3>2
  <2> QED
    BY <2>2, <2>3 DEF ChangedRow, AccountsNamed
<1> QED
  BY <1>1, <1>2 DEF Step

LEMMA ShowsStep ==
  ASSUME NEW d, NEW w, HasTrees(w), AccountsNamed(w), ShowsStates(d, w), NEW v, Step(w, v)
  PROVE  ShowsStates(d, v)
<1>1. HasTrees(v) /\ AccountsNamed(v)
  BY TreesStep, AccountsStayNamed
<1>2. Sound(w) /\ Sound(v) /\ DOMAIN w.accounts \subseteq Accounts /\ DOMAIN v.accounts \subseteq Accounts
  BY <1>1 DEF Step, AccountsNamed
<1>3. /\ NoneIsNull(w.vbs) /\ NoneIsNull(w.accounts) /\ NoneIsNull(v.vbs) /\ NoneIsNull(v.accounts)
      /\ DOMAIN w.vbs \subseteq DOMAIN IdOf /\ DOMAIN w.accounts \subseteq DOMAIN IdOf
  BY <1>2, StatesNotNull, OwnersAreKnown
<1>4. CASE RowsStep(w, v)
  <2>1. /\ v.vbs = w.vbs /\ v.vbRadix = w.vbRadix /\ v.tokenRadix = w.tokenRadix
        /\ v.accounts = w.accounts
    BY <1>4 DEF RowsStep
  <2> QED
    BY <2>1 DEF ShowsStates
<1>5. CASE AccountStep(w, v)
  <2>0. PICK x \in Accounts : \E a : Saved(w, v, x, a)
    BY <1>5 DEF AccountStep
  <2>1. PICK a : Saved(w, v, x, a)
    BY <2>0
  <2>2. ChangedRow(w.accounts, v.accounts, x, a)
    BY <1>2, <2>1, AccountRowChanged
  <2>3. Tells(w.accounts, v.accounts)
    BY <1>1, AccountsTell
  <2>4. PICK nodes, cache, t, rows, new :
          /\ nodes = d.tokenRadix.nodes /\ cache = w.tokenRadix /\ t = v.tokenRadix
          /\ rows = w.accounts /\ new = v.accounts
    OBVIOUS
  <2>5. t = SetValue(cache, IdOf[x], a) /\ ShowsRows(nodes, cache, rows) /\ x \in DOMAIN IdOf
    BY <2>1, <2>4, ChainStateAssumption DEF Saved, ShowsStates
  <2>6. ShowsRows(nodes, t, new)
    BY <1>3, <2>2, <2>3, <2>4, <2>5, RowSaved
  <2>7. v.vbs = w.vbs /\ v.vbRadix = w.vbRadix
    BY <2>1 DEF Saved, SameChain
  <2> QED
    BY <2>4, <2>6, <2>7 DEF ShowsStates
<1>6. CASE MicroblockStep(w, v)
  <2>1. PICK vb, state, mb : IsNext(w, vb, state, mb) /\ StoredAs(w, v, vb, state, mb)
    BY <1>6 DEF MicroblockStep
  <2>2. ChangedRow(w.vbs, v.vbs, vb, state)
    BY <2>1 DEF StoredAs, ChangedRow
  <2>3. Tells(w.vbs, v.vbs)
    BY <1>1, VbsTell
  <2>4. PICK nodes, cache, t, rows, new :
          /\ nodes = d.vbRadix.nodes /\ cache = w.vbRadix /\ t = v.vbRadix
          /\ rows = w.vbs /\ new = v.vbs
    OBVIOUS
  <2>5. t = SetValue(cache, IdOf[vb], state) /\ ShowsRows(nodes, cache, rows)
    BY <2>1, <2>4 DEF StoredAs, ShowsStates
  <2>6. vb \in DOMAIN IdOf
    BY <2>1, ChainStateAssumption DEF IsNext, VirtualBlockchains, Accounts
  <2>7. ShowsRows(nodes, t, new)
    BY <1>3, <2>2, <2>3, <2>4, <2>5, <2>6, RowSaved
  <2>8. v.accounts = w.accounts /\ v.tokenRadix = w.tokenRadix
    BY <2>1 DEF StoredAs
  <2> QED
    BY <2>4, <2>7, <2>8 DEF ShowsStates
<1> QED
  BY <1>4, <1>5, <1>6 DEF Step
------------------------------------------------------------------------------
(* The committed trees *)

\* The trees over the microblocks, those of the states, and the names that tell them apart.
HasRadixTrees(d) == HasTrees(d) /\ AccountsNamed(d) /\ HoldsStates(d)

LEMMA HoldsContents ==
  ASSUME NEW d
  PROVE  HoldsStates(d) <=> /\ d.vbRadix = TreeOf(Content(d.vbs))
                            /\ d.tokenRadix = TreeOf(Content(d.accounts))
BY DEF HoldsStates, Content

LEMMA TreeOfIsPair ==
  ASSUME NEW content, NEW tree, tree = TreeOf(content)
  PROVE  tree = [root |-> tree.root, nodes |-> tree.nodes]
<1>1. CASE DOMAIN content = {}
  BY <1>1 DEF TreeOf, EmptyTree
<1>2. CASE DOMAIN content # {}
  <2>1. PICK all, f : all = Put(content, NullKey, NullHash) /\ f = NodesFor(all)
    OBVIOUS
  <2>2. PICK r, n : r = f[<<0, DOMAIN all>>] /\ n = {f[p] : p \in Places(DOMAIN all)}
    OBVIOUS
  <2>3. tree = [root |-> r, nodes |-> n]
    BY <1>2, <2>1, <2>2 DEF TreeOf
  <2> QED
    BY <2>3
<1> QED
  BY <1>1, <1>2

LEMMA OpenTreeShows ==
  ASSUME NEW rows, NEW tree, tree = TreeOf(Content(rows)), NEW cache, cache = OpenTree(tree)
  PROVE  ShowsRows(tree.nodes, cache, rows)
<1>1. PICK r : r = tree.root
  OBVIOUS
<1>2. cache = [root |-> r, ins |-> {}, del |-> {}]
  BY <1>1 DEF OpenTree
<1>3. IsCache(cache) /\ cache.root = r /\ cache.ins = {} /\ cache.del = {}
  BY <1>2 DEF IsCache, CacheFields
<1>4. Visible(tree.nodes, cache) = tree.nodes
  BY <1>3 DEF Visible
<1>5. tree = [root |-> tree.root, nodes |-> tree.nodes]
  BY TreeOfIsPair
<1> QED
  BY <1>1, <1>3, <1>4, <1>5 DEF ShowsRows, ShownTree

LEMMA CommittedTree ==
  ASSUME NEW tree, NEW cache, NEW rows, ShowsRows(tree.nodes, cache, rows)
  PROVE  CommitTree(tree, cache) = TreeOf(Content(rows))
BY DEF CommitTree, ShowsRows, ShownTree, Visible

LEMMA ShowsLeads ==
  ASSUME NEW d, NEW w, HasTrees(w), AccountsNamed(w), ShowsStates(d, w), NEW v, Leads(w, v)
  PROVE  HasTrees(v) /\ AccountsNamed(v) /\ ShowsStates(d, v)
<1>1. PICK n \in Nat : \E tr : IsTrace(tr, n, w, v)
  BY DEF Leads
<1>2. PICK tr : IsTrace(tr, n, w, v)
  BY <1>1
<1>3. tr[0] = w /\ tr[n] = v /\ \A i \in 1..n : Step(tr[i - 1], tr[i])
  BY <1>2 DEF IsTrace
<1> DEFINE Fine(u) == HasTrees(u) /\ AccountsNamed(u) /\ ShowsStates(d, u)
           N == {i \in Nat : i <= n => Fine(tr[i])}
<1>4. 0 \in N
  BY <1>3
<1>5. ASSUME NEW i \in Nat, i \in N PROVE i + 1 \in N
  <2> SUFFICES ASSUME i + 1 <= n PROVE Fine(tr[i + 1])
    OBVIOUS
  <2>1. PICK u, next : u = tr[i] /\ next = tr[i + 1]
    OBVIOUS
  <2>2. HasTrees(u) /\ AccountsNamed(u) /\ ShowsStates(d, u)
    BY <1>5, <2>1
  <2>3. i + 1 \in 1..n /\ (i + 1) - 1 = i
    OBVIOUS
  <2>4. Step(u, next)
    BY <1>3, <2>1, <2>3
  <2>5. HasTrees(next) /\ AccountsNamed(next) /\ ShowsStates(d, next)
    BY <2>2, <2>4, TreesStep, AccountsStayNamed, ShowsStep
  <2> QED
    BY <2>1, <2>5
<1>6. n \in N
  <2> HIDE DEF N
  <2> QED
    BY <1>4, <1>5, InductionOnNumbers
<1> QED
  BY <1>3, <1>6

LEMMA OpenStateShows ==
  ASSUME NEW d, IsState(d), HasRadixTrees(d), NEW w, w = OpenState(d)
  PROVE  HasTrees(w) /\ AccountsNamed(w) /\ ShowsStates(d, w)
<1>1. SameTrees(d, w) /\ w.vbRadix = OpenTree(d.vbRadix) /\ w.tokenRadix = OpenTree(d.tokenRadix)
  BY OpenStateTrees
<1>2. w.accounts = d.accounts
  BY OpenStateTables DEF SameTables
<1>3. HasTrees(w)
  BY <1>1, SameTreesHas DEF HasRadixTrees
<1>4. AccountsNamed(w)
  BY <1>2 DEF HasRadixTrees, AccountsNamed
<1>5. d.vbRadix = TreeOf(Content(d.vbs)) /\ d.tokenRadix = TreeOf(Content(d.accounts))
  BY HoldsContents DEF HasRadixTrees
<1>6. w.vbs = d.vbs
  BY <1>1 DEF SameTrees
<1>7. PICK a, b, p, q : a = d.vbRadix /\ b = d.tokenRadix /\ p = w.vbRadix /\ q = w.tokenRadix
  OBVIOUS
<1>8. ShowsRows(a.nodes, p, d.vbs) /\ ShowsRows(b.nodes, q, d.accounts)
  BY <1>1, <1>5, <1>7, OpenTreeShows
<1> QED
  BY <1>2, <1>3, <1>4, <1>6, <1>7, <1>8 DEF ShowsStates

\* A committed block leaves the trees of its states.
LEMMA CommitRadixTrees ==
  ASSUME NEW d, IsState(d), HasRadixTrees(d), NEW o, IsBlockOutcome(d, o), NEW v, v = CommitState(d, o)
  PROVE  HasRadixTrees(v)
<1>1. PICK p : Sound(p) /\ Leads(OpenState(d), p) /\ o = EndOfBlock(d, p, d.height + 1)
  BY DEF IsBlockOutcome
<1>2. PICK w, n : w = OpenState(d) /\ n = d.height + 1
  OBVIOUS
<1>3. HasTrees(w) /\ AccountsNamed(w) /\ ShowsStates(d, w)
  BY <1>2, OpenStateShows
<1>4. Leads(w, p)
  BY <1>1, <1>2
<1>5. HasTrees(p) /\ AccountsNamed(p) /\ ShowsStates(d, p)
  BY <1>3, <1>4, ShowsLeads
<1>6. IsState(p) /\ o = EndOfBlock(d, p, n)
  BY <1>1, <1>2 DEF Sound
<1>7. /\ IsState(o) /\ SameTrees(p, o) /\ o.accounts = p.accounts
      /\ o.vbRadix = p.vbRadix /\ o.tokenRadix = p.tokenRadix
  BY <1>6, EndOfBlockAccounts DEF SameTrees
<1>8. /\ SameTrees(o, v) /\ v.accounts = o.accounts
      /\ v.vbRadix = CommitTree(d.vbRadix, o.vbRadix) /\ v.tokenRadix = CommitTree(d.tokenRadix, o.tokenRadix)
  BY <1>7, CommitStateKeeps DEF SameTrees
<1>9. HasTrees(v) /\ AccountsNamed(v)
  BY <1>5, <1>7, <1>8, SameTreesHas DEF AccountsNamed
<1>10. v.vbs = p.vbs /\ v.accounts = p.accounts
  BY <1>7, <1>8 DEF SameTrees
<1>11. PICK a, b, s, t : a = d.vbRadix /\ b = d.tokenRadix /\ s = p.vbRadix /\ t = p.tokenRadix
  OBVIOUS
<1>12. ShowsRows(a.nodes, s, p.vbs) /\ ShowsRows(b.nodes, t, p.accounts)
  BY <1>5, <1>11 DEF ShowsStates
<1>13. CommitTree(a, s) = TreeOf(Content(p.vbs)) /\ CommitTree(b, t) = TreeOf(Content(p.accounts))
  BY <1>12, CommittedTree
<1>14. v.vbRadix = TreeOf(Content(v.vbs)) /\ v.tokenRadix = TreeOf(Content(v.accounts))
  BY <1>7, <1>8, <1>10, <1>11, <1>13
<1>15. HoldsStates(v)
  BY <1>14, HoldsContents
<1> QED
  BY <1>9, <1>15 DEF HasRadixTrees

LEMMA EmptyHasRadixTrees == HasRadixTrees(EmptyTables)
<1>1. PICK e : e = EmptyTables
  OBVIOUS
<1>2. e.vbs = <<>> /\ e.accounts = <<>> /\ e.vbRadix = EmptyTree /\ e.tokenRadix = EmptyTree
  BY <1>1 DEF EmptyTables
<1>3. DOMAIN e.vbs = {} /\ DOMAIN e.accounts = {}
  BY <1>2
<1>4. DOMAIN Content(e.vbs) = {} /\ DOMAIN Content(e.accounts) = {}
  BY <1>3 DEF Content
<1>5. TreeOf(Content(e.vbs)) = EmptyTree /\ TreeOf(Content(e.accounts)) = EmptyTree
  BY <1>4 DEF TreeOf
<1>6. HoldsStates(e)
  BY <1>2, <1>5, HoldsContents
<1>7. AccountsNamed(e)
  BY <1>3 DEF AccountsNamed
<1> QED
  BY <1>1, <1>6, <1>7, EmptyHasTrees DEF HasRadixTrees

LEMMA RadixTreesNext ==
  ASSUME ChainInv, HasRadixTrees(db), [ChainNext]_chainVars PROVE HasRadixTrees(db)'
<1>1. PICK d, v : d = db /\ v = db'
  OBVIOUS
<1>2. CASE v = d
  <2>1. HasRadixTrees(v)
    BY <1>1, <1>2
  <2> QED
    BY <1>1, <2>1
<1>3. CASE v # d
  <2>1. PICK o : IsBlockOutcome(db, o) /\ db' = CommitState(db, o)
    BY <1>1, <1>3, TablesChange
  <2>2. IsState(db)
    BY DEF ChainInv, DbInv, GoodDb, Sound
  <2>3. IsState(d) /\ HasRadixTrees(d) /\ IsBlockOutcome(d, o) /\ v = CommitState(d, o)
    BY <1>1, <2>1, <2>2
  <2>4. HasRadixTrees(v)
    BY <2>3, CommitRadixTrees
  <2> QED
    BY <1>1, <2>4
<1> QED
  BY <1>2, <1>3

\* The tables of the two radix trees, written node by node through the cache, are at every
\* commit those of the trees that the states alone determine.
THEOREM RadixTreesOfTheStates == ChainSpec => RadixHoldsStates
<1>1. ChainInit => HasRadixTrees(db)
  BY EmptyHasRadixTrees DEF ChainInit
<1>2. ChainInv /\ HasRadixTrees(db) /\ [ChainNext]_chainVars => HasRadixTrees(db)'
  BY RadixTreesNext
<1>3. HasRadixTrees(db)' => [HoldsStates(db')]_db
  BY DEF HasRadixTrees
<1> QED
  BY <1>1, <1>2, <1>3, ChainInvariant, PTL DEF ChainSpec, RadixHoldsStates
=============================================================================
