-------------------------- MODULE StateProofProofs --------------------------
(***************************************************************************)
(* Proofs about the answers to queries: whatever is committed between two  *)
(* reads, a proof that is answered is one that a client accepts, and what  *)
(* is stored is not refused a proof while nothing is committed.            *)
(*                                                                         *)
(* A virtual blockchain only grows, so what was read of one is either what *)
(* the database still has or of a lower height.  The nodes that get() has  *)
(* read lie on the path of a key in the tree of one committed table; the   *)
(* state at its end has one height, so it is the state that was read only  *)
(* if the leaf, the witnesses and the root were read at that height too.   *)
(***************************************************************************)
EXTENDS StateProof, ChainStateProofs

------------------------------------------------------------------------------
(* Proofs of microblocks *)

WitnessLoop(index, witnesses) ==
  [over |-> "witnesses", ordered |-> TRUE, index |-> index, witnesses |-> witnesses]

\* The hash of a row and its witness, as a client merges them.
MergedWith(index, witnesses, row, hash) ==
  IF ColumnAt(index, row - 1) % 2 = 1 THEN MergeHashes(witnesses[row], hash)
  ELSE MergeHashes(hash, witnesses[row])

LEMMA WitnessSteps ==
  ASSUME NEW index, NEW witnesses
  PROVE  /\ \A acc, x : StepOf(WitnessLoop(index, witnesses), acc, x) = MergedWith(index, witnesses, x, acc)
         /\ \A s : Picked(WitnessLoop(index, witnesses), s) = Max(s)
         /\ WitnessLoop(index, witnesses).ordered
<1>1. PICK loop : loop = WitnessLoop(index, witnesses)
  OBVIOUS
<1>2. loop.over = "witnesses" /\ loop.ordered /\ loop.index = index /\ loop.witnesses = witnesses
  BY <1>1 DEF WitnessLoop
<1>3. \A acc, x : StepOf(loop, acc, x) = MergedWith(index, witnesses, x, acc)
  BY <1>2 DEF StepOf, MergedWith
<1> QED
  BY <1>1, <1>2, <1>3 DEF Picked

IsWitnessFold(h, index, witnesses, leaf, n) ==
  h = [s \in SUBSET DOMAIN [row \in 1..n |-> row] |->
         IF s = {} THEN leaf
         ELSE LET i == Max(s) IN
                IF ColumnAt(index, [row \in 1..n |-> row][i] - 1) % 2 = 1
                THEN MergeHashes(witnesses[[row \in 1..n |-> row][i]], h[s \ {i}])
                ELSE MergeHashes(h[s \ {i}], witnesses[[row \in 1..n |-> row][i]])]

\* The hash after each row.
IsClimb(r, index, witnesses, leaf, n) ==
  r[0] = leaf /\ \A i \in 1..n : r[i] = MergedWith(index, witnesses, i, r[i - 1])

LEMMA WitnessRun ==
  ASSUME NEW index, NEW witnesses, NEW leaf, NEW size, NEW root, NEW n \in Nat, n = Len(witnesses),
         n = SizeToHeight(size) - 1
  PROVE  \E r : /\ IsClimb(r, index, witnesses, leaf, n)
                /\ Verifies(leaf, index, size, witnesses, root) <=> root = r[n]
<1>1. PICK loop : loop = WitnessLoop(index, witnesses)
  OBVIOUS
<1>2. /\ loop.ordered /\ \A s : Picked(loop, s) = Max(s)
      /\ \A acc, x : StepOf(loop, acc, x) = MergedWith(index, witnesses, x, acc)
  BY <1>1, WitnessSteps
<1>3. PICK h : IsFoldOf(h, loop, leaf, 1..n)
  BY <1>2, PositionsFoldExists
<1>4. DOMAIN [row \in 1..n |-> row] = 1..n /\ \A i \in 1..n : [row \in 1..n |-> row][i] = i
  OBVIOUS
<1>5. ASSUME NEW g PROVE IsFoldOf(g, loop, leaf, 1..n) <=> IsWitnessFold(g, index, witnesses, leaf, n)
  <2> DEFINE A(s) == IF s = {} THEN leaf
                     ELSE StepOf(loop, g[s \ {Picked(loop, s)}], Picked(loop, s))
             B(s) == IF s = {} THEN leaf
                     ELSE MergedWith(index, witnesses, [row \in 1..n |-> row][Max(s)], g[s \ {Max(s)}])
  <2>1. ASSUME NEW s \in SUBSET (1..n) PROVE A(s) = B(s)
    <3>1. CASE s = {}
      BY <3>1
    <3>2. CASE s # {}
      <4>1. PICK i : i = Max(s)
        OBVIOUS
      <4>2. i \in 1..n
        BY <3>2, <4>1, MaxOfPositions
      <4>3. [row \in 1..n |-> row][i] = i
        BY <4>2
      <4>4. A(s) = MergedWith(index, witnesses, i, g[s \ {i}])
        BY <1>2, <3>2, <4>1
      <4>5. B(s) = MergedWith(index, witnesses, [row \in 1..n |-> row][i], g[s \ {i}])
        BY <3>2, <4>1
      <4> QED
        BY <4>3, <4>4, <4>5
    <3> QED
      BY <3>1, <3>2
  <2> HIDE DEF A, B
  <2>2. [s \in SUBSET (1..n) |-> A(s)] = [s \in SUBSET (1..n) |-> B(s)]
    BY <2>1
  <2> QED
    BY <1>4, <2>2 DEF IsFoldOf, IsWitnessFold, MergedWith, A, B
<1> DEFINE k == CHOOSE g : IsWitnessFold(g, index, witnesses, leaf, n)
<1>6. IsFoldOf(k, loop, leaf, 1..n)
  BY <1>3, <1>5
<1>7. Verifies(leaf, index, size, witnesses, root) <=>
        /\ n = SizeToHeight(size) - 1
        /\ root = k[DOMAIN [row \in 1..n |-> row]]
  BY DEF Verifies, FoldLeft, MapThenFoldSet, IsWitnessFold
<1> HIDE DEF k
<1>8. PICK r : IsRun(r, loop, leaf, n) /\ r[n] = k[1..n]
  BY <1>2, <1>6, RunOfFold
<1>9. Verifies(leaf, index, size, witnesses, root) <=> root = r[n]
  BY <1>4, <1>7, <1>8
<1>10. r[0] = leaf /\ \A i \in 1..n : r[i] = StepOf(loop, r[i - 1], i)
  BY <1>8 DEF IsRun
<1>11. IsClimb(r, index, witnesses, leaf, n)
  BY <1>2, <1>10 DEF IsClimb
<1> QED
  BY <1>9, <1>11

\* The places of a tree of n leaves that a proof of the leaf at an index is read from.
HasPlaces(t, n, index) ==
  /\ <<0, index>> \in DOMAIN t
  /\ <<SizeToHeight(n) - 1, 0>> \in DOMAIN t
  /\ \A row \in 0..SizeToHeight(n) - 2 : WitnessAt(index, row) \in DOMAIN t

\* Each node above a leaf is merged from the one below and its witness.
ClimbsTo(t, index, row) ==
  LET b == ColumnAt(index, row)
      above == row + 1 IN
    /\ WitnessAt(index, row) \in DOMAIN t
    /\ <<above, ColumnAt(index, above)>> \in DOMAIN t
    /\ t[<<above, ColumnAt(index, above)>>] =
         IF b % 2 = 1 THEN MergeHashes(t[WitnessAt(index, row)], t[<<row, b>>])
         ELSE MergeHashes(t[<<row, b>>], t[WitnessAt(index, row)])

LEMMA TreeClimbs ==
  ASSUME NEW n \in Nat, n # 0, NEW t, IsTree(t, n), NEW index \in Nat, index < n,
         NEW h, h = SizeToHeight(n)
  PROVE  /\ h \in Nat /\ h >= 1 /\ <<0, index>> \in DOMAIN t
         /\ ColumnAt(index, 0) = index /\ ColumnAt(index, h - 1) = 0
         /\ \A row \in 0..h - 2 : ClimbsTo(t, index, row)
<1>1. PICK i \in Nat : i = n - 1
  OBVIOUS
<1>2. PICK c : c = [row \in Nat |-> ColumnAt(n - 1, row)]
  OBVIOUS
<1>3. IsTreeWith(t, n, h, c)
  BY <1>2 DEF IsTree
<1>4. h \in Nat /\ 1 <= h /\ \A row \in Nat : ColumnAt(n - 1, row) = 0 <=> h - 1 <= row
  BY HeightOfSize
<1>5. \A row \in Nat : ColumnAt(index, row) <= ColumnAt(i, row)
  BY <1>1, ColumnsOrdered
<1>6. ColumnAt(index, 0) = index /\ \A row \in Nat : ColumnAt(index, row) \in Nat
  BY ColumnSteps
<1>7. \A row \in Nat : ColumnAt(index, row) <= c[row]
  BY <1>1, <1>2, <1>5
<1>8. h - 1 \in Nat
  BY <1>4
<1>9. ColumnAt(index, h - 1) = 0
  <2>1. PICK top \in Nat : top = h - 1
    BY <1>8
  <2>2. ColumnAt(i, top) = 0 /\ ColumnAt(index, top) \in Nat /\ ColumnAt(index, top) <= ColumnAt(i, top)
    BY <1>1, <1>4, <1>5, <1>6, <2>1
  <2>3. ColumnAt(i, top) \in Nat
    BY ColumnSteps
  <2> QED
    BY <2>1, <2>2, <2>3
<1>10. <<0, index>> \in DOMAIN t
  BY <1>3 DEF IsTreeWith
<1>11. ASSUME NEW row \in 0..h - 2 PROVE ClimbsTo(t, index, row)
  <2>1. row \in Nat
    OBVIOUS
  <2>2. PICK above, b, a : above = row + 1 /\ b = ColumnAt(index, row) /\ a = ColumnAt(index, above)
    OBVIOUS
  <2>3. AreChildren(index, row, b, a)
    BY <2>1, <2>2, TwoChildren
  <2>4. above \in 1..h - 1 /\ above \in Nat
    BY <1>4, <2>1, <2>2
  <2>5. a \in Nat /\ a <= c[above]
    BY <1>6, <1>7, <2>2, <2>4
  <2>6. IsMerged(t, above, a)
    BY <1>3, <2>4, <2>5 DEF IsTreeWith
  <2>7. above - 1 = row
    BY <2>1, <2>2
  <2>8. /\ <<row, 2 * a>> \in DOMAIN t /\ <<row, 2 * a + 1>> \in DOMAIN t /\ <<above, a>> \in DOMAIN t
        /\ t[<<above, a>>] = MergeHashes(t[<<row, 2 * a>>], t[<<row, 2 * a + 1>>])
    BY <2>6, <2>7 DEF IsMerged
  <2>9. PICK w : w = WitnessAt(index, row)
    OBVIOUS
  <2>10. /\ w \in DOMAIN t /\ <<above, a>> \in DOMAIN t
         /\ t[<<above, a>>] = IF b % 2 = 1 THEN MergeHashes(t[w], t[<<row, b>>])
                              ELSE MergeHashes(t[<<row, b>>], t[w])
    <3>1. CASE b % 2 = 0 /\ b = 2 * a /\ w = <<row, 2 * a + 1>>
      BY <2>8, <3>1
    <3>2. CASE b % 2 = 1 /\ b = 2 * a + 1 /\ w = <<row, 2 * a>>
      BY <2>8, <3>2
    <3> QED
      BY <2>3, <2>9, <3>1, <3>2 DEF AreChildren
  <2> QED
    BY <2>2, <2>9, <2>10 DEF ClimbsTo
<1> QED
  BY <1>4, <1>6, <1>9, <1>10, <1>11

LEMMA TreeHasPlaces ==
  ASSUME NEW n \in Nat, n # 0, NEW t, IsTree(t, n), NEW index \in Nat, index < n
  PROVE  HasPlaces(t, n, index)
<1>1. PICK h : h = SizeToHeight(n)
  OBVIOUS
<1>2. /\ h \in Nat /\ h >= 1 /\ <<0, index>> \in DOMAIN t
      /\ ColumnAt(index, 0) = index /\ ColumnAt(index, h - 1) = 0
      /\ \A row \in 0..h - 2 : ClimbsTo(t, index, row)
  BY <1>1, TreeClimbs
<1>3. \A row \in 0..h - 2 : WitnessAt(index, row) \in DOMAIN t
  BY <1>2 DEF ClimbsTo
<1>4. <<h - 1, 0>> \in DOMAIN t
  <2>1. CASE h = 1
    <3>1. index = 0 /\ <<h - 1, 0>> = <<0, index>>
      BY <1>2, <2>1
    <3> QED
      BY <1>2, <3>1
  <2>2. CASE h # 1
    <3>1. PICK row : row = h - 2
      OBVIOUS
    <3>2. row \in 0..h - 2 /\ row + 1 = h - 1
      BY <1>2, <2>2, <3>1
    <3>3. <<row + 1, ColumnAt(index, row + 1)>> \in DOMAIN t
      BY <1>2, <3>2 DEF ClimbsTo
    <3> QED
      BY <1>2, <3>2, <3>3
  <2> QED
    BY <2>1, <2>2
<1> QED
  BY <1>1, <1>2, <1>3, <1>4 DEF HasPlaces

\* What getProof() reads from a tree is accepted by verifyProof().
LEMMA TreeVerifies ==
  ASSUME NEW n \in Nat, n # 0, NEW t, IsTree(t, n), NEW index \in Nat, index < n,
         NEW leaf, leaf = t[<<0, index>>], NEW witnesses, Len(witnesses) = SizeToHeight(n) - 1,
         \A i \in 1..Len(witnesses) : witnesses[i] = t[WitnessAt(index, i - 1)],
         NEW root, root = RootOf(t, n)
  PROVE  Verifies(leaf, index, n, witnesses, root)
<1>1. PICK h, m : h = SizeToHeight(n) /\ m = h - 1
  OBVIOUS
<1>2. /\ h \in Nat /\ h >= 1
      /\ ColumnAt(index, 0) = index /\ ColumnAt(index, m) = 0
      /\ \A row \in 0..h - 2 : ClimbsTo(t, index, row)
  BY <1>1, TreeClimbs
<1>3. m \in Nat /\ m = Len(witnesses) /\ m = SizeToHeight(n) - 1
  BY <1>1, <1>2
<1>4. PICK r : /\ IsClimb(r, index, witnesses, leaf, m)
               /\ Verifies(leaf, index, n, witnesses, root) <=> root = r[m]
  BY <1>3, WitnessRun
<1>5. r[0] = leaf /\ \A i \in 1..m : r[i] = MergedWith(index, witnesses, i, r[i - 1])
  BY <1>4 DEF IsClimb
<1> DEFINE N == {i \in Nat : i <= m => r[i] = t[<<i, ColumnAt(index, i)>>]}
<1>6. 0 \in N
  BY <1>2, <1>5
<1>7. ASSUME NEW i \in Nat, i \in N PROVE i + 1 \in N
  <2> SUFFICES ASSUME i + 1 <= m PROVE r[i + 1] = t[<<i + 1, ColumnAt(index, i + 1)>>]
    OBVIOUS
  <2>1. PICK k : k = i + 1
    OBVIOUS
  <2>2. k \in 1..m /\ k - 1 = i /\ i \in 0..h - 2 /\ i <= m
    BY <1>1, <1>2, <1>3, <2>1
  <2>3. r[i] = t[<<i, ColumnAt(index, i)>>]
    BY <1>7, <2>2
  <2>4. r[k] = MergedWith(index, witnesses, k, r[i])
    BY <1>5, <2>2
  <2>5. witnesses[k] = t[WitnessAt(index, i)]
    BY <1>3, <2>2
  <2>6. ClimbsTo(t, index, i)
    BY <1>2, <2>2
  <2> QED
    BY <2>1, <2>2, <2>3, <2>4, <2>5, <2>6 DEF ClimbsTo, MergedWith
<1>8. m \in N
  <2> HIDE DEF N
  <2> QED
    BY <1>3, <1>6, <1>7, InductionOnNumbers
<1>9. r[m] = t[<<m, 0>>]
  BY <1>2, <1>3, <1>8
<1>10. root = t[<<m, 0>>]
  BY <1>1 DEF RootOf
<1> QED
  BY <1>4, <1>9, <1>10
------------------------------------------------------------------------------
(* Proofs of values *)

\* A node of the tree of a content, on the path of a key, at a depth.
IsOnPath(all, key, depth, node) ==
  /\ depth \in 0..KeyLength - 1 /\ PlaceAt(DOMAIN all, key, depth)
  /\ node = OnPath(NodesFor(all), DOMAIN all, key, depth)

LEMMA NodesOfPath ==
  ASSUME NEW all, AreKeys(DOMAIN all), NEW key \in DOMAIN all, NEW depth, NEW node,
         IsOnPath(all, key, depth, node),
         NEW f, f = NodesFor(all), NEW S, S = Sharing(DOMAIN all, key, depth), NEW next, next = depth + 1
  PROVE  /\ key \in S /\ node # NullHash
         /\ IsShared(S) \/ S = {key}
         /\ IsShared(S) => node = Standard(ChildrenOver(f, next, S))
         /\ S = {key} => node = LeafOf(all, depth, key)
<1>1. AreNodes(f, all)
  BY NodesForEffect
<1>2. depth \in 0..KeyLength - 1 /\ node = f[<<depth, S>>]
  BY DEF IsOnPath, OnPath
<1>3. key \in S
  BY DEF Sharing
<1>4. /\ IsShared(S) => node = Standard(ChildrenOver(f, next, S))
      /\ \A j : S = {j} => node = LeafOf(all, depth, j)
  BY <1>1, <1>2, NodeOfClass
<1>5. IsShared(S) \/ S = {key}
  BY <1>3, SharedOrNot
<1>6. node # NullHash
  <2>1. CASE IsShared(S)
    <3>1. PICK h : h = ChildrenOver(f, next, S)
      OBVIOUS
    <3>2. node = Standard(h)
      BY <1>4, <2>1, <3>1
    <3> QED
      BY <3>2, StandardFields
  <2>2. CASE S = {key}
    <3>1. PICK t, x : t = Trailing(depth, key) /\ x = all[key]
      OBVIOUS
    <3>2. node = Leaf(t, x)
      BY <1>4, <2>2, <3>1 DEF LeafOf
    <3> QED
      BY <3>2, LeafFields
  <2> QED
    BY <1>5, <2>1, <2>2
<1> QED
  BY <1>3, <1>4, <1>5, <1>6

\* From a node on the path, get() goes on to the next one, or has the value.
LEMMA PathGoesOn ==
  ASSUME NEW all, AreKeys(DOMAIN all), NEW key \in DOMAIN all, NEW depth, NEW node,
         IsOnPath(all, key, depth, node), NEW next, next = Follow(depth, node, key),
         NEW below, below = depth + 1
  PROVE  \/ IsStandard(node) /\ next # NullHash /\ IsOnPath(all, key, below, next)
         \/ ~IsStandard(node) /\ next = all[key]
<1>1. PICK keys, f : keys = DOMAIN all /\ f = NodesFor(all)
  OBVIOUS
<1>2. PICK S : S = Sharing(keys, key, depth)
  OBVIOUS
<1>3. /\ key \in S
      /\ IsShared(S) \/ S = {key}
      /\ IsShared(S) => node = Standard(ChildrenOver(f, below, S))
      /\ S = {key} => node = LeafOf(all, depth, key)
  BY <1>1, <1>2, NodesOfPath
<1>4. depth \in 0..KeyLength - 1 /\ depth \in Nat
  BY KeyLengthType DEF IsOnPath
<1>5. AreKeys(keys) /\ key \in keys /\ IsKey(key)
  BY <1>1 DEF AreKeys
<1>6. CASE IsShared(S)
  <2>1. PICK h : h = ChildrenOver(f, below, S)
    OBVIOUS
  <2>2. node = Standard(h)
    BY <1>3, <1>6, <2>1
  <2>3. IsStandard(node) /\ node.child = h
    BY <2>2, StandardFields
  <2>4. /\ below \in 0..KeyLength - 1
        /\ \A j \in S : /\ j \in keys /\ Having(S, below, j[below]) = Sharing(keys, j, below)
                        /\ j \in Sharing(keys, j, below)
    BY <1>2, <1>4, <1>5, <1>6, ClassBelow
  <2>5. PICK n : n = key[below]
    OBVIOUS
  <2>6. n \in NibblesAt(S, below)
    BY <1>3, <2>5 DEF NibblesAt
  <2>7. n \in DOMAIN h /\ h[n] = f[<<below, Having(S, below, n)>>]
    BY <2>1, <2>6 DEF ChildrenOver
  <2>8. h[n] = OnPath(f, keys, key, below)
    BY <1>3, <2>4, <2>5, <2>7 DEF OnPath
  <2>9. next = h[n]
    BY <2>3, <2>5, <2>7 DEF Follow
  <2>10. PlaceAt(keys, key, below)
    <3>1. below - 1 = depth
      BY <1>4
    <3> QED
      BY <1>2, <1>6, <3>1 DEF PlaceAt
  <2>11. IsOnPath(all, key, below, next)
    BY <1>1, <2>4, <2>8, <2>9, <2>10 DEF IsOnPath
  <2>12. next # NullHash
    BY <1>5, <1>1, <2>11, NodesOfPath
  <2> QED
    BY <2>3, <2>11, <2>12
<1>7. CASE S = {key}
  <2>1. PICK t, x : t = Trailing(depth, key) /\ x = all[key]
    OBVIOUS
  <2>2. node = Leaf(t, x)
    BY <1>3, <1>7, <2>1 DEF LeafOf
  <2>3. ~IsStandard(node) /\ node.value = x
    BY <2>2, LeafFields
  <2>4. Agree(key, key, depth)
    BY DEF Agree
  <2>5. HoldsKey(depth, node, key)
    BY <1>4, <1>5, <2>1, <2>2, <2>4, HoldsKeyEffect
  <2> QED
    BY <2>1, <2>3, <2>5 DEF Follow
<1> QED
  BY <1>3, <1>6, <1>7

\* The stored tree of a table of states has a path to each of them.
HoldsRow(tree, rows, x, all) ==
  /\ AreKeys(DOMAIN all) /\ IdOf[x] \in DOMAIN all /\ all[IdOf[x]] = rows[x]
  /\ IsOnPath(all, IdOf[x], 0, tree.root)
  /\ \A depth, node : IsOnPath(all, IdOf[x], depth, node) => node \in tree.nodes

LEMMA RowsHaveAPath ==
  ASSUME NEW rows, DOMAIN rows \subseteq DOMAIN IdOf, NEW x \in DOMAIN rows,
         NEW tree, tree = TreeOf(Content(rows)), NEW all, all = Entered(Content(rows))
  PROVE  HoldsRow(tree, rows, x, all)
<1>1. PICK content, key, f : content = Content(rows) /\ key = IdOf[x] /\ f = NodesFor(all)
  OBVIOUS
<1>2. NullKey \notin DOMAIN content /\ AreKeys(DOMAIN all)
  BY <1>1, EnteredKeys
<1>3. /\ DOMAIN content = {IdOf[y] : y \in DOMAIN rows}
      /\ \A y \in DOMAIN rows : content[IdOf[y]] = rows[y]
  <2>1. DOMAIN content = {IdOf[y] : y \in DOMAIN rows}
    BY <1>1, ContentEffect
  <2>2. \A y \in DOMAIN rows : content[IdOf[y]] = rows[y]
    BY <1>1, RowsInContent
  <2> QED
    BY <2>1, <2>2
<1>4. key \in DOMAIN content /\ content[key] = rows[x] /\ key # NullKey
  BY <1>1, <1>2, <1>3
<1>5. key \in DOMAIN all /\ all[key] = rows[x]
  BY <1>1, <1>4 DEF Entered, Put
<1>6. tree = [root |-> f[<<0, DOMAIN all>>], nodes |-> PlaceNodes(f, DOMAIN all)]
  <2>1. DOMAIN content # {} /\ tree = TreeOf(content) /\ all = Entered(content)
    BY <1>1, <1>4
  <2> QED
    BY <1>1, <1>2, <2>1, TreeIsShown
<1>7. PICK keys : keys = DOMAIN all
  OBVIOUS
<1>8. tree.root = f[<<0, keys>>] /\ tree.nodes = PlaceNodes(f, keys)
  BY <1>6, <1>7
<1>9. IsOnPath(all, key, 0, tree.root)
  <2>1. 0 \in 0..KeyLength - 1 /\ PlaceAt(keys, key, 0)
    BY KeyLengthType DEF PlaceAt
  <2>2. tree.root = OnPath(f, keys, key, 0)
    BY <1>8, SharingAll DEF OnPath
  <2> QED
    BY <1>1, <1>7, <2>1, <2>2 DEF IsOnPath
<1>10. ASSUME NEW depth, NEW node, IsOnPath(all, key, depth, node)
       PROVE  node \in tree.nodes
  <2>1. depth \in 0..KeyLength - 1 /\ PlaceAt(keys, key, depth) /\ node = OnPath(f, keys, key, depth)
    BY <1>1, <1>7, <1>10 DEF IsOnPath
  <2>2. keys # {} /\ key \in keys
    BY <1>5, <1>7
  <2>3. node \in PlaceNodes(f, keys)
    BY <2>1, <2>2, PlaceNodesAre
  <2> QED
    BY <1>8, <2>3
<1> QED
  BY <1>1, <1>2, <1>5, <1>9, <1>10 DEF HoldsRow
------------------------------------------------------------------------------
(* What a commit leaves of the tables that a query reads *)

\* A virtual blockchain gets higher, or nothing of it changes.
Grew(w, v, vb) ==
  /\ vb \in DOMAIN v.vbs /\ w.vbs[vb].height \in Nat /\ v.vbs[vb].height \in Nat
  /\ \/ w.vbs[vb].height < v.vbs[vb].height
     \/ v.vbs[vb] = w.vbs[vb] /\ v.merkle[vb] = w.merkle[vb]

Grows(w, v) ==
  DOMAIN w.microblocks \subseteq DOMAIN v.microblocks /\ \A vb \in DOMAIN w.vbs : Grew(w, v, vb)

LEMMA GrowsNot == ASSUME NEW w, HasTrees(w), NEW v, SameTrees(w, v) PROVE Grows(w, v)
BY HeightsTyped DEF Grows, Grew, SameTrees

LEMMA GrowsOn ==
  ASSUME NEW a, NEW b, NEW c, Grows(a, b), Grows(b, c)
  PROVE  Grows(a, c)
<1>1. ASSUME NEW vb \in DOMAIN a.vbs PROVE Grew(a, c, vb)
  <2>1. Grew(a, b, vb)
    BY DEF Grows
  <2>2. Grew(b, c, vb)
    BY <2>1 DEF Grows, Grew
  <2> QED
    BY <2>1, <2>2 DEF Grew
<1> QED
  BY <1>1 DEF Grows

LEMMA GrowsStep ==
  ASSUME NEW w, HasTrees(w), NEW v, Step(w, v)
  PROVE  HasTrees(v) /\ Grows(w, v)
<1>1. HasTrees(v)
  BY TreesStep
<1>2. CASE AccountStep(w, v) \/ RowsStep(w, v)
  <2>1. SameTrees(w, v)
    BY <1>2 DEF AccountStep, Saved, SameChain, RowsStep, SameTrees
  <2> QED
    BY <1>1, <2>1, GrowsNot
<1>3. CASE MicroblockStep(w, v)
  <2>1. PICK vb, state, mb : IsNext(w, vb, state, mb) /\ StoredAs(w, v, vb, state, mb)
    BY <1>3 DEF MicroblockStep
  <2>2. PICK tree : tree = AddLeaf(MerkleOf(w, vb), state.height - 1, mb)
    OBVIOUS
  <2>3. /\ v.merkle = Put(w.merkle, vb, tree)
        /\ DOMAIN v.microblocks = DOMAIN w.microblocks \cup {mb}
        /\ DOMAIN v.vbs = DOMAIN w.vbs \cup {vb} /\ v.vbs[vb] = state
        /\ \A x \in DOMAIN w.vbs : x # vb => v.vbs[x] = w.vbs[x]
    BY <2>1, <2>2 DEF StoredAs
  <2>4. state.height = HeightOf(w, vb) + 1
    BY <2>1 DEF IsNext
  <2>5. DOMAIN w.merkle = DOMAIN w.vbs /\ \A x \in DOMAIN w.vbs : w.vbs[x].height \in Nat
    BY HeightsTyped DEF HasTrees
  <2>6. ASSUME NEW x \in DOMAIN w.vbs PROVE Grew(w, v, x)
    <3>1. CASE x = vb
      <4>1. HeightOf(w, x) = w.vbs[x].height
        BY DEF HeightOf
      <4> QED
        BY <2>3, <2>4, <2>5, <3>1, <4>1 DEF Grew
    <3>2. CASE x # vb
      <4>1. v.merkle[x] = w.merkle[x]
        BY <2>3, <2>5, <3>2 DEF Put
      <4> QED
        BY <2>3, <2>5, <3>2, <4>1 DEF Grew
    <3> QED
      BY <3>1, <3>2
  <2> QED
    BY <1>1, <2>3, <2>6 DEF Grows
<1> QED
  BY <1>2, <1>3 DEF Step

LEMMA GrowsLeads ==
  ASSUME NEW w, HasTrees(w), NEW v, Leads(w, v)
  PROVE  HasTrees(v) /\ Grows(w, v)
<1>1. PICK n \in Nat : \E tr : IsTrace(tr, n, w, v)
  BY DEF Leads
<1>2. PICK tr : IsTrace(tr, n, w, v)
  BY <1>1
<1>3. tr[0] = w /\ tr[n] = v /\ \A i \in 1..n : Step(tr[i - 1], tr[i])
  BY <1>2 DEF IsTrace
<1> DEFINE N == {i \in Nat : i <= n => HasTrees(tr[i]) /\ Grows(w, tr[i])}
<1>4. 0 \in N
  BY <1>3, GrowsNot DEF SameTrees
<1>5. ASSUME NEW i \in Nat, i \in N PROVE i + 1 \in N
  <2> SUFFICES ASSUME i + 1 <= n PROVE HasTrees(tr[i + 1]) /\ Grows(w, tr[i + 1])
    OBVIOUS
  <2>1. PICK u, next : u = tr[i] /\ next = tr[i + 1]
    OBVIOUS
  <2>2. HasTrees(u) /\ Grows(w, u)
    BY <1>5, <2>1
  <2>3. i + 1 \in 1..n /\ (i + 1) - 1 = i
    OBVIOUS
  <2>4. Step(u, next)
    BY <1>3, <2>1, <2>3
  <2>5. HasTrees(next) /\ Grows(u, next)
    BY <2>2, <2>4, GrowsStep
  <2>6. Grows(w, next)
    BY <2>2, <2>5, GrowsOn
  <2> QED
    BY <2>1, <2>5, <2>6
<1>6. n \in N
  <2> HIDE DEF N
  <2> QED
    BY <1>4, <1>5, InductionOnNumbers
<1> QED
  BY <1>3, <1>6

\* The last hashes are those of the trees, and add up.
HashesFit(d) ==
  LET hashes == d.hashes[d.height] IN
    /\ hashes.vbRadix = d.vbRadix.root /\ hashes.tokenRadix = d.tokenRadix.root
    /\ hashes.app = AppHash(hashes.vbRadix, hashes.tokenRadix, hashes.storage)

LEMMA StateHashesFit ==
  ASSUME NEW d, NEW w, NEW r, r = ApplicationStateHashes(d, w)
  PROVE  /\ r.vbRadix = w.vbRadix.root /\ r.tokenRadix = w.tokenRadix.root
         /\ r.app = AppHash(r.vbRadix, r.tokenRadix, r.storage)
<1>1. PICK a, b, c : a = w.vbRadix.root /\ b = w.tokenRadix.root /\ c = StorageHash(d)
  OBVIOUS
<1>2. PICK x : x = AppHash(a, b, c)
  OBVIOUS
<1>3. r = [vbRadix |-> a, tokenRadix |-> b, storage |-> c, app |-> x]
  BY <1>1, <1>2 DEF ApplicationStateHashes
<1> QED
  BY <1>1, <1>2, <1>3

LEMMA CommitGrows ==
  ASSUME NEW d, IsState(d), HasTrees(d), d.height \in Nat,
         NEW o, IsBlockOutcome(d, o), NEW v, v = CommitState(d, o)
  PROVE  Grows(d, v) /\ HashesFit(v) /\ v.height = d.height + 1
<1>1. PICK p : Sound(p) /\ Leads(OpenState(d), p) /\ o = EndOfBlock(d, p, d.height + 1)
  BY DEF IsBlockOutcome
<1>2. PICK w, n : w = OpenState(d) /\ n = d.height + 1
  OBVIOUS
<1>3. SameTrees(d, w) /\ HasTrees(w)
  BY <1>2, OpenStateTrees, SameTreesHas
<1>4. Grows(d, w) /\ Grows(w, p) /\ HasTrees(p)
  BY <1>1, <1>2, <1>3, GrowsNot, GrowsLeads
<1>5. IsState(p) /\ o = EndOfBlock(d, p, n)
  BY <1>1, <1>2 DEF Sound
<1>6. /\ IsState(o) /\ SameTrees(p, o) /\ o.height = n
      /\ o.vbRadix = p.vbRadix /\ o.tokenRadix = p.tokenRadix
  BY <1>5, EndOfBlockAccounts DEF SameTrees
<1>7. PICK r : r = ApplicationStateHashes(d, p)
  OBVIOUS
<1>8. n \in DOMAIN o.hashes /\ o.hashes[n] = r
  <2>1. PICK h, m : h = Put(p.hashes, n, r) /\ m = Put(p.modified, n, p.touched)
    OBVIOUS
  <2>2. o = [p EXCEPT !.height = n, !.hashes = h, !.modified = m]
    BY <1>5, <1>7, <2>1 DEF EndOfBlock
  <2>3. o.hashes = h
    BY <1>5, <2>2 DEF IsState, StateFields
  <2> QED
    BY <2>1, <2>3 DEF Put
<1>9. PICK a, b : a = CommitTree(d.vbRadix, o.vbRadix) /\ b = CommitTree(d.tokenRadix, o.tokenRadix)
  OBVIOUS
<1>10. v = [o EXCEPT !.vbRadix = a, !.tokenRadix = b, !.touched = {}]
  BY <1>9 DEF CommitState
<1>11. v.vbRadix = a /\ v.tokenRadix = b /\ v.hashes = o.hashes
  BY <1>6, <1>10 DEF IsState, StateFields
<1>12. a.root = o.vbRadix.root /\ b.root = o.tokenRadix.root
  BY <1>9 DEF CommitTree
<1>13. v.height = n /\ SameTrees(o, v)
  BY <1>6, CommitStateKeeps DEF SameTrees
<1>14. HashesFit(v)
  BY <1>6, <1>7, <1>8, <1>11, <1>12, <1>13, StateHashesFit DEF HashesFit
<1>15. Grows(p, v)
  BY <1>4, <1>6, <1>13, GrowsNot DEF SameTrees
<1> QED
  BY <1>2, <1>4, <1>13, <1>14, <1>15, GrowsOn
------------------------------------------------------------------------------
(* Queries *)

QueryFields == {"next", "kind", "target", "height", "hashes", "vb", "state", "leaf", "root",
                "witnesses", "radix", "node"}
IsQuery(q) == q = [f \in QueryFields |-> q[f]]

InStage(q) ==
  \/ q.next \in {"block", "radix", "node", "served"} /\ q.kind \in {"microblock", "account"}
  \/ q.next \in {"microblock", "state", "leaf", "root", "witness"} /\ q.kind = "microblock"
  \/ q.next = "account" /\ q.kind = "account"

\* Whose state is proved, in which table and tree, and against which root.
OwnerOf(q) == IF q.kind = "microblock" THEN q.vb.vb ELSE q.target
RowsOf(q, d) == IF q.kind = "microblock" THEN d.vbs ELSE d.accounts
RadixOf(q, d) == IF q.kind = "microblock" THEN d.vbRadix ELSE d.tokenRadix
KeyIn(q) == IdOf[OwnerOf(q)]
RootTold(q) == IF q.kind = "microblock" THEN q.hashes.vbRadix ELSE q.hashes.tokenRadix

Verified(q) ==
  Verifies(q.target, q.vb.height - 1, q.state.height, q.witnesses, q.state.root)

IsList(s) == \E S : s \in Seq(S)

\* Each node leads to the next one, and the last one to this node.
ChainTo(nodes, key, node) ==
  /\ IsList(nodes)
  /\ \A i \in 1..Len(nodes) :
       Follow(i - 1, nodes[i], key) = IF i = Len(nodes) THEN node ELSE nodes[i + 1]

Asked(q, d) ==
  /\ IsQuery(q) /\ InStage(q) /\ q.height \in Nat /\ q.height <= d.height
  /\ q.kind = "microblock" => q.target \in DOMAIN d.microblocks

\* Another block has been committed, or the hashes are those of the database.
Told(q, d) == q.next # "block" /\ q.height = d.height => q.hashes = d.hashes[d.height]

Located(q) ==
  q.kind = "microblock" /\ q.next \notin {"block", "microblock"} =>
    q.vb = [vb |-> q.target.vb, height |-> q.target.height]

NotYet(q) ==
  /\ q.next \in {"block", "microblock", "state"} => q.witnesses = <<>>
  /\ q.next \notin {"node", "served"} => q.radix = <<>>

\* What was read of the virtual blockchain is as it is in the database, or it has grown.
MerkleRead(q, d) ==
  /\ q.state.height \in Nat \ {0} /\ IsList(q.witnesses)
  /\ Len(q.witnesses) <= SizeToHeight(q.state.height) - 1
  /\ q.next = "radix" => Len(q.witnesses) = SizeToHeight(q.state.height) - 1
  /\ q.state.height <= d.vbs[q.target.vb].height
  /\ q.state.height = d.vbs[q.target.vb].height =>
       /\ q.state = d.vbs[q.target.vb]
       /\ \A i \in 1..Len(q.witnesses) :
            q.witnesses[i] = d.merkle[q.target.vb][WitnessAt(q.target.height - 1, i - 1)]

\* The nodes read are on the path of the key in the tree of some state of the database, and
\* if the state that was read is the one in this tree, the rest of the proof goes with it.
OnTree(q) ==
  \E all : /\ AreKeys(DOMAIN all) /\ KeyIn(q) \in DOMAIN all
           /\ IsOnPath(all, KeyIn(q), Len(q.radix), q.node)
           /\ all[KeyIn(q)] = q.state => Verified(q)

NodeRead(q) == ChainTo(q.radix, KeyIn(q), q.node) /\ (q.kind = "microblock" => OnTree(q))

Accepted(q) ==
  /\ ProvesValue(q.radix, RootTold(q), KeyIn(q), q.state)
  /\ q.kind = "microblock" => Verified(q)

HasMerkle(q) == q.kind = "microblock" /\ q.next \in {"leaf", "root", "witness", "radix"}

\* What is known of a query whatever is committed meanwhile.
Genuine(q, d) ==
  q.next \in {"none", "refused"} \/
    /\ Asked(q, d) /\ Told(q, d) /\ Located(q) /\ NotYet(q)
    /\ HasMerkle(q) => MerkleRead(q, d)
    /\ q.next = "node" => NodeRead(q)
    /\ q.next = "served" => Accepted(q)

\* The node to be read is on the path in the tree of the database, and the root is the one told.
OnCurrentTree(q, d) ==
  /\ (IF Len(q.radix) = 0 THEN q.node ELSE q.radix[1]) = RootTold(q)
  /\ IsOnPath(Entered(Content(RowsOf(q, d))), KeyIn(q), Len(q.radix), q.node)

\* What is known of a query as long as nothing is committed.
Current(q, d) ==
  /\ q.next # "refused"
  /\ q.next \notin {"none", "served"} =>
       /\ q.height = d.height
       /\ q.kind = "account" => q.target \in DOMAIN d.accounts
       /\ q.next \in {"leaf", "root", "witness", "radix", "node"} => q.state = RowsOf(q, d)[OwnerOf(q)]
       /\ q.next = "witness" => q.root = RootOf(d.merkle[q.target.vb], q.state.height)
       /\ q.next = "node" => OnCurrentTree(q, d)

TablesFit(d) ==
  /\ Sound(d) /\ d.height \in Nat /\ HasRadixTrees(d) /\ (d = EmptyTables \/ HashesFit(d))

\* A list t is a list s of length n with an element more.
IsAppended(s, e, t, n, m) ==
  /\ IsList(t) /\ n \in Nat /\ Len(t) = m /\ t[m] = e
  /\ \A i \in 1..n : t[i] = s[i]

LEMMA ListAppend ==
  ASSUME NEW s, IsList(s), NEW e, NEW t, t = Append(s, e), NEW n, n = Len(s), NEW m, m = n + 1
  PROVE  IsAppended(s, e, t, n, m)
<1>1. PICK S : s \in Seq(S)
  BY DEF IsList
<1>2. PICK T : T = S \cup {e}
  OBVIOUS
<1>3. s \in Seq(T) /\ e \in T
  BY <1>1, <1>2
<1>4. t \in Seq(T) /\ n \in Nat /\ Len(t) = n + 1 /\ t[n + 1] = e
  BY <1>3
<1>5. \A i \in 1..n : t[i] = s[i]
  BY <1>3
<1> QED
  BY <1>4, <1>5 DEF IsList, IsAppended

LEMMA EmptyList == IsList(<<>>) /\ Len(<<>>) = 0
<1>1. <<>> \in Seq({0})
  OBVIOUS
<1> QED
  BY <1>1 DEF IsList

\* With the last node, a list leads to what follows it.
InChain(more, key, next, n, m, node, nodes) ==
  /\ ChainTo(more, key, next) /\ n \in Nat /\ m = n + 1 /\ Len(more) = m /\ more[m] = node
  /\ more[1] = IF n = 0 THEN node ELSE nodes[1]

LEMMA ChainLonger ==
  ASSUME NEW nodes, NEW key, NEW node, ChainTo(nodes, key, node), NEW n, n = Len(nodes),
         NEW more, more = Append(nodes, node), NEW next, next = Follow(n, node, key),
         NEW m, m = n + 1
  PROVE  InChain(more, key, next, n, m, node, nodes)
<1>1. IsList(nodes)
  BY DEF ChainTo
<1>2. /\ IsList(more) /\ n \in Nat /\ Len(more) = n + 1 /\ more[n + 1] = node
      /\ \A i \in 1..n : more[i] = nodes[i]
  <2>1. IsAppended(nodes, node, more, n, m)
    BY <1>1, ListAppend
  <2> QED
    BY <2>1 DEF IsAppended
<1>3. \A i \in 1..n : Follow(i - 1, nodes[i], key) = IF i = n THEN node ELSE nodes[i + 1]
  BY DEF ChainTo
<1>4. ASSUME NEW i \in 1..n + 1
      PROVE  Follow(i - 1, more[i], key) = IF i = n + 1 THEN next ELSE more[i + 1]
  <2>1. CASE i = n + 1
    <3>1. i - 1 = n /\ more[i] = node
      BY <1>2, <2>1
    <3> QED
      BY <2>1, <3>1
  <2>2. CASE i # n + 1
    <3>1. i \in 1..n /\ i # n + 1 /\ more[i] = nodes[i]
      BY <1>2, <2>2
    <3>2. more[i + 1] = IF i = n THEN node ELSE nodes[i + 1]
      BY <1>2, <3>1
    <3> QED
      BY <1>3, <3>1, <3>2
  <2> QED
    BY <2>1, <2>2
<1>5. ChainTo(more, key, next)
  BY <1>2, <1>4 DEF ChainTo
<1>6. more[1] = IF n = 0 THEN node ELSE nodes[1]
  BY <1>2
<1> QED
  BY <1>2, <1>5, <1>6 DEF InChain

LEMMA ChainProves ==
  ASSUME NEW nodes, NEW key, NEW value, ChainTo(nodes, key, value), NEW n \in Nat, n # 0,
         Len(nodes) = n, ~IsStandard(nodes[n])
  PROVE  ProvesValue(nodes, nodes[1], key, value)
<1>1. \A i \in 1..n : Follow(i - 1, nodes[i], key) = IF i = n THEN value ELSE nodes[i + 1]
  BY DEF ChainTo
<1>2. nodes # <<>>
  BY EmptyList
<1>3. \A i \in 1..n - 1 : Follow(i - 1, nodes[i], key) = nodes[i + 1]
  BY <1>1
<1>4. Follow(n - 1, nodes[n], key) = value
  BY <1>1
<1> QED
  BY <1>2, <1>3, <1>4 DEF ProvesValue

\* The place of a stored microblock: a leaf of the tree of its virtual blockchain.
PlacedAt(d, mb, vb, index, n, t) ==
  /\ mb \in DOMAIN d.microblocks /\ vb = mb.vb /\ index = mb.height - 1
  /\ n = d.vbs[vb].height /\ t = d.merkle[vb]

InItsTree(d, mb, vb, index, n, t) ==
  /\ vb \in DOMAIN d.vbs /\ n \in Nat /\ n # 0 /\ index \in Nat /\ index < n
  /\ IsTree(t, n) /\ t[<<0, index>>] = mb /\ d.vbs[vb].root = RootOf(t, n)

LEMMA MicroblockPlaced ==
  ASSUME NEW d, HasTrees(d), NEW mb, NEW vb, NEW index, NEW n, NEW t, PlacedAt(d, mb, vb, index, n, t)
  PROVE  InItsTree(d, mb, vb, index, n, t)
<1> /\ mb \in DOMAIN d.microblocks /\ vb = mb.vb /\ index = mb.height - 1
    /\ n = d.vbs[vb].height /\ t = d.merkle[vb]
  BY DEF PlacedAt
<1>1. KnowsMicroblocks(d)
  BY DEF HasTrees
<1>2. vb \in DOMAIN d.vbs /\ mb.height \in Nat \ {0} /\ mb.height <= n
  BY <1>1 DEF KnowsMicroblocks
<1>3. PICK s, m : HasTree(d, vb, s, m)
  BY <1>2 DEF HasTrees
<1>4. /\ n \in Nat /\ n # 0 /\ IsTree(t, n) /\ d.vbs[vb].root = RootOf(t, n)
      /\ \A h \in 1..n : /\ t[<<0, h - 1>>] = s[h] /\ s[h] \in DOMAIN d.microblocks
                         /\ s[h].vb = vb /\ s[h].height = h
  BY <1>3 DEF HasTree
<1>5. PICK h : h = mb.height
  OBVIOUS
<1>6. h \in 1..n /\ index = h - 1
  BY <1>2, <1>4, <1>5
<1>7. t[<<0, index>>] = s[h] /\ s[h] \in DOMAIN d.microblocks /\ s[h].vb = mb.vb /\ s[h].height = mb.height
  BY <1>4, <1>5, <1>6
<1>8. s[h] = mb
  BY <1>1, <1>7 DEF KnowsMicroblocks
<1> QED
  BY <1>2, <1>4, <1>6, <1>7, <1>8 DEF InItsTree

\* The state of a query's owner is in the tree of the database.
LEMMA OwnerHeld ==
  ASSUME NEW d, TablesFit(d), NEW q, NEW rows, rows = RowsOf(q, d), NEW x, x = OwnerOf(q),
         x \in DOMAIN rows, NEW tree, tree = RadixOf(q, d), NEW all, all = Entered(Content(rows))
  PROVE  HoldsRow(tree, rows, x, all) /\ rows[x] # NullHash
<1>1. HoldsStates(d) /\ DOMAIN d.accounts \subseteq Accounts /\ Sound(d)
  BY DEF TablesFit, HasRadixTrees, AccountsNamed
<1>2. d.vbRadix = TreeOf(Content(d.vbs)) /\ d.tokenRadix = TreeOf(Content(d.accounts))
  BY <1>1, HoldsContents
<1>3. /\ NoneIsNull(d.vbs) /\ NoneIsNull(d.accounts)
      /\ DOMAIN d.vbs \subseteq DOMAIN IdOf /\ DOMAIN d.accounts \subseteq DOMAIN IdOf
  BY <1>1, StatesNotNull, OwnersAreKnown
<1>4. tree = TreeOf(Content(rows)) /\ NoneIsNull(rows) /\ DOMAIN rows \subseteq DOMAIN IdOf
  BY <1>2, <1>3 DEF RowsOf, RadixOf
<1>5. HoldsRow(tree, rows, x, all)
  BY <1>4, RowsHaveAPath
<1> QED
  BY <1>4, <1>5 DEF NoneIsNull
------------------------------------------------------------------------------
(* Each step of a query *)

\* Another read, of a query that has its block and microblock.
LEMMA StillAsked ==
  ASSUME NEW d, NEW q, Asked(q, d), Told(q, d), Located(q), q.next \notin {"block", "microblock"},
         NEW r, IsQuery(r), InStage(r), r.kind = q.kind, r.target = q.target, r.height = q.height,
         r.hashes = q.hashes, r.vb = q.vb
  PROVE  Asked(r, d) /\ Told(r, d) /\ Located(r)
BY DEF Asked, Told, Located

LEMMA RefusedIsGenuine ==
  ASSUME NEW q, IsQuery(q), NEW d, NEW r, r = [q EXCEPT !.next = "refused"]
  PROVE  Genuine(r, d)
<1>1. r.next = "refused"
  BY DEF IsQuery, QueryFields
<1> QED
  BY <1>1 DEF Genuine

LEMMA StartedQuery ==
  ASSUME NEW d, TablesFit(d), NEW r, NEW kind, NEW target,
         r = [next |-> "block", kind |-> kind, target |-> target, height |-> d.height,
              hashes |-> <<>>, vb |-> <<>>, state |-> <<>>, leaf |-> <<>>, root |-> <<>>,
              witnesses |-> <<>>, radix |-> <<>>, node |-> NullHash],
         \/ kind = "microblock" /\ target \in DOMAIN d.microblocks
         \/ kind = "account" /\ target \in DOMAIN d.accounts
  PROVE  Genuine(r, d) /\ Current(r, d)
<1>1. IsQuery(r)
  BY DEF IsQuery, QueryFields
<1>2. /\ r.next = "block" /\ r.kind = kind /\ r.target = target /\ r.height = d.height
      /\ r.witnesses = <<>> /\ r.radix = <<>>
  OBVIOUS
<1>3. d.height \in Nat
  BY DEF TablesFit
<1>4. Asked(r, d)
  BY <1>1, <1>2, <1>3 DEF Asked, InStage
<1>5. Told(r, d) /\ Located(r) /\ NotYet(r) /\ ~HasMerkle(r)
  BY <1>2 DEF Told, Located, NotYet, HasMerkle
<1>6. Genuine(r, d)
  BY <1>2, <1>4, <1>5 DEF Genuine
<1>7. Current(r, d)
  BY <1>2 DEF Current
<1> QED
  BY <1>6, <1>7

\* What a step of a query does to it while nothing else happens.
Reads(q, r, d) ==
  /\ Genuine(r, d)
  /\ Current(q, d) => Current(r, d)

LEMMA BlockRead ==
  ASSUME TablesFit(db), Genuine(query, db), ReadBlock
  PROVE  Reads(query, query', db)
<1>1. PICK q, r, d : q = query /\ r = query' /\ d = db
  OBVIOUS
<1>2. PICK hashes : hashes = d.hashes[q.height]
  OBVIOUS
<1>3. /\ q.next = "block"
      /\ IF hashes.app # AppHash(hashes.vbRadix, hashes.tokenRadix, hashes.storage)
         THEN r = [q EXCEPT !.next = "refused"]
         ELSE r = [q EXCEPT !.hashes = hashes,
                     !.next = IF q.kind = "microblock" THEN "microblock" ELSE "account"]
  BY <1>1, <1>2 DEF ReadBlock, Reading, Refuse
<1>4. Asked(q, d) /\ NotYet(q) /\ IsQuery(q)
  BY <1>1, <1>3 DEF Genuine, Asked
<1>5. CASE hashes.app = AppHash(hashes.vbRadix, hashes.tokenRadix, hashes.storage)
  <2>1. r = [q EXCEPT !.hashes = hashes,
               !.next = IF q.kind = "microblock" THEN "microblock" ELSE "account"]
    BY <1>3, <1>5
  <2>2. /\ IsQuery(r) /\ r.hashes = hashes /\ r.kind = q.kind /\ r.target = q.target
        /\ r.height = q.height /\ r.witnesses = q.witnesses /\ r.radix = q.radix
        /\ r.next = IF q.kind = "microblock" THEN "microblock" ELSE "account"
    BY <1>4, <2>1 DEF IsQuery, QueryFields
  <2>3. Asked(r, d)
    BY <1>3, <1>4, <2>2 DEF Asked, InStage
  <2>4. Told(r, d) /\ Located(r) /\ ~HasMerkle(r) /\ r.next \in {"microblock", "account"}
    BY <1>2, <2>2 DEF Told, Located, HasMerkle
  <2>5. NotYet(r)
    BY <1>3, <1>4, <2>2, <2>4 DEF NotYet
  <2>6. Genuine(r, d)
    BY <2>3, <2>4, <2>5 DEF Genuine
  <2>7. Current(q, d) => Current(r, d)
    BY <1>3, <2>2, <2>4 DEF Current
  <2> QED
    BY <1>1, <2>6, <2>7 DEF Reads
<1>6. CASE hashes.app # AppHash(hashes.vbRadix, hashes.tokenRadix, hashes.storage)
  <2>1. r = [q EXCEPT !.next = "refused"]
    BY <1>3, <1>6
  <2>2. Genuine(r, d)
    BY <1>4, <2>1, RefusedIsGenuine
  <2>3. ASSUME Current(q, d) PROVE FALSE
    <3>1. q.height = d.height /\ (q.kind = "account" => q.target \in DOMAIN d.accounts)
      BY <1>3, <2>3 DEF Current
    <3>2. DOMAIN d.accounts # {} \/ DOMAIN d.microblocks # {}
      BY <1>3, <1>4, <3>1 DEF Asked, InStage
    <3>3. d # EmptyTables
      BY <3>2 DEF EmptyTables
    <3>4. HashesFit(d)
      BY <1>1, <3>3 DEF TablesFit
    <3> QED
      BY <1>2, <1>6, <3>1, <3>4 DEF HashesFit
  <2> QED
    BY <1>1, <2>2, <2>3 DEF Reads
<1> QED
  BY <1>5, <1>6

LEMMA MicroblockRead ==
  ASSUME TablesFit(db), Genuine(query, db), ReadMicroblock
  PROVE  Reads(query, query', db)
<1>1. PICK q, r, d : q = query /\ r = query' /\ d = db
  OBVIOUS
<1>2. PICK vb : vb = d.microblocks[q.target]
  OBVIOUS
<1>3. q.next = "microblock" /\ r = [q EXCEPT !.vb = vb, !.next = "state"]
  BY <1>1, <1>2 DEF ReadMicroblock, Reading
<1>4. Asked(q, d) /\ Told(q, d) /\ NotYet(q) /\ IsQuery(q)
  BY <1>1, <1>3 DEF Genuine, Asked
<1>5. /\ IsQuery(r) /\ r.vb = vb /\ r.next = "state" /\ r.kind = q.kind /\ r.target = q.target
      /\ r.height = q.height /\ r.hashes = q.hashes /\ r.witnesses = q.witnesses /\ r.radix = q.radix
  BY <1>3, <1>4 DEF IsQuery, QueryFields
<1>6. q.kind = "microblock" /\ q.target \in DOMAIN d.microblocks
  BY <1>3, <1>4 DEF Asked, InStage
<1>7. HasTrees(d)
  BY <1>1 DEF TablesFit, HasRadixTrees
<1>8. vb = [vb |-> q.target.vb, height |-> q.target.height]
  BY <1>2, <1>6, <1>7 DEF HasTrees, KnowsMicroblocks
<1>9. Asked(r, d)
  BY <1>4, <1>5, <1>6 DEF Asked, InStage
<1>10. Told(r, d)
  BY <1>3, <1>4, <1>5 DEF Told
<1>11. Located(r)
  BY <1>5, <1>8 DEF Located
<1>12. NotYet(r) /\ ~HasMerkle(r)
  BY <1>3, <1>4, <1>5 DEF NotYet, HasMerkle
<1>13. Genuine(r, d)
  BY <1>5, <1>9, <1>10, <1>11, <1>12 DEF Genuine
<1>14. Current(q, d) => Current(r, d)
  BY <1>3, <1>5 DEF Current
<1> QED
  BY <1>1, <1>13, <1>14 DEF Reads

LEMMA StateRead ==
  ASSUME TablesFit(db), Genuine(query, db), ReadState
  PROVE  Reads(query, query', db)
<1>1. PICK q, r, d : q = query /\ r = query' /\ d = db
  OBVIOUS
<1>2. PICK state : state = d.vbs[q.vb.vb]
  OBVIOUS
<1>3. q.next = "state" /\ r = [q EXCEPT !.state = state, !.next = "leaf"]
  BY <1>1, <1>2 DEF ReadState, Reading
<1>4. Asked(q, d) /\ Told(q, d) /\ Located(q) /\ NotYet(q) /\ IsQuery(q)
  BY <1>1, <1>3 DEF Genuine, Asked
<1>5. /\ IsQuery(r) /\ r.state = state /\ r.next = "leaf" /\ r.kind = q.kind /\ r.target = q.target
      /\ r.height = q.height /\ r.hashes = q.hashes /\ r.vb = q.vb
      /\ r.witnesses = q.witnesses /\ r.radix = q.radix
  BY <1>3, <1>4 DEF IsQuery, QueryFields
<1>6. q.kind = "microblock" /\ q.target \in DOMAIN d.microblocks
  BY <1>3, <1>4 DEF Asked, InStage
<1>7. HasTrees(d)
  BY <1>1 DEF TablesFit, HasRadixTrees
<1>8. q.vb = [vb |-> q.target.vb, height |-> q.target.height]
  BY <1>3, <1>4, <1>6 DEF Located
<1>9. PICK vb, n : vb = q.target.vb /\ n = d.vbs[vb].height
  OBVIOUS
<1>10. state = d.vbs[vb] /\ state.height = n /\ n \in Nat /\ n # 0
  <2>1. state = d.vbs[vb] /\ state.height = n
    BY <1>2, <1>8, <1>9
  <2>2. PICK mb, index, t : mb = q.target /\ index = mb.height - 1 /\ t = d.merkle[vb]
    OBVIOUS
  <2>3. mb \in DOMAIN d.microblocks /\ vb = mb.vb
    BY <1>6, <1>9, <2>2
  <2>4. n \in Nat /\ n # 0
    <3>1. PlacedAt(d, mb, vb, index, n, t)
      BY <1>9, <2>2, <2>3 DEF PlacedAt
    <3>2. InItsTree(d, mb, vb, index, n, t)
      BY <1>7, <3>1, MicroblockPlaced
    <3> QED
      BY <3>2 DEF InItsTree
  <2> QED
    BY <2>1, <2>4
<1>11. Asked(r, d) /\ Told(r, d) /\ Located(r)
  <2>1. InStage(r)
    BY <1>5, <1>6 DEF InStage
  <2> QED
    BY <1>3, <1>4, <1>5, <2>1, StillAsked
<1>12. NotYet(r)
  BY <1>3, <1>4, <1>5 DEF NotYet
<1>13. MerkleRead(r, d)
  <2>1. r.witnesses = <<>>
    BY <1>3, <1>4, <1>5 DEF NotYet
  <2>2. IsList(r.witnesses) /\ Len(r.witnesses) = 0
    BY <2>1, EmptyList
  <2>3. 0 <= SizeToHeight(n) - 1
    BY <1>10, HeightOfSize
  <2>4. \A i \in 1..0 : r.witnesses[i] = d.merkle[vb][WitnessAt(r.target.height - 1, i - 1)]
    OBVIOUS
  <2> QED
    BY <1>5, <1>9, <1>10, <2>2, <2>3, <2>4 DEF MerkleRead
<1>14. Genuine(r, d)
  BY <1>5, <1>11, <1>12, <1>13 DEF Genuine
<1>15. Current(q, d) => Current(r, d)
  <2>1. RowsOf(r, d)[OwnerOf(r)] = state
    BY <1>2, <1>5, <1>6 DEF RowsOf, OwnerOf
  <2> QED
    BY <1>3, <1>5, <1>6, <2>1 DEF Current
<1> QED
  BY <1>1, <1>14, <1>15 DEF Reads

\* What the next reads have in common.
MerkleStage(q, d) ==
  /\ Asked(q, d) /\ Told(q, d) /\ Located(q) /\ NotYet(q) /\ IsQuery(q)
  /\ q.kind = "microblock" /\ q.target \in DOMAIN d.microblocks /\ MerkleRead(q, d)
  /\ q.vb = [vb |-> q.target.vb, height |-> q.target.height]

LEMMA AtMerkleStage ==
  ASSUME NEW q, NEW d, Genuine(q, d), q.next \in {"leaf", "root", "witness"}
  PROVE  MerkleStage(q, d)
<1>1. Asked(q, d) /\ Told(q, d) /\ Located(q) /\ NotYet(q) /\ IsQuery(q)
  BY DEF Genuine, Asked
<1>2. q.kind = "microblock" /\ q.target \in DOMAIN d.microblocks
  BY <1>1 DEF Asked, InStage
<1>3. MerkleRead(q, d)
  BY <1>2 DEF Genuine, HasMerkle
<1>4. q.vb = [vb |-> q.target.vb, height |-> q.target.height]
  BY <1>1, <1>2 DEF Located
<1> QED
  BY <1>1, <1>2, <1>3, <1>4 DEF MerkleStage

\* The parts of a proof that are known to be those of the database.
LEMMA CurrentPlaces ==
  ASSUME NEW d, TablesFit(d), NEW q, MerkleStage(q, d), Current(q, d),
         q.next \in {"leaf", "root", "witness"},
         NEW t, t = d.merkle[q.vb.vb], NEW index, index = q.vb.height - 1
  PROVE  /\ q.state = d.vbs[q.target.vb] /\ q.state.root = RootOf(t, q.state.height)
         /\ HasPlaces(t, q.state.height, index)
<1>1. q.vb.vb = q.target.vb /\ q.vb.height = q.target.height
  BY DEF MerkleStage
<1>2. q.state = RowsOf(q, d)[OwnerOf(q)] /\ q.kind = "microblock"
  BY DEF Current, MerkleStage
<1>3. q.state = d.vbs[q.target.vb]
  BY <1>1, <1>2 DEF RowsOf, OwnerOf
<1>4. HasTrees(d) /\ q.target \in DOMAIN d.microblocks
  BY DEF TablesFit, HasRadixTrees, MerkleStage
<1>5. PICK vb, n : vb = q.target.vb /\ n = d.vbs[vb].height
  OBVIOUS
<1>6. PICK mb, i : mb = q.target /\ i = mb.height - 1
  OBVIOUS
<1>7. n \in Nat /\ n # 0 /\ index \in Nat /\ index < n /\ IsTree(t, n) /\ d.vbs[vb].root = RootOf(t, n)
  <2>1. mb \in DOMAIN d.microblocks /\ vb = mb.vb /\ t = d.merkle[vb] /\ index = i
    BY <1>1, <1>4, <1>5, <1>6
  <2>2. PlacedAt(d, mb, vb, index, n, t)
    BY <1>5, <1>6, <2>1 DEF PlacedAt
  <2>3. InItsTree(d, mb, vb, index, n, t)
    BY <1>4, <2>2, MicroblockPlaced
  <2> QED
    BY <2>3 DEF InItsTree
<1>8. HasPlaces(t, n, index)
  BY <1>7, TreeHasPlaces
<1> QED
  BY <1>3, <1>5, <1>7, <1>8
\* Nothing but the leaf, the root or the witnesses was read.
SameReads(q, r) ==
  /\ r.kind = q.kind /\ r.target = q.target /\ r.height = q.height /\ r.hashes = q.hashes
  /\ r.vb = q.vb /\ r.state = q.state /\ r.radix = q.radix

LEMMA MerkleGoesOn ==
  ASSUME NEW d, NEW q, MerkleStage(q, d), q.next \in {"leaf", "root", "witness"},
         NEW r, IsQuery(r), SameReads(q, r), r.next \in {"root", "witness", "radix"}, MerkleRead(r, d)
  PROVE  Genuine(r, d)
<1>1. Asked(q, d) /\ Told(q, d) /\ Located(q) /\ NotYet(q) /\ q.kind = "microblock"
  BY DEF MerkleStage
<1>2. InStage(r)
  BY <1>1 DEF InStage, SameReads
<1>3. Asked(r, d) /\ Told(r, d) /\ Located(r)
  BY <1>1, <1>2, StillAsked DEF SameReads
<1>4. NotYet(r)
  BY <1>1 DEF NotYet, SameReads
<1> QED
  BY <1>3, <1>4 DEF Genuine

LEMMA MerkleStaysCurrent ==
  ASSUME NEW d, NEW q, Current(q, d), q.next \in {"leaf", "root", "witness"},
         NEW r, SameReads(q, r), r.next \in {"root", "witness", "radix"},
         r.next = "witness" => r.root = RootOf(d.merkle[r.target.vb], r.state.height)
  PROVE  Current(r, d)
<1>1. RowsOf(r, d) = RowsOf(q, d) /\ OwnerOf(r) = OwnerOf(q)
  BY DEF RowsOf, OwnerOf, SameReads
<1> QED
  BY <1>1 DEF Current, SameReads

LEMMA NodeGotten ==
  ASSUME TablesFit(db), Genuine(query, db), NEW found \in {"leaf", "root"}, query.next = found,
         NEW place, GetNode(place, found),
         \A t : HasPlaces(t, query.state.height, query.vb.height - 1) => place \in DOMAIN t,
         found = "root" => place = <<SizeToHeight(query.state.height) - 1, 0>>
  PROVE  Reads(query, query', db)
<1>1. PICK q, r, d : q = query /\ r = query' /\ d = db
  OBVIOUS
<1>2. PICK t, index : t = d.merkle[q.vb.vb] /\ index = q.vb.height - 1
  OBVIOUS
<1>3. /\ place \notin DOMAIN t => r = [q EXCEPT !.next = "refused"]
      /\ place \in DOMAIN t =>
           r = [q EXCEPT ![found] = t[place], !.next = IF found = "leaf" THEN "root" ELSE "witness"]
  BY <1>1, <1>2 DEF GetNode, Refuse
<1>4. MerkleStage(q, d)
  BY <1>1, AtMerkleStage
<1>5. IsQuery(q) /\ MerkleRead(q, d) /\ q.vb.vb = q.target.vb
  BY <1>4 DEF MerkleStage
<1>6. CASE place \notin DOMAIN t
  <2>1. r = [q EXCEPT !.next = "refused"]
    BY <1>3, <1>6
  <2>2. Genuine(r, d)
    BY <1>5, <2>1, RefusedIsGenuine
  <2>3. ASSUME Current(q, d) PROVE FALSE
    <3>1. HasPlaces(t, q.state.height, index)
      BY <1>1, <1>2, <1>4, <2>3, CurrentPlaces
    <3> QED
      BY <1>1, <1>2, <1>6, <3>1
  <2> QED
    BY <1>1, <2>2, <2>3 DEF Reads
<1>7. CASE place \in DOMAIN t
  <2>1. r = [q EXCEPT ![found] = t[place], !.next = IF found = "leaf" THEN "root" ELSE "witness"]
    BY <1>3, <1>7
  <2>2. /\ IsQuery(r) /\ SameReads(q, r) /\ r.witnesses = q.witnesses
        /\ r.next = IF found = "leaf" THEN "root" ELSE "witness"
        /\ found = "root" => r.root = t[place]
    BY <1>5, <2>1 DEF IsQuery, QueryFields, SameReads
  <2>3. MerkleRead(r, d)
    BY <1>5, <2>2 DEF MerkleRead, SameReads
  <2>4. Genuine(r, d)
    BY <1>1, <1>4, <2>2, <2>3, MerkleGoesOn
  <2>5. found = "root" => r.root = RootOf(d.merkle[r.target.vb], r.state.height)
    BY <1>1, <1>2, <1>5, <2>2 DEF RootOf, SameReads
  <2>6. Current(q, d) => Current(r, d)
    BY <1>1, <2>2, <2>5, MerkleStaysCurrent
  <2> QED
    BY <1>1, <2>4, <2>6 DEF Reads
<1> QED
  BY <1>6, <1>7

LEMMA LeafRead ==
  ASSUME TablesFit(db), Genuine(query, db), ReadLeaf
  PROVE  Reads(query, query', db)
<1>1. PICK place, index, size : place = <<0, index>> /\ index = query.vb.height - 1 /\ size = query.state.height
  OBVIOUS
<1>2. query.next = "leaf" /\ GetNode(place, "leaf")
  BY <1>1 DEF ReadLeaf, Reading
<1>3. \A t : HasPlaces(t, size, index) => place \in DOMAIN t
  BY <1>1 DEF HasPlaces
<1> QED
  BY <1>1, <1>2, <1>3, NodeGotten

LEMMA MerkleRootRead ==
  ASSUME TablesFit(db), Genuine(query, db), ReadMerkleRoot
  PROVE  Reads(query, query', db)
<1>1. PICK place, index, size : /\ place = <<SizeToHeight(size) - 1, 0>> /\ index = query.vb.height - 1
                                /\ size = query.state.height
  OBVIOUS
<1>2. query.next = "root" /\ GetNode(place, "root")
  BY <1>1 DEF ReadMerkleRoot, Reading
<1>3. \A t : HasPlaces(t, size, index) => place \in DOMAIN t
  BY <1>1 DEF HasPlaces
<1> QED
  BY <1>1, <1>2, <1>3, NodeGotten

LEMMA WitnessRead ==
  ASSUME TablesFit(db), Genuine(query, db), ReadWitness
  PROVE  Reads(query, query', db)
<1>1. PICK q, r, d : q = query /\ r = query' /\ d = db
  OBVIOUS
<1>2. PICK t, index, row, size, last, w :
        /\ t = d.merkle[q.vb.vb] /\ index = q.vb.height - 1 /\ row = Len(q.witnesses)
        /\ size = q.state.height /\ last = SizeToHeight(size) - 1 /\ w = WitnessAt(index, row)
  OBVIOUS
<1>3. q.next = "witness"
  BY <1>1 DEF ReadWitness, Reading
<1>4. IF row < last
      THEN IF w \notin DOMAIN t THEN r = [q EXCEPT !.next = "refused"]
           ELSE r = [q EXCEPT !.witnesses = Append(@, t[w])]
      ELSE IF q.root # q.state.root THEN r = [q EXCEPT !.next = "refused"]
      ELSE r = [q EXCEPT !.next = "radix"]
  BY <1>1, <1>2 DEF ReadWitness, Witness, Refuse
<1>5. MerkleStage(q, d)
  BY <1>1, <1>3, AtMerkleStage
<1>6. /\ IsQuery(q) /\ MerkleRead(q, d) /\ q.vb.vb = q.target.vb /\ q.vb.height = q.target.height
  BY <1>5 DEF MerkleStage
<1>7. /\ size \in Nat \ {0} /\ row <= last /\ IsList(q.witnesses)
  BY <1>2, <1>6 DEF MerkleRead
<1>8. row \in Nat /\ last \in Nat
  <2>1. row \in Nat
    BY <1>2, <1>7 DEF IsList
  <2>2. SizeToHeight(size) \in Nat /\ 1 <= SizeToHeight(size)
    BY <1>7, HeightOfSize
  <2> QED
    BY <1>2, <2>1, <2>2
<1>9. ASSUME Current(q, d)
      PROVE  (row < last => w \in DOMAIN t) /\ q.root = q.state.root
  <2>1. /\ q.state.root = RootOf(t, size) /\ HasPlaces(t, size, index)
    BY <1>1, <1>2, <1>3, <1>5, <1>9, CurrentPlaces
  <2>2. q.root = RootOf(d.merkle[q.target.vb], q.state.height)
    BY <1>3, <1>9 DEF Current
  <2>3. q.root = q.state.root
    BY <1>2, <1>6, <2>1, <2>2
  <2>4. row < last => w \in DOMAIN t
    <3> SUFFICES ASSUME row < last PROVE w \in DOMAIN t
      OBVIOUS
    <3>1. PICK h : h = SizeToHeight(size)
      OBVIOUS
    <3>2. h \in Nat
      BY <1>7, <3>1, HeightOfSize
    <3>3. row \in 0..h - 2
      BY <1>2, <1>8, <3>1, <3>2
    <3> QED
      BY <1>2, <2>1, <3>1, <3>3 DEF HasPlaces
  <2> QED
    BY <2>3, <2>4
<1>10. CASE r = [q EXCEPT !.next = "refused"] /\ ~Current(q, d)
  <2>1. Genuine(r, d)
    BY <1>6, <1>10, RefusedIsGenuine
  <2> QED
    BY <1>1, <1>10, <2>1 DEF Reads
<1>11. CASE row < last /\ r = [q EXCEPT !.witnesses = Append(@, t[w])]
  <2>1. PICK m, e, more : m = row + 1 /\ e = t[w] /\ more = Append(q.witnesses, e)
    OBVIOUS
  <2>2. /\ IsQuery(r) /\ SameReads(q, r) /\ r.next = "witness" /\ r.witnesses = more /\ r.root = q.root
    BY <1>3, <1>6, <1>11, <2>1 DEF IsQuery, QueryFields, SameReads
  <2>3. IsAppended(q.witnesses, e, more, row, m)
    BY <1>2, <1>7, <2>1, ListAppend
  <2>4. m <= last
    BY <1>8, <1>11, <2>1
  <2>5. ASSUME q.state.height = d.vbs[q.target.vb].height, NEW i \in 1..m
        PROVE  more[i] = d.merkle[q.target.vb][WitnessAt(q.target.height - 1, i - 1)]
    <3>1. CASE i = m
      <4>1. i - 1 = row /\ more[i] = e
        BY <1>8, <2>1, <2>3, <3>1 DEF IsAppended
      <4> QED
        BY <1>2, <1>6, <2>1, <4>1
    <3>2. CASE i # m
      <4>1. i \in 1..row
        BY <1>8, <2>1, <3>2
      <4>2. more[i] = q.witnesses[i]
        BY <2>3, <4>1 DEF IsAppended
      <4>3. q.witnesses[i] = d.merkle[q.target.vb][WitnessAt(q.target.height - 1, i - 1)]
        BY <1>2, <1>6, <2>5, <4>1 DEF MerkleRead
      <4> QED
        BY <4>2, <4>3
    <3> QED
      BY <3>1, <3>2
  <2>6. MerkleRead(r, d)
    <3>1. IsList(more) /\ Len(more) = m
      BY <2>3 DEF IsAppended
    <3> QED
      BY <1>2, <1>6, <2>2, <2>4, <2>5, <3>1 DEF MerkleRead, SameReads
  <2>7. Genuine(r, d)
    BY <1>3, <1>5, <2>2, <2>6, MerkleGoesOn
  <2>8. ASSUME Current(q, d) PROVE Current(r, d)
    <3>1. r.root = RootOf(d.merkle[r.target.vb], r.state.height)
      BY <1>3, <2>2, <2>8 DEF Current, SameReads
    <3> QED
      BY <1>3, <2>2, <2>8, <3>1, MerkleStaysCurrent
  <2> QED
    BY <1>1, <2>7, <2>8 DEF Reads
<1>12. CASE ~(row < last) /\ r = [q EXCEPT !.next = "radix"]
  <2>1. IsQuery(r) /\ SameReads(q, r) /\ r.next = "radix" /\ r.witnesses = q.witnesses
    BY <1>6, <1>12 DEF IsQuery, QueryFields, SameReads
  <2>2. row = last
    BY <1>7, <1>8, <1>12
  <2>3. MerkleRead(r, d)
    BY <1>2, <1>6, <2>1, <2>2 DEF MerkleRead, SameReads
  <2>4. Genuine(r, d)
    BY <1>3, <1>5, <2>1, <2>3, MerkleGoesOn
  <2>5. Current(q, d) => Current(r, d)
    BY <1>3, <2>1, MerkleStaysCurrent
  <2> QED
    BY <1>1, <2>4, <2>5 DEF Reads
<1> QED
  BY <1>4, <1>9, <1>10, <1>11, <1>12
LEMMA AccountRead ==
  ASSUME TablesFit(db), Genuine(query, db), ReadAccount
  PROVE  Reads(query, query', db)
<1>1. PICK q, r, d : q = query /\ r = query' /\ d = db
  OBVIOUS
<1>2. PICK state : state = d.accounts[q.target]
  OBVIOUS
<1>3. q.next = "account" /\ r = [q EXCEPT !.state = state, !.next = "radix"]
  BY <1>1, <1>2 DEF ReadAccount, Reading
<1>4. Asked(q, d) /\ Told(q, d) /\ Located(q) /\ NotYet(q) /\ IsQuery(q)
  BY <1>1, <1>3 DEF Genuine, Asked
<1>5. /\ IsQuery(r) /\ r.state = state /\ r.next = "radix" /\ r.kind = q.kind /\ r.target = q.target
      /\ r.height = q.height /\ r.hashes = q.hashes /\ r.vb = q.vb /\ r.radix = q.radix
  BY <1>3, <1>4 DEF IsQuery, QueryFields
<1>6. q.kind = "account"
  BY <1>3, <1>4 DEF Asked, InStage
<1>7. Asked(r, d) /\ Told(r, d) /\ Located(r)
  <2>1. InStage(r)
    BY <1>5, <1>6 DEF InStage
  <2> QED
    BY <1>3, <1>4, <1>5, <2>1, StillAsked
<1>8. NotYet(r) /\ ~HasMerkle(r)
  BY <1>3, <1>4, <1>5, <1>6 DEF NotYet, HasMerkle
<1>9. Genuine(r, d)
  BY <1>5, <1>7, <1>8 DEF Genuine
<1>10. Current(q, d) => Current(r, d)
  <2>1. RowsOf(r, d)[OwnerOf(r)] = state
    BY <1>2, <1>5, <1>6 DEF RowsOf, OwnerOf
  <2> QED
    BY <1>3, <1>5, <1>6, <2>1 DEF Current
<1> QED
  BY <1>1, <1>9, <1>10 DEF Reads

\* The owner has a state in the database, which is in its tree.
OwnerIn(q, d) ==
  /\ OwnerOf(q) \in DOMAIN RowsOf(q, d) /\ RowsOf(q, d)[OwnerOf(q)] # NullHash
  /\ HoldsRow(RadixOf(q, d), RowsOf(q, d), OwnerOf(q), Entered(Content(RowsOf(q, d))))

LEMMA OwnerKnown ==
  ASSUME NEW d, TablesFit(d), NEW q, Asked(q, d), Located(q), q.next \in {"radix", "node"},
         q.kind = "account" => q.target \in DOMAIN d.accounts
  PROVE  OwnerIn(q, d)
<1>1. q.kind \in {"microblock", "account"}
  BY DEF Asked, InStage
<1>2. PICK rows, x, tree : rows = RowsOf(q, d) /\ x = OwnerOf(q) /\ tree = RadixOf(q, d)
  OBVIOUS
<1>3. PICK all : all = Entered(Content(rows))
  OBVIOUS
<1>4. x \in DOMAIN rows
  <2>1. CASE q.kind = "account"
    BY <1>2, <2>1 DEF RowsOf, OwnerOf
  <2>2. CASE q.kind = "microblock"
    <3>1. q.target \in DOMAIN d.microblocks /\ q.vb = [vb |-> q.target.vb, height |-> q.target.height]
      BY <2>2 DEF Asked, Located
    <3>2. HasTrees(d)
      BY DEF TablesFit, HasRadixTrees
    <3>3. q.target.vb \in DOMAIN d.vbs
      BY <3>1, <3>2 DEF HasTrees, KnowsMicroblocks
    <3> QED
      BY <1>2, <2>2, <3>1, <3>3 DEF RowsOf, OwnerOf
  <2> QED
    BY <1>1, <2>1, <2>2
<1>5. HoldsRow(tree, rows, x, all) /\ rows[x] # NullHash
  BY <1>2, <1>3, <1>4, OwnerHeld
<1> QED
  BY <1>2, <1>3, <1>4, <1>5 DEF OwnerIn

\* What was read of the Merkle tree goes with the state that the database has.
LEMMA ReadIsVerified ==
  ASSUME NEW d, HasTrees(d), NEW q, Asked(q, d), Located(q), q.next = "radix", q.kind = "microblock",
         MerkleRead(q, d), q.state = d.vbs[q.target.vb]
  PROVE  Verified(q)
<1>1. PICK mb, vb, index, n, t : /\ mb = q.target /\ vb = mb.vb /\ index = mb.height - 1
                                 /\ n = d.vbs[vb].height /\ t = d.merkle[vb]
  OBVIOUS
<1>2. mb \in DOMAIN d.microblocks /\ q.vb = [vb |-> mb.vb, height |-> mb.height]
  BY <1>1 DEF Asked, Located
<1>3. PlacedAt(d, mb, vb, index, n, t)
  BY <1>1, <1>2 DEF PlacedAt
<1>4. InItsTree(d, mb, vb, index, n, t)
  BY <1>3, MicroblockPlaced
<1>5. /\ n \in Nat /\ n # 0 /\ index \in Nat /\ index < n /\ IsTree(t, n)
      /\ mb = t[<<0, index>>] /\ d.vbs[vb].root = RootOf(t, n)
  BY <1>4 DEF InItsTree
<1>6. PICK witnesses, root : witnesses = q.witnesses /\ root = q.state.root
  OBVIOUS
<1>7. /\ Len(witnesses) = SizeToHeight(n) - 1 /\ root = RootOf(t, n) /\ q.state.height = n
      /\ \A i \in 1..Len(witnesses) : witnesses[i] = t[WitnessAt(index, i - 1)]
  BY <1>1, <1>5, <1>6 DEF MerkleRead
<1>8. Verifies(mb, index, n, witnesses, root)
  BY <1>5, <1>7, TreeVerifies
<1>9. q.vb.height - 1 = index
  BY <1>1, <1>2
<1> QED
  BY <1>1, <1>6, <1>7, <1>8, <1>9 DEF Verified

LEMMA EmptyChain == ASSUME NEW key, NEW node PROVE ChainTo(<<>>, key, node)
BY EmptyList DEF ChainTo

LEMMA RadixRootRead ==
  ASSUME TablesFit(db), Genuine(query, db), ReadRadixRoot
  PROVE  Reads(query, query', db)
<1>1. PICK q, r, d : q = query /\ r = query' /\ d = db
  OBVIOUS
<1>2. PICK node, tree : node = tree.root /\ tree = RadixOf(q, d)
  <2>1. PICK tree : tree = RadixOf(q, d)
    OBVIOUS
  <2> QED
    BY <2>1
<1>3. q.next = "radix" /\ r = [q EXCEPT !.node = node, !.next = "node"]
  BY <1>1, <1>2 DEF ReadRadixRoot, Reading, Radix, RadixOf
<1>4. Asked(q, d) /\ Told(q, d) /\ Located(q) /\ NotYet(q) /\ IsQuery(q)
  BY <1>1, <1>3 DEF Genuine, Asked
<1>5. /\ IsQuery(r) /\ r.node = node /\ r.next = "node" /\ r.kind = q.kind /\ r.target = q.target
      /\ r.height = q.height /\ r.hashes = q.hashes /\ r.vb = q.vb /\ r.radix = q.radix
      /\ r.state = q.state /\ r.witnesses = q.witnesses
  BY <1>3, <1>4 DEF IsQuery, QueryFields
<1>6. r.radix = <<>> /\ Len(r.radix) = 0
  BY <1>3, <1>4, <1>5, EmptyList DEF NotYet
<1>7. OwnerOf(r) = OwnerOf(q) /\ KeyIn(r) = KeyIn(q) /\ RowsOf(r, d) = RowsOf(q, d) /\ RootTold(r) = RootTold(q)
  BY <1>5 DEF OwnerOf, KeyIn, RowsOf, RootTold
<1>8. PICK rows, x, all : rows = RowsOf(q, d) /\ x = OwnerOf(q) /\ all = Entered(Content(RowsOf(q, d)))
  OBVIOUS
<1>9. ASSUME OwnerIn(q, d)
      PROVE  /\ AreKeys(DOMAIN all) /\ KeyIn(q) \in DOMAIN all /\ all[KeyIn(q)] = rows[x]
             /\ x \in DOMAIN rows /\ IsOnPath(all, KeyIn(q), 0, node)
  BY <1>2, <1>8, <1>9 DEF OwnerIn, HoldsRow, KeyIn
<1>10. NodeRead(r)
  <2>1. ChainTo(r.radix, KeyIn(r), r.node)
    BY <1>6, EmptyChain
  <2>2. ASSUME q.kind = "microblock" PROVE OnTree(r)
    <3>1. OwnerIn(q, d) /\ HasTrees(d) /\ MerkleRead(q, d)
      <4>1. OwnerIn(q, d)
        BY <1>1, <1>3, <1>4, <2>2, OwnerKnown
      <4>2. HasTrees(d) /\ MerkleRead(q, d)
        BY <1>1, <1>3, <2>2 DEF TablesFit, HasRadixTrees, Genuine, HasMerkle
      <4> QED
        BY <4>1, <4>2
    <3>2. rows = d.vbs /\ x = q.target.vb
      BY <1>3, <1>4, <1>8, <2>2 DEF RowsOf, OwnerOf, Located
    <3>3. ASSUME all[KeyIn(q)] = q.state PROVE Verified(r)
      <4>1. q.state = d.vbs[q.target.vb]
        BY <1>9, <3>1, <3>2, <3>3
      <4>2. Verified(q)
        BY <1>3, <1>4, <2>2, <3>1, <4>1, ReadIsVerified
      <4> QED
        BY <1>5, <4>2 DEF Verified
    <3>4. /\ AreKeys(DOMAIN all) /\ KeyIn(r) \in DOMAIN all
          /\ IsOnPath(all, KeyIn(r), Len(r.radix), r.node)
      BY <1>5, <1>6, <1>7, <1>9, <3>1
    <3> QED
      BY <1>5, <1>7, <3>3, <3>4 DEF OnTree
  <2> QED
    BY <1>5, <2>1, <2>2 DEF NodeRead
<1>11. Genuine(r, d)
  <2>1. InStage(r)
    BY <1>3, <1>4, <1>5 DEF InStage, Asked
  <2>2. Asked(r, d) /\ Told(r, d) /\ Located(r)
    BY <1>3, <1>4, <1>5, <2>1, StillAsked
  <2> QED
    BY <1>5, <1>10, <2>2 DEF Genuine, NotYet, HasMerkle
<1>12. ASSUME Current(q, d) PROVE Current(r, d)
  <2>1. /\ q.height = d.height
        /\ q.kind = "account" => q.target \in DOMAIN d.accounts
        /\ q.state = RowsOf(q, d)[OwnerOf(q)]
    BY <1>3, <1>12 DEF Current
  <2>2. OwnerIn(q, d)
    BY <1>1, <1>3, <1>4, <2>1, OwnerKnown
  <2>3. HashesFit(d)
    <3>1. rows # <<>>
      BY <1>9, <2>2
    <3>2. d # EmptyTables
      BY <1>8, <3>1 DEF EmptyTables, RowsOf
    <3> QED
      BY <1>1, <3>2 DEF TablesFit
  <2>4. q.hashes = d.hashes[d.height]
    BY <1>3, <1>4, <2>1 DEF Told
  <2>5. node = RootTold(q)
    BY <1>2, <2>3, <2>4 DEF RootTold, RadixOf, HashesFit
  <2>6. OnCurrentTree(r, d)
    BY <1>5, <1>6, <1>7, <1>8, <1>9, <2>2, <2>5 DEF OnCurrentTree
  <2> QED
    BY <1>3, <1>5, <1>7, <2>1, <2>6 DEF Current
<1> QED
  BY <1>1, <1>11, <1>12 DEF Reads
\* The step of get() at a node of the database's tree.
LEMMA CurrentNode ==
  ASSUME NEW d, TablesFit(d), NEW q, Asked(q, d), Located(q), q.next = "node", Current(q, d),
         NEW n, n = Len(q.radix), NEW next, next = Follow(n, q.node, KeyIn(q)),
         NEW below, below = n + 1
  PROVE  /\ q.node \in RadixOf(q, d).nodes
         /\ (IF n = 0 THEN q.node ELSE q.radix[1]) = RootTold(q)
         /\ \/ /\ IsStandard(q.node) /\ next # NullHash
               /\ IsOnPath(Entered(Content(RowsOf(q, d))), KeyIn(q), below, next)
            \/ ~IsStandard(q.node) /\ next = q.state /\ next # NullHash
<1>1. /\ q.kind = "account" => q.target \in DOMAIN d.accounts
      /\ q.state = RowsOf(q, d)[OwnerOf(q)]
      /\ OnCurrentTree(q, d)
  BY DEF Current
<1>2. OwnerIn(q, d)
  BY <1>1, OwnerKnown
<1>3. PICK all, key, node, tree :
        all = Entered(Content(RowsOf(q, d))) /\ key = KeyIn(q) /\ node = q.node /\ tree = RadixOf(q, d)
  OBVIOUS
<1>4. /\ AreKeys(DOMAIN all) /\ key \in DOMAIN all /\ all[key] = q.state /\ q.state # NullHash
      /\ \A depth, x : IsOnPath(all, key, depth, x) => x \in tree.nodes
  BY <1>1, <1>2, <1>3 DEF OwnerIn, HoldsRow, KeyIn
<1>5. IsOnPath(all, key, n, node) /\ (IF n = 0 THEN q.node ELSE q.radix[1]) = RootTold(q)
  BY <1>1, <1>3 DEF OnCurrentTree
<1>6. node \in tree.nodes
  BY <1>4, <1>5
<1>7. next = Follow(n, node, key)
  BY <1>3
<1>8. \/ IsStandard(node) /\ next # NullHash /\ IsOnPath(all, key, below, next)
      \/ ~IsStandard(node) /\ next = all[key]
  BY <1>4, <1>5, <1>7, PathGoesOn
<1> QED
  BY <1>3, <1>4, <1>5, <1>6, <1>8

LEMMA RadixNodeRead ==
  ASSUME TablesFit(db), Genuine(query, db), ReadRadixNode
  PROVE  Reads(query, query', db)
<1>1. PICK q, r, d : q = query /\ r = query' /\ d = db
  OBVIOUS
<1>2. PICK n, node, key : n = Len(q.radix) /\ node = q.node /\ key = KeyIn(q)
  OBVIOUS
<1>3. PICK nodes, next, below, tree :
        nodes = Append(q.radix, node) /\ next = Follow(n, node, key) /\ below = n + 1 /\ tree = RadixOf(q, d)
  OBVIOUS
<1>4. /\ q.next = "node"
      /\ IF node \notin tree.nodes THEN r = [q EXCEPT !.next = "refused"]
         ELSE IF IsStandard(node) /\ next # NullHash THEN r = [q EXCEPT !.radix = nodes, !.node = next]
         ELSE IF next # NullHash /\ nodes[1] = RootTold(q) /\ next = q.state
         THEN r = [q EXCEPT !.radix = nodes, !.next = "served"]
         ELSE r = [q EXCEPT !.next = "refused"]
  BY <1>1, <1>2, <1>3 DEF ReadRadixNode, Reading, Refuse, Checked, Radix, RadixKey, RadixRoot, RadixOf,
                          KeyIn, OwnerOf, RootTold
<1>5. Asked(q, d) /\ Told(q, d) /\ Located(q) /\ IsQuery(q) /\ NodeRead(q)
  BY <1>1, <1>4 DEF Genuine, Asked
<1>6. InChain(nodes, key, next, n, below, node, q.radix)
  BY <1>2, <1>3, <1>5, ChainLonger DEF NodeRead
<1>7. /\ ChainTo(nodes, key, next) /\ n \in Nat /\ Len(nodes) = below /\ nodes[below] = node
      /\ nodes[1] = IF n = 0 THEN node ELSE q.radix[1]
  BY <1>6 DEF InChain
<1>8. ASSUME q.kind = "microblock"
      PROVE  \E all : /\ AreKeys(DOMAIN all) /\ key \in DOMAIN all
                      /\ all[key] = q.state => Verified(q)
                      /\ \/ IsStandard(node) /\ next # NullHash /\ IsOnPath(all, key, below, next)
                         \/ ~IsStandard(node) /\ next = all[key]
  <2>1. PICK all : /\ AreKeys(DOMAIN all) /\ key \in DOMAIN all
                   /\ IsOnPath(all, key, n, node)
                   /\ all[key] = q.state => Verified(q)
    BY <1>2, <1>5, <1>8 DEF NodeRead, OnTree
  <2>2. \/ IsStandard(node) /\ next # NullHash /\ IsOnPath(all, key, below, next)
        \/ ~IsStandard(node) /\ next = all[key]
    BY <1>3, <2>1, PathGoesOn
  <2> QED
    BY <2>1, <2>2
<1>9. ASSUME Current(q, d)
      PROVE  /\ node \in tree.nodes /\ nodes[1] = RootTold(q)
             /\ \/ /\ IsStandard(node) /\ next # NullHash
                   /\ IsOnPath(Entered(Content(RowsOf(q, d))), key, below, next)
                \/ ~IsStandard(node) /\ next = q.state /\ next # NullHash
  BY <1>1, <1>2, <1>3, <1>4, <1>5, <1>7, <1>9, CurrentNode
<1>10. CASE r = [q EXCEPT !.next = "refused"] /\ ~Current(q, d)
  <2>1. Genuine(r, d)
    BY <1>5, <1>10, RefusedIsGenuine
  <2> QED
    BY <1>1, <1>10, <2>1 DEF Reads
<1>11. CASE IsStandard(node) /\ next # NullHash /\ r = [q EXCEPT !.radix = nodes, !.node = next]
  <2>1. /\ IsQuery(r) /\ r.node = next /\ r.next = "node" /\ r.kind = q.kind /\ r.target = q.target
        /\ r.height = q.height /\ r.hashes = q.hashes /\ r.vb = q.vb /\ r.radix = nodes
        /\ r.state = q.state /\ r.witnesses = q.witnesses
    BY <1>4, <1>5, <1>11 DEF IsQuery, QueryFields
  <2>2. OwnerOf(r) = OwnerOf(q) /\ KeyIn(r) = key /\ RowsOf(r, d) = RowsOf(q, d) /\ RootTold(r) = RootTold(q)
    BY <1>2, <2>1 DEF OwnerOf, KeyIn, RowsOf, RootTold
  <2>3. ASSUME q.kind = "microblock" PROVE OnTree(r)
    <3>1. PICK all : /\ AreKeys(DOMAIN all) /\ key \in DOMAIN all
                     /\ all[key] = q.state => Verified(q)
                     /\ IsOnPath(all, key, below, next)
      BY <1>8, <1>11, <2>3
    <3>2. Verified(q) => Verified(r)
      BY <2>1 DEF Verified
    <3> QED
      BY <1>7, <2>1, <2>2, <3>1, <3>2 DEF OnTree
  <2>4. NodeRead(r)
    BY <1>7, <2>1, <2>2, <2>3 DEF NodeRead
  <2>5. InStage(r)
    BY <1>4, <1>5, <2>1 DEF InStage, Asked
  <2>6. Asked(r, d) /\ Told(r, d) /\ Located(r)
    BY <1>4, <1>5, <2>1, <2>5, StillAsked
  <2>7. Genuine(r, d)
    BY <2>1, <2>4, <2>6 DEF Genuine, NotYet, HasMerkle
  <2>8. ASSUME Current(q, d) PROVE Current(r, d)
    <3>1. /\ q.height = d.height
          /\ q.kind = "account" => q.target \in DOMAIN d.accounts
          /\ q.state = RowsOf(q, d)[OwnerOf(q)]
      BY <1>4, <2>8 DEF Current
    <3>2. below # 0
      BY <1>3, <1>7
    <3>3. OnCurrentTree(r, d)
      BY <1>7, <1>9, <1>11, <2>1, <2>2, <2>8, <3>2 DEF OnCurrentTree
    <3> QED
      BY <2>1, <2>2, <3>1, <3>3 DEF Current
  <2> QED
    BY <1>1, <2>7, <2>8 DEF Reads
<1>12. CASE /\ ~IsStandard(node) /\ nodes[1] = RootTold(q) /\ next = q.state
            /\ r = [q EXCEPT !.radix = nodes, !.next = "served"]
  <2>1. /\ IsQuery(r) /\ r.next = "served" /\ r.kind = q.kind /\ r.target = q.target
        /\ r.height = q.height /\ r.hashes = q.hashes /\ r.vb = q.vb /\ r.radix = nodes
        /\ r.state = q.state /\ r.witnesses = q.witnesses
    BY <1>5, <1>12 DEF IsQuery, QueryFields
  <2>2. KeyIn(r) = key /\ RootTold(r) = RootTold(q)
    BY <1>2, <2>1 DEF OwnerOf, KeyIn, RootTold
  <2>3. ProvesValue(nodes, nodes[1], key, next)
    <3>1. below \in Nat /\ below # 0 /\ ~IsStandard(nodes[below])
      BY <1>3, <1>7, <1>12
    <3> QED
      BY <1>7, <3>1, ChainProves
  <2>4. q.kind = "microblock" => Verified(r)
    <3>1. q.kind = "microblock" => Verified(q)
      BY <1>8, <1>12
    <3> QED
      BY <2>1, <3>1 DEF Verified
  <2>5. Accepted(r)
    BY <1>12, <2>1, <2>2, <2>3, <2>4 DEF Accepted
  <2>6. InStage(r)
    BY <1>4, <1>5, <2>1 DEF InStage, Asked
  <2>7. Asked(r, d) /\ Told(r, d) /\ Located(r)
    BY <1>4, <1>5, <2>1, <2>6, StillAsked
  <2>8. Genuine(r, d)
    BY <2>1, <2>5, <2>7 DEF Genuine, NotYet, HasMerkle
  <2>9. Current(q, d) => Current(r, d)
    BY <2>1 DEF Current
  <2> QED
    BY <1>1, <2>8, <2>9 DEF Reads
<1>13. \/ r = [q EXCEPT !.next = "refused"] /\ ~Current(q, d)
       \/ IsStandard(node) /\ next # NullHash /\ r = [q EXCEPT !.radix = nodes, !.node = next]
       \/ /\ ~IsStandard(node) /\ nodes[1] = RootTold(q) /\ next = q.state
          /\ r = [q EXCEPT !.radix = nodes, !.next = "served"]
  BY <1>4, <1>9
<1> QED
  BY <1>10, <1>11, <1>12, <1>13
LEMMA AnswerRead ==
  ASSUME Answer
  PROVE  Reads(query, query', db)
<1>1. PICK r : r = query'
  OBVIOUS
<1>2. r.next = "none"
  BY <1>1 DEF Answer, NoQuery
<1> QED
  BY <1>1, <1>2 DEF Reads, Genuine, Current

\* A commit leaves true what is known of a query that it comes in between of.
LEMMA CommitKeepsQuery ==
  ASSUME NEW d, NEW v, HasTrees(d), Grows(d, v), d.height \in Nat, v.height = d.height + 1,
         NEW q, Genuine(q, d), q.next # "served"
  PROVE  Genuine(q, v)
<1>1. CASE q.next \in {"none", "refused"}
  BY <1>1 DEF Genuine
<1>2. CASE q.next \notin {"none", "refused"}
  <2>1. Asked(q, d) /\ Located(q) /\ NotYet(q) /\ (q.next = "node" => NodeRead(q))
    BY <1>2 DEF Genuine
  <2>2. q.height \in Nat /\ q.height <= d.height /\ (q.kind = "microblock" => q.target \in DOMAIN d.microblocks)
    BY <2>1 DEF Asked
  <2>3. q.height <= v.height /\ q.height # v.height
    BY <2>2
  <2>4. Asked(q, v) /\ Told(q, v)
    BY <2>1, <2>2, <2>3 DEF Asked, Told, Grows
  <2>5. ASSUME HasMerkle(q) PROVE MerkleRead(q, v)
    <3>1. PICK vb, size, low, high :
            vb = q.target.vb /\ size = q.state.height /\ low = d.vbs[vb].height /\ high = v.vbs[vb].height
      OBVIOUS
    <3>2. vb \in DOMAIN d.vbs
      BY <2>2, <2>5, <3>1 DEF HasMerkle, HasTrees, KnowsMicroblocks
    <3>3. Grew(d, v, vb)
      BY <3>2 DEF Grows
    <3>4. /\ low \in Nat /\ high \in Nat
          /\ \/ low < high
             \/ v.vbs[vb] = d.vbs[vb] /\ v.merkle[vb] = d.merkle[vb]
      BY <3>1, <3>3 DEF Grew
    <3>5. MerkleRead(q, d)
      BY <1>2, <2>5 DEF Genuine
    <3>6. size \in Nat /\ size <= low
      BY <3>1, <3>5 DEF MerkleRead
    <3>7. CASE v.vbs[vb] = d.vbs[vb] /\ v.merkle[vb] = d.merkle[vb]
      BY <3>1, <3>5, <3>7 DEF MerkleRead
    <3>8. CASE low < high
      <4>1. size <= high /\ size # high
        BY <3>4, <3>6, <3>8
      <4> QED
        BY <3>1, <3>5, <4>1 DEF MerkleRead
    <3> QED
      BY <3>4, <3>7, <3>8
  <2> QED
    BY <1>2, <2>1, <2>4, <2>5 DEF Genuine
<1> QED
  BY <1>1, <1>2
------------------------------------------------------------------------------
(* Queries and blocks *)

QueryInv ==
  /\ ChainInv /\ TablesFit(db) /\ Genuine(query, db)
  /\ disturbed \/ Current(query, db)

LEMMA QueryInit == ASSUME Init PROVE QueryInv
<1>1. ChainInv
  BY ChainInitInv DEF Init
<1>2. PICK d, q : d = db /\ q = query
  OBVIOUS
<1>3. d = EmptyTables /\ q = NoQuery
  BY <1>2 DEF Init, ChainInit
<1>4. Sound(d) /\ d.height \in Nat
  BY <1>1, <1>2 DEF ChainInv, DbInv, GoodDb
<1>5. HasRadixTrees(d)
  BY <1>3, EmptyHasRadixTrees
<1>6. TablesFit(d)
  BY <1>3, <1>4, <1>5 DEF TablesFit
<1>7. q.next = "none"
  BY <1>3 DEF NoQuery
<1>8. Genuine(q, d) /\ Current(q, d)
  BY <1>7 DEF Genuine, Current
<1> QED
  BY <1>1, <1>2, <1>6, <1>8 DEF QueryInv

LEMMA SameChainVars ==
  ASSUME ChainInv, UNCHANGED chainVars
  PROVE  ChainInv' /\ db' = db
<1>1. ChainInv'
  BY ChainNextInv
<1>2. db' = db
  BY DEF chainVars
<1> QED
  BY <1>1, <1>2

\* A read is of the database as it is.
LEMMA ReadsKeep ==
  ASSUME QueryInv, UNCHANGED chainVars, Reads(query, query', db), disturbed' = disturbed
  PROVE  QueryInv'
<1>1. ChainInv' /\ db' = db
  BY SameChainVars DEF QueryInv
<1>2. PICK q, r, d : q = query /\ r = query' /\ d = db
  OBVIOUS
<1>3. TablesFit(d) /\ (disturbed \/ Current(q, d)) /\ Reads(q, r, d)
  BY <1>2 DEF QueryInv
<1>4. Genuine(r, d) /\ (disturbed \/ Current(r, d))
  BY <1>3 DEF Reads
<1> QED
  BY <1>1, <1>2, <1>3, <1>4 DEF QueryInv

LEMMA StartKeeps ==
  ASSUME QueryInv, NEW kind, NEW target, StartQuery(kind, target),
         \/ kind = "microblock" /\ target \in DOMAIN db.microblocks
         \/ kind = "account" /\ target \in DOMAIN db.accounts
  PROVE  QueryInv'
<1>1. ChainInv' /\ db' = db
  BY SameChainVars DEF QueryInv, StartQuery
<1>2. PICK r, d : r = query' /\ d = db
  OBVIOUS
<1>3. r = [next |-> "block", kind |-> kind, target |-> target, height |-> d.height,
           hashes |-> <<>>, vb |-> <<>>, state |-> <<>>, leaf |-> <<>>, root |-> <<>>,
           witnesses |-> <<>>, radix |-> <<>>, node |-> NullHash]
  BY <1>2 DEF StartQuery
<1>4. TablesFit(d)
  BY <1>2 DEF QueryInv
<1>5. \/ kind = "microblock" /\ target \in DOMAIN d.microblocks
      \/ kind = "account" /\ target \in DOMAIN d.accounts
  BY <1>2
<1>6. Genuine(r, d) /\ Current(r, d)
  BY <1>3, <1>4, <1>5, StartedQuery
<1> QED
  BY <1>1, <1>2, <1>4, <1>6 DEF QueryInv

LEMMA QueryStepKeeps ==
  ASSUME QueryInv, QueryStep
  PROVE  QueryInv'
<1>1. TablesFit(db) /\ Genuine(query, db)
  BY DEF QueryInv
<1>2. CASE AskMicroblock
  <2>1. PICK mb \in DOMAIN db.microblocks : StartQuery("microblock", mb)
    BY <1>2 DEF AskMicroblock
  <2> QED
    BY <2>1, StartKeeps
<1>3. CASE AskAccount
  <2>1. PICK x \in DOMAIN db.accounts : StartQuery("account", x)
    BY <1>3 DEF AskAccount
  <2> QED
    BY <2>1, StartKeeps
<1>4. CASE ReadBlock
  <2>1. UNCHANGED chainVars /\ disturbed' = disturbed
    BY <1>4 DEF ReadBlock, Reading
  <2> QED
    BY <1>1, <1>4, <2>1, BlockRead, ReadsKeep
<1>5. CASE ReadMicroblock
  <2>1. UNCHANGED chainVars /\ disturbed' = disturbed
    BY <1>5 DEF ReadMicroblock, Reading
  <2> QED
    BY <1>1, <1>5, <2>1, MicroblockRead, ReadsKeep
<1>6. CASE ReadState
  <2>1. UNCHANGED chainVars /\ disturbed' = disturbed
    BY <1>6 DEF ReadState, Reading
  <2> QED
    BY <1>1, <1>6, <2>1, StateRead, ReadsKeep
<1>7. CASE ReadLeaf
  <2>1. UNCHANGED chainVars /\ disturbed' = disturbed
    BY <1>7 DEF ReadLeaf, Reading
  <2> QED
    BY <1>1, <1>7, <2>1, LeafRead, ReadsKeep
<1>8. CASE ReadMerkleRoot
  <2>1. UNCHANGED chainVars /\ disturbed' = disturbed
    BY <1>8 DEF ReadMerkleRoot, Reading
  <2> QED
    BY <1>1, <1>8, <2>1, MerkleRootRead, ReadsKeep
<1>9. CASE ReadWitness
  <2>1. UNCHANGED chainVars /\ disturbed' = disturbed
    BY <1>9 DEF ReadWitness, Reading
  <2> QED
    BY <1>1, <1>9, <2>1, WitnessRead, ReadsKeep
<1>10. CASE ReadAccount
  <2>1. UNCHANGED chainVars /\ disturbed' = disturbed
    BY <1>10 DEF ReadAccount, Reading
  <2> QED
    BY <1>1, <1>10, <2>1, AccountRead, ReadsKeep
<1>11. CASE ReadRadixRoot
  <2>1. UNCHANGED chainVars /\ disturbed' = disturbed
    BY <1>11 DEF ReadRadixRoot, Reading
  <2> QED
    BY <1>1, <1>11, <2>1, RadixRootRead, ReadsKeep
<1>12. CASE ReadRadixNode
  <2>1. UNCHANGED chainVars /\ disturbed' = disturbed
    BY <1>12 DEF ReadRadixNode, Reading
  <2> QED
    BY <1>1, <1>12, <2>1, RadixNodeRead, ReadsKeep
<1>13. CASE Answer
  <2>1. ChainInv' /\ db' = db
    BY <1>13, SameChainVars DEF QueryInv, Answer
  <2>2. PICK r, d : r = query' /\ d = db
    OBVIOUS
  <2>3. r.next = "none"
    BY <1>13, <2>2 DEF Answer, NoQuery
  <2>4. Genuine(r, d) /\ Current(r, d) /\ TablesFit(d)
    BY <1>1, <2>2, <2>3 DEF Genuine, Current
  <2> QED
    BY <2>1, <2>2, <2>4 DEF QueryInv
<1> QED
  BY <1>2, <1>3, <1>4, <1>5, <1>6, <1>7, <1>8, <1>9, <1>10, <1>11, <1>12, <1>13 DEF QueryStep

LEMMA ChainStepKeeps ==
  ASSUME QueryInv, ChainStep
  PROVE  QueryInv'
<1>1. ChainInv' /\ ChainNext
  BY ChainNextInv DEF QueryInv, ChainStep
<1>2. PICK q, d, v : q = query /\ d = db /\ v = db'
  OBVIOUS
<1>3. /\ query' = q /\ q.next # "served"
      /\ disturbed' = (q # NoQuery /\ (disturbed \/ v # d))
  BY <1>2 DEF ChainStep
<1>4. ChainInv /\ TablesFit(d) /\ Genuine(q, d) /\ (disturbed \/ Current(q, d))
  BY <1>2 DEF QueryInv
<1>5. CASE v = d
  <2>1. ASSUME q = NoQuery PROVE Current(q, d)
    BY <2>1 DEF NoQuery, Current
  <2>2. TablesFit(v) /\ Genuine(q, v) /\ (disturbed' \/ Current(q, v))
    BY <1>3, <1>4, <1>5, <2>1
  <2> QED
    BY <1>1, <1>2, <1>3, <2>2 DEF QueryInv
<1>6. CASE v # d
  <2>1. PICK o : IsBlockOutcome(db, o) /\ db' = CommitState(db, o)
    BY <1>1, <1>2, <1>4, <1>6, TablesChange
  <2>2. IsBlockOutcome(d, o) /\ v = CommitState(d, o)
    BY <1>2, <2>1
  <2>3. IsState(d) /\ HasTrees(d) /\ d.height \in Nat
    BY <1>4 DEF TablesFit, Sound, HasRadixTrees
  <2>4. Grows(d, v) /\ HashesFit(v) /\ v.height = d.height + 1
    BY <2>2, <2>3, CommitGrows
  <2>5. HasRadixTrees(v)
    <3>1. HasRadixTrees(db)
      BY <1>2, <1>4 DEF TablesFit
    <3>2. HasRadixTrees(db)'
      BY <1>1, <1>4, <3>1, RadixTreesNext
    <3> QED
      BY <1>2, <3>2
  <2>6. Sound(v)
    BY <1>1, <1>2 DEF ChainInv, DbInv, GoodDb
  <2>7. TablesFit(v)
    BY <2>3, <2>4, <2>5, <2>6 DEF TablesFit
  <2>8. Genuine(q, v)
    BY <1>3, <1>4, <2>3, <2>4, CommitKeepsQuery
  <2>9. ASSUME q = NoQuery PROVE Current(q, v)
    BY <2>9 DEF NoQuery, Current
  <2> QED
    BY <1>1, <1>2, <1>3, <1>6, <2>7, <2>8, <2>9 DEF QueryInv
<1> QED
  BY <1>5, <1>6

LEMMA QueryNextInv == ASSUME QueryInv, [Next]_vars PROVE QueryInv'
<1>1. CASE UNCHANGED vars
  <2>1. UNCHANGED chainVars /\ query' = query /\ disturbed' = disturbed
    BY <1>1 DEF vars
  <2>2. Reads(query, query', db)
    BY <2>1 DEF QueryInv, Reads
  <2> QED
    BY <2>1, <2>2, ReadsKeep
<1>2. CASE QueryStep
  BY <1>2, QueryStepKeeps
<1>3. CASE ChainStep
  BY <1>3, ChainStepKeeps
<1> QED
  BY <1>1, <1>2, <1>3 DEF Next

\* What is known of the tables and of a query, through the commits that come in between.
THEOREM QueryInvariant == Spec => []QueryInv
<1>1. Init => QueryInv
  BY QueryInit
<1>2. QueryInv /\ [Next]_vars => QueryInv'
  BY QueryNextInv
<1> QED
  BY <1>1, <1>2, PTL DEF Spec

\* Whatever StateProof answers, with parts read before and after commits, is a proof that a
\* client accepts, and the application hash in it is the one that CometBFT has.
THEOREM QueryProofsAreGenuine == Spec => []ProofsGenuine
<1>1. ASSUME QueryInv PROVE ProofsGenuine
  <2> SUFFICES ASSUME query.next = "served"
               PROVE  /\ ClientAccepts(query)
                      /\ query.height > 1 /\ query.height = db.height => query.hashes.app = comet.app
    BY DEF ProofsGenuine
  <2>1. Genuine(query, db)
    BY <1>1 DEF QueryInv
  <2>2. Accepted(query) /\ Told(query, db)
    BY <2>1 DEF Genuine
  <2>3. ClientAccepts(query)
    BY <2>2 DEF Accepted, ClientAccepts, Verified, RootTold, RadixRoot, KeyIn, OwnerOf, RadixKey
  <2>4. ASSUME query.height > 1, query.height = db.height PROVE query.hashes.app = comet.app
    <3>1. query.hashes = db.hashes[db.height]
      BY <2>2, <2>4 DEF Told
    <3> QED
      BY <1>1, <2>4, <3>1 DEF QueryInv, ChainInv, AnswersInv
  <2> QED
    BY <2>3, <2>4
<1> QED
  BY <1>1, QueryInvariant, PTL

\* Nothing that is stored is refused a proof as long as no block is committed meanwhile.
THEOREM StoredIsProvable == Spec => []UndisturbedProofServed
<1>1. QueryInv => UndisturbedProofServed
  BY DEF QueryInv, Current, UndisturbedProofServed
<1> QED
  BY <1>1, QueryInvariant, PTL

\* What is proved of the chain holds while it is queried.
THEOREM QueriesLeaveTheChain == Spec => ChainSpec
<1>1. Init => ChainInit
  BY DEF Init
<1>2. [Next]_vars => [ChainNext]_chainVars
  <2>1. QueryStep => UNCHANGED chainVars
    BY DEF QueryStep, AskMicroblock, AskAccount, StartQuery, ReadBlock, ReadMicroblock, ReadState,
           ReadLeaf, ReadMerkleRoot, ReadWitness, ReadAccount, ReadRadixRoot, ReadRadixNode, Reading, Answer
  <2>2. ChainStep => ChainNext
    BY DEF ChainStep
  <2>3. UNCHANGED vars => UNCHANGED chainVars
    BY DEF vars
  <2> QED
    BY <2>1, <2>2, <2>3 DEF Next
<1> QED
  BY <1>1, <1>2, PTL DEF Spec, ChainSpec
=============================================================================
