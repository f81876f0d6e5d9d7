------------------------------ MODULE MerkleTree ------------------------------
(***************************************************************************)
(* PersistentMerkleTree: the Merkle tree of the microblocks of one virtual *)
(* blockchain, grown one leaf at a time in a table.                        *)
(*                                                                         *)
(* A tree is a function from <<row, column>> to hashes, defined where the  *)
(* table has a row.  The hash of two children is the pair of them.         *)
(***************************************************************************)
EXTENDS Naturals, Sequences, FiniteSetsExt, SequencesExt, Tables, Hash

\* mergeHashes()
MergeHashes(left, right) == [left |-> left, right |-> right]

\* The column of the node of a row that is above a leaf, or is it: the index of the leaf,
\* shifted by one bit for each row.
ColumnAt(index, row) == FoldLeft(LAMBDA col, i : col \div 2, index, [i \in 1..row |-> i])

\* Mutation: one level too few when the size is a power of two plus one.
SizeToHeight_Truncated(size) ==
  1 + Min({n \in 0..size : ColumnAt(IF size = 1 THEN 0 ELSE size - 2, n) = 0})

\* sizeToHeight(): one more than the number of bits of size - 1.
SizeToHeight(size) == 1 + Min({n \in 0..size : ColumnAt(size - 1, n) = 0})

SetNode(tree, row, col, hash) == Put(tree, <<row, col>>, hash)

\* The rows where a new leaf needs an empty sibling: one for each trailing zero bit of
\* its index, below the root.
EmptySiblings(index) ==
  {row \in 0..SizeToHeight(index + 1) - 2 : \A r \in 0..row : ColumnAt(index, r) % 2 = 0}

\* mergeChildrenOf()
MergeChildrenOf(tree, row, col) ==
  SetNode(tree, row, col,
          MergeHashes(tree[<<row - 1, 2 * col>>], tree[<<row - 1, 2 * col + 1>>]))

WithSiblings(tree, index) ==
  LET new == {<<row, ColumnAt(index, row) + 1>> : row \in EmptySiblings(index)} IN
    [n \in DOMAIN tree \cup new |-> IF n \in new THEN NullHash ELSE tree[n]]

\* addLeaf()
AddLeaf(tree, index, hash) ==
  FoldLeft(LAMBDA t, row : MergeChildrenOf(t, row, ColumnAt(index, row)),
           WithSiblings(SetNode(tree, 0, index, hash), index),
           [row \in 1..SizeToHeight(index + 1) - 1 |-> row])

RootOf(tree, size) == tree[<<SizeToHeight(size) - 1, 0>>]

\* The node that getProof() takes as the witness of a row.
WitnessAt(index, row) ==
  LET col == ColumnAt(index, row) IN
    <<row, IF col % 2 = 0 THEN col + 1 ELSE col - 1>>

\* verifyProof()
Verifies(leaf, index, size, witnesses, root) ==
  /\ Len(witnesses) = SizeToHeight(size) - 1
  /\ root = FoldLeft(LAMBDA hash, row :
                       IF ColumnAt(index, row - 1) % 2 = 1
                       THEN MergeHashes(witnesses[row], hash)
                       ELSE MergeHashes(hash, witnesses[row]),
                     leaf, [row \in 1..Len(witnesses) |-> row])

\* The row above a row: two by two, the last one with the null hash if it is alone.
RowAbove(row) ==
  [i \in 1..(Len(row) + 1) \div 2 |->
     MergeHashes(row[2 * i - 1], IF 2 * i <= Len(row) THEN row[2 * i] ELSE NullHash)]

\* The root over a sequence of leaves, merged row by row until one hash is left.
RootOver(leaves) ==
  FoldLeft(LAMBDA row, i : IF Len(row) > 1 THEN RowAbove(row) ELSE row, leaves,
           [i \in 1..Len(leaves) |-> i])[1]
==============================================================================
