------------------------------ MODULE RadixTree ------------------------------
(***************************************************************************)
(* The radix tree that maps the identifier of a virtual blockchain, or of  *)
(* an account, to the hash of its state, and whose root goes into the      *)
(* application hash.                                                       *)
(*                                                                         *)
(* A key is a sequence of nibbles.  Nodes are stored in a table under      *)
(* their hash; since a hash stands for exactly one node, the hash of a     *)
(* node is the node itself and the table is a set of nodes.  The root is   *)
(* the row of the table under the null hash (ROOT_ANCHORING_HASH).         *)
(*                                                                         *)
(* A tree in a cached database is a record [root, ins, del]: the working   *)
(* root, the nodes put and the nodes deleted since the last commit.  The   *)
(* look-ups of set() cannot fail: see RadixHoldsStates in ChainState.      *)
(***************************************************************************)
EXTENDS Naturals, Sequences, FiniteSets, SequencesExt, Tables, Hash

CONSTANT KeyLength    \* RADIX_CST.HASH_SIZE * 2: the number of nibbles of a key

ASSUME RadixTreeAssumption == KeyLength \in Nat \ {0}

\* An early leaf: the only key below it has this trailing path.
Leaf(path, value) == [path |-> path, value |-> value]
\* A standard node: one hash for each bit of its mask.
Standard(child) == [child |-> child]
IsStandard(node) == "child" \in DOMAIN node

NullKey == [i \in 1..KeyLength |-> 0]
\* The row of the missing root is the null hash, which reads as an early leaf.
RootNode(root) == IF root = NullHash THEN Leaf(NullKey, NullHash) ELSE root

------------------------------------------------------------------------------
(* Nodes at a depth, the root being at depth 0 *)

IsOdd(depth) == depth % 2 = 1
\* Mutation: the nibble already used is kept as it is.
Packed_Plain(depth, nibble) == nibble

\* The path is packed in bytes: at an odd depth it starts with a nibble already used,
\* XORed with 0xF so that the leaf differs from the one at the depth before.
Packed(depth, nibble) == 15 - nibble

Trailing(depth, key) ==
  IF IsOdd(depth) THEN <<Packed(depth, key[depth])>> \o SubSeq(key, depth + 1, KeyLength)
  ELSE SubSeq(key, depth + 1, KeyLength)

\* The nibbles that remain to be followed from the depth of an early leaf.
Remaining(depth, leaf) == IF IsOdd(depth) THEN Tail(leaf.path) ELSE leaf.path

HoldsKey(depth, leaf, key) == Remaining(depth, leaf) = SubSeq(key, depth + 1, KeyLength)

\* The same key and value one level down.
PushedDown(depth, leaf) ==
  IF IsOdd(depth) THEN Leaf(Tail(Tail(leaf.path)), leaf.value)
  ELSE Leaf(<<Packed(depth + 1, Head(leaf.path))>> \o Tail(leaf.path), leaf.value)

\* The children of a node; an early leaf is first turned into a node with one child.
Children(depth, node) ==
  IF IsStandard(node) THEN node.child
  ELSE [nibble \in {Head(Remaining(depth, node))} |-> PushedDown(depth, node)]

------------------------------------------------------------------------------
(* The cached table *)

EmptyTree == [root |-> NullHash, nodes |-> {}]
OpenTree(tree) == [root |-> tree.root, ins |-> {}, del |-> {}]

SetToStorage(cache, node) == [cache EXCEPT !.ins = @ \cup {node}, !.del = @ \ {node}]

RemoveFromStorage(cache, node) == [cache EXCEPT !.ins = @ \ {node}, !.del = @ \cup {node}]

CommitTree(tree, cache) ==
  [root |-> cache.root, nodes |-> (tree.nodes \cup cache.ins) \ cache.del]

------------------------------------------------------------------------------
(* set() *)

\* The nodes from the root to the place of a key: down to the leaf of that key, or to
\* the last node before the place where it is missing.
Extend(path, key) ==
  LET depth == Len(path) - 1
      node == path[Len(path)]
      nibble == key[depth + 1] IN
    IF ~IsStandard(node) /\ HoldsKey(depth, node, key) THEN path
    ELSE IF nibble \notin DOMAIN Children(depth, node) THEN path
    ELSE Append(path, Children(depth, node)[nibble])

PathTo(root, key) ==
  FoldLeft(LAMBDA path, depth : IF Len(path) = depth THEN Extend(path, key) ELSE path,
           <<RootNode(root)>>, [i \in 1..KeyLength - 1 |-> i])

\* What write() does on the way back at one depth of the path: s holds the hash of the
\* child just written and the cache.
Rewrite(s, path, depth, key) ==
  LET old == path[depth + 1]
      nibble == key[depth + 1]
      children == Put(Children(depth, old), nibble, s.hash)
      new == Standard(children) IN
    [hash |-> new, cache |-> SetToStorage(RemoveFromStorage(s.cache, old), new)]

\* The deepest write: the leaf of the key is updated, or created below the path.
Deepest(cache, path, key, value) ==
  LET depth == Len(path) - 1
      last == path[Len(path)] IN
    IF ~IsStandard(last) /\ HoldsKey(depth, last, key)
    THEN LET new == [last EXCEPT !.value = value] IN
           [hash |-> new, cache |-> SetToStorage(RemoveFromStorage(cache, last), new)]
    ELSE LET leaf == Leaf(Trailing(depth + 1, key), value)
             s == [hash |-> leaf, cache |-> SetToStorage(cache, leaf)] IN
           Rewrite(s, path, depth, key)

\* The leaves that write() pushes down on its way are stored before it goes deeper.
PushedLeaves(path, key) ==
  {PushedDown(i - 1, path[i]) : i \in
     {j \in 1..Len(path) : ~IsStandard(path[j]) /\ ~HoldsKey(j - 1, path[j], key)}}

WriteAlong(cache, path, key, value) ==
  FoldLeft(LAMBDA s, i : Rewrite(s, path, Len(path) - 1 - i, key),
           Deepest([cache EXCEPT !.ins = @ \cup PushedLeaves(path, key),
                                 !.del = @ \ PushedLeaves(path, key)], path, key, value),
           [i \in 1..Len(path) - 1 |-> i])

SetValue(cache, key, value) ==
  LET written == WriteAlong(cache, PathTo(cache.root, key), key, value) IN
    [written.cache EXCEPT !.root = written.hash]

------------------------------------------------------------------------------
(* get(), one node at a time, and what a client does with the nodes it collects *)

\* The value or the hash that a node on the path of a key leads to, NullHash for none.
Follow(depth, node, key) ==
  IF IsStandard(node)
  THEN IF key[depth + 1] \in DOMAIN node.child THEN node.child[key[depth + 1]] ELSE NullHash
  ELSE IF HoldsKey(depth, node, key) THEN node.value ELSE NullHash

\* verifyRadixProof(): the root that a list of nodes proves to hold a value under a key.
ProvesValue(proof, root, key, value) ==
  /\ proof # <<>>
  /\ proof[1] = root
  /\ \A i \in 1..Len(proof) - 1 : Follow(i - 1, proof[i], key) = proof[i + 1]
  /\ ~IsStandard(proof[Len(proof)])
  /\ Follow(Len(proof) - 1, proof[Len(proof)], key) = value

------------------------------------------------------------------------------
(* The tree that a set of keys and values should have *)

\* The keys that agree with a key on its first nibbles.
Sharing(keys, key, depth) == {k \in keys : \A i \in 1..depth : k[i] = key[i]}
IsShared(keys) == \E j, k \in keys : j # k
\* The nibbles of keys at a position, and the keys that have one of them there.
NibblesAt(keys, i) == {k[i] : k \in keys}
Having(keys, i, n) == {k \in keys : k[i] = n}

\* A place is a depth and the keys below; the tree has a node at the root and below
\* each place that two keys share.
Classes(keys) == {<<depth, Sharing(keys, k, depth)>> : depth \in 0..KeyLength - 1, k \in keys}
Places(keys) ==
  {<<0, keys>>} \cup
  UNION {{<<depth, Sharing(keys, k, depth)>> :
            depth \in {d \in 1..KeyLength - 1 : IsShared(Sharing(keys, k, d - 1))}} : k \in keys}

\* The node at each place: a leaf as soon as there is one key below.
NodesFor(content) ==
  LET node[p \in Classes(DOMAIN content)] ==
        LET depth == p[1]
            keys == p[2] IN
          IF IsShared(keys)
          THEN Standard([n \in NibblesAt(keys, depth + 1) |->
                           node[<<depth + 1, Having(keys, depth + 1, n)>>]])
          ELSE LET k == CHOOSE k \in keys : TRUE IN Leaf(Trailing(depth, k), content[k])
  IN node

\* The first write also enters the null key, with the null hash as its value.
TreeOf(content) ==
  IF DOMAIN content = {} THEN EmptyTree
  ELSE LET all == Put(content, NullKey, NullHash)
           node == NodesFor(all) IN
         [root |-> node[<<0, DOMAIN all>>], nodes |-> {node[p] : p \in Places(DOMAIN all)}]
==============================================================================
