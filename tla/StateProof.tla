----------------------------- MODULE StateProof -----------------------------
(***************************************************************************)
(* The proofs of microblocks and of accounts that a query gets while       *)
(* blocks are executed and committed.                                      *)
(*                                                                         *)
(* A query reads the committed database, one awaited read after the other; *)
(* a commit may happen between any two of them.  It ends with a proof, or  *)
(* is refused when a read finds nothing or a check fails.                  *)
(***************************************************************************)
EXTENDS ChainState

CONSTANTS
  ProvenMicroblocks,  \* the microblocks that clients ask about, as [vb, height]
  ProvenAccounts,     \* the accounts that clients ask about
  MaxQueries          \* bound: queries started

VARIABLES
  query,     \* the query in progress
  queries,   \* number of queries started
  disturbed  \* observer: whether the database changed since the query started

vars == <<chainVars, query, queries, disturbed>>

\* What a query has read: `next' is the read to come, or "none", "served", "refused".
NoQuery == [next |-> "none"]

Refuse == query' = [query EXCEPT !.next = "refused"]

Reading(next) == query.next = next /\ UNCHANGED <<chainVars, queries, disturbed>>

Init == ChainInit /\ query = NoQuery /\ queries = 0 /\ disturbed = FALSE

------------------------------------------------------------------------------
(* getChainState() *)

\* A client asks for what the database has; the first read is the height of the chain.
StartQuery(kind, target) ==
  /\ query.next = "none"
  /\ queries < MaxQueries
  /\ query' = [next |-> "block", kind |-> kind, target |-> target, height |-> db.height,
               hashes |-> <<>>, vb |-> <<>>, state |-> <<>>, leaf |-> <<>>, root |-> <<>>,
               witnesses |-> <<>>, radix |-> <<>>, node |-> NullHash]
  /\ queries' = queries + 1
  /\ disturbed' = FALSE
  /\ UNCHANGED chainVars

AskMicroblock ==
  \E mb \in DOMAIN db.microblocks :
    db.microblocks[mb] \in ProvenMicroblocks /\ StartQuery("microblock", mb)

AskAccount == \E x \in ProvenAccounts \cap DOMAIN db.accounts : StartQuery("account", x)

\* The application hashes of that block, which must add up.
ReadBlock ==
  /\ Reading("block")
  /\ LET hashes == db.hashes[query.height] IN
       IF hashes.app # AppHash(hashes.vbRadix, hashes.tokenRadix, hashes.storage) THEN Refuse
       ELSE query' = [query EXCEPT !.hashes = hashes,
                        !.next = IF query.kind = "microblock" THEN "microblock" ELSE "account"]

------------------------------------------------------------------------------
(* createMicroblockProof() *)

ReadMicroblock ==
  /\ Reading("microblock")
  /\ query' = [query EXCEPT !.vb = db.microblocks[query.target], !.next = "state"]

ReadState ==
  /\ Reading("state")
  /\ query' = [query EXCEPT !.state = db.vbs[query.vb.vb], !.next = "leaf"]

\* getNode() of the Merkle tree of the virtual blockchain, which throws if there is none.
GetNode(place, found) ==
  IF place \notin DOMAIN db.merkle[query.vb.vb] THEN Refuse
  ELSE query' = [query EXCEPT ![found] = db.merkle[query.vb.vb][place],
                              !.next = IF found = "leaf" THEN "root" ELSE "witness"]

ReadLeaf == Reading("leaf") /\ GetNode(<<0, query.vb.height - 1>>, "leaf")

ReadMerkleRoot == Reading("root") /\ GetNode(<<SizeToHeight(query.state.height) - 1, 0>>, "root")

\* Mutation: the witness is always taken on the right.
Witness_Right(row) == <<row, ColumnAt(query.vb.height - 1, row) + 1>>

Witness(row) == WitnessAt(query.vb.height - 1, row)

\* One witness for each row below the root; then the root must be that of the state.
ReadWitness ==
  /\ Reading("witness")
  /\ LET row == Len(query.witnesses) IN
       IF row < SizeToHeight(query.state.height) - 1
       THEN IF Witness(row) \notin DOMAIN db.merkle[query.vb.vb] THEN Refuse
            ELSE query' = [query EXCEPT !.witnesses = Append(@, db.merkle[query.vb.vb][Witness(row)])]
       ELSE IF query.root # query.state.root THEN Refuse
       ELSE query' = [query EXCEPT !.next = "radix"]

------------------------------------------------------------------------------
(* createAccountProof() *)

ReadAccount ==
  /\ Reading("account")
  /\ query' = [query EXCEPT !.state = db.accounts[query.target], !.next = "radix"]

------------------------------------------------------------------------------
(* RadixTree.get() and the last checks *)

Radix == IF query.kind = "microblock" THEN db.vbRadix ELSE db.tokenRadix
RadixKey == IdOf[IF query.kind = "microblock" THEN query.vb.vb ELSE query.target]
RadixRoot == IF query.kind = "microblock" THEN query.hashes.vbRadix ELSE query.hashes.tokenRadix

ReadRadixRoot ==
  /\ Reading("radix")
  /\ query' = [query EXCEPT !.node = Radix.root, !.next = "node"]

\* Mutation: the radix root is not compared with the one of the block.
Checked_AnyRoot(nodes, value) == value = query.state

\* The value is there, the root is that of the block, the value is the hash of the state.
Checked(nodes, value) == /\ value # NullHash
                         /\ nodes[1] = RadixRoot
                         /\ value = query.state

\* One node, under the hash that the one before it has for the next nibble.
ReadRadixNode ==
  /\ Reading("node")
  /\ LET nodes == Append(query.radix, query.node)
         next == Follow(Len(query.radix), query.node, RadixKey)
     IN  IF query.node \notin Radix.nodes THEN Refuse
         ELSE IF IsStandard(query.node) /\ next # NullHash
         THEN query' = [query EXCEPT !.radix = nodes, !.node = next]
         ELSE IF Checked(nodes, next)
         THEN query' = [query EXCEPT !.radix = nodes, !.next = "served"]
         ELSE Refuse

\* The answer is sent.
Answer ==
  /\ query.next \in {"served", "refused"}
  /\ query' = NoQuery
  /\ disturbed' = FALSE
  /\ UNCHANGED <<chainVars, queries>>

------------------------------------------------------------------------------
QueryStep ==
  \/ AskMicroblock \/ AskAccount \/ ReadBlock
  \/ ReadMicroblock \/ ReadState \/ ReadLeaf \/ ReadMerkleRoot \/ ReadWitness
  \/ ReadAccount \/ ReadRadixRoot \/ ReadRadixNode \/ Answer

\* The chain goes on under a query, but nothing is awaited between the last check and the
\* answer; a query that a restart of the node ends may stop anywhere.
ChainStep ==
  /\ query.next \notin {"served", "refused"}
  /\ ChainNext
  /\ disturbed' = (query # NoQuery /\ (disturbed \/ db' # db))
  /\ UNCHANGED <<query, queries>>

Next == QueryStep \/ ChainStep

Spec == Init /\ [][Next]_vars

------------------------------------------------------------------------------
(* Properties *)

\* verifyRadixProof() and verifyProof() of a client, against the hashes of a block.
ClientAccepts(proof) ==
  /\ ProvesValue(proof.radix, RadixRoot, RadixKey, proof.state)
  /\ proof.kind = "microblock" =>
       Verifies(proof.target, proof.vb.height - 1, proof.state.height, proof.witnesses, proof.state.root)

\* Whatever was committed while its parts were read, a proof that StateProof answers is
\* one that a client accepts, for the block it names, and from the second block on the
\* application hash in the proof of the last block is the one that CometBFT holds.
ProofsGenuine ==
  query.next = "served" =>
    /\ ClientAccepts(query)
    /\ query.height > 1 /\ query.height = db.height => query.hashes.app = comet.app

\* A proof of something that the database has is refused only because a block was
\* committed while its parts were read: what is stored can always be proved.
UndisturbedProofServed == query.next = "refused" => disturbed
==============================================================================
