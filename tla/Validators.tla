----------------------------- MODULE Validators -----------------------------
(***************************************************************************)
(* The voting powers of the validator nodes, as a function of a working    *)
(* state, and what CometBFT does with the changes it is told.              *)
(*                                                                         *)
(* A working state is a record with at least                               *)
(*   vbs      - the state of each virtual blockchain; that of a node has   *)
(*              the key it declared last and whether it is approved        *)
(*   accounts - table ACCOUNT_STATE, with the stake for each node          *)
(*   index    - table VALIDATOR_INDEX: the nodes                           *)
(*   rows     - table VALIDATOR_SET: by key, [node, power]                 *)
(* Nodes are numbers, in the order of their identifiers; a CometBFT        *)
(* address, the row's key in the code, stands for one public key.          *)
(***************************************************************************)
EXTENDS Naturals, Sequences, FiniteSets, SequencesExt, Tables

CONSTANTS
  Owner,     \* the account of the organization that owns the nodes
  Unit       \* the atomic units of a token

ASSUME ValidatorsAssumption == Unit \in Nat \ {0}

KeyOf(w, node) == w.vbs[node].key

\* getValidatorNodeStakingAmount(): an account without a row has no stake.
StakeOf(w, node) == IF Owner \in DOMAIN w.accounts THEN w.accounts[Owner].stake[node] ELSE 0

\* The stake of a node in whole tokens, if it is approved.
VotingPower(w, node) == IF w.vbs[node].approved THEN StakeOf(w, node) \div Unit ELSE 0

RecordedPower(w, key) == IF key \in DOMAIN w.rows THEN w.rows[key].power ELSE 0

\* Mutation: only approved nodes are listed on the side of the application.
HasUnreferencedRow_Approved(w) ==
  \E key \in DOMAIN w.rows : \A n \in w.index : KeyOf(w, n) # key \/ ~w.vbs[n].approved

\* The PANIC of buildValidatorSetUpdate(): a row whose key no node has.
HasUnreferencedRow(w) == \E key \in DOMAIN w.rows : \A n \in w.index : KeyOf(w, n) # key

\* A set of nodes in the order of the index.
InOrder(S) ==
  CHOOSE s \in [1..Cardinality(S) -> S] :
    ToSet(s) = S /\ \A i, j \in DOMAIN s : i < j => s[i] < s[j]

\* Mutation: a power that decreased is not updated.
ChangedNodes_Increased(w) ==
  InOrder({n \in w.index : RecordedPower(w, KeyOf(w, n)) < VotingPower(w, n)})

\* The nodes whose power is not the one of their key's row.
ChangedNodes(w) ==
  InOrder({n \in w.index : RecordedPower(w, KeyOf(w, n)) # VotingPower(w, n)})

\* buildValidatorSetUpdate(): all nodes are compared with the rows as they were.
UpdatedRows(w) ==
  FoldLeft(LAMBDA rows, n : Put(rows, KeyOf(w, n), [node |-> n, power |-> VotingPower(w, n)]),
           w.rows, ChangedNodes(w))

ValidatorSetUpdates(w) ==
  [i \in DOMAIN ChangedNodes(w) |->
     [key |-> KeyOf(w, ChangedNodes(w)[i]), power |-> VotingPower(w, ChangedNodes(w)[i])]]

\* Two nodes that declared the same key.
SharesKey(w, node) == \E n \in w.index \ {node} : KeyOf(w, n) = KeyOf(w, node)

------------------------------------------------------------------------------
(* CometBFT: a function from keys to powers, without zeros *)

KeysIn(updates) == {updates[i].key : i \in DOMAIN updates}

UpdatedPowers(powers, updates) ==
  LET new == [k \in KeysIn(updates) |->
                (CHOOSE i \in DOMAIN updates : updates[i].key = k)]
      all == [k \in DOMAIN powers \cup KeysIn(updates) |->
                IF k \in KeysIn(updates) THEN updates[new[k]].power ELSE powers[k]]
  IN  [k \in {k \in DOMAIN all : all[k] > 0} |-> all[k]]

\* No key twice, no validator removed that is not there, and one validator left.
AcceptsUpdates(powers, updates) ==
  /\ Cardinality(KeysIn(updates)) = Len(updates)
  /\ \A i \in DOMAIN updates : updates[i].power = 0 => updates[i].key \in DOMAIN powers
  /\ updates # <<>> => DOMAIN UpdatedPowers(powers, updates) # {}
==============================================================================
