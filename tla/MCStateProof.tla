---------------------------- MODULE MCStateProof ----------------------------
(***************************************************************************)
(* An instance of StateProof: a chain that starts with one validator, to   *)
(* which one or two others are added.  The identifiers share prefixes of   *)
(* up to two nibbles, also with the null key.                              *)
(***************************************************************************)
EXTENDS StateProof, TLC

MCIdOf == (Owner :> <<4, 1, 3, 3>>) @@ (FeesAccount :> <<0, 0, 3, 0>>)
          @@ (1 :> <<0, 0, 1, 2>>) @@ (2 :> <<4, 1, 2, 0>>) @@ (3 :> <<0, 1, 4, 5>>)

MCGenesisTxs == <<Create(Owner, NoKey), Create(1, 1), Stake(1, 5), Approve(1)>>
MCGenesisPowers == 1 :> 10

NewValidator == <<Create(2, 2), Stake(2, 2), Approve(2), Approve(3)>>
SharedKey == <<Create(2, 2), Create(3, 2), Stake(3, 4)>>
NewKeys == <<Declare(1, 2), Declare(2, 3)>>
MCBlocks == {<<>>, NewValidator, SharedKey, NewKeys, <<Revoke(1), Stake(1, 1)>>}

MCProvenMicroblocks == {[vb |-> Owner, height |-> 2]}
MCProvenAccounts == {FeesAccount}
==============================================================================
