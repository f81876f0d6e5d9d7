------------------------------ MODULE MCLedger ------------------------------
(***************************************************************************)
(* Instances of Ledger: accounts a and b, which own the nodes n1 and n2,   *)
(* and an account c that a may create; one escrow identifier, so that it   *)
(* is reused.                                                              *)
(***************************************************************************)
EXTENDS Ledger

MCEscrowIds == {"x"}
MCNodes == {"n1", "n2"}
MCStandardAccounts == {"a", "b", "c"}
MCPublicKeys == {"ka", "kb", "kc"}
MCOwnerOf == [n \in MCNodes |-> IF n = "n1" THEN "a" ELSE "b"]

MCGenesisLedger ==
  [accounts |-> [x \in MCStandardAccounts \cup {"fees"} |->
     [NewAccount(x # "c") EXCEPT !.balance = CASE x = "a" -> 5 [] x = "b" -> 3 [] OTHER -> 0]],
   escrows |-> [e \in MCEscrowIds |-> Missing],
   cache |-> EmptyCache(MCEscrowIds),
   vestingRows |-> {}, stakingRows |-> {},
   keys |-> [k \in MCPublicKeys |->
     CASE k = "ka" -> "a" [] k = "kb" -> "b" [] OTHER -> Missing]]

Signed(owner, payer, lead, section) ==
  [owner |-> owner, payer |-> payer, fees |-> 1, lead |-> lead, sections |-> <<section>>]

Transfer(x, y, n) == Signed(x, x, 0, [kind |-> "transfer", account |-> y, amount |-> n])
Creation == Signed("c", "a", 0, [kind |-> "creation", key |-> "kc", seller |-> "a", amount |-> 2])
Vesting(x, y, n, lead, cliff, duration) ==
  Signed(x, x, lead, [kind |-> "vesting", account |-> y, amount |-> n, cliff |-> cliff,
                      duration |-> duration])
Escrow(x, y, n, agent, lead) ==
  Signed(x, x, lead, [kind |-> "escrow", account |-> y, amount |-> n, id |-> "x",
                      agent |-> agent, duration |-> 1])
Settlement(owner, agent, confirmed) ==
  Signed(owner, agent, 0, [kind |-> "settlement", id |-> "x", confirmed |-> confirmed])
Staking(x, n, node) == Signed(x, x, 0, [kind |-> "stake", amount |-> n, node |-> node])
Unstaking(x, n, node, lead) ==
  Signed(x, x, lead, [kind |-> "unstake", amount |-> n, node |-> node])
Cancellation(node) ==
  Signed(MCOwnerOf[node], "b", 0, [kind |-> "cancellation", node |-> node])

\* A transfer followed, in one microblock, by an escrow.
TransferAndEscrow ==
  [Transfer("a", "b", 1) EXCEPT !.sections = @ \o Escrow("a", "b", 1, "b", 0).sections]

MCMicroblocks ==
  {Creation, Vesting("a", "b", 2, -1, 0, 3), Vesting("a", "b", 1, 1, 1, 1),
   Escrow("a", "b", 1, "b", -1), Escrow("b", "a", 1, "a", 1), TransferAndEscrow,
   Settlement("b", "b", TRUE), Settlement("b", "b", FALSE),
   Staking("a", 2, "n1"), Staking("b", 1, "n2"), Unstaking("a", 1, "n1", -1),
   Unstaking("a", 2, "n1", 1), Cancellation("n1")}

\* An escrow whose agent is a third party, and its settlement.
MCAgentMicroblocks ==
  {Transfer("b", "a", 1), Escrow("a", "b", 1, "c", 0), Creation, Settlement("b", "c", TRUE)}
==============================================================================
