----------------------------- MODULE MCProposal -----------------------------
(***************************************************************************)
(* Instances of Proposal: b sends an escrow, a a transfer followed by an   *)
(* escrow of the same identifier, b a transfer that it can only afford     *)
(* with the tokens from a; or a makes another transfer instead, and        *)
(* writes to an application ledger, which only costs fees.                 *)
(***************************************************************************)
EXTENDS Proposal

MCEscrowIds == {"x"}
MCNodes == {"n"}
MCStandardAccounts == {"a", "b"}
MCPublicKeys == {"ka", "kb"}
MCOwnerOf == [n \in MCNodes |-> "a"]

MCMicroblocks == {"b1", "a1", "a1bis", "b2", "app"}
MCVbOf ==
  [m \in MCMicroblocks |-> CASE m \in {"b1", "b2"} -> "b" [] m = "app" -> "ledger" [] OTHER -> "a"]
MCPositionOf == [m \in MCMicroblocks |-> IF m = "b2" THEN 2 ELSE 1]
MCSizeOf == [m \in MCMicroblocks |-> IF m = "a1" THEN 2 ELSE 1]

Pay(x, n) == [kind |-> "transfer", account |-> x, amount |-> n]
Lock(x, n) == [kind |-> "escrow", account |-> x, amount |-> n, id |-> "x", agent |-> "b",
               duration |-> 0]
Signed(x, fees, sections) ==
  [owner |-> x, payer |-> x, fees |-> fees, lead |-> 0, sections |-> sections]

MCBody ==
  [m \in MCMicroblocks |->
     CASE m = "b1" -> Signed("b", 3, <<Lock("a", 1)>>)
       [] m = "a1" -> Signed("a", 2, <<Pay("b", 2), Lock("b", 1)>>)
       [] m = "a1bis" -> Signed("a", 1, <<Pay("b", 3)>>)
       [] m = "b2" -> Signed("b", 1, <<Pay("a", 1)>>)
       [] m = "app" -> Signed("a", 1, <<>>)]

MCGenesisLedger ==
  [accounts |-> [x \in MCStandardAccounts \cup {"fees"} |->
     CASE x = "a" -> AddNodeStaking([NewAccount(TRUE) EXCEPT !.balance = 7], 1, "n")
       [] x = "b" -> [NewAccount(TRUE) EXCEPT !.balance = 5]
       [] OTHER -> NewAccount(TRUE)],
   escrows |-> [e \in MCEscrowIds |-> Missing],
   cache |-> EmptyCache(MCEscrowIds),
   vestingRows |-> {}, stakingRows |-> {"a"},
   keys |-> [k \in MCPublicKeys |-> IF k = "ka" THEN "a" ELSE "b"]]
==============================================================================
