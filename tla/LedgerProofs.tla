---------------------------- MODULE LedgerProofs ----------------------------
(***************************************************************************)
(* Proofs about the ledger across blocks: the index tables of the daily    *)
(* updates list every account that has something locked; no token is       *)
(* created or lost, no account ever owes, the rows of table ESCROWS are    *)
(* those of the escrow locks, and no handler of the node's own throws.     *)
(*                                                                         *)
(* What each handler does is shown in AccountProofs.  The first inductive  *)
(* invariant is about the index tables alone; the second adds what holds   *)
(* of a sound ledger and what the loops of a block have still to do.       *)
(***************************************************************************)
EXTENDS Ledger, AccountProofs

------------------------------------------------------------------------------
(* The index tables *)

\* The inductive invariant.  The sections that are left are of a known kind: no other
\* section has an effect that ExecSection defines.
IndexInv == Good(ledger, Accounts) /\ sections \in Seq(Sections)

LEMMA MicroblocksAreBodies ==
  /\ \A m \in Microblocks : m \in MicroblockBodies
  /\ Missing \notin Microblocks
  BY BlocksAssumption

LEMMA InitIndexed == Init => IndexInv
  BY GenesisAssumption, LedgersAreWellFormed DEF Init, IndexInv, Good, Sound

LEMMA NextIndexed == IndexInv /\ [Next]_vars => IndexInv'
<1> SUFFICES ASSUME IndexInv, [Next]_vars
             PROVE  IndexInv'
  OBVIOUS
<1>0. Good(ledger, Accounts) /\ sections \in Seq(Sections)
  BY DEF IndexInv
<1>1. ASSUME NEW d \in 0..MaxDay, NEW offenders \in SUBSET Nodes, BeginBlock(d, offenders)
      PROVE  IndexInv'
  <2> DEFINE warned == SetNodeSlashing(ledger, offenders, d + SlashingDelay)
  <2>1. Good(warned, Accounts)
    BY <1>0, WarningKeepsGood
  <2>2. Good(UpdateVestingLocks(warned, d), Accounts)
    BY <2>1, VestingLocksKeepGood
  <2>3. ledger' \in {warned, UpdateVestingLocks(warned, d)} /\ sections' = sections
    BY <1>1 DEF BeginBlock
  <2> HIDE DEF warned
  <2> QED
    BY <1>0, <2>1, <2>2, <2>3 DEF IndexInv
<1>2. ASSUME NEW id \in EscrowIds, UpdateEscrow(id)
      PROVE  IndexInv'
  <2>1. ledger' = UpdateExpiredEscrow(ledger, id, day).ledger /\ sections' = sections
    BY <1>2 DEF UpdateEscrow
  <2> QED
    BY <1>0, <2>1, ExpiryKeepsGood DEF IndexInv
<1>3. ASSUME UpdateStakes
      PROVE  IndexInv'
  <2>1. ledger' = ApplySlashing(ApplyUnlocks(ledger, day), day) /\ sections' = sections
    BY <1>3 DEF UpdateStakes, loopVars
  <2> QED
    BY <1>0, <2>1, UnlocksKeepGood, SlashingKeepsGood DEF IndexInv
<1>4. ASSUME NEW m \in Microblocks, StartMicroblock(m)
      PROVE  IndexInv'
  <2>1. ledger' = ledger /\ sections' = m.sections
    BY <1>4 DEF StartMicroblock
  <2>2. m.sections \in Seq(Sections)
    BY <1>4, MicroblocksAreBodies, MicroblockParts
  <2> QED
    BY <1>0, <2>1, <2>2 DEF IndexInv
<1>5. ASSUME ExecNextSection
      PROVE  IndexInv'
  <2>1. /\ Head(sections) \in Sections
        /\ Tail(sections) \in Seq(Sections)
        /\ <<>> \in Seq(Sections)
    BY <1>0, <1>5 DEF ExecNextSection
  <2>3. /\ ledger' = ExecSection(ledger, mb, Head(sections), day).ledger
        /\ sections' \in {Tail(sections), <<>>}
    BY <1>5 DEF ExecNextSection, EndMicroblock
  <2>4. Good(ledger', Accounts)
    BY <1>0, <2>1, <2>3, SectionKeepsGood
  <2> QED
    BY <2>1, <2>3, <2>4 DEF IndexInv
<1>6. ASSUME PayMicroblockFees
      PROVE  IndexInv'
  <2>1. ledger' = PayFees(ledger, mb).ledger /\ sections' = <<>>
    BY <1>6 DEF PayMicroblockFees, EndMicroblock
  <2> QED
    BY <1>0, <2>1, PayFeesKeepsGood DEF IndexInv
<1>7. ASSUME NEW voters \in Voters, DispatchFees(voters)
      PROVE  IndexInv'
  BY <1>0, <1>7 DEF DispatchFees, IndexInv
<1>8. ASSUME PayValidator
      PROVE  IndexInv'
  <2>1. ledger' = PayShare(ledger, Head(shares)).ledger /\ sections' = sections
    BY <1>8 DEF PayValidator
  <2> QED
    BY <1>0, <2>1, PayFeesKeepsGood DEF IndexInv
<1>9. ASSUME Commit
      PROVE  IndexInv'
  <2>1. ledger' = CommitTables(ledger) /\ sections' = sections
    BY <1>9 DEF Commit, loopVars
  <2> QED
    BY <1>0, <2>1, CommitKeepsGood DEF IndexInv
<1>10. CASE UNCHANGED vars
  BY <1>0, <1>10 DEF vars, loopVars, IndexInv
<1>11. QED
  BY <1>1, <1>2, <1>3, <1>4, <1>5, <1>6, <1>7, <1>8, <1>9, <1>10 DEF Next

\* Whatever happens, exceptions included, an account that has a vesting lock or a stake
\* is listed in the index table through which the daily updates find it.
THEOREM LocksStayIndexed == Spec => []LocksAreIndexed
<1>1. IndexInv => LocksAreIndexed
  BY DEF IndexInv, Good, LocksAreIndexed
<1>2. QED
  BY <1>1, InitIndexed, NextIndexed, PTL DEF Spec

------------------------------------------------------------------------------
(* The invariant *)

\* The state of the loops.
LoopsInv ==
  /\ pc \in {"idle", "escrows", "executing", "microblock", "paying"}
  /\ ids \subseteq EscrowIds
  /\ mb \in Microblocks \cup {Missing} /\ (mb # Missing <=> pc = "microblock")
  /\ sections \in Seq(Sections)
  /\ shares \in Seq(Shares)
  /\ day \in 0..MaxDay /\ height \in Nat /\ txs \in Nat
  /\ daily = TRUE /\ clean \in BOOLEAN

\* The tokens of ledger L, and of those that slashing has taken.
Conserved(L, taken, untouched) ==
  /\ taken \in Nat
  /\ TotalBalance(L) + taken <= Supply
  /\ untouched => TotalBalance(L) + taken = Supply

\* What holds of the ledger and of what an observer remembers of it.
Held(L, d, taken, untouched) == Secure(L, d) /\ Good(L, Accounts) /\ Conserved(L, taken, untouched)

TokensInv ==
  /\ LoopsInv
  /\ Held(ledger, day, burnt, clean)
  /\ pc = "escrows" => Visiting(ledger, ids, day)
  /\ pc = "paying" => Due(shares) <= ledger.accounts[FeesAccount].balance

------------------------------------------------------------------------------
(* The steps *)

LEMMA OutcomeHeld ==
  ASSUME NEW L, NEW d, NEW taken, NEW untouched \in BOOLEAN, Held(L, d, taken, untouched),
         NEW r, Outcome(L, r, d), Good(r.ledger, Accounts)
  PROVE  /\ Held(r.ledger, d, taken, untouched /\ r.ok)
         /\ r.ok = TRUE => Held(r.ledger, d, taken, untouched)
<1> DEFINE M == r.ledger
<1>1. /\ r.ok \in BOOLEAN /\ Secure(M, d) /\ Good(M, Accounts)
      /\ TotalBalance(M) <= TotalBalance(L)
      /\ r.ok = TRUE => TotalBalance(M) = TotalBalance(L)
  BY DEF Outcome
<1>2. /\ TotalBalance(L) \in Nat /\ TotalBalance(M) \in Nat
  BY <1>1, SecureTotal DEF Held
<1>3. /\ taken \in Nat /\ TotalBalance(L) + taken <= Supply
      /\ untouched => TotalBalance(L) + taken = Supply
  BY DEF Held, Conserved
<1>4. Supply \in Nat
  <2>1. Secure(GenesisLedger, 0)
    BY GenesisAssumption DEF Sound, Secure, Solvent
  <2> QED
    BY <2>1, SecureTotal DEF Supply
<1> HIDE DEF M
<1>5. TotalBalance(M) + taken <= Supply
  BY <1>1, <1>2, <1>3, <1>4
<1>6. r.ok = TRUE /\ untouched => TotalBalance(M) + taken = Supply
  BY <1>1, <1>2, <1>3, <1>4
<1>7. Conserved(M, taken, untouched /\ r.ok)
  BY <1>1, <1>3, <1>5, <1>6 DEF Conserved
<1>8. r.ok = TRUE => Conserved(M, taken, untouched)
  BY <1>3, <1>5, <1>6 DEF Conserved
<1> QED
  BY <1>1, <1>7, <1>8 DEF Held, M

LEMMA TakenHeld ==
  ASSUME NEW L, NEW c, NEW taken, NEW untouched, Held(L, c, taken, untouched),
         NEW k \in Nat, NEW d, NEW M, Secure(M, d), Good(M, Accounts),
         TotalBalance(M) = TotalBalance(L) - k
  PROVE  Held(M, d, taken + k, untouched)
<1>1. /\ TotalBalance(L) \in Nat /\ TotalBalance(M) \in Nat
  BY SecureTotal DEF Held
<1>2. /\ taken \in Nat /\ TotalBalance(L) + taken <= Supply
      /\ untouched => TotalBalance(L) + taken = Supply
  BY DEF Held, Conserved
<1>3. TotalBalance(M) + (taken + k) = TotalBalance(L) + taken /\ taken + k \in Nat
  BY <1>1, <1>2
<1>4. Conserved(M, taken + k, untouched)
  BY <1>2, <1>3 DEF Conserved
<1> QED
  BY <1>4 DEF Held

LEMMA SameHeld ==
  ASSUME NEW L, NEW c, NEW taken, NEW untouched, Held(L, c, taken, untouched),
         NEW d, NEW M, Secure(M, d), Good(M, Accounts), TotalBalance(M) = TotalBalance(L)
  PROVE  Held(M, d, taken, untouched)
  BY DEF Held, Conserved

LEMMA InitTokens == Init => TokensInv
<1> SUFFICES ASSUME Init
             PROVE  TokensInv
  OBVIOUS
<1>1. Secure(ledger, 0) /\ ledger = GenesisLedger
  BY GenesisAssumption DEF Init, Sound, Secure, Solvent
<1>2. Good(ledger, Accounts)
  BY InitIndexed DEF IndexInv
<1>3. Conserved(ledger, burnt, clean)
  <2>1. TotalBalance(ledger) \in Nat
    BY <1>1, SecureTotal
  <2>2. burnt = 0 /\ Supply = TotalBalance(ledger)
    BY <1>1 DEF Init, Supply
  <2> QED
    BY <2>1, <2>2 DEF Conserved
<1>4. LoopsInv
  <2>1. mb = Missing /\ pc = "idle"
    BY DEF Init
  <2>2. <<>> \in Seq(Sections) /\ <<>> \in Seq(Shares) /\ 0 \in 0..MaxDay
    BY LedgerAssumption, BlocksAssumption
  <2> QED
    BY <2>1, <2>2 DEF Init, LoopsInv
<1> QED
  BY <1>1, <1>2, <1>3, <1>4 DEF TokensInv, Held, Init

LEMMA BeginBlockKeeps ==
  ASSUME TokensInv, NEW d \in 0..MaxDay, NEW offenders \in SUBSET Nodes, BeginBlock(d, offenders)
  PROVE  TokensInv'
<1> DEFINE c == d + SlashingDelay
           warned == SetNodeSlashing(ledger, offenders, c)
           M == UpdateVestingLocks(warned, d)
           I == GetKeys(warned.escrows, warned.cache)
<1>1. /\ d \in Int /\ d >= day /\ day \in Int /\ MaxDay \in Nat /\ c \in Nat
  BY LedgerAssumption, BlocksAssumption, AccountsAssumption DEF TokensInv, LoopsInv, BeginBlock
<1>2. /\ pc = "idle" /\ mb' = mb /\ sections' = sections /\ shares' = shares
      /\ day' = d /\ height' = height + 1 /\ txs' = txs /\ daily' = daily /\ clean' = clean
      /\ burnt' = burnt
      /\ \/ ledger' = warned /\ pc' = "executing" /\ ids' = ids
         \/ ledger' = M /\ ids' = I /\ pc' = "escrows"
  BY <1>1 DEF BeginBlock
<1>3. Secure(ledger, day) /\ Good(ledger, Accounts) /\ Held(ledger, day, burnt, clean)
  BY DEF TokensInv, Held
<1>4. Secure(ledger, d)
  BY <1>1, <1>3, SecureLater
<1> HIDE DEF c
<1>5. Secure(warned, d) /\ TotalBalance(warned) = TotalBalance(ledger) + 0
  <2>1. Moves(ledger, warned, d, 0)
    BY <1>1, <1>4, WarningMoves
  <2> HIDE DEF warned
  <2> QED
    BY <1>4, <2>1, MovesSecure
<1>6. Good(warned, Accounts)
  BY <1>3, WarningKeepsGood
<1> HIDE DEF warned
<1>7. Secure(M, d) /\ TotalBalance(M) = TotalBalance(warned) + 0
  <2>1. Moves(warned, M, d, 0)
    BY <1>5, VestingMoves
  <2> HIDE DEF M
  <2> QED
    BY <1>5, <2>1, MovesSecure
<1>8. Good(M, Accounts)
  BY <1>6, VestingLocksKeepGood
<1>9. Visiting(M, I, d) /\ I \subseteq EscrowIds
  BY <1>5, <1>6, VisitBegins
<1> HIDE DEF M, I
<1>10. TotalBalance(warned) = TotalBalance(ledger) /\ TotalBalance(M) = TotalBalance(ledger)
  <2>1. TotalBalance(ledger) \in Nat
    BY <1>3, SecureTotal
  <2> QED
    BY <1>5, <1>7, <2>1
<1>11. Held(warned, d, burnt, clean) /\ Held(M, d, burnt, clean)
  BY <1>3, <1>5, <1>6, <1>7, <1>8, <1>10, SameHeld
<1>12. Held(ledger', day', burnt', clean')
  BY <1>2, <1>11
<1>13. LoopsInv'
  <2>1. height + 1 \in Nat
    BY DEF TokensInv, LoopsInv
  <2> QED
    BY <1>2, <1>9, <2>1 DEF TokensInv, LoopsInv
<1>14. pc' = "escrows" => Visiting(ledger', ids', day')
  BY <1>2, <1>9
<1> QED
  BY <1>2, <1>12, <1>13, <1>14 DEF TokensInv

LEMMA UpdateEscrowKeeps ==
  ASSUME TokensInv, NEW id \in EscrowIds, UpdateEscrow(id)
  PROVE  TokensInv' /\ pc' = "escrows"
<1>1. /\ pc = "escrows" /\ id \in ids /\ ids \subseteq EscrowIds
      /\ Secure(ledger, day) /\ Good(ledger, Accounts) /\ Held(ledger, day, burnt, clean)
      /\ Visiting(ledger, ids, day)
  BY DEF TokensInv, LoopsInv, Held, UpdateEscrow
<1>2. PICK r : r = UpdateExpiredEscrow(ledger, id, day)
  OBVIOUS
<1>3. r.ok = TRUE /\ Outcome(ledger, r, day) /\ Visiting(r.ledger, ids \ {id}, day)
  <2>1. PICK J : J = ids \ {id}
    OBVIOUS
  <2>2. r.ok = TRUE /\ Outcome(ledger, r, day) /\ Visiting(r.ledger, J, day)
    BY <1>1, <1>2, <2>1, VisitGoesOn
  <2> QED
    BY <2>1, <2>2
<1>4. /\ ledger' = r.ledger /\ ids' = ids \ {id} /\ pc' = pc /\ daily' = (daily /\ r.ok)
      /\ day' = day /\ height' = height /\ txs' = txs /\ mb' = mb /\ sections' = sections
      /\ shares' = shares /\ clean' = clean /\ burnt' = burnt
  BY <1>2, <1>3 DEF UpdateEscrow
<1>5. Good(r.ledger, Accounts) /\ clean \in BOOLEAN
  BY <1>1, <1>2, ExpiryKeepsGood DEF TokensInv, LoopsInv
<1>6. Held(ledger', day', burnt', clean')
  <2>1. Held(r.ledger, day, burnt, clean)
    BY <1>1, <1>3, <1>5, OutcomeHeld
  <2> QED
    BY <1>4, <2>1
<1>7. daily' = TRUE
  BY <1>3, <1>4 DEF TokensInv, LoopsInv
<1>8. LoopsInv'
  BY <1>1, <1>4, <1>7 DEF TokensInv, LoopsInv
<1> QED
  BY <1>1, <1>3, <1>4, <1>6, <1>8 DEF TokensInv

LEMMA UpdateStakesKeeps ==
  ASSUME TokensInv, UpdateStakes
  PROVE  TokensInv' /\ NothingDue(ledger', day)
<1> DEFINE U == ApplyUnlocks(ledger, day)
           M == ApplySlashing(U, day)
<1>1. /\ Secure(ledger, day) /\ Good(ledger, Accounts) /\ Held(ledger, day, burnt, clean)
      /\ Visiting(ledger, {}, day) /\ pc = "escrows"
  BY DEF TokensInv, LoopsInv, Held, UpdateStakes
<1>2. /\ ledger' = M /\ burnt' = burnt + Slashed(U, day) /\ pc' = "executing"
      /\ day' = day /\ height' = height /\ txs' = txs /\ ids' = ids /\ mb' = mb
      /\ sections' = sections /\ shares' = shares /\ daily' = daily /\ clean' = clean
  BY DEF UpdateStakes, loopVars, Slashed
<1>3. /\ Secure(M, day) /\ Slashed(U, day) \in Nat
      /\ TotalBalance(M) = TotalBalance(ledger) - Slashed(U, day)
      /\ NothingDue(M, day)
  BY <1>1, VisitEnds
<1>4. Good(M, Accounts)
  BY <1>1, UnlocksKeepGood, SlashingKeepsGood
<1> HIDE DEF U, M
<1>5. Held(M, day, burnt + Slashed(U, day), clean)
  BY <1>1, <1>3, <1>4, TakenHeld
<1>6. Held(ledger', day', burnt', clean')
  BY <1>2, <1>5
<1>7. LoopsInv'
  BY <1>1, <1>2 DEF TokensInv, LoopsInv
<1> QED
  BY <1>2, <1>3, <1>6, <1>7 DEF TokensInv

LEMMA StartMicroblockKeeps ==
  ASSUME TokensInv, NEW m \in Microblocks, StartMicroblock(m)
  PROVE  TokensInv'
<1>1. /\ ledger' = ledger /\ day' = day /\ height' = height /\ ids' = ids /\ shares' = shares
      /\ daily' = daily /\ clean' = clean /\ burnt' = burnt
      /\ mb' = m /\ sections' = m.sections /\ txs' = txs + 1 /\ pc' = "microblock"
  BY DEF StartMicroblock
<1>2. m.sections \in Seq(Sections) /\ m # Missing
  BY MicroblocksAreBodies, MicroblockParts
<1>3. Held(ledger', day', burnt', clean')
  BY <1>1 DEF TokensInv
<1>4. LoopsInv'
  BY <1>1, <1>2 DEF TokensInv, LoopsInv
<1> QED
  BY <1>1, <1>3, <1>4 DEF TokensInv

\* A handler that ran in a microblock.
LEMMA HandlerKeeps ==
  ASSUME TokensInv, NEW r, Outcome(ledger, r, day), Good(r.ledger, Accounts),
         pc = "microblock", ledger' = r.ledger, mb' \in Microblocks \cup {Missing},
         UNCHANGED <<day, height, txs, ids, shares, daily, burnt>>,
         \/ pc' = pc /\ mb' = mb /\ sections' \in Seq(Sections) /\ clean' = clean /\ r.ok = TRUE
         \/ EndMicroblock(r.ok)
         \/ EndMicroblock(FALSE) /\ r.ok = FALSE
  PROVE  TokensInv'
<1>1. Held(ledger, day, burnt, clean) /\ clean \in BOOLEAN
  BY DEF TokensInv, LoopsInv
<1>2. /\ Held(r.ledger, day, burnt, clean /\ r.ok)
      /\ r.ok = TRUE => Held(r.ledger, day, burnt, clean)
  BY <1>1, OutcomeHeld
<1>3. r.ok \in BOOLEAN
  BY DEF Outcome
<1>4. CASE pc' = pc /\ mb' = mb /\ sections' \in Seq(Sections) /\ clean' = clean /\ r.ok = TRUE
  <2>1. Held(ledger', day', burnt', clean')
    BY <1>2, <1>4
  <2>2. LoopsInv'
    BY <1>4 DEF TokensInv, LoopsInv
  <2> QED
    BY <1>4, <2>1, <2>2 DEF TokensInv
<1>5. ASSUME NEW ok \in BOOLEAN, EndMicroblock(ok), ok = r.ok
      PROVE  TokensInv'
  <2>1. pc' = "executing" /\ mb' = Missing /\ sections' = <<>> /\ clean' = (clean /\ ok)
    BY <1>5 DEF EndMicroblock
  <2>2. Held(ledger', day', burnt', clean')
    BY <1>2, <1>5, <2>1
  <2>3. <<>> \in Seq(Sections) /\ clean' \in BOOLEAN
    BY <1>1, <1>5, <2>1
  <2>4. LoopsInv'
    BY <2>1, <2>3 DEF TokensInv, LoopsInv
  <2> QED
    BY <2>1, <2>2, <2>4 DEF TokensInv
<1> QED
  BY <1>3, <1>4, <1>5

LEMMA ExecNextSectionKeeps ==
  ASSUME TokensInv, ExecNextSection
  PROVE  TokensInv'
<1>1. /\ Secure(ledger, day) /\ Good(ledger, Accounts) /\ day \in Int /\ pc = "microblock"
      /\ mb \in Microblocks /\ mb \in MicroblockBodies
      /\ sections \in Seq(Sections) /\ sections # <<>>
  BY LedgerAssumption, MicroblocksAreBodies DEF TokensInv, LoopsInv, Held, ExecNextSection
<1>2. Head(sections) \in Sections /\ Tail(sections) \in Seq(Sections)
  BY <1>1
<1>3. PICK s : s = Head(sections)
  OBVIOUS
<1>4. PICK r : r = ExecSection(ledger, mb, s, day)
  OBVIOUS
<1>5. Outcome(ledger, r, day)
  BY <1>1, <1>2, <1>3, <1>4, SectionEffect
<1>6. Good(r.ledger, Accounts)
  BY <1>1, <1>2, <1>3, <1>4, SectionKeepsGood
<1>7. /\ ledger' = r.ledger
      /\ IF r.ok
         THEN sections' = Tail(sections) /\ UNCHANGED <<pc, mb, clean>>
         ELSE EndMicroblock(FALSE)
      /\ UNCHANGED <<day, height, txs, ids, shares, daily, burnt>>
  BY <1>3, <1>4 DEF ExecNextSection
<1>8. r.ok = TRUE \/ r.ok = FALSE
  BY <1>5 DEF Outcome
<1>9. \/ /\ pc' = pc /\ mb' = mb /\ sections' \in Seq(Sections) /\ clean' = clean
         /\ r.ok = TRUE
      \/ EndMicroblock(FALSE) /\ r.ok = FALSE
  BY <1>2, <1>7, <1>8
<1>10. mb' \in Microblocks \cup {Missing}
  BY <1>1, <1>9 DEF EndMicroblock
<1> QED
  BY <1>1, <1>5, <1>6, <1>7, <1>9, <1>10, HandlerKeeps

LEMMA PayMicroblockFeesKeeps ==
  ASSUME TokensInv, PayMicroblockFees
  PROVE  TokensInv'
<1>1. /\ Secure(ledger, day) /\ Good(ledger, Accounts) /\ day \in Int /\ pc = "microblock"
      /\ mb \in Microblocks /\ mb \in MicroblockBodies
  BY LedgerAssumption, MicroblocksAreBodies DEF TokensInv, LoopsInv, Held, PayMicroblockFees
<1>2. PICK r : r = PayFees(ledger, mb)
  OBVIOUS
<1>3. Outcome(ledger, r, day)
  BY <1>1, <1>2, FeesEffect
<1>4. Good(r.ledger, Accounts)
  BY <1>1, <1>2, PayFeesKeepsGood
<1>5. /\ ledger' = r.ledger /\ EndMicroblock(r.ok)
      /\ UNCHANGED <<day, height, txs, ids, shares, daily, burnt>>
  BY <1>2 DEF PayMicroblockFees
<1>6. mb' \in Microblocks \cup {Missing}
  BY <1>5 DEF EndMicroblock
<1> QED
  BY <1>1, <1>3, <1>4, <1>5, <1>6, HandlerKeeps

LEMMA DispatchFeesKeeps ==
  ASSUME TokensInv, NEW voters \in Voters, DispatchFees(voters)
  PROVE  /\ TokensInv'
         /\ shares' \in Seq(Shares)
         /\ Due(shares') = IF \E i \in DOMAIN shares' :
                                 Staked(ledger.accounts[OwnerOf[shares'[i].node]]) > 0
                           THEN ledger.accounts[FeesAccount].balance ELSE 0
<1>1. Secure(ledger, day) /\ height \in Nat
  BY DEF TokensInv, LoopsInv, Held
<1>2. PICK s : s = SharesOf(ledger, voters, height)
  OBVIOUS
<1>3. /\ s \in Seq(Shares)
      /\ Due(s) = IF \E i \in DOMAIN s : Staked(ledger.accounts[OwnerOf[s[i].node]]) > 0
                  THEN ledger.accounts[FeesAccount].balance ELSE 0
  <2>1. PICK m \in Nat : voters \in [1..m -> Nodes]
    BY LedgerAssumption, FS_CardinalityType DEF Voters, SeqOf
  <2>2. voters \in Seq(Nodes)
    BY <2>1
  <2> QED
    BY <1>1, <1>2, <2>2, SharesEffect
<1>4. /\ shares' = s /\ pc = "executing" /\ pc' = "paying" /\ ledger' = ledger /\ day' = day
      /\ height' = height /\ txs' = txs /\ ids' = ids /\ mb' = mb /\ sections' = sections
      /\ daily' = daily /\ clean' = clean /\ burnt' = burnt
  BY <1>2 DEF DispatchFees
<1>5. ledger.accounts[FeesAccount].balance \in Nat
  BY <1>1, SecureTotal, SolventParts DEF Accounts
<1>6. Due(s) <= ledger.accounts[FeesAccount].balance
  <2> HIDE DEF Due
  <2>1. Due(s) = 0 \/ Due(s) = ledger.accounts[FeesAccount].balance
    BY <1>3
  <2> QED
    BY <1>5, <2>1
<1>7. Held(ledger', day', burnt', clean')
  BY <1>4 DEF TokensInv
<1>8. LoopsInv'
  BY <1>3, <1>4 DEF TokensInv, LoopsInv
<1>9. Due(shares') <= ledger'.accounts[FeesAccount].balance
  BY <1>4, <1>6
<1>10. (Due(shares) <= ledger.accounts[FeesAccount].balance)'
  BY <1>9 DEF Due, AmountsOf
<1> QED
  BY <1>3, <1>4, <1>7, <1>8, <1>10 DEF TokensInv

LEMMA PayValidatorKeeps ==
  ASSUME TokensInv, PayValidator
  PROVE  TokensInv'
<1>1. /\ Secure(ledger, day) /\ Good(ledger, Accounts) /\ day \in Int /\ pc = "paying"
      /\ Held(ledger, day, burnt, clean) /\ clean \in BOOLEAN
      /\ shares \in Seq(Shares) /\ shares # <<>>
      /\ Due(shares) <= ledger.accounts[FeesAccount].balance
  BY LedgerAssumption, BlocksAssumption DEF TokensInv, LoopsInv, Held, PayValidator
<1>2. PICK s : s = Head(shares)
  OBVIOUS
<1>3. PICK rest : rest = Tail(shares)
  OBVIOUS
<1>4. /\ s \in Shares /\ rest \in Seq(Shares) /\ s.amount \in Nat
      /\ Due(shares) = s.amount + Due(rest) /\ Due(rest) \in Nat
  <2>1. s \in Shares /\ rest \in Seq(Shares) /\ Due(shares) = s.amount + Due(rest)
    BY <1>1, <1>2, <1>3, DueOfRest
  <2>2. Due(rest) \in Nat
    BY <2>1, AmountsType
  <2> QED
    BY <2>1, <2>2 DEF Shares
<1>5. PICK r : r = PayShare(ledger, s)
  OBVIOUS
<1>6. ledger.accounts[FeesAccount].balance \in Nat
  BY <1>1, SecureTotal, SolventParts DEF Accounts
<1>7. s.amount <= ledger.accounts[FeesAccount].balance
  BY <1>1, <1>4, <1>6
<1>8. /\ r.ok = TRUE
      /\ r.ledger.accounts[FeesAccount].balance
           = ledger.accounts[FeesAccount].balance - s.amount
  BY <1>1, <1>4, <1>5, <1>7, CoveredShare
<1>9. Outcome(ledger, r, day) /\ Good(r.ledger, Accounts)
  BY <1>1, <1>4, <1>5, ShareEffect, PayFeesKeepsGood
<1>10. /\ ledger' = r.ledger /\ shares' = rest /\ pc' = pc /\ day' = day /\ height' = height
       /\ txs' = txs /\ ids' = ids /\ mb' = mb /\ sections' = sections /\ daily' = daily
       /\ clean' = clean /\ burnt' = burnt
  BY <1>2, <1>3, <1>5, <1>8 DEF PayValidator
<1>11. Held(r.ledger, day, burnt, clean)
  BY <1>1, <1>8, <1>9, OutcomeHeld
<1>12. Held(ledger', day', burnt', clean')
  BY <1>10, <1>11
<1>13. LoopsInv'
  BY <1>4, <1>10 DEF TokensInv, LoopsInv
<1>14. Due(rest) <= r.ledger.accounts[FeesAccount].balance
  BY <1>1, <1>4, <1>6, <1>8
<1>15. (Due(shares) <= ledger.accounts[FeesAccount].balance)'
  BY <1>10, <1>14 DEF Due, AmountsOf
<1> QED
  BY <1>1, <1>10, <1>12, <1>13, <1>15 DEF TokensInv

LEMMA CommitKeeps ==
  ASSUME TokensInv, Commit
  PROVE  TokensInv'
<1>1. Secure(ledger, day) /\ Good(ledger, Accounts) /\ Held(ledger, day, burnt, clean) /\ pc = "paying"
  BY DEF TokensInv, Held, Commit
<1>2. PICK M : M = CommitTables(ledger)
  OBVIOUS
<1>3. Secure(M, day) /\ TotalBalance(M) = TotalBalance(ledger) /\ Good(M, Accounts)
  BY <1>1, <1>2, CommitEffect, CommitKeepsGood
<1>4. /\ ledger' = M /\ pc' = "idle" /\ day' = day /\ height' = height /\ txs' = txs
      /\ ids' = ids /\ mb' = mb /\ sections' = sections /\ shares' = shares
      /\ daily' = daily /\ clean' = clean /\ burnt' = burnt
  BY <1>2 DEF Commit, loopVars
<1>5. Held(M, day, burnt, clean)
  BY <1>1, <1>3, SameHeld
<1>6. Held(ledger', day', burnt', clean')
  BY <1>4, <1>5
<1>7. LoopsInv'
  BY <1>1, <1>4 DEF TokensInv, LoopsInv
<1> QED
  BY <1>4, <1>6, <1>7 DEF TokensInv

LEMMA NextTokens == TokensInv /\ [Next]_vars => TokensInv'
<1> SUFFICES ASSUME TokensInv, [Next]_vars
             PROVE  TokensInv'
  OBVIOUS
<1>1. CASE \E d \in 0..MaxDay, offenders \in SUBSET Nodes : BeginBlock(d, offenders)
  BY <1>1, BeginBlockKeeps
<1>2. CASE \E id \in EscrowIds : UpdateEscrow(id)
  BY <1>2, UpdateEscrowKeeps
<1>3. CASE UpdateStakes
  BY <1>3, UpdateStakesKeeps
<1>4. CASE \E m \in Microblocks : StartMicroblock(m)
  BY <1>4, StartMicroblockKeeps
<1>5. CASE ExecNextSection
  BY <1>5, ExecNextSectionKeeps
<1>6. CASE PayMicroblockFees
  BY <1>6, PayMicroblockFeesKeeps
<1>7. CASE \E voters \in Voters : DispatchFees(voters)
  BY <1>7, DispatchFeesKeeps
<1>8. CASE PayValidator
  BY <1>8, PayValidatorKeeps
<1>9. CASE Commit
  BY <1>9, CommitKeeps
<1>10. CASE UNCHANGED vars
  BY <1>10 DEF vars, loopVars, TokensInv, LoopsInv, Due, AmountsOf
<1> QED
  BY <1>1, <1>2, <1>3, <1>4, <1>5, <1>6, <1>7, <1>8, <1>9, <1>10 DEF Next

\* In every reachable state.
LEMMA TokensInvariant == Spec => []TokensInv
  BY InitTokens, NextTokens, PTL DEF Spec

------------------------------------------------------------------------------
(* The theorems *)

\* The ledger keeps its shape: no balance and no lock ever becomes negative, and a stake
\* that has nothing left to hold is removed.
THEOREM LedgerTypes == Spec => []TypeOK
<1>1. TokensInv => TypeOK
  <2> SUFFICES ASSUME TokensInv
               PROVE  TypeOK
    OBVIOUS
  <2>1. ledger \in Ledgers /\ burnt \in Nat
    BY SecureTotal DEF TokensInv, Held, Conserved
  <2>2. day \in Nat /\ daily \in BOOLEAN
    BY LedgerAssumption, BlocksAssumption DEF TokensInv, LoopsInv
  <2> QED
    BY <2>1, <2>2 DEF TokensInv, LoopsInv, TypeOK
<1>2. QED
  BY <1>1, TokensInvariant, PTL

\* Tokens are neither created nor lost: the balances and what slashing has taken add up
\* to the supply of the genesis block, as long as no microblock fails after it has begun;
\* such a failure may lose tokens, and nothing ever creates any.
THEOREM TokensAreConserved == Spec => []TokensConserved
<1>1. TokensInv => TokensConserved
  BY DEF TokensInv, Held, Conserved, TokensConserved
<1>2. QED
  BY <1>1, TokensInvariant, PTL

\* No account ever owes: what vesting, escrows and stakes lock is covered by its balance.
THEOREM NobodyOwes == Spec => []SpendableNonNegative
<1>1. TokensInv => SpendableNonNegative
  BY DEF TokensInv, Held, Secure, Solvent, SpendableNonNegative
<1>2. QED
  BY <1>1, TokensInvariant, PTL

\* Table ESCROWS lists exactly the escrow locks of the accounts, on their payees.
THEOREM EscrowsMatch == Spec => []EscrowRowsMatchLocks
<1>1. TokensInv => EscrowRowsMatchLocks
  BY DEF TokensInv, Held, Secure, EscrowRowsMatchLocks
<1>2. QED
  BY <1>1, TokensInvariant, PTL

\* The daily updates are never cut short and the payment of the fees never throws: what a
\* refund or a share takes is always there, and its payee exists.
THEOREM NothingThrows == Spec => []NoHandlerException
<1>1. TokensInv => NoHandlerException
  BY DEF TokensInv, LoopsInv, NoHandlerException
<1>2. QED
  BY <1>1, TokensInvariant, PTL

\* When the daily updates end, no lock has outlived its day, however many days went by
\* without a block.
THEOREM LocksEndInTime == Spec => NothingOverdue
<1>1. TokensInv /\ [Next]_vars
        => [pc = "escrows" /\ pc' = "executing" => NothingDue(ledger', day)]_vars
  <2> SUFFICES ASSUME TokensInv, Next, pc = "escrows", pc' = "executing"
               PROVE  NothingDue(ledger', day)
    OBVIOUS
  <2>1. CASE \E id \in EscrowIds : UpdateEscrow(id)
    BY <2>1, UpdateEscrowKeeps
  <2>2. CASE UpdateStakes
    BY <2>2, UpdateStakesKeeps
  <2>3. ~\E d \in 0..MaxDay, offenders \in SUBSET Nodes : BeginBlock(d, offenders)
    BY DEF BeginBlock
  <2>4. ~\E m \in Microblocks : StartMicroblock(m)
    BY DEF StartMicroblock
  <2>5. ~ExecNextSection /\ ~PayMicroblockFees /\ ~PayValidator /\ ~Commit
    BY DEF ExecNextSection, PayMicroblockFees, PayValidator, Commit
  <2>6. ~\E voters \in Voters : DispatchFees(voters)
    BY DEF DispatchFees
  <2> QED
    BY <2>1, <2>2, <2>3, <2>4, <2>5, <2>6 DEF Next
<1>2. QED
  BY <1>1, TokensInvariant, PTL DEF Spec, NothingOverdue

\* If a voter has a stake, the shares of the fees add up to the fees, whatever the stakes,
\* the number of voters and the height; otherwise nothing is paid.
THEOREM FeesAreFullyDispatched == Spec => FeesFullyDispatched
<1> DEFINE Paid ==
      LET staked == \E i \in DOMAIN shares' : Staked(ledger.accounts[OwnerOf[shares'[i].node]]) > 0
          paid == FoldLeft(LAMBDA sum, share : sum + share.amount, 0, shares')
      IN  paid = IF staked THEN ledger.accounts[FeesAccount].balance ELSE 0
<1>1. TokensInv /\ [Next]_vars => [pc = "executing" /\ pc' = "paying" => Paid]_vars
  <2> SUFFICES ASSUME TokensInv, Next, pc = "executing", pc' = "paying"
               PROVE  Paid
    OBVIOUS
  <2>1. CASE \E voters \in Voters : DispatchFees(voters)
    <3>1. /\ shares' \in Seq(Shares)
          /\ Due(shares') = IF \E i \in DOMAIN shares' :
                                  Staked(ledger.accounts[OwnerOf[shares'[i].node]]) > 0
                            THEN ledger.accounts[FeesAccount].balance ELSE 0
      BY <2>1, DispatchFeesKeeps
    <3>2. PICK s : s = shares'
      OBVIOUS
    <3>3. FoldLeft(LAMBDA sum, share : sum + share.amount, 0, s) = Due(s)
      BY <3>1, <3>2, DueIsPaid
    <3>4. FoldLeft(LAMBDA sum, share : sum + share.amount, 0, shares') = Due(shares')
      BY <3>2, <3>3
    <3> QED
      BY <3>1, <3>4
  <2>2. ~\E d \in 0..MaxDay, offenders \in SUBSET Nodes : BeginBlock(d, offenders)
    BY DEF BeginBlock
  <2>3. ~\E id \in EscrowIds : UpdateEscrow(id)
    BY DEF UpdateEscrow
  <2>4. ~\E m \in Microblocks : StartMicroblock(m)
    BY DEF StartMicroblock
  <2>5. ~UpdateStakes /\ ~ExecNextSection /\ ~PayMicroblockFees /\ ~PayValidator /\ ~Commit
    BY DEF UpdateStakes, ExecNextSection, PayMicroblockFees, PayValidator, Commit
  <2> QED
    BY <2>1, <2>2, <2>3, <2>4, <2>5 DEF Next
<1>2. QED
  BY <1>1, TokensInvariant, PTL DEF Spec, FeesFullyDispatched
==============================================================================
