---------------------------- MODULE RoyaltyProofs ----------------------------
(***************************************************************************)
(* Theorems about Royalty, for every set of users and all amounts.         *)
(***************************************************************************)
EXTENDS RoyaltyRefinement, ArithmeticTheorems

USE DEF None

-----------------------------------------------------------------------------
(* What the arithmetic returns.                                             *)

\* A commission is a natural number.
LEMMA CommissionType ==
    ASSUME NEW amount \in Nat, NEW fee \in Nat
    PROVE  commission(amount, fee) \in Nat
<1>1. new(amount) \in Nat /\ new(fee) \in Nat /\ new(BasisPoints) \in Nat
      /\ new(BasisPoints) # 0
  BY NewNat, ConstantsAssumption
<1>2. checked_mul(new(amount), new(fee)) \in Nat
  BY <1>1, CheckedMulNat
<1>3. checked_div(checked_mul(new(amount), new(fee)), new(BasisPoints)) \in Nat
  BY <1>1, <1>2, CheckedDivNat
<1> QED
  BY <1>3, ToImpreciseNat DEF commission

\* A share that has a value is a natural number.
LEMMA ShareType ==
    ASSUME NEW stake \in Nat, NEW total \in Nat, NEW amount \in Nat,
           owned_percentage(stake, total) # None
    PROVE  share(stake, total, amount) \in Nat
<1>1. new(stake) \in Nat /\ new(total) \in Nat /\ new(amount) \in Nat
  BY NewNat
<1>2. owned_percentage(stake, total) \in Nat \cup {None}
  BY <1>1, CheckedDivNat DEF owned_percentage
<1>3. owned_percentage(stake, total) \in Nat
  BY <1>2
<1>4. checked_mul(new(amount), owned_percentage(stake, total)) \in Nat
  BY <1>1, <1>3, CheckedMulNat
<1> QED
  BY <1>4, ToImpreciseNat DEF share

\* What a distribution starts with.
LEMMA StartType ==
    ASSUME lamports \in Nat, start_ok
    PROVE  /\ start_split.distribute_amount \in Nat
           /\ start_split.owner_comission \in Nat
           /\ start_split.host_comission \in Nat
<1>1. lamports - 2 \in Nat
  BY ConstantsAssumption DEF start_ok
<1>2. HostFee \in Nat
  BY ConstantsAssumption
<1>3. commission(lamports - 2, 0) \in Nat /\ commission(lamports - 2, HostFee) \in Nat
  BY <1>1, <1>2, CommissionType
<1>4. start_split.distribute_amount >= 0
  BY DEF start_ok
<1> QED
  BY <1>1, <1>3, <1>4 DEF start_split, calculate_split

-----------------------------------------------------------------------------
(* Types.                                                                   *)

\* What a distribute transaction pays out, and leaves.
LEMMA DistributePays ==
    ASSUME TypeOK, NEW due \in SUBSET vouchers, process_distribute(due)
    PROVE  /\ lamports' \in Nat /\ fees' \in Nat
           /\ voucher_lamports' \in [Users -> Nat]
           /\ distribute_amount' \in Nat
<1> DEFINE amount == IF distributing THEN distribute_amount ELSE start_split.distribute_amount
           fee    == IF distributing THEN 0
                     ELSE start_split.owner_comission + start_split.host_comission
           pay    == [u \in due |-> share(balance[u], tokens_held, amount)]
<1>1. distributing \/ start_ok
  BY DEF process_distribute
<1>2. amount \in Nat /\ fee \in Nat
  BY <1>1, StartType DEF TypeOK
<1>3. IsFiniteSet(due) /\ due \subseteq Users
  BY ConstantsAssumption, FS_Subset DEF TypeOK
<1>4. \A u \in due : balance[u] \in Nat /\ owned_percentage(balance[u], tokens_held) # None
  BY <1>3 DEF process_distribute, distribute_to_ok, TypeOK
<1> HIDE DEF amount, fee
<1>5. tokens_held \in Nat
  BY DEF TypeOK
<1>6. \A u \in due : share(balance[u], tokens_held, amount) \in Nat
  BY <1>2, <1>4, <1>5, ShareType
<1>7. pay \in [due -> Nat]
  BY <1>6
<1> HIDE DEF pay
<1>8. Total(pay, due) \in Nat
  BY <1>3, <1>7, TotalType
<1>9. /\ lamports' = lamports - fee - Total(pay, due)
      /\ lamports - fee - Total(pay, due) >= 0
      /\ fees' = fees + fee
      /\ voucher_lamports' = [u \in Users |->
                IF u \in due THEN voucher_lamports[u] + pay[u] ELSE voucher_lamports[u]]
      /\ distribute_amount' \in {0, amount}
  BY DEF process_distribute, amount, fee, pay
<1>10. \A u \in due : pay[u] \in Nat
  BY <1>7
<1> QED
  BY <1>2, <1>8, <1>9, <1>10 DEF TypeOK

\* The counters of a distribution stay natural numbers.
LEMMA DistributeCounts ==
    ASSUME TypeOK, NEW due \in SUBSET vouchers, process_distribute(due)
    PROVE  /\ drop_idx' \in Nat /\ seen_vouchers' \in Nat
           /\ distributing' \in BOOLEAN
           /\ voucher_drop' \in [Users -> Nat]
<1>1. Cardinality(due) \in Nat
  BY ConstantsAssumption, FS_Subset, FS_CardinalityType DEF TypeOK
<1>2. distributing' \in BOOLEAN
  BY Zenon DEF process_distribute
<1> QED
  BY <1>1, <1>2 DEF process_distribute, TypeOK

\* A voucher that withdraw and sync accept: one of this state shows the stake of
\* its user, one of another state any balance.
LEMMA NamedVoucher ==
    ASSUME TypeOK, NEW u \in Users, NEW voucher \in named_vouchers(u)
    PROVE  /\ voucher.own \in BOOLEAN /\ voucher.balance \in Nat
           /\ voucher.own => u \in vouchers /\ voucher.balance = balance[u]
<1>1. CASE voucher \in [own : {TRUE}, balance : {balance[x] : x \in vouchers \cap {u}}]
  BY <1>1 DEF TypeOK
<1>2. CASE voucher \in [own : {FALSE}, balance : {b \in OtherBalances : u \in Mixers}]
  BY <1>2, ConstantsAssumption
<1> QED
  BY <1>1, <1>2 DEF named_vouchers

\* What withdraw does, by whose the voucher is.
LEMMA WithdrawType ==
    ASSUME TypeOK, NEW u \in Users, NEW amount \in Amounts,
           NEW voucher \in named_vouchers(u), process_withdraw(u, voucher, amount)
    PROVE  TypeOK'
<1>1. /\ amount \in Nat /\ voucher.balance \in Nat /\ voucher.balance >= amount
      /\ voucher.own => voucher.balance = balance[u]
  BY ConstantsAssumption, NamedVoucher DEF process_withdraw, stake_covers
<1>2. balance' \in [Users -> Nat]
  <2>1. CASE voucher.own
    <3>1. balance' = [balance EXCEPT ![u] = @ - amount] /\ balance[u] - amount \in Nat
      BY <1>1, <2>1 DEF process_withdraw
    <3> QED
      BY <3>1 DEF TypeOK
  <2>2. CASE ~voucher.own
    BY <2>2 DEF process_withdraw, TypeOK
  <2> QED
    BY <2>1, <2>2
<1>3. mixed' \subseteq Users
  BY DEF process_withdraw, note_voucher, TypeOK
<1>4. weight_record' \in [Users -> Nat]
  <2>1. voucher.balance - amount \in Nat
    BY <1>1
  <2> QED
    BY <2>1 DEF process_withdraw, update_voter_weight, TypeOK
<1>5. tokens_held' \in Nat /\ max_record' \in Nat /\ wallet' \in Nat
      /\ user_tokens' \in [Users -> Nat]
  BY <1>1, ConstantsAssumption DEF process_withdraw, update_max_voter_weight, TypeOK
<1> QED
  BY <1>2, <1>3, <1>4, <1>5 DEF process_withdraw, TypeOK, distribution, payments, drops

\* Every step keeps the types.
LEMMA TypeStep == TypeOK /\ [Next]_vars => TypeOK'
<1> SUFFICES ASSUME TypeOK, [Next]_vars PROVE TypeOK'
  OBVIOUS
<1>1. CASE process_initialize
  BY <1>1 DEF process_initialize, TypeOK, distribution, stakes, tokens, payments, drops, records
<1>2. ASSUME NEW u \in Users, NEW amount \in Amounts, process_deposit(u, amount) PROVE TypeOK'
  BY <1>2, ConstantsAssumption
  DEF process_deposit, add_to_stake, update_max_voter_weight, TypeOK, distribution, payments
<1>3. ASSUME NEW u \in Users, NEW amount \in Amounts,
             NEW voucher \in named_vouchers(u), process_withdraw(u, voucher, amount)
      PROVE  TypeOK'
  BY <1>3, WithdrawType
<1>W. ASSUME NEW u \in Mixers, NEW amount \in Amounts, withdraw_elsewhere(u, amount)
      PROVE  TypeOK'
  BY <1>W, ConstantsAssumption
  DEF withdraw_elsewhere, TypeOK, distribution, tokens, payments, drops, records
<1>4. ASSUME NEW due \in SUBSET vouchers, process_distribute(due) PROVE TypeOK'
  <2>1. UNCHANGED <<initialized, migrated, stakes, tokens, user_lamports, records, received, cast,
                    mixed>>
    BY <1>4 DEF process_distribute
  <2> QED
    BY <1>4, <2>1, DistributePays, DistributeCounts DEF TypeOK, stakes, tokens, records
<1>5. ASSUME NEW u \in Users, process_claim(u) PROVE TypeOK'
  BY <1>5 DEF process_claim, TypeOK, distribution, stakes, tokens, drops, records
<1>6. CASE process_sync_weight_record
  <2>1. max_record' \in Nat
    BY <1>6, ConstantsAssumption
    DEF process_sync_weight_record, update_max_voter_weight, TypeOK, stakes
  <2>2. weight_record' \in [Users -> Nat] /\ mixed' \subseteq Users
    <3>1. ASSUME sync_owner_record
          PROVE  weight_record' \in [Users -> Nat] /\ mixed' \subseteq Users
      BY <3>1, ConstantsAssumption DEF sync_owner_record, update_voter_weight, TypeOK
    <3>2. ASSUME NEW u \in Voters, NEW voucher \in named_vouchers(u),
                 sync_user_record(u, voucher)
          PROVE  weight_record' \in [Users -> Nat] /\ mixed' \subseteq Users
      <4>1. u \in Users /\ voucher.balance \in Nat
        BY <3>2, ConstantsAssumption, NamedVoucher
      <4> QED
        BY <3>2, <4>1 DEF sync_user_record, update_voter_weight, note_voucher, TypeOK
    <3> QED
      BY <1>6, <3>1, <3>2 DEF process_sync_weight_record
  <2> QED
    BY <1>6, <2>1, <2>2
    DEF process_sync_weight_record, TypeOK, distribution, stakes, tokens, payments, drops
<1>7. CASE process_migrate
  BY <1>7 DEF process_migrate, TypeOK, distribution, stakes, tokens, payments, drops, records
<1>8. ASSUME NEW amount \in Receipts, Receive(amount) PROVE TypeOK'
  BY <1>8, ConstantsAssumption DEF Receive, TypeOK, distribution, stakes, tokens, drops, records
<1>9. ASSUME NEW u \in Users, NEW amount \in Amounts, TransferTokens(u, amount) PROVE TypeOK'
  BY <1>9, ConstantsAssumption
  DEF TransferTokens, TypeOK, distribution, stakes, payments, drops, records
<1>10. ASSUME NEW u \in Voters, Vote(u) \/ Relinquish(u) PROVE TypeOK'
  BY <1>10, ConstantsAssumption DEF Vote, Relinquish, TypeOK, distribution, stakes, tokens, payments, drops, records
<1>11. CASE UNCHANGED vars
  BY <1>11 DEF vars, TypeOK, distribution, stakes, tokens, payments, drops, records
<1> QED
  BY <1>1, <1>2, <1>3, <1>W, <1>4, <1>5, <1>6, <1>7, <1>8, <1>9, <1>10, <1>11 DEF Next

\* The initial state has the types.
LEMMA TypeInit == Init => TypeOK
<1> SUFFICES ASSUME Init PROVE TypeOK
  OBVIOUS
<1>1. initialized \in BOOLEAN /\ migrated \in BOOLEAN /\ distributing \in BOOLEAN
  BY Zenon DEF Init
<1> QED
  BY <1>1, ConstantsAssumption DEF Init, TypeOK

\* Balances and counters of the royalty program never become negative.
THEOREM TypeCorrect == Spec => []TypeOK
BY TypeInit, TypeStep, PTL DEF Spec

-----------------------------------------------------------------------------
(* Drops.  DropsInStep is inductive together with the types: the counters   *)
(* are tied to the vouchers one by one, which is what a handler relies on   *)
(* when it compares one number with another.                                *)

DropsInv == TypeOK /\ DropsInStep

\* The vouchers, and those seen, can be counted.
LEMMA VouchersFinite ==
    ASSUME TypeOK
    PROVE  /\ IsFiniteSet(vouchers) /\ Cardinality(vouchers) \in Nat
           /\ IsFiniteSet(Seen) /\ Cardinality(Seen) \in Nat
<1>1. IsFiniteSet(vouchers)
  BY ConstantsAssumption, FS_Subset DEF TypeOK
<1>2. Seen \in SUBSET vouchers
  BY DEF Seen
<1> QED
  BY <1>1, <1>2, FS_Subset, FS_CardinalityType

\* A step that leaves the vouchers and the counters alone.
LEMMA DropsUnchanged ==
    ASSUME DropsInStep, UNCHANGED <<vouchers, vouchers_count, drops, distributing, seen_vouchers>>
    PROVE  DropsInStep'
BY DEF DropsInStep, Seen, drops

\* A deposit may add a voucher, which is due like the others.
LEMMA DropsDeposit ==
    ASSUME DropsInv, NEW u \in Users, NEW amount \in Amounts, process_deposit(u, amount)
    PROVE  DropsInStep'
<1> USE DEF DropsInv
<1>1. /\ ~distributing /\ ~distributing'
      /\ drop_idx' = drop_idx /\ seen_vouchers' = seen_vouchers
      /\ vouchers' = vouchers \cup {u}
      /\ vouchers_count' = IF u \in vouchers THEN vouchers_count ELSE vouchers_count + 1
      /\ voucher_drop' = IF u \in vouchers THEN voucher_drop
                         ELSE [voucher_drop EXCEPT ![u] = drop_idx]
  BY DEF process_deposit, available, distribution
<1>2. seen_vouchers = 0 /\ Seen = {}
  BY <1>1, VouchersFinite, FS_EmptySet DEF DropsInStep
<1>3. \A v \in vouchers : voucher_drop[v] = drop_idx
  BY <1>2 DEF DropsInStep, Seen
<1>4. drop_idx \in Nat /\ voucher_drop \in [Users -> Nat] /\ vouchers \subseteq Users
  BY DEF TypeOK
<1>5. \A v \in vouchers' : voucher_drop'[v] = drop_idx
  BY <1>1, <1>3, <1>4
<1>6. Seen' = {}
  BY <1>1, <1>4, <1>5 DEF Seen
<1>7. vouchers_count' = Cardinality(vouchers')
  BY <1>1, VouchersFinite, FS_AddElement DEF DropsInStep
<1>8. seen_vouchers' = Cardinality(Seen')
  BY <1>1, <1>2, <1>6, FS_EmptySet
<1> QED
  BY <1>1, <1>2, <1>5, <1>7, <1>8 DEF DropsInStep

\* A distribute transaction moves the vouchers it is given from due to seen,
\* and when none is left due, all are due in the next drop.
LEMMA DropsDistribute ==
    ASSUME DropsInv, NEW due \in SUBSET vouchers, process_distribute(due)
    PROVE  DropsInStep'
<1> USE DEF DropsInv
<1> DEFINE seen == Cardinality(Seen) + Cardinality(due)
           done == seen = vouchers_count
<1>1. drop_idx \in Nat /\ voucher_drop \in [Users -> Nat] /\ vouchers \subseteq Users
      /\ vouchers_count = Cardinality(vouchers)
      /\ \A u \in vouchers : voucher_drop[u] \in {drop_idx, drop_idx + 1}
  BY DEF TypeOK, DropsInStep
<1>2. (IF distributing THEN seen_vouchers ELSE 0) = Cardinality(Seen)
  BY DEF DropsInStep
<1>3. /\ \A u \in due : voucher_drop[u] = drop_idx
      /\ voucher_drop' = [u \in Users |->
                IF u \in due THEN voucher_drop[u] + 1 ELSE voucher_drop[u]]
      /\ drop_idx' = IF done THEN drop_idx + 1 ELSE drop_idx
      /\ seen_vouchers' = IF done THEN 0 ELSE seen
      /\ vouchers' = vouchers /\ vouchers_count' = vouchers_count
  BY <1>2 DEF process_distribute, distribute_to_ok, stakes
<1>4. distributing' <=> ~done
  BY <1>2, Zenon DEF process_distribute
<1>5. IsFiniteSet(due) /\ Cardinality(due) \in Nat
  BY VouchersFinite, FS_Subset, FS_CardinalityType
<1>6. Seen \cap due = {}
  BY <1>1, <1>3 DEF Seen
<1>7. IsFiniteSet(Seen \cup due) /\ Cardinality(Seen \cup due) = seen
  <2>1. Cardinality(Seen \cap due) = 0
    BY <1>6, FS_EmptySet
  <2>2. IsFiniteSet(Seen) /\ IsFiniteSet(due)
    BY <1>5, VouchersFinite
  <2>3. /\ IsFiniteSet(Seen \cup due)
        /\ Cardinality(Seen \cup due)
            = Cardinality(Seen) + Cardinality(due) - Cardinality(Seen \cap due)
    BY <2>2, FS_Union, Zenon
  <2> QED
    BY <1>5, <2>1, <2>3, VouchersFinite
<1>8. Seen \cup due \in SUBSET vouchers
  BY DEF Seen
<1>9. seen <= vouchers_count /\ seen \in Nat /\ vouchers_count \in Nat
  BY <1>1, <1>5, <1>7, <1>8, VouchersFinite, FS_Subset
<1>10. CASE done
  <2>1. Seen \cup due = vouchers
    BY <1>1, <1>7, <1>8, <1>10, VouchersFinite, FS_Subset
  <2>2. \A u \in vouchers : voucher_drop'[u] = drop_idx'
    BY <1>1, <1>3, <1>10, <2>1 DEF Seen
  <2>3. drop_idx' \in Nat
    BY <1>1, <1>3
  <2>4. Seen' = {}
    BY <1>3, <2>2, <2>3 DEF Seen
  <2>5. seen_vouchers' = 0 /\ Cardinality(Seen') = 0
    BY <1>3, <1>10, <2>4, FS_EmptySet
  <2> QED
    BY <1>1, <1>3, <1>4, <1>10, <2>2, <2>5 DEF DropsInStep
<1>11. CASE ~done
  <2>1. Seen' = Seen \cup due
    BY <1>1, <1>3, <1>11 DEF Seen
  <2>2. \A u \in vouchers : voucher_drop'[u] \in {drop_idx', drop_idx' + 1}
    BY <1>1, <1>3, <1>11
  <2>3. seen_vouchers' = seen /\ seen < vouchers_count
    BY <1>3, <1>9, <1>11
  <2> QED
    BY <1>1, <1>3, <1>4, <1>7, <1>11, <2>1, <2>2, <2>3 DEF DropsInStep
<1> QED
  BY <1>10, <1>11

\* Every step keeps the drops in step.
LEMMA DropsStep == DropsInv /\ [Next]_vars => DropsInv'
<1> SUFFICES ASSUME DropsInv, [Next]_vars PROVE DropsInStep'
  BY TypeStep DEF DropsInv
<1>1. ASSUME NEW u \in Users, NEW amount \in Amounts, process_deposit(u, amount)
      PROVE  DropsInStep'
  BY <1>1, DropsDeposit
<1>2. ASSUME NEW due \in SUBSET vouchers, process_distribute(due) PROVE DropsInStep'
  BY <1>2, DropsDistribute
<1>3. CASE UNCHANGED <<vouchers, vouchers_count, drops, distributing, seen_vouchers>>
  BY <1>3, DropsUnchanged DEF DropsInv
<1>4. ASSUME NEW u \in Users, NEW amount \in Amounts,
             NEW voucher \in named_vouchers(u), process_withdraw(u, voucher, amount)
      PROVE  DropsInStep'
  BY <1>3, <1>4 DEF process_withdraw, distribution, drops
<1>W. ASSUME NEW u \in Mixers, NEW amount \in Amounts, withdraw_elsewhere(u, amount)
      PROVE  DropsInStep'
  BY <1>3, <1>W DEF withdraw_elsewhere, distribution, drops
<1>5. ASSUME NEW u \in Users, process_claim(u) PROVE DropsInStep'
  BY <1>3, <1>5 DEF process_claim, distribution, stakes, drops
<1>6. CASE process_sync_weight_record
  BY <1>3, <1>6 DEF process_sync_weight_record, distribution, stakes, drops
<1>7. CASE process_initialize \/ process_migrate
  BY <1>3, <1>7 DEF process_initialize, process_migrate, distribution, stakes, drops
<1>8. ASSUME NEW amount \in Receipts, Receive(amount) PROVE DropsInStep'
  BY <1>3, <1>8 DEF Receive, distribution, stakes, drops
<1>9. ASSUME NEW u \in Users, NEW amount \in Amounts, TransferTokens(u, amount)
      PROVE  DropsInStep'
  BY <1>3, <1>9 DEF TransferTokens, distribution, stakes, drops
<1>10. ASSUME NEW u \in Voters, Vote(u) \/ Relinquish(u) PROVE DropsInStep'
  BY <1>3, <1>10 DEF Vote, Relinquish, distribution, stakes, drops
<1>11. CASE UNCHANGED vars
  BY <1>3, <1>11 DEF vars, distribution, stakes, drops
<1> QED
  BY <1>1, <1>2, <1>4, <1>W, <1>5, <1>6, <1>7, <1>8, <1>9, <1>10, <1>11 DEF Next

\* There are no vouchers to begin with.
LEMMA DropsInit == Init => DropsInv
<1> SUFFICES ASSUME Init PROVE DropsInStep
  BY TypeInit DEF DropsInv
<1>1. Seen = {} /\ vouchers = {}
  BY DEF Init, Seen
<1> QED
  BY <1>1, FS_EmptySet DEF Init, DropsInStep

\* Nobody is paid twice in a drop, and a distribution ends when everybody has
\* been paid, however the vouchers are spread over transactions.
THEOREM DropsStayInStep == Spec => []DropsInStep
<1>1. DropsInv => DropsInStep
  BY DEF DropsInv
<1> QED
  BY <1>1, DropsInit, DropsStep, PTL DEF Spec

-----------------------------------------------------------------------------
(* Stakes and votes.  What ties them together is written for each voucher,  *)
(* or user, that has kept to its own state.                                 *)

StakeInv == TypeOK /\ StakeBacked /\ VotesBacked

\* The sum over the users, when one value changes.
LEMMA UsersTotalUpdate ==
    ASSUME NEW f \in [Users -> Nat], NEW h \in [Users -> Nat], NEW u \in Users,
           \A y \in Users \ {u} : h[y] = f[y]
    PROVE  Total(h, Users) = Total(f, Users) - f[u] + h[u]
BY ConstantsAssumption, TotalUpdate

\* A deposit.
LEMMA StakeDeposit ==
    ASSUME StakeInv, NEW u \in Users, NEW amount \in Amounts, process_deposit(u, amount)
    PROVE  StakeBacked' /\ VotesBacked'
<1>1. amount \in Nat /\ balance \in [Users -> Nat] /\ tokens_held \in Nat /\ wallet \in Nat
      /\ cast \in [Users -> Nat] /\ weight_record \in [Users -> Nat]
  BY ConstantsAssumption DEF StakeInv, TypeOK
<1>2. /\ balance' = [balance EXCEPT ![u] = balance[u] + amount]
      /\ tokens_held' = tokens_held + amount
      /\ wallet' = wallet + amount
      /\ vouchers' = vouchers \cup {u}
      /\ UNCHANGED <<cast, weight_record, mixed>>
  BY DEF process_deposit, add_to_stake
<1>3. balance' \in [Users -> Nat] /\ \A y \in Users \ {u} : balance'[y] = balance[y]
  BY <1>1, <1>2
<1>4. Total(balance', Users) = Total(balance, Users) - balance[u] + balance'[u]
  BY <1>1, <1>3, UsersTotalUpdate
<1>5. Total(balance, Users) \in Nat /\ balance[u] \in Nat /\ balance'[u] = balance[u] + amount
  BY <1>1, <1>2, ConstantsAssumption, TotalType
<1>6. StakeBacked'
  BY <1>1, <1>2, <1>3, <1>4, <1>5 DEF StakeInv, StakeBacked, Unmixed
<1>7. VotesBacked'
  BY <1>1, <1>2 DEF StakeInv, VotesBacked
<1> QED
  BY <1>6, <1>7

\* A withdrawal: it is not made by a user whose votes count, and lowers the
\* weight on record.
LEMMA StakeWithdraw ==
    ASSUME StakeInv, NEW u \in Users, NEW amount \in Amounts,
           NEW voucher \in named_vouchers(u), process_withdraw(u, voucher, amount)
    PROVE  StakeBacked' /\ VotesBacked'
<1>1. amount \in Nat /\ balance \in [Users -> Nat] /\ tokens_held \in Nat /\ wallet \in Nat
      /\ cast \in [Users -> Nat] /\ weight_record \in [Users -> Nat]
  BY ConstantsAssumption DEF StakeInv, TypeOK
<1>2. /\ voucher.balance >= amount /\ wallet >= amount /\ tokens_held >= amount
      /\ balance' = IF voucher.own THEN [balance EXCEPT ![u] = balance[u] - amount] ELSE balance
      /\ tokens_held' = tokens_held - amount
      /\ wallet' = wallet - amount
      /\ cast[u] = 0 /\ cast' = cast
      /\ weight_record' = [weight_record EXCEPT ![u] = voucher.balance - amount]
      /\ vouchers' = vouchers
      /\ mixed' = IF voucher.own THEN mixed ELSE mixed \cup {u}
  BY DEF process_withdraw, stake_covers, no_unrelinquished_votes, update_voter_weight,
         note_voucher
<1>3. tokens_held' <= wallet'
  BY <1>1, <1>2 DEF StakeInv, StakeBacked
<1>4. CASE voucher.own
  <2>1. voucher.balance = balance[u] /\ u \in vouchers
    BY <1>4, NamedVoucher DEF StakeInv
  <2>2. /\ balance' = [balance EXCEPT ![u] = balance[u] - amount] /\ mixed' = mixed
        /\ weight_record' = [weight_record EXCEPT ![u] = balance[u] - amount]
    BY <1>2, <1>4, <2>1
  <2>3. balance' \in [Users -> Nat] /\ \A y \in Users \ {u} : balance'[y] = balance[y]
    BY <1>1, <1>2, <2>1, <2>2
  <2>4. Total(balance', Users) = Total(balance, Users) - balance[u] + balance'[u]
    BY <1>1, <2>3, UsersTotalUpdate
  <2>5. Total(balance, Users) \in Nat /\ balance[u] \in Nat /\ balance'[u] = balance[u] - amount
    BY <1>1, <2>2, ConstantsAssumption, TotalType
  <2>6. StakeBacked'
    BY <1>1, <1>2, <1>3, <2>1, <2>2, <2>3, <2>4, <2>5 DEF StakeInv, StakeBacked, Unmixed
  <2>7. VotesBacked'
    <3> SUFFICES ASSUME NEW y \in Users \ ({Owner} \cup mixed)
                 PROVE  cast'[y] <= balance'[y] /\ weight_record'[y] <= balance'[y]
      BY <2>2 DEF VotesBacked
    <3>1. CASE y = u
      BY <1>1, <1>2, <2>1, <2>2, <2>3, <2>5, <3>1
    <3>2. CASE y # u
      BY <1>1, <1>2, <2>2, <2>3, <3>2 DEF StakeInv, VotesBacked
    <3> QED
      BY <3>1, <3>2
  <2> QED
    BY <2>6, <2>7
<1>5. CASE ~voucher.own
  <2>1. balance' = balance /\ mixed' = mixed \cup {u}
    BY <1>2, <1>5
  <2>2. StakeBacked'
    BY <1>2, <1>3, <2>1 DEF StakeInv, StakeBacked, Unmixed
  <2>3. VotesBacked'
    BY <1>1, <1>2, <2>1 DEF StakeInv, VotesBacked
  <2> QED
    BY <2>2, <2>3
<1> QED
  BY <1>4, <1>5

\* A withdrawal through another state takes from a stake only.
LEMMA StakeElsewhere ==
    ASSUME StakeInv, NEW u \in Mixers, NEW amount \in Amounts, withdraw_elsewhere(u, amount)
    PROVE  StakeBacked' /\ VotesBacked'
<1>1. /\ u \in vouchers /\ vouchers' = vouchers /\ mixed' = mixed \cup {u}
      /\ balance' = [balance EXCEPT ![u] = balance[u] - amount]
      /\ UNCHANGED <<tokens_held, wallet, cast, weight_record>>
  BY DEF withdraw_elsewhere, tokens, records
<1>2. balance \in [Users -> Nat] /\ u \in Users
  BY ConstantsAssumption DEF StakeInv, TypeOK
<1>3. \A y \in Users \ {u} : balance'[y] = balance[y]
  BY <1>1, <1>2
<1>4. StakeBacked'
  BY <1>1, <1>2, <1>3 DEF StakeInv, StakeBacked, Unmixed
<1>5. VotesBacked'
  BY <1>1, <1>2, <1>3 DEF StakeInv, VotesBacked
<1> QED
  BY <1>4, <1>5

\* Every step keeps the stakes and the votes backed.
LEMMA StakeStep == StakeInv /\ [Next]_vars => StakeInv'
<1> SUFFICES ASSUME StakeInv, [Next]_vars PROVE StakeBacked' /\ VotesBacked'
  BY TypeStep DEF StakeInv
<1>1. ASSUME NEW u \in Users, NEW amount \in Amounts, process_deposit(u, amount)
      PROVE  StakeBacked' /\ VotesBacked'
  BY <1>1, StakeDeposit
<1>2. ASSUME NEW u \in Users, NEW amount \in Amounts,
             NEW voucher \in named_vouchers(u), process_withdraw(u, voucher, amount)
      PROVE  StakeBacked' /\ VotesBacked'
  BY <1>2, StakeWithdraw
<1>W. ASSUME NEW u \in Mixers, NEW amount \in Amounts, withdraw_elsewhere(u, amount)
      PROVE  StakeBacked' /\ VotesBacked'
  BY <1>W, StakeElsewhere
<1>3. UNCHANGED <<stakes, wallet>> /\ mixed \subseteq mixed' => StakeBacked'
  BY DEF StakeInv, StakeBacked, Unmixed, stakes
<1>4. UNCHANGED <<balance, cast, weight_record, mixed>> => VotesBacked'
  BY DEF StakeInv, VotesBacked
<1>5. ASSUME NEW due \in SUBSET vouchers, process_distribute(due)
      PROVE  StakeBacked' /\ VotesBacked'
  BY <1>3, <1>4, <1>5 DEF process_distribute, stakes, tokens, records
<1>6. ASSUME NEW u \in Users, process_claim(u) PROVE StakeBacked' /\ VotesBacked'
  BY <1>3, <1>4, <1>6 DEF process_claim, stakes, tokens, records
<1>7. CASE process_sync_weight_record
  <2>1. UNCHANGED <<balance, cast, wallet, stakes>>
    BY <1>7 DEF process_sync_weight_record, stakes, tokens
  <2>2. ASSUME sync_owner_record PROVE StakeBacked' /\ VotesBacked'
    <3>1. weight_record' = [weight_record EXCEPT ![Owner] = user_tokens[Owner]] /\ mixed' = mixed
      BY <2>2 DEF sync_owner_record, update_voter_weight
    <3>2. VotesBacked'
      BY <2>1, <3>1 DEF StakeInv, VotesBacked, TypeOK
    <3> QED
      BY <1>3, <2>1, <3>1, <3>2
  <2>3. ASSUME NEW u \in Voters, NEW voucher \in named_vouchers(u),
               sync_user_record(u, voucher)
        PROVE  StakeBacked' /\ VotesBacked'
    <3>1. /\ weight_record' = [weight_record EXCEPT ![u] = voucher.balance]
          /\ mixed' = IF voucher.own THEN mixed ELSE mixed \cup {u}
      BY <2>3 DEF sync_user_record, update_voter_weight, note_voucher
    <3>2. u \in Users /\ (voucher.own => voucher.balance = balance[u])
      BY ConstantsAssumption, NamedVoucher DEF StakeInv
    <3>3. VotesBacked'
      BY <2>1, <3>1, <3>2 DEF StakeInv, VotesBacked, TypeOK
    <3>4. mixed \subseteq mixed'
      BY <3>1
    <3> QED
      BY <1>3, <2>1, <3>3, <3>4
  <2> QED
    BY <1>7, <2>2, <2>3 DEF process_sync_weight_record
<1>8. CASE process_initialize \/ process_migrate
  BY <1>3, <1>4, <1>8 DEF process_initialize, process_migrate, stakes, tokens, records
<1>9. ASSUME NEW amount \in Receipts, Receive(amount) PROVE StakeBacked' /\ VotesBacked'
  BY <1>3, <1>4, <1>9 DEF Receive, stakes, tokens, records
<1>10. ASSUME NEW u \in Users, NEW amount \in Amounts, TransferTokens(u, amount)
       PROVE  StakeBacked' /\ VotesBacked'
  <2>1. VotesBacked'
    BY <1>4, <1>10 DEF TransferTokens, stakes, records
  <2>2. amount \in Nat /\ wallet \in Nat /\ tokens_held \in Nat
    BY ConstantsAssumption DEF StakeInv, TypeOK
  <2>3. UNCHANGED <<stakes, mixed>> /\ wallet' \in {wallet, wallet + amount}
    BY <1>10 DEF TransferTokens
  <2>4. tokens_held <= wallet'
    BY <2>2, <2>3 DEF StakeInv, StakeBacked
  <2>5. StakeBacked'
    BY <2>3, <2>4 DEF StakeInv, StakeBacked, Unmixed, stakes
  <2> QED
    BY <2>1, <2>5
<1>11. ASSUME NEW u \in Voters, Vote(u) \/ Relinquish(u) PROVE StakeBacked' /\ VotesBacked'
  <2>1. UNCHANGED <<stakes, wallet, balance, weight_record, mixed>> /\ u \in Users
    BY <1>11, ConstantsAssumption DEF Vote, Relinquish, stakes, tokens, records
  <2>2. cast' = [cast EXCEPT ![u] = weight_record[u]] \/ cast' = [cast EXCEPT ![u] = 0]
    BY <1>11 DEF Vote, Relinquish
  <2>3. VotesBacked'
    BY <2>1, <2>2 DEF StakeInv, VotesBacked, TypeOK
  <2> QED
    BY <1>3, <2>1, <2>3
<1>12. CASE UNCHANGED vars
  BY <1>3, <1>4, <1>12 DEF vars, stakes, tokens, records
<1> QED
  BY <1>1, <1>2, <1>W, <1>5, <1>6, <1>7, <1>8, <1>9, <1>10, <1>11, <1>12 DEF Next

\* Nothing is in stake to begin with.
LEMMA StakeInit == Init => StakeInv
<1> SUFFICES ASSUME Init PROVE StakeBacked /\ VotesBacked
  BY TypeInit DEF StakeInv
<1>1. balance \in [Users -> Nat] /\ \A u \in Users : balance[u] = 0
  BY DEF Init
<1>2. Total(balance, Users) = 0
  BY <1>1, ConstantsAssumption, TotalZero
<1> QED
  BY <1>1, <1>2 DEF Init, StakeBacked, VotesBacked

\* The tokens in stake are in the wallet, and are the sum of the stakes as long
\* as withdraw is given each voucher with the state that made it.
THEOREM StakesAlwaysBacked == Spec => []StakeBacked
<1>1. StakeInv => StakeBacked
  BY DEF StakeInv
<1> QED
  BY <1>1, StakeInit, StakeStep, PTL DEF Spec

\* Votes that count, and weights on record, are backed by tokens in stake, for
\* every user whose vouchers withdraw and sync were given with their own states,
\* whatever they were given for others.
THEOREM VotesAlwaysBacked == Spec => []VotesBacked
<1>1. StakeInv => VotesBacked
  BY DEF StakeInv
<1> QED
  BY <1>1, StakeInit, StakeStep, PTL DEF Spec

\* A step that moves a stake is taken between distributions, or through another
\* state.
LEMMA FrozenStep == TypeOK /\ [Next]_vars => [StakesUnmoved]_vars
<1> SUFFICES ASSUME TypeOK, Next, distributing PROVE StakesUnmoved
  BY DEF StakesUnmoved
<1>1. balance \in [Users -> Nat]
  BY DEF TypeOK
<1>2. CASE UNCHANGED stakes
  BY <1>1, <1>2 DEF StakesUnmoved, stakes
<1>3. ASSUME NEW u \in Users, NEW amount \in Amounts,
             process_deposit(u, amount)
      PROVE  FALSE
  BY <1>3 DEF process_deposit, available
<1>4. ASSUME NEW u \in Users, NEW amount \in Amounts,
             NEW voucher \in named_vouchers(u), process_withdraw(u, voucher, amount)
      PROVE  FALSE
  BY <1>4 DEF process_withdraw, available
<1>5. ASSUME NEW u \in Mixers, NEW amount \in Amounts, withdraw_elsewhere(u, amount)
      PROVE  StakesUnmoved
  <2>1. amount \in Nat /\ u \in Users
    BY ConstantsAssumption
  <2>2. /\ UNCHANGED <<vouchers, vouchers_count, tokens_held>>
        /\ u \in mixed' /\ balance[u] >= amount
        /\ balance' = [balance EXCEPT ![u] = balance[u] - amount]
    BY <1>5 DEF withdraw_elsewhere
  <2> QED
    BY <1>1, <2>1, <2>2 DEF StakesUnmoved
<1>6. ASSUME NEW due \in SUBSET vouchers, process_distribute(due) PROVE UNCHANGED stakes
  BY <1>6 DEF process_distribute
<1>7. ASSUME NEW u \in Users, process_claim(u) PROVE UNCHANGED stakes
  BY <1>7 DEF process_claim
<1>8. ASSUME process_sync_weight_record \/ process_initialize \/ process_migrate
      PROVE  UNCHANGED stakes
  BY <1>8 DEF process_sync_weight_record, process_initialize, process_migrate
<1>9. ASSUME NEW amount \in Receipts, Receive(amount) PROVE UNCHANGED stakes
  BY <1>9 DEF Receive
<1>10. ASSUME NEW u \in Users, NEW amount \in Amounts, TransferTokens(u, amount)
      PROVE  UNCHANGED stakes
  BY <1>10 DEF TransferTokens
<1>11. ASSUME NEW u \in Voters, Vote(u) \/ Relinquish(u) PROVE UNCHANGED stakes
  BY <1>11 DEF Vote, Relinquish
<1> QED
  BY <1>2, <1>3, <1>4, <1>5, <1>6, <1>7, <1>8, <1>9, <1>10, <1>11 DEF Next

\* During a distribution neither the total nor the vouchers change, no stake
\* grows, and none shrinks but through a withdrawal that names another state.
THEOREM StakesStayFrozen == Spec => StakesFrozen
BY TypeCorrect, FrozenStep, PTL DEF Spec, StakesFrozen

-----------------------------------------------------------------------------
(* The largest weight.  It is written with every change of tokens_held and  *)
(* never without the tokens then in stake.                                  *)

MaxCovers == tokens_held <= max_record

MaxInv == StakeInv /\ MaxCovers

\* What is added to does not become smaller.
LEMMA SumAtLeast == ASSUME NEW a \in Nat, NEW b \in Nat PROVE a <= a + b
OBVIOUS

\* Every step keeps the largest weight above the tokens in stake.
LEMMA MaxStep == MaxInv /\ [Next]_vars => MaxInv'
<1> SUFFICES ASSUME MaxInv, [Next]_vars PROVE MaxCovers'
  BY StakeStep DEF MaxInv
<1>1. tokens_held' \in Nat /\ user_tokens[Owner] \in Nat
  BY ConstantsAssumption, TypeStep DEF MaxInv, StakeInv, TypeOK
<1>2. ASSUME update_max_voter_weight PROVE MaxCovers'
  <2>1. max_record' = tokens_held' + user_tokens[Owner]
    BY <1>2 DEF update_max_voter_weight
  <2>2. tokens_held' <= tokens_held' + user_tokens[Owner]
    BY <1>1, SumAtLeast
  <2> QED
    BY <2>1, <2>2 DEF MaxCovers
<1>3. UNCHANGED <<stakes, records>> => MaxCovers'
  BY DEF MaxInv, MaxCovers, stakes, records
<1>4. ASSUME NEW u \in Users, NEW amount \in Amounts, process_deposit(u, amount)
      PROVE  MaxCovers'
  BY <1>2, <1>4 DEF process_deposit
<1>W. ASSUME NEW u \in Users, NEW amount \in Amounts,
             NEW voucher \in named_vouchers(u), process_withdraw(u, voucher, amount)
      PROVE  MaxCovers'
  BY <1>2, <1>W DEF process_withdraw
<1>E. ASSUME NEW u \in Mixers, NEW amount \in Amounts, withdraw_elsewhere(u, amount)
      PROVE  MaxCovers'
  BY <1>E DEF withdraw_elsewhere, records, MaxInv, MaxCovers
<1>5. CASE process_sync_weight_record
  BY <1>2, <1>5 DEF process_sync_weight_record
<1>6. ASSUME NEW due \in SUBSET vouchers, process_distribute(due) PROVE MaxCovers'
  BY <1>3, <1>6 DEF process_distribute
<1>7. ASSUME NEW u \in Users, process_claim(u) PROVE MaxCovers'
  BY <1>3, <1>7 DEF process_claim
<1>8. CASE process_initialize \/ process_migrate
  BY <1>3, <1>8 DEF process_initialize, process_migrate
<1>9. ASSUME NEW amount \in Receipts, Receive(amount) PROVE MaxCovers'
  BY <1>3, <1>9 DEF Receive
<1>10. ASSUME NEW u \in Users, NEW amount \in Amounts, TransferTokens(u, amount)
       PROVE  MaxCovers'
  BY <1>3, <1>10 DEF TransferTokens
<1>11. ASSUME NEW u \in Voters, Vote(u) \/ Relinquish(u) PROVE MaxCovers'
  BY <1>3, <1>11 DEF Vote, Relinquish
<1>12. CASE UNCHANGED vars
  BY <1>3, <1>12 DEF vars
<1> QED
  BY <1>4, <1>W, <1>E, <1>5, <1>6, <1>7, <1>8, <1>9, <1>10, <1>11, <1>12 DEF Next

\* The weights of all users together stay within the largest weight, as long as
\* withdraw and sync are given each voucher with the state that made it.
THEOREM WeightsStayWithinMax == Spec => []WeightsWithinMax
<1>1. Init => MaxInv
  BY StakeInit DEF Init, MaxInv, MaxCovers
<1>2. ASSUME MaxInv PROVE WeightsWithinMax
  <2> SUFFICES ASSUME Unmixed PROVE Total(weight_record, Users \ {Owner}) <= max_record
    BY DEF WeightsWithinMax
  <2> DEFINE S == Users \ {Owner}
             weights == [u \in S |-> weight_record[u]]
             held == [u \in S |-> balance[u]]
  <2>1. /\ weight_record \in [Users -> Nat] /\ balance \in [Users -> Nat]
        /\ \A u \in S : weight_record[u] <= balance[u]
        /\ tokens_held = Total(balance, Users) /\ tokens_held <= max_record
        /\ max_record \in Nat
    BY <1>2 DEF MaxInv, StakeInv, TypeOK, VotesBacked, StakeBacked, MaxCovers, Unmixed
  <2>2. S \in SUBSET Users /\ IsFiniteSet(S) /\ IsFiniteSet(Users)
        /\ {Owner} \in SUBSET Users
    BY ConstantsAssumption, FS_Subset
  <2>3. weights \in [S -> Nat] /\ held \in [S -> Nat] /\ \A u \in S : weights[u] <= held[u]
    BY <2>1
  <2>4. Total(weights, S) = Total(weight_record, S) /\ Total(held, S) = Total(balance, S)
    BY DEF Total, Units
  <2> HIDE DEF weights, held
  <2>5. Total(weights, S) <= Total(held, S)
    BY <2>2, <2>3, TotalMonotone
  <2>6. Total(balance, Users) = Total(balance, S) + Total(balance, {Owner})
    BY <2>1, <2>2, TotalParts
  <2>7. Total(balance, S) \in Nat /\ Total(balance, {Owner}) \in Nat
        /\ Total(weights, S) \in Nat
    BY <2>1, <2>2, <2>3, TotalPart, TotalType
  <2> QED
    BY <2>1, <2>4, <2>5, <2>6, <2>7
<1> QED
  BY <1>1, <1>2, MaxStep, PTL DEF Spec

-----------------------------------------------------------------------------
(* Lamports.                                                                *)

LamportsInv == TypeOK /\ LamportsConserved

\* The sums of what vouchers hold and of what has been claimed.
LEMMA LamportsTotals ==
    ASSUME TypeOK
    PROVE  Total(voucher_lamports, Users) \in Nat /\ Total(user_lamports, Users) \in Nat
BY ConstantsAssumption, TotalType DEF TypeOK

\* A distribute transaction moves lamports to its vouchers, and the fees out.
LEMMA LamportsDistribute ==
    ASSUME LamportsInv, NEW due \in SUBSET vouchers, process_distribute(due)
    PROVE  LamportsConserved'
<1> DEFINE amount == IF distributing THEN distribute_amount ELSE start_split.distribute_amount
           fee    == IF distributing THEN 0
                     ELSE start_split.owner_comission + start_split.host_comission
           pay    == [u \in due |-> share(balance[u], tokens_held, amount)]
<1>1. pay \in [due -> Nat] /\ fee \in Nat
  <2>1. distributing \/ start_ok
    BY DEF process_distribute
  <2>2. amount \in Nat /\ fee \in Nat
    BY <2>1, StartType DEF LamportsInv, TypeOK
  <2>3. \A u \in due : balance[u] \in Nat /\ owned_percentage(balance[u], tokens_held) # None
    BY DEF process_distribute, distribute_to_ok, LamportsInv, TypeOK
  <2>4. tokens_held \in Nat
    BY DEF LamportsInv, TypeOK
  <2> HIDE DEF amount, fee
  <2>5. \A u \in due : share(balance[u], tokens_held, amount) \in Nat
    BY <2>2, <2>3, <2>4, ShareType
  <2> QED
    BY <2>2, <2>5
<1>2. /\ lamports' = lamports - fee - Total(pay, due)
      /\ fees' = fees + fee
      /\ voucher_lamports' = [u \in Users |->
                IF u \in due THEN voucher_lamports[u] + pay[u] ELSE voucher_lamports[u]]
      /\ UNCHANGED <<user_lamports, received>>
  BY DEF process_distribute
<1> HIDE DEF fee, pay
<1>3. due \subseteq Users /\ IsFiniteSet(due) /\ voucher_lamports \in [Users -> Nat]
      /\ voucher_lamports' \in [Users -> Nat]
  BY ConstantsAssumption, FS_Subset, DistributePays DEF LamportsInv, TypeOK
<1>4. \A u \in Users : voucher_lamports'[u] =
        IF u \in due THEN voucher_lamports[u] + pay[u] ELSE voucher_lamports[u]
  BY <1>2
<1>5. Total(voucher_lamports', Users) = Total(voucher_lamports, Users) + Total(pay, due)
  BY <1>1, <1>3, <1>4, ConstantsAssumption, TotalRaise
<1>6. Total(pay, due) \in Nat
  BY <1>1, <1>3, TotalType
<1> QED
  BY <1>1, <1>2, <1>5, <1>6, LamportsTotals DEF LamportsInv, LamportsConserved, TypeOK

\* A claim moves the lamports of one voucher to its user.
LEMMA LamportsClaim ==
    ASSUME LamportsInv, NEW u \in Users, process_claim(u)
    PROVE  LamportsConserved'
<1>1. /\ user_lamports' = [user_lamports EXCEPT ![u] = user_lamports[u] + voucher_lamports[u]]
      /\ voucher_lamports' = [voucher_lamports EXCEPT ![u] = 0]
      /\ UNCHANGED <<lamports, fees, received>>
  BY DEF process_claim
<1>2. user_lamports \in [Users -> Nat] /\ voucher_lamports \in [Users -> Nat]
  BY DEF LamportsInv, TypeOK
<1>3. /\ user_lamports' \in [Users -> Nat] /\ voucher_lamports' \in [Users -> Nat]
      /\ \A y \in Users \ {u} : user_lamports'[y] = user_lamports[y]
      /\ \A y \in Users \ {u} : voucher_lamports'[y] = voucher_lamports[y]
      /\ user_lamports'[u] = user_lamports[u] + voucher_lamports[u]
      /\ voucher_lamports'[u] = 0
      /\ user_lamports[u] \in Nat /\ voucher_lamports[u] \in Nat
  BY <1>1, <1>2
<1>4. Total(user_lamports', Users)
        = Total(user_lamports, Users) - user_lamports[u] + user_lamports'[u]
  BY <1>2, <1>3, UsersTotalUpdate
<1>5. Total(voucher_lamports', Users)
        = Total(voucher_lamports, Users) - voucher_lamports[u] + voucher_lamports'[u]
  BY <1>2, <1>3, UsersTotalUpdate
<1> QED
  BY <1>1, <1>3, <1>4, <1>5, LamportsTotals DEF LamportsInv, LamportsConserved, TypeOK

\* Every step accounts for the lamports.
LEMMA LamportsStep == LamportsInv /\ [Next]_vars => LamportsInv'
<1> SUFFICES ASSUME LamportsInv, [Next]_vars PROVE LamportsConserved'
  BY TypeStep DEF LamportsInv
<1>1. UNCHANGED <<payments, received>> => LamportsConserved'
  BY DEF LamportsInv, LamportsConserved, payments
<1>2. ASSUME NEW due \in SUBSET vouchers, process_distribute(due) PROVE LamportsConserved'
  BY <1>2, LamportsDistribute
<1>3. ASSUME NEW u \in Users, process_claim(u) PROVE LamportsConserved'
  BY <1>3, LamportsClaim
<1>4. ASSUME NEW amount \in Receipts, Receive(amount) PROVE LamportsConserved'
  <2>1. /\ received' = received + amount /\ lamports' = lamports + amount
        /\ UNCHANGED <<fees, voucher_lamports, user_lamports>>
    BY <1>4 DEF Receive
  <2>2. amount \in Nat
    BY ConstantsAssumption
  <2> QED
    BY <2>1, <2>2, LamportsTotals DEF LamportsInv, LamportsConserved, TypeOK
<1>5. ASSUME NEW u \in Users, NEW amount \in Amounts,
             process_deposit(u, amount) \/ TransferTokens(u, amount)
             \/ withdraw_elsewhere(u, amount)
      PROVE  LamportsConserved'
  BY <1>1, <1>5 DEF process_deposit, TransferTokens, withdraw_elsewhere
<1>W. ASSUME NEW u \in Users, NEW amount \in Amounts,
             NEW voucher \in named_vouchers(u), process_withdraw(u, voucher, amount)
      PROVE  LamportsConserved'
  BY <1>1, <1>W DEF process_withdraw
<1>6. CASE process_sync_weight_record
  BY <1>1, <1>6 DEF process_sync_weight_record
<1>7. CASE process_initialize \/ process_migrate
  BY <1>1, <1>7 DEF process_initialize, process_migrate
<1>8. ASSUME NEW u \in Voters, Vote(u) \/ Relinquish(u) PROVE LamportsConserved'
  BY <1>1, <1>8 DEF Vote, Relinquish
<1>9. CASE UNCHANGED vars
  BY <1>1, <1>9 DEF vars
<1> QED
  BY <1>2, <1>3, <1>4, <1>5, <1>W, <1>6, <1>7, <1>8, <1>9, ConstantsAssumption DEF Next

\* At first nothing has arrived.
LEMMA LamportsInit == Init => LamportsInv
<1> SUFFICES ASSUME Init PROVE LamportsInv
  OBVIOUS
<1>1. /\ voucher_lamports \in [Users -> Nat] /\ \A u \in Users : voucher_lamports[u] = 0
      /\ user_lamports \in [Users -> Nat] /\ \A u \in Users : user_lamports[u] = 0
  BY DEF Init
<1>2. Total(voucher_lamports, Users) = 0 /\ Total(user_lamports, Users) = 0
  BY <1>1, ConstantsAssumption, TotalZero
<1> QED
  BY <1>2, TypeInit DEF Init, LamportsInv, LamportsConserved

\* No lamport is made or lost: what distributions pay was received.
THEOREM LamportsStayConserved == Spec => []LamportsConserved
<1>1. LamportsInv => LamportsConserved
  BY DEF LamportsInv
<1> QED
  BY <1>1, LamportsInit, LamportsStep, PTL DEF Spec

-----------------------------------------------------------------------------
(* Royalty implements Drop.  What is shared out stays within what was ever  *)
(* received, Drop's stakes are the balances and its total is tokens_held.   *)

\* A distribution shares out no more than was ever received.
WithinReceived == received <= MaxReceived /\ distribute_amount <= MaxReceived

DropInv == DropsInv /\ StakeInv /\ LamportsInv /\ WithinReceived

\* What a distribution starts to share out.
LEMMA StartWithin ==
    ASSUME DropInv, start_ok
    PROVE  start_split.distribute_amount \in 0 .. MaxReceived
<1>1. /\ lamports \in Nat /\ fees \in Nat /\ received \in Nat
      /\ Total(voucher_lamports, Users) \in Nat /\ Total(user_lamports, Users) \in Nat
  BY LamportsTotals DEF DropInv, LamportsInv, TypeOK
<1>2. received = lamports + fees + Total(voucher_lamports, Users)
                   + Total(user_lamports, Users)
  BY DEF DropInv, LamportsInv, LamportsConserved
<1>3. received <= MaxReceived /\ MaxReceived \in Nat
  BY ConstantsAssumption DEF DropInv, WithinReceived
<1>4. lamports <= MaxReceived
  BY <1>1, <1>2, <1>3
<1>5. /\ start_split.distribute_amount =
           lamports - 2 - start_split.owner_comission - start_split.host_comission
      /\ start_split.distribute_amount \in Nat
      /\ start_split.owner_comission \in Nat /\ start_split.host_comission \in Nat
  BY <1>1, StartType DEF start_split, calculate_split
<1> QED
  BY <1>1, <1>3, <1>4, <1>5

\* Every step stays within what was received.
LEMMA WithinStep ==
    ASSUME DropInv, [Next]_vars
    PROVE  WithinReceived'
<1>1. /\ received <= MaxReceived /\ distribute_amount <= MaxReceived
      /\ MaxReceived \in Nat
  BY ConstantsAssumption DEF DropInv, WithinReceived
<1>2. ASSUME NEW due \in SUBSET vouchers, process_distribute(due) PROVE WithinReceived'
  <2>1. distribute_amount' \in {0, distribute_amount}
          \/ (start_ok /\ distribute_amount' \in {0, start_split.distribute_amount})
    BY <1>2, Zenon DEF process_distribute
  <2>2. received' = received
    BY <1>2 DEF process_distribute
  <2>3. start_ok => start_split.distribute_amount <= MaxReceived
    BY StartWithin
  <2>4. distribute_amount' <= MaxReceived
    BY <1>1, <2>1, <2>3
  <2> QED
    BY <1>1, <2>2, <2>4 DEF WithinReceived
<1>3. ASSUME NEW amount \in Receipts, Receive(amount) PROVE WithinReceived'
  BY <1>1, <1>3 DEF Receive, distribution, WithinReceived
<1>4. CASE UNCHANGED <<received, distribution>>
  BY <1>1, <1>4 DEF distribution, WithinReceived
<1>5. ASSUME NEW u \in Users, NEW amount \in Amounts,
             process_deposit(u, amount) \/ TransferTokens(u, amount)
             \/ withdraw_elsewhere(u, amount)
      PROVE  WithinReceived'
  BY <1>4, <1>5 DEF process_deposit, TransferTokens, withdraw_elsewhere
<1>W. ASSUME NEW u \in Users, NEW amount \in Amounts,
             NEW voucher \in named_vouchers(u), process_withdraw(u, voucher, amount)
      PROVE  WithinReceived'
  BY <1>4, <1>W DEF process_withdraw
<1>6. ASSUME NEW u \in Users, process_claim(u) \/ Vote(u) \/ Relinquish(u)
      PROVE  WithinReceived'
  BY <1>4, <1>6 DEF process_claim, Vote, Relinquish
<1>7. CASE process_sync_weight_record \/ process_initialize \/ process_migrate
  BY <1>4, <1>7 DEF process_sync_weight_record, process_initialize, process_migrate
<1>8. CASE UNCHANGED vars
  BY <1>4, <1>8 DEF vars
<1> QED
  BY <1>2, <1>3, <1>5, <1>W, <1>6, <1>7, <1>8, ConstantsAssumption DEF Next

\* Every instruction keeps the invariant.
LEMMA DropInvStep == DropInv /\ [Next]_vars => DropInv'
BY DropsStep, StakeStep, LamportsStep, WithinStep DEF DropInv

\* The initial state has it, and is an initial state of Drop.
LEMMA DropInvInit == Init => DropInv /\ Drops!Init
<1> SUFFICES ASSUME Init PROVE DropInv /\ Drops!Init
  OBVIOUS
<1>1. DropsInv /\ StakeInv /\ LamportsInv
  BY DropsInit, StakeInit, LamportsInit
<1>2. WithinReceived
  BY ConstantsAssumption DEF Init, WithinReceived
<1>3. [u \in Users |-> voucher_lamports[u] + user_lamports[u]] = [u \in Users |-> 0]
  BY DEF Init
<1> QED
  BY <1>1, <1>2, <1>3 DEF Init, DropInv, Drops!Init

\* A step that shows nothing of a drop.
LEMMA DropStutter ==
    ASSUME UNCHANGED <<stakes, distribution, drops, voucher_lamports, user_lamports>>
    PROVE  UNCHANGED Drops!drop
BY DEF stakes, distribution, drops, Drops!drop, Seen

\* A deposit, between drops, moves a stake.
LEMMA DropDeposit ==
    ASSUME DropInv, NEW u \in Users, NEW amount \in Amounts, process_deposit(u, amount)
    PROVE  balance' \in [Users -> Nat] /\ tokens_held' \in Nat => Drops!Move
<1>1. /\ ~distributing /\ UNCHANGED <<distributing, distribute_amount>>
      /\ UNCHANGED <<voucher_lamports, user_lamports>>
      /\ vouchers' = vouchers \cup {u}
  BY DEF process_deposit, available, distribution, payments
<1>2. vouchers \subseteq Users
  BY DEF DropInv, DropsInv, TypeOK
<1> QED
  BY <1>1, <1>2 DEF Drops!Move

\* So does a withdrawal.
LEMMA DropWithdraw ==
    ASSUME DropInv, NEW u \in Users, NEW amount \in Amounts,
           NEW voucher \in named_vouchers(u), process_withdraw(u, voucher, amount)
    PROVE  balance' \in [Users -> Nat] /\ tokens_held' \in Nat => Drops!Move
<1>1. /\ ~distributing /\ UNCHANGED <<distributing, distribute_amount>>
      /\ UNCHANGED <<voucher_lamports, user_lamports, vouchers>>
  BY DEF process_withdraw, available, distribution, payments
<1>2. vouchers \subseteq Users
  BY DEF DropInv, DropsInv, TypeOK
<1> QED
  BY <1>1, <1>2 DEF Drops!Move

\* A withdrawal through another state moves a stake between drops, and makes it
\* smaller during one.
LEMMA DropElsewhere ==
    ASSUME DropInv, NEW u \in Mixers, NEW amount \in Amounts, withdraw_elsewhere(u, amount)
    PROVE  balance' \in [Users -> Nat] => Drops!Move \/ Drops!Shrink
<1>1. /\ UNCHANGED <<distribution, vouchers, tokens_held, drops>>
      /\ UNCHANGED <<voucher_lamports, user_lamports>>
      /\ balance' = [balance EXCEPT ![u] = balance[u] - amount]
  BY DEF withdraw_elsewhere, payments
<1>2. vouchers \subseteq Users /\ tokens_held \in Nat /\ balance \in [Users -> Nat]
  BY DEF DropInv, DropsInv, TypeOK
<1>3. amount \in Nat /\ \A v \in Users : balance'[v] <= balance[v]
  BY <1>1, <1>2, ConstantsAssumption
<1>4. Seen' = Seen
  BY <1>1 DEF Seen, drops
<1>5. CASE distributing
  <2>1. vouchers \ Seen # {}
    <3>1. Cardinality(Seen) < Cardinality(vouchers) /\ Cardinality(vouchers) \in Nat
      BY <1>5, VouchersFinite DEF DropInv, DropsInv, DropsInStep
    <3>2. Seen \subseteq vouchers
      BY DEF Seen
    <3>3. Seen # vouchers
      BY <3>1
    <3> QED
      BY <3>2, <3>3
  <2> QED
    BY <1>1, <1>3, <1>4, <1>5, <2>1 DEF Drops!Shrink, distribution
<1>6. CASE ~distributing
  BY <1>1, <1>2, <1>6 DEF Drops!Move, distribution
<1> QED
  BY <1>5, <1>6

\* A claim takes what was earned from the voucher to the user.
LEMMA DropClaim ==
    ASSUME DropInv, NEW u \in Users, process_claim(u)
    PROVE  UNCHANGED Drops!drop
<1>1. /\ user_lamports' = [user_lamports EXCEPT ![u] = user_lamports[u] + voucher_lamports[u]]
      /\ voucher_lamports' = [voucher_lamports EXCEPT ![u] = 0]
      /\ UNCHANGED <<stakes, distribution, drops>>
  BY DEF process_claim
<1>2. user_lamports \in [Users -> Nat] /\ voucher_lamports \in [Users -> Nat]
  BY DEF DropInv, DropsInv, TypeOK
<1>3. \A y \in Users :
        voucher_lamports'[y] + user_lamports'[y] = voucher_lamports[y] + user_lamports[y]
  BY <1>1, <1>2
<1>4. [y \in Users |-> voucher_lamports[y] + user_lamports[y]]'
        = [y \in Users |-> voucher_lamports[y] + user_lamports[y]]
  BY <1>3
<1> QED
  BY <1>1, <1>4 DEF stakes, distribution, drops, Drops!drop, Seen

\* Who is seen once a distribute transaction is done, unless it ends the drop;
\* it does when nobody is left.
LEMMA DistributeSeen ==
    ASSUME DropInv, NEW due \in SUBSET vouchers, process_distribute(due)
    PROVE  /\ due \cap Seen = {}
           /\ distributing' => Seen' = Seen \cup due
           /\ distributing' <=> Seen \cup due # vouchers
           /\ ~distributing => Seen = {}
<1> USE DEF DropInv, DropsInv
<1>1. drop_idx \in Nat /\ voucher_drop \in [Users -> Nat] /\ vouchers \subseteq Users
  BY DEF TypeOK
<1>2. /\ \A u \in due : voucher_drop[u] = drop_idx
      /\ voucher_drop' = [u \in Users |->
                IF u \in due THEN voucher_drop[u] + 1 ELSE voucher_drop[u]]
      /\ vouchers' = vouchers /\ vouchers_count' = vouchers_count
  BY DEF process_distribute, distribute_to_ok, stakes
<1>3. due \cap Seen = {}
  BY <1>1, <1>2 DEF Seen
<1>4. distributing' => drop_idx' = drop_idx
  BY Zenon DEF process_distribute
<1>5. distributing' => Seen' = Seen \cup due
  BY <1>1, <1>2, <1>4 DEF Seen
<1>6. ~distributing => Seen = {}
  BY VouchersFinite, FS_EmptySet DEF DropsInStep
<1>7. distributing' <=> Seen \cup due # vouchers
  <2>1. Seen \cup due \in SUBSET vouchers
    BY DEF Seen
  <2>2. distributing' <=> Cardinality(Seen) + Cardinality(due) # vouchers_count
    <3>1. (IF distributing THEN seen_vouchers ELSE 0) = Cardinality(Seen)
      BY DEF DropsInStep
    <3> QED
      BY <3>1, Zenon DEF process_distribute
  <2>3. Cardinality(Seen \cup due) = Cardinality(Seen) + Cardinality(due)
    <3>1. IsFiniteSet(Seen) /\ IsFiniteSet(due)
      BY VouchersFinite, FS_Subset
    <3>2. Cardinality(Seen \cup due)
            = Cardinality(Seen) + Cardinality(due) - Cardinality(Seen \cap due)
      BY <3>1, FS_Union, Zenon
    <3>3. Cardinality(Seen \cap due) = 0
      BY <1>3, FS_EmptySet
    <3> QED
      BY <3>1, <3>2, <3>3, FS_CardinalityType
  <2>4. Seen \cup due = vouchers <=> Cardinality(Seen \cup due) = Cardinality(vouchers)
    BY <2>1, VouchersFinite, FS_Subset
  <2> QED
    BY <2>2, <2>3, <2>4 DEF DropsInStep
<1> QED
  BY <1>3, <1>5, <1>6, <1>7

\* A distribute transaction begins a drop or continues one, and gives the users
\* it names what their stakes are worth.
LEMMA DropGive ==
    ASSUME DropInv, NEW due \in SUBSET vouchers, process_distribute(due)
    PROVE  Drops!Begin \/ Drops!Continue
<1> DEFINE amount == IF distributing THEN distribute_amount ELSE start_split.distribute_amount
           from   == IF distributing THEN vouchers \ Seen ELSE vouchers
<1>2. /\ voucher_lamports' = [u \in Users |->
              IF u \in due
              THEN voucher_lamports[u] + [v \in due |-> share(balance[v], tokens_held, amount)][u]
              ELSE voucher_lamports[u]]
      /\ user_lamports' = user_lamports
      /\ distribute_amount' = IF distributing' THEN amount ELSE 0
      /\ UNCHANGED stakes
  BY Zenon DEF process_distribute
<1>3. distributing \/ start_ok
  BY DEF process_distribute
<1>4. amount \in 0 .. MaxReceived
  BY <1>3, StartWithin DEF DropInv, DropsInv, TypeOK, WithinReceived
<1> HIDE DEF amount
<1>5. due \in SUBSET from
  BY DistributeSeen
<1>6. (IF distributing' THEN vouchers' \ Seen' ELSE {}) = from \ due
  BY <1>2, DistributeSeen DEF stakes
<1>7. distributing' <=> from \ due # {}
  BY DistributeSeen DEF Seen
<1>8. [u \in Users |-> voucher_lamports[u] + user_lamports[u]]'
        = [u \in Users |->
             IF u \in due
             THEN [v \in Users |-> voucher_lamports[v] + user_lamports[v]][u]
                    + share(balance[u], tokens_held, amount)
             ELSE [v \in Users |-> voucher_lamports[v] + user_lamports[v]][u]]
  <2>1. \A u \in due : share(balance[u], tokens_held, amount) \in Nat
    <3>1. \A u \in due : balance[u] \in Nat /\ owned_percentage(balance[u], tokens_held) # None
      BY DEF process_distribute, distribute_to_ok, DropInv, DropsInv, TypeOK
    <3>2. amount \in Nat /\ tokens_held \in Nat
      BY <1>4, ConstantsAssumption DEF DropInv, DropsInv, TypeOK
    <3> QED
      BY <3>1, <3>2, ShareType
  <2>2. /\ \A u \in Users : voucher_lamports[u] \in Nat /\ user_lamports[u] \in Nat
    BY DEF DropInv, DropsInv, TypeOK
  <2>3. \A u \in due : (voucher_lamports[u] + share(balance[u], tokens_held, amount))
                         + user_lamports[u]
                     = (voucher_lamports[u] + user_lamports[u])
                         + share(balance[u], tokens_held, amount)
    BY <2>1, <2>2 DEF DropInv, DropsInv, TypeOK
  <2> QED
    BY <1>2, <2>3
<1>9. distribute_amount' = IF from \ due = {} THEN 0 ELSE amount
  BY <1>2, <1>7
<1>10. CASE distributing
  <2>1. amount = distribute_amount /\ from = vouchers \ Seen
    BY <1>10 DEF amount
  <2>2. vouchers \ Seen # {}
    BY <1>10, VouchersFinite DEF DropInv, DropsInv, DropsInStep, Seen
  <2> QED
    BY <1>2, <1>5, <1>6, <1>8, <1>9, <1>10, <2>1, <2>2
       DEF Drops!Continue, Drops!Give, stakes
<1>11. CASE ~distributing
  <2>1. from = vouchers
    BY <1>11
  <2> QED
    BY <1>2, <1>4, <1>5, <1>6, <1>8, <1>9, <1>11, <2>1 DEF Drops!Begin, Drops!Give, stakes
<1> QED
  BY <1>10, <1>11

\* Every instruction is a step of Drop or a stutter.
LEMMA DropNext == DropInv /\ [Next]_vars => [Drops!Next]_(Drops!drop)
<1> SUFFICES ASSUME DropInv, [Next]_vars PROVE Drops!Next \/ UNCHANGED Drops!drop
  OBVIOUS
<1>T. balance' \in [Users -> Nat] /\ tokens_held' \in Nat
  BY TypeStep DEF TypeOK, DropInv, DropsInv
<1>1. ASSUME NEW u \in Users, NEW amount \in Amounts, process_deposit(u, amount)
      PROVE  Drops!Next
  BY <1>T, <1>1, DropDeposit DEF Drops!Next
<1>W. ASSUME NEW u \in Users, NEW amount \in Amounts,
             NEW voucher \in named_vouchers(u), process_withdraw(u, voucher, amount)
      PROVE  Drops!Next
  BY <1>T, <1>W, DropWithdraw DEF Drops!Next
<1>E. ASSUME NEW u \in Mixers, NEW amount \in Amounts, withdraw_elsewhere(u, amount)
      PROVE  Drops!Next
  BY <1>T, <1>E, DropElsewhere DEF Drops!Next
<1>2. ASSUME NEW due \in SUBSET vouchers, process_distribute(due) PROVE Drops!Next
  BY <1>2, DropGive DEF Drops!Next
<1>3. ASSUME NEW u \in Users, process_claim(u) PROVE UNCHANGED Drops!drop
  BY <1>3, DropClaim
<1>4. CASE UNCHANGED <<stakes, distribution, drops, voucher_lamports, user_lamports>>
  BY <1>4, DropStutter
<1>5. CASE process_sync_weight_record \/ process_initialize \/ process_migrate
  BY <1>4, <1>5 DEF process_sync_weight_record, process_initialize, process_migrate, payments
<1>6. ASSUME NEW amount \in Receipts, Receive(amount) PROVE UNCHANGED Drops!drop
  BY DropStutter, <1>6 DEF Receive
<1>7. ASSUME NEW u \in Users, NEW amount \in Amounts, TransferTokens(u, amount)
      PROVE  UNCHANGED Drops!drop
  BY DropStutter, <1>7 DEF TransferTokens, payments
<1>8. ASSUME NEW u \in Voters, Vote(u) \/ Relinquish(u) PROVE UNCHANGED Drops!drop
  BY DropStutter, <1>8 DEF Vote, Relinquish, payments
<1>9. CASE UNCHANGED vars
  BY <1>4, <1>9 DEF vars, payments
<1> QED
  BY <1>1, <1>W, <1>E, <1>2, <1>3, <1>5, <1>6, <1>7, <1>8, <1>9 DEF Next

\* The counters over several transactions amount to one drop at a time: one
\* amount, by one total, of which everybody is given the share exactly once.
THEOREM DropsImplemented == Spec => ImplementsDrop
<1>1. Init => DropInv /\ Drops!Init
  BY DropInvInit
<1>2. DropInv /\ [Next]_vars => DropInv' /\ [Drops!Next]_(Drops!drop)
  BY DropInvStep, DropNext
<1> QED
  BY <1>1, <1>2, PTL DEF Spec, ImplementsDrop, Drops!Spec

-----------------------------------------------------------------------------
(* What rounding costs.  When a distribution starts, the shares of all the  *)
(* stakes exceed the amount by half a lamport each at most, and the state   *)
(* account keeps two lamports more than the amount; each transaction takes  *)
(* the same from what is to come and from the account.                      *)

RoundingInv == DropInv /\ RoundingBounded

\* A share exceeds its exact value by half a lamport at most.
LEMMA ShareBound ==
    ASSUME NEW stake \in Nat, NEW total \in Nat \ {0}, NEW amount \in Nat
    PROVE  /\ share(stake, total, amount) \in Nat
           /\ (2 * total) * share(stake, total, amount) <= (2 * amount) * stake + total
<1> DEFINE s == owned_percentage(stake, total)
<1>1. s \in Nat /\ s = checked_div(new(stake), new(total))
  BY NewNat, CheckedDivNat DEF owned_percentage
<1>2. share(stake, total, amount) = to_imprecise(checked_mul(s, new(amount)))
  <2> HIDE DEF s
  <2>1. checked_mul(new(amount), s) = checked_mul(s, new(amount))
    BY <1>1, MulExact
  <2> QED
    BY <2>1 DEF share, s
<1> HIDE DEF s
<1> QED
  BY <1>1, <1>2, ShareThenAmount

\* The shares of all that hold a voucher, of any amount.
LEMMA SharesTotal ==
    ASSUME TypeOK, StakeBacked, Unmixed, tokens_held > 0, NEW amount \in Nat
    PROVE  LET shares == [u \in vouchers |-> share(balance[u], tokens_held, amount)]
           IN  /\ shares \in [vouchers -> Nat]
               /\ 2 * (Total(shares, vouchers) - amount) <= Cardinality(vouchers)
<1> DEFINE shares == [u \in vouchers |-> share(balance[u], tokens_held, amount)]
           held == [u \in vouchers |-> balance[u]]
           n == Cardinality(vouchers)
<1>1. /\ IsFiniteSet(vouchers) /\ n \in Nat /\ vouchers \subseteq Users
      /\ held \in [vouchers -> Nat] /\ tokens_held \in Nat \ {0}
  BY VouchersFinite DEF TypeOK
<1>2. Total(held, vouchers) = tokens_held
  <2>1. Units(held, vouchers) = Units(balance, Users)
    BY <1>1 DEF Units, StakeBacked
  <2> QED
    BY <2>1 DEF Total, StakeBacked
<1>3. ASSUME NEW u \in vouchers
      PROVE  /\ shares[u] \in Nat
             /\ (2 * tokens_held) * shares[u] <= (2 * amount) * held[u] + tokens_held
  <2>1. balance[u] \in Nat /\ held[u] = balance[u]
    BY <1>1 DEF TypeOK
  <2>2. /\ share(balance[u], tokens_held, amount) \in Nat
        /\ (2 * tokens_held) * share(balance[u], tokens_held, amount)
             <= (2 * amount) * balance[u] + tokens_held
    BY <1>1, <2>1, ShareBound
  <2> QED
    BY <2>1, <2>2
<1>4. shares \in [vouchers -> Nat]
  BY <1>3
<1> HIDE DEF shares, held, n
<1>5. (2 * tokens_held) * Total(shares, vouchers)
        <= (2 * amount) * tokens_held + tokens_held * n
  <2>1. 2 * tokens_held \in Nat /\ 2 * amount \in Nat
    BY <1>1
  <2>2. (2 * tokens_held) * Total(shares, vouchers)
          <= (2 * amount) * Total(held, vouchers) + tokens_held * Cardinality(vouchers)
    BY <1>1, <1>3, <1>4, <2>1, TotalLinear
  <2> QED
    BY <1>2, <2>2 DEF n
<1>6. Total(shares, vouchers) \in Nat
  BY <1>1, <1>4, TotalType
<1>7. 2 * (Total(shares, vouchers) - amount) <= n
  <2> DEFINE paid == 2 * Total(shares, vouchers)
             due == 2 * amount + n
  <2>1. tokens_held * paid <= tokens_held * due
    BY <1>1, <1>5, <1>6
  <2>2. paid \in Int /\ due \in Int
    BY <1>1, <1>6
  <2>3. paid <= due
    <3> HIDE DEF paid, due
    <3> QED
      BY <1>1, <2>1, <2>2, Cancel
  <2> QED
    BY <1>1, <1>6, <2>3
<1> QED
  BY <1>4, <1>7 DEF shares, n

\* The shares of those that a transaction does not name are still to come.
LEMMA SharesLeft ==
    ASSUME NEW S, IsFiniteSet(S), NEW f \in [S -> Nat], NEW D \in SUBSET S
    PROVE  Total([u \in S \ D |-> f[u]], S \ D) = Total(f, S) - Total([u \in D |-> f[u]], D)
<1>1. /\ Total([u \in S \ D |-> f[u]], S \ D) = Total(f, S \ D)
      /\ Total([u \in D |-> f[u]], D) = Total(f, D)
  BY DEF Total, Units
<1>2. Total(f, S \ D) \in Nat /\ Total(f, D) \in Nat
  BY TotalPart
<1>3. Total(f, S) = Total(f, S \ D) + Total(f, D)
  BY TotalParts
<1> QED
  BY <1>1, <1>2, <1>3

\* A distribute transaction takes what it pays from what is still to come; the
\* first one of a distribution leaves two lamports more than the amount.
LEMMA RoundingDistribute ==
    ASSUME RoundingInv, NEW due \in SUBSET vouchers, process_distribute(due)
    PROVE  RoundingBounded'
<1> DEFINE amount == IF distributing THEN distribute_amount ELSE start_split.distribute_amount
           fee    == IF distributing THEN 0
                     ELSE start_split.owner_comission + start_split.host_comission
           from   == IF distributing THEN vouchers \ Seen ELSE vouchers
           shares == [u \in from |-> share(balance[u], tokens_held, amount)]
           paid   == Total([u \in due |-> shares[u]], due)
           n      == Cardinality(vouchers)
<1> SUFFICES ASSUME distributing', tokens_held' > 0, Unmixed'
             PROVE  2 * (Unpaid' - lamports') <= Cardinality(vouchers') - 4
  BY DEF RoundingBounded
<1>1. DropInv /\ TypeOK /\ StakeBacked /\ RoundingBounded
  BY DEF RoundingInv, DropInv, DropsInv, StakeInv
<1>2. /\ UNCHANGED <<vouchers, balance, tokens_held>> /\ Unmixed
      /\ distributing \/ start_ok
  BY DEF process_distribute, stakes, Unmixed
<1>3. distribute_amount' = amount
  BY Zenon DEF process_distribute
<1>4. due \in SUBSET from /\ vouchers' \ Seen' = from \ due
  BY <1>1, <1>2, DistributeSeen
<1>5. lamports' = lamports - fee - paid
  <2>1. [u \in due |-> shares[u]] = [u \in due |-> share(balance[u], tokens_held, amount)]
    BY <1>4
  <2> QED
    BY <2>1 DEF process_distribute
<1>6. Unpaid' = Total([u \in from \ due |-> shares[u]], from \ due)
  <2>1. [u \in vouchers' \ Seen' |-> share(balance'[u], tokens_held', distribute_amount')]
          = [u \in from \ due |-> shares[u]]
    BY <1>2, <1>3, <1>4
  <2> QED
    BY <1>4, <2>1 DEF Unpaid
<1>7. /\ amount \in Nat /\ fee \in Nat /\ lamports \in Nat
      /\ tokens_held \in Nat \ {0} /\ n \in Nat /\ IsFiniteSet(from)
      /\ \A u \in from : balance[u] \in Nat
  <2>1. IsFiniteSet(vouchers) /\ n \in Nat /\ from \in SUBSET vouchers
    BY <1>1, VouchersFinite
  <2>2. IsFiniteSet(from)
    BY <2>1, FS_Subset
  <2> QED
    BY <1>1, <1>2, <2>1, <2>2, StartType DEF TypeOK
<1>8. shares \in [from -> Nat]
  <2> HIDE DEF amount
  <2>1. \A u \in from : share(balance[u], tokens_held, amount) \in Nat
    BY <1>7, ShareBound
  <2> QED
    BY <2>1
<1>9. 2 * (Total(shares, from) - (lamports - fee)) <= n - 4
  <2>1. CASE distributing
    <3>1. shares = [u \in vouchers \ Seen |-> share(balance[u], tokens_held, distribute_amount)]
          /\ from = vouchers \ Seen /\ fee = 0
      BY <2>1
    <3>2. Total(shares, from) = Unpaid
      BY <3>1 DEF Unpaid
    <3>3. 2 * (Unpaid - lamports) <= n - 4
      BY <1>1, <1>2, <1>7, <2>1 DEF RoundingBounded
    <3> QED
      BY <1>7, <3>1, <3>2, <3>3
  <2>2. CASE ~distributing
    <3>1. shares = [u \in vouchers |-> share(balance[u], tokens_held, amount)]
          /\ from = vouchers
      BY <2>2
    <3>2. lamports - fee = amount + 2
      BY <1>2, <1>7, <2>2, StartType DEF start_split, calculate_split
    <3> HIDE DEF amount, fee
    <3>3. 2 * (Total(shares, from) - amount) <= n
      BY <1>1, <1>2, <1>7, <3>1, SharesTotal
    <3>4. Total(shares, from) \in Nat
      BY <1>7, <1>8, TotalType
    <3> QED
      BY <1>7, <3>2, <3>3, <3>4
  <2> QED
    BY <2>1, <2>2
<1> HIDE DEF amount, fee, from, shares, paid, n
<1>10. Unpaid' = Total(shares, from) - paid
  <2>1. Total([u \in from \ due |-> shares[u]], from \ due)
          = Total(shares, from) - Total([u \in due |-> shares[u]], due)
    BY <1>4, <1>7, <1>8, SharesLeft
  <2> QED
    BY <1>6, <2>1 DEF paid
<1>11. Total(shares, from) \in Nat /\ paid \in Nat
  <2>1. [u \in due |-> shares[u]] \in [due -> Nat] /\ IsFiniteSet(due)
    BY <1>4, <1>7, <1>8, FS_Subset
  <2> QED
    BY <1>7, <1>8, <2>1, TotalType DEF paid
<1>12. Cardinality(vouchers') = n
  BY <1>2 DEF n
<1> QED
  BY <1>5, <1>7, <1>9, <1>10, <1>11, <1>12

\* Otherwise the state account is only ever paid into during a distribution,
\* and the vouchers stay as they are.
LEMMA RoundingUnchanged ==
    ASSUME RoundingInv, UNCHANGED <<stakes, distribution, drops>>, mixed \subseteq mixed',
           lamports' \in Nat, lamports' >= lamports
    PROVE  RoundingBounded'
<1> SUFFICES ASSUME distributing', tokens_held' > 0, Unmixed'
             PROVE  2 * (Unpaid' - lamports') <= Cardinality(vouchers') - 4
  BY DEF RoundingBounded
<1>1. TypeOK /\ RoundingBounded
  BY DEF RoundingInv, DropInv, DropsInv
<1>2. Unpaid' = Unpaid /\ vouchers' = vouchers
  BY DEF stakes, distribution, drops, Unpaid, Seen
<1>3. 2 * (Unpaid - lamports) <= Cardinality(vouchers) - 4
  BY <1>1 DEF stakes, distribution, RoundingBounded, Unmixed
<1>4. Unpaid \in Nat
  <2> DEFINE S == vouchers \ Seen
             f == [u \in S |-> share(balance[u], tokens_held, distribute_amount)]
  <2>1. S \in SUBSET vouchers /\ IsFiniteSet(S)
    BY <1>1, VouchersFinite, FS_Subset
  <2>2. distribute_amount \in Nat /\ tokens_held \in Nat \ {0}
        /\ \A u \in S : balance[u] \in Nat
    BY <1>1 DEF stakes, TypeOK
  <2>3. f \in [S -> Nat]
    BY <2>2, ShareBound
  <2> HIDE DEF S, f
  <2>4. Total(f, S) \in Nat
    BY <2>1, <2>3, TotalType
  <2> QED
    BY <2>4 DEF f, S, Unpaid
<1> QED
  BY <1>1, <1>2, <1>3, <1>4, VouchersFinite DEF TypeOK

\* Every step keeps what is still to come within the state account's lamports.
LEMMA RoundingStep == RoundingInv /\ [Next]_vars => RoundingInv'
<1> SUFFICES ASSUME RoundingInv, [Next]_vars PROVE RoundingBounded'
  BY DropInvStep DEF RoundingInv
<1>1. lamports \in Nat
  BY DEF RoundingInv, DropInv, DropsInv, TypeOK
<1>2. CASE UNCHANGED <<stakes, distribution, drops, lamports>> /\ mixed \subseteq mixed'
  BY <1>1, <1>2, RoundingUnchanged
<1>3. ASSUME NEW due \in SUBSET vouchers, process_distribute(due) PROVE RoundingBounded'
  BY <1>3, RoundingDistribute
<1>4. ASSUME NEW u \in Users, NEW amount \in Amounts, process_deposit(u, amount)
      PROVE  RoundingBounded'
  BY <1>4 DEF process_deposit, available, distribution, RoundingBounded
<1>W. ASSUME NEW u \in Users, NEW amount \in Amounts,
             NEW voucher \in named_vouchers(u), process_withdraw(u, voucher, amount)
      PROVE  RoundingBounded'
  BY <1>W DEF process_withdraw, available, distribution, RoundingBounded
<1>E. ASSUME NEW u \in Mixers, NEW amount \in Amounts, withdraw_elsewhere(u, amount)
      PROVE  RoundingBounded'
  BY <1>E DEF withdraw_elsewhere, RoundingBounded, Unmixed
<1>S. ASSUME process_sync_weight_record PROVE mixed \subseteq mixed'
  BY <1>S DEF process_sync_weight_record, sync_owner_record, sync_user_record, note_voucher
<1>5. ASSUME NEW amount \in Receipts, Receive(amount) PROVE RoundingBounded'
  <2>1. lamports' = lamports + amount /\ amount \in Nat
    BY <1>5, ConstantsAssumption DEF Receive
  <2> QED
    BY <1>1, <1>5, <2>1, RoundingUnchanged DEF Receive
<1>6. ASSUME NEW u \in Users, process_claim(u) PROVE RoundingBounded'
  BY <1>2, <1>6 DEF process_claim
<1>7. CASE process_sync_weight_record \/ process_initialize \/ process_migrate
  BY <1>2, <1>S, <1>7 DEF process_sync_weight_record, process_initialize, process_migrate, payments
<1>8. ASSUME NEW u \in Users, NEW amount \in Amounts, TransferTokens(u, amount)
      PROVE  RoundingBounded'
  BY <1>2, <1>8 DEF TransferTokens, payments
<1>9. ASSUME NEW u \in Voters, Vote(u) \/ Relinquish(u) PROVE RoundingBounded'
  BY <1>2, <1>9 DEF Vote, Relinquish, payments
<1>10. CASE UNCHANGED vars
  BY <1>2, <1>10 DEF vars, payments
<1> QED
  BY <1>3, <1>4, <1>W, <1>E, <1>5, <1>6, <1>7, <1>8, <1>9, <1>10 DEF Next

\* However many transactions a distribution takes, and however calculate_split
\* and distribute_to round, the state account lacks at most half a lamport for
\* each voucher beyond the fourth, as long as withdraw is given each voucher with
\* the state that made it.
THEOREM RoundingStaysBounded == Spec => []RoundingBounded
<1>1. Init => RoundingInv
  BY DropInvInit DEF Init, RoundingInv, RoundingBounded
<1>2. RoundingInv => RoundingBounded
  BY DEF RoundingInv
<1> QED
  BY <1>1, <1>2, RoundingStep, PTL DEF Spec

\* A stake that is a part of the total is not refused by distribute_to.
LEMMA PartOfWhole ==
    ASSUME NEW stake \in Nat, NEW total \in Nat \ {0}, stake <= total
    PROVE  owned_percentage(stake, total) <= new(1)
<1> DEFINE n == stake * ONE
           q == (n * ONE + rounding_correction) \div (total * ONE)
<1>1. ONE \in Nat \ {0} /\ n \in Nat
  BY OneAssumption, MulNat
<1>2. q \in Nat /\ total * q <= n
  BY <1>1, QuotientBounds
<1>3. n <= total * ONE
  <2>1. ONE * stake <= ONE * total
    BY <1>1, Cancel
  <2> QED
    BY <1>1, <2>1
<1>4. total * ONE # 0
  BY <1>1
<1>5. owned_percentage(stake, total) = q
  BY <1>4 DEF owned_percentage, checked_div, new
<1> HIDE DEF n, q
<1>6. total * q <= total * ONE /\ total * ONE \in Nat /\ total * q \in Nat
  BY <1>1, <1>2, <1>3, MulNat
<1>7. q <= ONE
  BY <1>1, <1>2, <1>6, Cancel
<1> QED
  BY <1>1, <1>5, <1>7 DEF new

\* With up to four vouchers the two lamports that process_distribute sets aside
\* are enough, and distribute_to refuses nobody: a distribution of something to
\* somebody can always be paid to its end, as long as withdraw is given each
\* voucher with the state that made it.  Then DistributionEnds has no escape.
THEOREM FewAlwaysPayable ==
    Spec => [](distributing /\ tokens_held > 0 /\ Unmixed /\ Cardinality(vouchers) <= 4
                 => Payable)
<1>1. Init => RoundingInv
  BY DropInvInit DEF Init, RoundingInv, RoundingBounded
<1>2. ASSUME RoundingInv, distributing, tokens_held > 0, Unmixed, Cardinality(vouchers) <= 4
      PROVE  Payable
  <2>1. /\ TypeOK /\ StakeBacked /\ RoundingBounded /\ Cardinality(vouchers) \in Nat
    BY <1>2, VouchersFinite DEF RoundingInv, DropInv, DropsInv, StakeInv
  <2>2. tokens_held \in Nat \ {0} /\ balance \in [Users -> Nat] /\ vouchers \subseteq Users
        /\ distribute_amount \in Nat /\ lamports \in Nat
    BY <1>2, <2>1 DEF TypeOK
  <2>3. ASSUME NEW u \in Users PROVE balance[u] \in Nat /\ balance[u] <= tokens_held
    <3>1. /\ Total(balance, {u}) \in Nat /\ Total(balance, Users \ {u}) \in Nat
          /\ Total(balance, Users) = Total(balance, Users \ {u}) + Total(balance, {u})
      BY <2>2, ConstantsAssumption, TotalPart, TotalParts
    <3>2. Total(balance, {u}) = balance[u]
      BY <2>2, TotalOne
    <3> QED
      BY <1>2, <2>1, <2>2, <3>1, <3>2 DEF StakeBacked
  <2>4. \A u \in vouchers \ Seen : owned_percentage(balance[u], tokens_held) <= new(1)
    BY <2>2, <2>3, PartOfWhole
  <2>5. Unpaid \in Nat
    <3> DEFINE S == vouchers \ Seen
               f == [u \in S |-> share(balance[u], tokens_held, distribute_amount)]
    <3>1. f \in [S -> Nat]
      BY <2>2, <2>3, ShareBound
    <3>2. IsFiniteSet(S)
      BY <2>1, VouchersFinite, FS_Subset
    <3> QED
      BY <3>1, <3>2, TotalType DEF Unpaid
  <2>6. 2 * (Unpaid - lamports) <= Cardinality(vouchers) - 4
    BY <1>2, <2>1 DEF RoundingBounded
  <2>7. Unpaid <= lamports
    BY <1>2, <2>1, <2>2, <2>5, <2>6
  <2> QED
    BY <2>4, <2>7 DEF Payable
<1> QED
  BY <1>1, <1>2, RoundingStep, PTL DEF Spec
=============================================================================
