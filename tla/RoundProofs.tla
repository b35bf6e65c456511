----------------------------- MODULE RoundProofs -----------------------------
(***************************************************************************)
(* Theorems about Round, for every set of users and all amounts and times, *)
(* and that a round of wrapped SOL implements BidEscrow.                   *)
(***************************************************************************)
EXTENDS RoundRefinement, ArithmeticTheorems

USE DEF None

-----------------------------------------------------------------------------
(* What the arithmetic returns.                                             *)

\* A redeem amount is a natural number, or None.
LEMMA RedeemAmountType ==
    ASSUME NEW t \in Nat, NEW b \in Nat, NEW bid \in Nat, NEW o \in Nat
    PROVE  calculate_redeem_amount(t, b, bid, o) \in Nat \cup {None}
<1> DEFINE whole == IF t > b THEN t ELSE b
           share == checked_div(new(bid), new(whole))
<1>1. whole \in Nat
  OBVIOUS
<1>2. new(bid) \in Nat /\ new(whole) \in Nat /\ new(o) \in Nat
  BY <1>1, NewNat
<1>3. share \in Nat \cup {None}
  BY <1>2, CheckedDivNat
<1>4. ASSUME share # None PROVE to_imprecise(checked_mul(share, new(o))) \in Nat
  <2>1. share \in Nat
    BY <1>3, <1>4
  <2> HIDE DEF share
  <2>2. checked_mul(share, new(o)) \in Nat
    BY <1>2, <2>1, CheckedMulNat
  <2> QED
    BY <2>2, ToImpreciseNat
<1> QED
  BY <1>4 DEF calculate_redeem_amount

-----------------------------------------------------------------------------
(* The invariant.  TypeOK is inductive by itself once an accepted round is  *)
(* known to have its total_bid, an Option until then.                       *)

TotalSet ==
    round.status \in {"Accepted", "Reconciliation"} => round.total_bid \in Nat

TypeInv == TypeOK /\ TotalSet

\* The value of an address without an account is a Round account.
LEMMA AbsentType == Absent \in RoundAccount /\ Absent.status = "Absent"
BY DEF Absent, RoundAccount, RoundStatus

\* What create_round writes is a Round account.
LEMMA NewRoundType ==
    ASSUME NEW start \in Times, NEW end \in Times, NEW target \in Targets,
           NEW native \in Natives, NEW offer \in Nat,
           NEW return \in {"default", "source", "heir_ata"}
    PROVE  /\ NewRound(start, end, target, offer, return, native) \in RoundAccount
           /\ NewRound(start, end, target, offer, return, native).status = "Pending"
BY ConstantsAssumption DEF NewRound, RoundAccount, RoundStatus

\* The round that create_round makes, for the inputs of Next, is well typed.
LEMMA CreatedType ==
    ASSUME NEW start \in Times, NEW end \in Times, NEW target \in Targets,
           NEW native \in Natives, NEW offer \in 1 .. OfferFunds
    PROVE  /\ NewRound(start, end, target, offer, "source", native) \in RoundAccount
           /\ NewRound(start, end, target, offer, "source", native).status = "Pending"
<1>1. offer \in Nat
  BY ConstantsAssumption
<1>2. "source" \in {"default", "source", "heir_ata"}
  OBVIOUS
<1> QED
  BY <1>1, <1>2, NewRoundType, Zenon

\* The initial states, legacy rounds included, are well typed.
LEMMA TypeInit == Init => TypeInv
<1> SUFFICES ASSUME Init PROVE TypeInv
  OBVIOUS
<1>1. round \in RoundAccount /\ round.status \in {"Absent", "Pending"}
  <2>1. CASE round = Absent
    BY <2>1, AbsentType
  <2>2. ASSUME NEW start \in Times, NEW end \in Times, NEW target \in Targets,
               NEW native \in Natives,
               round = NewRound(start, end, target, OfferFunds, "default", native)
        PROVE  round \in RoundAccount /\ round.status = "Pending"
    <3>1. OfferFunds \in Nat
      BY ConstantsAssumption
    <3>2. "default" \in {"default", "source", "heir_ata"}
      OBVIOUS
    <3>3. /\ NewRound(start, end, target, OfferFunds, "default", native) \in RoundAccount
          /\ NewRound(start, end, target, OfferFunds, "default", native).status = "Pending"
      BY <3>1, <3>2, NewRoundType, Zenon
    <3> QED
      BY <2>2, <3>3, Zenon
  <2> QED
    BY <2>1, <2>2 DEF Init
<1>2. return_wallets \in [{"source", "heir_ata"} -> Nat]
  BY ConstantsAssumption DEF Init
<1> QED
  <2>1. bid_wallet_open \in BOOLEAN /\ authority_funded \in BOOLEAN
    BY Zenon DEF Init
  <2>2. offer_wallet \in {0, OfferFunds}
    BY Zenon DEF Init
  <2> QED
    BY <1>1, <1>2, <2>1, <2>2, ConstantsAssumption DEF Init, TypeInv, TypeOK, TotalSet

\* A handler changes the round account by EXCEPT, within its fields.
LEMMA CloseVoucherType ==
    ASSUME TypeInv, NEW u \in Users, close_voucher(u)
    PROVE  /\ round' \in RoundAccount
           /\ round'.status = round.status /\ round'.total_bid = round.total_bid
           /\ vouchers' \subseteq Users
           /\ amount_contributed' \in [Users -> Nat]
           /\ offchain_vouchers' \subseteq Users
BY DEF TypeInv, TypeOK, RoundAccount, close_voucher

\* Every instruction keeps the types: no checked subtraction goes below zero.
LEMMA TypeStep == TypeInv /\ [Next]_vars => TypeInv'
<1> SUFFICES ASSUME TypeInv, [Next]_vars PROVE TypeInv'
  OBVIOUS
<1> USE ConstantsAssumption DEF TypeInv, TypeOK, TotalSet, surroundings
<1>1. ASSUME NEW start \in Times, NEW end \in Times, NEW target \in Targets,
             NEW native \in Natives, NEW offer_amount \in 1 .. OfferFunds,
             create_round(start, end, target, offer_amount, native)
      PROVE  TypeInv'
  <2>1. offer_amount \in Nat
    OBVIOUS
  <2>2. round' = NewRound(start, end, target, offer_amount, "source", native)
    BY <1>1 DEF create_round
  <2>3. round' \in RoundAccount /\ round'.status = "Pending"
    BY <2>2, CreatedType, Zenon
  <2>4. return_wallets' \in [{"source", "heir_ata"} -> Nat]
    BY <1>1, <2>1 DEF create_round
  <2>5. bid_wallet_open' \in BOOLEAN /\ bid_wallet' \in Nat /\ offer_wallet' \in Nat
    BY <1>1, <2>1 DEF create_round
  <2> QED
    BY <1>1, <2>3, <2>4, <2>5 DEF create_round, voucher_accounts
<1>2. ASSUME NEW u \in Users, NEW amount \in Bids, contribute(u, amount)
      PROVE  TypeInv'
  BY <1>2 DEF contribute, delegated, add_to_voucher, RoundAccount
<1>3. ASSUME NEW u \in Users, NEW sig \in BOOLEAN, withdraw(u, sig)
      PROVE  TypeInv'
  BY <1>3, CloseVoucherType DEF withdraw, refund_bid_to_recipient
<1>4. ASSUME NEW with_authority \in BOOLEAN, accept(with_authority)
      PROVE  TypeInv'
  <2>1. bid_wallet_open' \in BOOLEAN
    BY <1>4, Zenon DEF accept, transfer_bid_to_recipient
  <2>2. bid_wallet' \in Nat /\ recipient' \in Nat
    BY <1>4 DEF accept, transfer_bid_to_recipient
  <2>3. round' \in RoundAccount /\ round'.total_bid \in Nat
    BY <1>4 DEF accept, RoundAccount, RoundStatus
  <2> QED
    BY <1>4, <2>1, <2>2, <2>3 DEF accept, voucher_accounts
<1>5. ASSUME NEW u \in Users, record_offchain_contribution(u)
      PROVE  TypeInv'
  BY <1>5 DEF record_offchain_contribution, RoundAccount, wallets, outside
<1>6. ASSUME finish_reconciliation PROVE TypeInv'
  BY <1>6 DEF finish_reconciliation, assert_can_finish_reconciliation, RoundAccount, RoundStatus,
              voucher_accounts, wallets, outside
<1>7. ASSUME reject PROVE TypeInv'
  BY <1>7 DEF reject, RejectAccounts, transfer_offer_back_to_heir, RoundAccount, RoundStatus,
              voucher_accounts
<1>8. ASSUME NEW u \in Users, reject_bid(u) PROVE TypeInv'
  BY <1>8, CloseVoucherType DEF reject_bid, refund_bid_to_recipient
<1>9. ASSUME NEW u \in Users, redeem(u) PROVE TypeInv'
  <2>1. redeem_amount(u) \in Nat
    <3>1. round.total_bid \in Nat /\ round.target_bid \in Nat /\ round.total_offer \in Nat
      BY <1>9 DEF redeem, assert_can_redeem, RoundAccount
    <3> QED
      BY <3>1, <1>9, RedeemAmountType DEF redeem, redeem_amount
  <2> QED
    BY <1>9, <2>1, CloseVoucherType DEF redeem, transfer_to_user
<1>10. ASSUME cancel PROVE TypeInv'
  <2>1. round.return_wallet \in {"source", "heir_ata"}
    BY <1>10 DEF cancel, CancelAccounts, RoundAccount
  <2>2. return_wallets' \in [{"source", "heir_ata"} -> Nat] /\ offer_wallet' \in Nat
    BY <1>10, <2>1 DEF cancel, transfer_offer_back_to_heir
  <2>3. bid_wallet' \in Nat /\ payer' \in Nat
    BY <1>10 DEF cancel, close_bid_wallet
  <2>4. bid_wallet_open' \in BOOLEAN
    BY <1>10 DEF cancel, close_bid_wallet
  <2> QED
    BY <1>10, <2>2, <2>3, <2>4, AbsentType DEF cancel, voucher_accounts
<1>11. ASSUME close PROVE TypeInv'
  <2>1. round.return_wallet \in {"source", "heir_ata"}
    BY <1>11 DEF close, CloseAccounts, RoundAccount
  <2>2. return_wallets' \in [{"source", "heir_ata"} -> Nat] /\ offer_wallet' \in Nat
    BY <1>11, <2>1 DEF close, transfer_offer_back_to_heir
  <2>3. bid_wallet' \in Nat /\ payer' \in Nat
    BY <1>11 DEF close, close_bid_wallet
  <2>4. bid_wallet_open' \in BOOLEAN
    BY <1>11 DEF close, close_bid_wallet
  <2> QED
    BY <1>11, <2>2, <2>3, <2>4, AbsentType DEF close, voucher_accounts
<1>12. ASSUME migrate PROVE TypeInv'
  BY <1>12 DEF migrate, RoundAccount, voucher_accounts, wallets, outside
<1>13. ASSUME Tick \/ Surroundings PROVE TypeInv'
  <2>1. authority_funded' \in BOOLEAN
    BY <1>13, Zenon DEF Tick, Surroundings
  <2>2. closed_wallets' \subseteq Users
    BY <1>13 DEF Tick, Surroundings
  <2> QED
    BY <1>13, <2>1, <2>2 DEF Tick, Surroundings, voucher_accounts, wallets, outside
<1>14. ASSUME UNCHANGED vars PROVE TypeInv'
  BY <1>14 DEF vars, voucher_accounts, wallets, outside
<1> QED
  BY <1>1, <1>2, <1>3, <1>4, <1>5, <1>6, <1>7, <1>8, <1>9, <1>10, <1>11, <1>12, <1>13,
     <1>14 DEF Next

\* Every account keeps to its type, in particular no checked subtraction of the
\* handlers goes below zero.
THEOREM TypeCorrect == Spec => []TypeOK
<1>1. Init => TypeInv
  BY TypeInit
<1>2. TypeInv /\ [Next]_vars => TypeInv'
  BY TypeStep
<1>3. TypeInv => TypeOK
  BY DEF TypeInv
<1> QED
  BY <1>1, <1>2, <1>3, PTL DEF Spec

-----------------------------------------------------------------------------
(* The count of vouchers.  The invariant is inductive with the types alone: *)
(* every handler that closes a voucher account finds it open and takes one  *)
(* off the count, and contribute adds one only for an account that is new.  *)

VoucherInv == TypeInv /\ VouchersCounted

\* The vouchers of a finite set of users can be counted.
LEMMA VouchersFinite ==
    ASSUME TypeInv
    PROVE  /\ IsFiniteSet(vouchers) /\ Cardinality(vouchers) \in Nat
           /\ IsFiniteSet(offchain_vouchers) /\ Cardinality(offchain_vouchers) \in Nat
BY ConstantsAssumption, FS_Subset, FS_CardinalityType DEF TypeInv, TypeOK

\* With the count at zero there is no voucher left.
LEMMA NoneCounted ==
    ASSUME VoucherInv, round.vouchers_count = 0
    PROVE  vouchers = {} /\ offchain_vouchers = {}
<1>1. Cardinality(vouchers) = 0 /\ Cardinality(offchain_vouchers) = 0
  BY VouchersFinite DEF VoucherInv, VouchersCounted
<1> QED
  BY <1>1, VouchersFinite, FS_EmptySet DEF VoucherInv

\* Closing a voucher takes one from the count and one from the set.
LEMMA CloseVoucherCounted ==
    ASSUME VoucherInv, NEW u \in vouchers, close_voucher(u), round.status # "Absent"
    PROVE  VouchersCounted'
<1>1. Cardinality(vouchers') = Cardinality(vouchers) - 1
  BY VouchersFinite, FS_RemoveElement DEF VoucherInv, close_voucher
<1>2. /\ round'.vouchers_count = round.vouchers_count - 1
      /\ round'.status = round.status
      /\ offchain_vouchers' = offchain_vouchers
  BY DEF VoucherInv, TypeInv, TypeOK, RoundAccount, close_voucher
<1> QED
  BY <1>1, <1>2, VouchersFinite DEF VoucherInv, TypeInv, TypeOK, RoundAccount, VouchersCounted

\* Initially there are no vouchers, and the count is zero.
LEMMA VoucherInit == Init => VoucherInv
<1> SUFFICES ASSUME Init PROVE VoucherInv
  OBVIOUS
<1>1. TypeInv
  BY TypeInit
<1>2. round.vouchers_count = 0
  BY DEF Init, Absent, NewRound
<1> QED
  BY <1>1, <1>2, FS_EmptySet DEF Init, VoucherInv, VouchersCounted

\* Every instruction keeps vouchers_count in step with the voucher accounts.
LEMMA VoucherStep == VoucherInv /\ [Next]_vars => VoucherInv'
<1> SUFFICES ASSUME VoucherInv, [Next]_vars PROVE VouchersCounted'
  BY TypeStep DEF VoucherInv
<1>T. TypeInv /\ VouchersCounted
  BY DEF VoucherInv
<1>1. ASSUME NEW start \in Times, NEW end \in Times, NEW target \in Targets,
             NEW native \in Natives, NEW offer_amount \in 1 .. OfferFunds,
             create_round(start, end, target, offer_amount, native)
      PROVE  VouchersCounted'
  <2>1. vouchers = {} /\ offchain_vouchers = {}
    BY <1>1, <1>T DEF create_round, CreateRoundAccounts, VouchersCounted
  <2>2. round'.vouchers_count = 0
    BY <1>1 DEF create_round, NewRound
  <2> QED
    BY <1>1, <2>1, <2>2, FS_EmptySet DEF create_round, VouchersCounted, voucher_accounts
<1>2. ASSUME NEW u \in Users, NEW amount \in Bids, contribute(u, amount)
      PROVE  VouchersCounted'
  <2>1. /\ round'.status = round.status /\ round.status # "Absent"
        /\ round'.vouchers_count = IF u \in vouchers THEN round.vouchers_count
                                   ELSE round.vouchers_count + 1
    BY <1>2, <1>T DEF contribute, delegated, add_to_voucher, ContributeAccounts, TypeInv, TypeOK, RoundAccount
  <2>2. Cardinality(vouchers') = IF u \in vouchers THEN Cardinality(vouchers)
                                 ELSE Cardinality(vouchers) + 1
    BY <1>2, <1>T, VouchersFinite, FS_AddElement DEF contribute, delegated, add_to_voucher
  <2> QED
    BY <1>2, <1>T, <2>1, <2>2, VouchersFinite
    DEF contribute, delegated, add_to_voucher, TypeInv, TypeOK, RoundAccount, VouchersCounted
<1>3. ASSUME NEW u \in Users, NEW sig \in BOOLEAN, withdraw(u, sig)
      PROVE  VouchersCounted'
  BY <1>3, CloseVoucherCounted DEF withdraw, WithdrawAccounts
<1>4. ASSUME NEW with_authority \in BOOLEAN, accept(with_authority)
      PROVE  VouchersCounted'
  <2>1. round'.vouchers_count = round.vouchers_count /\ round'.status # "Absent"
    BY <1>4, <1>T DEF accept, TypeInv, TypeOK, RoundAccount
  <2> QED
    BY <1>4, <1>T, <2>1 DEF accept, voucher_accounts, VouchersCounted
<1>5. ASSUME NEW u \in Users, record_offchain_contribution(u)
      PROVE  VouchersCounted'
  <2>1. /\ round'.vouchers_count = round.vouchers_count + 1
        /\ round'.status # "Absent"
    BY <1>5, <1>T DEF record_offchain_contribution, RecordOffchainContributionAccounts,
                      TypeInv, TypeOK, RoundAccount
  <2>2. Cardinality(offchain_vouchers') = Cardinality(offchain_vouchers) + 1
    BY <1>5, <1>T, VouchersFinite, FS_AddElement DEF record_offchain_contribution
  <2> QED
    BY <1>5, <1>T, <2>1, <2>2, VouchersFinite
    DEF record_offchain_contribution, VouchersCounted
<1>6. ASSUME finish_reconciliation PROVE VouchersCounted'
  <2>1. round'.vouchers_count = round.vouchers_count /\ round'.status # "Absent"
    BY <1>6, <1>T DEF finish_reconciliation, TypeInv, TypeOK, RoundAccount
  <2> QED
    BY <1>6, <1>T, <2>1 DEF finish_reconciliation, voucher_accounts, VouchersCounted
<1>7. ASSUME reject PROVE VouchersCounted'
  <2>1. round'.vouchers_count = round.vouchers_count /\ round'.status # "Absent"
    BY <1>7, <1>T DEF reject, TypeInv, TypeOK, RoundAccount
  <2> QED
    BY <1>7, <1>T, <2>1 DEF reject, voucher_accounts, VouchersCounted
<1>8. ASSUME NEW u \in Users, reject_bid(u) PROVE VouchersCounted'
  BY <1>8, CloseVoucherCounted DEF reject_bid, RejectBidAccounts
<1>9. ASSUME NEW u \in Users, redeem(u) PROVE VouchersCounted'
  BY <1>9, CloseVoucherCounted DEF redeem, RedeemAccounts
<1>10. ASSUME cancel PROVE VouchersCounted'
  <2>1. vouchers = {} /\ offchain_vouchers = {}
    BY <1>10, NoneCounted DEF cancel
  <2> QED
    BY <1>10, <2>1, FS_EmptySet DEF cancel, Absent, voucher_accounts, VouchersCounted
<1>11. ASSUME close PROVE VouchersCounted'
  <2>1. round.vouchers_count = 0
    BY <1>11, <1>T DEF close, assert_can_close, TypeInv, TypeOK, RoundAccount
  <2>2. vouchers = {} /\ offchain_vouchers = {}
    BY <2>1, NoneCounted
  <2> QED
    BY <1>11, <2>2, FS_EmptySet DEF close, Absent, voucher_accounts, VouchersCounted
<1>12. ASSUME migrate PROVE VouchersCounted'
  <2>1. round'.vouchers_count = round.vouchers_count /\ round'.status = round.status
    BY <1>12, <1>T DEF migrate, TypeInv, TypeOK, RoundAccount
  <2> QED
    BY <1>12, <1>T, <2>1 DEF migrate, voucher_accounts, VouchersCounted
<1>13. ASSUME Tick \/ Surroundings PROVE VouchersCounted'
  BY <1>13, <1>T DEF Tick, Surroundings, voucher_accounts, VouchersCounted
<1>14. ASSUME UNCHANGED vars PROVE VouchersCounted'
  BY <1>14, <1>T DEF vars, voucher_accounts, VouchersCounted
<1> QED
  BY <1>1, <1>2, <1>3, <1>4, <1>5, <1>6, <1>7, <1>8, <1>9, <1>10, <1>11, <1>12, <1>13,
     <1>14 DEF Next

\* vouchers_count is the number of voucher accounts, whatever the order of
\* contributions, withdrawals, refusals and redemptions, and no voucher
\* outlives its round.
THEOREM CountCorrect == Spec => []VouchersCounted
<1>1. Init => VoucherInv
  BY VoucherInit
<1>2. VoucherInv /\ [Next]_vars => VoucherInv'
  BY VoucherStep
<1>3. VoucherInv => VouchersCounted
  BY DEF VoucherInv
<1> QED
  BY <1>1, <1>2, <1>3, PTL DEF Spec

-----------------------------------------------------------------------------
(* The money.  BidsBacked is not inductive by itself: that a round closes   *)
(* with an empty bid wallet needs the count of vouchers, that a voucher     *)
(* without a bid does not exist, and that a bid wallet that is gone, as in  *)
(* an accepted wrapped SOL round, holds nothing.                            *)

GoneIsEmpty == ~bid_wallet_open => bid_wallet = 0

MoneyInv ==
    /\ VoucherInv
    /\ VouchersHoldBids
    /\ NativeSealed
    /\ GoneIsEmpty
    /\ BidsBacked
    /\ NothingSwept

\* The sum of the vouchers is a natural number.
LEMMA ContributedType ==
    ASSUME TypeInv PROVE Contributed \in Nat
BY ConstantsAssumption, TotalType DEF TypeInv, TypeOK, Contributed

\* Without vouchers nothing is owed.
LEMMA NothingOwed ==
    ASSUME TypeInv, VouchersHoldBids, vouchers = {}
    PROVE  Contributed = 0
<1>1. \A u \in Users : amount_contributed[u] = 0
  BY DEF TypeInv, TypeOK, VouchersHoldBids
<1> QED
  BY <1>1, ConstantsAssumption, TotalZero DEF TypeInv, TypeOK, Contributed

\* The sum over the users, when one value changes.
LEMMA UsersTotalUpdate ==
    ASSUME NEW f \in [Users -> Nat], NEW h \in [Users -> Nat], NEW u \in Users,
           \A y \in Users \ {u} : h[y] = f[y]
    PROVE  Total(h, Users) = Total(f, Users) - f[u] + h[u]
BY ConstantsAssumption, TotalUpdate

\* A new amount in one voucher.
LEMMA ContributedUpdate ==
    ASSUME TypeInv, NEW u \in Users, NEW v \in Nat,
           amount_contributed' = [amount_contributed EXCEPT ![u] = v]
    PROVE  Contributed' = Contributed - amount_contributed[u] + v
<1>1. /\ IsFiniteSet(Users)
      /\ amount_contributed \in [Users -> Nat] /\ amount_contributed' \in [Users -> Nat]
      /\ \A y \in Users \ {u} : amount_contributed'[y] = amount_contributed[y]
      /\ amount_contributed'[u] = v
  BY ConstantsAssumption DEF TypeInv, TypeOK
<1>2. Total(amount_contributed', Users) =
        Total(amount_contributed, Users) - amount_contributed[u] + amount_contributed'[u]
  BY <1>1, UsersTotalUpdate
<1> QED
  BY <1>1, <1>2 DEF Contributed

\* A refund takes the same amount from the wallet and from the vouchers.
LEMMA RefundMoney ==
    ASSUME MoneyInv, NEW u \in vouchers, close_voucher(u), refund_bid_to_recipient(u),
           round.status \in {"Pending", "Rejected"},
           bid_wallet_open, bid_wallet_open' = bid_wallet_open, payer' = payer
    PROVE  VouchersHoldBids' /\ NativeSealed' /\ GoneIsEmpty' /\ BidsBacked' /\ NothingSwept'
<1>1. TypeInv /\ u \in Users
  BY DEF MoneyInv, VoucherInv, TypeInv, TypeOK
<1>2. /\ amount_contributed' = [amount_contributed EXCEPT ![u] = 0]
      /\ vouchers' = vouchers \ {u}
      /\ bid_wallet' = bid_wallet - amount_contributed[u]
  BY DEF close_voucher, refund_bid_to_recipient
<1>3. round'.status = round.status
  BY <1>1, CloseVoucherType
<1>4. VouchersHoldBids'
  BY <1>1, <1>2 DEF MoneyInv, VouchersHoldBids, TypeInv, TypeOK
<1>5. BidsBacked'
  <2>1. Contributed' = Contributed - amount_contributed[u] + 0
    BY <1>1, <1>2, ContributedUpdate
  <2>2. amount_contributed[u] \in Nat
    BY <1>1 DEF TypeInv, TypeOK
  <2> QED
    BY <1>1, <1>2, <2>1, <2>2, ContributedType DEF MoneyInv, BidsBacked
<1> QED
  BY <1>3, <1>4, <1>5 DEF MoneyInv, NativeSealed, GoneIsEmpty, NothingSwept

\* Initially no bid is held, and none is recorded.
LEMMA MoneyInit == Init => MoneyInv
<1> SUFFICES ASSUME Init PROVE MoneyInv
  OBVIOUS
<1>1. VoucherInv /\ TypeInv
  BY VoucherInit, TypeInit
<1>2. VouchersHoldBids
  BY DEF Init, VouchersHoldBids
<1>3. Contributed = 0
  BY <1>1, <1>2, NothingOwed DEF Init
<1>4. round.status \in {"Absent", "Pending"}
  BY DEF Init, Absent, NewRound
<1> QED
  BY <1>1, <1>2, <1>3, <1>4
  DEF Init, MoneyInv, NativeSealed, GoneIsEmpty, BidsBacked, NothingSwept

\* The wallets when the last instruction of a round closes them.
LEMMA ClosingMoney ==
    ASSUME MoneyInv, round.vouchers_count = 0, round' = Absent,
           vouchers' = vouchers, amount_contributed' = amount_contributed,
           \/ close_bid_wallet /\ bid_wallet_open
           \/ ~bid_wallet_open /\ UNCHANGED <<payer, bid_wallet, bid_wallet_open>>,
           round.status \in RoundStatus
    PROVE  VouchersHoldBids' /\ NativeSealed' /\ GoneIsEmpty' /\ BidsBacked' /\ NothingSwept'
<1>1. vouchers = {} /\ TypeInv
  BY NoneCounted DEF MoneyInv, VoucherInv
<1>2. Contributed = 0 /\ Contributed' = 0
  BY <1>1, NothingOwed DEF MoneyInv, Contributed
<1>3. bid_wallet' = 0
  BY DEF close_bid_wallet, MoneyInv, GoneIsEmpty
<1>4. payer' = payer
  <2>1. CASE bid_wallet = 0
    BY <2>1, <1>1 DEF close_bid_wallet, TypeInv, TypeOK
  <2>2. CASE bid_wallet # 0
    BY <2>2, <1>2 DEF close_bid_wallet, MoneyInv, GoneIsEmpty, NativeSealed, BidsBacked, RoundStatus
  <2> QED
    BY <2>1, <2>2
<1>5. round'.status = "Absent"
  BY AbsentType
<1> QED
  BY <1>2, <1>3, <1>4, <1>5
  DEF MoneyInv, VouchersHoldBids, NativeSealed, GoneIsEmpty, BidsBacked, NothingSwept

\* Every instruction keeps the bid wallet equal to the vouchers while bids
\* can be refunded, and the wallet of an accepted wrapped SOL round closed.
LEMMA MoneyStep == MoneyInv /\ [Next]_vars => MoneyInv'
<1> DEFINE Rest == VouchersHoldBids /\ NativeSealed /\ GoneIsEmpty /\ BidsBacked /\ NothingSwept
<1> SUFFICES ASSUME MoneyInv, [Next]_vars PROVE Rest'
  BY VoucherStep DEF MoneyInv
<1>T. TypeInv /\ VouchersCounted /\ Rest
  BY DEF MoneyInv, VoucherInv
<1>R. round \in RoundAccount
  BY <1>T DEF TypeInv, TypeOK
<1>1. ASSUME NEW start \in Times, NEW end \in Times, NEW target \in Targets,
             NEW native \in Natives, NEW offer_amount \in 1 .. OfferFunds,
             create_round(start, end, target, offer_amount, native)
      PROVE  Rest'
  <2>1. vouchers = {}
    BY <1>1, <1>T DEF create_round, CreateRoundAccounts, VouchersCounted
  <2>2. Contributed' = 0
    BY <1>1, <1>T, <2>1, NothingOwed DEF create_round, voucher_accounts, Contributed
  <2>3. round'.status = "Pending"
    BY <1>1 DEF create_round, NewRound
  <2> QED
    BY <1>1, <1>T, <2>2, <2>3
    DEF create_round, voucher_accounts, VouchersHoldBids, NativeSealed, GoneIsEmpty, BidsBacked,
        NothingSwept
<1>2. ASSUME NEW u \in Users, NEW amount \in Bids, contribute(u, amount)
      PROVE  Rest'
  <2>1. /\ round'.status = round.status /\ round'.native = round.native
        /\ bid_wallet_open /\ amount \in Nat /\ amount > 0
    BY <1>2, <1>R, ConstantsAssumption DEF contribute, delegated, add_to_voucher, ContributeAccounts, RoundAccount
  <2>2. amount_contributed[u] \in Nat
    BY <1>T DEF TypeInv, TypeOK
  <2>3. Contributed' = Contributed - amount_contributed[u] + (amount_contributed[u] + amount)
    <3>1. amount_contributed[u] + amount \in Nat
      BY <2>1, <2>2
    <3>2. amount_contributed' =
            [amount_contributed EXCEPT ![u] = amount_contributed[u] + amount]
      BY <1>2 DEF contribute, delegated, add_to_voucher
    <3> QED
      BY <3>1, <3>2, <1>T, ContributedUpdate
  <2>4. BidsBacked'
    BY <1>2, <1>T, <2>1, <2>2, <2>3, ContributedType DEF contribute, delegated, add_to_voucher, BidsBacked
  <2>5. VouchersHoldBids'
    BY <1>2, <1>T, <2>1, <2>2 DEF contribute, delegated, add_to_voucher, VouchersHoldBids, TypeInv, TypeOK
  <2> QED
    BY <1>2, <1>T, <2>1, <2>4, <2>5 DEF contribute, delegated, add_to_voucher, NativeSealed, GoneIsEmpty, NothingSwept
<1>3. ASSUME NEW u \in Users, NEW sig \in BOOLEAN, withdraw(u, sig)
      PROVE  Rest'
  <2>1. round.status \in {"Pending", "Rejected"}
    BY <1>3, <1>R DEF withdraw, WithdrawAccounts, assert_can_withdraw, RoundAccount, RoundStatus
  <2> QED
    BY <1>3, <2>1, RefundMoney DEF withdraw, WithdrawAccounts
<1>4. ASSUME NEW with_authority \in BOOLEAN, accept(with_authority)
      PROVE  Rest'
  <2>1. round'.status \in {"Accepted", "Reconciliation"} /\ round'.native = round.native
    BY <1>4, <1>R DEF accept, RoundAccount
  <2>2. bid_wallet' = 0 /\ (round.native => ~bid_wallet_open')
    BY <1>4 DEF accept, transfer_bid_to_recipient
  <2>3. VouchersHoldBids' /\ NothingSwept'
    BY <1>4, <1>T DEF accept, voucher_accounts, VouchersHoldBids, NothingSwept
  <2> QED
    BY <2>1, <2>2, <2>3 DEF NativeSealed, GoneIsEmpty, BidsBacked
<1>5. ASSUME NEW u \in Users, record_offchain_contribution(u)
      PROVE  Rest'
  <2>1. round'.status = round.status /\ round'.native = round.native
    BY <1>5, <1>R DEF record_offchain_contribution, RoundAccount
  <2> QED
    BY <1>5, <1>T, <2>1
    DEF record_offchain_contribution, wallets, outside, VouchersHoldBids, NativeSealed,
        GoneIsEmpty, BidsBacked, NothingSwept, Contributed
<1>6. ASSUME finish_reconciliation PROVE Rest'
  <2>1. /\ round.status = "Reconciliation" /\ round'.status = "Accepted"
        /\ round'.native = round.native
    BY <1>6, <1>R DEF finish_reconciliation, assert_can_finish_reconciliation, RoundAccount
  <2> QED
    BY <1>6, <1>T, <2>1
    DEF finish_reconciliation, voucher_accounts, wallets, outside, VouchersHoldBids,
        NativeSealed, GoneIsEmpty, BidsBacked, NothingSwept
<1>7. ASSUME reject PROVE Rest'
  <2>1. round.status = "Pending" /\ round'.status = "Rejected"
    BY <1>7, <1>R DEF reject, assert_can_accept_or_reject, RoundAccount
  <2> QED
    BY <1>7, <1>T, <2>1
    DEF reject, voucher_accounts, VouchersHoldBids, NativeSealed, GoneIsEmpty, BidsBacked,
        NothingSwept, Contributed
<1>8. ASSUME NEW u \in Users, reject_bid(u) PROVE Rest'
  <2>1. round.status = "Pending"
    BY <1>8 DEF reject_bid, assert_can_reject_bid
  <2> QED
    BY <1>8, <2>1, RefundMoney DEF reject_bid, RejectBidAccounts
<1>9. ASSUME NEW u \in Users, redeem(u) PROVE Rest'
  <2>1. round.status = "Accepted"
    BY <1>9 DEF redeem, assert_can_redeem
  <2>2. round'.status = "Accepted" /\ round'.native = round.native
    BY <1>9, <1>R, <2>1 DEF redeem, close_voucher, RoundAccount
  <2>3. VouchersHoldBids'
    BY <1>9, <1>T DEF redeem, close_voucher, VouchersHoldBids, TypeInv, TypeOK
  <2> QED
    BY <1>9, <1>T, <2>1, <2>2, <2>3
    DEF redeem, NativeSealed, GoneIsEmpty, BidsBacked, NothingSwept
<1>10. ASSUME cancel PROVE Rest'
  <2>1. round.status \in RoundStatus
    BY <1>10, <1>R DEF cancel, CancelAccounts, RoundAccount
  <2> QED
    BY <1>10, <2>1, ClosingMoney DEF cancel, CancelAccounts, voucher_accounts
<1>11. ASSUME close PROVE Rest'
  <2>1. round.vouchers_count = 0 /\ round.status \in RoundStatus
    BY <1>11, <1>R DEF close, CloseAccounts, assert_can_close, RoundAccount, RoundStatus
  <2> QED
    BY <1>11, <2>1, ClosingMoney DEF close, voucher_accounts
<1>12. ASSUME migrate PROVE Rest'
  <2>1. round'.status = round.status /\ round'.native = round.native
    BY <1>12, <1>R DEF migrate, RoundAccount
  <2> QED
    BY <1>12, <1>T, <2>1
    DEF migrate, voucher_accounts, wallets, outside, VouchersHoldBids, NativeSealed,
        GoneIsEmpty, BidsBacked, NothingSwept, Contributed
<1>13. ASSUME Tick \/ Surroundings PROVE Rest'
  BY <1>13, <1>T
  DEF Tick, Surroundings, voucher_accounts, wallets, outside, VouchersHoldBids, NativeSealed,
      GoneIsEmpty, BidsBacked, NothingSwept, Contributed
<1>14. ASSUME UNCHANGED vars PROVE Rest'
  BY <1>14, <1>T
  DEF vars, voucher_accounts, wallets, outside, VouchersHoldBids, NativeSealed,
      GoneIsEmpty, BidsBacked, NothingSwept, Contributed
<1> QED
  BY <1>1, <1>2, <1>3, <1>4, <1>5, <1>6, <1>7, <1>8, <1>9, <1>10, <1>11, <1>12, <1>13,
     <1>14 DEF Next

\* The inductive invariant of the bids holds always.
LEMMA MoneyAlways == Spec => []MoneyInv
<1> QED
  BY MoneyInit, MoneyStep, PTL DEF Spec

\* The bid wallet of a round that can still refund holds what the vouchers say,
\* to the unit.
THEOREM BidsAlwaysBacked == Spec => []BidsBacked
<1>1. MoneyInv => BidsBacked
  BY DEF MoneyInv
<1> QED
  BY <1>1, MoneyAlways, PTL

\* Closing accounts never pays a bid to the payer of the rent.
THEOREM NeverSwept == Spec => []NothingSwept
<1>1. MoneyInv => NothingSwept
  BY DEF MoneyInv
<1> QED
  BY <1>1, MoneyAlways, PTL

\* An accepted wrapped SOL round takes no further bid.
THEOREM SealedNative == Spec => []NativeSealed
<1>1. MoneyInv => NativeSealed
  BY DEF MoneyInv
<1> QED
  BY <1>1, MoneyAlways, PTL

-----------------------------------------------------------------------------
(* What a step may never do.                                                *)

\* The actions that leave the recipient alone, and those that leave vouchers.
LEMMA ReleaseStep == MoneyInv /\ [Next]_vars => [Release]_vars
<1> SUFFICES ASSUME MoneyInv, Next, recipient' # recipient PROVE Release
  BY DEF Release
<1>1. PICK with_authority \in BOOLEAN : accept(with_authority)
  BY DEF Next, create_round, contribute, delegated, add_to_voucher, withdraw, record_offchain_contribution,
         finish_reconciliation, reject, reject_bid, redeem, cancel, close, migrate, Tick, Surroundings, outside
<1>2. round \in RoundAccount /\ now \in Nat /\ TIMEOUT \in Nat
  BY ConstantsAssumption DEF MoneyInv, VoucherInv, TypeInv, TypeOK
<1>3. /\ round.status = "Pending" /\ ~(now > heir_timeout_date)
      /\ ~(now < round.bidding_end)
  BY <1>1 DEF accept, assert_can_accept_or_reject, can_withdraw_due_heir_inactivity
<1>4. round.bidding_end <= now /\ now <= heir_timeout_date
  BY <1>2, <1>3 DEF heir_timeout_date, RoundAccount
<1>5. /\ recipient' = recipient + bid_wallet
      /\ round'.total_bid = bid_wallet
      /\ round'.status \in {"Accepted", "Reconciliation"}
  BY <1>1, <1>2 DEF accept, transfer_bid_to_recipient, RoundAccount
<1>6. bid_wallet = Contributed
  BY <1>3 DEF MoneyInv, BidsBacked
<1> QED
  BY <1>3, <1>4, <1>5, <1>6 DEF Release

\* The heir's acceptance, in time, is the only way to the recipient, and it
\* takes all bids at once.
THEOREM ReleasedOnce == Spec => ReleasedOnceAsAWhole
BY MoneyAlways, ReleaseStep, PTL DEF ReleasedOnceAsAWhole, Spec

\* The step of withdraw, reject_bid and redeem pays the voucher it closes.
LEMMA PayoutStep == MoneyInv /\ [Next]_vars => [Payout]_vars
<1> SUFFICES ASSUME MoneyInv, Next PROVE Payout
  BY DEF Payout
<1>1. CASE vouchers \ vouchers' = {}
  BY <1>1 DEF Payout
<1>2. ASSUME NEW u \in Users, NEW sig \in BOOLEAN, withdraw(u, sig) PROVE Payout
  <2>1. round.status # "Accepted"
    BY <1>2 DEF withdraw, assert_can_withdraw
  <2> QED
    BY <1>2, <2>1 DEF withdraw, close_voucher, refund_bid_to_recipient, Payout
<1>3. ASSUME NEW u \in Users, reject_bid(u) PROVE Payout
  <2>1. round.status # "Accepted"
    BY <1>3 DEF reject_bid, assert_can_reject_bid
  <2> QED
    BY <1>3, <2>1 DEF reject_bid, close_voucher, refund_bid_to_recipient, Payout
<1>4. ASSUME NEW u \in Users, redeem(u) PROVE Payout
  <2>1. round.status = "Accepted"
    BY <1>4 DEF redeem, assert_can_redeem
  <2> QED
    BY <1>4, <2>1 DEF redeem, close_voucher, transfer_to_user, Payout
<1>5. ASSUME ~\E u \in Users : redeem(u) \/ reject_bid(u) \/ \E sig \in BOOLEAN : withdraw(u, sig)
      PROVE  vouchers \subseteq vouchers'
  BY <1>5 DEF Next, create_round, contribute, delegated, add_to_voucher, accept, record_offchain_contribution,
              finish_reconciliation, reject, cancel, close, migrate, Tick, Surroundings, voucher_accounts
<1> QED
  BY <1>1, <1>2, <1>3, <1>4, <1>5

\* No voucher disappears without its user being paid what it stands for.
THEOREM PaidInFull == Spec => VoucherPaidInFull
BY MoneyAlways, PayoutStep, PTL DEF VoucherPaidInFull, Spec

\* No step changes what decides the share of a voucher in an accepted round.
LEMMA ShareStep == MoneyInv /\ [Next]_vars => [ShareUnchanged]_vars
<1> DEFINE Settled == round.status \in {"Accepted", "Reconciliation"}
           Same == /\ round'.total_bid = round.total_bid
                   /\ round'.total_offer = round.total_offer
                   /\ round'.target_bid = round.target_bid
<1> SUFFICES ASSUME MoneyInv, Next, Settled, round'.status # "Absent"
             PROVE  Same /\ (round.native =>
                       \A u \in vouchers' : amount_contributed'[u] = amount_contributed[u])
  BY DEF ShareUnchanged
<1>1. /\ round \in RoundAccount /\ vouchers \subseteq Users
      /\ amount_contributed \in [Users -> Nat]
      /\ round.native => ~bid_wallet_open
  BY DEF MoneyInv, VoucherInv, TypeInv, TypeOK, NativeSealed
<1>2. ASSUME NEW u \in Users, NEW amount \in Bids, contribute(u, amount)
      PROVE  Same /\ ~round.native
  BY <1>1, <1>2 DEF contribute, delegated, add_to_voucher, ContributeAccounts, RoundAccount
<1>3. ASSUME NEW u \in Users, redeem(u)
      PROVE  Same /\ \A v \in vouchers' : amount_contributed'[v] = amount_contributed[v]
  BY <1>1, <1>3 DEF redeem, close_voucher, RoundAccount
<1>4. ASSUME NEW u \in Users, record_offchain_contribution(u)
      PROVE  Same /\ amount_contributed' = amount_contributed
  BY <1>1, <1>4 DEF record_offchain_contribution, RoundAccount
<1>5. ASSUME finish_reconciliation
      PROVE  Same /\ amount_contributed' = amount_contributed
  BY <1>1, <1>5 DEF finish_reconciliation, voucher_accounts, RoundAccount
<1>6. ASSUME migrate
      PROVE  Same /\ amount_contributed' = amount_contributed
  BY <1>1, <1>6 DEF migrate, voucher_accounts, RoundAccount
<1>7. ASSUME Tick \/ Surroundings
      PROVE  Same /\ amount_contributed' = amount_contributed
  BY <1>7 DEF Tick, Surroundings, voucher_accounts
<1>8. /\ ~(\E start, end \in Times, target \in Targets, native \in Natives :
             \E offer_amount \in 1 .. OfferFunds :
               create_round(start, end, target, offer_amount, native))
      /\ ~(\E u \in Users, sig \in BOOLEAN : withdraw(u, sig))
      /\ ~(\E u \in Users : reject_bid(u))
      /\ ~(\E with_authority \in BOOLEAN : accept(with_authority))
      /\ ~reject /\ ~cancel /\ ~close
  BY AbsentType
  DEF create_round, CreateRoundAccounts, withdraw, assert_can_withdraw, reject_bid,
      assert_can_reject_bid, accept, reject, assert_can_accept_or_reject, cancel, close
<1> QED
  BY <1>2, <1>3, <1>4, <1>5, <1>6, <1>7, <1>8 DEF Next

\* Once a round is accepted no step changes what a share is worth.
THEOREM ShareStaysFrozen == Spec => ShareFrozen
BY MoneyAlways, ShareStep, PTL DEF ShareFrozen, Spec

-----------------------------------------------------------------------------
(* What the open vouchers of an accepted round claim.  The bound of         *)
(* OverclaimBounded is there when the heir accepts, when every bid is still *)
(* a voucher; redeeming takes the same from the claims and from the offer.  *)

\* The claim of each user with a voucher, V, on an offer o of which bids were
\* made for b in all; nothing without a voucher.
Claims(target, b, o, V, bids) ==
    [u \in Users |->
        IF u \in V
        THEN calculate_redeem_amount(IF target # 0 THEN target ELSE b, b, bids[u], o)
        ELSE 0]

\* What all of them claim of a round.
Claimed(r, V, bids) ==
    Total(Claims(r.target_bid, r.total_bid, r.total_offer, V, bids), Users)

ClaimsBounded ==
    round.native /\ round.status \in {"Accepted", "Reconciliation"} =>
        /\ Contributed <= round.total_bid
        /\ 2 * (Claimed(round, vouchers, amount_contributed) - offer_wallet)
               <= Cardinality(Users)

ClaimInv == MoneyInv /\ ClaimsBounded

\* A claim exceeds the exact share of the offer by at most half a unit.
LEMMA RedeemBound ==
    ASSUME NEW t \in Nat, NEW b \in Nat, NEW bid \in Nat, NEW o \in Nat,
           NEW whole \in Nat \ {0}, whole = IF t > b THEN t ELSE b
    PROVE  /\ calculate_redeem_amount(t, b, bid, o) \in Nat
           /\ (2 * whole) * calculate_redeem_amount(t, b, bid, o) <= (2 * o) * bid + whole
<1> DEFINE share == checked_div(new(bid), new(whole))
<1>1. share # None
  BY NewNat, CheckedDivNat
<1>2. calculate_redeem_amount(t, b, bid, o) = to_imprecise(checked_mul(share, new(o)))
  BY <1>1 DEF calculate_redeem_amount
<1> QED
  BY <1>2, ShareThenAmount

\* Half a unit each, from the bound on every claim.
LEMMA HalfEach ==
    ASSUME NEW claims \in Nat, NEW bids \in Nat, NEW whole \in Nat \ {0}, NEW o \in Nat,
           NEW n \in Nat, bids <= whole,
           (2 * whole) * claims <= (2 * o) * bids + whole * n
    PROVE  2 * (claims - o) <= n
<1> DEFINE a == (2 * o) * bids
           c == whole * (2 * o)
           d == whole * n
           e == whole * (2 * claims)
<1>1. a <= c
  <2>1. CASE o = 0
    BY <2>1
  <2>2. CASE o # 0
    <3>1. 2 * o \in Nat \ {0}
      BY <2>2
    <3>2. (2 * o) * bids <= (2 * o) * whole
      BY <3>1, Cancel
    <3> QED
      BY <3>2
  <2> QED
    BY <2>1, <2>2
<1>2. /\ (2 * whole) * claims = e /\ whole * (2 * o + n) = c + d
      /\ a \in Int /\ c \in Int /\ d \in Int /\ e \in Int
  OBVIOUS
<1>3. e <= c + d
  <2> HIDE DEF c, d, e
  <2> QED
    BY <1>1, <1>2 DEF a
<1>4. 2 * claims <= 2 * o + n
  BY <1>2, <1>3, Cancel
<1> QED
  BY <1>4

\* The claims of all vouchers on an offer of o, when the bids are all in b.
LEMMA ClaimsTotal ==
    ASSUME NEW V \in SUBSET Users, NEW bids \in [Users -> Nat],
           NEW target \in Nat, NEW b \in Nat, NEW o \in Nat,
           \A u \in Users : u \in V <=> bids[u] > 0,
           Total(bids, Users) <= b
    PROVE  /\ Claims(target, b, o, V, bids) \in [Users -> Nat]
           /\ 2 * (Total(Claims(target, b, o, V, bids), Users) - o) <= Cardinality(Users)
<1> DEFINE claim == Claims(target, b, o, V, bids)
           t == IF target # 0 THEN target ELSE b
           whole == IF t > b THEN t ELSE b
           n == Cardinality(Users)
<1>1. IsFiniteSet(Users) /\ n \in Nat /\ Total(bids, Users) \in Nat
  BY ConstantsAssumption, FS_CardinalityType, TotalType
<1>2. claim = [u \in Users |->
                  IF u \in V THEN calculate_redeem_amount(t, b, bids[u], o) ELSE 0]
  BY DEF Claims
<1> HIDE DEF claim
<1>3. CASE Total(bids, Users) = 0
  <2>1. \A u \in Users : bids[u] = 0
    BY <1>1, <1>3, TotalZero
  <2>2. claim = [u \in Users |-> 0]
    BY <1>2, <2>1
  <2>3. claim \in [Users -> Nat] /\ Total(claim, Users) = 0
    BY <1>1, <2>2, TotalZero
  <2> QED
    BY <1>1, <2>3 DEF claim
<1>4. CASE Total(bids, Users) # 0
  <2>1. whole \in Nat \ {0} /\ Total(bids, Users) <= whole /\ t \in Nat
    BY <1>1, <1>4
  <2>2. ASSUME NEW u \in Users
        PROVE  claim[u] \in Nat /\ (2 * whole) * claim[u] <= (2 * o) * bids[u] + whole
    <3>1. CASE u \in V
      <4>1. bids[u] \in Nat /\ claim[u] = calculate_redeem_amount(t, b, bids[u], o)
        BY <1>2, <3>1
      <4>2. whole = IF t > b THEN t ELSE b
        OBVIOUS
      <4> HIDE DEF t, whole
      <4>3. /\ calculate_redeem_amount(t, b, bids[u], o) \in Nat
            /\ (2 * whole) * calculate_redeem_amount(t, b, bids[u], o)
                 <= (2 * o) * bids[u] + whole
        BY <2>1, <4>1, <4>2, RedeemBound
      <4> QED
        BY <4>1, <4>3, Zenon
    <3>2. CASE u \notin V
      <4>1. claim[u] = 0 /\ bids[u] \in Nat
        BY <1>2, <3>2
      <4> HIDE DEF whole
      <4>2. (2 * whole) * 0 = 0 /\ (2 * o) * bids[u] \in Nat
        BY <2>1, <4>1
      <4> QED
        BY <2>1, <4>1, <4>2
    <3> QED
      BY <3>1, <3>2
  <2>3. claim \in [Users -> Nat]
    BY <1>2, <2>2
  <2>4. (2 * whole) * Total(claim, Users) <= (2 * o) * Total(bids, Users) + whole * n
    <3> HIDE DEF whole
    <3>1. 2 * whole \in Nat /\ 2 * o \in Nat /\ whole \in Nat
      BY <2>1
    <3> QED
      BY <1>1, <2>2, <2>3, <3>1, TotalLinear
  <2>5. Total(claim, Users) \in Nat
    BY <1>1, <2>3, TotalType
  <2>6. 2 * (Total(claim, Users) - o) <= n
    <3> HIDE DEF whole, n
    <3> QED
      BY <1>1, <2>1, <2>4, <2>5, HalfEach
  <2> QED
    BY <2>3, <2>6 DEF claim
<1> QED
  BY <1>3, <1>4

\* The heir accepts: all bids are there, and the whole offer.
LEMMA AcceptClaims ==
    ASSUME MoneyInv, NEW with_authority \in BOOLEAN, accept(with_authority)
    PROVE  ClaimsBounded'
<1>1. /\ round.status = "Pending" /\ round \in RoundAccount /\ bid_wallet \in Nat
      /\ offer_wallet \in Nat /\ bid_wallet = Contributed
      /\ amount_contributed \in [Users -> Nat] /\ vouchers \in SUBSET Users
      /\ \A u \in Users : u \in vouchers <=> amount_contributed[u] > 0
  BY DEF accept, assert_can_accept_or_reject, MoneyInv, VoucherInv, TypeInv, TypeOK,
         VouchersHoldBids, BidsBacked
<1>2. /\ round'.total_bid = bid_wallet /\ round'.total_offer = offer_wallet
      /\ round'.target_bid = round.target_bid /\ round.target_bid \in Nat
      /\ vouchers' = vouchers /\ amount_contributed' = amount_contributed
      /\ offer_wallet' = offer_wallet
  BY <1>1 DEF accept, voucher_accounts, RoundAccount
<1>3. Contributed' <= round'.total_bid /\ Total(amount_contributed, Users) <= bid_wallet
  BY <1>1, <1>2 DEF Contributed
<1>4. 2 * (Total(Claims(round.target_bid, bid_wallet, offer_wallet, vouchers,
                        amount_contributed), Users) - offer_wallet) <= Cardinality(Users)
  BY <1>1, <1>2, <1>3, ClaimsTotal
<1>5. Claimed(round', vouchers', amount_contributed') =
        Total(Claims(round.target_bid, bid_wallet, offer_wallet, vouchers,
                     amount_contributed), Users)
  BY <1>2 DEF Claimed
<1> QED
  BY <1>2, <1>3, <1>4, <1>5 DEF ClaimsBounded

\* A step that leaves bids, shares and offer alone leaves the claims alone.
LEMMA ClaimsUnmoved ==
    ASSUME ClaimsBounded,
           round'.status \in {"Accepted", "Reconciliation"} =>
               round.status \in {"Accepted", "Reconciliation"},
           round'.native = round.native, round'.total_bid = round.total_bid,
           round'.total_offer = round.total_offer, round'.target_bid = round.target_bid,
           vouchers' = vouchers, amount_contributed' = amount_contributed,
           offer_wallet' = offer_wallet
    PROVE  ClaimsBounded'
<1>1. Contributed' = Contributed
  BY DEF Contributed
<1>2. Claimed(round', vouchers', amount_contributed')
        = Claimed(round, vouchers, amount_contributed)
  BY DEF Claimed
<1> QED
  BY <1>1, <1>2 DEF ClaimsBounded

\* Taking one voucher away takes its claim off the total.
LEMMA ClaimRemoved ==
    ASSUME NEW target, NEW b, NEW o, NEW V, NEW u \in Users,
           NEW bids \in [Users -> Nat], NEW rest \in [Users -> Nat],
           Claims(target, b, o, V, bids) \in [Users -> Nat],
           \A v \in Users \ {u} : rest[v] = bids[v]
    PROVE  Total(Claims(target, b, o, V \ {u}, rest), Users) =
             Total(Claims(target, b, o, V, bids), Users) - Claims(target, b, o, V, bids)[u]
<1> DEFINE f == Claims(target, b, o, V, bids)
           g == Claims(target, b, o, V \ {u}, rest)
<1>1. g[u] = 0 /\ \A v \in Users \ {u} : g[v] = f[v]
  BY DEF Claims
<1>2. f \in [Users -> Nat] /\ g \in [Users -> Nat] /\ IsFiniteSet(Users)
  <2>1. g = [v \in Users |-> g[v]]
    BY DEF Claims
  <2> HIDE DEF g
  <2> QED
    BY <1>1, <2>1, ConstantsAssumption
<1> HIDE DEF f, g
<1>3. Total(g, Users) = Total(f, Users) - f[u] + g[u]
  BY <1>1, <1>2, TotalUpdate
<1>4. Total(f, Users) \in Nat /\ f[u] \in Nat
  BY <1>2, TotalType
<1>5. Total(g, Users) = Total(f, Users) - f[u]
  BY <1>1, <1>3, <1>4
<1> QED
  BY <1>5 DEF f, g

\* In an accepted wrapped SOL round every claim is defined.
LEMMA ClaimType ==
    ASSUME ClaimInv, round.native, round.status \in {"Accepted", "Reconciliation"}
    PROVE  Claims(round.target_bid, round.total_bid, round.total_offer, vouchers,
                  amount_contributed) \in [Users -> Nat]
<1>1. /\ round.total_bid \in Nat /\ round.target_bid \in Nat /\ round.total_offer \in Nat
      /\ amount_contributed \in [Users -> Nat] /\ vouchers \in SUBSET Users
      /\ \A u \in Users : u \in vouchers <=> amount_contributed[u] > 0
  BY DEF ClaimInv, MoneyInv, VoucherInv, TypeInv, TypeOK, TotalSet, RoundAccount,
         VouchersHoldBids
<1>2. Total(amount_contributed, Users) <= round.total_bid
  BY DEF ClaimInv, ClaimsBounded, Contributed
<1> QED
  BY <1>1, <1>2, ClaimsTotal

\* A redeemed voucher takes its claim, and as much of the offer, away.
LEMMA RedeemClaims ==
    ASSUME ClaimInv, NEW u \in Users, redeem(u)
    PROVE  ClaimsBounded'
<1> SUFFICES ASSUME round'.native PROVE ClaimsBounded'
  BY DEF ClaimsBounded
<1> DEFINE claims == Claims(round.target_bid, round.total_bid, round.total_offer, vouchers,
                            amount_contributed)
<1>1. /\ round \in RoundAccount /\ round.status = "Accepted" /\ u \in vouchers
      /\ amount_contributed \in [Users -> Nat] /\ offer_wallet \in Nat
      /\ IsFiniteSet(Users)
      /\ round' = [round EXCEPT !.vouchers_count = @ - 1]
      /\ vouchers' = vouchers \ {u}
      /\ amount_contributed' = [amount_contributed EXCEPT ![u] = 0]
      /\ offer_wallet' = offer_wallet - redeem_amount(u)
  BY ConstantsAssumption DEF redeem, RedeemAccounts, assert_can_redeem, close_voucher,
         transfer_to_user, ClaimInv, MoneyInv, VoucherInv, TypeInv, TypeOK
<1>2. /\ round'.status = "Accepted" /\ round'.total_bid = round.total_bid
      /\ round'.total_offer = round.total_offer /\ round'.target_bid = round.target_bid
      /\ round.native
  BY <1>1 DEF RoundAccount
<1>3. claims \in [Users -> Nat] /\ claims[u] = redeem_amount(u)
  BY <1>1, <1>2, ClaimType DEF Claims, redeem_amount
<1>4. Claimed(round', vouchers', amount_contributed') =
        Claimed(round, vouchers, amount_contributed) - redeem_amount(u)
  <2> DEFINE rest == [amount_contributed EXCEPT ![u] = 0]
  <2>1. rest \in [Users -> Nat] /\ \A v \in Users \ {u} : rest[v] = amount_contributed[v]
    BY <1>1
  <2>2. Total(Claims(round.target_bid, round.total_bid, round.total_offer, vouchers \ {u},
                 rest), Users)
          = Total(claims, Users) - claims[u]
    <3>1. claims \in [Users -> Nat] /\ amount_contributed \in [Users -> Nat]
      BY <1>1, <1>3
    <3> HIDE DEF rest
    <3> QED
      BY <2>1, <3>1, ClaimRemoved
  <2>3. Claimed(round', vouchers', amount_contributed') =
          Total(Claims(round.target_bid, round.total_bid, round.total_offer, vouchers \ {u},
                 rest), Users)
    BY <1>1, <1>2 DEF Claimed
  <2> QED
    BY <1>3, <2>2, <2>3 DEF Claimed
<1>5. Contributed' = Contributed - amount_contributed[u] + 0
  <2>1. TypeInv
    BY DEF ClaimInv, MoneyInv, VoucherInv
  <2> QED
    BY <1>1, <2>1, ContributedUpdate
<1>6. /\ Contributed \in Nat /\ amount_contributed[u] \in Nat /\ redeem_amount(u) \in Nat
      /\ Claimed(round, vouchers, amount_contributed) \in Nat
      /\ round.total_bid \in Nat /\ Cardinality(Users) \in Nat
  <2>1. redeem_amount(u) \in Nat /\ Total(claims, Users) \in Nat
    BY <1>1, <1>3, TotalType
  <2>2. /\ Contributed \in Nat /\ amount_contributed[u] \in Nat
        /\ round.total_bid \in Nat /\ Cardinality(Users) \in Nat
    BY <1>1, TotalType, FS_CardinalityType
       DEF Contributed, ClaimInv, MoneyInv, VoucherInv, TypeInv, TotalSet
  <2> QED
    BY <2>1, <2>2 DEF Claimed
<1>7. /\ Contributed <= round.total_bid
      /\ 2 * (Claimed(round, vouchers, amount_contributed) - offer_wallet)
           <= Cardinality(Users)
  BY <1>1, <1>2 DEF ClaimInv, ClaimsBounded
<1>8. Contributed' <= round'.total_bid
  BY <1>2, <1>5, <1>6, <1>7
<1>9. 2 * (Claimed(round', vouchers', amount_contributed') - offer_wallet')
        <= Cardinality(Users)
  BY <1>1, <1>4, <1>6, <1>7
<1> QED
  BY <1>8, <1>9 DEF ClaimsBounded

\* Nothing is claimed before the heir accepts.
LEMMA ClaimInit == Init => ClaimInv
<1>1. Init => round.status \in {"Absent", "Pending"}
  BY DEF Init, Absent, NewRound
<1> QED
  BY <1>1, MoneyInit DEF ClaimInv, ClaimsBounded

\* Each instruction keeps the bound.
LEMMA ClaimStep == ClaimInv /\ [Next]_vars => ClaimInv'
<1> SUFFICES ASSUME ClaimInv, [Next]_vars PROVE ClaimsBounded'
  BY MoneyStep DEF ClaimInv
<1>T. /\ round \in RoundAccount /\ MoneyInv /\ ClaimsBounded
      /\ round.native /\ round.status \in {"Accepted", "Reconciliation"} => ~bid_wallet_open
  BY DEF ClaimInv, MoneyInv, VoucherInv, TypeInv, TypeOK, NativeSealed
<1>1. ASSUME NEW start \in Times, NEW end \in Times, NEW target \in Targets,
             NEW native \in Natives, NEW offer_amount \in 1 .. OfferFunds,
             create_round(start, end, target, offer_amount, native)
      PROVE  ClaimsBounded'
  BY <1>1 DEF create_round, NewRound, ClaimsBounded
<1>2. ASSUME NEW u \in Users, NEW amount \in Bids, contribute(u, amount)
      PROVE  ClaimsBounded'
  <2>1. bid_wallet_open /\ round'.status = round.status /\ round'.native = round.native
    BY <1>2, <1>T DEF contribute, ContributeAccounts, add_to_voucher, RoundAccount
  <2> QED
    BY <1>T, <2>1 DEF ClaimsBounded
<1>3. ASSUME NEW u \in Users, NEW sig \in BOOLEAN, withdraw(u, sig)
      PROVE  ClaimsBounded'
  <2>1. round'.status = round.status /\ round.status \notin {"Accepted", "Reconciliation"}
    BY <1>3, <1>T DEF withdraw, assert_can_withdraw, close_voucher, RoundAccount
  <2> QED
    BY <2>1 DEF ClaimsBounded
<1>4. ASSUME NEW with_authority \in BOOLEAN, accept(with_authority)
      PROVE  ClaimsBounded'
  BY <1>4, <1>T, AcceptClaims
<1>5. ASSUME NEW u \in Users, record_offchain_contribution(u)
      PROVE  ClaimsBounded'
  BY <1>5, <1>T, ClaimsUnmoved DEF record_offchain_contribution, wallets, RoundAccount
<1>6. ASSUME finish_reconciliation PROVE ClaimsBounded'
  BY <1>6, <1>T, ClaimsUnmoved
     DEF finish_reconciliation, assert_can_finish_reconciliation, voucher_accounts, wallets,
         RoundAccount
<1>7. ASSUME reject PROVE ClaimsBounded'
  <2>1. round'.status = "Rejected"
    BY <1>7, <1>T DEF reject, RoundAccount
  <2> QED
    BY <2>1 DEF ClaimsBounded
<1>8. ASSUME NEW u \in Users, reject_bid(u) PROVE ClaimsBounded'
  <2>1. round'.status = round.status /\ round.status = "Pending"
    BY <1>8, <1>T DEF reject_bid, assert_can_reject_bid, close_voucher, RoundAccount
  <2> QED
    BY <2>1 DEF ClaimsBounded
<1>9. ASSUME NEW u \in Users, redeem(u) PROVE ClaimsBounded'
  BY <1>9, RedeemClaims
<1>10. ASSUME cancel \/ close PROVE ClaimsBounded'
  BY <1>10 DEF cancel, close, Absent, ClaimsBounded
<1>11. ASSUME migrate PROVE ClaimsBounded'
  BY <1>11, <1>T, ClaimsUnmoved DEF migrate, voucher_accounts, wallets, RoundAccount
<1>12. ASSUME Tick \/ Surroundings \/ UNCHANGED vars PROVE ClaimsBounded'
  BY <1>12, <1>T, ClaimsUnmoved DEF Tick, Surroundings, vars, voucher_accounts, wallets
<1> QED
  BY <1>1, <1>2, <1>3, <1>4, <1>5, <1>6, <1>7, <1>8, <1>9, <1>10, <1>11, <1>12 DEF Next

\* Rounding never makes the vouchers of an accepted wrapped SOL round claim more
\* than half a unit each above what is left of the offer, in whatever order and
\* number they are redeemed.
THEOREM ClaimsWithinHalf == Spec => []OverclaimBounded
<1>1. ClaimInv => OverclaimBounded
  <2> SUFFICES ASSUME ClaimInv, round.native, round.status = "Accepted"
               PROVE  2 * (Total([u \in vouchers |-> redeem_amount(u)], vouchers) - offer_wallet)
                        <= Cardinality(Users)
    BY DEF OverclaimBounded
  <2> DEFINE open == [u \in vouchers |-> redeem_amount(u)]
             claims == Claims(round.target_bid, round.total_bid, round.total_offer, vouchers,
                              amount_contributed)
  <2>1. vouchers \in SUBSET Users /\ 2 * (Total(claims, Users) - offer_wallet) <= Cardinality(Users)
    BY DEF Claimed, ClaimInv, ClaimsBounded, MoneyInv, VoucherInv, TypeInv, TypeOK
  <2>2. /\ \A u \in vouchers : claims[u] = open[u]
        /\ \A u \in Users \ vouchers : claims[u] = 0
    BY <2>1 DEF Claims, redeem_amount
  <2>3. Units(open, vouchers) = Units(claims, Users)
    <3> HIDE DEF open, claims
    <3> QED
      BY <2>1, <2>2 DEF Units
  <2> QED
    BY <2>1, <2>3 DEF Total
<1> QED
  BY <1>1, ClaimInit, ClaimStep, PTL DEF Spec

-----------------------------------------------------------------------------
(* A round of wrapped SOL implements BidEscrow.                             *)

\* In an instance where every bid mint is wrapped SOL, every round is native.
AllNative == round.status # "Absent" => round.native

EscrowInv == MoneyInv /\ AllNative

\* The holdings the mapping shows.
Held == [u \in Users |-> IF Decided THEN 0 ELSE amount_contributed[u]]

\* A legacy round is a wrapped SOL one when no other mint is used.
LEMMA NativeInit == Natives = {TRUE} /\ Init => AllNative
BY DEF Init, AllNative, Absent, NewRound

\* Every round that create_round makes is then a wrapped SOL one.
LEMMA NativeStep == Natives = {TRUE} /\ EscrowInv /\ [Next]_vars => AllNative'
<1> SUFFICES ASSUME Natives = {TRUE}, EscrowInv, [Next]_vars PROVE AllNative'
  OBVIOUS
<1>R. round \in RoundAccount
  BY DEF EscrowInv, MoneyInv, VoucherInv, TypeInv, TypeOK
<1>1. ASSUME NEW start \in Times, NEW end \in Times, NEW target \in Targets,
             NEW native \in Natives, NEW offer_amount \in 1 .. OfferFunds,
             create_round(start, end, target, offer_amount, native)
      PROVE  AllNative'
  BY <1>1 DEF create_round, NewRound, AllNative
<1>2. CASE cancel \/ close
  BY <1>2, AbsentType DEF cancel, close, AllNative
<1>3. ASSUME round'.native = round.native, round.status # "Absent" PROVE AllNative'
  BY <1>3 DEF AllNative, EscrowInv
<1>4. CASE Tick \/ Surroundings \/ UNCHANGED vars
  BY <1>4 DEF Tick, Surroundings, vars, AllNative, EscrowInv
<1>5. ASSUME NEW u \in Users, NEW amount \in Bids, contribute(u, amount) PROVE AllNative'
  BY <1>R, <1>3, <1>5 DEF contribute, delegated, add_to_voucher, ContributeAccounts, RoundAccount
<1>6. ASSUME NEW u \in Users, NEW sig \in BOOLEAN, withdraw(u, sig) PROVE AllNative'
  BY <1>R, <1>3, <1>6 DEF withdraw, WithdrawAccounts, close_voucher, RoundAccount
<1>7. ASSUME NEW u \in Users, reject_bid(u) PROVE AllNative'
  BY <1>R, <1>3, <1>7 DEF reject_bid, RejectBidAccounts, close_voucher, RoundAccount
<1>8. ASSUME NEW u \in Users, redeem(u) PROVE AllNative'
  BY <1>R, <1>3, <1>8 DEF redeem, RedeemAccounts, close_voucher, RoundAccount
<1>9. ASSUME NEW u \in Users, record_offchain_contribution(u) PROVE AllNative'
  BY <1>R, <1>3, <1>9
  DEF record_offchain_contribution, RecordOffchainContributionAccounts, RoundAccount
<1>10. ASSUME NEW with_authority \in BOOLEAN, accept(with_authority) PROVE AllNative'
  BY <1>R, <1>3, <1>10 DEF accept, AcceptAccounts, RoundAccount
<1>11. CASE finish_reconciliation
  BY <1>R, <1>3, <1>11 DEF finish_reconciliation, FinishReconciliationAccounts, RoundAccount
<1>12. CASE reject
  BY <1>R, <1>3, <1>12 DEF reject, RejectAccounts, RoundAccount
<1>13. CASE migrate
  BY <1>R, <1>3, <1>13 DEF migrate, MigrateAccounts, RoundAccount
<1> QED
  BY <1>1, <1>2, <1>4, <1>5, <1>6, <1>7, <1>8, <1>9, <1>10, <1>11, <1>12, <1>13 DEF Next

\* The initial states are initial states of the escrow.
LEMMA RefineInit == Init => Escrow!Init
<1> SUFFICES ASSUME Init PROVE Escrow!Init
  OBVIOUS
<1>1. ~Decided
  BY DEF Init, Decided, Absent, NewRound
<1> QED
  BY <1>1 DEF Init, Escrow!Init

\* A step that changes neither a wallet, a bid nor the decision is invisible.
LEMMA RefineStutter ==
    ASSUME Decided' <=> Decided, UNCHANGED <<amount_contributed, user_bid, recipient>>
    PROVE  UNCHANGED Escrow!escrow
BY DEF Escrow!escrow

\* The end of a round: with no voucher left the escrow is empty.
LEMMA RefineClosing ==
    ASSUME MoneyInv, round.vouchers_count = 0, round' = Absent,
           UNCHANGED <<amount_contributed, user_bid, recipient>>
    PROVE  [Escrow!Next]_(Escrow!escrow)
<1>1. \A u \in Users : amount_contributed[u] = 0
  BY NoneCounted DEF MoneyInv, VoucherInv, TypeInv, TypeOK, VouchersHoldBids
<1>2. ~Decided'
  BY AbsentType DEF Decided
<1>3. CASE Decided
  <2>1. Held = Held'
    BY <1>1, <1>3 DEF Held
  <2> QED
    BY <1>2, <1>3, <2>1 DEF Escrow!Next, Escrow!Reopen, Held
<1>4. CASE ~Decided
  <2>1. Decided' <=> Decided
    BY <1>2, <1>4
  <2> QED
    BY <2>1, RefineStutter
<1> QED
  BY <1>3, <1>4

\* A refund of the program is a refund of the escrow.
LEMMA RefineRefund ==
    ASSUME MoneyInv, NEW u \in vouchers, close_voucher(u), refund_bid_to_recipient(u),
           round.status \in {"Pending", "Rejected"}, recipient' = recipient
    PROVE  Escrow!Refund(u)
<1>1. /\ u \in Users /\ amount_contributed \in [Users -> Nat] /\ TypeInv
  BY DEF MoneyInv, VoucherInv, TypeInv, TypeOK
<1>2. ~Decided /\ ~Decided'
  BY <1>1, CloseVoucherType DEF Decided
<1>3. Held' = [Held EXCEPT ![u] = 0] /\ Held[u] = amount_contributed[u]
  BY <1>1, <1>2 DEF Held, close_voucher
<1> QED
  BY <1>1, <1>2, <1>3 DEF Escrow!Refund, Held, refund_bid_to_recipient

\* Every instruction of a wrapped SOL round is a step of the escrow or a
\* stutter.
LEMMA RefineStep ==
    Natives = {TRUE} /\ EscrowInv /\ [Next]_vars => [Escrow!Next]_(Escrow!escrow)
<1> SUFFICES ASSUME Natives = {TRUE}, EscrowInv, [Next]_vars
             PROVE  [Escrow!Next]_(Escrow!escrow)
  OBVIOUS
<1>T. /\ MoneyInv /\ TypeInv /\ round \in RoundAccount
      /\ amount_contributed \in [Users -> Nat] /\ user_bid \in [Users -> Nat]
  BY DEF EscrowInv, MoneyInv, VoucherInv, TypeInv, TypeOK
<1>1. ASSUME NEW start \in Times, NEW end \in Times, NEW target \in Targets,
             NEW native \in Natives, NEW offer_amount \in 1 .. OfferFunds,
             create_round(start, end, target, offer_amount, native)
      PROVE  [Escrow!Next]_(Escrow!escrow)
  <2>1. ~Decided /\ ~Decided'
    BY <1>1 DEF create_round, CreateRoundAccounts, NewRound, Decided
  <2>2. Decided' <=> Decided
    BY <2>1
  <2> QED
    BY <1>1, <2>2, RefineStutter DEF create_round, voucher_accounts
<1>2. ASSUME NEW u \in Users, NEW amount \in Bids, contribute(u, amount)
      PROVE  Escrow!Deposit(u)
  <2>1. ~Decided
    BY <1>2, <1>T
    DEF contribute, delegated, add_to_voucher, ContributeAccounts, EscrowInv, AllNative, MoneyInv, NativeSealed, Decided
  <2>2. ~Decided'
    BY <1>2, <1>T, <2>1 DEF contribute, delegated, add_to_voucher, RoundAccount, Decided
  <2>3. /\ Held' = [Held EXCEPT ![u] = @ + amount]
        /\ user_bid' = [user_bid EXCEPT ![u] = @ - amount]
    BY <1>2, <1>T, <2>1, <2>2 DEF contribute, delegated, add_to_voucher, Held
  <2>4. amount \in 1 .. user_bid[u]
    BY <1>2, <1>T, ConstantsAssumption DEF contribute, delegated, add_to_voucher
  <2> QED
    BY <1>2, <2>1, <2>2, <2>3, <2>4 DEF contribute, delegated, add_to_voucher, Escrow!Deposit, Held
<1>3. ASSUME NEW u \in Users, NEW sig \in BOOLEAN, withdraw(u, sig)
      PROVE  Escrow!Refund(u)
  <2>1. round.status \in {"Pending", "Rejected"}
    BY <1>3, <1>T DEF withdraw, WithdrawAccounts, assert_can_withdraw, RoundAccount, RoundStatus
  <2> QED
    BY <1>3, <1>T, <2>1, RefineRefund DEF withdraw, WithdrawAccounts
<1>4. ASSUME NEW with_authority \in BOOLEAN, accept(with_authority)
      PROVE  Escrow!Release
  <2>1. round.status = "Pending"
    BY <1>4 DEF accept, assert_can_accept_or_reject
  <2>2. ~Decided /\ Decided'
    BY <1>4, <1>T, <2>1 DEF accept, RoundAccount, Decided
  <2>3. Held = amount_contributed /\ Held' = [u \in Users |-> 0]
    BY <1>T, <2>2 DEF Held
  <2>4. recipient' = recipient + Total(amount_contributed, Users)
    BY <1>4, <1>T, <2>1
    DEF accept, transfer_bid_to_recipient, MoneyInv, BidsBacked, Contributed
  <2>5. /\ [u \in Users |-> IF Decided THEN 0 ELSE amount_contributed[u]] = amount_contributed
        /\ [u \in Users |-> IF Decided' THEN 0 ELSE amount_contributed'[u]] = [u \in Users |-> 0]
    BY <2>3 DEF Held
  <2>6. user_bid' = user_bid
    BY <1>4 DEF accept
  <2> QED
    BY <2>2, <2>4, <2>5, <2>6 DEF Escrow!Release
<1>5. ASSUME NEW u \in Users, record_offchain_contribution(u)
      PROVE  [Escrow!Next]_(Escrow!escrow)
  <2>1. Decided' <=> Decided
    BY <1>5, <1>T DEF record_offchain_contribution, RoundAccount, Decided
  <2> QED
    BY <1>5, <2>1, RefineStutter DEF record_offchain_contribution, outside
<1>6. ASSUME finish_reconciliation PROVE [Escrow!Next]_(Escrow!escrow)
  <2>1. Decided' <=> Decided
    BY <1>6, <1>T DEF finish_reconciliation, assert_can_finish_reconciliation, RoundAccount, Decided
  <2> QED
    BY <1>6, <2>1, RefineStutter DEF finish_reconciliation, voucher_accounts, outside
<1>7. ASSUME reject PROVE [Escrow!Next]_(Escrow!escrow)
  <2>1. Decided' <=> Decided
    BY <1>7, <1>T DEF reject, assert_can_accept_or_reject, RoundAccount, Decided
  <2> QED
    BY <1>7, <2>1, RefineStutter DEF reject, voucher_accounts
<1>8. ASSUME NEW u \in Users, reject_bid(u) PROVE Escrow!Refund(u)
  <2>1. round.status = "Pending"
    BY <1>8 DEF reject_bid, assert_can_reject_bid
  <2> QED
    BY <1>8, <1>T, <2>1, RefineRefund DEF reject_bid, RejectBidAccounts
<1>9. ASSUME NEW u \in Users, redeem(u) PROVE [Escrow!Next]_(Escrow!escrow)
  <2>1. Decided /\ Decided'
    BY <1>9, <1>T, CloseVoucherType DEF redeem, assert_can_redeem, Decided
  <2>2. Held' = Held
    BY <2>1 DEF Held
  <2> QED
    BY <1>9, <2>1, <2>2 DEF redeem, Escrow!escrow, Held
<1>10. ASSUME cancel PROVE [Escrow!Next]_(Escrow!escrow)
  BY <1>10, <1>T, RefineClosing DEF cancel, voucher_accounts
<1>11. ASSUME close PROVE [Escrow!Next]_(Escrow!escrow)
  <2>1. round.vouchers_count = 0
    BY <1>11, <1>T DEF close, assert_can_close, RoundAccount
  <2> QED
    BY <1>11, <1>T, <2>1, RefineClosing DEF close, voucher_accounts
<1>12. ASSUME migrate PROVE [Escrow!Next]_(Escrow!escrow)
  <2>1. Decided' <=> Decided
    BY <1>12, <1>T DEF migrate, RoundAccount, Decided
  <2> QED
    BY <1>12, <2>1, RefineStutter DEF migrate, voucher_accounts, outside
<1>13. ASSUME Tick \/ Surroundings PROVE [Escrow!Next]_(Escrow!escrow)
  BY <1>13, RefineStutter DEF Tick, Surroundings, voucher_accounts, outside, Decided
<1>14. ASSUME UNCHANGED vars PROVE [Escrow!Next]_(Escrow!escrow)
  BY <1>14, RefineStutter DEF vars, voucher_accounts, outside, Decided
<1> QED
  BY <1>1, <1>2, <1>3, <1>4, <1>5, <1>6, <1>7, <1>8, <1>9, <1>10, <1>11, <1>12, <1>13,
     <1>14 DEF Next, Escrow!Next

\* A wrapped SOL round is an escrow: bids are refunded in full to who made them
\* or released once and all together, through any number of rounds at the
\* address.
THEOREM Refinement == ASSUME Natives = {TRUE} PROVE Spec => ImplementsEscrow
<1>1. Init => EscrowInv /\ Escrow!Init
  BY NativeInit, MoneyInit, RefineInit DEF EscrowInv
<1>2. EscrowInv /\ [Next]_vars => EscrowInv'
  BY NativeStep, MoneyStep DEF EscrowInv
<1>3. EscrowInv /\ [Next]_vars => [Escrow!Next]_(Escrow!escrow)
  BY RefineStep
<1> QED
  BY <1>1, <1>2, <1>3, PTL DEF Spec, ImplementsEscrow, Escrow!Spec

-----------------------------------------------------------------------------
(* What the program promises to those that read its rounds, for every mint. *)

\* What is known of the fields RoundLife shows, and of the deadlines that keep a
\* round from being cancelled during a reconciliation.
Intact ==
    /\ round.status = "Absent" => round.total_offer = 0 /\ offer_wallet = 0
    /\ round.status = "Pending" => round.total_offer = offer_wallet
    /\ round.status # "Absent" => round.bidding_start < round.bidding_end
    /\ round.status = "Reconciliation" => round.bidding_start < now

LifeInv == TypeInv /\ Intact

\* One step of RoundLifeKept.
Kept ==
    AsLife' # AsLife =>
        \/ /\ AsLife = Life!Gone
           /\ AsLife' = Life!Opened(offer_wallet')
           /\ NotOffered' = NotOffered - offer_wallet'
        \/ /\ AsLife' \in Life!Successors(AsLife, 1 .. offer_wallet)
           /\ NotOffered' = NotOffered + Life!Returned(AsLife, AsLife')

\* At first the address is unused, or a legacy round holds what it offers.
LEMMA IntactInit == Init => Intact
BY ConstantsAssumption DEF Init, Intact, Absent, NewRound

\* A step that leaves the fields alone is invisible.
LEMMA Unseen ==
    ASSUME LifeInv, round'.status = round.status, round'.total_offer = round.total_offer,
           round'.bidding_start = round.bidding_start,
           round'.bidding_end = round.bidding_end,
           offer_wallet' = offer_wallet, now' \in {now, now + 1}
    PROVE  Intact' /\ Kept
<1>1. round \in RoundAccount /\ now \in Nat
  BY DEF LifeInv, TypeInv, TypeOK
<1>2. AsLife' = AsLife
  BY DEF AsLife
<1>3. Intact'
  BY <1>1 DEF Intact, LifeInv, RoundAccount
<1>. QED
  BY <1>2, <1>3 DEF Kept

\* The end of a round returns the offer, to one wallet or the other.
LEMMA Returning ==
    ASSUME LifeInv, round.return_wallet # "default", transfer_offer_back_to_heir
    PROVE  NotOffered' = NotOffered + offer_wallet /\ offer_wallet' = 0
<1>1. /\ round \in RoundAccount /\ offer_wallet \in Nat
      /\ return_wallets \in [{"source", "heir_ata"} -> Nat]
  BY DEF LifeInv, TypeInv, TypeOK
<1>2. round.return_wallet \in {"source", "heir_ata"}
  BY <1>1 DEF RoundAccount
<1>3. return_wallets' =
        [return_wallets EXCEPT ![round.return_wallet] = @ + offer_wallet]
  BY DEF transfer_offer_back_to_heir
<1>4. CASE round.return_wallet = "source"
  BY <1>1, <1>3, <1>4 DEF NotOffered, transfer_offer_back_to_heir
<1>5. CASE round.return_wallet = "heir_ata"
  BY <1>1, <1>3, <1>5 DEF NotOffered, transfer_offer_back_to_heir
<1>. QED
  BY <1>2, <1>4, <1>5

\* A step that ends a round, as RoundLife sees it.
LEMMA Ending ==
    ASSUME LifeInv, round.return_wallet # "default", transfer_offer_back_to_heir,
           round.status \in {"Pending", "Accepted", "Rejected"}, round' = Absent
    PROVE  Intact' /\ Kept
<1>1. offer_wallet' = 0 /\ NotOffered' = NotOffered + offer_wallet
  BY Returning
<1>2. AsLife' = Life!Gone
  BY <1>1 DEF AsLife, Life!Gone, Absent
<1>3. AsLife.status = round.status /\ AsLife.held = offer_wallet
  BY DEF AsLife
<1>4. AsLife' \in Life!Closed(AsLife)
  BY <1>2, <1>3 DEF Life!Closed
<1>5. Life!Returned(AsLife, AsLife') = offer_wallet
  BY <1>2, <1>3 DEF Life!Returned, Life!Gone
<1>6. Intact'
  BY <1>1 DEF Intact, Absent
<1>. QED
  BY <1>1, <1>4, <1>5, <1>6 DEF Kept, Life!Successors

\* The heir's decisions, and the end of a reconciliation.
LEMMA Deciding ==
    ASSUME LifeInv, NEW with_authority \in BOOLEAN,
           accept(with_authority) \/ finish_reconciliation \/ reject
    PROVE  Intact' /\ Kept
<1>T. round \in RoundAccount /\ offer_wallet \in Nat /\ now \in Nat
  BY DEF LifeInv, TypeInv, TypeOK
<1>1. CASE accept(with_authority)
  <2>1. /\ round.status = "Pending" /\ ~(now < round.bidding_end)
        /\ offer_wallet' = offer_wallet /\ now' = now /\ return_wallets' = return_wallets
        /\ round' = [round EXCEPT
                       !.total_bid = bid_wallet, !.total_offer = offer_wallet,
                       !.status = IF with_authority THEN "Reconciliation" ELSE "Accepted"]
    BY <1>1 DEF accept, assert_can_accept_or_reject
  <2>2. /\ round.bidding_start < now /\ round.total_offer = offer_wallet
        /\ round.bidding_start < round.bidding_end
    BY <1>T, <2>1 DEF LifeInv, Intact, RoundAccount
  <2>3. /\ round'.status = (IF with_authority THEN "Reconciliation" ELSE "Accepted")
        /\ round'.total_offer = offer_wallet
        /\ round'.bidding_start = round.bidding_start
        /\ round'.bidding_end = round.bidding_end
    BY <1>T, <2>1 DEF RoundAccount
  <2>4. Intact'
    BY <1>T, <2>1, <2>2, <2>3 DEF Intact
  <2>5. AsLife' \in Life!Decisions(AsLife)
    BY <2>1, <2>2, <2>3 DEF AsLife, Life!Decisions
  <2>6. Life!Returned(AsLife, AsLife') = 0
    BY <2>3 DEF AsLife, Life!Returned
  <2>7. NotOffered' = NotOffered + 0
    BY <2>1 DEF NotOffered, LifeInv, TypeInv, TypeOK
  <2>. QED
    BY <2>4, <2>5, <2>6, <2>7 DEF Kept, Life!Successors
<1>2. CASE finish_reconciliation
  <2>1. /\ round.status = "Reconciliation"
        /\ offer_wallet' = offer_wallet /\ now' = now /\ return_wallets' = return_wallets
        /\ round' = [round EXCEPT !.status = "Accepted"]
    BY <1>2 DEF finish_reconciliation, assert_can_finish_reconciliation, wallets, outside
  <2>2. /\ round'.status = "Accepted" /\ round'.total_offer = round.total_offer
        /\ round'.bidding_start = round.bidding_start
        /\ round'.bidding_end = round.bidding_end
    BY <1>T, <2>1 DEF RoundAccount
  <2>3. Intact'
    BY <2>1, <2>2 DEF Intact, LifeInv
  <2>4. AsLife' \in Life!Reconciled(AsLife)
    BY <2>1, <2>2 DEF AsLife, Life!Reconciled
  <2>5. Life!Returned(AsLife, AsLife') = 0
    BY <2>2 DEF AsLife, Life!Returned
  <2>6. NotOffered' = NotOffered + 0
    BY <2>1 DEF NotOffered, LifeInv, TypeInv, TypeOK
  <2>. QED
    BY <2>3, <2>4, <2>5, <2>6 DEF Kept, Life!Successors
<1>3. CASE reject
  <2>1. /\ round.status = "Pending" /\ round.return_wallet # "default"
        /\ transfer_offer_back_to_heir
        /\ round' = [round EXCEPT !.status = "Rejected"]
    BY <1>3 DEF reject, assert_can_accept_or_reject, RejectAccounts
  <2>2. /\ round'.status = "Rejected" /\ round'.total_offer = round.total_offer
        /\ round'.bidding_start = round.bidding_start
        /\ round'.bidding_end = round.bidding_end
    BY <1>T, <2>1 DEF RoundAccount
  <2>3. offer_wallet' = 0 /\ NotOffered' = NotOffered + offer_wallet
    BY <2>1, Returning
  <2>4. Intact'
    BY <2>1, <2>2 DEF Intact, LifeInv
  <2>5. AsLife' \in Life!Decisions(AsLife)
    <3>1. AsLife.status = "Pending" /\ AsLife.total_offer = round.total_offer
      BY <2>1 DEF AsLife
    <3>2. AsLife' = [status |-> "Rejected", total_offer |-> round.total_offer, held |-> 0]
      BY <2>2, <2>3 DEF AsLife
    <3>. QED
      BY <3>1, <3>2 DEF Life!Decisions
  <2>6. Life!Returned(AsLife, AsLife') = offer_wallet
    BY <2>2 DEF AsLife, Life!Returned
  <2>. QED
    BY <2>3, <2>4, <2>5, <2>6 DEF Kept, Life!Successors
<1>. QED
  BY <1>1, <1>2, <1>3

\* Redeeming pays from the offer wallet, or pays nothing.
LEMMA Redeeming ==
    ASSUME LifeInv, NEW u \in Users, redeem(u)
    PROVE  Intact' /\ Kept
<1>T. /\ round \in RoundAccount /\ offer_wallet \in Nat
      /\ amount_contributed \in [Users -> Nat]
  BY DEF LifeInv, TypeInv, TypeOK
<1>1. /\ round.status = "Accepted" /\ redeem_amount(u) # None
      /\ offer_wallet >= redeem_amount(u)
      /\ offer_wallet' = offer_wallet - redeem_amount(u)
      /\ round' = [round EXCEPT !.vouchers_count = @ - 1]
      /\ now' = now /\ return_wallets' = return_wallets
  BY DEF redeem, assert_can_redeem, transfer_to_user, close_voucher
<1>2. redeem_amount(u) \in Nat
  <2>1. round.total_bid \in Nat
    BY <1>1 DEF LifeInv, TypeInv, TotalSet
  <2>2. /\ round.target_bid \in Nat /\ round.total_offer \in Nat
        /\ amount_contributed[u] \in Nat
    BY <1>T DEF RoundAccount
  <2>3. (IF round.target_bid # 0 THEN round.target_bid ELSE round.total_bid) \in Nat
    BY <2>1, <2>2
  <2>4. redeem_amount(u) \in Nat \cup {None}
    BY <2>1, <2>2, <2>3, RedeemAmountType DEF redeem_amount
  <2>. QED
    BY <1>1, <2>4
<1>3. /\ round'.status = round.status /\ round'.total_offer = round.total_offer
      /\ round'.bidding_start = round.bidding_start
      /\ round'.bidding_end = round.bidding_end
  BY <1>T, <1>1 DEF RoundAccount
<1>4. Intact'
  BY <1>1, <1>3 DEF Intact, LifeInv
<1>5. CASE redeem_amount(u) = 0
  BY <1>T, <1>1, <1>3, <1>4, <1>5, Unseen
<1>6. CASE redeem_amount(u) > 0
  <2>1. /\ redeem_amount(u) \in 1 .. offer_wallet
        /\ AsLife.status = "Accepted" /\ AsLife.held = offer_wallet
    BY <1>T, <1>1, <1>2, <1>6 DEF AsLife
  <2>2. AsLife' = [AsLife EXCEPT !.held = @ - redeem_amount(u)]
    BY <1>1, <1>3 DEF AsLife
  <2>3. AsLife' \in Life!Redeemed(AsLife, 1 .. offer_wallet)
    BY <1>T, <1>1, <2>1, <2>2 DEF Life!Redeemed
  <2>4. Life!Returned(AsLife, AsLife') = 0
    BY <1>1, <1>3 DEF AsLife, Life!Returned
  <2>5. NotOffered' = NotOffered + 0
    BY <1>1 DEF NotOffered, LifeInv, TypeInv, TypeOK
  <2>. QED
    BY <1>4, <2>3, <2>4, <2>5 DEF Kept, Life!Successors
<1>. QED
  BY <1>2, <1>5, <1>6

\* A round begins at an unused address, with all that is offered in its wallet.
LEMMA Beginning ==
    ASSUME LifeInv, NEW start \in Times, NEW end \in Times, NEW target \in Targets,
           NEW native \in Natives, NEW offer \in 1 .. OfferFunds,
           create_round(start, end, target, offer, native)
    PROVE  Intact' /\ Kept
<1>1. /\ round.status = "Absent" /\ start < end /\ offer_wallet' = offer
      /\ return_wallets' = [return_wallets EXCEPT !["source"] = @ - offer]
      /\ round' = NewRound(start, end, target, offer, "source", native)
  BY DEF create_round, CreateRoundAccounts
<1>2. AsLife = Life!Gone
  BY <1>1 DEF LifeInv, Intact, AsLife, Life!Gone
<1>3. /\ round'.status = "Pending" /\ round'.total_offer = offer
      /\ round'.bidding_start = start /\ round'.bidding_end = end
  BY <1>1 DEF NewRound
<1>4. AsLife' = Life!Opened(offer)
  BY <1>1, <1>3 DEF AsLife, Life!Opened
<1>5. NotOffered' = NotOffered - offer
  <2>1. return_wallets \in [{"source", "heir_ata"} -> Nat] /\ offer \in Int
    BY DEF LifeInv, TypeInv, TypeOK
  <2>2. /\ return_wallets'["source"] = return_wallets["source"] - offer
        /\ return_wallets'["heir_ata"] = return_wallets["heir_ata"]
    BY <1>1, <2>1
  <2>. QED
    BY <2>1, <2>2 DEF NotOffered
<1>6. Intact'
  BY <1>1, <1>3 DEF Intact
<1>. QED
  BY <1>1, <1>2, <1>4, <1>5, <1>6 DEF Kept

\* Every instruction keeps the invariant and is a step of RoundLife.
LEMMA LifeStep == LifeInv /\ [Next]_vars => LifeInv' /\ Kept
<1> SUFFICES ASSUME LifeInv, [Next]_vars PROVE Intact' /\ Kept
  BY TypeStep DEF LifeInv
<1>T. /\ round \in RoundAccount /\ offer_wallet \in Nat /\ now \in Nat
  BY DEF LifeInv, TypeInv, TypeOK
<1>1. ASSUME NEW start \in Times, NEW end \in Times, NEW target \in Targets,
             NEW native \in Natives, NEW offer \in 1 .. OfferFunds,
             create_round(start, end, target, offer, native)
      PROVE  Intact' /\ Kept
  BY <1>1, Beginning
<1>2. ASSUME NEW u \in Users, NEW amount \in Bids, contribute(u, amount)
      PROVE  Intact' /\ Kept
  BY <1>2, <1>T, Unseen DEF contribute, add_to_voucher, RoundAccount
<1>3. ASSUME NEW u \in Users, NEW signed \in BOOLEAN, withdraw(u, signed)
      PROVE  Intact' /\ Kept
  BY <1>3, <1>T, Unseen DEF withdraw, close_voucher, RoundAccount
<1>4. ASSUME NEW with_authority \in BOOLEAN, accept(with_authority)
      PROVE  Intact' /\ Kept
  BY <1>4, Deciding
<1>5. ASSUME NEW u \in Users, record_offchain_contribution(u)
      PROVE  Intact' /\ Kept
  BY <1>5, <1>T, Unseen DEF record_offchain_contribution, wallets, RoundAccount
<1>6. ASSUME finish_reconciliation \/ reject PROVE Intact' /\ Kept
  BY <1>6, Deciding
<1>7. ASSUME NEW u \in Users, reject_bid(u) PROVE Intact' /\ Kept
  BY <1>7, <1>T, Unseen DEF reject_bid, close_voucher, RoundAccount
<1>8. ASSUME NEW u \in Users, redeem(u) PROVE Intact' /\ Kept
  BY <1>8, Redeeming
<1>9. ASSUME cancel PROVE Intact' /\ Kept
  <2>1. /\ round.status # "Absent" /\ round.return_wallet # "default"
        /\ ~(now > round.bidding_start) /\ transfer_offer_back_to_heir /\ round' = Absent
    BY <1>9 DEF cancel, CancelAccounts, assert_can_cancel
  <2>2. round.status \in {"Pending", "Accepted", "Rejected"}
    BY <1>T, <2>1 DEF RoundAccount, RoundStatus, LifeInv, Intact
  <2>. QED
    BY <2>1, <2>2, Ending
<1>10. ASSUME close PROVE Intact' /\ Kept
  <2>1. /\ round.return_wallet # "default" /\ assert_can_close = "Ok"
        /\ transfer_offer_back_to_heir /\ round' = Absent
    BY <1>10 DEF close, CloseAccounts
  <2>2. round.status \in {"Pending", "Accepted", "Rejected"}
    BY <2>1 DEF assert_can_close
  <2>. QED
    BY <2>1, <2>2, Ending
<1>11. ASSUME migrate PROVE Intact' /\ Kept
  BY <1>11, <1>T, Unseen DEF migrate, wallets, RoundAccount
<1>12. ASSUME Tick \/ Surroundings PROVE Intact' /\ Kept
  BY <1>12, Unseen DEF Tick, Surroundings, wallets
<1>13. ASSUME UNCHANGED vars PROVE Intact' /\ Kept
  BY <1>13, Unseen DEF vars, wallets
<1> QED
  BY <1>1, <1>2, <1>3, <1>4, <1>5, <1>6, <1>7, <1>8, <1>9, <1>10, <1>11, <1>12, <1>13
     DEF Next

\* Whatever the mints, a program that opens a round and reads it later sees
\* only what RoundLife promises: what is offered is what is recorded, it is
\* paid out only once the round is accepted, and the rest goes back.
THEOREM LifeKept == Spec => RoundLifeKept
<1>1. Init => LifeInv
  BY IntactInit, TypeInit DEF LifeInv
<1>2. LifeInv /\ [Next]_vars => LifeInv' /\ [Kept]_vars
  BY LifeStep
<1> QED
  BY <1>1, <1>2, PTL DEF Spec, RoundLifeKept, Kept
=============================================================================
