-------------------------------- MODULE Round --------------------------------
(***************************************************************************)
(* The round program (round/src/lib.rs, round/src/state.rs): the heir of a *)
(* token offers an amount of it, users deposit bids until bidding_end, and *)
(* the heir accepts (the bids go to the recipient, the users redeem their  *)
(* share of the offer) or rejects (everybody takes the bid back).  An heir *)
(* who does neither within the inactivity timeout loses the right to.      *)
(*                                                                         *)
(* One address of a round account is modelled, through creation, closing   *)
(* and creation again.  An instruction is atomic: it either succeeds, which*)
(* is a step, or fails and is rolled back, which is no step.  So the guard *)
(* of an action is the conjunction of the constraints of its accounts, the *)
(* checks of the handler and the failures of the token program it calls.   *)
(*                                                                         *)
(* Signatures: an action that only the heir, or only the reconciliation    *)
(* authority, may sign is simply taken by that actor.  Rent, and deposits  *)
(* made straight to the program's token wallets, are left out.             *)
(***************************************************************************)
EXTENDS PreciseNumber, UnitSum

CONSTANTS
    Users,          \* the wallets that may contribute
    TIMEOUT,        \* WITHDRAWAL_ENABLED_AFTER_INACTIVITY_TIMEOUT, in ticks
    MaxTime,        \* bound: the clock stops there
    Times,          \* bound: the values of bidding_start and bidding_end
    BidFunds,       \* what each user has to contribute
    OfferFunds,     \* what the source wallet has to offer
    Bids,           \* bound: the amounts a user delegates to a contribution
    Targets,        \* bound: the values of target_bid
    Natives         \* which bid mints there are: is the mint wrapped SOL?

ASSUME ConstantsAssumption ==
    /\ IsFiniteSet(Users)
    /\ TIMEOUT \in Nat /\ MaxTime \in Nat /\ Times \subseteq Nat
    /\ BidFunds \in Nat /\ OfferFunds \in Nat
    /\ Bids \subseteq Nat /\ Targets \subseteq Nat
    /\ Natives \subseteq BOOLEAN

VARIABLES
    now,                \* Clock::get()?.unix_timestamp
    round,              \* the Round account, Absent when there is none
    vouchers,           \* the users with a voucher under VOUCHER_SEED
    amount_contributed, \* the amount of that voucher, 0 without one
    offchain_vouchers,  \* the users with a voucher under OFFCHAIN_VOUCHER_SEED
    bid_wallet,         \* the bids held under BID_SEED
    bid_wallet_open,    \* is there a token account under BID_SEED?
    offer_wallet,       \* the offer held under OFFER_SEED
    user_bid,           \* the bid tokens of each user's own wallet
    user_offer,         \* the offer tokens each user has redeemed
    recipient,          \* the bids paid to round.recipient
    payer,              \* the bids that left with a closed wrapped SOL account
    return_wallets,     \* the offer tokens outside the program, by wallet
    authority_funded,   \* does the address under AUTHORITY_SEED hold lamports?
    closed_wallets      \* the users without an associated account for bid_mint

wallets == <<bid_wallet, bid_wallet_open, offer_wallet>>
outside == <<user_bid, user_offer, recipient, payer, return_wallets>>
voucher_accounts == <<vouchers, amount_contributed, offchain_vouchers>>
surroundings == <<authority_funded, closed_wallets>>
vars == <<now, round, voucher_accounts, wallets, outside, surroundings>>

-----------------------------------------------------------------------------
\* RoundStatus, and Absent for an address with no account.
RoundStatus == {"Pending", "Accepted", "Rejected", "Reconciliation"}

\* The fields of the Round account that an instruction reads.  return_wallet
\* is the wallet of the offer's source, or the heir's associated token
\* account, or unset in a round made by an earlier version of the program.
\* total_bid is an Option.  native says what kind of mint bid_mint is.
RoundAccount ==
    [status : RoundStatus \cup {"Absent"}, vouchers_count : Nat,
     bidding_start : Nat, bidding_end : Nat,
     total_bid : Nat \cup {None}, total_offer : Nat, target_bid : Nat,
     return_wallet : {"default", "source", "heir_ata"}, native : BOOLEAN]

Absent ==
    [status |-> "Absent", vouchers_count |-> 0,
     bidding_start |-> 0, bidding_end |-> 0,
     total_bid |-> None, total_offer |-> 0, target_bid |-> 0,
     return_wallet |-> "default", native |-> FALSE]

NewRound(start, end, target, offer, return, native) ==
    [status |-> "Pending", vouchers_count |-> 0,
     bidding_start |-> start, bidding_end |-> end,
     total_bid |-> None, total_offer |-> offer, target_bid |-> target,
     return_wallet |-> return, native |-> native]

-----------------------------------------------------------------------------
(* The checks of impl Round: "Ok", or the error they return.  The additions *)
(* on i64 cannot overflow for a bidding_end the clock can reach.            *)
(*                                                                          *)
(* A definition whose comment begins with "Variant" is a wrong version of   *)
(* the one that follows it, no part of the model: with it in place of the   *)
(* right one, TLC finds a property violated.                                *)

heir_timeout_date == round.bidding_end + TIMEOUT

\* Variant: the heir may stay inactive for ever.
can_withdraw_never == FALSE

can_withdraw_due_heir_inactivity == now > heir_timeout_date

\* Variant: the status is not looked at.
assert_can_accept_again ==
    IF can_withdraw_due_heir_inactivity THEN "OfferTimedOut"
    ELSE IF now < round.bidding_end THEN "BiddingStillGoing"
    ELSE "Ok"

assert_can_accept_or_reject ==
    IF round.status # "Pending" THEN "OfferIsNotPending"
    ELSE IF can_withdraw_due_heir_inactivity THEN "OfferTimedOut"
    ELSE IF now < round.bidding_end THEN "BiddingStillGoing"
    ELSE "Ok"

assert_can_contribute ==
    IF now < round.bidding_start THEN "BiddingNotStarted"
    ELSE IF round.bidding_end < now THEN "BiddingEnded"
    ELSE "Ok"

assert_can_contribute_offchain ==
    IF round.status # "Reconciliation"
    THEN "CantContributeFiatNotInReconciliation" ELSE "Ok"

assert_can_finish_reconciliation ==
    IF round.status # "Reconciliation"
    THEN "CantContributeFiatNotInReconciliation" ELSE "Ok"

assert_can_withdraw(user_is_signer) ==
    IF now < round.bidding_start THEN "BiddingNotStarted"
    ELSE IF round.status = "Reconciliation" THEN "CantWithdrawAcceptedOffer"
    ELSE IF round.status = "Accepted" THEN "CantWithdrawDuringReconciliation"
    ELSE IF /\ round.status = "Pending"
            /\ now > round.bidding_end
            /\ ~can_withdraw_due_heir_inactivity
         THEN "InactivityTimeoutHasNotPassed"
    ELSE IF ~user_is_signer /\ now < round.bidding_end
         THEN "CantWithdrawWithoutUserSignature"
    ELSE "Ok"

assert_can_reject_bid ==
    IF round.status # "Pending" THEN "OfferIsNotPending"
    ELSE IF now < round.bidding_end THEN "BiddingStillGoing"
    ELSE IF now > heir_timeout_date THEN "OfferTimedOut"
    ELSE "Ok"

\* Variant: redeeming does not wait for the end of the reconciliation.
assert_can_redeem_early ==
    IF round.status \notin {"Accepted", "Reconciliation"}
    THEN "CantRedeemNotAcceptedRound" ELSE "Ok"

assert_can_redeem ==
    IF round.status # "Accepted" THEN "CantRedeemNotAcceptedRound" ELSE "Ok"

assert_can_cancel ==
    IF now > round.bidding_start THEN "CantCancelStartedRound" ELSE "Ok"

\* Variant: vouchers do not keep a round from being closed.
assert_can_close_uncounted ==
    IF round.status = "Reconciliation" THEN "CantCloseDuringReconciliation"
    ELSE IF round.status = "Pending" /\ ~(now > heir_timeout_date)
         THEN "CantCloseBeforeHeirTimeout"
    ELSE "Ok"


assert_can_close ==
    IF round.vouchers_count > 0 THEN "VouchersNotWithdrawn"
    ELSE CASE round.status \in {"Accepted", "Rejected"} -> "Ok"
           [] round.status = "Pending" ->
                IF now > heir_timeout_date THEN "Ok"
                ELSE "CantCloseBeforeHeirTimeout"
           [] OTHER -> "CantCloseDuringReconciliation"

\* Variant: the share is of the target, even when the bids exceed it.
calculate_redeem_of_target(target_bid, bid_balance, bid, total_offer) ==
    LET share == checked_div(new(bid), new(target_bid))
    IN  IF share = None THEN None
        ELSE to_imprecise(checked_mul(share, new(total_offer)))

\* The share of the offer that a bid buys; None when nobody has bid and there
\* is no target to divide by.
calculate_redeem_amount(target_bid, bid_balance, bid, total_offer) ==
    LET whole == IF target_bid > bid_balance THEN target_bid ELSE bid_balance
        share == checked_div(new(bid), new(whole))
    IN  IF share = None THEN None
        ELSE to_imprecise(checked_mul(share, new(total_offer)))
-----------------------------------------------------------------------------
(* The constraints that #[derive(Accounts)] checks before the handler runs. *)
(* A has_one on an account the caller may name freely only fails when the   *)
(* account does not exist; return_wallet does not in a legacy round.        *)

CreateRoundAccounts == round.status = "Absent"

ContributeAccounts == round.status # "Absent" /\ bid_wallet_open

RecordOffchainContributionAccounts == round.status # "Absent"

WithdrawAccounts(u) ==
    round.status # "Absent" /\ u \in vouchers /\ bid_wallet_open

RejectBidAccounts(u) ==
    round.status # "Absent" /\ u \in vouchers /\ bid_wallet_open

AcceptAccounts == round.status # "Absent" /\ bid_wallet_open

RejectAccounts == round.status # "Absent" /\ round.return_wallet # "default"

RedeemAccounts(u) == round.status # "Absent" /\ u \in vouchers

CancelAccounts ==
    /\ round.status # "Absent"
    /\ round.return_wallet # "default"
    /\ bid_wallet_open

CloseAccounts == round.status # "Absent" /\ round.return_wallet # "default"

FinishReconciliationAccounts == round.status # "Absent"

MigrateAccounts == round.status # "Absent"

-----------------------------------------------------------------------------
(* The movements of tokens that several handlers share.                     *)

\* What contribute checks of the user's wallet, which the token program then
\* debits: something has been delegated, and it is there.
delegated(u, amount) == amount > 0 /\ user_bid[u] >= amount

\* Variant: a second contribution replaces the first.
overwrite_voucher(u, amount) ==
    /\ amount_contributed' = [amount_contributed EXCEPT ![u] = amount]
    /\ vouchers' = vouchers \cup {u}
    /\ round' = [round EXCEPT !.vouchers_count = IF u \in vouchers THEN @ ELSE @ + 1]
    /\ UNCHANGED offchain_vouchers

\* The amount is added to the user's voucher, which is counted when it is new.
add_to_voucher(u, amount) ==
    /\ amount_contributed' = [amount_contributed EXCEPT ![u] = @ + amount]
    /\ vouchers' = vouchers \cup {u}
    /\ round' = [round EXCEPT !.vouchers_count = IF u \in vouchers THEN @ ELSE @ + 1]
    /\ UNCHANGED offchain_vouchers

\* Variant: the refund is whatever the bid wallet holds.
refund_wallet_to_recipient(u) ==
    /\ bid_wallet' = 0
    /\ user_bid' = [user_bid EXCEPT ![u] = @ + bid_wallet]

\* The bid of a voucher goes back to its user.  Wrapped SOL passes through a
\* temporary token account, made at the authority's address and closed again,
\* and through the payer; the system program creates no account at an address
\* that holds lamports.  Any other token goes to the associated account, which
\* the instruction does not create.
refund_bid_to_recipient(u) ==
    /\ IF round.native THEN ~authority_funded ELSE u \notin closed_wallets
    /\ bid_wallet >= amount_contributed[u]
    /\ bid_wallet' = bid_wallet - amount_contributed[u]
    /\ user_bid' = [user_bid EXCEPT ![u] = @ + amount_contributed[u]]

\* Variant: a wrapped SOL wallet stays open.
transfer_bid_and_keep_wallet ==
    /\ recipient' = recipient + bid_wallet
    /\ bid_wallet' = 0
    /\ UNCHANGED bid_wallet_open

\* All that the bid wallet holds goes to the recipient.  A wrapped SOL wallet
\* is closed on the way.
transfer_bid_to_recipient ==
    /\ recipient' = recipient + bid_wallet
    /\ bid_wallet' = 0
    /\ bid_wallet_open' = ~round.native

\* All that the offer wallet holds goes to the return wallet.
transfer_offer_back_to_heir ==
    /\ return_wallets' = [return_wallets EXCEPT ![round.return_wallet] =
                             @ + offer_wallet]
    /\ offer_wallet' = 0

\* Variant: the offer wallet may be overdrawn.
transfer_to_user_unchecked(u, amount) ==
    /\ offer_wallet' = offer_wallet - amount
    /\ user_offer' = [user_offer EXCEPT ![u] = @ + amount]

\* The token program refuses a transfer the wallet does not cover.
transfer_to_user(u, amount) ==
    /\ offer_wallet >= amount
    /\ offer_wallet' = offer_wallet - amount
    /\ user_offer' = [user_offer EXCEPT ![u] = @ + amount]

\* Anchor's close = payer on the voucher, and the count that follows it.
\* checked_sub fails at zero.
close_voucher(u) ==
    /\ round.vouchers_count > 0
    /\ round' = [round EXCEPT !.vouchers_count = @ - 1]
    /\ vouchers' = vouchers \ {u}
    /\ amount_contributed' = [amount_contributed EXCEPT ![u] = 0]
    /\ UNCHANGED offchain_vouchers

\* External: the token program closes an account only when it is empty, unless
\* it holds wrapped SOL; then the lamports go to the destination, the payer.
close_bid_wallet ==
    /\ round.native \/ bid_wallet = 0
    /\ payer' = payer + bid_wallet
    /\ bid_wallet' = 0
    /\ bid_wallet_open' = FALSE

-----------------------------------------------------------------------------
(* The instructions.                                                        *)

create_round(start, end, target, offer_amount, native) ==
    /\ CreateRoundAccounts
    /\ offer_amount > 0
    /\ start < end
    /\ return_wallets["source"] >= offer_amount
    /\ return_wallets' = [return_wallets EXCEPT !["source"] = @ - offer_amount]
    /\ offer_wallet' = offer_amount
    /\ bid_wallet' = 0
    /\ bid_wallet_open' = TRUE
    /\ round' = NewRound(start, end, target, offer_amount, "source", native)
    /\ UNCHANGED <<now, voucher_accounts, user_bid, user_offer, recipient,
                   payer, surroundings>>

contribute(u, amount) ==
    /\ ContributeAccounts
    /\ assert_can_contribute = "Ok"
    /\ delegated(u, amount)
    /\ user_bid' = [user_bid EXCEPT ![u] = @ - amount]
    /\ bid_wallet' = bid_wallet + amount
    /\ add_to_voucher(u, amount)
    /\ UNCHANGED <<now, bid_wallet_open, offer_wallet, user_offer, recipient, payer,
                   return_wallets, surroundings>>

withdraw(u, user_is_signer) ==
    /\ WithdrawAccounts(u)
    /\ assert_can_withdraw(user_is_signer) = "Ok"
    /\ refund_bid_to_recipient(u)
    /\ close_voucher(u)
    /\ UNCHANGED <<now, bid_wallet_open, offer_wallet, user_offer, recipient,
                   payer, return_wallets, surroundings>>

\* with_authority: is a reconciliation authority named?
accept(with_authority) ==
    /\ AcceptAccounts
    /\ assert_can_accept_or_reject = "Ok"
    /\ transfer_bid_to_recipient
    /\ round' = [round EXCEPT
                   !.total_bid = bid_wallet,
                   !.total_offer = offer_wallet,
                   !.status = IF with_authority THEN "Reconciliation" ELSE "Accepted"]
    /\ UNCHANGED <<now, voucher_accounts, offer_wallet, user_bid, user_offer,
                   payer, return_wallets, surroundings>>

\* The amount recorded for a contribution made off chain is read by no other
\* instruction and left out.  A second record for the same user changes
\* nothing.
record_offchain_contribution(u) ==
    /\ RecordOffchainContributionAccounts
    /\ assert_can_contribute_offchain = "Ok"
    /\ u \notin offchain_vouchers
    /\ offchain_vouchers' = offchain_vouchers \cup {u}
    /\ round' = [round EXCEPT !.vouchers_count = @ + 1]
    /\ UNCHANGED <<now, vouchers, amount_contributed, wallets, outside, surroundings>>

finish_reconciliation ==
    /\ FinishReconciliationAccounts
    /\ assert_can_finish_reconciliation = "Ok"
    /\ round' = [round EXCEPT !.status = "Accepted"]
    /\ UNCHANGED <<now, voucher_accounts, wallets, outside, surroundings>>

reject ==
    /\ RejectAccounts
    /\ assert_can_accept_or_reject = "Ok"
    /\ round' = [round EXCEPT !.status = "Rejected"]
    /\ transfer_offer_back_to_heir
    /\ UNCHANGED <<now, voucher_accounts, bid_wallet, bid_wallet_open,
                   user_bid, user_offer, recipient, payer, surroundings>>

reject_bid(u) ==
    /\ RejectBidAccounts(u)
    /\ assert_can_reject_bid = "Ok"
    /\ refund_bid_to_recipient(u)
    /\ close_voucher(u)
    /\ UNCHANGED <<now, bid_wallet_open, offer_wallet, user_offer, recipient,
                   payer, return_wallets, surroundings>>

\* What redeeming a voucher of u pays, None when it cannot be computed.
redeem_amount(u) ==
    calculate_redeem_amount(
        IF round.target_bid # 0 THEN round.target_bid ELSE round.total_bid,
        round.total_bid, amount_contributed[u], round.total_offer)

redeem(u) ==
    /\ RedeemAccounts(u)
    /\ assert_can_redeem = "Ok"
    /\ redeem_amount(u) # None
    /\ close_voucher(u)
    /\ transfer_to_user(u, redeem_amount(u))
    /\ UNCHANGED <<now, bid_wallet, bid_wallet_open, user_bid, recipient, payer,
                   return_wallets, surroundings>>

cancel ==
    /\ CancelAccounts
    /\ assert_can_cancel = "Ok"
    /\ round.vouchers_count = 0
    /\ transfer_offer_back_to_heir
    /\ close_bid_wallet
    /\ round' = Absent
    /\ UNCHANGED <<now, voucher_accounts, user_bid, user_offer, recipient, surroundings>>

close ==
    /\ CloseAccounts
    /\ assert_can_close = "Ok"
    /\ transfer_offer_back_to_heir
    /\ IF bid_wallet_open THEN close_bid_wallet
       ELSE UNCHANGED <<payer, bid_wallet, bid_wallet_open>>
    /\ round' = Absent
    /\ UNCHANGED <<now, voucher_accounts, user_bid, user_offer, recipient, surroundings>>

\* A round whose return wallet is set is left as it is.
migrate ==
    /\ MigrateAccounts
    /\ round.return_wallet = "default"
    /\ round' = [round EXCEPT !.return_wallet = "heir_ata"]
    /\ UNCHANGED <<now, voucher_accounts, wallets, outside, surroundings>>

\* External: the cluster's clock.
Tick ==
    /\ now < MaxTime
    /\ now' = now + 1
    /\ UNCHANGED <<round, voucher_accounts, wallets, outside, surroundings>>

\* External: anybody sends lamports to the authority's address, which no
\* instruction takes away again (accept sends on just what it brought there);
\* a user closes an empty associated account, and anybody opens it again.  Each
\* is a step while there is a round of the kind whose refunds depend on it.
Surroundings ==
    /\ round.status # "Absent"
    /\ IF round.native
       THEN authority_funded' = TRUE /\ UNCHANGED closed_wallets
       ELSE /\ \E u \in Users :
                 \/ user_bid[u] = 0 /\ closed_wallets' = closed_wallets \cup {u}
                 \/ closed_wallets' = closed_wallets \ {u}
            /\ UNCHANGED authority_funded
    /\ UNCHANGED <<now, round, voucher_accounts, wallets, outside>>

-----------------------------------------------------------------------------
\* The address is unused, or holds a round that an earlier version of the
\* program made, with no return wallet, before anybody contributed.
Init ==
    /\ now = 0
    /\ vouchers = {}
    /\ amount_contributed = [u \in Users |-> 0]
    /\ offchain_vouchers = {}
    /\ bid_wallet = 0
    /\ user_bid = [u \in Users |-> BidFunds]
    /\ user_offer = [u \in Users |-> 0]
    /\ recipient = 0
    /\ payer = 0
    /\ authority_funded = FALSE
    /\ closed_wallets = {}
    /\ \/ /\ round = Absent
          /\ bid_wallet_open = FALSE
          /\ offer_wallet = 0
          /\ return_wallets = [source |-> OfferFunds, heir_ata |-> 0]
       \/ /\ \E start, end \in Times, target \in Targets, native \in Natives :
                /\ start < end
                /\ round = NewRound(start, end, target, OfferFunds, "default", native)
          /\ bid_wallet_open = TRUE
          /\ offer_wallet = OfferFunds
          /\ return_wallets = [source |-> 0, heir_ata |-> 0]

Next ==
    \/ \E start, end \in Times, target \in Targets, native \in Natives :
         \E offer_amount \in 1 .. OfferFunds :
           create_round(start, end, target, offer_amount, native)
    \/ \E u \in Users, amount \in Bids : contribute(u, amount)
    \/ \E u \in Users, user_is_signer \in BOOLEAN : withdraw(u, user_is_signer)
    \/ \E with_authority \in BOOLEAN : accept(with_authority)
    \/ \E u \in Users : record_offchain_contribution(u)
    \/ finish_reconciliation
    \/ reject
    \/ \E u \in Users : reject_bid(u)
    \/ \E u \in Users : redeem(u)
    \/ cancel
    \/ close
    \/ migrate
    \/ Tick
    \/ Surroundings

Spec == Init /\ [][Next]_vars

\* Time passes, and anybody may call withdraw for a user once that needs no
\* signature, so somebody (the user, if nobody else) does; anybody may also
\* call migrate, and close once every voucher is gone.
RefundFairness ==
    /\ WF_vars(Tick)
    /\ \A u \in Users : WF_vars(withdraw(u, FALSE))
    /\ WF_vars(migrate)
    /\ WF_vars(close)

RefundSpec == Spec /\ RefundFairness

\* Besides, users redeem and the reconciliation authority finishes its work.
SettleSpec ==
    /\ RefundSpec
    /\ \A u \in Users : WF_vars(redeem(u))
    /\ WF_vars(finish_reconciliation)

-----------------------------------------------------------------------------
(* Properties.                                                              *)

\* Every variable keeps to the range of the account field it stands for.
TypeOK ==
    /\ now \in Nat
    /\ round \in RoundAccount
    /\ vouchers \subseteq Users
    /\ amount_contributed \in [Users -> Nat]
    /\ offchain_vouchers \subseteq Users
    /\ bid_wallet \in Nat
    /\ bid_wallet_open \in BOOLEAN
    /\ offer_wallet \in Nat
    /\ user_bid \in [Users -> Nat]
    /\ user_offer \in [Users -> Nat]
    /\ recipient \in Nat
    /\ payer \in Nat
    /\ return_wallets \in [{"source", "heir_ata"} -> Nat]
    /\ authority_funded \in BOOLEAN
    /\ closed_wallets \subseteq Users

\* vouchers_count, which close and cancel rely on, is exactly the number of
\* voucher accounts of both seeds: withdraw, reject_bid and redeem never bring
\* it below what is left, a second contribution does not raise it, and so no
\* voucher outlives its round and is honoured by the next one at the address.
VouchersCounted ==
    /\ round.vouchers_count = Cardinality(vouchers) + Cardinality(offchain_vouchers)
    /\ round.status = "Absent" => vouchers = {} /\ offchain_vouchers = {}

\* A voucher exists exactly while a contribution is recorded in it.
VouchersHoldBids == \A u \in Users : u \in vouchers <=> amount_contributed[u] > 0

\* A wrapped SOL round that was accepted has no bid wallet left, so that no
\* contribution, not even one at the very second bidding ends, follows the
\* bids that were released.
NativeSealed ==
    round.native /\ round.status \in {"Accepted", "Reconciliation"}
        => ~bid_wallet_open /\ bid_wallet = 0

\* What the vouchers hold, all together.
Contributed == Total(amount_contributed, Users)

\* While bids can still be refunded (the round is pending or rejected) the bid
\* wallet holds exactly the sum of the vouchers, so refunds succeed in any
\* order and none is paid from another user's bid; a closed round leaves no
\* bid behind.
BidsBacked ==
    round.status \in {"Pending", "Rejected", "Absent"} => bid_wallet = Contributed

\* No instruction that closes a wrapped SOL bid wallet sends a user's bid to
\* the payer of the round's rent: close and cancel only see an empty one.
NothingSwept == payer = 0

\* Bids reach the recipient only when the heir accepts a pending round in the
\* window from bidding_end to the inactivity timeout, and then as a whole: what
\* is paid, what total_bid records and what the vouchers hold are the same.
Release ==
    recipient' # recipient
        => /\ round.status = "Pending"
           /\ round'.status \in {"Accepted", "Reconciliation"}
           /\ round.bidding_end <= now /\ now <= heir_timeout_date
           /\ recipient' = recipient + Contributed
           /\ round'.total_bid = Contributed
ReleasedOnceAsAWhole == [][Release]_vars

\* A voucher goes only against its full bid, or, in an accepted round, against
\* the share of the offer it was worth; it is its user who is paid, and no
\* other user's wallet or voucher is touched.
Payout ==
    \A u \in vouchers \ vouchers' :
        /\ vouchers' = vouchers \ {u}
        /\ IF round.status = "Accepted"
           THEN /\ user_offer' = [user_offer EXCEPT ![u] = @ + redeem_amount(u)]
                /\ user_bid' = user_bid
           ELSE /\ user_bid' = [user_bid EXCEPT ![u] = @ + amount_contributed[u]]
                /\ user_offer' = user_offer
VoucherPaidInFull == [][Payout]_vars

\* What decides a user's share (the totals, the target and the bids of a
\* wrapped SOL round) does not change between accept and the end of the round.
ShareUnchanged ==
    round.status \in {"Accepted", "Reconciliation"} /\ round'.status # "Absent"
        => /\ round'.total_bid = round.total_bid
           /\ round'.total_offer = round.total_offer
           /\ round'.target_bid = round.target_bid
           /\ round.native =>
                \A u \in vouchers' : amount_contributed'[u] = amount_contributed[u]
ShareFrozen == [][ShareUnchanged]_vars

\* Rounding half up makes the claims on an accepted wrapped SOL round exceed
\* what is left of the offer by at most half a unit for each contributor.
OverclaimBounded ==
    round.native /\ round.status = "Accepted" /\ vouchers # {} =>
        2 * (Total([u \in vouchers |-> redeem_amount(u)], vouchers) - offer_wallet)
            <= Cardinality(Users)

\* There is no way to pay the refund of u: lamports lie at the authority's
\* address of a wrapped SOL round, or the account for another token is closed.
RefundBlocked(u) ==
    \/ round.native /\ authority_funded
    \/ ~round.native /\ u \in closed_wallets

\* A user whose bid is held by a round that is not accepted gets it back, with
\* nobody's signature, whatever the heir does or fails to do, unless the refund
\* meets one of the two obstacles that withdraw and reject_bid do not remove.
BidComesBack ==
    \A u \in Users :
        u \in vouchers /\ round.status \in {"Pending", "Rejected"}
            ~> \/ u \notin vouchers
               \/ round.status \in {"Accepted", "Reconciliation"}
               \/ RefundBlocked(u)


-----------------------------------------------------------------------------
(* What the repository says of the program and the code does not do.        *)

\* "Accepted: Users can redeem": the offer wallet covers each voucher that is
\* still open.
UsersCanRedeem ==
    round.status = "Accepted" =>
        \A u \in vouchers : redeem_amount(u) # None /\ redeem_amount(u) <= offer_wallet

\* "we can't close account until everybody withdraws": so everybody who holds a
\* voucher, one recorded off chain included, has a way to give it up.
EverybodyWithdraws ==
    \A u \in Users : u \in offchain_vouchers ~> u \notin offchain_vouchers
=============================================================================
