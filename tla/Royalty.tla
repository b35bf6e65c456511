------------------------------- MODULE Royalty -------------------------------
(***************************************************************************)
(* The royalty program (royalty/src/lib.rs, royalty/src/state.rs): users   *)
(* stake a creator's token; lamports that arrive at the state account are  *)
(* shared out among the stakes.  A distribution visits every voucher, over *)
(* as many transactions as it takes, and stakes may not move meanwhile.    *)
(* The program also writes the weight records the governance program reads.*)
(*                                                                         *)
(* One state account is modelled, among others that anybody may open with  *)
(* a mint of his own.  process_distribute and process_claim compare        *)
(* voucher.state with the state account, process_deposit derives the       *)
(* voucher's address from it; process_withdraw and                         *)
(* process_sync_weight_record do neither, and take any voucher of the user.*)
(* So a voucher of another state, with any balance, may be named with this *)
(* state, and a voucher of this state with another one.                    *)
(*                                                                         *)
(* The statistics total_distributed, total_user_distributed and            *)
(* last_distribution, which nothing reads, are left out, and so is the     *)
(* check on which programs a transaction may call.                         *)
(***************************************************************************)
EXTENDS PreciseNumber, UnitSum

CONSTANTS
    Users,          \* everybody
    Owner, Host,    \* state.owner and state.host, who may not stake
    TokenFunds,     \* the tokens each user has to begin with
    OwnerFunds,     \* the tokens of the owner's vault and wallet
    Mixers,         \* bound: who names vouchers with a state not their own
    OtherBalances,  \* bound: the balances of vouchers of other states
    Voters,         \* bound: who votes, and has the weight record synced
    Amounts,        \* bound: the amounts of a deposit, withdrawal or transfer
    MaxStake,       \* bound: the balance of a voucher
    Receipts,       \* bound: the amounts of lamports that arrive
    MaxReceived,    \* bound: all that arrives
    MaxDrops,       \* bound: the number of drops
    Minimum,        \* DISTRIBUTION_MINIMUM_LAMPORTS
    BasisPoints,    \* 10_000
    HostFee         \* 250, of BasisPoints

ASSUME ConstantsAssumption ==
    /\ IsFiniteSet(Users) /\ Owner \in Users /\ Host \in Users
    /\ Mixers \subseteq Users /\ OtherBalances \subseteq Nat /\ Voters \subseteq Users
    /\ TokenFunds \in Nat /\ OwnerFunds \in Nat
    /\ Amounts \subseteq Nat /\ Receipts \subseteq Nat
    /\ MaxStake \in Nat /\ MaxReceived \in Nat /\ MaxDrops \in Nat
    /\ Minimum \in Nat \ {0}
    /\ BasisPoints \in Nat \ {0} /\ HostFee \in 0 .. BasisPoints

VARIABLES
    (* the State account *)
    initialized,        \* has initialize run?
    migrated,           \* is token_mint set?
    drop_idx,
    vouchers_count,
    tokens_held,
    distributing,       \* state.distribution.is_some()
    distribute_amount,  \* of the distribution, 0 without one
    seen_vouchers,      \* of the distribution, 0 without one
    lamports,           \* of the state account, above its rent minimum
    (* the vouchers, by user *)
    vouchers,           \* the users that have one
    balance,
    voucher_drop,       \* voucher.drop_idx
    voucher_lamports,   \* above the rent minimum of the voucher
    (* token wallets and lamports outside *)
    wallet,             \* the program's token wallet
    user_tokens,        \* for the owner, in the vault and the associated wallet
    user_lamports,      \* what users have claimed
    fees,               \* what owner and host have been paid
    received,           \* all the lamports that ever arrived
    (* governance *)
    weight_record,      \* voter_weight of each user's record, 0 without one
    max_record,         \* max_voter_weight
    cast,               \* the weight of each user's unrelinquished votes
    (* history *)
    mixed               \* the users of whom a voucher of one state was named
                        \* with another: this state's elsewhere, or another's here

distribution == <<distributing, distribute_amount, seen_vouchers>>
stakes == <<vouchers, vouchers_count, balance, tokens_held>>
tokens == <<wallet, user_tokens>>
payments == <<lamports, voucher_lamports, user_lamports, fees>>
drops == <<drop_idx, voucher_drop>>
records == <<weight_record, max_record>>
vars == <<initialized, migrated, distribution, stakes, tokens, payments, drops, records,
          received, cast, mixed>>

-----------------------------------------------------------------------------
(* Pure functions of state.rs.                                              *)

\* One commission: balance * fee / 10000.
commission(amount, fee) ==
    to_imprecise(checked_div(checked_mul(new(amount), new(fee)), new(BasisPoints)))

\* Settings::calculate_split; the flat fee is that of all vouchers.
calculate_split(amount, owner_fee, host_fee, flat_fee) ==
    LET owner == commission(amount, owner_fee)
        host  == commission(amount, host_fee) + flat_fee
    IN  [distribute_amount |-> amount - owner - host,
         owner_comission |-> owner, host_comission |-> host]

\* The share of a stake, a fixed-point number, None of no tokens at all.
owned_percentage(stake, total_tokens) == checked_div(new(stake), new(total_tokens))

\* What Distribution::distribute_to pays for a stake.
share(stake, total_tokens, amount) ==
    to_imprecise(checked_mul(new(amount), owned_percentage(stake, total_tokens)))

\* Variant: the drop of the voucher is not compared.
distribute_to_any(u) ==
    /\ owned_percentage(balance[u], tokens_held) # None
    /\ owned_percentage(balance[u], tokens_held) <= new(1)

\* Variant: a voucher with nothing in stake is refused.
distribute_to_staked(u) ==
    /\ voucher_drop[u] = drop_idx
    /\ balance[u] > 0
    /\ owned_percentage(balance[u], tokens_held) <= new(1)

\* When distribute_to does not fail: the voucher is due in this drop, and its
\* stake is a part of the tokens held.
distribute_to_ok(u) ==
    /\ voucher_drop[u] = drop_idx
    /\ owned_percentage(balance[u], tokens_held) # None
    /\ owned_percentage(balance[u], tokens_held) <= new(1)

-----------------------------------------------------------------------------
\* The owner's wallet and the vault can be named once the mint is known.
expected_wallets == initialized /\ migrated

\* Variant: a stake may move at any time.
always_available == initialized

\* No TemporaryUnavailable: stakes may move only between distributions.
available == ~distributing

\* update_max_voter_weight, with the stakes as the instruction leaves them and
\* the owner's wallets as it found them.
update_max_voter_weight == max_record' = tokens_held' + user_tokens[Owner]

\* Variant: a record that exists is not written again.
create_voter_weight(u, weight) ==
    weight_record' = [weight_record EXCEPT ![u] = IF @ = 0 THEN weight ELSE @]

\* update_voter_weight: the record is created, or overwritten.
update_voter_weight(u, weight) ==
    weight_record' = [weight_record EXCEPT ![u] = weight]

\* Variant: votes do not hold the stake back.
votes_ignored(u) == u \in Users

\* External: the governance program counts a user's unrelinquished votes.
no_unrelinquished_votes(u) == cast[u] = 0

\* The vouchers of a user that withdraw and sync accept: the one of this state,
\* if there is one, and those of other states.
named_vouchers(u) ==
    [own : {TRUE}, balance : {balance[x] : x \in vouchers \cap {u}}]
        \cup [own : {FALSE}, balance : {b \in OtherBalances : u \in Mixers}]

\* History: is the state the voucher's own?
note_voucher(u, voucher) == mixed' = IF voucher.own THEN mixed ELSE mixed \cup {u}

-----------------------------------------------------------------------------
(* The instructions.                                                        *)

process_initialize ==
    /\ ~initialized
    /\ initialized' = TRUE
    /\ migrated' = TRUE
    /\ UNCHANGED <<distribution, stakes, tokens, payments, drops, records, received, cast,
                   mixed>>

\* Variant: the tokens in the wallet are taken for the tokens in stake.
stake_wallet(u, amount) ==
    /\ balance' = [balance EXCEPT ![u] = @ + amount]
    /\ tokens_held' = wallet + amount

\* The part of deposit that adds to a stake.
add_to_stake(u, amount) ==
    /\ balance' = [balance EXCEPT ![u] = @ + amount]
    /\ tokens_held' = tokens_held + amount

\* A first deposit, of nothing even, creates the voucher, due in the next drop.
process_deposit(u, amount) ==
    /\ expected_wallets
    /\ u \notin {Owner, Host}
    /\ available
    /\ user_tokens[u] >= amount
    /\ vouchers' = vouchers \cup {u}
    /\ vouchers_count' = IF u \in vouchers THEN vouchers_count ELSE vouchers_count + 1
    /\ voucher_drop' = IF u \in vouchers THEN voucher_drop
                       ELSE [voucher_drop EXCEPT ![u] = drop_idx]
    /\ user_tokens' = [user_tokens EXCEPT ![u] = @ - amount]
    /\ wallet' = wallet + amount
    /\ add_to_stake(u, amount)
    /\ update_max_voter_weight
    /\ UNCHANGED <<initialized, migrated, distribution, payments, drop_idx, weight_record,
                   received, cast, mixed>>

\* Variant: the tokens of all, not the voucher's own, limit a withdrawal.
stake_covers_total(voucher, amount) == tokens_held >= amount /\ voucher.balance >= 0

\* No InsufficientBalance.
stake_covers(voucher, amount) == voucher.balance >= amount

\* The tokens, tokens_held, the votes and the records are those of this state,
\* the balance is that of the voucher.  min_token_to_enroll is 0: a deposit has
\* set it, without which there is nothing to withdraw.
process_withdraw(u, voucher, amount) ==
    /\ expected_wallets
    /\ no_unrelinquished_votes(u)
    /\ available
    /\ stake_covers(voucher, amount)
    /\ wallet >= amount
    /\ wallet' = wallet - amount
    /\ user_tokens' = [user_tokens EXCEPT ![u] = @ + amount]
    /\ balance' = IF voucher.own THEN [balance EXCEPT ![u] = @ - amount] ELSE balance
    /\ tokens_held >= amount
    /\ tokens_held' = tokens_held - amount
    /\ update_voter_weight(u, voucher.balance - amount)
    /\ update_max_voter_weight
    /\ note_voucher(u, voucher)
    /\ UNCHANGED <<initialized, migrated, distribution, vouchers, vouchers_count, payments,
                   drops, received, cast>>

\* process_withdraw with another state and a voucher of this one: the tokens,
\* the distribution and the votes that it looks at are the other state's.
withdraw_elsewhere(u, amount) ==
    /\ u \in vouchers
    /\ balance[u] >= amount
    /\ balance' = [balance EXCEPT ![u] = @ - amount]
    /\ mixed' = mixed \cup {u}
    /\ UNCHANGED <<initialized, migrated, distribution, vouchers, vouchers_count,
                   tokens_held, tokens, payments, drops, records, received, cast>>

\* Variant: all there is above the rent is shared out.
start_split_of_all == calculate_split(lamports, 0, HostFee, 0)

\* What the first transaction of a distribution finds to share out: two
\* lamports less than the state account has above its rent.
start_split == calculate_split(lamports - 2, 0, HostFee, 0)

\* There is enough to start a distribution, and calculate_split does not
\* subtract more than there is.
start_ok ==
    /\ lamports >= 1 /\ lamports - 1 >= Minimum
    /\ start_split.distribute_amount >= 0

\* One transaction of a distribution, for the vouchers of due (none twice: the
\* second time it would not be due).  It starts a distribution if none is
\* going on, and ends it with the last voucher.
process_distribute(due) ==
    LET amount == IF distributing THEN distribute_amount ELSE start_split.distribute_amount
        fee    == IF distributing THEN 0
                  ELSE start_split.owner_comission + start_split.host_comission
        pay    == [u \in due |-> share(balance[u], tokens_held, amount)]
        left   == lamports - fee - Total(pay, due)
        seen   == (IF distributing THEN seen_vouchers ELSE 0) + Cardinality(due)
        done   == seen = vouchers_count
    IN  /\ initialized
        /\ distributing \/ start_ok
        /\ \A u \in due : distribute_to_ok(u)
        /\ left >= 0
        /\ lamports' = left
        /\ fees' = fees + fee
        /\ voucher_lamports' = [u \in Users |->
                IF u \in due THEN voucher_lamports[u] + pay[u] ELSE voucher_lamports[u]]
        /\ voucher_drop' = [u \in Users |->
                IF u \in due THEN voucher_drop[u] + 1 ELSE voucher_drop[u]]
        /\ drop_idx' = IF done THEN drop_idx + 1 ELSE drop_idx
        /\ distributing' = ~done
        /\ distribute_amount' = IF done THEN 0 ELSE amount
        /\ seen_vouchers' = IF done THEN 0 ELSE seen
        /\ UNCHANGED <<initialized, migrated, stakes, tokens, user_lamports, records,
                       received, cast, mixed>>

\* Variant: a claim leaves the lamports in the voucher.
claim_and_keep(u) ==
    /\ initialized
    /\ u \in vouchers
    /\ user_lamports' = [user_lamports EXCEPT ![u] = @ + voucher_lamports[u]]
    /\ UNCHANGED <<initialized, migrated, distribution, stakes, tokens, lamports, fees,
                   voucher_lamports, drops, records, received, cast, mixed>>

process_claim(u) ==
    /\ initialized
    /\ u \in vouchers
    /\ user_lamports' = [user_lamports EXCEPT ![u] = @ + voucher_lamports[u]]
    /\ voucher_lamports' = [voucher_lamports EXCEPT ![u] = 0]
    /\ UNCHANGED <<initialized, migrated, distribution, stakes, tokens, lamports, fees,
                   drops, records, received, cast, mixed>>

\* For a user with a voucher, of whatever state.
sync_user_record(u, voucher) ==
    /\ u # Owner
    /\ update_voter_weight(u, voucher.balance)
    /\ note_voucher(u, voucher)

\* For the owner, whose weight is what the owner's wallets hold.
sync_owner_record ==
    /\ update_voter_weight(Owner, user_tokens[Owner])
    /\ UNCHANGED mixed

process_sync_weight_record ==
    /\ expected_wallets
    /\ \/ Owner \in Voters /\ sync_owner_record
       \/ \E u \in Voters : \E voucher \in named_vouchers(u) : sync_user_record(u, voucher)
    /\ UNCHANGED stakes
    /\ update_max_voter_weight
    /\ UNCHANGED <<initialized, migrated, distribution, tokens, payments, drops, received,
                   cast>>

\* A state that has its mint is left as it is.
process_migrate ==
    /\ initialized
    /\ ~migrated
    /\ migrated' = TRUE
    /\ UNCHANGED <<initialized, distribution, stakes, tokens, payments, drops, records,
                   received, cast, mixed>>

-----------------------------------------------------------------------------
(* The environment.                                                         *)

\* External: royalties arrive at the state account.
Receive(amount) ==
    /\ received + amount <= MaxReceived
    /\ received' = received + amount
    /\ lamports' = lamports + amount
    /\ UNCHANGED <<initialized, migrated, distribution, stakes, tokens, voucher_lamports,
                   user_lamports, fees, drops, records, cast, mixed>>

\* External: the owner sells tokens to a user, or somebody sends some straight
\* to the program's wallet, past deposit.
TransferTokens(u, amount) ==
    /\ \/ /\ u # Owner
          /\ user_tokens[Owner] >= amount
          /\ user_tokens' = [user_tokens EXCEPT ![Owner] = @ - amount, ![u] = @ + amount]
          /\ UNCHANGED wallet
       \/ /\ user_tokens[u] >= amount
          /\ user_tokens' = [user_tokens EXCEPT ![u] = @ - amount]
          /\ wallet' = wallet + amount
    /\ UNCHANGED <<initialized, migrated, distribution, stakes, payments, drops, records,
                   received, cast, mixed>>

\* External: governance counts votes with the weight on record, until all are
\* relinquished.  The heaviest one matters.
Vote(u) ==
    /\ weight_record[u] > cast[u]
    /\ cast' = [cast EXCEPT ![u] = weight_record[u]]
    /\ UNCHANGED <<initialized, migrated, distribution, stakes, tokens, payments, drops,
                   records, received, mixed>>

Relinquish(u) ==
    /\ cast[u] # 0
    /\ cast' = [cast EXCEPT ![u] = 0]
    /\ UNCHANGED <<initialized, migrated, distribution, stakes, tokens, payments, drops,
                   records, received, mixed>>

-----------------------------------------------------------------------------
\* No state yet, or one made before the program knew its mint.
Init ==
    /\ initialized \in BOOLEAN
    /\ migrated = FALSE
    /\ drop_idx = 0
    /\ vouchers_count = 0 /\ vouchers = {}
    /\ tokens_held = 0
    /\ distributing = FALSE /\ distribute_amount = 0 /\ seen_vouchers = 0
    /\ lamports = 0
    /\ balance = [u \in Users |-> 0]
    /\ voucher_drop = [u \in Users |-> 0]
    /\ voucher_lamports = [u \in Users |-> 0]
    /\ wallet = 0
    /\ user_tokens = [u \in Users |-> IF u = Owner THEN OwnerFunds ELSE TokenFunds]
    /\ user_lamports = [u \in Users |-> 0]
    /\ fees = 0
    /\ received = 0
    /\ weight_record = [u \in Users |-> 0]
    /\ max_record = 0
    /\ cast = [u \in Users |-> 0]
    /\ mixed = {}

Next ==
    \/ process_initialize
    \/ \E u \in Users, amount \in Amounts :
         balance[u] + amount <= MaxStake /\ process_deposit(u, amount)
    \/ \E u \in Users, amount \in Amounts :
         \E voucher \in named_vouchers(u) : process_withdraw(u, voucher, amount)
    \/ \E u \in Mixers, amount \in Amounts : withdraw_elsewhere(u, amount)
    \/ \E due \in SUBSET vouchers : drop_idx < MaxDrops /\ process_distribute(due)
    \/ \E u \in Users : process_claim(u)
    \/ process_sync_weight_record
    \/ process_migrate
    \/ \E amount \in Receipts : Receive(amount)
    \/ \E u \in Users, amount \in Amounts : TransferTokens(u, amount)
    \/ \E u \in Voters : Vote(u) \/ Relinquish(u)

Spec == Init /\ [][Next]_vars

\* Anybody may send a distribute transaction, and needs nothing for it but the
\* addresses of vouchers.  Somebody keeps sending the ones that still pay.
DistributeSpec ==
    /\ Spec
    /\ WF_vars(\E due \in SUBSET vouchers : due # {} /\ distributing /\ process_distribute(due))

-----------------------------------------------------------------------------
(* Properties.                                                              *)

\* Every account field is a natural number.  In particular no lamport balance
\* and no token balance is driven below zero by what a step pays out.
TypeOK ==
    /\ initialized \in BOOLEAN /\ migrated \in BOOLEAN /\ distributing \in BOOLEAN
    /\ drop_idx \in Nat /\ vouchers_count \in Nat /\ tokens_held \in Nat
    /\ distribute_amount \in Nat /\ seen_vouchers \in Nat
    /\ lamports \in Nat /\ fees \in Nat /\ received \in Nat
    /\ wallet \in Nat /\ max_record \in Nat
    /\ vouchers \subseteq Users /\ mixed \subseteq Users
    /\ balance \in [Users -> Nat] /\ voucher_drop \in [Users -> Nat]
    /\ voucher_lamports \in [Users -> Nat] /\ user_lamports \in [Users -> Nat]
    /\ user_tokens \in [Users -> Nat]
    /\ weight_record \in [Users -> Nat] /\ cast \in [Users -> Nat]

\* The vouchers the current distribution has paid.
Seen == {u \in vouchers : voucher_drop[u] = drop_idx + 1}

\* The counters of the state agree with the vouchers: between distributions
\* every voucher is due in the next drop; during one, the vouchers that are no
\* longer due are exactly the ones seen_vouchers counts.  So nobody is paid
\* twice in a drop, and a distribution ends when everybody has been paid.
DropsInStep ==
    /\ vouchers_count = Cardinality(vouchers)
    /\ \A u \in vouchers : voucher_drop[u] \in {drop_idx, drop_idx + 1}
    /\ seen_vouchers = Cardinality(Seen)
    /\ distributing => seen_vouchers < vouchers_count
    /\ ~distributing => seen_vouchers = 0

\* Every voucher has only been named with its own state.
Unmixed == mixed = {}

\* The program's wallet has all the tokens in stake, and tokens sent to it past
\* deposit are nobody's stake.  As long as no voucher was named with a state
\* that is not its own, tokens_held is the sum of the stakes, so every stake can
\* be withdrawn whatever the others do.
StakeBacked ==
    /\ tokens_held <= wallet
    /\ \A u \in Users \ vouchers : balance[u] = 0
    /\ Unmixed => tokens_held = Total(balance, Users)

\* The lamports that arrived are in the state account, in vouchers, claimed or
\* paid as fees: what a distribution pays comes out of the state account.
LamportsConserved ==
    received = lamports + fees + Total(voucher_lamports, Users) + Total(user_lamports, Users)

\* A vote that counts, and the weight a next vote would have, are backed by the
\* user's tokens in stake: what has voted may be withdrawn only once
\* relinquished.  Not so for a user of whom a voucher was named with a state
\* that is not its own; but what others do with theirs does no harm.
VotesBacked ==
    \A u \in Users \ ({Owner} \cup mixed) :
        cast[u] <= balance[u] /\ weight_record[u] <= balance[u]

\* The weights of all users together never exceed the weight the governance
\* program takes for all there is, however old the records are, as long as no
\* voucher was named with a state that is not its own.
WeightsWithinMax == Unmixed => Total(weight_record, Users \ {Owner}) <= max_record

\* During a distribution the total and the vouchers stand still, so its shares
\* are parts of one and the same whole, whichever transactions they are paid
\* in.  A stake never grows meanwhile, and shrinks only through a state that is
\* not its own.
StakesUnmoved ==
    distributing =>
        /\ UNCHANGED <<vouchers, vouchers_count, tokens_held>>
        /\ \A u \in Users :
             /\ balance'[u] <= balance[u]
             /\ u \notin mixed' => balance'[u] = balance[u]
StakesFrozen == [][StakesUnmoved]_vars

\* What the vouchers not yet seen have to come.
Unpaid ==
    Total([u \in vouchers \ Seen |-> share(balance[u], tokens_held, distribute_amount)],
          vouchers \ Seen)

\* Rounding half up costs a distribution at most half a lamport a voucher, over
\* all its transactions: with the two lamports set aside at the start, the state
\* account can pay what is still to come among up to four vouchers, and lacks
\* at most half a lamport for each further one, as long as no voucher was named
\* with a state that is not its own.
RoundingBounded ==
    distributing /\ tokens_held > 0 /\ Unmixed =>
        2 * (Unpaid - lamports) <= Cardinality(vouchers) - 4

\* The rest of the distribution can be paid: no stake is more than the total,
\* and the state account has the lamports.
Payable ==
    /\ \A u \in vouchers \ Seen : owned_percentage(balance[u], tokens_held) <= new(1)
    /\ Unpaid <= lamports

\* A distribution of something to somebody ends, and stakes can move again,
\* unless it comes to a point where the rest cannot be paid.
DistributionEnds ==
    distributing /\ tokens_held > 0 ~> ~distributing \/ ~Payable

-----------------------------------------------------------------------------
(* What the repository says of the program and the code does not do.        *)

\* "total token balance in stake": tokens_held is what the vouchers of the
\* state hold together.
HeldIsStaked == tokens_held = Total(balance, Users)
=============================================================================
