------------------------------- MODULE Repost -------------------------------
(***************************************************************************)
(* The human program's posts and reposts (human/src/lib.rs, state.rs).  A  *)
(* post is registered once; users repost it, for a price or as a free      *)
(* compressed copy, and get a record which is worth tokens of the vault on *)
(* a Thursday.  A tenth of each price stays with the state account, until  *)
(* anybody has it deposited into the token's swap pool.                    *)
(*                                                                         *)
(* There may be several tokens, each with its state account, vault and     *)
(* pool, all of one owner.  Post and record addresses do not depend on the *)
(* token.  Left out: rent, the metadata of the copies, and token accounts, *)
(* which a repost opens for its user.  An instruction is atomic.           *)
(***************************************************************************)
EXTENDS PreciseNumber, UnitSum

CONSTANTS
    States,         \* the state accounts
    Users,          \* the wallets, state.owner among them
    owner,          \* state.owner
    Posts,          \* the post ids
    Mints,          \* the addresses a copy's mint may have, and a record
    Empty,          \* no account at the address
    DAY,            \* 86400, in ticks
    MAX_REPOST_TIME,                \* 24 hours
    REPOST_REDEEM_COOLDOWN,         \* 24 hours
    BUY_COMMISSION,                 \* 1000
    TREASURY_COMMISSION,            \* 8000
    BSP,                            \* 10_000
    COEFF,                          \* 10^9
    DEFAULT_REPORT_PRICE_LAMPORTS,  \* the price of a post without one
    FREE_REPOST_RECEIVE_AMOUNT,     \* 100, the reward of a compressed repost
    Start, MaxTime, \* bound: when the clock starts and stops
    Prices,         \* bound: the values of repost_price
    CreatedAt,      \* bound: the values of created_at
    Funds,          \* the lamports of each user
    VaultLevels,    \* bound: what the rounds leave in a vault
    PoolTokens, PoolWsol, PoolSupply,   \* the pools at first
    MaxReposts      \* bound: how many reposts are made

ASSUME ConstantsAssumption ==
    /\ IsFiniteSet(States) /\ IsFiniteSet(Users) /\ owner \in Users
    /\ Empty \notin States
    /\ DAY \in Nat \ {0} /\ BSP \in Nat \ {0} /\ COEFF \in Nat \ {0}
    /\ {MAX_REPOST_TIME, REPOST_REDEEM_COOLDOWN, BUY_COMMISSION, TREASURY_COMMISSION,
        DEFAULT_REPORT_PRICE_LAMPORTS, FREE_REPOST_RECEIVE_AMOUNT,
        Start, MaxTime, Funds, MaxReposts} \subseteq Nat
    /\ Prices \subseteq Nat /\ CreatedAt \subseteq Nat /\ VaultLevels \subseteq Nat
    /\ {PoolTokens, PoolWsol, PoolSupply} \subseteq Nat \ {0}

VARIABLES
    now,            \* Clock::get()?.unix_timestamp
    posts,          \* the PostInfo of each post, or Empty
    masters,        \* the posts with a master edition
    collections,    \* the states whose collection has been minted
    tree,           \* is there the tree of compressed copies?
    printed,        \* the mints of paid copies
    records,        \* the RepostRecord at each address, or Empty
    reposts,        \* how many reposts were made
    lamports,       \* of each user
    treasury,       \* the lamports paid to state.treasury_addr
    commission,     \* the lamports of each state account above its rent
    vault,          \* the tokens in each vault
    received,       \* the tokens each user has got from each vault
    pool            \* the swap pool of each token

copies == <<posts, masters, collections, tree, printed, records, reposts>>
money == <<lamports, treasury, commission, vault, received, pool>>
vars == <<now, copies, money>>

-----------------------------------------------------------------------------
\* repost_price is an Option, None in a post made by an earlier program.
PostInfo ==
    [state : States, created_at : Nat, repost_price : Nat \cup {None}]

\* legacy: the account is 145 bytes long, without the field payer.
RepostRecord ==
    [state : States, user : Users, post_id : Posts, reposted_at : Nat,
     receive_amount : Nat, legacy : BOOLEAN]

\* PostInfo::can_repost.  What is called elapsed is the time the post is ahead of
\* the clock, not the time since: a post never gets too old.
can_repost(p) == posts[p].created_at - now < MAX_REPOST_TIME

\* The first Monday of Unix time was its fifth day.
week_progress == (now - 4 * DAY) % (7 * DAY)

is_thursday == 3 * DAY < week_progress /\ week_progress < 4 * DAY

\* RepostRecord::can_redeem.  The same holds for the cooldown: it has always
\* elapsed.
can_redeem(m) ==
    /\ records[m].reposted_at - now < REPOST_REDEEM_COOLDOWN
    /\ is_thursday

part(amount, bsp) ==
    to_imprecise(checked_div(checked_mul(new(amount), new(bsp)), new(BSP)))

\* Variant: the owner's part is computed like the others.
split_by_parts(amount) ==
    [commission |-> part(amount, BUY_COMMISSION),
     treasury |-> part(amount, TREASURY_COMMISSION),
     owner |-> part(amount, BSP - BUY_COMMISSION - TREASURY_COMMISSION)]

\* The owner gets what is left; a negative rest is an error.
calculate_split_by_lamports(amount) ==
    LET c == part(amount, BUY_COMMISSION)
        t == part(amount, TREASURY_COMMISSION)
    IN  [commission |-> c, treasury |-> t, owner |-> amount - c - t]

\* What the price would buy in a pool that is COEFF times as deep, None when
\* the pool is empty and the price is zero.
calculate_tokens_for_repost_fee(price, wsol, chatlans) ==
    LET a_balance == checked_mul(new(wsol), new(COEFF))
        b_balance == checked_mul(new(chatlans), new(COEFF))
        a == a_balance + new(price)
        y == checked_mul(b_balance, a) - checked_mul(a_balance, b_balance)
        out == checked_div(y, a)
    IN  IF out = None THEN None ELSE to_imprecise(out)

\* None when the pool has no wrapped SOL.
calculate_pool_tokens(wsol_amount, supply, balance) ==
    LET share == checked_div(checked_mul(new(wsol_amount), new(supply)), new(balance))
    IN  IF share = None THEN None ELSE to_imprecise(floor(share))

-----------------------------------------------------------------------------
(* Posts and reposts.                                                       *)

\* The collection is minted with the first post of the state.
mint_collection(s) == collections' = collections \cup {s}

\* A post with a price gets a master edition, which copies can be made of.
mint_master(p, repost_price) ==
    masters' = IF repost_price > 0 THEN masters \cup {p} ELSE masters

\* The account's address is derived from the post id alone.
save_post_info(p, info) ==
    /\ posts[p] = Empty
    /\ posts' = [posts EXCEPT ![p] = info]

\* Called again for a post that has an account or a master edition, it succeeds
\* and does nothing.  No signature of the admin is asked for.
process_register_post(s, p, created_at, repost_price) ==
    /\ p \notin masters
    /\ mint_collection(s)
    /\ mint_master(p, repost_price)
    /\ save_post_info(p, [state |-> s, created_at |-> created_at,
                          repost_price |-> repost_price])
    /\ UNCHANGED <<now, tree, printed, records, reposts, money>>

\* The post exists, belongs to this state and may be reposted.
repost_ok(s, p) ==
    /\ posts[p] # Empty
    /\ posts[p].state = s
    /\ can_repost(p)
    /\ reposts < MaxReposts

\* Variant: no default.
price_for_set(p, u) == IF u = owner THEN 0 ELSE posts[p].repost_price

\* What u pays: the owner nothing, and for a post without a price the default.
price_for(p, u) ==
    IF u = owner THEN 0
    ELSE IF posts[p].repost_price = None THEN DEFAULT_REPORT_PRICE_LAMPORTS
    ELSE posts[p].repost_price

\* The address must be unused.  The one that is derived from the mint is not
\* compared with it, so any other will do that signs for itself.  The owner gets
\* no record.
save_repost_record(s, p, k, u, amount) ==
    IF u = owner THEN records' = records
    ELSE /\ records[k] = Empty
         /\ records' = [records EXCEPT ![k] =
                          [state |-> s, user |-> u, post_id |-> p, reposted_at |-> now,
                           receive_amount |-> amount, legacy |-> FALSE]]

\* The user pays the owner, the treasury and the state account.
pay_split(s, u, price) ==
    LET split == calculate_split_by_lamports(price)
    IN  /\ split.owner >= 0
        /\ lamports[u] >= price
        /\ lamports' = [[lamports EXCEPT ![u] = @ - price] EXCEPT ![owner] = @ + split.owner]
        /\ treasury' = treasury + split.treasury
        /\ commission' = [commission EXCEPT ![s] = @ + split.commission]

\* A mint of its own, and a numbered copy of the master edition under it.
copy_master(p, m) ==
    /\ m \notin printed
    /\ p \in masters
    /\ printed' = printed \cup {m}

\* A copy under mint m that is paid for, worth at least one token later, with its
\* record at address k.
process_repost(s, p, m, k, u) ==
    LET price == price_for(p, u)
        amount == calculate_tokens_for_repost_fee(price, pool[s].wsol, pool[s].tokens)
    IN  /\ repost_ok(s, p)
        /\ pay_split(s, u, price)
        /\ copy_master(p, m)
        /\ amount # None
        /\ save_repost_record(s, p, k, u, IF amount > 1 THEN amount ELSE 1)
        /\ reposts' = reposts + 1
        /\ UNCHANGED <<now, posts, masters, collections, tree, vault, received, pool>>

\* A compressed copy has no mint: any address names its record.  It is free,
\* whatever the price of the post, and anybody may send it for the user.  The
\* owner's leaves no trace.
process_repost_compressed(s, p, m, u) ==
    /\ repost_ok(s, p)
    /\ u # owner
    /\ save_repost_record(s, p, m, u, FREE_REPOST_RECEIVE_AMOUNT)
    /\ tree
    /\ s \in collections
    /\ reposts' = reposts + 1
    /\ UNCHANGED <<now, posts, masters, collections, tree, printed, money>>

\* Variant: the record stays.
redeem_and_keep(s, m) ==
    /\ records[m] # Empty
    /\ ~records[m].legacy
    /\ records[m].state = s
    /\ can_redeem(m)
    /\ vault[s] >= records[m].receive_amount
    /\ vault' = [vault EXCEPT ![s] = @ - records[m].receive_amount]
    /\ received' = [received EXCEPT ![s][records[m].user] = @ + records[m].receive_amount]
    /\ UNCHANGED <<now, copies, lamports, treasury, commission, pool>>

\* A legacy record is to be enlarged, but its data is borrowed at that point and
\* the instruction fails.  When it is too early to redeem it succeeds and does
\* nothing.
process_redeem_repost(s, m) ==
    /\ records[m] # Empty
    /\ ~records[m].legacy
    /\ records[m].state = s
    /\ can_redeem(m)
    /\ vault[s] >= records[m].receive_amount
    /\ vault' = [vault EXCEPT ![s] = @ - records[m].receive_amount]
    /\ received' = [received EXCEPT ![s][records[m].user] = @ + records[m].receive_amount]
    /\ records' = [records EXCEPT ![m] = Empty]
    /\ UNCHANGED <<now, posts, masters, collections, tree, printed, reposts,
                   lamports, treasury, commission, pool>>

\* The assertion on the length of its account lets it succeed only once.
process_initialize_tree ==
    /\ ~tree
    /\ tree' = TRUE
    /\ UNCHANGED <<now, posts, masters, collections, printed, records, reposts, money>>

-----------------------------------------------------------------------------
(* The commission.                                                          *)

\* External: what the swap program takes for some pool tokens, rounded up.
ceil_div(a, b) == (a + b - 1) \div b
trading_tokens(balance, pool_tokens, supply) == ceil_div(balance * pool_tokens, supply)

\* External: deposit_all_token_types of the swap program, from the vault and a
\* temporary wrapped SOL account.
deposit_all_token_types(s, pool_tokens) ==
    LET a == trading_tokens(pool[s].tokens, pool_tokens, pool[s].supply)
        b == trading_tokens(pool[s].wsol, pool_tokens, pool[s].supply)
    IN  /\ a > 0 /\ b > 0
        /\ vault[s] >= a
        /\ commission[s] >= b
        /\ vault' = [vault EXCEPT ![s] = @ - a]
        /\ commission' = [commission EXCEPT ![s] = @ - b]
        /\ pool' = [pool EXCEPT ![s] =
                      [tokens |-> @.tokens + a, wsol |-> @.wsol + b,
                       supply |-> @.supply + pool_tokens]]

\* Variant: the two sides of the pool are mixed up.
deposit_by_tokens(s) ==
    LET pool_tokens == calculate_pool_tokens(commission[s], pool[s].supply, pool[s].tokens)
    IN  /\ pool_tokens # None
        /\ (pool[s].tokens * pool_tokens) \div pool[s].supply <= vault[s]
        /\ deposit_all_token_types(s, pool_tokens)
        /\ UNCHANGED <<now, copies, lamports, treasury, received>>

\* All the state account has above its rent is offered; what the pool does not
\* take comes back when the temporary account is closed.  With too few tokens
\* in the vault it succeeds and does nothing.
process_deposit_commission(s) ==
    LET pool_tokens == calculate_pool_tokens(commission[s], pool[s].supply, pool[s].wsol)
    IN  /\ pool_tokens # None
        /\ (pool[s].tokens * pool_tokens) \div pool[s].supply <= vault[s]
        /\ deposit_all_token_types(s, pool_tokens)
        /\ UNCHANGED <<now, copies, lamports, treasury, received>>

-----------------------------------------------------------------------------
\* External: the rounds of Human take tokens from the vault and return them.
RoundsMove(s, level) ==
    /\ vault' = [vault EXCEPT ![s] = level]
    /\ UNCHANGED <<now, copies, lamports, treasury, commission, received, pool>>

\* External: the cluster's clock.
Tick ==
    /\ now < MaxTime
    /\ now' = now + 1
    /\ UNCHANGED <<copies, money>>

\* Nothing is posted yet, or one post and one record of it are there that
\* earlier programs made.
Init ==
    /\ now = Start
    /\ \/ /\ posts = [p \in Posts |-> Empty]
          /\ masters = {}
          /\ collections = {}
          /\ printed = {}
          /\ records = [m \in Mints |-> Empty]
       \/ \E s \in States, p \in Posts, m \in Mints, u \in Users \ {owner} :
            /\ posts = [q \in Posts |-> IF q = p
                          THEN [state |-> s, created_at |-> Start, repost_price |-> None]
                          ELSE Empty]
            /\ masters = {p}
            /\ collections = {s}
            /\ printed = {m}
            /\ records = [k \in Mints |-> IF k = m
                            THEN [state |-> s, user |-> u, post_id |-> p,
                                  reposted_at |-> Start, receive_amount |-> 1,
                                  legacy |-> TRUE]
                            ELSE Empty]
    /\ tree = FALSE
    /\ reposts = 0
    /\ lamports = [u \in Users |-> Funds]
    /\ treasury = 0
    /\ commission = [s \in States |-> 0]
    /\ vault \in [States -> VaultLevels]
    /\ received = [s \in States |-> [u \in Users |-> 0]]
    /\ pool = [s \in States |->
                 [tokens |-> PoolTokens, wsol |-> PoolWsol, supply |-> PoolSupply]]

Next ==
    \/ \E s \in States, p \in Posts, t \in CreatedAt, price \in Prices :
         process_register_post(s, p, t, price)
    \/ \E s \in States, p \in Posts, m, k \in Mints, u \in Users :
         process_repost(s, p, m, k, u)
    \/ \E s \in States, p \in Posts, m \in Mints, u \in Users :
         process_repost_compressed(s, p, m, u)
    \/ \E s \in States, m \in Mints : process_redeem_repost(s, m)
    \/ process_initialize_tree
    \/ \E s \in States : process_deposit_commission(s)
    \/ \E s \in States, level \in VaultLevels : RoundsMove(s, level)
    \/ Tick

Spec == Init /\ [][Next]_vars

-----------------------------------------------------------------------------
(* Properties.                                                              *)

\* Every variable keeps to the range of the account field it stands for.
TypeOK ==
    /\ now \in Nat
    /\ posts \in [Posts -> PostInfo \cup {Empty}]
    /\ masters \subseteq Posts /\ collections \subseteq States
    /\ tree \in BOOLEAN /\ printed \subseteq Mints
    /\ records \in [Mints -> RepostRecord \cup {Empty}]
    /\ reposts \in Nat
    /\ lamports \in [Users -> Nat] /\ treasury \in Nat
    /\ commission \in [States -> Nat]
    /\ vault \in [States -> Nat]
    /\ received \in [States -> [Users -> Nat]]
    /\ pool \in [States -> [tokens : Nat, wsol : Nat, supply : Nat]]

\* However a price splits and however often the commission goes to a pool, the
\* lamports paid for reposts are with the owner, the treasury, a state account
\* or a pool: rounding neither makes nor loses any.
LamportsKept ==
    Total(lamports, Users) + treasury + Total(commission, States)
        + Total([s \in States |-> pool[s].wsol], States)
      = Cardinality(Users) * Funds + Cardinality(States) * PoolWsol

\* A record, once written, only goes against its whole reward, paid from the
\* vault of its own token to the user who reposted; nobody is paid otherwise.
RewardPaid ==
    \A s \in States, u \in Users :
        received'[s][u] - received[s][u] =
            Total([m \in Mints |-> records[m].receive_amount],
                  {m \in Mints : /\ records[m] # Empty /\ records'[m] = Empty
                                 /\ records[m].state = s /\ records[m].user = u})
RecordPaidOnce ==
    [][ /\ RewardPaid
        /\ \A m \in Mints : records[m] # Empty => records'[m] \in {records[m], Empty} ]_vars

\* What a deposit leaves with the state account would not buy one more token of
\* the pool.
CommissionUsed ==
    [][ \A s \in States : pool'[s] # pool[s]
          => commission'[s] * pool[s].supply < pool[s].wsol ]_vars
=============================================================================
