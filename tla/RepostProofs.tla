----------------------------- MODULE RepostProofs -----------------------------
(***************************************************************************)
(* Theorems about Repost, for any number of tokens, users, posts and       *)
(* mints, all prices, and all sizes of the pools.                          *)
(***************************************************************************)
EXTENDS Repost, ArithmeticTheorems

USE DEF None

-----------------------------------------------------------------------------
(* What the arithmetic returns.                                             *)

\* A part of a price is a natural number.
LEMMA PartType ==
    ASSUME NEW amount \in Nat, NEW bsp \in Nat
    PROVE  part(amount, bsp) \in Nat
<1>1. /\ new(amount) \in Nat /\ new(bsp) \in Nat /\ new(BSP) \in Nat /\ new(BSP) # 0
  BY NewNat, ConstantsAssumption
<1>2. checked_mul(new(amount), new(bsp)) \in Nat
  BY <1>1, CheckedMulNat
<1>3. checked_div(checked_mul(new(amount), new(bsp)), new(BSP)) \in Nat
  BY <1>1, <1>2, CheckedDivNat
<1> QED
  BY <1>3, ToImpreciseNat DEF part

\* The three parts of a price that can be split are the price.
LEMMA SplitParts ==
    ASSUME NEW price \in Nat, calculate_split_by_lamports(price).owner >= 0
    PROVE  LET split == calculate_split_by_lamports(price)
           IN  /\ split.owner \in Nat /\ split.treasury \in Nat /\ split.commission \in Nat
               /\ split.owner + split.treasury + split.commission = price
<1>1. part(price, BUY_COMMISSION) \in Nat /\ part(price, TREASURY_COMMISSION) \in Nat
  BY PartType, ConstantsAssumption
<1> QED
  BY <1>1 DEF calculate_split_by_lamports

\* What a repost is worth is an integer, if it is worth something.
LEMMA RepostAmountType ==
    ASSUME NEW price \in Nat, NEW wsol \in Nat, NEW chatlans \in Nat
    PROVE  calculate_tokens_for_repost_fee(price, wsol, chatlans) \in Int
<1> DEFINE a_balance == checked_mul(new(wsol), new(COEFF))
           b_balance == checked_mul(new(chatlans), new(COEFF))
           a == a_balance + new(price)
           y == checked_mul(b_balance, a) - checked_mul(a_balance, b_balance)
           out == checked_div(y, a)
<1>1. a_balance \in Nat /\ b_balance \in Nat /\ new(price) \in Nat
  BY NewNat, CheckedMulNat, ConstantsAssumption
<1> HIDE DEF a_balance, b_balance
<1>2. a \in Nat
  BY <1>1
<1> HIDE DEF a
<1>3. y \in Int
  BY <1>1, <1>2, CheckedMulNat
<1> HIDE DEF y
<1>4. out \in Int
  <2>1. ONE \in Nat \ {0} /\ rounding_correction \in Nat
    BY OneAssumption, CorrectionNat
  <2>2. y * ONE + rounding_correction \in Int
    BY <1>3, <2>1
  <2>3. ASSUME NEW n \in Int, NEW d \in Nat \ {0} PROVE n \div d \in Int
    OBVIOUS
  <2> QED
    BY <1>2, <2>2, <2>3 DEF checked_div
<1>5. to_imprecise(out) \in Int
  <2>1. ONE \in Nat \ {0} /\ rounding_correction \in Nat
    BY OneAssumption, CorrectionNat
  <2> HIDE DEF out
  <2>2. out + rounding_correction \in Int
    BY <1>4, <2>1
  <2>3. ASSUME NEW n \in Int PROVE n \div ONE \in Int
    BY <2>1
  <2> QED
    BY <2>2, <2>3 DEF to_imprecise
<1> QED
  BY <1>5 DEF calculate_tokens_for_repost_fee, a_balance, b_balance, a, y

\* The pool tokens for some wrapped SOL are those its part of the pool is worth,
\* rounded down, in integers.
LEMMA PoolTokensExact ==
    ASSUME NEW amount \in Nat, NEW supply \in Nat, NEW balance \in Nat \ {0}
    PROVE  calculate_pool_tokens(amount, supply, balance) = (amount * supply) \div balance
<1> DEFINE share == checked_div(checked_mul(new(amount), new(supply)), new(balance))
<1>1. checked_mul(new(amount), new(supply)) = new(amount * supply)
  <2>1. new(amount) \in Nat /\ ONE \in Nat
    BY NewNat, OneAssumption
  <2>2. checked_mul(new(amount), new(supply)) = new(amount) * supply
    BY <2>1, MulExact
  <2>3. new(amount) * supply = (amount * supply) * ONE
    BY <2>1 DEF new
  <2> QED
    BY <2>2, <2>3 DEF new
<1>2. amount * supply \in Nat
  BY MulNat
<1>3. share \in Nat
  BY <1>1, <1>2, NewNat, CheckedDivNat
<1>4. to_imprecise(floor(share)) = (amount * supply) \div balance
  BY <1>1, <1>2, FloorExact
<1> QED
  BY <1>3, <1>4 DEF calculate_pool_tokens

\* What the swap program takes is no less than the pool tokens' exact part.
LEMMA TradingBounds ==
    ASSUME NEW balance \in Nat, NEW pool_tokens \in Nat, NEW supply \in Nat \ {0}
    PROVE  /\ trading_tokens(balance, pool_tokens, supply) \in Nat
           /\ balance * pool_tokens <= supply * trading_tokens(balance, pool_tokens, supply)
<1> DEFINE x == balance * pool_tokens
           b == (x + supply - 1) \div supply
<1>1. x \in Nat
  BY MulNat
<1> HIDE DEF x
<1>2. x + supply - 1 \in Nat
  BY <1>1
<1>3. b \in Nat /\ x + supply - 1 < supply * (b + 1)
  BY <1>2, DivBounds
<1> HIDE DEF b
<1>4. supply * (b + 1) = supply * b + supply /\ supply * b \in Nat
  BY <1>3, MulNat
<1>5. x <= supply * b
  BY <1>1, <1>3, <1>4
<1> QED
  BY <1>3, <1>5 DEF x, b, trading_tokens, ceil_div

-----------------------------------------------------------------------------
(* Types.                                                                   *)

\* A pool never runs dry: the program only pays into it.
PoolsFilled == \A s \in States : pool[s].wsol > 0 /\ pool[s].supply > 0

TypeInv == TypeOK /\ PoolsFilled

\* What a repost costs.
LEMMA PriceType ==
    ASSUME TypeInv, NEW p \in Posts, NEW u \in Users, posts[p] # Empty
    PROVE  price_for(p, u) \in Nat
<1>1. posts[p].repost_price \in Nat \cup {None}
  BY DEF TypeInv, TypeOK, PostInfo
<1> QED
  BY <1>1, ConstantsAssumption DEF price_for

\* A record as the programs write it.
LEMMA SaveType ==
    ASSUME TypeInv, NEW s \in States, NEW p \in Posts, NEW m \in Mints, NEW u \in Users,
           NEW amount \in Nat, save_repost_record(s, p, m, u, amount)
    PROVE  /\ records' \in [Mints -> RepostRecord \cup {Empty}]
           /\ \A k \in Mints : records[k] # Empty => records'[k] = records[k]
<1> DEFINE record == [state |-> s, user |-> u, post_id |-> p, reposted_at |-> now,
                      receive_amount |-> amount, legacy |-> FALSE]
<1>1. record \in RepostRecord
  BY DEF TypeInv, TypeOK, RepostRecord
<1> HIDE DEF record
<1>2. records' = records \/ (records[m] = Empty /\ records' = [records EXCEPT ![m] = record])
  BY DEF save_repost_record, record
<1> QED
  BY <1>1, <1>2 DEF TypeInv, TypeOK

\* What a paid repost writes.
LEMMA RepostPays ==
    ASSUME TypeInv, NEW s \in States, NEW p \in Posts, NEW m \in Mints,
           NEW k \in Mints, NEW u \in Users, process_repost(s, p, m, k, u)
    PROVE  /\ lamports' \in [Users -> Nat] /\ treasury' \in Nat
           /\ commission' \in [States -> Nat]
           /\ Total(lamports', Users) + treasury' + Total(commission', States)
                = Total(lamports, Users) + treasury + Total(commission, States)
<1> DEFINE price == price_for(p, u)
           split == calculate_split_by_lamports(price)
           paid  == [lamports EXCEPT ![u] = lamports[u] - price]
<1>1. /\ split.owner >= 0
      /\ lamports[u] >= price
      /\ lamports' = [paid EXCEPT ![owner] = paid[owner] + split.owner]
      /\ treasury' = treasury + split.treasury
      /\ commission' = [commission EXCEPT ![s] = commission[s] + split.commission]
  BY DEF process_repost, pay_split
<1>2. price \in Nat
  BY PriceType DEF process_repost, repost_ok
<1> HIDE DEF price
<1>3. /\ split.owner \in Nat /\ split.treasury \in Nat /\ split.commission \in Nat
      /\ split.owner + split.treasury + split.commission = price
  BY <1>1, <1>2, SplitParts
<1> HIDE DEF split
<1>4. /\ lamports \in [Users -> Nat] /\ treasury \in Nat /\ commission \in [States -> Nat]
      /\ IsFiniteSet(Users) /\ IsFiniteSet(States) /\ owner \in Users
  BY ConstantsAssumption DEF TypeInv, TypeOK
<1>5. paid \in [Users -> Nat] /\ paid[u] = lamports[u] - price
      /\ \A v \in Users \ {u} : paid[v] = lamports[v]
  BY <1>1, <1>2, <1>4
<1> HIDE DEF paid
<1>6. lamports' \in [Users -> Nat] /\ lamports'[owner] = paid[owner] + split.owner
      /\ \A v \in Users \ {owner} : lamports'[v] = paid[v]
  BY <1>1, <1>3, <1>4, <1>5
<1>7. commission' \in [States -> Nat] /\ commission'[s] = commission[s] + split.commission
      /\ \A t \in States \ {s} : commission'[t] = commission[t]
  BY <1>1, <1>3, <1>4
<1>8. Total(paid, Users) = Total(lamports, Users) - lamports[u] + paid[u]
  BY <1>4, <1>5, TotalUpdate
<1>9. Total(lamports', Users) = Total(paid, Users) - paid[owner] + lamports'[owner]
  BY <1>4, <1>5, <1>6, TotalUpdate
<1>10. Total(commission', States) = Total(commission, States) - commission[s] + commission'[s]
  BY <1>4, <1>7, TotalUpdate
<1>11. /\ Total(lamports, Users) \in Nat /\ Total(paid, Users) \in Nat
       /\ Total(commission, States) \in Nat
       /\ lamports[u] \in Nat /\ paid[owner] \in Nat /\ commission[s] \in Nat
  BY <1>4, <1>5, TotalType
<1>12. Total(lamports', Users) = Total(lamports, Users) - price + split.owner
  BY <1>2, <1>3, <1>5, <1>6, <1>8, <1>9, <1>11
<1>13. Total(commission', States) = Total(commission, States) + split.commission
  BY <1>3, <1>7, <1>10, <1>11
<1>14. treasury' = treasury + split.treasury /\ treasury' \in Nat
  BY <1>1, <1>3, <1>4
<1>15. Total(lamports', Users) + treasury' + Total(commission', States)
         = Total(lamports, Users) + treasury + Total(commission, States)
  BY <1>2, <1>3, <1>4, <1>11, <1>12, <1>13, <1>14
<1> QED
  BY <1>6, <1>7, <1>14, <1>15

\* The wrapped SOL of each pool.
Wsol(p) == [s \in States |-> p[s].wsol]

\* What a deposit of the commission writes, and what it leaves with the state
\* account: less than one more pool token costs.
LEMMA DepositPays ==
    ASSUME TypeInv, NEW s \in States, process_deposit_commission(s)
    PROVE  /\ vault' \in [States -> Nat] /\ commission' \in [States -> Nat]
           /\ pool' \in [States -> [tokens : Nat, wsol : Nat, supply : Nat]]
           /\ \A t \in States : pool'[t].wsol > 0 /\ pool'[t].supply > 0
           /\ \A t \in States \ {s} : pool'[t] = pool[t]
           /\ commission'[s] * pool[s].supply < pool[s].wsol
           /\ Total(commission', States) + Total(Wsol(pool'), States)
                = Total(commission, States) + Total(Wsol(pool), States)
<1> DEFINE c == commission[s]
           S == pool[s].supply
           W == pool[s].wsol
           T == pool[s].tokens
           p == calculate_pool_tokens(c, S, W)
           a == trading_tokens(T, p, S)
           b == trading_tokens(W, p, S)
           new_pool == [tokens |-> T + a, wsol |-> W + b, supply |-> S + p]
<1>1. /\ vault[s] >= a /\ commission[s] >= b
      /\ vault' = [vault EXCEPT ![s] = vault[s] - a]
      /\ commission' = [commission EXCEPT ![s] = commission[s] - b]
      /\ pool' = [pool EXCEPT ![s] = new_pool]
  BY DEF process_deposit_commission, deposit_all_token_types
<1>2. /\ c \in Nat /\ S \in Nat \ {0} /\ W \in Nat \ {0} /\ T \in Nat
      /\ vault \in [States -> Nat] /\ commission \in [States -> Nat]
      /\ pool \in [States -> [tokens : Nat, wsol : Nat, supply : Nat]]
      /\ \A t \in States : pool[t].wsol > 0 /\ pool[t].supply > 0
      /\ IsFiniteSet(States)
  BY ConstantsAssumption DEF TypeInv, TypeOK, PoolsFilled
<1> HIDE DEF c, S, W, T
<1>3. p = (c * S) \div W /\ c * S \in Nat
  BY <1>2, PoolTokensExact, MulNat
<1>4. p \in Nat /\ W * p <= c * S /\ c * S < W * (p + 1)
  BY <1>2, <1>3, DivBounds
<1> HIDE DEF p
<1>5. a \in Nat /\ b \in Nat /\ W * p <= S * b
  BY <1>2, <1>4, TradingBounds
<1> HIDE DEF a, b
<1>6. new_pool \in [tokens : Nat, wsol : Nat, supply : Nat]
      /\ new_pool.wsol = W + b /\ new_pool.supply = S + p
  BY <1>2, <1>4, <1>5
<1> HIDE DEF new_pool
<1>7. /\ pool' \in [States -> [tokens : Nat, wsol : Nat, supply : Nat]]
      /\ pool'[s] = new_pool /\ \A t \in States \ {s} : pool'[t] = pool[t]
  BY <1>1, <1>2, <1>6
<1>8. vault' \in [States -> Nat]
  BY <1>1, <1>2, <1>5
<1>9. commission' \in [States -> Nat] /\ commission'[s] = c - b /\ c >= b
      /\ \A t \in States \ {s} : commission'[t] = commission[t]
  BY <1>1, <1>2, <1>5 DEF c
<1>10. \A t \in States : pool'[t].wsol > 0 /\ pool'[t].supply > 0
  <2>1. new_pool.wsol > 0 /\ new_pool.supply > 0
    BY <1>2, <1>4, <1>5, <1>6
  <2> QED
    BY <1>2, <1>7, <2>1
<1>11. (c - b) * S < W
  <2> DEFINE cS == c * S
             Wp == W * p
             Sb == S * b
  <2>1. W * (p + 1) = Wp + W /\ (c - b) * S = cS - Sb
    BY <1>2, <1>4, <1>5
  <2>2. cS \in Nat /\ Wp \in Nat /\ Sb \in Nat
    BY <1>2, <1>4, <1>5, MulNat
  <2>3. cS < Wp + W /\ Wp <= Sb
    BY <1>4, <1>5, <2>1
  <2> HIDE DEF cS, Wp, Sb
  <2> QED
    BY <1>2, <2>1, <2>2, <2>3
<1>12. /\ Wsol(pool) \in [States -> Nat] /\ Wsol(pool') \in [States -> Nat]
       /\ Wsol(pool)[s] = W /\ Wsol(pool')[s] = W + b
       /\ \A t \in States \ {s} : Wsol(pool')[t] = Wsol(pool)[t]
  BY <1>2, <1>6, <1>7 DEF Wsol, W
<1>13. Total(commission', States) = Total(commission, States) - commission[s] + commission'[s]
  BY <1>2, <1>9, TotalUpdate
<1>14. Total(Wsol(pool'), States)
         = Total(Wsol(pool), States) - Wsol(pool)[s] + Wsol(pool')[s]
  BY <1>2, <1>12, TotalUpdate
<1>15. Total(commission, States) \in Nat /\ Total(Wsol(pool), States) \in Nat
  BY <1>2, <1>12, TotalType
<1>16. Total(commission', States) + Total(Wsol(pool'), States)
         = Total(commission, States) + Total(Wsol(pool), States)
  BY <1>2, <1>5, <1>9, <1>12, <1>13, <1>14, <1>15 DEF c
<1>17. commission'[s] * pool[s].supply < pool[s].wsol
  BY <1>9, <1>11 DEF S, W
<1> QED
  BY <1>7, <1>8, <1>9, <1>10, <1>16, <1>17

\* What a redeemed record pays.
LEMMA RedeemPays ==
    ASSUME TypeInv, NEW s \in States, NEW m \in Mints, process_redeem_repost(s, m)
    PROVE  /\ vault' \in [States -> Nat]
           /\ received' \in [States -> [Users -> Nat]]
           /\ records[m] \in RepostRecord /\ records[m].state = s
           /\ \A t \in States, u \in Users :
                received'[t][u] - received[t][u]
                  = IF t = s /\ u = records[m].user THEN records[m].receive_amount ELSE 0
           /\ records' = [records EXCEPT ![m] = Empty]
<1> DEFINE amount == records[m].receive_amount
           user == records[m].user
<1>1. /\ records[m] # Empty /\ records[m].state = s
      /\ vault[s] >= amount
      /\ vault' = [vault EXCEPT ![s] = vault[s] - amount]
      /\ received' = [received EXCEPT ![s][user] = received[s][user] + amount]
      /\ records' = [records EXCEPT ![m] = Empty]
  BY DEF process_redeem_repost
<1>2. /\ records[m] \in RepostRecord
      /\ vault \in [States -> Nat] /\ received \in [States -> [Users -> Nat]]
  BY <1>1 DEF TypeInv, TypeOK
<1>3. amount \in Nat /\ user \in Users
  BY <1>2 DEF RepostRecord
<1> HIDE DEF amount, user
<1>4. vault' \in [States -> Nat]
  BY <1>1, <1>2, <1>3
<1>5. /\ received[s] \in [Users -> Nat]
      /\ received' = [received EXCEPT ![s] = [received[s] EXCEPT ![user] = received[s][user] + amount]]
  BY <1>1, <1>2
<1>6. [received[s] EXCEPT ![user] = received[s][user] + amount] \in [Users -> Nat]
  BY <1>3, <1>5
<1>7. received' \in [States -> [Users -> Nat]]
  BY <1>2, <1>5, <1>6
<1>8. ASSUME NEW t \in States, NEW u \in Users
      PROVE  received'[t][u] - received[t][u] = IF t = s /\ u = user THEN amount ELSE 0
  <2>1. received[t] \in [Users -> Nat] /\ received[t][u] \in Nat
    BY <1>2
  <2>2. received'[t] = IF t = s THEN [received[s] EXCEPT ![user] = received[s][user] + amount]
                       ELSE received[t]
    BY <1>2, <1>5
  <2> QED
    BY <1>3, <1>5, <2>1, <2>2
<1> QED
  BY <1>1, <1>2, <1>4, <1>7, <1>8 DEF amount, user

\* Every step keeps the types, and the pools filled.
LEMMA TypeStep == TypeInv /\ [Next]_vars => TypeInv'
<1> SUFFICES ASSUME TypeInv, [Next]_vars PROVE TypeInv'
  OBVIOUS
<1>1. ASSUME NEW s \in States, NEW p \in Posts, NEW t \in CreatedAt, NEW price \in Prices,
             process_register_post(s, p, t, price)
      PROVE  TypeInv'
  <2> DEFINE info == [state |-> s, created_at |-> t, repost_price |-> price]
  <2>1. info \in PostInfo
    BY ConstantsAssumption DEF PostInfo
  <2> HIDE DEF info
  <2>2. /\ posts' = [posts EXCEPT ![p] = info]
        /\ collections' = collections \cup {s} /\ masters' \in {masters, masters \cup {p}}
        /\ UNCHANGED <<now, tree, printed, records, reposts, money>>
    BY <1>1 DEF process_register_post, save_post_info, mint_collection, mint_master, info
  <2> QED
    BY <2>1, <2>2 DEF TypeInv, TypeOK, PoolsFilled, money
<1>2. ASSUME NEW s \in States, NEW p \in Posts, NEW m \in Mints,
             NEW k \in Mints, NEW u \in Users, process_repost(s, p, m, k, u)
      PROVE  TypeInv'
  <2> DEFINE worth == calculate_tokens_for_repost_fee(price_for(p, u), pool[s].wsol,
                                                      pool[s].tokens)
             amount == IF worth > 1 THEN worth ELSE 1
  <2>1. price_for(p, u) \in Nat
    BY <1>2, PriceType DEF process_repost, repost_ok
  <2>2. pool[s].wsol \in Nat /\ pool[s].tokens \in Nat
    BY DEF TypeInv, TypeOK
  <2>3. worth \in Int
    BY <2>1, <2>2, RepostAmountType
  <2> HIDE DEF worth
  <2>4. amount \in Nat
    BY <2>3
  <2>5. save_repost_record(s, p, k, u, amount)
    BY <1>2 DEF process_repost, worth
  <2>6. records' \in [Mints -> RepostRecord \cup {Empty}]
    BY <2>4, <2>5, SaveType
  <2>7. printed' = printed \cup {m} /\ reposts' = reposts + 1
        /\ UNCHANGED <<now, posts, masters, collections, tree, vault, received, pool>>
    BY <1>2 DEF process_repost, copy_master
  <2> QED
    BY <1>2, <2>6, <2>7, RepostPays DEF TypeInv, TypeOK, PoolsFilled
<1>3. ASSUME NEW s \in States, NEW p \in Posts, NEW m \in Mints, NEW u \in Users,
             process_repost_compressed(s, p, m, u)
      PROVE  TypeInv'
  <2>1. records' \in [Mints -> RepostRecord \cup {Empty}]
    BY <1>3, SaveType, ConstantsAssumption DEF process_repost_compressed
  <2>2. reposts' = reposts + 1
        /\ UNCHANGED <<now, posts, masters, collections, tree, printed, money>>
    BY <1>3 DEF process_repost_compressed
  <2> QED
    BY <2>1, <2>2 DEF TypeInv, TypeOK, PoolsFilled, money
<1>4. ASSUME NEW s \in States, NEW m \in Mints, process_redeem_repost(s, m) PROVE TypeInv'
  <2>1. /\ records' = [records EXCEPT ![m] = Empty]
        /\ UNCHANGED <<now, posts, masters, collections, tree, printed, reposts,
                       lamports, treasury, commission, pool>>
    BY <1>4 DEF process_redeem_repost
  <2> QED
    BY <1>4, <2>1, RedeemPays DEF TypeInv, TypeOK, PoolsFilled
<1>5. CASE process_initialize_tree
  BY <1>5 DEF process_initialize_tree, TypeInv, TypeOK, PoolsFilled, money
<1>6. ASSUME NEW s \in States, process_deposit_commission(s) PROVE TypeInv'
  <2>1. UNCHANGED <<now, copies, lamports, treasury, received>>
    BY <1>6 DEF process_deposit_commission
  <2> QED
    BY <1>6, <2>1, DepositPays DEF TypeInv, TypeOK, PoolsFilled, copies
<1>7. ASSUME NEW s \in States, NEW level \in VaultLevels, RoundsMove(s, level) PROVE TypeInv'
  BY <1>7, ConstantsAssumption DEF RoundsMove, TypeInv, TypeOK, PoolsFilled, copies
<1>8. CASE Tick
  BY <1>8 DEF Tick, TypeInv, TypeOK, PoolsFilled, copies, money
<1>9. CASE UNCHANGED vars
  BY <1>9 DEF vars, TypeInv, TypeOK, PoolsFilled, copies, money
<1> QED
  BY <1>1, <1>2, <1>3, <1>4, <1>5, <1>6, <1>7, <1>8, <1>9 DEF Next

\* The initial state has the types, with or without a post of earlier programs.
LEMMA TypeInit == Init => TypeInv
<1> SUFFICES ASSUME Init PROVE TypeInv
  OBVIOUS
<1>1. /\ posts \in [Posts -> PostInfo \cup {Empty}]
      /\ masters \subseteq Posts /\ collections \subseteq States /\ printed \subseteq Mints
      /\ records \in [Mints -> RepostRecord \cup {Empty}]
  <2> DEFINE Fresh == /\ posts = [p \in Posts |-> Empty]
                      /\ masters = {}
                      /\ collections = {}
                      /\ printed = {}
                      /\ records = [m \in Mints |-> Empty]
             Earlier(s, p, m, u) ==
               /\ posts = [q \in Posts |-> IF q = p
                             THEN [state |-> s, created_at |-> Start, repost_price |-> None]
                             ELSE Empty]
               /\ masters = {p}
               /\ collections = {s}
               /\ printed = {m}
               /\ records = [k \in Mints |-> IF k = m
                               THEN [state |-> s, user |-> u, post_id |-> p,
                                     reposted_at |-> Start, receive_amount |-> 1,
                                     legacy |-> TRUE]
                               ELSE Empty]
             PostsTyped == posts \in [Posts -> PostInfo \cup {Empty}]
             RecordsTyped == records \in [Mints -> RepostRecord \cup {Empty}]
             SetsTyped == masters \subseteq Posts /\ collections \subseteq States
                            /\ printed \subseteq Mints
  <2>1. Fresh => PostsTyped /\ RecordsTyped /\ SetsTyped
    OBVIOUS
  <2>2. ASSUME NEW s \in States, NEW p \in Posts, NEW m \in Mints, NEW u \in Users \ {owner},
               Earlier(s, p, m, u)
        PROVE  PostsTyped /\ RecordsTyped /\ SetsTyped
    <3>1. [state |-> s, created_at |-> Start, repost_price |-> None] \in PostInfo
      BY ConstantsAssumption DEF PostInfo
    <3>2. [state |-> s, user |-> u, post_id |-> p, reposted_at |-> Start,
           receive_amount |-> 1, legacy |-> TRUE] \in RepostRecord
      BY ConstantsAssumption DEF RepostRecord
    <3>3. PostsTyped
      BY <2>2, <3>1
    <3>4. RecordsTyped
      BY <2>2, <3>2
    <3>5. SetsTyped
      BY <2>2
    <3> QED
      BY <3>3, <3>4, <3>5
  <2>3. Fresh \/ \E s \in States, p \in Posts, m \in Mints, u \in Users \ {owner} :
                   Earlier(s, p, m, u)
    BY DEF Init
  <2> HIDE DEF Fresh, Earlier
  <2>4. PostsTyped /\ RecordsTyped /\ SetsTyped
    <3> HIDE DEF PostsTyped, RecordsTyped, SetsTyped
    <3> QED
      BY <2>1, <2>2, <2>3
  <2> QED
    BY <2>4
<1>2. /\ now = Start /\ tree = FALSE /\ reposts = 0 /\ treasury = 0
      /\ lamports = [u \in Users |-> Funds]
      /\ commission = [s \in States |-> 0]
      /\ vault \in [States -> VaultLevels]
      /\ received = [s \in States |-> [u \in Users |-> 0]]
      /\ pool = [s \in States |->
                   [tokens |-> PoolTokens, wsol |-> PoolWsol, supply |-> PoolSupply]]
  BY DEF Init
<1>3. PoolTokens \in Nat /\ PoolWsol \in Nat \ {0} /\ PoolSupply \in Nat \ {0}
  BY ConstantsAssumption
<1>4. /\ pool \in [States -> [tokens : Nat, wsol : Nat, supply : Nat]]
      /\ \A s \in States : pool[s].wsol > 0 /\ pool[s].supply > 0
  BY <1>2, <1>3
<1> QED
  BY <1>1, <1>2, <1>4, ConstantsAssumption DEF TypeInv, TypeOK, PoolsFilled

\* So the types hold, and the pools stay filled.
LEMMA TypeAlways == Spec => []TypeInv
BY TypeInit, TypeStep, PTL DEF Spec

\* No user, state account or vault is overdrawn, whatever pay_split and
\* deposit_all_token_types round.
THEOREM TypeCorrect == Spec => []TypeOK
<1>1. TypeInv => TypeOK
  BY DEF TypeInv
<1> QED
  BY <1>1, TypeAlways, PTL

-----------------------------------------------------------------------------
(* The lamports.                                                            *)

LamportsInv == TypeInv /\ LamportsKept

\* Steps which pay nobody keep LamportsKept.
LEMMA LamportsUntouched ==
    ASSUME LamportsKept, UNCHANGED <<lamports, treasury, commission, pool>>
    PROVE  LamportsKept'
BY DEF LamportsKept

\* Every step keeps the lamports.
LEMMA LamportsStep == LamportsInv /\ [Next]_vars => LamportsInv'
<1> SUFFICES ASSUME TypeInv, LamportsKept, [Next]_vars PROVE LamportsKept'
  BY TypeStep DEF LamportsInv
<1> DEFINE All == Cardinality(Users) * Funds + Cardinality(States) * PoolWsol
           users == Total(lamports, Users)
           held == Total(commission, States)
           pooled == Total(Wsol(pool), States)
<1>1. users + treasury + held + pooled = All
  BY DEF LamportsKept, Wsol
<1>2. users \in Nat /\ treasury \in Nat /\ held \in Nat /\ pooled \in Nat
  <2>1. Wsol(pool) \in [States -> Nat]
    BY DEF Wsol, TypeInv, TypeOK
  <2> QED
    BY <2>1, TotalType, ConstantsAssumption DEF TypeInv, TypeOK
<1>3. ASSUME NEW s \in States, NEW p \in Posts, NEW m \in Mints,
             NEW k \in Mints, NEW u \in Users, process_repost(s, p, m, k, u)
      PROVE  LamportsKept'
  <2>1. users' + treasury' + held' = users + treasury + held
    BY <1>3, RepostPays
  <2>2. pool' = pool
    BY <1>3 DEF process_repost
  <2>3. users' + treasury' + held' + Total(Wsol(pool'), States) = All
    <3> HIDE DEF users, held, pooled, All
    <3>1. (users' + treasury' + held') + pooled = (users + treasury + held) + pooled
      BY <2>1
    <3>2. Total(Wsol(pool'), States) = pooled
      BY <2>2 DEF pooled
    <3> QED
      BY <1>1, <3>1, <3>2
  <2> QED
    BY <2>3 DEF LamportsKept, Wsol
<1>4. ASSUME NEW s \in States, process_deposit_commission(s) PROVE LamportsKept'
  <2> DEFINE newheld == Total(commission', States)
             newpooled == Total(Wsol(pool'), States)
  <2>1. newheld + newpooled = held + pooled
    BY <1>4, DepositPays
  <2>2. newheld \in Nat /\ newpooled \in Nat
    <3>1. /\ commission' \in [States -> Nat]
          /\ pool' \in [States -> [tokens : Nat, wsol : Nat, supply : Nat]]
      BY <1>4, DepositPays
    <3>2. Wsol(pool') \in [States -> Nat]
      BY <3>1 DEF Wsol
    <3> QED
      BY <3>1, <3>2, TotalType, ConstantsAssumption
  <2>3. lamports' = lamports /\ treasury' = treasury
    BY <1>4 DEF process_deposit_commission
  <2>4. users + treasury + newheld + newpooled = All
    <3> HIDE DEF users, held, pooled, newheld, newpooled, All
    <3> QED
      BY <1>1, <1>2, <2>1, <2>2
  <2> QED
    BY <2>3, <2>4 DEF LamportsKept, Wsol
<1>5. ASSUME NEW s \in States, NEW p \in Posts, NEW t \in CreatedAt, NEW price \in Prices,
             process_register_post(s, p, t, price)
      PROVE  LamportsKept'
  BY <1>5, LamportsUntouched DEF process_register_post, money
<1>6. ASSUME NEW s \in States, NEW p \in Posts, NEW m \in Mints, NEW u \in Users,
             process_repost_compressed(s, p, m, u)
      PROVE  LamportsKept'
  BY <1>6, LamportsUntouched DEF process_repost_compressed, money
<1>7. ASSUME NEW s \in States, NEW m \in Mints, process_redeem_repost(s, m)
      PROVE  LamportsKept'
  BY <1>7, LamportsUntouched DEF process_redeem_repost
<1>8. CASE process_initialize_tree
  BY <1>8, LamportsUntouched DEF process_initialize_tree, money
<1>9. ASSUME NEW s \in States, NEW level \in VaultLevels, RoundsMove(s, level)
      PROVE  LamportsKept'
  BY <1>9, LamportsUntouched DEF RoundsMove
<1>10. CASE Tick \/ UNCHANGED vars
  BY <1>10, LamportsUntouched DEF Tick, vars, money
<1> QED
  BY <1>3, <1>4, <1>5, <1>6, <1>7, <1>8, <1>9, <1>10 DEF Next

\* At first the users have all but what the pools were opened with.
LEMMA LamportsInit == Init => LamportsInv
<1> SUFFICES ASSUME Init PROVE LamportsKept
  BY TypeInit DEF LamportsInv
<1>1. /\ lamports = [u \in Users |-> Funds] /\ treasury = 0
      /\ commission = [s \in States |-> 0]
      /\ [s \in States |-> pool[s].wsol] = [s \in States |-> PoolWsol]
  BY DEF Init
<1>2. /\ IsFiniteSet(Users) /\ IsFiniteSet(States) /\ Funds \in Nat /\ PoolWsol \in Nat
      /\ Cardinality(Users) \in Nat /\ Cardinality(States) \in Nat
  BY ConstantsAssumption, FS_CardinalityType
<1>3. /\ Total(lamports, Users) = Cardinality(Users) * Funds
      /\ Total(commission, States) = Cardinality(States) * 0
      /\ Total([s \in States |-> pool[s].wsol], States) = Cardinality(States) * PoolWsol
  BY <1>1, <1>2, TotalConst
<1>4. Cardinality(Users) * Funds \in Nat /\ Cardinality(States) * PoolWsol \in Nat
  BY <1>2, MulNat
<1> QED
  BY <1>1, <1>2, <1>3, <1>4 DEF LamportsKept

\* calculate_split_by_lamports hands out the whole price, and what the swap
\* program takes of the commission is in its pool: no lamport is made or lost.
THEOREM LamportsNeverLost == Spec => []LamportsKept
<1>1. LamportsInv => LamportsKept
  BY DEF LamportsInv
<1> QED
  BY <1>1, LamportsInit, LamportsStep, PTL DEF Spec

-----------------------------------------------------------------------------
(* The commission.                                                          *)

\* process_deposit_commission, the only instruction to touch a pool, leaves less
\* with the state account than one more pool token costs.
THEOREM CommissionAlwaysUsed == Spec => CommissionUsed
<1> DEFINE Used == \A s \in States : pool'[s] # pool[s]
                     => commission'[s] * pool[s].supply < pool[s].wsol
<1>1. TypeInv /\ [Next]_vars => [Used]_vars
  <2> SUFFICES ASSUME TypeInv, Next PROVE Used
    BY DEF Used
  <2>1. ASSUME NEW s \in States, process_deposit_commission(s) PROVE Used
    BY <2>1, DepositPays
  <2>2. CASE pool' = pool
    BY <2>2
  <2>3. pool' = pool \/ \E s \in States : process_deposit_commission(s)
    BY DEF Next, process_register_post, process_repost, process_repost_compressed,
           process_redeem_repost, process_initialize_tree, RoundsMove, Tick, money
  <2> HIDE DEF Used
  <2> QED
    BY <2>1, <2>2, <2>3
<1> QED
  BY <1>1, TypeAlways, PTL DEF Spec, CommissionUsed

-----------------------------------------------------------------------------
(* The rewards.                                                             *)

\* A step which pays no reward and removes no record keeps to RewardPaid.
LEMMA NobodyPaid ==
    ASSUME TypeInv, received' = received,
           \A m \in Mints : records[m] # Empty => records'[m] = records[m]
    PROVE  RewardPaid
<1> SUFFICES ASSUME NEW s \in States, NEW u \in Users
             PROVE  received'[s][u] - received[s][u] =
                      Total([m \in Mints |-> records[m].receive_amount],
                        {m \in Mints : /\ records[m] # Empty /\ records'[m] = Empty
                                       /\ records[m].state = s /\ records[m].user = u})
  BY DEF RewardPaid
<1> DEFINE amounts == [m \in Mints |-> records[m].receive_amount]
           Paid == {m \in Mints : /\ records[m] # Empty /\ records'[m] = Empty
                                  /\ records[m].state = s /\ records[m].user = u}
<1>1. Paid = {}
  OBVIOUS
<1>2. received[s][u] \in Nat /\ received'[s][u] = received[s][u]
  BY DEF TypeInv, TypeOK
<1>3. Total(amounts, {}) = 0
  BY TotalNone
<1> HIDE DEF amounts, Paid
<1>4. received'[s][u] - received[s][u] = Total(amounts, Paid)
  BY <1>1, <1>2, <1>3
<1> QED
  BY <1>4 DEF amounts, Paid

\* The only step to remove a record pays what it is worth to its user.
LEMMA RecordPaid ==
    ASSUME TypeInv, NEW t \in States, NEW k \in Mints, process_redeem_repost(t, k)
    PROVE  RewardPaid
<1> DEFINE amounts == [m \in Mints |-> records[m].receive_amount]
<1> SUFFICES ASSUME NEW s \in States, NEW u \in Users
             PROVE  received'[s][u] - received[s][u] =
                      Total(amounts,
                        {m \in Mints : /\ records[m] # Empty /\ records'[m] = Empty
                                       /\ records[m].state = s /\ records[m].user = u})
  BY DEF RewardPaid
<1> DEFINE Paid == {m \in Mints : /\ records[m] # Empty /\ records'[m] = Empty
                                  /\ records[m].state = s /\ records[m].user = u}
<1>1. /\ records[k] \in RepostRecord /\ records[k].state = t /\ records[k] # Empty
      /\ records' = [records EXCEPT ![k] = Empty]
      /\ received'[s][u] - received[s][u]
           = IF s = t /\ u = records[k].user THEN records[k].receive_amount ELSE 0
  <2>1. records[k] # Empty
    BY DEF process_redeem_repost
  <2> QED
    BY <2>1, RedeemPays
<1>2. records \in [Mints -> RepostRecord \cup {Empty}]
  BY DEF TypeInv, TypeOK
<1>3. Paid = IF s = t /\ u = records[k].user THEN {k} ELSE {}
  BY <1>1, <1>2
<1>4. Total(amounts, {k}) = amounts[k] /\ Total(amounts, {}) = 0
  <2>1. amounts[k] \in Nat
    BY <1>1 DEF RepostRecord
  <2> HIDE DEF amounts
  <2> QED
    BY <2>1, TotalOne, TotalNone
<1>5. amounts[k] = records[k].receive_amount
  OBVIOUS
<1> HIDE DEF amounts, Paid
<1>6. received'[s][u] - received[s][u] = Total(amounts, Paid)
  BY <1>1, <1>3, <1>4, <1>5
<1> QED
  BY <1>6 DEF Paid

\* The tokens of a repost are paid once, from the vault of its own token and to
\* the user who reposted, when process_redeem_repost takes its record away;
\* nothing else pays a reward or changes a record.
THEOREM RecordsPaidOnce == Spec => RecordPaidOnce
<1> DEFINE Kept == \A m \in Mints : records[m] # Empty => records'[m] \in {records[m], Empty}
           Same == \A m \in Mints : records[m] # Empty => records'[m] = records[m]
<1>1. TypeInv /\ [Next]_vars => [RewardPaid /\ Kept]_vars
  <2> SUFFICES ASSUME TypeInv, Next PROVE RewardPaid /\ Kept
    OBVIOUS
  <2>1. ASSUME NEW s \in States, NEW m \in Mints, process_redeem_repost(s, m)
        PROVE  RewardPaid /\ Kept
    <3>1. records' = [records EXCEPT ![m] = Empty]
      BY <2>1, RedeemPays
    <3>2. Kept
      BY <3>1 DEF TypeInv, TypeOK
    <3> QED
      BY <2>1, <3>2, RecordPaid
  <2>2. ASSUME received' = received, Same PROVE RewardPaid /\ Kept
    BY <2>2, NobodyPaid
  <2>3. ASSUME NEW s \in States, NEW p \in Posts, NEW m \in Mints,
               NEW k \in Mints, NEW u \in Users, process_repost(s, p, m, k, u)
        PROVE  received' = received /\ Same
    <3> DEFINE worth == calculate_tokens_for_repost_fee(price_for(p, u), pool[s].wsol,
                                                        pool[s].tokens)
               amount == IF worth > 1 THEN worth ELSE 1
    <3>1. price_for(p, u) \in Nat /\ pool[s].wsol \in Nat /\ pool[s].tokens \in Nat
      BY <2>3, PriceType DEF process_repost, repost_ok, TypeInv, TypeOK
    <3>2. worth \in Int
      BY <3>1, RepostAmountType
    <3>3. save_repost_record(s, p, k, u, amount) /\ received' = received
      BY <2>3 DEF process_repost
    <3> HIDE DEF worth
    <3>4. amount \in Nat
      BY <3>2
    <3> QED
      BY <3>3, <3>4, SaveType
  <2>4. ASSUME NEW s \in States, NEW p \in Posts, NEW m \in Mints, NEW u \in Users,
               process_repost_compressed(s, p, m, u)
        PROVE  received' = received /\ Same
    BY <2>4, SaveType, ConstantsAssumption DEF process_repost_compressed, money
  <2>5. \/ received' = received /\ Same
        \/ \E s \in States, m \in Mints : process_redeem_repost(s, m)
    <3>1. \/ \E s \in States, p \in Posts, m, k \in Mints, u \in Users :
               process_repost(s, p, m, k, u)
          \/ \E s \in States, p \in Posts, m \in Mints, u \in Users :
               process_repost_compressed(s, p, m, u)
          \/ \E s \in States, m \in Mints : process_redeem_repost(s, m)
          \/ received' = received /\ records' = records
      BY DEF Next, process_register_post, process_initialize_tree, process_deposit_commission,
             RoundsMove, Tick, money, copies
    <3>2. ASSUME records' = records PROVE Same
      BY <3>2
    <3> HIDE DEF Same
    <3> QED
      BY <2>3, <2>4, <3>1, <3>2
  <2> HIDE DEF Same, Kept
  <2> QED
    BY <2>1, <2>2, <2>5
<1> QED
  BY <1>1, TypeAlways, PTL DEF Spec, RecordPaidOnce
=============================================================================
