-------------------------------- MODULE Human --------------------------------
(***************************************************************************)
(* The human program's rounds (human/src/lib.rs, human/src/state.rs): the  *)
(* state account of one token, the vault that holds its supply, the rounds *)
(* that anybody may open with tokens of the vault, and the tenth of an     *)
(* accepted round's offer that its owner, the heir, is then paid.  Posts   *)
(* and reposts are in Repost, the disabled monthly schedule in Vesting.    *)
(*                                                                         *)
(* The program creates rounds and fanouts by CPI and later reads a round   *)
(* account that has lived on in the round program: the rounds here take    *)
(* every step that RoundLife allows, at any time.  An instruction is       *)
(* atomic.  Rounds made by the program belong to the vault; a round may    *)
(* also be made in the round program itself, with somebody's own tokens.   *)
(*                                                                         *)
(* process_claim_round_vesting compares the address of the round account   *)
(* with the state, but neither the program that owns the account nor the   *)
(* mint of its offer.  At the address of a round that was closed there may *)
(* be any account, and the claim reads it as a round.                      *)
(***************************************************************************)
EXTENDS RoundLife, FiniteSets, Sequences

CONSTANTS
    Rounds,         \* the addresses of round accounts
    Fanouts,        \* the addresses of fanout accounts
    Wallets,        \* the addresses an admin or a treasury may have
    state_addr,     \* the address of the state account
    None,           \* Option::None
    Garbage,        \* a tag of current_round that is neither 0 nor 1
    Junk,           \* an address nobody has the key of
    MAX_COMPLETED,  \* 1000, the largest completed_rounds_count believed
    Supply,         \* the tokens there are
    Offers,         \* bound: the amounts offered
    OtherOffers,    \* bound: the total_offer read in an account that is no
                    \*   round of this token
    Lots,           \* bound: the amounts redeemed at once
    MaxMade         \* bound: how many rounds are made

ASSUME ConstantsAssumption ==
    /\ IsFiniteSet(Rounds)
    /\ MAX_COMPLETED \in Nat /\ Supply \in Nat /\ MaxMade \in Nat
    /\ Offers \subseteq Nat \ {0} /\ OtherOffers \subseteq Nat /\ Lots \subseteq Nat
    /\ {None, Garbage, Junk} \cap Rounds = {}
    /\ None # Garbage /\ None # Junk /\ Garbage # Junk
    /\ None \notin Fanouts /\ None \notin Nat
    /\ None \notin Seq([address : Wallets \cup {None, state_addr}, share : Nat])

VARIABLES
    state,          \* the ContractState account
    vault,          \* the tokens in the vault, None before CreateWallets
    owner_wallet,   \* what has been vested to state.owner
    outside,        \* the tokens everybody else has
    fanouts,        \* the members of each fanout account, None without one
    rounds,         \* the life of each round address, as its account reads
    strangers,      \* the addresses with another program's account, or with a
                    \*   round of another mint
    (* history *)
    made,           \* how the round was made: does its offer belong to the
                    \*   vault, to which fanout do its bids go, who was admin?
    opened,         \* how many rounds were ever opened
    created,        \* how many of them process_create_round has made
    claimed,        \* how many times it has vested
    strayed,        \* what it vested for an account process_create_round had
                    \*   not made
    accepted        \* the offers of all rounds it made that were accepted

accounts == <<state, vault, owner_wallet, outside, fanouts>>
history == <<opened, created, claimed, strayed, accepted>>
vars == <<accounts, rounds, strangers, made, history>>

-----------------------------------------------------------------------------
\* The fields of ContractState these instructions use, or "none" for no account.
\* In version V3 treasury_addr is the address of additional_split, if it is set.
ContractState ==
    [version : {"none", "V3", "V4"}, admin : Wallets,
     treasury_addr : Wallets \cup {None},
     current_round : Rounds \cup {None, Garbage, Junk},
     completed_rounds_count : Nat]

NewState(version, admin, treasury) ==
    [version |-> version, admin |-> admin, treasury_addr |-> treasury,
     current_round |-> None, completed_rounds_count |-> 0]

\* Variant: any round on record counts as garbage.
is_broken_set ==
    \/ state.current_round # None
    \/ state.completed_rounds_count > MAX_COMPLETED

is_broken ==
    \/ state.current_round = Garbage
    \/ state.completed_rounds_count > MAX_COMPLETED

\* What every instruction whose first account is the state finds: one whose
\* last fields cannot be right has them zeroed first.
try_fix_state ==
    IF state.version = "V4" /\ is_broken
    THEN [state EXCEPT !.current_round = None, !.completed_rounds_count = 0]
    ELSE state

\* Who shares the bids of an accepted round.
expected_members(s) ==
    << [address |-> s.treasury_addr, share |-> 9650],
       [address |-> s.admin, share |-> 250],
       [address |-> state_addr, share |-> 100] >>

-----------------------------------------------------------------------------
(* The state account and the wallets.                                       *)

\* next_entity: the account has the magic byte of the current version.
state_loads == state.version = "V4"

\* The system program creates the account only once.
process_init_state(admin, treasury) ==
    /\ state.version = "none"
    /\ state' = NewState("V4", admin, treasury)
    /\ UNCHANGED <<vault, owner_wallet, outside, fanouts, rounds, strangers, made, history>>

\* The drop wallet, which is used no longer, and the vault.
process_create_wallets ==
    /\ vault = None
    /\ vault' = 0
    /\ UNCHANGED <<state, owner_wallet, outside, fanouts, rounds, strangers, made, history>>

\* The treasury given here only matters to a state without additional_split.
process_migrate_state(treasury) ==
    /\ state.version = "V3"
    /\ state' = NewState("V4", state.admin,
                    IF state.treasury_addr # None THEN state.treasury_addr ELSE treasury)
    /\ UNCHANGED <<vault, owner_wallet, outside, fanouts, rounds, strangers, made, history>>

\* Signed by the admin.
process_set_admin(new_admin) ==
    /\ state_loads
    /\ state' = [try_fix_state EXCEPT !.admin = new_admin]
    /\ UNCHANGED <<vault, owner_wallet, outside, fanouts, rounds, strangers, made, history>>

\* The deprecated instructions, the disabled Vest, MigrateState of a state that
\* is up to date, and a claim for another round than the current one succeed
\* and do nothing else.
process_instruction ==
    /\ state' = try_fix_state
    /\ state' # state
    /\ UNCHANGED <<vault, owner_wallet, outside, fanouts, rounds, strangers, made, history>>

-----------------------------------------------------------------------------
(* Rounds and their vesting.                                                *)

\* Variant: any fanout account will do.
fanout_ready_any(f) == TRUE

\* The fanout account must have exactly the members expected, or not exist yet.
fanout_ready(f) == fanouts[f] \in {None, expected_members(try_fix_state)}

\* A round, or another account, that the program has not made.
Unmade == [from_vault |-> FALSE, recipient |-> None, admin |-> None]

\* External: create_round of the round program, at an unused address, with an
\* offer from the vault or from somebody else's wallet.
open_round(r, offer, how) ==
    /\ rounds[r].status = "Absent"
    /\ opened < MaxMade
    /\ opened' = opened + 1
    /\ rounds' = [rounds EXCEPT ![r] = Opened(offer)]
    /\ made' = [made EXCEPT ![r] = how]
    /\ UNCHANGED strangers

\* Anybody may call it: no signature of the owner is asked for.
process_create_round(r, f, offer_amount) ==
    /\ state_loads
    /\ vault # None
    /\ fanout_ready(f)
    /\ fanouts' = [fanouts EXCEPT ![f] =
                      IF @ = None THEN expected_members(try_fix_state) ELSE @]
    /\ vault >= offer_amount
    /\ vault' = vault - offer_amount
    /\ open_round(r, offer_amount,
                  [from_vault |-> TRUE, recipient |-> f, admin |-> state.admin])
    /\ state' = [try_fix_state EXCEPT !.current_round = r]
    /\ created' = created + 1
    /\ UNCHANGED <<owner_wallet, outside, claimed, strayed, accepted>>

\* Variant: the current round stays on record.
clear_nothing(s) == [s EXCEPT !.completed_rounds_count = @ + 1]

\* The current round is done with.
complete_round(s) ==
    [s EXCEPT !.current_round = None, !.completed_rounds_count = @ + 1]

\* The account is at the address of the current round and reads as a round that
\* was accepted.  Which program owns it, and the mint of its offer, is not asked.
vestable(r) ==
    /\ rounds[r].status = "Accepted"
    /\ try_fix_state.current_round = r

\* Variant: the whole tenth, whatever the vault holds.
vested_amount_full(r) == rounds[r].total_offer \div 10

\* 10% of the offer, or what is left.
vested_amount(r) ==
    LET amount == rounds[r].total_offer \div 10
    IN  IF amount < vault THEN amount ELSE vault

process_claim_round_vesting(r) ==
    /\ state_loads
    /\ vault # None
    /\ vestable(r)
    /\ vault' = vault - vested_amount(r)
    /\ owner_wallet' = owner_wallet + vested_amount(r)
    /\ state' = complete_round(try_fix_state)
    /\ claimed' = claimed + 1
    /\ strayed' = IF made[r].from_vault THEN strayed ELSE strayed + vested_amount(r)
    /\ UNCHANGED <<outside, fanouts, rounds, strangers, made, opened, created, accepted>>

-----------------------------------------------------------------------------
(* External: the other programs.                                            *)

\* A round of this token that the program knows nothing of, which may have the
\* address of one that was closed.
OpenElsewhere(r, offer) ==
    /\ outside >= offer
    /\ outside' = outside - offer
    /\ open_round(r, offer, Unmade)
    /\ UNCHANGED <<state, vault, owner_wallet, fanouts, created, claimed, strayed, accepted>>

\* What may be read in an account that is no round of this token: nothing, once
\* it is closed, or a round that holds none of the token.
OtherLives ==
    {Gone} \cup [status : {"Pending", "Accepted"}, total_offer : OtherOffers, held : {0}]

\* At an unused address there comes to be such an account, or it changes.
OtherAccount(r, l) ==
    /\ rounds[r].status = "Absent" \/ r \in strangers
    /\ rounds' = [rounds EXCEPT ![r] = l]
    /\ strangers' = IF l = Gone THEN strangers \ {r} ELSE strangers \cup {r}
    /\ made' = [made EXCEPT ![r] = Unmade]
    /\ UNCHANGED <<accounts, history>>

\* A round takes a step of its life.  What it returns goes back to the wallet
\* the offer came from, what is redeemed goes to users.
RoundStep(r) ==
    \E d \in Successors(rounds[r], Lots) :
        LET back == Returned(rounds[r], d)
            redeemed == rounds[r].held - d.held - back
        IN  /\ r \notin strangers
            /\ rounds' = [rounds EXCEPT ![r] = d]
            /\ vault' = IF made[r].from_vault THEN vault + back ELSE vault
            /\ outside' = outside + redeemed
                              + (IF made[r].from_vault THEN 0 ELSE back)
            /\ accepted' = IF /\ made[r].from_vault
                               /\ d.status = "Accepted" /\ rounds[r].status # "Accepted"
                           THEN accepted + d.total_offer ELSE accepted
            /\ UNCHANGED <<state, owner_wallet, fanouts, strangers, made, opened, created,
                           claimed, strayed>>

\* The members somebody may prepare a fanout with: those that are expected with
\* some treasury and admin, the same with other shares, and fewer.
PreparedMembers(treasury, admin) ==
    LET ms == expected_members(NewState("V4", admin, treasury))
    IN  {ms, [ms EXCEPT ![2].share = 100, ![3].share = 250], SubSeq(ms, 1, 2)}

\* A fanout account with the members somebody chose, which are never changed.
InitializeFanout(f, ms) ==
    /\ fanouts[f] = None
    /\ fanouts' = [fanouts EXCEPT ![f] = ms]
    /\ UNCHANGED <<state, vault, owner_wallet, outside, rounds, strangers, made, history>>

\* Whoever has the supply sends all of it to the vault.
FundVault ==
    /\ vault = 0 /\ outside = Supply
    /\ vault' = Supply
    /\ outside' = 0
    /\ UNCHANGED <<state, owner_wallet, fanouts, rounds, strangers, made, history>>

-----------------------------------------------------------------------------
\* There is no state account yet, or one of version V3, or one of version V4
\* that an earlier program wrote without the last two fields, which then hold
\* what was there before.
Init ==
    /\ \E admin, treasury \in Wallets :
         \/ state = NewState("none", admin, treasury)
         \/ state = NewState("V3", admin, treasury)
         \/ state = NewState("V3", admin, None)
         \/ \E r \in {None, Garbage, Junk}, n \in {0, MAX_COMPLETED + 1} :
              state = [NewState("V4", admin, treasury) EXCEPT
                          !.current_round = r, !.completed_rounds_count = n]
    /\ vault = None
    /\ owner_wallet = 0
    /\ outside = Supply
    /\ fanouts = [f \in Fanouts |-> None]
    /\ rounds = [r \in Rounds |-> Gone]
    /\ strangers = {}
    /\ made = [r \in Rounds |-> Unmade]
    /\ opened = 0 /\ created = 0 /\ claimed = 0 /\ strayed = 0 /\ accepted = 0

Next ==
    \/ \E admin, treasury \in Wallets : process_init_state(admin, treasury)
    \/ process_create_wallets
    \/ \E treasury \in Wallets : process_migrate_state(treasury)
    \/ \E admin \in Wallets : process_set_admin(admin)
    \/ process_instruction
    \/ \E r \in Rounds, f \in Fanouts, offer \in Offers : process_create_round(r, f, offer)
    \/ \E r \in Rounds : process_claim_round_vesting(r)
    \/ \E r \in Rounds, offer \in Offers : OpenElsewhere(r, offer)
    \/ \E r \in Rounds, l \in OtherLives : OtherAccount(r, l)
    \/ \E r \in Rounds : RoundStep(r)
    \/ \E f \in Fanouts, treasury, admin \in Wallets :
         \E ms \in PreparedMembers(treasury, admin) : InitializeFanout(f, ms)
    \/ FundVault

Spec == Init /\ [][Next]_vars

\* The owner, or anybody else, claims the vesting of an accepted round.
ClaimSpec == Spec /\ \A r \in Rounds : WF_vars(process_claim_round_vesting(r))

-----------------------------------------------------------------------------
(* Properties.                                                              *)

\* Every variable keeps to the range of the account field it stands for; no
\* wallet is overdrawn, whatever is claimed.
TypeOK ==
    /\ state \in ContractState
    /\ vault \in Nat \cup {None}
    /\ owner_wallet \in Nat
    /\ outside \in Nat
    /\ rounds \in [Rounds -> Lives]
    /\ strangers \subseteq Rounds
    /\ made \in [Rounds -> [from_vault : BOOLEAN, recipient : Fanouts \cup {None},
                            admin : Wallets \cup {None}]]
    /\ opened \in Nat /\ created \in Nat /\ claimed \in Nat
    /\ strayed \in Nat /\ accepted \in Nat

\* What the current round would still vest, were the vault full, if it is the
\* one that was made from the vault.
Unclaimed ==
    IF /\ state.current_round \in Rounds
       /\ made[state.current_round].from_vault
       /\ rounds[state.current_round].status = "Accepted"
    THEN rounds[state.current_round].total_offer ELSE 0

\* For the rounds that process_create_round made from the vault the owner is
\* vested at most a tenth of the offers that were accepted, whatever is claimed
\* again, closed, or put at the address of the current round.  And there are no
\* more claims than it made rounds: an account it did not make is read once at
\* most, in the place of one that it made.
VestedATenth ==
    /\ 10 * (owner_wallet - strayed) + Unclaimed <= accepted
    /\ claimed <= created

\* The bids of a round made from the vault go to a fanout of the treasury of
\* the state, who was admin when the round was made, and the state account
\* itself, with exactly the shares expected of them: a fanout that somebody
\* prepared with others, or with other shares, never gets them, and a later
\* admin takes no share in them.
BidsShared ==
    \A r \in Rounds :
        made[r].from_vault =>
            fanouts[made[r].recipient] =
                << [address |-> state.treasury_addr, share |-> 9650],
                   [address |-> made[r].admin, share |-> 250],
                   [address |-> state_addr, share |-> 100] >>

\* The current round leaves the state only for a newer round made by
\* process_create_round, or against a vesting paid from the vault, when the
\* account at its address reads as accepted: neither try_fix_state, when it
\* starts counting again, nor an update of the admin loses it.
CurrentRoundKept ==
    [][ state.current_round \in Rounds /\ state'.current_round # state.current_round
          => LET r == state.current_round
             IN  \/ created' = created + 1 /\ rounds[state'.current_round].status = "Absent"
                 \/ /\ rounds[r].status = "Accepted"
                    /\ owner_wallet' = owner_wallet + vested_amount(r)
                    /\ vault' = vault - vested_amount(r) ]_vars

-----------------------------------------------------------------------------
(* What the repository says of the program and the code does not do.        *)

\* "round in progress, used for vesting 10% of tokens": the current round, once
\* accepted, is vested.
RoundsVest ==
    \A n \in 0 .. MaxMade :
        Unclaimed > 0 /\ claimed = n ~> claimed > n
=============================================================================
