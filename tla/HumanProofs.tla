----------------------------- MODULE HumanProofs -----------------------------
(***************************************************************************)
(* Proofs about Human, for any number of rounds, fanouts and wallets, all  *)
(* amounts, and any life of the rounds that RoundLife allows.              *)
(***************************************************************************)
EXTENDS Human, TLAPS

-----------------------------------------------------------------------------
(* Facts about the life of a round.                                         *)

\* What may become of a round is a life again; its offer stays what it was, until
\* the account is gone; and no more leaves the offer wallet than was there.
LEMMA NextLife ==
    ASSUME NEW l \in Lives, NEW d \in Successors(l, Lots)
    PROVE  /\ d \in Lives
           /\ d = Gone \/ d.total_offer = l.total_offer
           /\ Returned(l, d) \in Nat
           /\ l.held - d.held - Returned(l, d) \in Nat
           /\ l.status = "Accepted" => d = Gone \/ d.status = "Accepted"
<1>. Lots \subseteq Nat
  BY ConstantsAssumption
<1>. l = [status |-> l.status, total_offer |-> l.total_offer, held |-> l.held]
  BY DEF Lives
<1>. l.total_offer \in Nat /\ l.held \in Nat
  BY DEF Lives
<1>1. CASE d \in Decisions(l)
  <2>1. CASE d = [l EXCEPT !.status = "Accepted"] \/ d = [l EXCEPT !.status = "Reconciliation"]
    <3>. /\ d.total_offer = l.total_offer /\ d.held = l.held
         /\ d.status \in {"Accepted", "Reconciliation"} /\ d \in Lives
      BY <2>1 DEF Lives
    <3>. l.status = "Pending"
      BY <1>1 DEF Decisions
    <3>. QED
      BY DEF Returned
  <2>2. CASE d = [status |-> "Rejected", total_offer |-> l.total_offer, held |-> 0]
    <3>. /\ d.total_offer = l.total_offer /\ d.held = 0
         /\ d.status = "Rejected" /\ d \in Lives
      BY <2>2 DEF Lives
    <3>. l.status = "Pending"
      BY <1>1 DEF Decisions
    <3>. QED
      BY DEF Returned
  <2>. QED
    BY <1>1, <2>1, <2>2 DEF Decisions
<1>2. CASE d \in Reconciled(l)
  BY <1>2 DEF Reconciled, Lives, Returned, Gone
<1>3. CASE d \in Redeemed(l, Lots)
  BY <1>3 DEF Redeemed, Lives, Returned, Gone
<1>4. CASE d \in Closed(l)
  BY <1>4 DEF Closed, Lives, Returned, Gone
<1>. QED
  BY <1>1, <1>2, <1>3, <1>4 DEF Successors

\* A new round is pending.
LEMMA NewLife ==
    ASSUME NEW offer \in Offers
    PROVE  /\ Opened(offer) \in Lives
           /\ Opened(offer).status = "Pending"
           /\ offer \in Nat
BY ConstantsAssumption DEF Opened, Lives

-----------------------------------------------------------------------------
(* Types.                                                                   *)

\* How a round was made.
Origins ==
    [from_vault : BOOLEAN, recipient : Fanouts \cup {None}, admin : Wallets \cup {None}]

LEMMA UnmadeType == Unmade \in Origins /\ Unmade.from_vault = FALSE
BY DEF Unmade, Origins

\* A round made from the vault is made when there is one.
VaultThere == \A r \in Rounds : made[r].from_vault => vault \in Nat

TypeInv == TypeOK /\ VaultThere

\* The repair of a state gives a state.
LEMMA FixedState ==
    ASSUME TypeInv
    PROVE  /\ try_fix_state \in ContractState
           /\ try_fix_state.admin = state.admin
           /\ try_fix_state.treasury_addr = state.treasury_addr
           /\ try_fix_state.version = state.version
           /\ try_fix_state.current_round \in {state.current_round, None}
           /\ try_fix_state = state \/ is_broken
BY DEF TypeInv, TypeOK, ContractState, try_fix_state

\* A contract state is the record of its fields.
LEMMA NewStateType ==
    ASSUME NEW version \in {"none", "V3", "V4"}, NEW admin \in Wallets,
           NEW treasury \in Wallets \cup {None}
    PROVE  /\ NewState(version, admin, treasury) \in ContractState
           /\ NewState(version, admin, treasury).current_round = None
BY DEF NewState, ContractState

\* Setting its last fields leaves a contract state one.
LEMMA SetRound ==
    ASSUME NEW s \in ContractState, NEW r \in Rounds
    PROVE  /\ [s EXCEPT !.current_round = r] \in ContractState
           /\ [s EXCEPT !.current_round = r].current_round = r
BY DEF ContractState

\* So does completing a round.
LEMMA CompletedState ==
    ASSUME NEW s \in ContractState
    PROVE  /\ complete_round(s) \in ContractState
           /\ complete_round(s).current_round = None
<1>1. s.completed_rounds_count + 1 \in Nat
  BY DEF ContractState
<1>2. ASSUME NEW n \in Nat
      PROVE  /\ [s EXCEPT !.current_round = None, !.completed_rounds_count = n] \in ContractState
             /\ [s EXCEPT !.current_round = None, !.completed_rounds_count = n].current_round = None
  BY DEF ContractState
<1>. QED
  BY <1>1, <1>2 DEF complete_round

\* The state a program before this one left has the types.
LEMMA TypeInit ==
    ASSUME Init PROVE TypeInv
<1>1. state \in ContractState
  <2>1. CASE \E admin, treasury \in Wallets :
               \E r \in {None, Garbage, Junk}, n \in {0, MAX_COMPLETED + 1} :
                 state = [NewState("V4", admin, treasury) EXCEPT
                            !.current_round = r, !.completed_rounds_count = n]
    <3>1. PICK admin \in Wallets, treasury \in Wallets,
               r \in {None, Garbage, Junk}, n \in {0, MAX_COMPLETED + 1} :
                 state = [NewState("V4", admin, treasury) EXCEPT
                            !.current_round = r, !.completed_rounds_count = n]
      BY <2>1
    <3>2. n \in Nat
      BY ConstantsAssumption
    <3>3. state = [version |-> "V4", admin |-> admin, treasury_addr |-> treasury,
                   current_round |-> r, completed_rounds_count |-> n]
      BY <3>1 DEF NewState
    <3>. QED
      BY <3>2, <3>3 DEF ContractState
  <2>2. CASE \E admin, treasury \in Wallets :
               \/ state = NewState("none", admin, treasury)
               \/ state = NewState("V3", admin, treasury)
               \/ state = NewState("V3", admin, None)
    BY <2>2, NewStateType
  <2>. QED
    BY <2>1, <2>2 DEF Init
<1>2. rounds \in [Rounds -> Lives]
  BY DEF Init, Lives, Gone
<1>3. /\ made \in [Rounds -> Origins]
      /\ \A r \in Rounds : made[r].from_vault = FALSE
  BY UnmadeType DEF Init
<1>. QED
  BY <1>1, <1>2, <1>3, ConstantsAssumption DEF Init, TypeInv, TypeOK, VaultThere, Origins

\* The type of made, by the name it has here.
LEMMA MadeType ==
    ASSUME TypeInv PROVE made \in [Rounds -> Origins]
BY DEF TypeInv, TypeOK, Origins

\* A round made by open_round is a life of its own.
LEMMA OpenType ==
    ASSUME TypeInv, NEW r \in Rounds, NEW offer \in Offers, NEW how \in Origins,
           open_round(r, offer, how)
    PROVE  /\ rounds' \in [Rounds -> Lives]
           /\ made' \in [Rounds -> Origins]
           /\ opened' \in Nat
           /\ \A q \in Rounds : made'[q].from_vault => made[q].from_vault \/ how.from_vault
<1>1. rounds' = [rounds EXCEPT ![r] = Opened(offer)]
  BY DEF open_round
<1>2. made' = [made EXCEPT ![r] = how]
  BY DEF open_round
<1>3. made \in [Rounds -> Origins]
  BY MadeType
<1>4. rounds' \in [Rounds -> Lives]
  BY <1>1, NewLife DEF TypeInv, TypeOK
<1>5. made' \in [Rounds -> Origins]
  BY <1>2, <1>3
<1>6. ASSUME NEW q \in Rounds, made'[q].from_vault, ~ made[q].from_vault
      PROVE  how.from_vault
  BY <1>2, <1>3, <1>6
<1>7. opened' \in Nat
  BY DEF open_round, TypeInv, TypeOK
<1>. QED
  BY <1>4, <1>5, <1>6, <1>7

\* So is what may be read in an account that is no round.
LEMMA OtherLife ==
    ASSUME NEW l \in OtherLives
    PROVE  l \in Lives
<1>1. CASE l = Gone
  BY <1>1 DEF Lives, Gone
<1>2. CASE l \in [status : {"Pending", "Accepted"}, total_offer : OtherOffers, held : {0}]
  <2>1. PICK s \in {"Pending", "Accepted"}, n \in OtherOffers, h \in {0} :
              l = [status |-> s, total_offer |-> n, held |-> h]
    BY <1>2
  <2>2. n \in Nat
    BY ConstantsAssumption
  <2> QED
    BY <2>1, <2>2 DEF Lives
<1> QED
  BY <1>1, <1>2 DEF OtherLives

\* Every instruction keeps them.
LEMMA TypeStep ==
    ASSUME TypeInv, [Next]_vars PROVE TypeInv'
<1>. USE ConstantsAssumption DEF TypeInv, TypeOK, VaultThere, Origins
<1>1. ASSUME NEW admin \in Wallets, NEW treasury \in Wallets,
             process_init_state(admin, treasury)
      PROVE  TypeInv'
  BY <1>1, NewStateType DEF process_init_state, history
<1>2. CASE process_create_wallets
  BY <1>2 DEF process_create_wallets, history
<1>3. ASSUME NEW treasury \in Wallets, process_migrate_state(treasury)
      PROVE  TypeInv'
  <2>1. state.admin \in Wallets /\ state.treasury_addr \in Wallets \cup {None}
    BY DEF ContractState
  <2>2. state' \in ContractState
    BY <1>3, <2>1, NewStateType DEF process_migrate_state
  <2>. QED
    BY <1>3, <2>2 DEF process_migrate_state, history
<1>4. ASSUME NEW admin \in Wallets, process_set_admin(admin)
      PROVE  TypeInv'
  <2>1. state' \in ContractState
    BY <1>4, FixedState DEF process_set_admin, ContractState
  <2>. QED
    BY <1>4, <2>1 DEF process_set_admin, history
<1>5. CASE process_instruction
  <2>1. state' \in ContractState
    BY <1>5, FixedState DEF process_instruction
  <2>. QED
    BY <1>5, <2>1 DEF process_instruction, history
<1>6. ASSUME NEW r \in Rounds, NEW f \in Fanouts, NEW offer \in Offers,
             process_create_round(r, f, offer)
      PROVE  TypeInv'
  <2>1. /\ rounds' \in [Rounds -> Lives]
        /\ made' \in [Rounds -> Origins]
        /\ opened' \in Nat
    <3>1. state.admin \in Wallets
      BY DEF ContractState
    <3>2. [from_vault |-> TRUE, recipient |-> f, admin |-> state.admin] \in Origins
      BY <3>1
    <3>. QED
      BY <1>6, <3>2, OpenType DEF process_create_round
  <2>2. state' \in ContractState
    <3>1. state' = [try_fix_state EXCEPT !.current_round = r]
      BY <1>6 DEF process_create_round
    <3>2. try_fix_state \in ContractState
      BY FixedState
    <3>. QED
      BY <3>1, <3>2, SetRound
  <2>3. vault' \in Nat
    BY <1>6, NewLife DEF process_create_round
  <2>. QED
    BY <1>6, <2>1, <2>2, <2>3 DEF process_create_round, open_round
<1>7. ASSUME NEW r \in Rounds, process_claim_round_vesting(r)
      PROVE  TypeInv'
  <2>1. rounds[r].total_offer \in Nat /\ vault \in Nat
    BY <1>7 DEF process_claim_round_vesting, Lives
  <2>2. vested_amount(r) \in Nat /\ vested_amount(r) <= vault
    BY <2>1 DEF vested_amount
  <2>3. state' \in ContractState
    BY <1>7, FixedState, CompletedState DEF process_claim_round_vesting
  <2>. QED
    BY <1>7, <2>1, <2>2, <2>3 DEF process_claim_round_vesting
<1>8. ASSUME NEW r \in Rounds, NEW offer \in Offers, OpenElsewhere(r, offer)
      PROVE  TypeInv'
  <2>1. /\ rounds' \in [Rounds -> Lives]
        /\ made' \in [Rounds -> Origins]
        /\ opened' \in Nat
        /\ \A q \in Rounds : made'[q].from_vault => made[q].from_vault \/ Unmade.from_vault
    BY <1>8, OpenType, UnmadeType DEF OpenElsewhere
  <2>. QED
    BY <1>8, <2>1, NewLife, UnmadeType DEF OpenElsewhere, open_round
<1>9. ASSUME NEW r \in Rounds, RoundStep(r)
      PROVE  TypeInv'
  <2>1. PICK d \in Successors(rounds[r], Lots) :
               /\ rounds' = [rounds EXCEPT ![r] = d]
               /\ vault' = IF made[r].from_vault
                           THEN vault + Returned(rounds[r], d) ELSE vault
               /\ outside' = outside + (rounds[r].held - d.held - Returned(rounds[r], d))
                                 + (IF made[r].from_vault THEN 0 ELSE Returned(rounds[r], d))
               /\ accepted' = IF /\ made[r].from_vault
                                  /\ d.status = "Accepted" /\ rounds[r].status # "Accepted"
                              THEN accepted + d.total_offer ELSE accepted
               /\ UNCHANGED <<state, owner_wallet, fanouts, strangers, made, opened,
                              created, claimed, strayed>>
    BY <1>9 DEF RoundStep
  <2>2. /\ d \in Lives
        /\ Returned(rounds[r], d) \in Nat
        /\ rounds[r].held - d.held - Returned(rounds[r], d) \in Nat
    BY NextLife
  <2>3. d.total_offer \in Nat
    BY <2>2 DEF Lives
  <2>4. vault' \in Nat \cup {None} /\ VaultThere'
    BY <2>1, <2>2
  <2>5. outside' \in Nat /\ accepted' \in Nat
    BY <2>1, <2>2, <2>3
  <2>. QED
    BY <2>1, <2>2, <2>4, <2>5
<1>10. ASSUME NEW f \in Fanouts, NEW ms, InitializeFanout(f, ms)
       PROVE  TypeInv'
  BY <1>10 DEF InitializeFanout, history
<1>13. ASSUME NEW r \in Rounds, NEW l \in OtherLives, OtherAccount(r, l)
       PROVE  TypeInv'
  <2>1. /\ rounds' = [rounds EXCEPT ![r] = l] /\ made' = [made EXCEPT ![r] = Unmade]
        /\ strangers' \subseteq strangers \cup {r}
        /\ UNCHANGED <<accounts, history>>
    BY <1>13 DEF OtherAccount
  <2>2. rounds' \in [Rounds -> Lives]
    BY <2>1, OtherLife
  <2>3. /\ made' \in [Rounds -> Origins]
        /\ \A q \in Rounds : made'[q].from_vault => made[q].from_vault
    BY <2>1, UnmadeType
  <2>. QED
    BY <2>1, <2>2, <2>3 DEF accounts, history
<1>11. CASE FundVault
  BY <1>11 DEF FundVault, history
<1>12. CASE UNCHANGED vars
  BY <1>12 DEF vars, accounts, history
<1> HIDE DEF TypeInv
<1>. QED
  BY <1>1, <1>2, <1>3, <1>4, <1>5, <1>6, <1>7, <1>8, <1>9, <1>10, <1>11, <1>12, <1>13
     DEF Next

\* Whatever is created, claimed, returned and redeemed, no wallet is overdrawn: the
\* invariant TypeOK, for the amounts process_create_round and
\* process_claim_round_vesting take from the vault.
THEOREM TypeCorrect == Spec => []TypeOK
<1>1. TypeInv => TypeOK
  BY DEF TypeInv
<1>. QED
  BY TypeInit, TypeStep, <1>1, PTL DEF Spec

-----------------------------------------------------------------------------
(* Vesting.                                                                 *)

\* The current round has not been vested yet, and the state is one that is not
\* taken for broken.
RecordGood ==
    state.current_round \in Rounds =>
        /\ state.version = "V4"
        /\ claimed < created
        /\ state.completed_rounds_count <= MAX_COMPLETED

VestInv == TypeInv /\ VestedATenth /\ RecordGood

\* Where there is a current round nothing is repaired, and a repaired state has
\* none, or the one it had.
LEMMA FixKeeps ==
    ASSUME VestInv, state_loads
    PROVE  /\ state.current_round \in Rounds => try_fix_state = state
           /\ try_fix_state.completed_rounds_count <= MAX_COMPLETED
           /\ try_fix_state.completed_rounds_count \in Nat
<1>1. state \in ContractState /\ MAX_COMPLETED \in Nat
  BY ConstantsAssumption DEF VestInv, TypeInv, TypeOK
<1>2. CASE is_broken
  <2>1. state.current_round \notin Rounds
    BY <1>1, <1>2, ConstantsAssumption
       DEF VestInv, RecordGood, is_broken, ContractState
  <2>2. try_fix_state = [state EXCEPT !.current_round = None, !.completed_rounds_count = 0]
    BY <1>2 DEF try_fix_state, state_loads
  <2>3. try_fix_state.completed_rounds_count = 0
    BY <1>1, <2>2 DEF ContractState
  <2>. QED
    BY <1>1, <2>1, <2>3
<1>3. CASE ~is_broken
  <2>1. try_fix_state = state
    BY <1>3 DEF try_fix_state
  <2>2. state.completed_rounds_count \in Nat
    BY <1>1 DEF ContractState
  <2>. QED
    BY <1>1, <1>3, <2>1, <2>2 DEF is_broken
<1>. QED
  BY <1>2, <1>3

\* What is left to claim is a number, and nothing without a current round.
LEMMA UnclaimedType ==
    ASSUME TypeInv
    PROVE  /\ Unclaimed \in Nat
           /\ state.current_round \notin Rounds => Unclaimed = 0
BY DEF TypeInv, TypeOK, Unclaimed, Lives

\* At first nothing is vested, and no current round is one the program made.
LEMMA VestInit ==
    ASSUME Init PROVE VestInv
<1>1. TypeInv
  BY TypeInit
<1>2. state.current_round \in {None, Garbage, Junk}
  <2>1. CASE \E admin, treasury \in Wallets :
               \E r \in {None, Garbage, Junk}, n \in {0, MAX_COMPLETED + 1} :
                 state = [NewState("V4", admin, treasury) EXCEPT
                            !.current_round = r, !.completed_rounds_count = n]
    BY <2>1 DEF NewState
  <2>2. CASE \E admin, treasury \in Wallets :
               \/ state = NewState("none", admin, treasury)
               \/ state = NewState("V3", admin, treasury)
               \/ state = NewState("V3", admin, None)
    BY <2>2 DEF NewState
  <2>. QED
    BY <2>1, <2>2 DEF Init
<1>3. state.current_round \notin Rounds
  BY <1>2, ConstantsAssumption
<1>4. owner_wallet = 0 /\ created = 0 /\ claimed = 0 /\ strayed = 0 /\ accepted = 0
  BY DEF Init
<1>. QED
  BY <1>1, <1>3, <1>4, UnclaimedType DEF VestInv, VestedATenth, RecordGood

\* Steps that neither pay nor decide anything.
LEMMA QuietStep ==
    ASSUME VestInv, TypeInv',
           UNCHANGED <<owner_wallet, accepted, claimed, strayed, created>>,
           Unclaimed' <= Unclaimed,
           state'.current_round \in Rounds =>
             /\ state.current_round \in Rounds
             /\ state'.completed_rounds_count = state.completed_rounds_count
             /\ state'.version = state.version
    PROVE  VestInv'
<1> DEFINE vested == owner_wallet - strayed
<1>1. /\ Unclaimed \in Nat /\ vested \in Int /\ accepted \in Nat
      /\ claimed \in Nat /\ created \in Nat
  BY UnclaimedType DEF VestInv, TypeInv, TypeOK
<1>2. Unclaimed' \in Nat
  BY DEF TypeInv, TypeOK, Unclaimed, Lives
<1>3. 10 * vested + Unclaimed <= accepted /\ claimed <= created
  BY DEF VestInv, VestedATenth
<1>4. VestedATenth'
  <2>1. /\ owner_wallet' - strayed' = vested /\ accepted' = accepted
        /\ claimed' = claimed /\ created' = created /\ Unclaimed' <= Unclaimed
    OBVIOUS
  <2> HIDE DEF vested
  <2>2. ASSUME NEW a \in Int, NEW b \in Nat, NEW c \in Nat, NEW d \in Nat,
               10 * a + b <= c, d <= b
        PROVE  10 * a + d <= c
    BY <2>2
  <2>3. 10 * vested + Unclaimed' <= accepted
    BY <1>1, <1>2, <1>3, <2>1, <2>2
  <2>. QED
    BY <1>3, <2>1, <2>3 DEF VestedATenth
<1>5. RecordGood'
  BY DEF RecordGood, VestInv
<1>. QED
  BY <1>4, <1>5 DEF VestInv

\* The repair changes nothing that vesting depends on.
LEMMA FixedUnclaimed ==
    ASSUME VestInv, TypeInv',
           UNCHANGED <<rounds, made, owner_wallet, accepted, claimed, strayed, created>>,
           state'.current_round \in {state.current_round, None},
           state'.current_round \in Rounds =>
             /\ state'.completed_rounds_count = state.completed_rounds_count
             /\ state'.version = state.version
    PROVE  VestInv'
<1>1. Unclaimed \in Nat
  BY UnclaimedType DEF VestInv
<1>2. CASE state'.current_round = state.current_round
  <2>1. Unclaimed' = Unclaimed
    BY <1>2 DEF Unclaimed
  <2>. QED
    BY <1>1, <1>2, <2>1, QuietStep
<1>3. CASE state'.current_round = None
  <2>1. None \notin Rounds
    BY ConstantsAssumption
  <2>2. Unclaimed' = 0
    BY <1>3, <2>1 DEF Unclaimed
  <2>. QED
    BY <1>1, <1>3, <2>1, <2>2, QuietStep
<1>. QED
  BY <1>2, <1>3

\* A step that creates no round, claims nothing, and is none of a round's.
LEMMA OtherStep ==
    ASSUME VestInv, TypeInv',
           \/ \E admin, treasury \in Wallets : process_init_state(admin, treasury)
           \/ process_create_wallets
           \/ \E treasury \in Wallets : process_migrate_state(treasury)
           \/ \E admin \in Wallets : process_set_admin(admin)
           \/ process_instruction
           \/ \E f \in Fanouts, treasury, admin \in Wallets :
                \E ms \in PreparedMembers(treasury, admin) : InitializeFanout(f, ms)
           \/ FundVault
           \/ UNCHANGED vars
    PROVE  VestInv'
<1>. state \in ContractState /\ None \notin Rounds
  BY ConstantsAssumption DEF VestInv, TypeInv, TypeOK
<1>1. UNCHANGED <<rounds, made, owner_wallet, accepted, claimed, strayed, created>>
  BY DEF process_init_state, process_create_wallets, process_migrate_state,
         process_set_admin, process_instruction, InitializeFanout, FundVault,
         vars, accounts, history
<1>2. /\ state'.current_round \in {state.current_round, None}
      /\ state'.current_round \in Rounds =>
           /\ state'.completed_rounds_count = state.completed_rounds_count
           /\ state'.version = state.version
  <2>1. CASE state' = state
    BY <2>1
  <2>2. CASE state' = try_fix_state
    BY <2>2 DEF try_fix_state, ContractState
  <2>3. ASSUME NEW admin \in Wallets, process_set_admin(admin)
        PROVE  <1>2!1 /\ <1>2!2
    <3>1. try_fix_state \in ContractState
      BY FixedState DEF VestInv
    <3>2. /\ state'.current_round = try_fix_state.current_round
          /\ state'.completed_rounds_count = try_fix_state.completed_rounds_count
          /\ state'.version = try_fix_state.version
      BY <2>3, <3>1 DEF process_set_admin, ContractState
    <3>3. try_fix_state = state \/ try_fix_state.current_round = None
      BY DEF try_fix_state, ContractState
    <3>. QED
      BY <3>2, <3>3
  <2>4. CASE state'.current_round = None
    BY <2>4
  <2>5. ASSUME NEW admin \in Wallets, NEW treasury \in Wallets,
               process_init_state(admin, treasury)
        PROVE  state'.current_round = None
    BY <2>5 DEF process_init_state, NewState
  <2>6. ASSUME NEW treasury \in Wallets, process_migrate_state(treasury)
        PROVE  state'.current_round = None
    BY <2>6 DEF process_migrate_state, NewState
  <2>7. \/ state' = state \/ state' = try_fix_state
        \/ \E admin \in Wallets : process_set_admin(admin)
        \/ state'.current_round = None
    BY <2>5, <2>6
       DEF process_create_wallets, process_instruction, InitializeFanout, FundVault,
           vars, accounts
  <2>. QED
    BY <2>1, <2>2, <2>3, <2>4, <2>7
<1>. QED
  BY <1>1, <1>2, FixedUnclaimed

\* The new round has nothing to claim yet; what is left of the old one is lost.
LEMMA CreateStep ==
    ASSUME VestInv, TypeInv', NEW r \in Rounds, NEW f \in Fanouts, NEW offer \in Offers,
           process_create_round(r, f, offer)
    PROVE  VestInv'
<1>1. /\ owner_wallet \in Nat /\ strayed \in Nat /\ accepted \in Nat /\ claimed \in Nat /\ created \in Nat
      /\ rounds \in [Rounds -> Lives] /\ try_fix_state \in ContractState
      /\ Unclaimed \in Nat
  BY UnclaimedType, FixedState DEF VestInv, TypeInv, TypeOK
<1>2. state' = [try_fix_state EXCEPT !.current_round = r]
  BY DEF process_create_round
<1>3. /\ state'.current_round = r
      /\ state'.completed_rounds_count = try_fix_state.completed_rounds_count
      /\ state'.version = try_fix_state.version
  BY <1>1, <1>2 DEF ContractState
<1>4. rounds'[r].status = "Pending"
  BY <1>1, NewLife DEF process_create_round, open_round
<1>5. Unclaimed' = 0
  BY <1>3, <1>4 DEF Unclaimed
<1>6. /\ owner_wallet' = owner_wallet /\ strayed' = strayed
      /\ accepted' = accepted /\ claimed' = claimed /\ created' = created + 1
  BY DEF process_create_round
<1>7. VestedATenth'
  <2>1. 10 * (owner_wallet - strayed) + Unclaimed <= accepted /\ claimed <= created
    BY DEF VestInv, VestedATenth
  <2>. QED
    BY <1>1, <1>5, <1>6, <2>1 DEF VestedATenth
<1>8. RecordGood'
  <2>1. try_fix_state.completed_rounds_count <= MAX_COMPLETED
    BY FixKeeps DEF process_create_round
  <2>2. claimed <= created
    BY DEF VestInv, VestedATenth
  <2>3. try_fix_state.version = "V4"
    BY FixedState DEF process_create_round, state_loads, VestInv
  <2>. QED
    BY <1>1, <1>3, <1>6, <2>1, <2>2, <2>3 DEF RecordGood
<1>. QED
  BY <1>7, <1>8 DEF VestInv

\* The owner gets a tenth of what was left to claim at most, and then nothing is.
LEMMA ClaimStep ==
    ASSUME VestInv, TypeInv', NEW r \in Rounds, process_claim_round_vesting(r)
    PROVE  /\ VestInv'
           /\ state.current_round = r /\ rounds[r].status = "Accepted"
<1>1. /\ owner_wallet \in Nat /\ strayed \in Nat /\ accepted \in Nat /\ claimed \in Nat /\ created \in Nat
      /\ rounds \in [Rounds -> Lives] /\ try_fix_state \in ContractState
      /\ vault \in Nat /\ None \notin Rounds /\ state \in ContractState
  BY FixedState, ConstantsAssumption
     DEF VestInv, TypeInv, TypeOK, process_claim_round_vesting
<1>2. rounds[r].status = "Accepted" /\ try_fix_state.current_round = r
  BY DEF process_claim_round_vesting, vestable
<1>3. state.current_round = r
  BY <1>1, <1>2, FixedState DEF VestInv
<1>4. /\ rounds[r].total_offer \in Nat /\ Unclaimed \in Nat
      /\ made[r].from_vault => Unclaimed = rounds[r].total_offer
  BY <1>1, <1>2, <1>3, UnclaimedType DEF Unclaimed, Lives, VestInv
<1>5. vested_amount(r) \in Nat /\ 10 * vested_amount(r) <= rounds[r].total_offer
  BY <1>1, <1>4 DEF vested_amount
<1>6. state'.current_round = None
  BY <1>1, CompletedState DEF process_claim_round_vesting
<1>7. Unclaimed' = 0
  BY <1>1, <1>6 DEF Unclaimed
<1>8. /\ owner_wallet' = owner_wallet + vested_amount(r)
      /\ strayed' = IF made[r].from_vault THEN strayed ELSE strayed + vested_amount(r)
      /\ accepted' = accepted /\ claimed' = claimed + 1 /\ created' = created
  BY DEF process_claim_round_vesting
<1>9. 10 * (owner_wallet - strayed) + Unclaimed <= accepted /\ claimed < created
  BY <1>3 DEF VestInv, VestedATenth, RecordGood
<1>10. VestedATenth'
  <2>1. CASE made[r].from_vault
    BY <1>1, <1>4, <1>5, <1>7, <1>8, <1>9, <2>1 DEF VestedATenth
  <2>2. CASE ~ made[r].from_vault
    <3>1. owner_wallet' - strayed' = owner_wallet - strayed
      BY <1>1, <1>5, <1>8, <2>2
    <3>. QED
      BY <1>1, <1>4, <1>7, <1>8, <1>9, <3>1 DEF VestedATenth
  <2>. QED
    BY <2>1, <2>2
<1>11. RecordGood'
  BY <1>1, <1>6 DEF RecordGood
<1>. QED
  BY <1>2, <1>3, <1>10, <1>11 DEF VestInv

\* A round made from the vault that is accepted adds its whole offer; a current
\* one, as much to claim.
LEMMA LifeStep ==
    ASSUME VestInv, TypeInv', NEW r \in Rounds, RoundStep(r)
    PROVE  VestInv'
<1>1. /\ owner_wallet \in Nat /\ strayed \in Nat /\ accepted \in Nat
      /\ claimed \in Nat /\ created \in Nat
      /\ rounds \in [Rounds -> Lives] /\ state \in ContractState
  BY DEF VestInv, TypeInv, TypeOK
<1>2. PICK d \in Successors(rounds[r], Lots) :
             /\ rounds' = [rounds EXCEPT ![r] = d]
             /\ accepted' = IF /\ made[r].from_vault
                                /\ d.status = "Accepted" /\ rounds[r].status # "Accepted"
                            THEN accepted + d.total_offer ELSE accepted
             /\ UNCHANGED <<state, owner_wallet, made, created, claimed, strayed>>
  BY DEF RoundStep
<1>3. /\ d \in Lives
      /\ d = Gone \/ d.total_offer = rounds[r].total_offer
      /\ d.total_offer \in Nat /\ rounds[r].total_offer \in Nat
  BY <1>1, NextLife DEF Lives
<1>4. RecordGood'
  BY <1>2 DEF RecordGood, VestInv
<1>5. 10 * (owner_wallet - strayed) + Unclaimed <= accepted /\ claimed <= created
      /\ Unclaimed \in Nat
  BY UnclaimedType DEF VestInv, VestedATenth
<1>6. CASE state.current_round # r \/ ~ made[r].from_vault
  <2>1. Unclaimed' = Unclaimed
    BY <1>1, <1>2, <1>6 DEF Unclaimed
  <2>2. accepted' \in Nat /\ accepted <= accepted'
    BY <1>1, <1>2, <1>3
  <2>. QED
    BY <1>1, <1>2, <1>4, <1>5, <2>1, <2>2 DEF VestInv, VestedATenth
<1>7. CASE state.current_round = r /\ made[r].from_vault
  <2>1. Unclaimed = IF rounds[r].status = "Accepted" THEN rounds[r].total_offer ELSE 0
    BY <1>7 DEF Unclaimed
  <2>2. Unclaimed' = IF d.status = "Accepted" THEN d.total_offer ELSE 0
    BY <1>1, <1>2, <1>7 DEF Unclaimed
  <2>3. d.status = "Accepted" => d.total_offer = rounds[r].total_offer
    BY <1>3 DEF Gone
  <2>4. accepted' \in Nat /\ 10 * (owner_wallet - strayed) + Unclaimed' <= accepted'
    BY <1>1, <1>2, <1>3, <1>5, <1>7, <2>1, <2>2, <2>3
  <2>. QED
    BY <1>1, <1>2, <1>4, <1>5, <2>4 DEF VestInv, VestedATenth
<1>. QED
  BY <1>6, <1>7

\* A round made elsewhere, or another account, has nothing to claim that counts.
LEMMA ElsewhereStep ==
    ASSUME VestInv, TypeInv', NEW r \in Rounds,
           \/ \E offer \in Offers : OpenElsewhere(r, offer)
           \/ \E l \in OtherLives : OtherAccount(r, l)
    PROVE  VestInv'
<1>1. rounds \in [Rounds -> Lives] /\ made \in [Rounds -> Origins]
  BY MadeType DEF VestInv, TypeInv, TypeOK
<1>2. /\ made' = [made EXCEPT ![r] = Unmade]
      /\ \E l : rounds' = [rounds EXCEPT ![r] = l]
      /\ UNCHANGED <<state, owner_wallet, accepted, claimed, strayed, created>>
  BY DEF OpenElsewhere, OtherAccount, open_round, accounts, history
<1>3. made'[r].from_vault = FALSE
  BY <1>1, <1>2, UnmadeType
<1>4. Unclaimed \in Nat
  BY UnclaimedType DEF VestInv
<1>5. Unclaimed' \in {0, Unclaimed}
  <2>1. CASE state.current_round = r
    BY <1>2, <1>3, <2>1 DEF Unclaimed
  <2>2. CASE state.current_round # r
    BY <1>1, <1>2, <2>2 DEF Unclaimed
  <2>. QED
    BY <2>1, <2>2
<1>6. Unclaimed' <= Unclaimed
  BY <1>4, <1>5
<1>. QED
  BY <1>2, <1>6, QuietStep

\* Every instruction keeps the vesting within its bound.
LEMMA VestStep ==
    ASSUME VestInv, [Next]_vars PROVE VestInv'
<1>1. TypeInv'
  BY TypeStep DEF VestInv
<1>. QED
  BY <1>1, OtherStep, CreateStep, ClaimStep, LifeStep, ElsewhereStep DEF Next

\* So it stays there.
LEMMA VestAlways == Spec => []VestInv
BY VestInit, VestStep, PTL DEF Spec

\* For the rounds process_create_round made from the vault the owner is vested at
\* most a tenth of the offers accepted, and there are no more claims than it made
\* rounds: the invariant VestedATenth, for the amount process_claim_round_vesting
\* takes and the round it forgets then, whatever account it is given.
THEOREM VestsATenth == Spec => []VestedATenth
<1>1. VestInv => VestedATenth
  BY DEF VestInv
<1>. QED
  BY <1>1, VestAlways, PTL

\* One step of CurrentRoundKept.
Kept ==
    state.current_round \in Rounds /\ state'.current_round # state.current_round
      => LET r == state.current_round
         IN  \/ created' = created + 1 /\ rounds[state'.current_round].status = "Absent"
             \/ /\ rounds[r].status = "Accepted"
                /\ owner_wallet' = owner_wallet + vested_amount(r)
                /\ vault' = vault - vested_amount(r)

\* The current round as each instruction leaves it.
LEMMA KeptStep ==
    ASSUME VestInv, [Next]_vars PROVE Kept
<1>. SUFFICES ASSUME state.current_round \in Rounds,
                     state'.current_round # state.current_round
              PROVE  Kept
  BY DEF Kept
<1>1. state \in ContractState /\ TypeInv' /\ try_fix_state \in ContractState
  BY TypeStep, FixedState DEF VestInv, TypeInv, TypeOK
<1>2. state.version = "V4"
  BY DEF VestInv, RecordGood
<1>3. try_fix_state = state
  BY <1>2, FixKeeps DEF state_loads
<1>5. ASSUME NEW r \in Rounds, NEW f \in Fanouts, NEW offer \in Offers,
             process_create_round(r, f, offer)
      PROVE  Kept
  <2>1. state' = [try_fix_state EXCEPT !.current_round = r]
    BY <1>5 DEF process_create_round
  <2>2. state'.current_round = r
    BY <1>1, <2>1 DEF ContractState
  <2>. QED
    BY <1>5, <2>2 DEF process_create_round, open_round, Kept
<1>6. ASSUME NEW r \in Rounds, process_claim_round_vesting(r)
      PROVE  Kept
  <2>1. state.current_round = r /\ rounds[r].status = "Accepted"
    BY <1>1, <1>6, ClaimStep
  <2>. QED
    BY <1>6, <2>1 DEF process_claim_round_vesting, Kept
<1>7. ASSUME NEW admin \in Wallets, process_set_admin(admin)
      PROVE  FALSE
  <2>1. state' = [state EXCEPT !.admin = admin]
    BY <1>3, <1>7 DEF process_set_admin
  <2>. QED
    BY <1>1, <2>1 DEF ContractState
<1>8. state' # state
  OBVIOUS
<1>. QED
  BY <1>2, <1>3, <1>5, <1>6, <1>7, <1>8
     DEF Next, process_init_state, process_create_wallets, process_migrate_state,
         process_instruction, OpenElsewhere, OtherAccount, RoundStep, InitializeFanout,
         FundVault, vars, accounts

\* The current round is only lost to a newer one, or to a vesting: the action property
\* CurrentRoundKept, for try_fix_state before every instruction and for what
\* process_create_round and process_claim_round_vesting do to the state.
THEOREM CurrentNeverLost == Spec => CurrentRoundKept
<1>1. VestInv /\ [Next]_vars => [Kept]_vars
  BY KeptStep
<1>. QED
  BY <1>1, VestAlways, PTL DEF Spec, CurrentRoundKept, Kept

-----------------------------------------------------------------------------
(* Who shares the bids.  The fanout of a round is compared when the round   *)
(* is made and never again: it stays right because a fanout's members do    *)
(* not change, and because the treasury of a state is fixed once the state  *)
(* is of version V4, which it must be for a round to be made.               *)

\* What expected_members gives for a treasury and an admin.
MembersFor(treasury, admin) ==
    << [address |-> treasury, share |-> 9650],
       [address |-> admin, share |-> 250],
       [address |-> state_addr, share |-> 100] >>

\* A round made from the vault has its fanout and an admin.
SharedWell(how) ==
    how.from_vault =>
        /\ state.version = "V4"
        /\ how.recipient \in Fanouts /\ how.admin \in Wallets
        /\ fanouts[how.recipient] = MembersFor(state.treasury_addr, how.admin)

RoundsShared == \A r \in Rounds : SharedWell(made[r])

SharedInv == TypeInv /\ DOMAIN fanouts = Fanouts /\ RoundsShared

\* A list of members is an account's data, not the lack of an account.
LEMMA MembersThere ==
    ASSUME NEW treasury \in Wallets \cup {None}, NEW admin \in Wallets
    PROVE  MembersFor(treasury, admin) # None
<1>1. MembersFor(treasury, admin)
        \in Seq([address : Wallets \cup {None, state_addr}, share : Nat])
  BY DEF MembersFor
<1> QED
  BY <1>1, ConstantsAssumption

\* No instruction changes the treasury of a state of version V4, or its version.
LEMMA TreasuryKept ==
    ASSUME TypeInv, [Next]_vars, state.version = "V4"
    PROVE  state'.version = "V4" /\ state'.treasury_addr = state.treasury_addr
<1> DEFINE Same == state'.version = "V4" /\ state'.treasury_addr = state.treasury_addr
<1>1. /\ try_fix_state \in ContractState
      /\ try_fix_state.version = "V4" /\ try_fix_state.treasury_addr = state.treasury_addr
  BY FixedState
<1>2. ASSUME state' = state \/ state' = try_fix_state PROVE Same
  BY <1>1, <1>2
<1>3. ASSUME NEW admin \in Wallets, process_set_admin(admin) PROVE Same
  <2>1. state' = [try_fix_state EXCEPT !.admin = admin]
    BY <1>3 DEF process_set_admin
  <2> QED
    BY <1>1, <2>1 DEF ContractState
<1>4. ASSUME NEW r \in Rounds, NEW f \in Fanouts, NEW offer \in Offers,
             process_create_round(r, f, offer)
      PROVE  Same
  <2>1. state' = [try_fix_state EXCEPT !.current_round = r]
    BY <1>4 DEF process_create_round
  <2> QED
    BY <1>1, <2>1 DEF ContractState
<1>5. ASSUME NEW r \in Rounds, process_claim_round_vesting(r) PROVE Same
  <2>1. state' = complete_round(try_fix_state)
    BY <1>5 DEF process_claim_round_vesting
  <2>2. ASSUME NEW s \in ContractState, NEW n
        PROVE  /\ [s EXCEPT !.current_round = None, !.completed_rounds_count = n].version
                    = s.version
               /\ [s EXCEPT !.current_round = None, !.completed_rounds_count = n].treasury_addr
                    = s.treasury_addr
    BY DEF ContractState
  <2> QED
    BY <1>1, <2>1, <2>2 DEF complete_round
<1>6. ASSUME NEW r \in Rounds, RoundStep(r) PROVE Same
  BY <1>6 DEF RoundStep
<1> HIDE DEF Same
<1>7. Same
  BY <1>2, <1>3, <1>4, <1>5, <1>6
     DEF Next, process_init_state, process_create_wallets, process_migrate_state,
         process_instruction, OpenElsewhere, OtherAccount, InitializeFanout, FundVault,
         vars, accounts, Same
<1> QED
  BY <1>7 DEF Same

\* The members of a fanout are never changed.
LEMMA FanoutsKept ==
    ASSUME DOMAIN fanouts = Fanouts, [Next]_vars
    PROVE  /\ DOMAIN fanouts' = Fanouts
           /\ \A f \in Fanouts : fanouts[f] # None => fanouts'[f] = fanouts[f]
<1> DEFINE Stays == /\ DOMAIN fanouts' = Fanouts
                    /\ \A f \in Fanouts : fanouts[f] # None => fanouts'[f] = fanouts[f]
<1>1. ASSUME NEW f \in Fanouts, NEW ms,
             \/ fanouts' = [fanouts EXCEPT ![f] = IF fanouts[f] = None THEN ms ELSE fanouts[f]]
             \/ fanouts[f] = None /\ fanouts' = [fanouts EXCEPT ![f] = ms]
      PROVE  Stays
  BY <1>1
<1>2. ASSUME UNCHANGED fanouts PROVE Stays
  BY <1>2
<1>3. ASSUME NEW r \in Rounds, NEW f \in Fanouts, NEW offer \in Offers,
             process_create_round(r, f, offer)
      PROVE  Stays
  BY <1>1, <1>3 DEF process_create_round
<1>4. ASSUME NEW f \in Fanouts, NEW ms, InitializeFanout(f, ms)
      PROVE  Stays
  BY <1>1, <1>4 DEF InitializeFanout
<1>5. ASSUME NEW r \in Rounds, RoundStep(r) PROVE Stays
  BY <1>2, <1>5 DEF RoundStep
<1> HIDE DEF Stays
<1>6. Stays
  BY <1>2, <1>3, <1>4, <1>5
     DEF Next, process_init_state, process_create_wallets, process_migrate_state,
         process_set_admin, process_instruction, process_claim_round_vesting,
         OpenElsewhere, OtherAccount, FundVault, vars, accounts
<1> QED
  BY <1>6 DEF Stays

\* A round with its fanout stays right while it is not replaced.
LEMMA SharedKept ==
    ASSUME SharedInv, [Next]_vars, NEW r \in Rounds, made'[r] = made[r]
    PROVE  SharedWell(made[r])'
<1> SUFFICES ASSUME made[r].from_vault
             PROVE  /\ state'.version = "V4"
                    /\ made[r].recipient \in Fanouts /\ made[r].admin \in Wallets
                    /\ fanouts'[made[r].recipient]
                         = MembersFor(state'.treasury_addr, made[r].admin)
  BY Zenon DEF SharedWell
<1>1. /\ state.version = "V4"
      /\ made[r].recipient \in Fanouts /\ made[r].admin \in Wallets
      /\ fanouts[made[r].recipient] = MembersFor(state.treasury_addr, made[r].admin)
  BY DEF SharedInv, RoundsShared, SharedWell
<1>2. state.treasury_addr \in Wallets \cup {None}
  BY DEF SharedInv, TypeInv, TypeOK, ContractState
<1>3. fanouts[made[r].recipient] # None
  BY <1>1, <1>2, MembersThere
<1> QED
  BY <1>1, <1>3, TreasuryKept, FanoutsKept DEF SharedInv

\* Every step keeps the fanouts of rounds right.
LEMMA SharedStep == SharedInv /\ [Next]_vars => SharedInv'
<1> SUFFICES ASSUME SharedInv, [Next]_vars PROVE RoundsShared'
  BY TypeStep, FanoutsKept DEF SharedInv
<1>1. made \in [Rounds -> Origins]
  BY MadeType DEF SharedInv
<1>2. ASSUME UNCHANGED made PROVE RoundsShared'
  BY <1>2, SharedKept DEF RoundsShared
<1>3. ASSUME NEW q \in Rounds, NEW f \in Fanouts, NEW offer \in Offers,
             process_create_round(q, f, offer)
      PROVE  RoundsShared'
  <2> DEFINE how == [from_vault |-> TRUE, recipient |-> f, admin |-> state.admin]
  <2>1. made' = [made EXCEPT ![q] = how]
    BY <1>3 DEF process_create_round, open_round
  <2>2. \A r \in Rounds \ {q} : made'[r] = made[r]
    BY <1>1, <2>1
  <2>3. made'[q] = how
    BY <1>1, <2>1
  <2>4. state.version = "V4"
    BY <1>3 DEF process_create_round, state_loads
  <2>5. state'.version = "V4" /\ state'.treasury_addr = state.treasury_addr
    BY <2>4, TreasuryKept DEF SharedInv
  <2>6. fanouts'[f] = expected_members(try_fix_state)
    BY <1>3 DEF process_create_round, fanout_ready, SharedInv
  <2>7. /\ try_fix_state.treasury_addr = state.treasury_addr
        /\ try_fix_state.admin = state.admin /\ state.admin \in Wallets
    BY FixedState DEF SharedInv, TypeInv, TypeOK, ContractState
  <2>8. fanouts'[f] = MembersFor(state'.treasury_addr, state.admin)
    BY <2>5, <2>6, <2>7 DEF MembersFor, expected_members
  <2>9. SharedWell(made[q])'
    BY <2>3, <2>5, <2>7, <2>8 DEF SharedWell
  <2> QED
    BY <2>2, <2>9, SharedKept DEF RoundsShared
<1>4. ASSUME NEW q \in Rounds, made' = [made EXCEPT ![q] = Unmade]
      PROVE  RoundsShared'
  <2>2. \A r \in Rounds \ {q} : made'[r] = made[r]
    BY <1>1, <1>4
  <2>3. made'[q].from_vault = FALSE
    BY <1>1, <1>4, UnmadeType
  <2>4. SharedWell(made[q])'
    BY <2>3 DEF SharedWell
  <2> QED
    BY <2>2, <2>4, SharedKept DEF RoundsShared
<1>5. ASSUME NEW r \in Rounds, RoundStep(r) PROVE RoundsShared'
  BY <1>2, <1>5 DEF RoundStep
<1>6. ASSUME NEW r \in Rounds, NEW offer \in Offers, OpenElsewhere(r, offer)
      PROVE  RoundsShared'
  BY <1>4, <1>6 DEF OpenElsewhere, open_round
<1>7. ASSUME NEW r \in Rounds, NEW l \in OtherLives, OtherAccount(r, l)
      PROVE  RoundsShared'
  BY <1>4, <1>7 DEF OtherAccount
<1> QED
  BY <1>2, <1>3, <1>5, <1>6, <1>7
     DEF Next, process_init_state, process_create_wallets, process_migrate_state,
         process_set_admin, process_instruction, process_claim_round_vesting,
         InitializeFanout, FundVault, vars

\* There is no round to begin with.
LEMMA SharedInit == Init => SharedInv
<1> SUFFICES ASSUME Init PROVE SharedInv
  OBVIOUS
<1>1. DOMAIN fanouts = Fanouts
  BY DEF Init
<1>2. \A r \in Rounds : made[r].from_vault = FALSE
  BY UnmadeType DEF Init
<1> QED
  BY <1>1, <1>2, TypeInit DEF SharedInv, RoundsShared, SharedWell

\* The bids of a round made from the vault go to the treasury, who was admin then
\* and the state account, with the shares expected: the comparison of
\* process_create_round with the fanout account it is given suffices, whatever
\* becomes of state, admin and fanouts afterwards.
THEOREM BidsStayShared == Spec => []BidsShared
<1>1. SharedInv => BidsShared
  BY DEF SharedInv, RoundsShared, SharedWell, BidsShared, MembersFor
<1> QED
  BY <1>1, SharedInit, SharedStep, PTL DEF Spec
=============================================================================
