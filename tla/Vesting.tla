------------------------------- MODULE Vesting -------------------------------
(***************************************************************************)
(* The monthly vesting of the human program (human/src/vest.rs): in each   *)
(* of VESTING_TOTAL_PARTS periods after deployment the owner may take an   *)
(* equal part of the vault, and the parts of periods in which nobody asked *)
(* are paid together.  The instruction Vest is disabled in lib.rs; this is *)
(* what process_vest does when it is sent, by anybody and at any time.     *)
(***************************************************************************)
EXTENDS PreciseNumber

CONSTANTS
    VESTING_TOTAL_PARTS,    \* 36
    VESTING_PART_LENGTH,    \* a month, in ticks
    MaxTime,                \* bound: the clock stops there
    Supplies,               \* bound: what the vault is given at first
    Deposits,               \* bound: what it is given later, at once
    MaxEntered              \* bound: all that it is given

ASSUME ConstantsAssumption ==
    /\ VESTING_TOTAL_PARTS \in 1 .. 255
    /\ VESTING_PART_LENGTH \in Nat \ {0}
    /\ MaxTime \in Nat /\ MaxEntered \in Nat
    /\ Supplies \subseteq Nat /\ Deposits \subseteq Nat

VARIABLES
    now,            \* Clock::get()?.unix_timestamp, 0 at deployment
    vested_periods, \* state.vest.vested_periods
    vault,          \* the tokens in the vault
    owner_wallet,   \* the tokens vested
    entered,        \* all the tokens the vault was ever given
    late,           \* those of them given after the last payment
    last_missed     \* the parts the last payment was for

vars == <<now, vested_periods, vault, owner_wallet, entered, late, last_missed>>

-----------------------------------------------------------------------------
deployed_at == 0

\* The full periods since deployment.
whole_periods ==
    to_imprecise(floor(checked_div(new(now - deployed_at), new(VESTING_PART_LENGTH))))

\* No more than there are to be vested.
elapsed_parts ==
    IF whole_periods < VESTING_TOTAL_PARTS THEN whole_periods ELSE VESTING_TOTAL_PARTS

\* saturating_sub
missed_parts == IF elapsed_parts > vested_periods THEN elapsed_parts - vested_periods ELSE 0

\* Variant: the parts of all periods, as if the vault were as it was at first.
remaining_periods_all == VESTING_TOTAL_PARTS

remaining_periods == VESTING_TOTAL_PARTS - vested_periods

\* Variant: half up.
part_rounded == (2 * vault + remaining_periods) \div (2 * remaining_periods)

\* Equal parts, rounded down.
part == vault \div remaining_periods

\* Is there anything to vest?
next_period_due == vested_periods # VESTING_TOTAL_PARTS /\ missed_parts # 0

\* When nothing is due it succeeds and does nothing.
process_vest ==
    /\ next_period_due
    /\ LET amount == part * missed_parts
       IN  /\ amount <= vault
           /\ vault' = vault - amount
           /\ owner_wallet' = owner_wallet + amount
    /\ vested_periods' = vested_periods + missed_parts
    /\ last_missed' = missed_parts
    /\ UNCHANGED <<now, entered, late>>

\* External: anybody may send tokens to the vault.
Deposit(amount) ==
    /\ entered + amount <= MaxEntered
    /\ vault' = vault + amount
    /\ entered' = entered + amount
    /\ late' = IF vested_periods = VESTING_TOTAL_PARTS THEN late + amount ELSE late
    /\ UNCHANGED <<now, vested_periods, owner_wallet, last_missed>>

\* External: the cluster's clock.
Tick ==
    /\ now < MaxTime
    /\ now' = now + 1
    /\ UNCHANGED <<vested_periods, vault, owner_wallet, entered, late, last_missed>>

Init ==
    /\ now = deployed_at
    /\ vested_periods = 0
    /\ vault \in Supplies
    /\ entered = vault
    /\ owner_wallet = 0
    /\ late = 0
    /\ last_missed = 0

Next ==
    \/ process_vest
    \/ \E amount \in Deposits : Deposit(amount)
    \/ Tick

Spec == Init /\ [][Next]_vars

\* Time passes, and somebody keeps sending Vest.
VestSpec == Spec /\ WF_vars(Tick) /\ WF_vars(process_vest)

-----------------------------------------------------------------------------
(* Properties.                                                              *)

\* However irregularly Vest is sent, and whenever tokens arrive, the owner is
\* never ahead of the straight line from nothing at deployment to everything
\* after the last period.
NeverAhead == owner_wallet * VESTING_TOTAL_PARTS <= elapsed_parts * entered

\* Rounding down leaves less in the vault, in the end, than the last payment
\* had parts: nothing, when it came in time.
LittleLeft ==
    vested_periods = VESTING_TOTAL_PARTS => vault - late < last_missed

\* The schedule is completed if Vest keeps being sent, however late.
VestingCompletes == <>(vested_periods = VESTING_TOTAL_PARTS)
=============================================================================
