---------------------------- MODULE VestingProofs ----------------------------
(***************************************************************************)
(* Theorems about Vesting, for every schedule, at any time, whatever the   *)
(* vault is given and whenever Vest is sent.                               *)
(***************************************************************************)
EXTENDS Vesting, ArithmeticTheorems

-----------------------------------------------------------------------------
(* The clock.                                                               *)

\* What calculate_elapsed_parts computes of a time, in fixed-point numbers.
LEMMA PeriodsAt ==
    ASSUME NEW t \in Nat
    PROVE  to_imprecise(floor(checked_div(new(t - deployed_at), new(VESTING_PART_LENGTH))))
             = t \div VESTING_PART_LENGTH
<1>1. t - deployed_at = t
  BY DEF deployed_at
<1> QED
  BY <1>1, FloorExact, ConstantsAssumption

\* The division of next_period, in PreciseNumber and rounded down, counts the
\* full periods since deployment exactly.
THEOREM PeriodsExact ==
    ASSUME now \in Nat
    PROVE  whole_periods = now \div VESTING_PART_LENGTH
BY PeriodsAt DEF whole_periods

\* The parts that have elapsed, for some number of full periods.
Capped(periods) == IF periods < VESTING_TOTAL_PARTS THEN periods ELSE VESTING_TOTAL_PARTS

\* They are a natural number.
LEMMA ElapsedNow ==
    ASSUME now \in Nat
    PROVE  /\ elapsed_parts = Capped(now \div VESTING_PART_LENGTH)
           /\ elapsed_parts \in 0 .. VESTING_TOTAL_PARTS
<1>1. now \div VESTING_PART_LENGTH \in Nat
  BY ConstantsAssumption, DivNat
<1>2. elapsed_parts = Capped(now \div VESTING_PART_LENGTH)
  BY PeriodsExact DEF elapsed_parts, Capped
<1> QED
  BY <1>1, <1>2, ConstantsAssumption DEF Capped

\* They become more as time passes.
LEMMA ElapsedParts ==
    ASSUME now \in Nat, now' \in Nat, now <= now'
    PROVE  /\ elapsed_parts \in 0 .. VESTING_TOTAL_PARTS
           /\ elapsed_parts' \in 0 .. VESTING_TOTAL_PARTS
           /\ elapsed_parts <= elapsed_parts'
<1> DEFINE p == now \div VESTING_PART_LENGTH
           q == now' \div VESTING_PART_LENGTH
<1>1. p \in Nat /\ q \in Nat /\ p <= q
  BY ConstantsAssumption, DivNat, DivMonotone
<1>2. elapsed_parts = Capped(p)
  BY ElapsedNow
<1>3. elapsed_parts' = Capped(q)
  <2>1. whole_periods' = q
    BY PeriodsAt DEF whole_periods
  <2> QED
    BY <2>1 DEF elapsed_parts, Capped
<1> HIDE DEF p, q
<1> QED
  BY <1>1, <1>2, <1>3, ConstantsAssumption DEF Capped

-----------------------------------------------------------------------------
(* The straight line.  The payments so far are compared with the periods    *)
(* they were for, and not with the time that has passed: this is what a     *)
(* payment keeps, whatever has been deposited in between.                   *)

\* The types, and what is paid and what is left are all that was ever given.
TypeInv ==
    /\ now \in Nat /\ vested_periods \in Nat /\ vault \in Nat /\ owner_wallet \in Nat
    /\ entered \in Nat /\ late \in Nat /\ last_missed \in Nat
    /\ entered = vault + owner_wallet
    /\ vested_periods <= elapsed_parts

\* The payments are on or below the line at the periods they were for.
OnLine == owner_wallet * VESTING_TOTAL_PARTS <= vested_periods * entered

\* Nothing is late before the last payment, which is for all that remained.
LateLast ==
    /\ vested_periods # VESTING_TOTAL_PARTS => late = 0
    /\ LittleLeft

VestingInv == TypeInv /\ OnLine /\ LateLast

\* An equal part of the vault, for some of the periods that remain.
LEMMA PartBounds ==
    ASSUME NEW v \in Nat, NEW left \in Nat \ {0}, NEW missed \in 1 .. left
    PROVE  /\ (v \div left) * missed \in Nat
           /\ (v \div left) * missed <= v
           /\ left * ((v \div left) * missed) <= v * missed
           /\ missed = left => v - (v \div left) * missed < missed
<1> DEFINE p == v \div left
           a == p * missed
<1>1. p \in Nat /\ left * p <= v /\ v < left * (p + 1)
  BY DivBounds
<1> HIDE DEF p
<1>2. a \in Nat /\ missed \in Nat \ {0} /\ left * p \in Nat
  BY <1>1, MulNat
<1>3. left * a = missed * (left * p) /\ v * missed = missed * v
  BY <1>1
<1>4. missed * (left * p) <= missed * v
  BY <1>1, <1>2, Cancel
<1>5. a <= v
  <2>1. missed * p <= left * p
    <3>1. missed * p = p * missed /\ left * p = p * left
      BY <1>1
    <3>2. CASE p = 0
      BY <1>1, <3>1, <3>2
    <3>3. CASE p # 0
      BY <1>1, <3>1, <3>3, Cancel
    <3> QED
      BY <3>2, <3>3
  <2>2. a = missed * p
    BY <1>1
  <2> QED
    BY <1>1, <1>2, <2>1, <2>2
<1>6. missed = left => v - a < missed
  <2> SUFFICES ASSUME missed = left PROVE v - a < missed
    OBVIOUS
  <2>1. left * (p + 1) = a + left
    BY <1>1
  <2> HIDE DEF a
  <2> QED
    BY <1>1, <1>2, <2>1
<1> QED
  BY <1>2, <1>3, <1>4, <1>5, <1>6 DEF p

\* Paying from the rest, at no more than its rate, stays below the line.
LEMMA LineKept ==
    ASSUME NEW total \in Nat, NEW done \in Nat, NEW left \in Nat \ {0}, total = done + left,
           NEW missed \in 1 .. left, NEW owner \in Nat, NEW v \in Nat, NEW amount \in Nat,
           owner * total <= done * (v + owner),
           left * amount <= v * missed
    PROVE  (owner + amount) * total <= (done + missed) * (v + owner)
<1> DEFINE all  == v + owner
           rest == left - missed
           X == owner * total
           Y == done * all
<1>1. /\ all \in Nat /\ rest \in Nat /\ X \in Nat /\ Y \in Nat
      /\ missed \in Nat /\ left * amount \in Nat /\ v * missed \in Nat
  BY MulNat
<1>2. rest * X <= rest * Y
  <2>1. X <= Y
    OBVIOUS
  <2> HIDE DEF X, Y, rest
  <2>2. CASE rest = 0
    BY <1>1, <2>2
  <2>3. CASE rest # 0
    BY <1>1, <2>1, <2>3, Cancel
  <2> QED
    BY <2>2, <2>3
<1>3. (left * amount) * total <= (v * missed) * total
  <2> DEFINE A == left * amount
             B == v * missed
  <2>1. A \in Nat /\ B \in Nat /\ A <= B /\ total \in Nat \ {0}
    BY <1>1
  <2> HIDE DEF A, B
  <2>2. total * A <= total * B
    BY <2>1, Cancel
  <2>3. A * total = total * A /\ B * total = total * B
    BY <2>1
  <2>4. A * total <= B * total
    BY <2>2, <2>3
  <2> QED
    BY <2>4 DEF A, B
<1>4. left * ((owner + amount) * total) = rest * X + missed * X + (left * amount) * total
  BY <1>1
<1>5. left * ((done + missed) * all) = rest * Y + missed * (owner * total) + (v * missed) * total
  BY <1>1
<1> DEFINE L == (owner + amount) * total
           R == (done + missed) * all
           rX == rest * X
           rY == rest * Y
           mX == missed * X
           A == (left * amount) * total
           B == (v * missed) * total
<1>6. /\ L \in Nat /\ R \in Nat /\ rX \in Nat /\ rY \in Nat /\ mX \in Nat
      /\ A \in Nat /\ B \in Nat
  BY <1>1, MulNat
<1>7. /\ rX <= rY /\ A <= B
      /\ left * L = rX + mX + A
      /\ left * R = rY + mX + B
  BY <1>2, <1>3, <1>4, <1>5
<1> HIDE DEF L, R, rX, rY, mX, A, B
<1>8. left * L <= left * R
  BY <1>6, <1>7
<1>9. L <= R
  BY <1>6, <1>8, Cancel
<1> QED
  BY <1>9 DEF L, R

\* A payment, for all the periods missed, stays below the line.
LEMMA VestPays ==
    ASSUME VestingInv, process_vest
    PROVE  VestingInv'
<1> DEFINE left == VESTING_TOTAL_PARTS - vested_periods
           missed == elapsed_parts - vested_periods
           amount == (vault \div left) * missed
<1>1. /\ now \in Nat /\ vested_periods \in Nat /\ vault \in Nat /\ owner_wallet \in Nat
      /\ entered \in Nat /\ late \in Nat /\ last_missed \in Nat
      /\ entered = vault + owner_wallet
      /\ vested_periods <= elapsed_parts
      /\ now' = now /\ entered' = entered /\ late' = late
      /\ VESTING_TOTAL_PARTS \in Nat \ {0}
  BY ConstantsAssumption DEF VestingInv, TypeInv, process_vest
<1>2. elapsed_parts \in 0 .. VESTING_TOTAL_PARTS /\ elapsed_parts' = elapsed_parts
  <2>1. elapsed_parts' = elapsed_parts
    BY <1>1 DEF elapsed_parts, whole_periods
  <2> QED
    BY <1>1, <2>1, ElapsedNow
<1>3. vested_periods # VESTING_TOTAL_PARTS /\ missed_parts # 0
  BY DEF process_vest, next_period_due
<1>4. missed_parts = missed /\ left \in Nat \ {0} /\ missed \in 1 .. left
  BY <1>1, <1>2, <1>3 DEF missed_parts
<1>5. /\ vault' = vault - amount /\ owner_wallet' = owner_wallet + amount
      /\ vested_periods' = vested_periods + missed
      /\ last_missed' = missed
  BY <1>4 DEF process_vest, part, remaining_periods
<1>6. /\ amount \in Nat /\ amount <= vault
      /\ left * amount <= vault * missed
      /\ missed = left => vault - amount < missed
  BY <1>1, <1>4, PartBounds
<1> HIDE DEF amount
<1>7. TypeInv'
  BY <1>1, <1>2, <1>4, <1>5, <1>6 DEF TypeInv
<1>8. OnLine'
  <2>1. VESTING_TOTAL_PARTS = vested_periods + left
    BY <1>1, <1>4
  <2>2. owner_wallet * VESTING_TOTAL_PARTS <= vested_periods * (vault + owner_wallet)
    BY <1>1 DEF VestingInv, OnLine
  <2> HIDE DEF left, missed
  <2>3. (owner_wallet + amount) * VESTING_TOTAL_PARTS
          <= (vested_periods + missed) * (vault + owner_wallet)
    BY <1>1, <1>4, <1>6, <2>1, <2>2, LineKept
  <2> QED
    BY <1>1, <1>5, <2>3 DEF OnLine
<1>9. LateLast'
  <2>1. late = 0
    BY <1>3 DEF VestingInv, LateLast
  <2>2. vested_periods' = VESTING_TOTAL_PARTS => missed = left
    BY <1>1, <1>2, <1>5
  <2> HIDE DEF left, missed
  <2> QED
    BY <1>1, <1>5, <1>6, <2>1, <2>2 DEF LateLast, LittleLeft
<1> QED
  BY <1>7, <1>8, <1>9 DEF VestingInv

\* What arrives in the vault raises the line, not what was paid.
LEMMA VestDeposit ==
    ASSUME VestingInv, NEW amount \in Deposits, Deposit(amount)
    PROVE  VestingInv'
<1>1. /\ now \in Nat /\ vested_periods \in Nat /\ vault \in Nat /\ owner_wallet \in Nat
      /\ entered \in Nat /\ late \in Nat /\ last_missed \in Nat
      /\ entered = vault + owner_wallet
      /\ vested_periods <= elapsed_parts
      /\ amount \in Nat /\ VESTING_TOTAL_PARTS \in Nat
  BY ConstantsAssumption DEF VestingInv, TypeInv
<1>2. /\ vault' = vault + amount /\ entered' = entered + amount
      /\ late' = IF vested_periods = VESTING_TOTAL_PARTS THEN late + amount ELSE late
      /\ UNCHANGED <<now, vested_periods, owner_wallet, last_missed>>
  BY DEF Deposit
<1>3. TypeInv'
  <2>1. elapsed_parts' = elapsed_parts
    BY <1>2 DEF elapsed_parts, whole_periods
  <2> QED
    BY <1>1, <1>2, <2>1 DEF TypeInv
<1>4. OnLine'
  <2>1. vested_periods * (entered + amount) = vested_periods * entered + vested_periods * amount
    BY <1>1
  <2>2. /\ vested_periods * entered \in Nat /\ vested_periods * amount \in Nat
        /\ owner_wallet * VESTING_TOTAL_PARTS \in Nat
    BY <1>1, MulNat
  <2>3. owner_wallet * VESTING_TOTAL_PARTS <= vested_periods * entered
    BY DEF VestingInv, OnLine
  <2> QED
    BY <1>2, <2>1, <2>2, <2>3 DEF OnLine
<1>5. LateLast'
  BY <1>1, <1>2 DEF VestingInv, LateLast, LittleLeft
<1> QED
  BY <1>3, <1>4, <1>5 DEF VestingInv

\* Every step keeps the payments below the line.
LEMMA VestingStep == VestingInv /\ [Next]_vars => VestingInv'
<1> SUFFICES ASSUME VestingInv, [Next]_vars PROVE VestingInv'
  OBVIOUS
<1>1. CASE process_vest
  BY <1>1, VestPays
<1>2. ASSUME NEW amount \in Deposits, Deposit(amount) PROVE VestingInv'
  BY <1>2, VestDeposit
<1>3. CASE Tick
  <2>1. now \in Nat /\ now' \in Nat /\ now <= now'
    BY <1>3 DEF Tick, VestingInv, TypeInv
  <2>2. elapsed_parts <= elapsed_parts' /\ elapsed_parts \in Nat /\ elapsed_parts' \in Nat
    BY <2>1, ElapsedParts
  <2>3. UNCHANGED <<vested_periods, vault, owner_wallet, entered, late, last_missed>>
    BY <1>3 DEF Tick
  <2>4. TypeInv'
    BY <2>1, <2>2, <2>3 DEF VestingInv, TypeInv
  <2> QED
    BY <2>3, <2>4 DEF VestingInv, OnLine, LateLast, LittleLeft
<1>4. CASE UNCHANGED vars
  <2>1. UNCHANGED <<now, vested_periods, vault, owner_wallet, entered, late, last_missed>>
    BY <1>4 DEF vars
  <2>2. elapsed_parts' = elapsed_parts
    BY <2>1 DEF elapsed_parts, whole_periods
  <2> QED
    BY <2>1, <2>2 DEF VestingInv, TypeInv, OnLine, LateLast, LittleLeft
<1> QED
  BY <1>1, <1>2, <1>3, <1>4 DEF Next

\* Nothing has been paid at deployment.
LEMMA VestingInit == Init => VestingInv
<1> SUFFICES ASSUME Init PROVE VestingInv
  OBVIOUS
<1>1. /\ now = 0 /\ vested_periods = 0 /\ vault \in Nat /\ owner_wallet = 0
      /\ entered = vault /\ late = 0 /\ last_missed = 0
      /\ VESTING_TOTAL_PARTS \in Nat \ {0}
  BY ConstantsAssumption DEF Init, deployed_at
<1>2. elapsed_parts \in Nat
  BY <1>1, ElapsedNow
<1> QED
  BY <1>1, <1>2 DEF VestingInv, TypeInv, OnLine, LateLast, LittleLeft

\* So the payments stay on or below the line.
LEMMA VestingAlways == Spec => []VestingInv
BY VestingInit, VestingStep, PTL DEF Spec

\* process_vest never pays the owner ahead of the straight line, although it
\* divides what the vault holds at the time by the periods that remain.
THEOREM NeverPaidAhead == Spec => []NeverAhead
<1>1. ASSUME VestingInv PROVE NeverAhead
  <2>1. /\ vested_periods \in Nat /\ entered \in Nat /\ owner_wallet \in Nat
        /\ vested_periods <= elapsed_parts /\ now \in Nat
        /\ owner_wallet * VESTING_TOTAL_PARTS <= vested_periods * entered
        /\ VESTING_TOTAL_PARTS \in Nat
    BY <1>1, ConstantsAssumption DEF VestingInv, TypeInv, OnLine
  <2>2. elapsed_parts \in Nat
    BY <2>1, ElapsedNow
  <2>3. vested_periods * entered <= elapsed_parts * entered
    <3>1. CASE entered = 0
      BY <2>1, <2>2, <3>1
    <3>2. CASE entered # 0
      <4>1. entered * vested_periods <= entered * elapsed_parts
        BY <2>1, <2>2, <3>2, Cancel
      <4>2. /\ entered * vested_periods = vested_periods * entered
            /\ entered * elapsed_parts = elapsed_parts * entered
        BY <2>1, <2>2
      <4> QED
        BY <4>1, <4>2
    <3> QED
      BY <3>1, <3>2
  <2>4. /\ vested_periods * entered \in Nat /\ elapsed_parts * entered \in Nat
        /\ owner_wallet * VESTING_TOTAL_PARTS \in Nat
    BY <2>1, <2>2, MulNat
  <2> QED
    BY <2>1, <2>3, <2>4 DEF NeverAhead
<1> QED
  BY <1>1, VestingAlways, PTL

\* The last payment leaves fewer tokens than it had parts, and what is left is
\* not taken by anything else.
THEOREM LittleStaysLeft == Spec => []LittleLeft
<1>1. VestingInv => LittleLeft
  BY DEF VestingInv, LateLast
<1> QED
  BY <1>1, VestingAlways, PTL
=============================================================================
