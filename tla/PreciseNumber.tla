---------------------------- MODULE PreciseNumber ----------------------------
(***************************************************************************)
(* The fixed-point numbers of the spl_math crate, as the round, royalty,   *)
(* fanout and human programs use them.  The crate is not part of the       *)
(* repository; what is modelled is the behaviour its callers rely on: a    *)
(* PreciseNumber holds value * ONE, and every division rounds half up, the *)
(* one back to an integer included (the test case "above target" in        *)
(* round/src/state.rs expects 17.98 to become 18).                         *)
(*                                                                         *)
(* ONE is 10^12 in the crate.  The models use a smaller scale, which makes *)
(* the loss of precision visible on small amounts.                         *)
(***************************************************************************)
EXTENDS Integers

CONSTANT
    ONE     \* the scale: how many units of precision make one

ASSUME OneAssumption == ONE \in Nat \ {0}

\* The result of a checked operation that has no value.  Every number of the
\* programs is unsigned, so a negative one is free to stand for Option::None.
None == -1

\* Half a unit, added before each division so that it rounds half up.
rounding_correction == ONE \div 2

\* PreciseNumber::new
new(val) == val * ONE

\* PreciseNumber::checked_mul
checked_mul(a, b) == (a * b + rounding_correction) \div ONE

\* PreciseNumber::checked_div: no value when the divisor is zero.
checked_div(a, b) ==
    IF b = 0 THEN None ELSE (a * ONE + rounding_correction) \div b

\* PreciseNumber::floor
floor(a) == (a \div ONE) * ONE

\* PreciseNumber::to_imprecise
to_imprecise(a) == (a + rounding_correction) \div ONE
=============================================================================
