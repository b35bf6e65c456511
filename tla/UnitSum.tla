------------------------------- MODULE UnitSum -------------------------------
(***************************************************************************)
(* The sum of a function with natural values, counted unit by unit: the    *)
(* number of pairs <<x, k>> with k in 1 .. f[x].  As a cardinality it is    *)
(* within reach of the theorems on finite sets, which a sum defined by     *)
(* recursion is not.                                                       *)
(***************************************************************************)
EXTENDS Integers, FiniteSets

\* The units of f over S: f[x] of them for each x.
Units(f, S) == UNION {{x} \X (1 .. f[x]) : x \in S}

\* The sum of f over S.
Total(f, S) == Cardinality(Units(f, S))
=============================================================================
