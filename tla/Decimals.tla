------------------------------ MODULE Decimals ------------------------------
(***************************************************************************)
(* Values stated to a precision (rust/src/artifact.rs and financials.rs):  *)
(* what decimals allow, and which of two statements of one value is kept.  *)
(* A decimals attribute is a number, Blank below and Inf above all others. *)
(* Floating-point slack is left out: values are integers.                  *)
(***************************************************************************)
EXTENDS Integers

CONSTANTS
    Nil,        \* no value
    Blank,      \* an empty or missing decimals attribute
    Tolerance   \* half a unit of the last stated place, by decimals

Decimal == DOMAIN Tolerance

\* Blank and INF tolerate nothing; one more digit narrows at least by half.
ASSUME ToleranceAssumption ==
    /\ Decimal \subseteq Int
    /\ Blank \in Decimal
    /\ Tolerance \in [Decimal -> Nat]
    /\ Tolerance[Blank] = 0
    /\ \A d, e \in Decimal : d # Blank /\ d < e => 2 * Tolerance[e] <= Tolerance[d]
    /\ \A d \in Decimal : Blank <= d
    /\ Nil \notin Int

\* decimals_precision: the number itself.
MorePrecise(new, old) == new.decimals > old.decimals

Distance(v, w) == IF v < w THEN w - v ELSE v - w

\* Mutant: the tolerances add up.
CompatibleSummed(e, f) ==
    Distance(e.value, f.value) <= Tolerance[e.decimals] + Tolerance[f.decimals]

Compatible(e, f) ==
    \/ Distance(e.value, f.value) <= Tolerance[e.decimals]
    \/ Distance(e.value, f.value) <= Tolerance[f.decimals]

\* values_compatible is asked only of two values.
Contradicts(new, old) == old.value # Nil /\ new.value # Nil /\ ~Compatible(old, new)

\* A value beats none, a more precise value a less precise one.
Improves(new, old) ==
    /\ new.value # Nil
    /\ old.value = Nil \/ MorePrecise(new, old)
=============================================================================
