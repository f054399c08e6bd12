------------------------------ MODULE Formatting ------------------------------
(***************************************************************************)
(* How both programs print a duration or a number of bytes: in the largest *)
(* unit not above it, rounded to the last digit shown.  A unit is worth    *)
(* `base` of the one before and shows so many parts of itself; an amount   *)
(* is divided by its divisor.  The last unit has no upper end, and which   *)
(* way an exact half is rounded is left open.                              *)
(***************************************************************************)
EXTENDS Integers, Sequences

Unit(worth, divisor, below, parts) ==
    [worth |-> worth, divisor |-> divisor, below |-> below, parts |-> parts]

\* What the units are worth, in the least of them.
Worths(base) == <<1, base, base * base, base * base * base>>

\* Mutant: milliseconds divided out as if they were seconds.
UnitsMisscaled(base, parts) ==
    [u \in DOMAIN parts |->
        Unit(Worths(base)[u], Worths(base)[IF u = 3 THEN 4 ELSE u],
             base * Worths(base)[u], parts[u])]

Units(base, parts) ==
    [u \in DOMAIN parts |->
        Unit(Worths(base)[u], Worths(base)[u], base * Worths(base)[u], parts[u])]

UnitOf(amount, units) ==
    LET fit == {u \in DOMAIN units : amount < units[u].below} \cup {Len(units)}
    IN  units[CHOOSE u \in fit : \A v \in fit : u <= v]

\* The numbers of parts that may be printed for an amount.
Figures(amount, unit) ==
    LET whole == (amount * unit.parts) \div unit.divisor
        rest == (amount * unit.parts) % unit.divisor
    IN  {n \in {whole, whole + 1} : IF n = whole THEN 2 * rest <= unit.divisor
                                                 ELSE 2 * rest >= unit.divisor}

\* What is printed for the one amount never looks more than for the other.
ShownNotAbove(less, more, units) ==
    LET lower == UnitOf(less, units)
        upper == UnitOf(more, units)
    IN  \A n \in Figures(less, lower), m \in Figures(more, upper) :
            n * lower.worth * upper.parts <= m * upper.worth * lower.parts
===============================================================================
