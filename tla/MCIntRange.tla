----------------------------- MODULE MCIntRange -----------------------------
(***************************************************************************)
(* Instances of IntRange.  Types of at most half of Width stand for those  *)
(* up to int, whose products fit into the numbers of the ranges; types of  *)
(* Width bits stand for long and ulong.                                    *)
(***************************************************************************)
EXTENDS IntRange

IntegralType(bits, signed) == [bits |-> bits, signed |-> signed]

tint == IntegralType(3, TRUE)
tuint == IntegralType(3, FALSE)
tbyte == IntegralType(2, TRUE)
tubyte == IntegralType(2, FALSE)

Unary == {"u-", "~", "cast"}
Shifts == {"<<", ">>", ">>>"}
Arithmetic == {"+", "-", "*", "%", "&", "|", "^", "?:"}

Machine(width, types, operators, bound) ==
    [width |-> width, types |-> types, operators |-> operators, maxSteps |-> bound]

\* Everything but division, which fails for divisors up to 0; unsigned types with division; types
\* as wide as the numbers, with the operators that do not saturate; the exact operators.
MCMachines == {
    Machine(6, {tint, tuint, tbyte, tubyte}, Arithmetic \cup Shifts \cup Unary, 2),
    Machine(6, {tuint, tubyte}, Arithmetic \cup {"/"} \cup Shifts \cup Unary, 2),
    Machine(4, {IntegralType(4, TRUE), IntegralType(4, FALSE)},
            (Arithmetic \ {"+", "*"}) \cup {">>", ">>>"} \cup Unary, 1),
    Machine(8, {IntegralType(4, FALSE)}, ExactOperators, 1)}
=============================================================================
