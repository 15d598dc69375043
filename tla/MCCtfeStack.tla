----------------------------- MODULE MCCtfeStack -----------------------------
(***************************************************************************)
(* void fn(ref int a, ref int b), with locals and a with statement.        *)
(***************************************************************************)
EXTENDS CtfeStack, TLC

CONSTANTS a, b, n, x, y, w, p, q, fn, none, d1, d2

InVars(v) == v \in Vars
MCParams == (none :> <<>>) @@ (fn :> SelectSeq(<<n, a, b>>, InVars))
MCFunctionOf == [v \in Vars |-> IF v \in {p, q} THEN none ELSE fn]
Symmetry == Permutations({d1, d2})
=============================================================================
