--------------------------- MODULE MCScopeStack ---------------------------
(* Small instances of ScopeStack. *)
EXTENDS ScopeStack, TLC

CONSTANTS s1, s2, s3, s4, s5, d, e, m

Symmetry == Permutations(Scopes) \cup Permutations(Declarations)
=============================================================================
