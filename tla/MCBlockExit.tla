----------------------------- MODULE MCBlockExit -----------------------------
(***************************************************************************)
(* Statements for TLC: each sort combines some of the constructs, and all  *)
(* the statements of that sort up to a size are built.                     *)
(***************************************************************************)
EXTENDS BlockExit

Build(names, n) == [language |-> names, maxSize |-> n]

Common == {"nothrow", "return", "compound", "if"}
Thrower == {"call", "throwException", "throwError"}

MCSorts == {
    Build(Common \cup {"call", "halt", "empty", "break", "continue", "do", "for",
                            "foreach over a tuple", "constant conditions", "throwing conditions"}, 6),
    Build(Common \cup Thrower \cup {"halt", "noreturn", "try", "finally", "with"}, 6),
    Build(Common \cup {"call", "throwThrowable", "try", "finally", "break", "for"}, 6),
    Build(Common \cup {"goto", "label", "breakLabel", "continueLabel", "do", "for",
                            "constant conditions"}, 6),
    Build(Common \cup {"break", "gotoCase", "switch", "empty", "continue", "do"}, 6)}
=============================================================================
