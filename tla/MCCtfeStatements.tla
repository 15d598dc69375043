--------------------------- MODULE MCCtfeStatements ---------------------------
(***************************************************************************)
(* Function bodies for TLC: each sort combines some of the constructs.     *)
(***************************************************************************)
EXTENDS CtfeStatements

Build(names, labelled, labels, n) ==
    [language |-> names, jumps |-> labelled, labels |-> labels, maxSize |-> n]

Labelled == {"compound", "label"}
Switches == {"compound", "switch", "case", "default"}
MCSorts == {
    Build(Labelled \cup {"step", "if", "for"}, {"break", "continue"}, {"A"}, 5),
    Build({"compound", "if", "do", "unrolled", "break", "continue"}, {}, {}, 5),
    Build(Labelled \cup {"step", "with"}, {"goto"}, {"A", "B"}, 6),
    Build(Labelled \cup {"call", "try"}, {"goto"}, {"A"}, 5),
    Build(Labelled \cup {"call", "finally", "for"}, {"goto", "break"}, {"A"}, 5),
    Build({"call", "try", "finally", "throw"}, {}, {}, 5),
    Build(Switches \cup {"break", "goto case", "goto default"}, {}, {}, 6),
    Build(Switches \cup {"call", "try"}, {}, {}, 6)}
=============================================================================
