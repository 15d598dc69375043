----------------------------- MODULE MCCtorFlow -----------------------------
(***************************************************************************)
(* Instances of CtorFlow: the constructs of the programs of each run.      *)
(***************************************************************************)
EXTENDS CtorFlow

CONSTANTS ref, const

Branches == {"if", "if declared", "?:", "&&", "block"}
Repeated == {"loop", "do", "switch", "label"}

\* A class without fields that matter; the constructor calls others.
Calling(names, n) ==
    [language |-> names, mustInit |-> {}, unassignable |-> {}, maxSteps |-> n]

Sort(names, must, un, n) ==
    [language |-> names, mustInit |-> must, unassignable |-> un, maxSteps |-> n]

MCSorts == {
    Calling(Branches \cup {"super", "this", "halt", "throw"}, 6),
    Calling(Repeated \cup {"if", "&&", "super", "return", "goto"}, 6),
    Calling(Branches \cup Repeated \cup {"super", "return", "throw"}, 5),
    Calling(Repeated \cup {"if", "&&", "super", "return"}, 6),
    Calling(Branches \cup {"super", "this", "return"}, 6),
    Sort(Repeated \cup {"assign", "if", "?:", "block", "return", "halt", "throw"}, {ref}, {const}, 5),
    Sort({"assign", "if", "?:", "block", "return", "loop", "do", "label"}, {ref}, {ref}, 6)}
=============================================================================
