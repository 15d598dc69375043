---------------------------- MODULE InternTable ----------------------------
(***************************************************************************)
(* What a StringTable promises: every string that was stored stands for    *)
(* one handle, the same for ever, and no two strings share a handle.  The  *)
(* compiler relies on it whenever it compares identifiers and types by     *)
(* their addresses.                                                        *)
(***************************************************************************)
EXTENDS Naturals, Functions

CONSTANTS
    Strings,        \* what may be stored
    None            \* no handle

VARIABLES
    dict,           \* from the stored strings to their handles
    request,        \* the call being served, <<>> between two calls
    answer          \* what the last call has returned

vars == <<dict, request, answer>>

Operations == {"lookup", "update", "insert"}

Init ==
    /\ dict = [s \in {} |-> None]
    /\ request = <<>>
    /\ answer = None

Request(op, s) ==
    /\ request = <<>>
    /\ request' = <<op, s>>
    /\ UNCHANGED <<dict, answer>>

Respond(h) == answer' = h /\ request' = <<>>

\* The string is there: insert() tells so by returning nothing.
Known ==
    /\ request # <<>>
    /\ request[2] \in DOMAIN dict
    /\ Respond(IF request[1] = "insert" THEN None ELSE dict[request[2]])
    /\ UNCHANGED dict

Unknown ==
    /\ request # <<>>
    /\ request[1] = "lookup" /\ request[2] \notin DOMAIN dict
    /\ Respond(None)
    /\ UNCHANGED dict

\* A string is stored: it gets a handle of its own, all others keep theirs.
Stored ==
    /\ request # <<>>
    /\ request[1] # "lookup" /\ request[2] \notin DOMAIN dict
    /\ DOMAIN dict' = DOMAIN dict \cup {request[2]}
    /\ \A s \in DOMAIN dict : dict'[s] = dict[s]
    /\ \A s \in DOMAIN dict : dict'[request[2]] # dict[s]
    /\ dict'[request[2]] # None
    /\ Respond(dict'[request[2]])

\* reset() forgets everything.
Forget ==
    /\ request = <<>>
    /\ dict' = [s \in {} |-> None]
    /\ UNCHANGED <<request, answer>>

Next ==
    \/ \E op \in Operations, s \in Strings : Request(op, s)
    \/ Known \/ Unknown \/ Stored \/ Forget

Spec == Init /\ [][Next]_vars
=============================================================================
