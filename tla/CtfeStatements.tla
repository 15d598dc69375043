---------------------------- MODULE CtfeStatements ----------------------------
(***************************************************************************)
(* How the compile-time interpreter runs the statements of a function.     *)
(*                                                                         *)
(* The interpreter walks the tree of statements by recursion.  A jump is a *)
(* result that bubbles up, with its target in gotoTarget; a goto is        *)
(* completed by walking down again with start set to the target, which     *)
(* skips everything before it.                                             *)
(*                                                                         *)
(* A behaviour of this specification builds the body of a function         *)
(* bottom-up.  What the interpreter does with it is compared with what the *)
(* statements mean, see Leave, for every outcome of its conditions and     *)
(* calls.                                                                  *)
(***************************************************************************)
EXTENDS Naturals, Sequences, SequencesExt

CONSTANTS
    Sorts,          \* the bodies to build: kinds of statement and their number
    MaxChoices,     \* bound: conditions and calls in a run
    MaxSteps        \* bound: simple statements and conditions in a run

ASSUME BoundAssumption == MaxChoices \in Nat /\ MaxSteps \in Nat \ {0}

VARIABLES
    now,            \* the statement that is being built
    saved,          \* another one, to be combined with it, or none
    size,           \* simple statements and constructs so far
    sort            \* what this behaviour builds

vars == <<now, saved, size, sort>>

-----------------------------------------------------------------------------
(* Statements                                                              *)

\* A kind, a name and the statements in it.  The name is that of a label, of
\* the label that a jump names ("" without one), or the type of a catch clause.
Stmt(kind, name, parts) == [kind |-> kind, name |-> name, parts |-> parts]

Jumps == {"break", "continue", "goto", "goto case", "goto default"}
Loops == {"do", "for", "unrolled"}

\* A statement of a function is named by its path from the body.
Null == <<0>>
RECURSIVE At(_, _)
At(f, p) == IF p = <<>> THEN f ELSE At(f.parts[Head(p)], Tail(p))
RECURSIVE Paths(_)
Paths(f) ==
    {<<>>} \cup UNION {{<<j>> \o p : p \in Paths(f.parts[j])} : j \in DOMAIN f.parts}

Of(f, kind) == {p \in Paths(f) : At(f, p).kind = kind}
Below(p, q) == IsStrictPrefix(q, p)
Enclosing(f, p, kinds) == {q \in Paths(f) : Below(p, q) /\ At(f, q).kind \in kinds}
Innermost(paths) == CHOOSE q \in paths : \A r \in paths : Len(r) <= Len(q)

\* Where a jump leads: LabelDsymbol::statement, sc->sbreak, sc->scontinue, sc->sw.
LabelOf(f, name) == CHOOSE p \in Of(f, "label") : At(f, p).name = name
CaseOf(f, p, kind) ==
    CHOOSE q \in Of(f, kind) : Innermost(Enclosing(f, q, {"switch"}))
                               = Innermost(Enclosing(f, p, {"switch"}))
Breakable(kind) == IF kind = "break" THEN Loops \cup {"switch"} ELSE Loops
Target(f, p) ==
    LET s == At(f, p) IN
    CASE s.kind = "goto" -> LabelOf(f, s.name)
      [] s.kind = "goto case" -> CaseOf(f, p, "case")
      [] s.kind = "goto default" -> CaseOf(f, p, "default")
      [] s.name # "" -> LabelOf(f, s.name) \o <<1>>
      [] OTHER -> Innermost(Enclosing(f, p, Breakable(s.kind)))

-----------------------------------------------------------------------------
(* A run                                                                   *)

\* The outcome of the next condition or call is the head of choices.  A run
\* in which there is none left, or which takes too long, goes no further: for
\* the interpreter, the expression cannot be evaluated at compile time.
Took(r, p) == [r EXCEPT !.trace = Append(@, p)]
Chose(r, p) == [Took(r, p) EXCEPT !.choices = Tail(@)]
Spent(r) == Len(r.trace) = MaxSteps
Undecided(r) == Spent(r) \/ r.choices = <<>>

Thrown == {"Exception", "Error"}
Fits(type, thrown) == type \in {"Throwable", thrown}

\* An Error that is thrown while an Exception is on its way takes its place;
\* otherwise the second one is chained to the first.
chainExceptions(oldest, newest) ==
    IF newest = "Error" /\ oldest # "Error" THEN newest ELSE oldest

-----------------------------------------------------------------------------
(* What statements mean                                                    *)

\* How a statement ends: with what it throws or its kind of jump, and where
\* that leads.
End(how, to) == [how |-> how, to |-> to]
Normal == End("none", Null)

RECURSIVE Enter(_, _, _)
RECURSIVE Leave(_, _, _, _)

\* A run of f is at the beginning of the statement p.
Enter(f, p, r) ==
    LET s == At(f, p)
        Part(j, run) == Enter(f, p \o <<j>>, run)
        stop == [how |-> "cant", trace |-> r.trace]
    IN
    CASE s.kind \in {"compound", "unrolled", "label", "case", "default", "do", "try", "finally"} ->
            Part(1, r)
      [] s.kind = "with" -> IF Spent(r) THEN stop ELSE Part(1, Took(r, p))
      [] s.kind = "if" ->
            IF Undecided(r) THEN stop ELSE Part(IF Head(r.choices) THEN 1 ELSE 2, Chose(r, p))
      [] s.kind = "for" ->
            IF Undecided(r) THEN stop
            ELSE IF Head(r.choices) THEN Part(1, Chose(r, p))
            ELSE Leave(f, p, Normal, Chose(r, p))
      [] s.kind = "switch" ->
            IF Undecided(r) THEN stop
            ELSE Enter(f, CaseOf(f, p \o <<1>>, IF Head(r.choices) THEN "case" ELSE "default"),
                       Chose(r, p))
      [] s.kind = "call" ->
            IF Undecided(r) THEN stop
            ELSE Leave(f, p, IF Head(r.choices) THEN Normal ELSE End("Exception", Null), Chose(r, p))
      [] Spent(r) -> stop
      [] s.kind \in Jumps -> Leave(f, p, End(s.kind, Target(f, p)), Took(r, p))
      [] s.kind = "step" -> Leave(f, p, Normal, Took(r, p))
      [] s.kind = "throw" -> Leave(f, p, End(s.name, Null), Took(r, p))
      [] s.kind = "return" -> Leave(f, p, End("return", Null), Took(r, p))

\* The statement p has ended, and the statement it is part of decides what
\* comes next.  A jump inside a statement stays inside it, so it passes no
\* finally of its own.
Leave(f, p, end, r) ==
    IF p = <<>> THEN [how |-> end.how, trace |-> r.trace]
    ELSE
    LET q == Front(p)
        s == At(f, q)
        part == Last(p)
        stop == [how |-> "cant", trace |-> r.trace]
        On(run) == Leave(f, q, Normal, run)
        Next1 == IF part < Len(s.parts) THEN Enter(f, q \o <<part + 1>>, r) ELSE On(r)
        Again == end.how = "none" \/ (end.how = "continue" /\ end.to = q)
    IN
    CASE end.how \in {"goto", "goto case", "goto default"} /\ IsPrefix(q, end.to) ->
            Enter(f, end.to, r)
      [] end.how = "break" /\ end.to = q -> On(r)
      [] s.kind = "compound" /\ end.how = "none" -> Next1
      [] s.kind = "unrolled" /\ Again -> Next1
      [] s.kind = "do" /\ Again ->
            IF Undecided(r) THEN stop
            ELSE IF Head(r.choices) THEN Enter(f, p, Chose(r, q)) ELSE On(Chose(r, q))
      [] s.kind = "for" /\ Again -> IF Spent(r) THEN stop ELSE Enter(f, q, Took(r, q \o <<2>>))
      [] s.kind = "try" /\ part = 1 /\ end.how \in Thrown /\ Fits(s.name, end.how) ->
            Enter(f, q \o <<2>>, r)
      [] s.kind = "finally" /\ part = 1 ->
            Enter(f, q \o <<2>>, [r EXCEPT !.pending = Append(@, end)])
      [] s.kind = "finally" /\ part = 2 ->
            LET ended == Last(r.pending)
                run == [r EXCEPT !.pending = Front(@)]
            IN CASE end.how = "none" -> Leave(f, q, ended, run)
                 [] ended.how \in Thrown ->
                        Leave(f, q, End(chainExceptions(ended.how, end.how), Null), run)
                 [] OTHER -> Leave(f, q, end, run)
      [] OTHER -> Leave(f, q, end, r)

Meaning(f, choices) ==
    Enter(f, <<>>, [choices |-> choices, trace |-> <<>>, pending |-> <<>>])

-----------------------------------------------------------------------------
(* The interpreter                                                         *)

\* InterState: start is the statement to look for, gotoTarget that of the jump
\* in result.  The rest of the record is the run so far.
NoResult(st) == [st EXCEPT !.result = "none"]
Result(st, result) == [st EXCEPT !.result = result]

IsGotoExp(st) == st.result \in {"goto", "goto case", "goto default"}
\* A failed assertion ends the compiler.
IsCant(st) == st.result \in {"cant", "failed"}
exceptionOrCant(st) == IsCant(st) \/ st.result \in Thrown

\* if (istate->start == s) istate->start = nullptr;
Resumed(p, st) == [NoResult(st) EXCEPT !.start = IF @ = p THEN Null ELSE @]

\* Fault: a labelled break or continue ends at the innermost loop or switch.
AnyIsOwn(p, st) == TRUE

\* "target of labelled CTFEExp": a jump without a label belongs to the innermost
\* loop or switch.
Own(p, st) == st.gotoTarget \in {Null, p}
NoTarget(st) == [st EXCEPT !.gotoTarget = Null]

\* A condition; its value is the result.
Condition(p, st) ==
    IF Undecided(st) THEN Result(st, "cant")
    ELSE Result(Chose(st, p), IF Head(st.choices) THEN "true" ELSE "false")

\* Fault: the target is the label, not the statement that is labelled.
LabelItself(f, p) == IF At(f, p).name = "" THEN Null ELSE LabelOf(f, At(f, p).name)

findGotoTarget(f, p) ==
    IF At(f, p).name = "" THEN Null ELSE LabelOf(f, At(f, p).name) \o <<1>>

JumpTarget(f, p) ==
    IF At(f, p).kind \in {"break", "continue"} THEN findGotoTarget(f, p) ELSE Target(f, p)

SimpleStatement(f, p, st) ==
    LET s == At(f, p) IN
    CASE s.kind = "call" ->
            LET e == Condition(p, st) IN
            IF IsCant(e) THEN e ELSE Result(e, IF e.result = "true" THEN "none" ELSE "Exception")
      [] Spent(st) -> Result(st, "cant")
      [] s.kind = "step" -> Took(st, p)
      [] s.kind = "throw" -> Result(Took(st, p), s.name)
      [] s.kind = "return" -> Result(Took(st, p), "return")
      [] s.kind \in Jumps ->
            Result([Took(st, p) EXCEPT !.gotoTarget = JumpTarget(f, p)], s.kind)

RECURSIVE Interpret(_, _, _)
RECURSIVE CompoundFrom(_, _, _, _)
RECURSIVE UnrolledFrom(_, _, _, _)
RECURSIVE DoLoop(_, _, _)
RECURSIVE ForLoop(_, _, _)
RECURSIVE BodyAgain(_, _, _)
RECURSIVE Restart(_, _)

Body(f, p, st) == Interpret(f, p \o <<1>>, st)

CompoundFrom(f, p, j, st) ==
    LET e == Interpret(f, p \o <<j>>, st) IN
    IF e.result # "none" \/ j = Len(At(f, p).parts) THEN e ELSE CompoundFrom(f, p, j + 1, e)

UnrolledFrom(f, p, j, st) ==
    LET e == Interpret(f, p \o <<j>>, st)
        Next1(run) ==
            IF j = Len(At(f, p).parts) THEN NoResult(run) ELSE UnrolledFrom(f, p, j + 1, run)
    IN
    CASE e.result = "none" -> Next1(e)
      [] e.result \in {"break", "continue"} /\ ~Own(p, e) -> e
      [] e.result = "break" -> NoTarget(NoResult(e))
      [] e.result = "continue" -> Next1(NoTarget(e))
      [] OTHER -> e

IfStatementOf(f, p, st) ==
    IF st.start # Null
    THEN LET e == Body(f, p, st) IN
         IF e.result = "none" /\ e.start # Null THEN Interpret(f, p \o <<2>>, e) ELSE e
    ELSE LET e == Condition(p, st) IN
         CASE IsCant(e) -> e
           [] e.result = "true" -> Body(f, p, NoResult(e))
           [] OTHER -> Interpret(f, p \o <<2>>, NoResult(e))

\* What a loop makes of a run of its body: Ends says whether it is over, and
\* Rest how it goes on.
Ends(p, e) ==
    \/ e.result = "none" /\ e.start # Null
    \/ e.result \notin {"none", "continue"}
    \/ e.result = "continue" /\ ~Own(p, e)
Out(p, e) ==
    CASE e.result # "none" /\ e.start # Null -> Result(e, "failed")
      [] e.result = "break" /\ Own(p, e) -> NoTarget(NoResult(e))
      [] OTHER -> e
Rest(e) == IF e.result = "continue" THEN NoTarget(NoResult(e)) ELSE e

DoLoop(f, p, st) ==
    LET e == Body(f, p, st)
        c == Condition(p, Rest(e))
    IN
    CASE Ends(p, e) -> Out(p, e)
      [] IsCant(c) -> c
      [] c.result = "false" -> NoResult(c)
      [] OTHER -> DoLoop(f, p, NoResult(c))

\* The condition is not evaluated on the way to a label in the body.
ForLoop(f, p, st) ==
    LET c == IF st.start = Null THEN Condition(p, st) ELSE Result(st, "true")
        e == Body(f, p, NoResult(c))
        more == Rest(e)
    IN
    CASE IsCant(c) -> c
      [] c.result = "false" -> NoResult(c)
      [] Ends(p, e) -> Out(p, e)
      [] Spent(more) -> Result(more, "cant")
      [] OTHER -> ForLoop(f, p, Took(more, p \o <<2>>))

BreakOfSwitch(p, e) ==
    IF e.result = "break" /\ Own(p, e) THEN NoTarget(NoResult(e)) ELSE e

SwitchStatementOf(f, p, st) ==
    IF st.start # Null
    THEN LET e == Body(f, p, st) IN
         IF e.start # Null \/ exceptionOrCant(e) THEN e ELSE BreakOfSwitch(p, e)
    ELSE LET c == Condition(p, st)
             scase == CaseOf(f, p \o <<1>>, IF c.result = "true" THEN "case" ELSE "default")
             e == Body(f, p, [NoResult(c) EXCEPT !.start = scase])
         IN CASE IsCant(c) -> c
              [] e.start # Null -> Result(e, "failed")
              [] OTHER -> BreakOfSwitch(p, e)

\* "This is an optimization that relies on the locality of the jump target": a
\* goto is looked for in the same statement q, with an InterState of its own,
\* before it bubbles up.
LocalGoto(f, q, e) ==
    LET x == Interpret(f, q, [NoTarget(NoResult(e)) EXCEPT !.start = e.gotoTarget]) IN
    CASE ~IsGotoExp(e) -> e
      [] x.start # Null -> e
      [] OTHER -> [x EXCEPT !.gotoTarget = Null]

TryCatchStatementOf(f, p, st) ==
    LET e == Body(f, p, st)
        handler == p \o <<2>>
    IN
    CASE st.start # Null ->
            IF e.result # "none" \/ e.start = Null THEN e ELSE Interpret(f, handler, e)
      [] e.result \in Thrown /\ Fits(At(f, p).name, e.result) ->
            LocalGoto(f, handler, Interpret(f, handler, NoResult(e)))
      [] OTHER -> e

\* "If the goto target is within the body, we must not interpret the finally
\* statement".
BodyAgain(f, p, e) ==
    LET x == Body(f, p, [NoTarget(NoResult(e)) EXCEPT !.start = e.gotoTarget]) IN
    CASE ~IsGotoExp(e) -> e
      [] x.start # Null -> e
      [] OTHER -> BodyAgain(f, p, x)

TryFinallyStatementOf(f, p, st) ==
    LET ex == BodyAgain(f, p, Body(f, p, st))
        ey == Interpret(f, p \o <<2>>, NoResult(ex))
    IN
    CASE st.start # Null -> Body(f, p, st)
      [] IsCant(ex) -> ex
      [] IsCant(ey) -> ey
      [] ey.result \in Thrown /\ ex.result \in Thrown ->
            Result(ey, chainExceptions(ex.result, ey.result))
      [] ey.result \in Thrown -> ey
      [] OTHER -> Result(ey, ex.result)

WithStatementOf(f, p, st) ==
    CASE st.start # Null -> Body(f, p, st)
      [] Spent(st) -> Result(st, "cant")
      [] OTHER -> LocalGoto(f, p \o <<1>>, Body(f, p, Took(st, p)))

Interpret(f, p, st) ==
    LET kind == At(f, p).kind
        on == Resumed(p, st)
    IN
    CASE kind = "compound" -> CompoundFrom(f, p, 1, on)
      [] kind = "unrolled" -> UnrolledFrom(f, p, 1, on)
      [] kind \in {"label", "case", "default"} -> Body(f, p, on)
      [] kind = "if" -> IfStatementOf(f, p, on)
      [] kind = "do" -> DoLoop(f, p, on)
      [] kind = "for" -> ForLoop(f, p, on)
      [] kind = "switch" -> SwitchStatementOf(f, p, on)
      [] kind = "try" -> TryCatchStatementOf(f, p, on)
      [] kind = "finally" -> TryFinallyStatementOf(f, p, on)
      [] kind = "with" -> WithStatementOf(f, p, on)
      [] OTHER -> IF on.start # Null THEN on ELSE SimpleStatement(f, p, on)

\* interpretFunction(): "Bubble up a result which is the target of the goto
\* statement, then go recursively down the AST looking for that statement, then
\* execute starting there."
Restart(f, st) ==
    LET e == Interpret(f, <<>>, st) IN
    CASE e.start # Null -> Result(e, "failed")
      [] IsGotoExp(e) -> Restart(f, [NoTarget(e) EXCEPT !.start = e.gotoTarget])
      [] e.result \in {"break", "continue"} -> Result(e, "failed")
      [] OTHER -> e

interpretFunction(f, choices) ==
    LET e == Restart(f, [start |-> Null, gotoTarget |-> Null, result |-> "none",
                         choices |-> choices, trace |-> <<>>])
    IN [how |-> e.result, trace |-> e.trace]

-----------------------------------------------------------------------------
(* What the semantic pass accepts                                          *)

\* What stands between a statement and one that it jumps to: the parts of
\* statements that the jump enters, and those that it leaves.
Entered(f, p, target) ==
    {q \in Enclosing(f, target, {"try", "finally", "with"}) :
        ~IsPrefix(SubSeq(target, 1, Len(q) + 1), p)}
EntersTry(f, p, target) ==
    \E q \in Entered(f, p, target) : At(f, q).kind # "try" \/ target[Len(q) + 1] = 1
Finals(f) == {q \o <<2>> : q \in Of(f, "finally")}
LeavesFinally(f, p, target) ==
    \E q \in Finals(f) : IsPrefix(q, p) /\ ~IsPrefix(q, target)

\* "label already defined", "cannot goto in or out of finally block", "goto
\* skips declaration of with temporary", "cannot goto into try block" and the
\* like.
JumpsOf(f) == UNION {Of(f, kind) : kind \in Jumps}
HasTarget(f, p) ==
    LET s == At(f, p)
        labelled == {q \in Of(f, "label") : At(f, q).name = s.name}
    IN
    CASE s.kind = "goto" -> labelled # {}
      [] s.kind \in {"goto case", "goto default"} -> Enclosing(f, p, {"switch"}) # {}
      [] s.name = "" -> Enclosing(f, p, Breakable(s.kind)) # {}
      [] OTHER -> \E q \in labelled : Below(p, q) /\ At(f, q \o <<1>>).kind \in Breakable(s.kind)

Legal(f) ==
    /\ \A p, q \in Of(f, "label") : At(f, p).name = At(f, q).name => p = q
    /\ \A p \in Of(f, "case") \cup Of(f, "default") : Enclosing(f, p, {"switch"}) # {}
    /\ \A p \in Of(f, "switch") : \A kind \in {"case", "default"} :
        LET cases == {q \in Of(f, kind) :
                        Below(q, p) /\ Innermost(Enclosing(f, q, {"switch"})) = p}
        IN \E q \in cases : cases = {q} /\ ~EntersTry(f, p, q)
    /\ \A p \in Of(f, "label") \cup Of(f, "case") \cup Of(f, "default") :
        Enclosing(f, p, {"unrolled"}) = {}
    /\ \A p \in JumpsOf(f) :
        HasTarget(f, p) /\ ~EntersTry(f, p, Target(f, p)) /\ ~LeavesFinally(f, p, Target(f, p))
    /\ \A p \in Of(f, "return"), q \in Finals(f) : ~IsPrefix(q, p)

-----------------------------------------------------------------------------
(* Building a function                                                     *)

Allowed(kind) == kind \in sort.language

\* "call" may throw an Exception.  "throw" throws an Error.
Starts ==
    {Stmt(kind, "", <<>>) :
        kind \in sort.language \cap {"step", "call", "return", "break", "continue",
                                     "goto case", "goto default"}}
    \cup {Stmt("throw", "Error", <<>>) : kind \in sort.language \cap {"throw"}}
    \cup {Stmt(kind, name, <<>>) :
            kind \in sort.jumps, name \in sort.labels}

Init ==
    /\ sort \in Sorts
    /\ now \in Starts
    /\ saved = <<>>
    /\ size = 1

Makes(kind, name) ==
    /\ Allowed(kind) /\ size < sort.maxSize
    /\ now' = Stmt(kind, name, <<now>>)
    /\ size' = size + 1
    /\ UNCHANGED <<saved, sort>>

\* now is put aside, and another statement is begun.
Begin ==
    /\ saved = <<>> /\ size < sort.maxSize
    /\ saved' = <<now>>
    /\ now' \in Starts
    /\ size' = size + 1
    /\ UNCHANGED sort

\* A label is defined once.
Distinct(f, g) ==
    \A p \in Of(f, "label"), q \in Of(g, "label") : At(f, p).name # At(g, q).name

MakesOfTwo(kind, Made(_, _)) ==
    /\ Allowed(kind) /\ saved # <<>> /\ Distinct(saved[1], now)
    /\ now' \in Made(saved[1], now) \cup Made(now, saved[1])
    /\ saved' = <<>>
    /\ UNCHANGED <<size, sort>>

Pair(kind, name, f, g) == {Stmt(kind, name, <<f, g>>)}

\* CompoundStatement::flatten().
\* Bound: nothing stands behind a jump unless there is a label or a case in it.
Flat(s) == IF s.kind = "compound" THEN s.parts ELSE <<s>>
EndsInJump(s) == Last(Flat(s)).kind \in Jumps \cup {"throw", "return"}
ComeFrom(s) == \E kind \in {"label", "case", "default"} : Of(s, kind) # {}
Sequence(f, g) ==
    IF EndsInJump(f) /\ ~ComeFrom(g) THEN {}
    ELSE {Stmt("compound", "", Flat(f) \o Flat(g))}

CompoundStatement == MakesOfTwo("compound", Sequence)
UnrolledLoopStatement == MakesOfTwo("unrolled", LAMBDA f, g : Pair("unrolled", "", f, g))
IfStatement == MakesOfTwo("if", LAMBDA f, g : Pair("if", "", f, g))
DoStatement == Makes("do", "")
ForStatement == Makes("for", "")
SwitchStatement == Makes("switch", "")
CaseStatement == Makes("case", "")
DefaultStatement == Makes("default", "")
LabelStatement ==
    \E name \in sort.labels :
        Distinct(now, Stmt("label", name, <<now>>)) /\ Makes("label", name)
WithStatement == Makes("with", "")
\* What becomes something else is not built: where the body cannot throw an Exception,
\* a catch clause for it is removed, and where it only falls through, the finally block
\* is put behind it.
RECURSIVE Throws(_, _)
Throws(s, thrown) ==
    \/ s.kind = "call" /\ thrown = "Exception"
    \/ s.kind = "throw" /\ thrown = s.name
    \/ \E j \in DOMAIN s.parts :
        ~(s.kind = "try" /\ j = 1 /\ Fits(s.name, thrown)) /\ Throws(s.parts[j], thrown)
FallsThrough(s) ==
    /\ \A thrown \in Thrown : ~Throws(s, thrown)
    /\ Of(s, "return") = {}
    /\ \A p \in UNION {Of(s, kind) : kind \in Jumps} :
        At(s, p).kind \in {"break", "continue"} /\ At(s, p).name = ""
            /\ Enclosing(s, p, Breakable(At(s, p).kind)) # {}

TryCatch(type, f, g) ==
    IF type = "Exception" /\ ~Throws(f, type) /\ ~ComeFrom(g) THEN {} ELSE Pair("try", type, f, g)
TryFinally(f, g) ==
    IF FallsThrough(f) THEN {} ELSE Pair("finally", "", f, g)

TryCatchStatement ==
    \E type \in {"Exception"} \cup {"Throwable" : kind \in sort.language \cap {"throw"}} :
        MakesOfTwo("try", LAMBDA f, g : TryCatch(type, f, g))
TryFinallyStatement == MakesOfTwo("finally", TryFinally)

Next ==
    \/ Begin \/ CompoundStatement \/ UnrolledLoopStatement \/ IfStatement
    \/ DoStatement \/ ForStatement \/ SwitchStatement \/ CaseStatement \/ DefaultStatement
    \/ LabelStatement \/ WithStatement \/ TryCatchStatement \/ TryFinallyStatement

Spec == Init /\ [][Next]_vars

-----------------------------------------------------------------------------
(* Properties                                                              *)

\* Constructs that the interpreter does not get right.
Gotos(f) == {p \in JumpsOf(f) : At(f, p).kind \notin {"break", "continue"}}
Named(f) == Gotos(f) \cup {p \in JumpsOf(f) : At(f, p).name # ""}
Precedes(p, q) ==
    \/ IsPrefix(p, q)
    \/ \E j \in DOMAIN p \cap DOMAIN q : SubSeq(p, 1, j - 1) = SubSeq(q, 1, j - 1) /\ p[j] < q[j]

\* A goto inside a with statement or a catch clause is completed there, but a
\* second jump on the way loses its target.
Scanned(f) == {q \o <<1>> : q \in Of(f, "with")} \cup {q \o <<2>> : q \in Of(f, "try")}
SecondJump(f) ==
    \E q \in Scanned(f), g \in Gotos(f) :
        /\ IsPrefix(q, g) /\ IsPrefix(q, Target(f, g))
        /\ \/ Precedes(Target(f, g), g)
           \/ \E p \in Named(f) \ {g} : IsPrefix(q, p)
           \/ \E p \in Enclosing(f, g, Loops) : IsPrefix(q, p)

\* A finally statement shares gotoTarget with the jump that is on its way, and
\* its own gotos are dropped.
GotoInFinally(f) == \E q \in Finals(f), g \in Gotos(f) : IsPrefix(q, g)
BreakInFinally(f) ==
    \E q \in Finals(f), p \in JumpsOf(f), g \in Named(f) :
        IsPrefix(q, p) /\ IsPrefix(Front(q) \o <<1>>, g)

\* After a goto from one place of a try body to another its catch clauses do
\* not count any more.
GotoInTry(f) ==
    \E q \in Of(f, "try"), g \in Gotos(f) :
        IsPrefix(q \o <<1>>, g) /\ IsPrefix(q \o <<1>>, Target(f, g))

Outcomes == [1..MaxChoices -> BOOLEAN]

\* A function does at compile time what its statements mean: the same simple
\* statements and conditions in the same order, and the same end.
Agrees(f) == \A choices \in Outcomes : interpretFunction(f, choices) = Meaning(f, choices)
Finished == saved = <<>> /\ Legal(now)
Interpreted ==
    Finished => \/ SecondJump(now) \/ GotoInFinally(now) \/ BreakInFinally(now) \/ GotoInTry(now)
                \/ Agrees(now)

\* "jump must not fail": start never outlives the walk, and no break or continue
\* reaches the end of the function.
Arrives ==
    Finished => \/ GotoInFinally(now)
                \/ \A choices \in Outcomes : interpretFunction(now, choices).how # "failed"
=============================================================================
