------------------------------ MODULE CtorFlow ------------------------------
(***************************************************************************)
(* The flow analysis of constructors.  While the body of a constructor is  *)
(* analysed, Scope::callSuper and Scope::fieldinit record which            *)
(* constructor calls and which field initialisations have been seen, and   *)
(* the two branches of a condition are merged (dscope.cpp).  The program   *)
(* is chosen construct by construct: a behaviour of this specification is  *)
(* the analysis of one constructor, and every constructor that fits in     *)
(* its bound is some behaviour.                                            *)
(*                                                                         *)
(* Beside the variables of the compiler, `paths' collects what the paths   *)
(* of the program do when it runs: the flags are an abstraction of that    *)
(* set, and the properties compare the two.                                *)
(***************************************************************************)
EXTENDS Naturals, Sequences, FiniteSets

CONSTANTS
    Fields,         \* the fields of the class
    Sorts,          \* the classes and constructors to choose from, see IsSort
    HasBase,        \* a base class with a constructor
    EmptyConditions, \* no condition of if or do calls a constructor or sets a field
    ExitsInLoops,   \* return and assert(0) occur in loops and switches
    DeadCode,       \* constructs occur where no path comes
    MaxDepth        \* bound: nesting

\* A class has fields whose type has no default constructor and fields that
\* are const or immutable; a constructor is made of some kinds of construct.
\* Bound: maxSteps constructs.
IsSort(s) ==
    /\ s.mustInit \subseteq Fields /\ s.unassignable \subseteq Fields
    /\ (\A n \in s.language : n \in STRING) /\ s.maxSteps \in Nat

ASSUME SortAssumption ==
    /\ \A s \in Sorts : IsSort(s)
    /\ HasBase \in BOOLEAN /\ EmptyConditions \in BOOLEAN /\ ExitsInLoops \in BOOLEAN
    /\ DeadCode \in BOOLEAN /\ MaxDepth \in Nat

VARIABLES
    callSuper,      \* Scope::callSuper, a set of CSX flags
    fieldinit,      \* Scope::fieldinit, a set of CSX flags for each field
    noctor,         \* Scope::noctor
    ctorinit,       \* the fields with VarDeclaration::ctorinit set
    errors,         \* the errors reported
    stack,          \* the locals of the activations of the visitors
    paths,          \* what the paths do in the construct being analysed
    steps,          \* constructs so far
    done,           \* FuncDeclaration's semantic3 has finished
    sort            \* the class and the constructor that is analysed

vars == <<callSuper, fieldinit, noctor, ctorinit, errors, stack, paths, steps, done, sort>>

MustInit == sort.mustInit
Unassignable == sort.unassignable

Flags == {"this", "super", "label", "return", "any", "halt"}
Calls == {"this", "super"}

(***************************************************************************)
(* What runs.  An effect is what one path does from one point to another:  *)
(* how often it calls a constructor, how often it initialises each field   *)
(* (both cut at 2), how it leaves, and whether it has passed a label, so   *)
(* that what follows may run again after a goto.                           *)
(***************************************************************************)
Ways == {"on", "return", "stopped", "goto"}

Skip == [calls |-> 0, sets |-> [f \in Fields |-> 0], out |-> "on", again |-> FALSE]

Cut(n) == IF n > 2 THEN 2 ELSE n

Then(p, q) ==
    LET times == IF p.again THEN 2 ELSE 1
    IN  IF p.out # "on" THEN p
        ELSE [calls |-> Cut(p.calls + times * q.calls),
              sets  |-> [f \in Fields |-> Cut(p.sets[f] + times * q.sets[f])],
              out   |-> q.out,
              again |-> p.again \/ q.again]

Chain(P, Q) == {Then(p, q) : p \in P, q \in Q}

Leave(P, way) == Chain(P, {[Skip EXCEPT !.out = way]})

\* A label collects the gotos of its own block and of the blocks inside.
AtLabel(P) ==
    {IF p.out \in {"on", "goto"} THEN [p EXCEPT !.out = "on", !.again = TRUE] ELSE p : p \in P}

-----------------------------------------------------------------------------
(***************************************************************************)
(* Merging two paths.                                                      *)
(***************************************************************************)
Called(cs) == cs \cap Calls # {}

Halted(cs) == "halt" \in cs
Returned(cs) == "return" \in cs

Kept(cs) == cs \cap {"any", "label"}

\* One branch has returned without a constructor call, the other has called one.
Skips(a, b) ==
    /\ ~Halted(a) /\ Returned(a) /\ "any" \notin a
    /\ "any" \in b

\* What the last case of mergeCallSuper() makes of two branches that both go
\* on, or both have returned without a call.
BothGoOn(b, a) ==
    LET ok == Called(a) = Called(b)
    IN  [cs |-> b \cup Kept(a) \cup {r \in {"return"} : ok /\ r \in a /\ "any" \notin a},
         ok |-> ok]

(* Fault: a return without a call is not remembered after the branches. *)
ReturnForgotten(b, a) ==
    IF Skips(a, b) \/ Skips(b, a) THEN [cs |-> b, ok |-> FALSE]
    ELSE IF Returned(b) THEN [cs |-> a \cup Kept(b), ok |-> TRUE]
    ELSE [cs |-> b \cup Kept(a), ok |-> Returned(a) \/ Called(a) = Called(b)]

(* Fault: a branch that has returned must have called as the other has. *)
NoBranchReturns(b, a) == BothGoOn(b, a)

\* Scope::mergeCallSuper(): b is callSuper, a is the argument.
MergedCalls(b, a) ==
    IF a = b THEN [cs |-> b, ok |-> TRUE]
    ELSE IF Halted(a) /\ Halted(b) THEN [cs |-> {"halt"}, ok |-> TRUE]
    ELSE IF Skips(a, b) \/ Skips(b, a) THEN [cs |-> b, ok |-> FALSE]
    ELSE IF Halted(a) \/ (Returned(a) /\ Called(a)) THEN [cs |-> b \cup Kept(a), ok |-> TRUE]
    ELSE IF Halted(b) \/ (Returned(b) /\ Called(b)) THEN [cs |-> a \cup Kept(b), ok |-> TRUE]
    ELSE BothGoOn(b, a)

(* Fault: initialised on one of the branches is initialised. *)
EitherInitializes(a, b) == [fi |-> a \cup b, ok |-> TRUE]

(* Fault: a branch that has returned is merged as if it went on. *)
NoFieldReturns(a, b) == [fi |-> a \cup b, ok |-> ("this" \in a) = ("this" \in b)]

\* mergeFieldInit(): the flags of one field; the branch that goes on wins.
MergedField(a, b) ==
    IF a = b THEN [fi |-> a, ok |-> TRUE]
    ELSE IF Halted(a) /\ Halted(b) THEN [fi |-> {"halt"}, ok |-> TRUE]
    ELSE IF ~Halted(b) /\ Returned(b) THEN [fi |-> a, ok |-> "this" \in b]
    ELSE IF ~Halted(a) /\ Returned(a) THEN [fi |-> b, ok |-> "this" \in a]
    ELSE IF Halted(b) THEN [fi |-> a, ok |-> "this" \in a]
    ELSE IF Halted(a) THEN [fi |-> b, ok |-> "this" \in b]
    ELSE [fi |-> a \cup b, ok |-> ("this" \in a) = ("this" \in b)]


\* Scope::mergeFieldInit(): fi is fieldinit, fies the argument.
MergedFields(fi, fies) == [f \in Fields |-> MergedField(fi[f], fies[f]).fi]

SkippedFields(fi, fies) == {f \in MustInit : ~MergedField(fi[f], fies[f]).ok}

\* Scope::pop(): what was seen in a scope has been seen in the enclosing one.
Popped(cs, inner) == cs \cup inner
PoppedFields(fi, inner) == [f \in Fields |-> fi[f] \cup inner[f]]

MarkFields(fi, flag) == [f \in Fields |-> fi[f] \cup {flag}]

-----------------------------------------------------------------------------
(***************************************************************************)
(* The activations.  A frame is a construct whose parts are being          *)
(* analysed: `cs' and `fi' are the flags saved when it was entered, `cs1'  *)
(* and `fi1' those of the part that is finished; `before' is what runs     *)
(* before the construct, `first' and `second' what its finished parts do.  *)
(***************************************************************************)
Expressions == {"condition", "declared", "left", "right", "operand", "until"}
Loops == {"loop", "switch", "do"}
Kinds == Expressions \cup Loops \cup {"then", "else", "block", "label"}

Top == stack[Len(stack)]
Outer == SubSeq(stack, 1, Len(stack) - 1)
Inside(kind) == stack # <<>> /\ Top.kind = kind

\* Only expressions are in expressions.
InExpression == stack # <<>> /\ Top.kind \in Expressions

Frame(kind) ==
    [kind |-> kind, cs |-> callSuper, fi |-> fieldinit,
     cs1 |-> callSuper, fi1 |-> fieldinit,
     before |-> paths, first |-> {Skip}, second |-> {Skip}]

Init ==
    /\ callSuper = {}
    /\ fieldinit = [f \in Fields |-> {}]
    /\ noctor = 0
    /\ ctorinit = {}
    /\ errors = {}
    /\ stack = <<>>
    /\ paths = {Skip}
    /\ steps = 0
    /\ done = FALSE
    /\ sort \in Sorts

\* Some path goes on: what blockexit finds out at the end of the constructor.
FallsThrough == \E p \in paths : p.out = "on"

\* A constructor call or an assignment may stand here.
Effective ==
    EmptyConditions => \A i \in DOMAIN stack : stack[i].kind \notin {"condition", "declared", "until"}

\* A return or an assert(0) may stand here.
Exitable == noctor > 0 => ExitsInLoops

\* One more construct of the program, if the language of the run has it.
Construct(name) ==
    /\ ~done /\ steps < sort.maxSteps
    /\ name \in sort.language
    /\ DeadCode \/ FallsThrough
    /\ steps' = steps + 1
    /\ UNCHANGED <<done, sort>>

Enter(frame) ==
    /\ Len(stack) < MaxDepth
    /\ stack' = Append(stack, frame)
    /\ paths' = {Skip}

Unchecked == UNCHANGED <<ctorinit, errors>>

\* Parts of constructs that are already counted.
Continue == ~done /\ UNCHANGED <<steps, done, sort>>
-----------------------------------------------------------------------------
(***************************************************************************)
(* Expressions and statements without parts.                               *)
(***************************************************************************)
When(condition, error) == IF condition THEN {error} ELSE {}

CallErrors ==
    When(noctor > 0 \/ "label" \in callSuper, "call in loop or after label")
        \cup When(Called(callSuper), "multiple constructor calls")
        \cup When("return" \in callSuper /\ "any" \notin callSuper, "return skips constructor")

\* visit(CallExp): this(...) or super(...).
Call(c) ==
    /\ Construct(c) /\ Effective
    /\ c = "super" => HasBase
    /\ fieldinit' = IF c = "this" THEN MarkFields(fieldinit, "this") ELSE fieldinit
    /\ IF Halted(callSuper)
       THEN UNCHANGED <<callSuper, errors>>
       ELSE /\ errors' = errors \cup CallErrors
            /\ callSuper' = callSuper \cup {"any", c}
    /\ paths' = Chain(paths, {[Skip EXCEPT !.calls = 1,
                                           !.sets = [f \in Fields |-> IF c = "this" THEN 1 ELSE 0]]})
    /\ UNCHANGED <<noctor, ctorinit, stack>>

AssignErrors(f) ==
    IF "this" \in fieldinit[f]
    THEN When(f \in Unassignable, "field initialized multiple times")
    ELSE When((noctor > 0 \/ "label" \in fieldinit[f]) /\ f \in Unassignable \cup MustInit,
              "field in loop or after label")

\* modifyFieldVar(): an assignment to a field of `this'.
Assign(f) ==
    /\ Construct("assign") /\ Effective
    /\ errors' = errors \cup AssignErrors(f)
    /\ fieldinit' = [fieldinit EXCEPT ![f] = @ \cup {"this"}]
    /\ ctorinit' = ctorinit \cup {f}
    /\ paths' = Chain(paths, {[Skip EXCEPT !.sets[f] = 1]})
    /\ UNCHANGED <<callSuper, noctor, stack>>

ReturnErrors(cs) == When("any" \in cs /\ ~Called(cs), "return without calling constructor")

Return ==
    /\ Construct("return") /\ ~InExpression /\ Exitable
    /\ errors' = errors \cup ReturnErrors(callSuper)
                        \cup When(\E f \in MustInit : "this" \notin fieldinit[f], "return skips field")
    /\ callSuper' = callSuper \cup {"return"}
    /\ fieldinit' = MarkFields(fieldinit, "return")
    /\ paths' = Leave(paths, "return")
    /\ UNCHANGED <<noctor, ctorinit, stack>>

\* assert(0).
Halt ==
    /\ Construct("halt") /\ Exitable
    /\ callSuper' = callSuper \cup {"halt"}
    /\ fieldinit' = MarkFields(fieldinit, "halt")
    /\ paths' = Leave(paths, "stopped")
    /\ UNCHANGED <<noctor, ctorinit, errors, stack>>

\* A throw and a goto leave no mark in the flags.
Throw ==
    /\ Construct("throw") /\ ~InExpression
    /\ paths' = Leave(paths, "stopped")
    /\ UNCHANGED <<callSuper, fieldinit, noctor, ctorinit, errors, stack>>

Goto ==
    /\ Construct("goto") /\ ~InExpression
    /\ paths' = Leave(paths, "goto")
    /\ UNCHANGED <<callSuper, fieldinit, noctor, ctorinit, errors, stack>>

-----------------------------------------------------------------------------
(***************************************************************************)
(* if (condition) ... else ...  The flags to start the else branch with    *)
(* are saved before the condition.  The scope scd of the then branch is    *)
(* pushed before it too: a condition that declares a variable is analysed  *)
(* in scd, any other in sc.                                                *)
(***************************************************************************)
BeginIf(kind) ==
    /\ Construct(kind) /\ ~InExpression
    /\ Enter(Frame(IF kind = "if" THEN "condition" ELSE "declared"))
    /\ UNCHANGED <<callSuper, fieldinit, noctor>> /\ Unchecked

\* cs1 and fi1 are now the flags of sc; those of scd are in callSuper, fieldinit.
BeginThen ==
    /\ Continue
    /\ \/ /\ Inside("condition")
          /\ stack' = Append(Outer, [Top EXCEPT !.kind = "then", !.first = paths,
                                                !.cs1 = callSuper, !.fi1 = fieldinit])
          /\ callSuper' = Top.cs /\ fieldinit' = Top.fi
       \/ /\ Inside("declared")
          /\ stack' = Append(Outer, [Top EXCEPT !.kind = "then", !.first = paths])
          /\ UNCHANGED <<callSuper, fieldinit>>
    /\ paths' = {Skip}
    /\ UNCHANGED noctor /\ Unchecked

\* scd->pop(), and the other branch from the saved flags.
BeginElse ==
    /\ Continue /\ Inside("then")
    /\ stack' = Append(Outer, [Top EXCEPT !.kind = "else",
                                          !.cs1 = Popped(Top.cs1, callSuper),
                                          !.fi1 = PoppedFields(Top.fi1, fieldinit),
                                          !.second = Chain(Top.first, paths)])
    /\ callSuper' = Top.cs /\ fieldinit' = Top.fi
    /\ paths' = {Skip}
    /\ UNCHANGED noctor /\ Unchecked

\* mergeCallSuper(cs1) and mergeFieldInit(fi1) into the flags of sc.
Merge(cs, fi) ==
    /\ callSuper' = MergedCalls(cs, Top.cs1).cs
    /\ fieldinit' = MergedFields(fi, Top.fi1)
    /\ errors' = errors \cup When(~MergedCalls(cs, Top.cs1).ok, "one path skips constructor")
                        \cup When(SkippedFields(fi, Top.fi1) # {}, "one path skips field")

EndIf ==
    /\ Continue /\ Inside("else")
    /\ Merge(Popped(Top.cs, callSuper), PoppedFields(Top.fi, fieldinit))
    /\ paths' = Chain(Top.before, Top.second \cup Chain(Top.first, paths))
    /\ stack' = Outer
    /\ UNCHANGED <<noctor, ctorinit>>

\* condition ? left : right.  The condition has been analysed before.
BeginLeft ==
    /\ Construct("?:")
    /\ Enter(Frame("left"))
    /\ UNCHANGED <<callSuper, fieldinit, noctor>> /\ Unchecked

BeginRight ==
    /\ Continue /\ Inside("left")
    /\ stack' = Append(Outer, [Top EXCEPT !.kind = "right", !.second = paths,
                                          !.cs1 = callSuper, !.fi1 = fieldinit])
    /\ callSuper' = Top.cs /\ fieldinit' = Top.fi
    /\ paths' = {Skip}
    /\ UNCHANGED noctor /\ Unchecked

EndConditional ==
    /\ Continue /\ Inside("right")
    /\ Merge(callSuper, fieldinit)
    /\ paths' = Chain(Top.before, Top.second \cup paths)
    /\ stack' = Outer
    /\ UNCHANGED <<noctor, ctorinit>>

\* The second operand of && or ||; its first has been analysed before.
BeginOperand ==
    /\ Construct("&&")
    /\ Enter(Frame("operand"))
    /\ UNCHANGED <<callSuper, fieldinit, noctor>> /\ Unchecked

\* Only callSuper is merged.
EndLogical ==
    /\ Continue /\ Inside("operand")
    /\ callSuper' = MergedCalls(callSuper, Top.cs).cs
    /\ errors' = errors \cup When(~MergedCalls(callSuper, Top.cs).ok, "one path skips constructor")
    /\ paths' = Chain(Top.before, {Skip} \cup paths)
    /\ stack' = Outer
    /\ UNCHANGED <<fieldinit, noctor, ctorinit>>

-----------------------------------------------------------------------------
(***************************************************************************)
(* Blocks, labels and loops: a scope is pushed, and popped at the end.     *)
(***************************************************************************)
PopScope ==
    /\ callSuper' = Popped(Top.cs, callSuper)
    /\ fieldinit' = PoppedFields(Top.fi, fieldinit)

BeginBlock ==
    /\ Construct("block") /\ ~InExpression
    /\ Enter(Frame("block"))
    /\ UNCHANGED <<callSuper, fieldinit, noctor>> /\ Unchecked

\* A labelled statement.
BeginLabel ==
    /\ Construct("label") /\ ~InExpression
    /\ Enter([Frame("label") EXCEPT !.before = AtLabel(paths)])
    /\ callSuper' = callSuper \cup {"label"}
    /\ fieldinit' = MarkFields(fieldinit, "label")
    /\ UNCHANGED noctor /\ Unchecked

EndBlock ==
    /\ Continue
    /\ Inside("block") \/ Inside("label")
    /\ PopScope
    /\ paths' = Chain(Top.before, paths)
    /\ stack' = Outer
    /\ UNCHANGED noctor /\ Unchecked

\* for, while and foreach; switch; do.  Their conditions are part of the
\* body, but for that of do, which comes after noctor has been decreased.
BeginLoop(kind) ==
    /\ Construct(kind) /\ ~InExpression
    /\ Enter(Frame(kind))
    /\ noctor' = noctor + 1
    /\ UNCHANGED <<callSuper, fieldinit>> /\ Unchecked

\* How often the parts are run.
Runs(kind, P) ==
    CASE kind = "loop"   -> {Skip} \cup P \cup Chain(P, P)
      [] kind = "switch" -> {Skip} \cup P
      [] kind = "until"  -> P \cup Chain(P, P)

(* Fault: noctor is not decreased. *)
EndLoopOpen ==
    /\ Continue
    /\ Inside("loop") \/ Inside("switch")
    /\ PopScope
    /\ paths' = Chain(Top.before, Runs(Top.kind, paths))
    /\ stack' = Outer
    /\ UNCHANGED noctor /\ Unchecked

EndLoop ==
    /\ Continue
    /\ Inside("loop") \/ Inside("switch")
    /\ PopScope
    /\ noctor' = noctor - 1
    /\ paths' = Chain(Top.before, Runs(Top.kind, paths))
    /\ stack' = Outer
    /\ Unchecked

BeginUntil ==
    /\ Continue /\ Inside("do")
    /\ PopScope
    /\ noctor' = noctor - 1
    /\ stack' = Append(Outer, [Top EXCEPT !.kind = "until"])
    /\ UNCHANGED paths /\ Unchecked

EndDo ==
    /\ Continue /\ Inside("until")
    /\ paths' = Chain(Top.before, Runs(Top.kind, paths))
    /\ stack' = Outer
    /\ UNCHANGED <<callSuper, fieldinit, noctor>> /\ Unchecked

-----------------------------------------------------------------------------
(***************************************************************************)
(* The end of the constructor, in FuncDeclaration's semantic3.             *)
(***************************************************************************)
UninitializedFields ==
    {f \in MustInit : f \notin ctorinit \/ "this" \notin fieldinit[f]}

\* Nothing has called a constructor: super() is inserted before the body.
ImplicitSuper == HasBase /\ "any" \notin callSuper

Finish ==
    /\ ~done /\ stack = <<>>
    /\ LET cs == IF ImplicitSuper THEN {"any", "super"} ELSE callSuper
       IN  /\ callSuper' = IF FallsThrough THEN cs \cup {"return"} ELSE cs
           /\ errors' = errors
                \cup When("this" \notin callSuper /\ UninitializedFields # {}, "field skipped")
                \cup (IF FallsThrough THEN ReturnErrors(cs) ELSE {})
    /\ paths' = IF ImplicitSuper THEN Chain({[Skip EXCEPT !.calls = 1]}, paths) ELSE paths
    /\ done' = TRUE
    /\ UNCHANGED <<fieldinit, noctor, ctorinit, stack, steps, sort>>

Next ==
    \/ \E c \in Calls : Call(c)
    \/ \E f \in Fields : Assign(f)
    \/ Return \/ Halt \/ Throw \/ Goto
    \/ \E kind \in {"if", "if declared"} : BeginIf(kind)
    \/ BeginThen \/ BeginElse \/ EndIf
    \/ BeginLeft \/ BeginRight \/ EndConditional
    \/ BeginOperand \/ EndLogical
    \/ BeginBlock \/ BeginLabel \/ EndBlock
    \/ \E kind \in Loops : BeginLoop(kind)
    \/ EndLoop \/ BeginUntil \/ EndDo
    \/ Finish

Spec == Init /\ [][Next]_vars

-----------------------------------------------------------------------------
Effect == [calls : 0..2, sets : [Fields -> 0..2], out : Ways, again : BOOLEAN]

\* Types; noctor counts the loops that are open, so none is left at the end.
TypeOK ==
    /\ callSuper \subseteq Flags
    /\ fieldinit \in [Fields -> SUBSET Flags]
    /\ ctorinit \subseteq Fields
    /\ noctor = Cardinality({i \in DOMAIN stack : stack[i].kind \in Loops})
    /\ \A i \in DOMAIN stack : stack[i].kind \in Kinds
    /\ paths # {} /\ \A p \in paths : p \in Effect

Accepted == done /\ errors = {}

Completes(p) == p.out \in {"on", "return"}

Without(names) == sort.language \cap names = {}

\* In a constructor that is accepted, no path calls a constructor twice.  (That
\* a path has called and returned, or gone on behind a label, is forgotten when
\* both branches of a condition end in assert(0): super() is inserted then.)
ConstructedAtMostOnce ==
    Accepted /\ (Without({"halt"}) \/ Without({"return", "goto"})) =>
        \A p \in paths : Completes(p) => p.calls <= 1

\* In a constructor of a class with a base that is accepted, no path comes to
\* the end or to a return without having called a constructor.  (A goto may
\* pass over the call, and a return is forgotten before assert(0).)
ConstructedAtLeastOnce ==
    Accepted /\ HasBase /\ Without({"goto", "halt"}) =>
        \A p \in paths : Completes(p) => p.calls >= 1

\* Every path of an accepted constructor constructs the base class once.
ConstructedOnce == ConstructedAtMostOnce /\ ConstructedAtLeastOnce

\* A field without a default constructor is initialised on every path that
\* completes, in a constructor that is accepted.  (A call of another constructor
\* on one path answers for all, what && has done is not merged, and a goto may
\* pass over the assignment.)
FieldsInitialized ==
    Accepted /\ Without({"this", "&&", "goto"}) =>
        \A p \in paths, f \in MustInit : Completes(p) => p.sets[f] >= 1

\* A const or immutable field is initialised once at most on every path.  (The
\* constructor that is called does it again, and && assert(0) makes a path that
\* goes on look like one that has ended.)
InitializedAtMostOnce ==
    Accepted /\ Without({"this", "&&"}) =>
        \A p \in paths, f \in Unassignable : Completes(p) => p.sets[f] <= 1

\* Every path of an accepted constructor initialises the fields that need it.
InitializedOnce == FieldsInitialized /\ InitializedAtMostOnce

\* A constructor without exceptions and goto is rejected for its calls only if
\* some path calls twice, or some path completes without a call although another
\* calls one, whatever loops and labels there are.  (A branch that throws or jumps
\* is compared as if it went on, and what precedes assert(0) never completes.)
CallComplaints ==
    {"multiple constructor calls", "return skips constructor",
     "return without calling constructor", "one path skips constructor"}
CallRejectionsJustified ==
    done /\ errors \cap CallComplaints # {} /\ Without({"throw", "halt", "goto"}) =>
        \/ \E p \in paths : p.calls > 1
        \/ \E p, q \in paths : Completes(p) /\ p.calls = 0 /\ q.calls > 0

\* The same for its fields: they are not initialised as often as they have to be.
\* (In a switch too an assignment counts as one in a loop, but is made once.)
FieldComplaints ==
    {"field initialized multiple times", "field in loop or after label",
     "one path skips field", "return skips field", "field skipped"}
FieldRejectionsJustified ==
    done /\ errors \cap FieldComplaints # {} /\ Without({"switch", "throw", "halt", "goto"}) =>
        \/ \E p \in paths, f \in Unassignable : p.sets[f] > 1
        \/ \E p \in paths, f \in MustInit : Completes(p) /\ p.sets[f] # 1
=============================================================================
