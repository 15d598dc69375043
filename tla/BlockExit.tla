------------------------------ MODULE BlockExit ------------------------------
(***************************************************************************)
(* How a statement exits.  blockExit() computes a set of flags from the    *)
(* flags of a statement's parts; the compiler relies on them to demand a   *)
(* return at the end of a function, to accept or infer nothrow, to drop    *)
(* catch clauses and to turn try-finally into a sequence.                  *)
(*                                                                         *)
(* A behaviour of this specification builds one statement bottom-up, out   *)
(* of simple statements.  Beside what the compiler knows of it, a          *)
(* statement has `from': the ways in which control really leaves it,       *)
(* after it has been entered at its top, at a case or at a label, when     *)
(* every condition that is not constant can be true or false.              *)
(***************************************************************************)
EXTENDS Naturals, Sequences, FiniteSets

CONSTANTS
    Sorts           \* the statements to build: kinds of statement and their number

\* Bound: maxSize simple statements and constructs.
IsSort(k) == (\A n \in k.language : n \in STRING) /\ k.maxSize \in Nat \ {0}

ASSUME SortAssumption == \A k \in Sorts : IsSort(k)

VARIABLES
    now,            \* the statement that is being built
    saved,          \* another one, to be combined with it, or none
    size,           \* simple statements and constructs so far
    sort            \* what this behaviour builds

vars == <<now, saved, size, sort>>

-----------------------------------------------------------------------------
(* Statements                                                              *)

\* The flags BE.  BEnone is the empty set.
BE == {"fallthru", "throw", "return", "goto", "halt", "break", "continue", "errthrow"}

\* The ways out.  Of what is thrown, "throw" is an Exception, "errthrow" an
\* Error and "throwable" neither.  Gotos are told apart by where they lead:
\* to the label ("goto"), to a case, or with break and continue to the
\* labelled loop.
Gotos == {"goto", "goto case", "break label", "continue label"}
Thrown == {"throw", "throwable", "errthrow"}
Ways == {"fallthru", "return", "halt", "break", "continue"} \cup Gotos \cup Thrown

FlagOf(way) ==
    CASE way \in Gotos -> "goto" [] way = "throwable" -> "throw" [] OTHER -> way

Entries == {"top", "case", "label"}
Only(ways) == [e \in Entries |-> IF e = "top" THEN ways ELSE {}]

\* What there is to know of a statement: the flags, whether blockExit() with
\* mustNotThrow reports something, comeFrom(), hasCode(), last(), and the jumps
\* in it that lead out of it.  messages are what blockExit() has to say of the
\* code in it, facts what it could rightly say; gaps are the constructs in it
\* that blockExit() does not understand, see Covered.
Simple(flags, ways, jumps) ==
    [exits |-> flags, throws |-> "throw" \in flags, comeFrom |-> FALSE, hasCode |-> TRUE,
     last |-> "other", isCase |-> FALSE, default |-> FALSE, label |-> FALSE, jumps |-> jumps,
     messages |-> {}, facts |-> {}, gaps |-> {}, from |-> Only(ways)]

Empty == [Simple({"fallthru"}, {"fallthru"}, {}) EXCEPT !.hasCode = FALSE]

\* The simple statements.  A call that is not nothrow may throw an Exception;
\* what a throw throws is known by its static type.
Jump(way) == Simple({FlagOf(way)}, {way}, {way})
Simples ==
    [empty |-> Empty,
     nothrow |-> Simple({"fallthru"}, {"fallthru"}, {}),
     call |-> Simple({"fallthru", "throw"}, {"fallthru", "throw"}, {}),
     noreturn |-> Simple({"halt", "throw"}, {"halt", "throw"}, {}),
     halt |-> Simple({"halt"}, {"halt"}, {}),
     return |-> Simple({"return"}, {"return"}, {"return"}),
     returnCall |-> Simple({"return", "throw"}, {"return", "throw"}, {"return"}),
     throwException |-> Simple({"throw"}, {"throw"}, {}),
     throwThrowable |-> Simple({"throw"}, {"throwable"}, {}),
     throwError |-> Simple({"errthrow"}, {"errthrow"}, {}),
     goto |-> Jump("goto"), gotoCase |-> Jump("goto case"),
     break |-> Jump("break"), continue |-> Jump("continue"),
     breakLabel |-> Jump("break label"), continueLabel |-> Jump("continue label")]

\* What is common to a construct of two statements.
Joined(a, b) ==
    [a EXCEPT !.throws = a.throws \/ b.throws, !.comeFrom = a.comeFrom \/ b.comeFrom,
              !.hasCode = TRUE, !.last = "other", !.isCase = FALSE,
              !.default = a.default \/ b.default, !.label = a.label \/ b.label, !.jumps = a.jumps \cup b.jumps,
              !.messages = a.messages \cup b.messages, !.facts = a.facts \cup b.facts,
              !.gaps = a.gaps \cup b.gaps]

\* One statement after the other, as sets of ways.
Then(first, second) ==
    IF "fallthru" \in first THEN (first \ {"fallthru"}) \cup second ELSE first

If(condition, set) == IF condition THEN set ELSE {}

-----------------------------------------------------------------------------
(* CompoundStatement                                                       *)

\* Fault: a label in the second statement is not looked for.
SkipsLabels(a, b) == "fallthru" \notin a.exits

Skips(a, b) == "fallthru" \notin a.exits /\ ~b.comeFrom

CompoundExits(a, b) ==
    IF Skips(a, b) THEN a.exits ELSE (a.exits \ {"fallthru"}) \cup b.exits

\* "switch case fallthrough" and "statement is not reachable".
CaseAfter(a, b) == a.last = "case" /\ b.isCase
CompoundMessages(a, b) ==
    If(CaseAfter(a, b) /\ "fallthru" \in a.exits, {"case fallthrough"})
    \cup If(Skips(a, b) /\ b.exits # {"halt"} /\ b.hasCode, {"not reachable"})
GoesOn(a) == \E e \in Entries : "fallthru" \in a.from[e]
CompoundFacts(a, b) ==
    If(~GoesOn(a) /\ ~b.comeFrom, {"not reachable"})

Compound(a, b) ==
    [Joined(a, b) EXCEPT
        !.exits = CompoundExits(a, b),
        !.hasCode = a.hasCode \/ b.hasCode,
        !.last = b.last, !.isCase = FALSE,
        !.messages = @ \cup CompoundMessages(a, b),
        !.facts = @ \cup CompoundFacts(a, b),
        !.from = [e \in Entries |->
            Then(a.from[e], b.from.top) \cup If(e # "top", b.from[e])]]

\* A ScopeStatement hides what is last in it.
Block(s) == [s EXCEPT !.last = "other", !.isCase = FALSE]

-----------------------------------------------------------------------------
(* Conditions and loops                                                    *)

Conditions == {"unknown", "throws", "true", "false"}

Throws(cond) == If(cond = "throws", {"throw"})
CanBe(cond, value) == cond \in {"unknown", "throws", value}

Branches(cond, a, b) == If(CanBe(cond, "true"), a) \cup If(CanBe(cond, "false"), b)

IfElse(cond, a, b) ==
    [Joined(a, b) EXCEPT
        !.exits = Throws(cond) \cup Branches(cond, a.exits, b.exits),
        !.throws = \/ cond = "throws"
                   \/ CanBe(cond, "true") /\ a.throws
                   \/ CanBe(cond, "false") /\ b.throws,
        !.messages = Branches(cond, a.messages, b.messages),
        !.gaps = @ \cup If((~CanBe(cond, "true") /\ a.comeFrom)
                             \/ (~CanBe(cond, "false") /\ b.comeFrom),
                           {"label where a constant condition does not lead"}),
        !.from = [e \in Entries |->
            IF e = "top" THEN Throws(cond) \cup Branches(cond, a.from.top, b.from.top)
            ELSE a.from[e] \cup b.from[e]]]

\* A loop takes up its own breaks and continues, and those with its label.
Own(way, labelled) ==
    {way} \cup If(labelled /\ way = "break", {"break label"})
          \cup If(labelled /\ way = "continue", {"continue label"})
Again(ways, labelled) ==
    ways \cap ({"fallthru"} \cup Own("continue", labelled)) # {}
Leaves(ways, labelled) ==
    (ways \ ({"fallthru"} \cup Own("continue", labelled) \cup Own("break", labelled)))
    \cup If(ways \cap Own("break", labelled) # {}, {"fallthru"})

\* From the body to the condition, and from there round again or out.
Rounds(ways, top, cond, step, labelled) ==
    LET all == ways \cup If(Again(ways, labelled) /\ CanBe(cond, "true"), top) IN
    Leaves(all, labelled)
    \cup If(Again(all, labelled),
            Throws(cond) \cup Throws(step) \cup If(CanBe(cond, "false"), {"fallthru"}))

\* What a loop makes of its body.
Loop(body, labelled) ==
    [body EXCEPT
        !.hasCode = TRUE, !.last = "other", !.isCase = FALSE,
        !.comeFrom = @ \/ labelled, !.label = @ \/ labelled,
        !.jumps = @ \ (Own("break", labelled) \cup Own("continue", labelled))]

\* LabelStatement: "if (s->breaks) result |= BEfallthru".
Breaks(body, labelled) == If(labelled /\ "break label" \in body.jumps, {"fallthru"})

DoExits(body, cond) ==
    LET more == body \cup If("continue" \in body, {"fallthru"})
        more2 == more \cup If("fallthru" \in more, Throws(cond)) IN
    IF body = {"break"} THEN {"fallthru"}
    ELSE more2 \ ({"break", "continue"}
                    \cup If("break" \notin body /\ cond = "true", {"fallthru"}))

\* The condition is looked at only if blockExit() thinks that it is reached.
Do(body, cond, labelled) ==
    LET on == {"fallthru", "continue"} \cap body.exits # {} IN
    [Loop(body, labelled) EXCEPT
        !.exits = DoExits(body.exits, cond) \cup Breaks(body, labelled),
        !.throws = @ \/ (on /\ cond = "throws"),
        !.gaps = @ \cup If(~on /\ "break" \in body.exits /\ body.exits # {"break"},
                           {"break out of do"})
                   \cup If(~on /\ labelled /\ "continue label" \in body.jumps,
                           {"labelled continue in do"}),
        !.from = [e \in Entries |->
            LET start == IF e = "label" /\ labelled THEN "top" ELSE e IN
            Rounds(body.from[start], body.from.top, cond, "unknown", labelled)]]

ForExits(body, cond, increment) ==
    LET before == Throws(cond) \cup If(CanBe(cond, "false"), {"fallthru"}) IN
    IF cond = "false" THEN before
    ELSE before
         \cup If(body \cap {"break", "goto"} # {}, {"fallthru"})
         \cup (body \ {"fallthru", "break", "continue"})
         \cup Throws(increment)

For(body, cond, increment, labelled) ==
    [Loop(body, labelled) EXCEPT
        !.exits = ForExits(body.exits, cond, increment) \cup Breaks(body, labelled),
        !.throws = \/ cond = "throws"
                   \/ cond # "false" /\ (body.throws \/ increment = "throws"),
        !.messages = If(cond # "false", @),
        !.gaps = @ \cup If(cond = "false" /\ body.comeFrom,
                           {"label where a constant condition does not lead"}),
        !.from = [e \in Entries |->
            IF e = "top" \/ (e = "label" /\ labelled)
            THEN Throws(cond) \cup If(CanBe(cond, "false"), {"fallthru"})
                 \cup If(CanBe(cond, "true"),
                         Rounds(body.from.top, body.from.top, cond, increment, labelled))
            ELSE Rounds(body.from[e], body.from.top, cond, increment, labelled)]]

\* A foreach over a tuple: its body once for each element.
\* Fault: one iteration that goes on is enough.
UnrolledExitsOfAny(a, b) ==
    ((a \cup b) \ {"break", "continue", "fallthru"})
    \cup If((a \cup b) \cap {"fallthru", "continue", "break"} # {}, {"fallthru"})

UnrolledExits(a, b) ==
    LET Stays(r) == r \cap {"fallthru", "continue", "break"} # {} IN
    ((a \cup b) \ {"break", "continue", "fallthru"})
    \cup If(Stays(a) /\ Stays(b), {"fallthru"})

Unrolled(a, b) ==
    LET On(ways) == ways \cap {"fallthru", "continue"} # {}
        all == a.from.top \cup If(On(a.from.top), b.from.top) IN
    [Joined(a, b) EXCEPT
        !.exits = UnrolledExits(a.exits, b.exits),
        !.jumps = @ \ {"break", "continue"},
        !.gaps = @ \cup If("break" \in a.exits
                             /\ b.exits \cap {"fallthru", "continue", "break"} = {},
                           {"break in foreach over a tuple"}),
        !.from = Only((all \ {"fallthru", "break", "continue"})
                      \cup If(\/ "break" \in all
                              \/ On(a.from.top) /\ On(b.from.top), {"fallthru"}))]

-----------------------------------------------------------------------------
(* Labels and switch                                                       *)

Label(s) ==
    [s EXCEPT !.comeFrom = TRUE, !.label = TRUE, !.hasCode = TRUE,
              !.last = "other", !.isCase = FALSE,
              !.from["label"] = s.from.top]

\* CaseStatement and DefaultStatement.
Case(s, isDefault) ==
    [s EXCEPT !.comeFrom = TRUE, !.last = IF s.hasCode THEN "case" ELSE "empty case",
              !.isCase = TRUE, !.default = @ \/ isDefault,
              !.from["case"] = @ \cup s.from.top]

\* visit(SwitchStatement) of the semantic pass gives a final switch a default.
SwitchError == Case(Simples.halt, TRUE)
WithDefault(body) ==
    IF body.default THEN body
    ELSE Compound(IF "fallthru" \in body.exits THEN Compound(body, Simples.break) ELSE body,
                  SwitchError)

SwitchExits(body, cond) ==
    LET all == Throws(cond) \cup body IN
    (all \ {"break"}) \cup If("break" \in all, {"fallthru"})

Switch(s, cond) ==
    LET body == WithDefault(s)
        Out(ways) == (ways \ {"break", "goto case"}) \cup If("break" \in ways, {"fallthru"})
    IN
    [body EXCEPT
        !.exits = SwitchExits(body.exits, cond),
        !.throws = @ \/ cond = "throws",
        !.hasCode = TRUE, !.last = "other", !.isCase = FALSE, !.default = FALSE,
        !.jumps = @ \ {"break", "goto case"},
        !.from = [e \in Entries |->
            CASE e = "top" -> Throws(cond) \cup Out(body.from["case"])
              [] e = "case" -> {}
              [] OTHER -> Out(body.from[e]
                              \cup If("goto case" \in body.from[e], body.from["case"]))]]

With(body, cond) ==
    [body EXCEPT
        !.exits = Throws(cond) \cup @, !.throws = @ \/ cond = "throws",
        !.hasCode = TRUE, !.last = "other", !.isCase = FALSE,
        !.from["top"] = Throws(cond) \cup @]

-----------------------------------------------------------------------------
(* Try statements                                                          *)

\* A catch clause has a type and a handler.  The types are Throwable,
\* Exception, Error and one that is derived from Exception.
CatchTypes == {"Throwable", "Exception", "Error", "derived"}
Catch(type, handler) == [type |-> type, handler |-> handler]

\* What a clause of that type may catch, and what it catches without fail.
MayCatch(type) ==
    CASE type = "Throwable" -> Thrown
      [] type = "Error" -> {"errthrow"}
      [] OTHER -> {"throw"}
Catches(type) == IF type = "derived" THEN {} ELSE MayCatch(type)

\* "catch at ... hides catch at ...".
Hides(first, second) == MayCatch(second) \subseteq Catches(first)

\* What runs: the body, then the first clause that fits.
TryCatchWays(body, catches) ==
    LET thrown == body \cap Thrown
        left == thrown \ Catches(catches[1].type)
        rest == IF Len(catches) = 1 THEN left ELSE left \ Catches(catches[2].type)
        Handled(j, t) ==
            If(j <= Len(catches) /\ t \cap MayCatch(catches[j].type) # {},
               catches[j].handler.from.top)
    IN (body \ Thrown) \cup rest \cup Handled(1, thrown) \cup Handled(2, left)

Elements(catches) == {catches[j] : j \in DOMAIN catches}

\* "If the try body never throws, we can eliminate any catches of recoverable
\* exceptions."
Kept(body, catches) ==
    {c \in Elements(catches) :
        \/ "throw" \in body.exits
        \/ c.type \notin {"Exception", "derived"}
        \/ c.handler.comeFrom}

\* Fault: any clause takes all that is thrown.
CaughtByAny(type) == {"throw", "errthrow"}

\* What blockExit() takes away from the flags of the body.
CaughtBy(type) ==
    CASE type = "Throwable" -> {"throw", "errthrow"}
      [] type = "Exception" -> {"throw"}
      [] OTHER -> {}

Uncaught(body, kept) == body \ UNION {CaughtBy(c.type) : c \in kept}
TryCatchExits(body, kept) == Uncaught(body, kept) \cup UNION {c.handler.exits : c \in kept}

TryCatch(body, catches) ==
    LET kept == Kept(body, catches)
        handlers == {c.handler : c \in Elements(catches)}
    IN
    [body EXCEPT
        !.exits = TryCatchExits(body.exits, kept),
        !.throws = \/ "throw" \in Uncaught(body.exits, kept) /\ body.throws
                   \/ \E c \in kept : c.handler.throws,
        !.comeFrom = @ \/ \E h \in handlers : h.comeFrom,
        !.label = \E h \in handlers : h.label,
        !.hasCode = kept # {} \/ body.hasCode,
        !.last = "other", !.isCase = FALSE,
        !.jumps = @ \cup UNION {h.jumps : h \in handlers},
        !.messages = @ \cup UNION {c.handler.messages : c \in kept},
        !.facts = @ \cup UNION {h.facts : h \in handlers},
        !.gaps = @ \cup If("throwable" \in body.from.top
                              /\ \E c \in kept : c.type = "Exception",
                           {"Throwable and catch (Exception)"})
                   \cup UNION {h.gaps : h \in handlers},
        !.from = [e \in Entries |->
            IF e = "top" THEN TryCatchWays(body.from.top, catches)
            ELSE UNION {h.from[e] : h \in handlers}]]

\* scope(failure) s; body.  The handler throws again what it has caught, in a
\* way that blockExit() leaves out of account.
FailureExits(body, handler) ==
    IF "fallthru" \in handler THEN body \cup (handler \ {"fallthru"})
    ELSE (body \ CaughtBy("Throwable")) \cup handler

Failure(body, handler) ==
    LET thrown == body.from.top \cap Thrown
        left == IF "fallthru" \in handler.exits THEN body.exits
                ELSE body.exits \ CaughtBy("Throwable")
    IN
    [Joined(body, handler) EXCEPT
        !.exits = FailureExits(body.exits, handler.exits),
        !.throws = ("throw" \in left /\ body.throws) \/ handler.throws,
        !.from = Only((body.from.top \ Thrown)
                      \cup If(thrown # {}, handler.from.top \ {"fallthru"})
                      \cup If("fallthru" \in handler.from.top, thrown))]

TryFinallyExits(body, final) ==
    LET finalresult == IF body = {"halt"} THEN {} ELSE final
        result == IF finalresult = {"halt"} THEN {} ELSE body
    IN (result \ If("fallthru" \notin finalresult, {"fallthru"}))
       \cup (finalresult \ {"fallthru"})

TryFinallyWays(body, final) ==
    (body \cap {"halt"})
    \cup If(body \ {"halt"} # {}, Then(final, body \ {"halt"}))

\* "Don't care about paths that halt, either": a body that neither throws nor
\* jumps becomes the first part of a CompoundStatement.
TryFinally(body, final) ==
    IF body.exits \ {"halt"} = {"fallthru"} THEN Compound(body, final)
    ELSE [Joined(body, final) EXCEPT
            !.exits = TryFinallyExits(body.exits, final.exits),
            !.throws =
                \/ "throw" \in body.exits /\ final.exits # {"halt"} /\ body.throws
                \/ "throw" \in final.exits /\ body.exits # {"halt"} /\ final.throws,
            !.from = Only(TryFinallyWays(body.from.top, final.from.top))]

-----------------------------------------------------------------------------
(* Building a statement                                                    *)

Allowed(kind) == kind \in sort.language

\* The conditions that occur in what is built.
SortConditions ==
    {"unknown"} \cup If(Allowed("throwing conditions"), {"throws"})
                \cup If(Allowed("constant conditions"), {"true", "false"})

Starts == {Simples[n] : n \in DOMAIN Simples \cap sort.language}

Init ==
    /\ sort \in Sorts
    /\ now \in {Simples[n] : n \in DOMAIN Simples \cap sort.language}
    /\ saved = <<>>
    /\ size = 1

\* A statement without a case or a label to which one could jump from outside.
Closed(s) == ~s.label /\ s.from["case"] = {}

Makes(kind, s) ==
    /\ Allowed(kind) /\ size < sort.maxSize
    /\ now' = s
    /\ size' = size + 1
    /\ UNCHANGED <<saved, sort>>

\* now is put aside, and another statement is begun.
Begin ==
    /\ saved = <<>> /\ size < sort.maxSize
    /\ saved' = <<now>>
    /\ now' \in Starts
    /\ size' = size + 1
    /\ UNCHANGED sort

\* A label occurs once; one of the two statements comes first.
Pairs == {<<saved[1], now>>, <<now, saved[1]>>}
MakesOfTwo(kind) ==
    /\ Allowed(kind) /\ saved # <<>>
    /\ ~(saved[1].label /\ now.label)
    /\ saved' = <<>>
    /\ UNCHANGED <<size, sort>>

CompoundStatement ==
    /\ MakesOfTwo("compound")
    /\ \E p \in Pairs : now' = Compound(p[1], p[2])

ScopeStatement == Makes("compound", Block(now))

IfStatement ==
    /\ MakesOfTwo("if")
    /\ \E p \in Pairs, cond \in SortConditions : now' = IfElse(cond, p[1], p[2])

DoStatement ==
    \E cond \in SortConditions, labelled \in BOOLEAN :
        /\ labelled => Allowed("label") /\ ~now.label
        /\ Makes("do", Do(now, cond, labelled))

ForStatement ==
    \E cond, increment \in SortConditions, labelled \in BOOLEAN :
        /\ increment \in {"unknown", "throws"}
        /\ labelled => Allowed("label") /\ ~now.label
        /\ Makes("for", For(now, cond, increment, labelled))

UnrolledLoopStatement ==
    /\ MakesOfTwo("foreach over a tuple")
    /\ Closed(saved[1]) /\ Closed(now)
    /\ \E p \in Pairs : now' = Unrolled(p[1], p[2])

LabelStatement ==
    /\ ~now.label /\ now.jumps \cap {"break label", "continue label"} = {}
    /\ Makes("label", Label(now))

CaseStatement ==
    \E isDefault \in BOOLEAN :
        /\ isDefault => ~now.default
        /\ Makes("switch", Case(now, isDefault))

SwitchStatement ==
    \E cond \in SortConditions \ {"true", "false"} : Makes("switch", Switch(now, cond))

WithStatement ==
    \E cond \in SortConditions \ {"true", "false"} : Makes("with", With(now, cond))

\* The handler of one of two clauses is empty.
Clauses(handler) ==
    {<<Catch(t, handler)>> : t \in CatchTypes}
    \cup {c \in {<<Catch(t, h), Catch(u, g)>> :
                   t, u \in CatchTypes, h, g \in {handler, Empty}} :
            c[1].handler # c[2].handler /\ ~Hides(c[1].type, c[2].type)}

\* Bound: nothing jumps into the body of a try statement.
TryCatchStatement ==
    /\ MakesOfTwo("try")
    /\ \E p \in Pairs :
        /\ Closed(p[1]) /\ p[2].from["case"] = {}
        /\ \E catches \in Clauses(p[2]) : now' = TryCatch(p[1], catches)

ScopeFailure ==
    /\ MakesOfTwo("try")
    /\ Closed(saved[1]) /\ Closed(now)
    /\ \E p \in Pairs : now' = Failure(p[1], p[2])

\* "no break or continue out of finally block", and no return or goto.
TryFinallyStatement ==
    /\ MakesOfTwo("finally")
    /\ Closed(saved[1]) /\ Closed(now)
    /\ \E p \in Pairs : p[2].jumps = {} /\ now' = TryFinally(p[1], p[2])

Next ==
    \/ Begin \/ CompoundStatement \/ ScopeStatement \/ IfStatement
    \/ DoStatement \/ ForStatement \/ UnrolledLoopStatement
    \/ LabelStatement \/ CaseStatement \/ SwitchStatement \/ WithStatement
    \/ TryCatchStatement \/ ScopeFailure \/ TryFinallyStatement

Spec == Init /\ [][Next]_vars

-----------------------------------------------------------------------------
(* Properties                                                              *)

Gaps ==
    {"break out of do", "labelled continue in do", "break in foreach over a tuple",
     "label where a constant condition does not lead", "Throwable and catch (Exception)"}
Messages == {"case fallthrough", "not reachable"}
Statements ==
    [exits : SUBSET BE, throws : BOOLEAN, comeFrom : BOOLEAN, hasCode : BOOLEAN,
     last : {"other", "case", "empty case"}, isCase : BOOLEAN, default : BOOLEAN,
     label : BOOLEAN, jumps : SUBSET Ways, messages : SUBSET Messages,
     facts : SUBSET Messages, gaps : SUBSET Gaps, from : [Entries -> SUBSET Ways]]

TypeOK ==
    /\ sort \in Sorts /\ size \in 1..sort.maxSize
    /\ now \in Statements
    /\ saved \in Seq(Statements) /\ Len(saved) <= 1

\* Every way in which control leaves a statement is in its flags, however it
\* has been entered, unless it holds one of the constructs named in gaps.  So a
\* function without a gap never runs off its end without a return, and a
\* function whose flags have no BEthrow is nothrow.
Covers(s) == \A e \in Entries : \A w \in s.from[e] : FlagOf(w) \in s.exits
Honest(s) == s.gaps = {} => Covers(s)
Covered == Honest(now)

\* "If 'mustNotThrow' is true, generate an error if it throws": what has been
\* accepted as nothrow lets no Exception out.
ThrowsNothing(s) ==
    s.gaps = {} /\ ~s.throws => \A e \in Entries : "throw" \notin s.from[e]
NothrowHonoured == ThrowsNothing(now)

\* What is said of unreachable statements is true, in all code that blockExit()
\* understands.  And a return is missed at the end of a function only if its end
\* can be reached, in code without what blockExit() follows by guesses: break and
\* goto make the end of a for loop reachable, wherever they lead; a statement with
\* a label or a case is taken to be reached from each of them; handlers count that
\* nothing calls, and ways that a finally block never lets through.
Without(names) == sort.language \cap names = {}
Guessed ==
    {"goto", "gotoCase", "breakLabel", "continueLabel", "label", "switch", "try", "finally"}
Justified ==
    /\ now.gaps = {} /\ "not reachable" \in now.messages => "not reachable" \in now.facts
    /\ Without(Guessed) /\ "fallthru" \in now.exits => GoesOn(now)
=============================================================================
