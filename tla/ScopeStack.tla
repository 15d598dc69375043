----------------------------- MODULE ScopeStack -----------------------------
(***************************************************************************)
(* dscope.cpp: the scopes in which declarations are analysed.  A scope is  *)
(* pushed onto the one that encloses it, popped when the analysis is over, *)
(* and then handed out again, unless somebody may still need it: whoever   *)
(* keeps a scope for later has to mark it and all that enclose it.         *)
(*                                                                         *)
(* The model has the operations of class Scope and the ways in which the   *)
(* semantic passes use them, in any order that nested calls allow: a       *)
(* function works in the scope that it was given, in one that it has       *)
(* pushed or copied, or in one that was kept in a declaration.             *)
(***************************************************************************)
EXTENDS Naturals, Sequences

CONSTANTS
    Scopes,         \* the objects of class Scope, existing or not
    Declarations,   \* declarations that may be analysed later
    Members,        \* enum members with a deprecation message
    Nil,            \* the null pointer
    MaxDepth        \* bound: current scopes

ASSUME NilAssumption == Nil \notin Scopes

VARIABLES
    heap,           \* the scopes and the free list
    stack,          \* the current scopes of the active calls, innermost last
    _scope,         \* what a declaration keeps for its analysis
    depscope,       \* what the deprecation message of an enum member is to be analysed in
    status          \* whether the compiler still runs

vars == <<heap, stack, _scope, depscope, status>>

NoHeap == [enclosing |-> [s \in Scopes |-> Nil], allocated |-> {}, nofree |-> {},
           free |-> {}, freelist |-> Nil]

\* How a scope became a current one: it is one of the two of a module, was
\* pushed or copied here, or belongs to somebody else, who is to pop it.
Kinds == {"global", "module", "push", "copy", "use"}

Own(entry) == entry.kind # "use"

-----------------------------------------------------------------------------
(* class Scope *)

Closed(enclosing, S) == \A s \in S : enclosing[s] # Nil => enclosing[s] \in S

\* The scope and all that enclose it.
Chain(enclosing, s) ==
    {t \in Scopes : \A S \in SUBSET Scopes : s \in S /\ Closed(enclosing, S) => t \in S}

\* What alloc() may return: the first of the free list, or a new scope.
Available(h) == IF h.freelist # Nil THEN {h.freelist} ELSE Scopes \ h.allocated

\* Fault: the free list is not advanced.
KeepsList(h, s) == [h EXCEPT !.allocated = @ \cup {s}, !.free = @ \ {s}]

alloc(h, s) ==
    [h EXCEPT !.allocated = @ \cup {s},
              !.free = @ \ {s},
              !.freelist = IF @ # Nil THEN h.enclosing[s] ELSE @]

\* Becomes a scope that nobody keeps.
Initialized(h, s, enclosing) ==
    [alloc(h, s) EXCEPT !.enclosing[s] = enclosing, !.nofree = @ \ {s}]

\* Everything is copied, nofree too.
copy(h, s, original) ==
    [alloc(h, s) EXCEPT !.enclosing[s] = h.enclosing[original],
                        !.nofree = IF original \in @ THEN @ \cup {s} ELSE @ \ {s}]

\* Fault: only the scope itself is marked.
MarksOne(h, s) == [h EXCEPT !.nofree = @ \cup {s}]

setNoFree(h, s) == [h EXCEPT !.nofree = @ \cup Chain(h.enclosing, s)]

pop(h, s) ==
    IF s \in h.nofree THEN h
    ELSE [h EXCEPT !.enclosing[s] = h.freelist, !.freelist = s, !.free = @ \cup {s}]

-----------------------------------------------------------------------------
(* The calls *)

Top == stack[Len(stack)]

Current == Top.scope

Running == status = "running"

\* Nothing is analysed outside the module.
Active == Running /\ stack # <<>> /\ Top.kind # "global"

Room(n) == Len(stack) + n <= MaxDepth

Entry(s, kind) == [scope |-> s, kind |-> kind]

Return == stack' = SubSeq(stack, 1, Len(stack) - 1)

Elsewhere == UNCHANGED <<_scope, depscope, status>>

Init ==
    /\ heap = NoHeap
    /\ stack = <<>>
    /\ _scope = [d \in Declarations |-> Nil]
    /\ depscope = [m \in Members |-> Nil]
    /\ status = "running"

\* Each pass over a module begins with two scopes of its own, also in the
\* middle of the analysis of a module that imports it.
createGlobal ==
    /\ Running /\ Room(2)
    /\ \E g \in Available(heap) :
         LET outer == Initialized(heap, g, Nil) IN
         \E m \in Available(outer) :
             /\ heap' = Initialized(outer, m, g)
             /\ stack' = stack \o <<Entry(g, "global"), Entry(m, "module")>>
    /\ Elsewhere

\* push() and startCTFE()
Push ==
    /\ Active /\ Room(1)
    /\ \E s \in Available(heap) :
         /\ heap' = Initialized(heap, s, Current)
         /\ stack' = Append(stack, Entry(s, "push"))
    /\ Elsewhere

\* Attributes change a copy, which takes the place of the original.
Copy ==
    /\ Active /\ Room(1)
    /\ \E s \in Available(heap) :
         /\ heap' = copy(heap, s, Current)
         /\ stack' = Append(stack, Entry(s, "copy"))
    /\ Elsewhere

\* pop() and endCTFE()
Pop ==
    /\ Running /\ stack # <<>> /\ Own(Top)
    /\ heap' = pop(heap, Current)
    /\ Return
    /\ Elsewhere

\* __traits(compiles) takes its scope off the chain before it pops it.
Detach ==
    /\ Active /\ Top.kind = "push"
    /\ heap' = pop([heap EXCEPT !.enclosing[Current] = Nil], Current)
    /\ Return
    /\ Elsewhere

\* A call that works in somebody else's scope returns; a foreach statement
\* with an error returns without popping its own.
Leave ==
    /\ Active /\ Top.kind \in {"use", "push"}
    /\ Return
    /\ UNCHANGED heap
    /\ Elsewhere

\* Dsymbol::setScope(): the declaration is to be analysed in the current scope.
setScope(d) ==
    /\ Active
    /\ heap' = IF Current \in heap.nofree THEN heap ELSE setNoFree(heap, Current)
    /\ _scope' = [_scope EXCEPT ![d] = Current]
    /\ UNCHANGED <<stack, depscope, status>>

\* The members of an enum, and a declaration that has been taken up and has
\* to wait once more (scx).
KeepScope(d) ==
    /\ Active
    /\ heap' = setNoFree(heap, Current)
    /\ _scope' = [_scope EXCEPT ![d] = Current]
    /\ UNCHANGED <<stack, depscope, status>>

\* A declaration that has not been given a scope before has to wait, or is
\* needed while it resolves its bases.
KeepCopy(d) ==
    /\ Active
    /\ \E s \in Available(heap) :
         /\ heap' = setNoFree(copy(heap, s, Current), s)
         /\ _scope' = [_scope EXCEPT ![d] = s]
    /\ UNCHANGED <<stack, depscope, status>>

\* The bases are resolved.
Forget(d) ==
    /\ Active
    /\ _scope[d] # Nil
    /\ _scope' = [_scope EXCEPT ![d] = Nil]
    /\ UNCHANGED <<heap, stack, depscope, status>>

\* The analysis of a declaration takes up what was kept.
Resume(d) ==
    /\ Running /\ Room(1)
    /\ _scope[d] # Nil
    /\ stack' = Append(stack, Entry(_scope[d], "use"))
    /\ _scope' = [_scope EXCEPT ![d] = Nil]
    /\ UNCHANGED <<heap, depscope, status>>

\* A template is instantiated where it was declared, as often as it is needed.
Instantiate(d) ==
    /\ Running /\ Room(1)
    /\ _scope[d] # Nil
    /\ stack' = Append(stack, Entry(_scope[d], "use"))
    /\ UNCHANGED <<heap, _scope, depscope, status>>

\* Scopes of calls that have not returned, and scopes that are kept.
Live == {stack[i].scope : i \in 1..Len(stack)} \cup heap.nofree

\* An enum member remembers the scope of the first use and goes on to the
\* check, which needs no message where everything is deprecated.
QuietUse(m) ==
    /\ Active
    /\ depscope[m] = Nil
    /\ depscope' = [depscope EXCEPT ![m] = Current]
    /\ UNCHANGED <<heap, stack, _scope, status>>

\* Elsewhere the message is analysed, in a scope pushed onto the remembered one.
\* When that has been given back, push() fails with its first assertion, or with
\* its second one because copy() has just handed out the scope itself.  The run
\* is not followed beyond that, nor into a scope that no call works in any more.
MessageIn(m, s) ==
    /\ depscope' = [depscope EXCEPT ![m] = Nil]
    /\ \/ /\ s \in heap.free
          /\ status' = IF s = heap.freelist THEN "pushed itself" ELSE "pushed on a free one"
          /\ UNCHANGED <<heap, stack>>
       \/ /\ s \notin heap.free /\ s \notin Live
          /\ status' = "astray"
          /\ UNCHANGED <<heap, stack>>
       \/ /\ s \in Live \ heap.free
          /\ \E t \in Available(heap) :
               /\ heap' = Initialized(heap, t, s)
               /\ stack' = stack \o <<Entry(s, "use"), Entry(t, "push")>>
          /\ UNCHANGED status
    /\ UNCHANGED _scope

DeprecatedUse(m) ==
    /\ Active /\ Room(2)
    /\ MessageIn(m, IF depscope[m] = Nil THEN Current ELSE depscope[m])

Next ==
    \/ createGlobal \/ Push \/ Copy \/ Pop \/ Detach \/ Leave
    \/ \E d \in Declarations :
         setScope(d) \/ KeepScope(d) \/ KeepCopy(d) \/ Forget(d) \/ Resume(d) \/ Instantiate(d)
    \/ \E m \in Members : QuietUse(m) \/ DeprecatedUse(m)

Spec == Init /\ [][Next]_vars

-----------------------------------------------------------------------------
(* Properties *)

\* The pointers have their types.
TypeOK ==
    /\ heap \in [enclosing : [Scopes -> Scopes \cup {Nil}], allocated : SUBSET Scopes,
                 nofree : SUBSET Scopes, free : SUBSET Scopes, freelist : Scopes \cup {Nil}]
    /\ stack \in Seq([scope : Scopes, kind : Kinds])
    /\ _scope \in [Declarations -> Scopes \cup {Nil}]
    /\ depscope \in [Members -> Scopes \cup {Nil}]
    /\ status \in {"running", "pushed itself", "pushed on a free one", "astray"}

\* No scope that a call works in, that a declaration keeps for later, or that
\* encloses one of these has been given back: pop() frees a scope only when
\* nobody can come to it any more, since whoever keeps one has marked the whole chain.
NoDangling ==
    /\ \A i \in 1..Len(stack) : Chain(heap.enclosing, stack[i].scope) \cap heap.free = {}
    /\ \A d \in Declarations :
         _scope[d] # Nil => Chain(heap.enclosing, _scope[d]) \cap heap.free = {}

\* The free list is made of exactly the scopes that have the flag SCOPEfree,
\* which alloc() asserts of its first element, and comes to an end.
FreeListSound ==
    IF heap.freelist = Nil THEN heap.free = {}
    ELSE /\ Chain(heap.enclosing, heap.freelist) = heap.free
         /\ \E s \in heap.free : heap.enclosing[s] = Nil

\* What pop() returns is the scope in which the caller was before it pushed:
\* nothing that happened in between, analyses of other declarations included, has
\* changed that.
PopReturnsCaller ==
    \A i \in 1..Len(stack) - 1 :
        stack[i + 1].kind \in {"module", "push"} => heap.enclosing[stack[i + 1].scope] = stack[i].scope

StackSound == FreeListSound /\ PopReturnsCaller

\* "assert(!(flags & SCOPEfree));" in push(), dscope.cpp:152: a scope is pushed
\* only onto one that has not been given back.
NeverPushedOnFree == status # "pushed on a free one"
=============================================================================
