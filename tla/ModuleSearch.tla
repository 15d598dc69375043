---------------------------- MODULE ModuleSearch ----------------------------
(***************************************************************************)
(* How a name is looked up in a module: Module::search with its mark       *)
(* against import cycles and its memory of the last answer                 *)
(* (compiler/src/dmodule.cpp), ScopeDsymbol::search over the symbol table  *)
(* and the imported scopes, symbolIsVisible, and the operations that       *)
(* change what a search would find: symtabInsert, importScope and          *)
(* clearCache (compiler/src/dsymbol.cpp, access.cpp).                      *)
(*                                                                         *)
(* A symbol is named by the module that declares it, so that an answer is  *)
(* a set of modules: none for a null pointer, one for a symbol, several    *)
(* for an OverloadSet.  Imported scopes are modules; mixins, aliases and   *)
(* deprecation are left out.                                               *)
(***************************************************************************)
EXTENDS Naturals, Sequences, FiniteSets

CONSTANTS Modules,
          Names,
          NoName,       \* the null Identifier
          Worlds,       \* declarations and imports to start from
          Questions,    \* what may be asked: [of, ident, flags]
          Insertions,   \* what may be declared later: [in, ident, kind]
          MaxQuestions, MaxChanges  \* bounds on the two

Kinds == {"public", "private", "overload"}  \* the last one: public functions
Protections == {"private", "public"}
Flags == {"unqualified", "localsOnly", "importsOnly", "ignorePrivate",
          "ignoreErrors", "ignoreAmbiguous", "ignoreVisibility"}
Imports == [mod : Modules, prot : Protections]

IsWorld(w) ==
  /\ w.decl \in [Modules -> [Names -> Kinds \cup {"none"}]]
  /\ w.imports \in [Modules -> Seq(Imports)]

ASSUME SearchAssumption ==
  /\ NoName \notin Names
  /\ IsFiniteSet(Modules)
  /\ MaxQuestions \in Nat /\ MaxChanges \in Nat
  /\ \A w \in Worlds : IsWorld(w)
  /\ Questions \subseteq [of : Modules, ident : Names, flags : SUBSET Flags]
  /\ Insertions \subseteq [in : Modules, ident : Names, kind : Kinds]

VARIABLES decl,      \* the symbol tables
          imports,   \* importedScopes and prots
          insearch,
          cache,     \* searchCacheIdent, searchCacheFlags, searchCacheSymbol
          errors,    \* global.errors
          stack,     \* the activations of Module::search
          ident,     \* the name they look for
          asked,     \* the question
          answered,  \* what was asked and answered since the last change
          questions, changes

graph == <<decl, imports>>
vars == <<decl, imports, insearch, cache, errors, stack, ident, asked, answered,
          questions, changes>>

NoCache == [ident |-> NoName, flags |-> {}, symbol |-> {}]
NoQuestion == [of |-> {}, ident |-> NoName, flags |-> {}]

Init ==
  /\ \E w \in Worlds : decl = w.decl /\ imports = w.imports
  /\ insearch = [m \in Modules |-> FALSE]
  /\ cache = [m \in Modules |-> NoCache]
  /\ errors = 0 /\ stack = <<>> /\ ident = NoName /\ asked = NoQuestion
  /\ answered = {} /\ questions = 0 /\ changes = 0

----------------------------------------------------------------------------
(* "Qualified module searches always search their imports"                 *)
Effective(flags) ==
  IF "unqualified" \in flags THEN flags ELSE flags \ {"localsOnly"}

(* What a search of an imported module is asked for.                       *)
Passed(flags) == (flags \cap {"ignoreErrors", "ignoreAmbiguous"}) \cup {"ignorePrivate"}

(* Fault: a symbol is visible everywhere.                                  *)
VisibleAnywhere(m, flags, s) == TRUE

(* symbolIsVisible(); an OverloadSet has no protection of its own.         *)
Visible(m, flags, s) ==
  \/ "ignoreVisibility" \in flags
  \/ Cardinality(s) > 1
  \/ \A d \in s : decl[d][ident] = "private" => d = m

Hit(m, flags) == cache[m].ident = ident /\ cache[m].flags = Effective(flags)

(* A search that ends before it starts: in a cycle, or with the last       *)
(* answer.                                                                 *)
Immediate(m, flags) == insearch[m] \/ Hit(m, flags)
ImmediateAnswer(m) == IF insearch[m] THEN {} ELSE cache[m].symbol

Activation(m, flags) ==
  [mod |-> m, flags |-> Effective(flags), i |-> 0, found |-> {}, errors |-> errors]

Top == stack[Len(stack)]
Callers == SubSeq(stack, 1, Len(stack) - 1)
Scopes == imports[Top.mod]
Scanned == Scopes[Top.i]
WithTop(f) == [stack EXCEPT ![Len(stack)] = f]

(* Fault: private imports are searched like the others.                    *)
SkippedIfLocal(f, e) == "localsOnly" \in f.flags

Skipped(f, e) ==
  \/ "ignorePrivate" \in f.flags /\ e.prot = "private"
  \/ "localsOnly" \in f.flags

Overloadable(s) == \A d \in s : decl[d][ident] = "overload"
Unseen(f, s) == s = {} \/ ~Visible(f.mod, f.flags, s)

(* Fault: a symbol that is found twice is ambiguous.                       *)
ConflictWithItself(f, s) ==
  ~Unseen(f, s) /\ f.found # {} /\ ~Overloadable(f.found \cup s)

Conflict(f, s) ==
  /\ ~Unseen(f, s) /\ f.found # {} /\ s # f.found
  /\ ~Overloadable(f.found \cup s)
MultiplyDefined(f, s) == Conflict(f, s) /\ "ignoreErrors" \notin f.flags
                         /\ "ignoreAmbiguous" \notin f.flags

(* f after ss->search() has returned s.  A conflict ends the loop.         *)
Took(f, s) ==
  IF Conflict(f, s)
  THEN [f EXCEPT !.i = Len(imports[f.mod]) + 1,
                 !.found = IF "ignoreAmbiguous" \in f.flags THEN {} ELSE @]
  ELSE [f EXCEPT !.i = @ + 1, !.found = IF Unseen(f, s) THEN @ ELSE @ \cup s]

(* The answer s of the whole search; erred if it reported an ambiguity.    *)
Deliver(s, erred) ==
  answered' = answered \cup {[asked |-> asked, answer |-> s, erred |-> erred]}

----------------------------------------------------------------------------
(* search(), called from outside; Scope::search asks for imported names    *)
(* only after it has not found a local one.                                *)
Ask(q) ==
  /\ stack = <<>> /\ asked = NoQuestion /\ questions < MaxQuestions
  /\ "importsOnly" \in q.flags => decl[q.of][q.ident] = "none"
  /\ asked' = q /\ ident' = q.ident
  /\ questions' = questions + 1
  /\ UNCHANGED <<graph, insearch, cache, errors, stack, answered, changes>>

AskedAnswered ==
  /\ stack = <<>> /\ asked # NoQuestion /\ Immediate(asked.of, asked.flags)
  /\ Deliver(ImmediateAnswer(asked.of), FALSE)
  /\ asked' = NoQuestion
  /\ UNCHANGED <<graph, insearch, cache, errors, stack, ident, questions, changes>>

Enter ==
  /\ stack = <<>> /\ asked # NoQuestion /\ ~Immediate(asked.of, asked.flags)
  /\ stack' = <<Activation(asked.of, asked.flags)>>
  /\ insearch' = [insearch EXCEPT ![asked.of] = TRUE]
  /\ UNCHANGED <<graph, cache, errors, ident, asked, answered, questions, changes>>

(* "We can cache the result only when it does not cause access error"      *)
Remember(f, s) ==
  cache' = IF errors = f.errors
           THEN [cache EXCEPT ![f.mod] = [ident |-> ident, flags |-> f.flags, symbol |-> s]]
           ELSE cache

(* The importing module takes s and goes on, or the question is answered.  *)
Resume(callers, s) ==
  IF callers = <<>>
  THEN /\ stack' = <<>> /\ asked' = NoQuestion
       /\ Deliver(s, errors # Top.errors)
       /\ UNCHANGED errors
  ELSE LET f == callers[Len(callers)] IN
       /\ stack' = [callers EXCEPT ![Len(callers)] = Took(f, s)]
       /\ errors' = errors + (IF MultiplyDefined(f, s) THEN 1 ELSE 0)
       /\ UNCHANGED <<asked, answered>>

(* Fault: the mark stays.                                                  *)
ReturnMarked(s) ==
  /\ Remember(Top, s) /\ Resume(Callers, s)
  /\ UNCHANGED <<graph, insearch, ident, questions, changes>>

Return(s) ==
  /\ insearch' = [insearch EXCEPT ![Top.mod] = FALSE]
  /\ Remember(Top, s) /\ Resume(Callers, s)
  /\ UNCHANGED <<graph, ident, questions, changes>>

InLocals == "importsOnly" \notin Top.flags /\ decl[Top.mod][ident] # "none"

FoundInLocals == stack # <<>> /\ Top.i = 0 /\ InLocals /\ Return({Top.mod})

NotInLocals ==
  /\ stack # <<>> /\ Top.i = 0 /\ ~InLocals
  /\ stack' = WithTop([Top EXCEPT !.i = 1])
  /\ UNCHANGED <<graph, insearch, cache, errors, ident, asked, answered, questions, changes>>

Scanning == stack # <<>> /\ Top.i \in 1..Len(Scopes)

SkipImport ==
  /\ Scanning /\ Skipped(Top, Scanned)
  /\ stack' = WithTop([Top EXCEPT !.i = @ + 1])
  /\ UNCHANGED <<graph, insearch, cache, errors, ident, asked, answered, questions, changes>>

ImportAnswered ==
  /\ Scanning /\ ~Skipped(Top, Scanned) /\ Immediate(Scanned.mod, Passed(Top.flags))
  /\ LET s == ImmediateAnswer(Scanned.mod) IN
     /\ stack' = WithTop(Took(Top, s))
     /\ errors' = errors + (IF MultiplyDefined(Top, s) THEN 1 ELSE 0)
  /\ UNCHANGED <<graph, insearch, cache, ident, asked, answered, questions, changes>>

(* Fault: the module that is entered is not marked.                        *)
SearchImportUnmarked ==
  /\ Scanning /\ ~Skipped(Top, Scanned) /\ ~Immediate(Scanned.mod, Passed(Top.flags))
  /\ Len(stack) < 2 * Cardinality(Modules)
  /\ stack' = Append(stack, Activation(Scanned.mod, Passed(Top.flags)))
  /\ UNCHANGED <<graph, insearch, cache, errors, ident, asked, answered, questions, changes>>

SearchImport ==
  /\ Scanning /\ ~Skipped(Top, Scanned) /\ ~Immediate(Scanned.mod, Passed(Top.flags))
  /\ stack' = Append(stack, Activation(Scanned.mod, Passed(Top.flags)))
  /\ insearch' = [insearch EXCEPT ![Scanned.mod] = TRUE]
  /\ UNCHANGED <<graph, cache, errors, ident, asked, answered, questions, changes>>

ImportsSearched == stack # <<>> /\ Top.i > Len(Scopes) /\ Return(Top.found)

----------------------------------------------------------------------------
(* What the semantic pass does between searches.                           *)
Change ==
  /\ stack = <<>> /\ asked = NoQuestion /\ changes < MaxChanges
  /\ changes' = changes + 1 /\ answered' = {}
  /\ UNCHANGED <<insearch, errors, stack, ident, asked, questions>>

Invalidated(m) == [cache EXCEPT ![m].ident = NoName]

(* Dsymbol::addMember() calls symtabInsert().                              *)
SymtabInsert(n) ==
  /\ Change /\ decl[n.in][n.ident] = "none"
  /\ decl' = [decl EXCEPT ![n.in][n.ident] = n.kind]
  /\ cache' = Invalidated(n.in)
  /\ UNCHANGED imports

(* importScope(): no repeated imports, but a private one is made public.   *)
Imported(scopes, m, prot) ==
  IF \E i \in 1..Len(scopes) : scopes[i].mod = m
  THEN [i \in 1..Len(scopes) |-> IF scopes[i].mod = m /\ prot = "public"
                                  THEN [scopes[i] EXCEPT !.prot = "public"]
                                  ELSE scopes[i]]
  ELSE Append(scopes, [mod |-> m, prot |-> prot])

(* An import declaration is a member of its module: it is inserted in the  *)
(* symbol table under its own name before the module joins the scopes.     *)
ImportScope(m, s, prot) ==
  /\ Change /\ s # m
  /\ imports' = [imports EXCEPT ![m] = Imported(@, s, prot)]
  /\ cache' = Invalidated(m)
  /\ UNCHANGED decl

(* Module::clearCache(), before each guess of the spelling checker.        *)
ClearCache ==
  /\ Change
  /\ cache' = [m \in Modules |-> [cache[m] EXCEPT !.ident = NoName]]
  /\ UNCHANGED graph

Step ==
  \/ AskedAnswered \/ Enter \/ FoundInLocals \/ NotInLocals \/ SkipImport
  \/ ImportAnswered \/ SearchImport \/ ImportsSearched

Next ==
  \/ \E q \in Questions : Ask(q)
  \/ Step
  \/ \E n \in Insertions : SymtabInsert(n)
  \/ \E m, s \in Modules, prot \in Protections : ImportScope(m, s, prot)
  \/ ClearCache

(* A search runs to its end: nothing in it waits.  Nobody has to ask.      *)
Spec == Init /\ [][Next]_vars /\ WF_vars(Step)


----------------------------------------------------------------------------
(* The reference definition: what a name stands for in a module, from the  *)
(* declarations and the imports alone.                                     *)
ImportsOf(m, prots) == {imports[m][i].mod : i \in {j \in 1..Len(imports[m]) : imports[m][j].prot \in prots}}

FirstScopes(q) ==
  IF "localsOnly" \in Effective(q.flags) THEN {}
  ELSE ImportsOf(q.of, IF "ignorePrivate" \in q.flags THEN {"public"} ELSE Protections)

(* A module that declares the name hides what it imports.                  *)
ClosedFor(n, S) ==
  \A m \in S : decl[m][n] = "none" => ImportsOf(m, {"public"}) \subseteq S
Searched(q) ==
  {d \in Modules : \A S \in SUBSET Modules :
                     FirstScopes(q) \subseteq S /\ ClosedFor(q.ident, S) => d \in S}

Offered(q) ==
  IF decl[q.of][q.ident] # "none" THEN {q.of}
  ELSE {d \in Searched(q) \ {q.of} : decl[d][q.ident] \in {"public", "overload"}}
       \cup IF "ignoreVisibility" \in q.flags
            THEN {d \in FirstScopes(q) : decl[d][q.ident] = "private"} ELSE {}

Overloads(q, S) == \A d \in S : decl[d][q.ident] = "overload"
Ambiguous(q) == Cardinality(Offered(q)) > 1 /\ ~Overloads(q, Offered(q))

Exact(a) ==
  /\ a.answer \subseteq Offered(a.asked)
  /\ ~Ambiguous(a.asked) => a.answer = Offered(a.asked)
  /\ a.answer = {} => Offered(a.asked) = {} \/ "ignoreAmbiguous" \in a.asked.flags

TypeOK ==
  /\ decl \in [Modules -> [Names -> Kinds \cup {"none"}]]
  /\ imports \in [Modules -> Seq(Imports)]
  /\ insearch \in [Modules -> BOOLEAN]
  /\ cache \in [Modules -> [ident : Names \cup {NoName}, flags : SUBSET Flags,
                            symbol : SUBSET Modules]]
  /\ errors \in Nat
  /\ stack \in Seq([mod : Modules, flags : SUBSET Flags, i : Nat,
                    found : SUBSET Modules, errors : Nat])
  /\ ident \in Names \cup {NoName}
  /\ asked \in Questions \cup {NoQuestion}
  /\ answered \subseteq [asked : Questions, answer : SUBSET Modules, erred : BOOLEAN]
  /\ questions \in 0..MaxQuestions /\ changes \in 0..MaxChanges

(* What a search remembers can be wrong where imports form a cycle, or     *)
(* after a change of a module or its imports: the next two are about the   *)
(* first question in a program and about programs without cycles.          *)
CycleFree == \A S \in (SUBSET Modules) \ {{}} : \E m \in S : ImportsOf(m, Protections) \cap S = {}
Fresh == changes = 0 /\ (questions = 1 \/ CycleFree)

(* A name is found exactly if it can be found along the imports, and an    *)
(* overload set has all overloads: a search that is cut where imports form *)
(* a cycle, and that uses answers remembered within itself, loses nothing. *)
(* An ambiguous name is an error each time it is looked up, and no other   *)
(* name is; it stands for something, unless ambiguities are to be ignored. *)
AnswersExact ==
  \A a \in answered : Fresh =>
    /\ Exact(a)
    /\ a.asked.flags \cap {"ignoreErrors", "ignoreAmbiguous"} = {}
         => (a.erred <=> Ambiguous(a.asked))

(* A module never sees another one's private symbols, not even in an       *)
(* answer that was remembered for somebody else.                           *)
PrivateStaysPrivate ==
  \A m \in Modules : \A d \in cache[m].symbol :
    cache[m].ident # NoName /\ "ignoreVisibility" \notin cache[m].flags /\ d # m
      => decl[d][cache[m].ident] \in {"public", "overload"}

(* A private import is not passed on: an answer for somebody else comes    *)
(* along public imports.                                                   *)
PubliclyReached(m, d) ==
  \A S \in SUBSET Modules :
    m \in S /\ (\A x \in S : ImportsOf(x, {"public"}) \subseteq S) => d \in S
PrivateImportsStayPrivate ==
  \A m \in Modules :
    cache[m].ident # NoName /\ "ignorePrivate" \in cache[m].flags
      => \A d \in cache[m].symbol : PubliclyReached(m, d)

(* The mark is set in exactly the modules that are being searched, none of *)
(* them twice: a mark that stayed would hide a module for good, and        *)
(* rootImports() and isPackageAccessible() use the same field.             *)
MarkedIffActive ==
  /\ \A m \in Modules : insearch[m] <=> \E k \in 1..Len(stack) : stack[k].mod = m
  /\ \A j, k \in 1..Len(stack) : stack[j].mod = stack[k].mod => j = k

(* Every search ends, in import cycles too.                                *)
EverySearchEnds == asked # NoQuestion ~> asked = NoQuestion

(* Whatever was asked before, and however imports form cycles, a name      *)
(* never stands for a symbol it should not, and is never called ambiguous  *)
(* when it is not.                                                         *)
AnswersSound ==
  changes = 0 =>
    \A a \in answered :
      a.answer \subseteq Offered(a.asked) /\ (a.erred => Ambiguous(a.asked))

=============================================================================
