--------------------------- MODULE ModuleImports ---------------------------
(***************************************************************************)
(* Which module imports which: Module::imports, a depth-first search with  *)
(* a mark in each module, and the two questions that are answered with it  *)
(* and remembered, Module::selfImports and Module::rootImports             *)
(* (compiler/src/dmodule.cpp).  The code generator asks the second one for *)
(* the module of each template instance (TemplateInstance::needsCodegen).  *)
(*                                                                         *)
(* The questions come after the semantic passes, so the import graph is    *)
(* data: the order of all modules, the lists of imports in the order in    *)
(* which Import was analysed, and the modules of the command line.         *)
(***************************************************************************)
EXTENDS Naturals, Sequences

CONSTANTS Modules,      \* all modules that were loaded
          NoModule,     \* the null pointer
          Graphs,       \* the import graphs to start from
          MaxQuestions  \* a bound on the questions asked in one run

IsGraph(g) ==
  /\ g \in [amodules : Seq(Modules), aimports : [Modules -> Seq(Modules)],
            roots : SUBSET Modules]
  /\ \A m \in Modules : \E k \in 1..Len(g.amodules) : g.amodules[k] = m

ASSUME ImportsAssumption ==
  /\ NoModule \notin Modules
  /\ MaxQuestions \in Nat
  /\ \A g \in Graphs : IsGraph(g)

VARIABLES graph,        \* amodules, the aimports of each module, who isRoot()
          insearch,     \* the mark of each module
          selfimports,  \* 0: don't know, 1: does not, 2: does
          rootimports,  \* the same
          asking,       \* which question is being answered
          this,         \* the module that is asked
          target,       \* the argument m of imports()
          at,           \* the index of rootImports() in amodules
          stack,        \* the activations of imports()
          questions     \* how many questions were asked

memo == <<selfimports, rootimports>>
vars == <<graph, insearch, selfimports, rootimports, asking, this, target, at,
          stack, questions>>

Unmarked == [m \in Modules |-> FALSE]

Init ==
  /\ graph \in Graphs
  /\ insearch = Unmarked
  /\ selfimports = [m \in Modules |-> 0]
  /\ rootimports = [m \in Modules |-> 0]
  /\ asking = "nothing" /\ this = NoModule /\ target = NoModule
  /\ at = 0 /\ stack = <<>> /\ questions = 0

----------------------------------------------------------------------------
Activation(m) == [mod |-> m, i |-> 1]
Top == stack[Len(stack)]
AtEnd == Top.i > Len(graph.aimports[Top.mod])
mi == graph.aimports[Top.mod][Top.i]
Caller == SubSeq(stack, 1, Len(stack) - 1)
Advance(s) == [s EXCEPT ![Len(s)].i = @ + 1]

(* from->imports(m) is called; it clears no marks itself.                   *)
Search(from, m) == stack' = <<Activation(from)>> /\ target' = m

(* if (mi == m) return true, and each caller returns it at once.           *)
Found == stack # <<>> /\ ~AtEnd /\ mi = target

Answer(self, root) ==
  /\ selfimports' = [selfimports EXCEPT ![this] = self]
  /\ rootimports' = [rootimports EXCEPT ![this] = root]
  /\ insearch' = Unmarked
  /\ asking' = "nothing" /\ this' = NoModule /\ target' = NoModule
  /\ at' = 0 /\ stack' = <<>>
  /\ UNCHANGED <<graph, questions>>

(* for (i) { mi = aimports[i]; if (!mi->insearch) ... }                    *)
ImportsSkip ==
  /\ stack # <<>> /\ ~AtEnd /\ mi # target /\ insearch[mi]
  /\ stack' = Advance(stack)
  /\ UNCHANGED <<graph, insearch, memo, asking, this, target, at, questions>>

(* Fault: the module that is entered is not marked.                        *)
FollowUnmarked ==
  /\ stack # <<>> /\ ~AtEnd /\ mi # target /\ ~insearch[mi]
  /\ stack' = Append(stack, Activation(mi))
  /\ UNCHANGED <<graph, insearch, memo, asking, this, target, at, questions>>

ImportsFollow ==
  /\ stack # <<>> /\ ~AtEnd /\ mi # target /\ ~insearch[mi]
  /\ insearch' = [insearch EXCEPT ![mi] = TRUE]
  /\ stack' = Append(stack, Activation(mi))
  /\ UNCHANGED <<graph, memo, asking, this, target, at, questions>>

ImportsReturn ==
  /\ stack # <<>> /\ AtEnd
  /\ stack' = IF Caller = <<>> THEN <<>> ELSE Advance(Caller)
  /\ UNCHANGED <<graph, insearch, memo, asking, this, target, at, questions>>

(* selfImports()                                                           *)
AskSelf(m) ==
  /\ asking = "nothing" /\ questions < MaxQuestions
  /\ selfimports[m] = 0
  /\ asking' = "self" /\ this' = m /\ insearch' = Unmarked
  /\ Search(m, m)
  /\ questions' = questions + 1
  /\ UNCHANGED <<graph, memo, at>>

(* Fault: the answer is not shifted by one.                                *)
SelfFoundAsOne == asking = "self" /\ Found /\ Answer(1, rootimports[this])

SelfFound == asking = "self" /\ Found /\ Answer(2, rootimports[this])

SelfNotFound ==
  asking = "self" /\ stack = <<>> /\ Answer(1, rootimports[this])

(* rootImports(), which is only asked of modules that are not roots.       *)
AskRoot(m) ==
  /\ asking = "nothing" /\ questions < MaxQuestions
  /\ m \notin graph.roots /\ rootimports[m] = 0
  /\ rootimports' = [rootimports EXCEPT ![m] = 1]
  /\ asking' = "root" /\ this' = m /\ insearch' = Unmarked
  /\ at' = 0
  /\ questions' = questions + 1
  /\ UNCHANGED <<graph, selfimports, target, stack>>

(* Fault: any module is taken for a root.                                  *)
RootNextOfAll ==
  /\ asking = "root" /\ stack = <<>> /\ at < Len(graph.amodules)
  /\ at' = at + 1 /\ Search(this, graph.amodules[at'])
  /\ UNCHANGED <<graph, insearch, memo, asking, this, questions>>

RootNext ==
  /\ asking = "root" /\ stack = <<>> /\ at < Len(graph.amodules)
  /\ at' = at + 1
  /\ UNCHANGED <<graph, insearch, memo, asking, this, questions>>
  /\ IF graph.amodules[at'] \in graph.roots THEN Search(this, graph.amodules[at'])
     ELSE UNCHANGED <<target, stack>>

RootFound == asking = "root" /\ Found /\ Answer(selfimports[this], 2)

(* Fault: the end of the list is missed.                                   *)
PastTheEnd ==
  /\ asking = "root" /\ stack = <<>> /\ at > Len(graph.amodules)
  /\ Answer(selfimports[this], 1)

RootNotFound ==
  /\ asking = "root" /\ stack = <<>> /\ at = Len(graph.amodules)
  /\ Answer(selfimports[this], 1)

Ask == \E m \in Modules : AskSelf(m) \/ AskRoot(m)
Step ==
  \/ ImportsSkip \/ ImportsFollow \/ ImportsReturn
  \/ SelfFound \/ SelfNotFound
  \/ RootNext \/ RootFound \/ RootNotFound

Next == Ask \/ Step

(* A search runs to its end: the compiler is one thread and nothing in a   *)
(* search waits.  Nobody has to ask.                                       *)
Spec == Init /\ [][Next]_vars /\ WF_vars(Step)

----------------------------------------------------------------------------
(* The reference definition.  A set that holds the imports of m and is     *)
(* closed under imports holds everything m imports, directly or not.       *)
Imported(g, m) == {g.aimports[m][i] : i \in 1..Len(g.aimports[m])}
ClosedFrom(g, m, S) ==
  Imported(g, m) \subseteq S /\ \A x \in S : Imported(g, x) \subseteq S
Reaches(g, m, t) == \A S \in SUBSET Modules : ClosedFrom(g, m, S) => t \in S

NoRootBefore(g, k) == \A j \in 1..(k - 1) : g.amodules[j] \notin g.roots
IsFirstRoot(g, r) ==
  \E k \in 1..Len(g.amodules) : g.amodules[k] = r /\ r \in g.roots /\ NoRootBefore(g, k)

(* rootImports() sets its answer to "does not" before it has one.          *)
AnsweredNo(m) == rootimports[m] = 1 /\ ~(asking = "root" /\ this = m)

TypeOK ==
  /\ IsGraph(graph)
  /\ insearch \in [Modules -> BOOLEAN]
  /\ selfimports \in [Modules -> 0..2] /\ rootimports \in [Modules -> 0..2]
  /\ asking \in {"nothing", "self", "root"}
  /\ this \in Modules \cup {NoModule} /\ target \in Modules \cup {NoModule}
  /\ at \in 0..Len(graph.amodules)
  /\ stack \in Seq([mod : Modules, i : Nat \ {0}])
  /\ questions \in 0..MaxQuestions

(* Recursion is bounded in an import cycle: below the module that is       *)
(* asked, imports() is never active twice for a module.                    *)
EnteredOnce ==
  \A j \in 2..Len(stack) : \A k \in 2..Len(stack) :
    stack[j].mod = stack[k].mod => j = k

(* selfImports() is exact: "does" for a module on a cycle of imports and   *)
(* "does not" for every other, whatever was searched before.               *)
SelfAnswerExact ==
  \A m \in Modules :
    /\ selfimports[m] = 2 => Reaches(graph, m, m)
    /\ selfimports[m] = 1 => ~Reaches(graph, m, m)

(* If rootImports() says that a module imports a root, it does.            *)
RootAnswerSound ==
  \A m \in Modules :
    rootimports[m] = 2 => \E r \in graph.roots : Reaches(graph, m, r)

(* rootImports() never misses the first root module, however far away, nor *)
(* a root that is imported directly.  In particular it is exact when one   *)
(* file is compiled at a time.                                             *)
NearRootsFound ==
  \A m \in Modules : AnsweredNo(m) =>
    \A r \in graph.roots :
      /\ r \notin Imported(graph, m)
      /\ IsFirstRoot(graph, r) => ~Reaches(graph, m, r)

(* Between questions no mark is left: Module::search and                   *)
(* isPackageAccessible use the same field, and a module that kept its mark *)
(* would have no symbols for them.                                         *)
MarksCleared == asking = "nothing" => insearch = Unmarked

(* The mark is there while a module is being searched and no longer.       *)
MarksDelimitSearch == EnteredOnce /\ MarksCleared

(* What rootImports() promises when a single file is compiled.             *)
RootAnswerNear == RootAnswerSound /\ NearRootsFound

(* Every question is answered, in import cycles too.                       *)
EveryQuestionAnswered == asking # "nothing" ~> asking = "nothing"

=============================================================================
