# A verification project for the D compiler of this repository

The repository holds a D compiler written in C++: a front end
(`src/compiler/src/*.cpp`), a backend (`src/compiler/src/backend`), small
support libraries (`root`, `tk`) and a test suite of 4700 D programs
(`src/compiler/test`). This directory holds TLA+ modules of the part of the
front end whose correctness depends on the *order* in which things happen, the
TLC configurations that check them, and theorems proved with TLAPS.

Paths below are relative to `src/compiler/src`.

## 1. The system

### 1.1 Components, their state and their operations

**Driver** (`mars.cpp`). `tryMain` reads and parses the root modules, calls
`importAll` on each, then `dsymbolSemantic`, drains the queue of deferred
symbols, reports what is left in it, runs `semantic2`, `semantic3` and
`runDeferredSemantic3`, the inliner and the code generator. One thread, one
pass after the other; an error count (`global.errors`) decides at fixed points
whether to stop.

**Module graph** (`dmodule.cpp`, `dimport.cpp`). State: `amodules`, the package
tree, per module `aimports`, `insearch`, a one-entry search cache, `_scope`,
`semanticRun`. Operations: `load`, `parse` (insert into the package tree),
`importAll` (give a scope to each member), `search` (through imports, with
`insearch` to cut cycles), `imports`/`selfImports`/`rootImports`.

**Deferred symbols** (`dmodule.cpp`). State: the arrays `deferred`, `deferred2`,
`deferred3`, the progress mark `dprogress`, the local static `nested`.
Operations: `addDeferredSemantic*`, `runDeferredSemantic*`.

**Aggregates** (`dsymbolsem.cpp`, `dclass.cpp`, `dstruct.cpp`). State of each
class, interface and struct: `semanticRun`, `baseok`, `_scope`, `symtab`,
`inuse`, `errors`, `baseclasses` (an array of `BaseClass` with a `type` and a
`sym`), `baseClass`, `interfaces`, `vtbl`, `fields`, `sizeok`. Operations:
`visit(StructDeclaration)`, `visit(ClassDeclaration)`,
`visit(InterfaceDeclaration)`, `search`, `determineFields`, `determineSize`.
They call each other recursively: a base is analysed from the class that
derives from it, a class from the name lookup that needs it, and anything in
the queue from a template instance in the middle of somebody's members.

**Scopes and constructor flow** (`dscope.cpp`). A stack of `Scope` objects with
a free list and a `nofree` mark for those a deferred declaration keeps. Operations:
`alloc`, `push`, `copy`, `pop`, `setNoFree`, `createGlobal`. `callSuper` and `fieldinit`
are two more fields of a scope, merged over the branches of a constructor
(`mergeCallSuper`, `mergeFieldInit`, `saveFieldInit`).

**Control flow** (`blockexit.cpp`, `statementsem.cpp`). `blockExit()` computes how a
statement may end; returns, `nothrow`, unreachable code and the rewriting of `try`
rest on it.

**Templates** (`dtemplate.cpp`). Instance lists, recursion limits, gagged
(speculative) analysis whose errors are counted apart, `needsCodegen`.

**Semantic 2 and 3, statements, expressions, types** (`semantic2.cpp`,
`semantic3.cpp`, `statementsem.cpp`, `expressionsem.cpp`, `typesem.cpp`, ...).
Function bodies and initialisers; inference of `pure`, `nothrow`, `@safe`, also
through recursive functions.

**Compile-time evaluation, folding, value ranges** (`dinterpret.cpp`,
`constfold.cpp`, `intrange.cpp`). The interpreter keeps a stack of variables
(`values`, `vars`, `savedId`, `frames`, `framepointer`), an address in each variable, and
`start` and `gotoTarget` in each `InterState`; the rest are functions of a syntax tree.

**Lexer and parser, mangling, header/documentation/JSON output, glue, backend,
library writer, linker call, configuration files.** Deterministic translations
of one representation into another, or input and output.

**Root containers** (`root/array.hpp`, `root/stringtable.cpp`, `root/aav.cpp`).
Growable array, string table with open addressing, associative array.

### 1.2 How they interact and what is hard

Nothing runs in parallel: what is hard is *re-entrance*, and *flags that stand for many
executions*. `dsymbolSemantic(d)`
can be active several times for the same `d`, at different places of the same
function. Each activation has local variables (an index into a base list that a
nested activation may shorten, a saved scope, an error count) and returns to
code that has read fields before the call. The protocol that keeps this
consistent is spread over four fields: `semanticRun`, `baseok`, `_scope`
(taken away while a declaration is analysed, given back for the time of a
nested call or for the queue) and `symtab`. Declarations that cannot be
finished are queued; the queue is drained at points nobody can list, is
replaced while it is drained, and gives up when it makes no progress. Which
path is taken depends on the order of the declarations in the file, and D
promises that this order does not matter. The module search, the scopes and the stack of the
interpreter are re-entered in the same way: a mark, a remembered answer, a scope
or an address set by one activation is met by another.

The second kind of difficulty is an analysis that sums up all the executions of a program
in a few flags: constructor flow, `blockExit()`, value ranges. It is wrong for a
combination of constructs that nobody wrote a test for. The models of these build
programs construct by construct and keep, beside the flags, what the program really does.

What would make this correct, component by component:

| component | what must hold |
|---|---|
| aggregates | no cycle of bases survives, even half way; vtbls are copied from finished bases; a null scope or a null `sym` is never used; the order of declarations is irrelevant |
| deferred symbols | no symbol twice, none lost, the drain ends, nothing legal stays in the queue |
| module graph | an import cycle does not stop a search nor change its result; a cached result is never stale; `rootImports` is reachability |
| scopes | a scope that somebody keeps is never reused; `pop()` returns to the caller |
| constructor flow | an accepted constructor constructs and initialises once on every path; a rejected one does not |
| control flow | every way out of a statement is in its flags; what is said of unreachable code is true |
| interpreter | it does what the statements mean; recursion leaves no address behind; every activation reads its own variables |
| value ranges | an expression never leaves its range |
| templates | an error in a gagged analysis leaves no trace; recursion is bounded |
| containers | they implement a map; probing ends |

## 2. The modules

| module | models | source |
|---|---|---|
| `LayoutOrder` | what the first pass promises about vtbls: an abstract specification | |
| `AggregateSemantic` | the first pass over aggregates, the deferred queue and the driver | `dsymbolsem.cpp`, `dclass.cpp`, `dstruct.cpp`, `dmodule.cpp`, `mars.cpp` |
| `ModuleImports` | `imports`, `selfImports`, `rootImports` | `dmodule.cpp` |
| `ModuleSearch` | the search of a name through imported modules, with marks and caches | `dmodule.cpp`, `dsymbol.cpp`, `access.cpp` |
| `CtorFlow` | the flow analysis of constructors | `dscope.cpp`, `expressionsem.cpp`, `statementsem.cpp`, `semantic3.cpp` |
| `BlockExit` | `blockExit()` and what is rewritten because of it | `blockexit.cpp`, `statementsem.cpp` |
| `CtfeStatements` | the jumps of the compile-time interpreter | `dinterpret.cpp` |
| `CtfeStack` | the variables and calls of the compile-time interpreter | `dinterpret.cpp` |
| `ScopeStack` | scopes, their free list, and who keeps them | `dscope.cpp` and its users |
| `InternTable` | a table that hands out one handle per string: an abstract specification | |
| `StringTable` | the hash table that implements it | `root/stringtable.cpp` |
| `IntRange` | value range propagation | `intrange.cpp`, `dcast.cpp` |

`MCx` holds the instances of module `x` for TLC, `xProofs` the theorems about it.
The modules do not share variables:
what one component takes from another is data, chosen in `Init` (the import graph), or an action
that may be taken at any time (a nested analysis).

### 2.1 AggregateSemantic

The *program* is data: a record chosen in `Init` that gives for each
declaration its kind, whether it is opaque (no body), its written bases and the
members that matter, and for the module the order of its items. A base may have
a `via`: resolving its type first looks a name up in that aggregate (as in
`class A : B.Inner`). A member is a `method`, a `field` of some struct type, a
`lookup` (an initialiser or type that names a member `owner.x` through `d.x`) or
an `inst` (a template instance or mixin, which drains the queue).

The *control* is complete. `stack` holds the activations of
`visit(ClassDeclaration)`, `visit(InterfaceDeclaration)`,
`visit(StructDeclaration)`, `ClassDeclaration::search`,
`StructDeclaration::search`, `runDeferredSemantic` and `visit(Module)`; an action
is one stretch of code between two calls that may re-enter:

| actions | code |
|---|---|
| `SemReturnAtOnce`, `SemEnter` | entry of the three `visit`s |
| `SemBaseType`, `SemBaseTyped`, `SemTypesResolved` | the loop that resolves base types, and the test after it |
| `SemNoBaseClass`, `SemCircularBase`, `SemBaseClass`, `SemBaseResolved` | the base class |
| `SemDropIface`, `SemIface`, `SemBaseResolved` | the loop over interfaces |
| `SemBasesDone` | postpone, or settle the bases |
| `SemSymtab`, `SemAncestorsForward`, `SemVtbl` | `Lancestorsdone` up to the vtbl |
| `SemMethod`, `SemField`, `SemLookupMember`, `SemLookedUp`, `SemInstMember` | the members |
| `SemOwnField`, `SemFieldsForward`, `SemFinish` | `determineFields`, structs of fields, the end |
| `SearchEnter` ... `SearchedBase` | the two `search` functions |
| `RunRound`, `RunEach`, `RunRoundDone` | `runDeferredSemantic` |
| `ModuleMember` ... `ModuleEnd`, `DriverDrain`, `DriverCheck` | `visit(Module)` and `tryMain` |

`ag[d]` holds the fields of the declaration, under their names in the code;
`scope` and `symtab` are reduced to what the code asks of them (`symtab` is
`"none"`, `"empty"` for an interface that has a table and no members in it yet,
or `"full"`). A `BaseClass` is named by its position in the written list,
because that is what survives a removal; `btype` and `bsym` are its `type` and
whether its `sym` is set. `Crash` is taken where the code would use a null scope
or a null `sym`. A vtbl is the set of declarations whose methods are in it.

What is abstracted: one module with its object.d class among the declarations;
lookups are leaves (they name a plain member, not a further declaration); errors
are counted but only zero or not is ever used by the properties;
module-level declarations only (no nesting, no templates around an aggregate,
no gagged analysis); no tuples in base lists, deprecation, visibility, C++
classes, sizes and offsets; `searchBase`, a lookup that name resolution also
makes, is not modelled.

### 2.2 LayoutOrder

Four variables: the finished declarations, the parents each took its vtbl from,
its layout, and whether an error was reported. Its only step finishes one
declaration over finished parents, and nothing ever changes afterwards. It says
in ten lines what all the re-entrance is for. `LayoutOrderSpec` in
`AggregateSemantic` is the refinement mapping.

### 2.3 ModuleImports

The code generator decides with `rootImports` whether an instance of a template
that a non-root module uses has to be generated (`needsCodegen`,
`dtemplate.cpp:7375` and `7397`). It is asked after the semantic passes, so the
import graph is data, chosen in `Init`: `amodules` in the order in which modules
were parsed, `aimports` of each in the order in which its imports were analysed
(repetitions and imports of itself included), and the modules with `isRoot()`.

`stack` holds the activations of `imports()`, each a module and its loop index;
`at` is the index of the loop in `rootImports`. The actions are the branches of the
loop body (`ImportsSkip`, `ImportsFollow`, `ImportsReturn`), the loop over roots
(`RootNext`), and the ends of the two questions (`SelfFound`, `SelfNotFound`,
`RootFound`, `RootNotFound`). A hit is returned by every activation at once, so it
empties the stack in one step. `rootImports` is only asked of modules that are not
roots, as at each of its calls; `selfImports` has no caller in this tree.
`Reaches` is the reference: a set is a definition of "everything m imports" when it
holds the imports of `m` and is closed under imports, and `m` reaches what is in each
such set. Nothing of the search is used in it.

Left out: what puts the graph together, and `needsCodegen` itself.

### 2.4 ModuleSearch

`Module::search` asks the module's own table, then the imported scopes, and remembers
the answer to its last question (`cache`). A module that is being searched
answers nothing at once (`insearch`). The tables and imports are variables: between two questions
symbols may be inserted, imports added, and the caches cleared (`SymtabInsert`, `ImportScope`,
`ClearCache`), each with the invalidation that the code performs and no other.

`stack` holds the activations, one per module being searched, each with its flags, its loop
index, what it has found and the error count it saw on entry. `Took` is the loop body after the
call: visibility, overload sets, ambiguity. `Return` is every exit of the function: mark, cache, and
the caller's loop body, because nothing happens in between. An answer is a set of modules: a symbol is named by the
module that declares it. `Offered` is the reference: what the name stands for by the
declarations and the imports alone, with a set closed under public imports instead of a search.

Left out: mixins and aliases among the imported scopes, deprecation, package modules.

### 2.5 CtorFlow

A behaviour is the analysis of one constructor, chosen construct by construct: calls of
`this`/`super`, assignments to fields, `return`, `assert(0)`, `throw`, `goto`, conditions, `?:`, `&&`, loops,
`switch`, labels and blocks. `callSuper` and `fieldinit` are the flag sets of the scope, `noctor` the count
of open loops, `stack` what the suspended visitors have saved. `paths` collects what the paths through the
program do when it runs: how often they call, how often they set a field, how they leave. The flags
are an abstraction of that set and the properties compare the two.

Left out: `try` statements, overlapping fields, static constructors.

### 2.6 BlockExit

A behaviour builds one statement bottom-up: simple statements, then constructs over one or two
statements that are already there. For each the model keeps the flags `blockExit()` computes (`exits`), and
the ways in which control really leaves it (`from`), entered at its top, at a case or at a label. The
operators `Compound`, `IfElse`, `Do`, `For`, `Unrolled`, `Label`, `Case`, `Switch`, `With`, `TryCatch`, `Failure` and `TryFinally`
are the visit functions; the last three include what semantic analysis rewrites because of the flags.
`gaps` names the constructs in a statement for which the flags are known to be wrong (section 5).

Left out: `asm`; expressions are reduced to whether they may throw, and conditions to whether they are constant.

### 2.7 CtfeStatements

A behaviour builds the body of a function. `interpretFunction` does with it what the
interpreter does: the results that bubble up, `gotoTarget`, and `start` for the walk down to the target of a goto, the copy of
the `InterState` in `with` and `catch`. `Meaning` is what the statements mean. Both are run with every outcome of conditions and
calls. Expressions have an outcome and no value.

### 2.8 CtfeStack

`values`, `vars`, `savedId`, `frames`, `framepointer` are `CtfeStack`; `address` is `ctfeAdrOnStack` of each variable.
`todo` is the list of arguments being bound. Beside these the model keeps what the language says: `cells` and `store` give each activation variables
of its own. `Call`, `PushParam`, `BindParam`, `SetParam` are the parts of `interpretFunction` that bind parameters, `EndFrame` its end;
`Declare`, `Assign`, `ScopeBegin` and `ScopeEnd` what happens in a body. `odd` notes that a call has passed the function's own parameter by reference, or one
local twice: `Restored` and `OwnValues` fail then (section 5).

### 2.9 ScopeStack

`heap` holds the scopes: `enclosing`, which also links the free list, the marks `nofree` and `free`, and `freelist`. `stack` is
the current scope of each active call. The actions are the operations of `Scope` and the ways in which the passes use them: a
call pushes, copies, pops or detaches; a declaration is given a scope to keep (`setScope`, `KeepScope`, `KeepCopy`), is taken up again
(`Resume`), a template instance is analysed in the scope of its declaration (`Instantiate`), an enum member remembers a scope for a
message (`QuietUse`, `DeprecatedUse`). They may come in any order that nested calls allow.

### 2.10 StringTable and InternTable

`InternTable`: a table gives each string a handle that never changes and is never shared. `StringTable` is
the code: triangular probing, growth in the middle of `insert` and `update`, pools with 12-bit offsets. Every probe is
a step. The hash function is any function. `InternSpec` is the refinement mapping (`dict`).

### 2.11 IntRange

A state is an integral expression so far: its type, the range the compiler has for it, and the set of values
it can really have. An action applies one operator with a second operand of any range. `SignExtendedNumber` is modelled
with its width and its sign, saturating as the code does; the width is a constant of the machine.

## 3. What is checked

| run | instance | states | properties |
|---|---|---|---|
| `Programs` | 7000 programs of `Object` and three declarations: classes with at most one base, perhaps resolved through a lookup; a class over two interfaces, with duplicates, circles and instances; struct fields, opaque declarations, instances everywhere; in several orders | 419 000 | `TypeOK`, `Acyclic`, `NoNullDereference`, `LaidOutOverBases`, `DeferredOnce`, `NothingForgotten`, `OrderIrrelevant`, `LayoutOrderSpec`, `Termination` |
| `ImportsAll` | 10 648 import graphs over three modules with up to two imports each, any roots, two questions | 999 000 | `MarksDelimitSearch`, `SelfAnswerExact`, `RootAnswerNear`, `EveryQuestionAnswered` |
| `SearchGraphs` | graphs of three modules with cycles (one question), of four without (two), with cycles of public imports (three), and chains with up to two changes between questions | 587 000 | `AnswersExact`, `AnswersSound`, `PrivateStaysPrivate`, `PrivateImportsStayPrivate`, `MarkedIffActive`, `EverySearchEnds` |
| `Constructors` | constructors of up to six constructs, three deep, in seven selections | 2 587 000 | `TypeOK`, `ConstructedOnce`, `InitializedOnce`, `CallRejectionsJustified`, `FieldRejectionsJustified` |
| `Statements` | statements of up to six parts in five selections | 630 000 | `Covered`, `NothrowHonoured`, `Justified` |
| `Functions` | bodies of up to six parts in eight selections, every outcome of three conditions or calls, eight steps | 275 000 | `Interpreted`, `Arrives` |
| `Calls` | a recursive function with a ref parameter, a value parameter, a local and a `with` statement; four activations, nine entries on the stack | 178 000 | `Restored`, `OwnValues` |
| `Scopes` | four scopes, two declarations, one enum member, four current scopes | 281 000 | `NoDangling`, `StackSound` |
| `StringGrow` | four strings under 81 hash functions; a table that grows from two slots to eight; pools of 48 bytes | 638 000 | `OneEntryEach`, `PoolsDisjoint`, `InternSpec`, `EveryCallReturns` |
| `RangeMachines` | four machines: all ranges of types of two and three bits, two operators; division of unsigned types; types as wide as the numbers; unsigned types of four bits for `Exact` | 13 000 | `TypeOK`, `Sound`, `Exact` |
| `Swapped` | two ref parameters, passed on in another order | | the finding of section 5 |
| `Deprecated` | the instance of `Scopes` | | the finding of section 5 |

**The first pass.** Three declarations are enough for each of the hazards: a cycle of
length three, a diamond, a declaration waiting for one that waits for one in
progress, a derived declaration re-entered from the lookup of its own base.
The stack, the queue and the error count need no bound.

* `Acyclic`: every set of declarations has one without an edge into the set, in
  *every* state, so also while other activations are suspended.
* `LaidOutOverBases`: a declaration that has been entered never falls back to open
  bases; without an error a class is finished after the members of its bases, and has
  the methods of all its ancestors. The code's way out ("Forward referencee of one or more
  bases, try again later") is never taken by module-level declarations: when the base of `d` is
  being resolved by an outer activation, the inner one resolves it again, to the end.
* `LayoutOrderSpec`: the refinement.
* `NoNullDereference`: the scope handed around is there whenever it is used, and no
  `BaseClass` without a symbol is read.
* `DeferredOnce`, `NothingForgotten`: the queue holds a symbol once and loses none.
* `OrderIrrelevant`: a legal program in which no declaration needs itself is
  analysed without error and with an empty queue at the end.
  `WellFounded` is the reference definition of "legal": it is written over the
  program alone and does not mention the algorithm.
* `Termination`: the driver reaches a verdict, also for circular programs.

The model's verdict (accepted, refused, crashed) was compared with that of the
compiler, built from this tree, on several thousand of these programs written out as D source.
They agree, except that
the compiler itself recurses without end in some *erroneous* programs, after
having reported the error, inside `searchBase`, which the model leaves out; and
that a base resolved through a lookup, which had to be written as a template
instance, is sometimes refused as a recursive expansion first.

**Imports and names.** `SelfAnswerExact`, `RootAnswerNear`: the remembered answers against reachability; "no" can be
relied on for the first root module, however far, and for one imported directly. `MarksDelimitSearch`, `MarkedIffActive`: the
recursion is bounded by the number of modules and leaves no mark, which three functions read. `AnswersExact`: a search finds what is
offered, all of it in an overload set, and reports exactly the ambiguous names, for the first question in a program and for any question in a program without
import cycles and changes. `AnswersSound`: nothing is invented, cycles and older answers or not. `PrivateStaysPrivate`, `PrivateImportsStayPrivate`: what a module
remembers never shows another module's private symbol, nor what is reached through a private import.
Three modules give cycles of each length through the asked module and past it; four a diamond;
two questions let the first leave something behind for the second.

**Control flow.** The sizes allow each pair of constructs inside a third, with a statement before and after. The selections keep
combinations that matter together. `ConstructedOnce`, `InitializedOnce`: what is accepted constructs the base class and initialises its fields once on every path that
completes. `CallRejectionsJustified`, `FieldRejectionsJustified`: what is rejected does not, in constructors without exceptions and
`goto` (and, for fields, without `switch`).
`Covered`: each way out of a statement is in its flags. `NothrowHonoured`: what is accepted as `nothrow` lets no Exception out. `Justified`: what is said to be unreachable
is, wherever control can come from, and a return is missed only at an end that can be reached (in code without jumps, labels, `switch` and `try`).

**Compile-time evaluation.** `Interpreted`: the interpreter does the same steps in the same order with the same end as the statements mean. `Arrives`: it finds the target of
every jump. `Restored`: the end of a call gives each variable the address it had when the call began. `OwnValues`: every activation reads its own values. Four
activations are one more than a ref parameter can be passed through before its address repeats.

**Scopes.** `NoDangling`: nothing that a call works in, a declaration keeps, or that encloses these is given back. `StackSound`: the free list is
exactly the free scopes and ends, and `pop()` returns to the scope of its caller.

**Containers and ranges.** `OneEntryEach`, `PoolsDisjoint`, `InternSpec`, `EveryCallReturns`. `Sound`: values stay in the range. `Exact`: bounds of `+`, `-`, `&`, `|` of unsigned
operands occur. Two bits show every wrap and sign case of one operator; three bits and two operators ranges that no type has.

Deadlock is checked in `Programs` and `StringGrow`. In the others nobody has to ask again, and the building of a program stops at its bound.

**Fairness.** The compiler is one thread that is never blocked: whenever it can take a step it takes one. `AggregateSemantic` has weak fairness of `Next`, in which the
choice is deterministic once the program is chosen. `ModuleImports` and `ModuleSearch` have weak fairness of `Step`, the
steps of a search that has begun, and none of asking. `StringTable` has weak fairness of `Work`, the steps of a call, and none of calling. The others
claim no liveness.

## 4. What is proved

All theorems hold for arbitrary constants under the named assumptions of each module.

**The first pass** (`ConstantsAssumption`: `Object` is a declaration, `NoDecl` is not,
and each program is what the parser produces).

* `TypeCorrect == Spec => []TypeOK`. `TypeOK` is not inductive: that `Top.d` is a
  declaration when an activation is one of `semantic`, or that `baseclasses` holds
  positions of *this* declaration's list, is needed to type the next step. The
  inductive invariant is `TypeInv`, which types each activation by its function
  (`GoodFrame`) and each base list by its owner. One lemma per action.
* `QueuedOnce == Spec => []DeferredOnce`. With `TypeInv`, the queue is injective:
  all additions go through `AddDeferred`, and the only other change empties it.
* `NoInheritanceCycle == Spec => []Acyclic`. The inductive invariant is `EdgeInv`:
  `TypeInv`, `Acyclic` and `BasesKept`: a list holds each
  `BaseClass` once, an entry with a symbol that is not an interface is the
  first entry of a class and is its `baseClass`, and `Object` has no base.
  It is needed because the two tests of the code look along different edges: the
  circle test for classes follows `baseClass` only, so one has to know that from a
  class no other edge leads to a class, and that from an interface none leads to a
  class at all. The heart is `OneMoreEdge`: an edge
  from `d` to `c` keeps the graph acyclic if `d` cannot be reached from `c`; the
  walks are `ReachBy`, a least fixed point, and `ReachClosed` and `ReachLeast` are
  all that is used of it. Removals can only take edges away (`FewerEdges`).
* `NoneForgotten == Spec => []NothingForgotten`. `CareInv`: a declaration whose scope was taken away is in the hands of an
  activation (`InHand`); as long as there is no error each declaration is finished, in the queue, or some activation on the stack
  is at it or will come to it, be it the module's loop over its members or a round of the drain (`Remembered`); and nothing
  is left when the driver goes on (`AtEnd`). That each declaration is a member of the module is part of `IsProgram`.
* `BasesAreSettled == Spec => []BasesSettled`, the first part of `LaidOutOverBases`. `StandInv`: how far `baseok`, `symtab` and
  `semanticRun` have come together (`Stands`); what an activation may rely on at its label whatever ran meanwhile (`Ready`); a call of
  `resolveBase()` is for the base that the caller waits for (`Chained`) and leaves it settled (`TopClosed`); and a declaration has a scope
  unless an activation works in it (`Scoped`).
* `NoNullEver == Spec => [](OnlyLastRepeats => NoNullDereference)`. `StandInv` gives the scope of every activation. For the symbol of
  every base, `NullInv`: types that have been resolved stay resolved for the activations below (`Sees`), a list of bases is an
  increasing selection of the written one (`Ordered`), the interfaces that the loop has passed have their symbol (`Passed`), whatever an inner
  activation of the same declaration removes, since it removes nothing that has a symbol but a duplicate (`WithSym`, from
  `EdgeInv`). A duplicate is where the hypothesis comes in: `OnlyLastRepeats` says that only the last entry of a list repeats an
  earlier one. Without it the theorem is false, in the model and in the compiler (section 5, the repeated interface).

**Imports** (`ImportsAssumption`). `ImportsTyped`, `MarksEnd`, `SelfImportsExact`,
`RootImportsNear`: every safety property of the run. The invariant is `ImportsInv`. A "yes"
rests on `Followed` (each activation is for a module that is reached) and `ReachesNext`. A
"no" rests on `Behind` (what an activation has gone past is marked and is not the target)
and `Explored` (so is each import of a module whose activation is over): when the stack is
empty, the marked modules with the asked one are closed under imports and the target is not
imported by any (`ClosedWithout`). `Explored` only holds if the search began without
marks (`Fresh`), which is the case for `selfImports` and for the first root: this is
exactly where the proof for the other roots breaks, and where the code does.

**Names** (`SearchAssumption`). `SearchTypes`; `MarksExact` (`MarkedIffActive`); and what is said of the answers.

* `PrivateHidden == Spec => []PrivateStaysPrivate`. `PrivateInv`: a symbol that is shown to an asker outside its
  module is not private (`Shows`), for the caches, for what each activation has found so far, and for what
  is on its way back, where the asker is known from the flags of the activation (`Inner`).
* `PrivateImportsKept == Spec => []PrivateImportsStayPrivate`. Two invariants: each activation was called for an
  import that its caller does not skip (`CallInv`), and what a cache or an activation holds is reached through public
  imports from the module it belongs to (`PublicInv`). Changes between questions only add to what is public for the
  cache that was dropped; the argument is monotone in the import relation.
* `NothingElseFound == Spec => []AnswersSound`. `ChainInv`: what is offered to a nested search is offered to
  the search that called it. `SoundInv`: caches, what has been found so far and the ambiguities reported since an activation
  began are sound for its module. It speaks of the states before the first change, as `AnswersSound` does.
* `NamesExact == Spec => []AnswersExact`. Nothing is left out, and no ambiguity is passed over. Where imports form no cycle (`AcyclicInv`):
  each cache is right, and each activation has found all that the imports it has gone past offer (`Gathers`), unless it has met a conflict.
  With cycles that is false of the inner activations, whose search is cut at a marked module, and of what they leave in the caches. The
  first question is right all the same (`OnceInv`): the modules that have been searched or are being searched (`Begun`) are closed under public imports
  as far as they do not declare the name (`Closed`), and what the searched ones declare is held by some activation on the stack (`Held`), until
  a conflict is met. When the outermost activation ends, `Begun` contains the reference's closed set and it holds everything. A second question would find caches that
  do not satisfy `Closed`: this is where the proof needs `Fresh`, and where the code is wrong (section 5).

**The string table** (`SizesAssumption`). `TableTypes`, `EntriesUnique`, `StringsApart`, and the refinement `TableInterns`. The
invariant says of each entry that the slots before it on its probe sequence are used, and of the middle of `grow()` that the entries of the old table are split between those moved
and those to come. That probing ends is checked by TLC only.

**Constructor flow** (`SortAssumption`). `FlowTyped == Spec => []TypeOK`; and, for constructors of any size and nesting under `Settled`,
`BasesConstructedOnce == Spec => []ConstructedOnce` and `FieldsInitializedOnce == Spec => []InitializedOnce`. `Settled` is the setting of the run:
conditions of `if` and `do` neither call nor assign, loops and switches hold no `return` or `assert(0)`, and there is a path to every construct.
The theorems are false without any of the three, in the model and in the compiler (section 5).

The invariant is `Tracked`. `Level(e, c, P)` says of a stretch of the program that starts with flags `e`, ends with flags `c` and does `P`: whatever a path
may have done before, given `e` (`LiveCalls`, `LiveSets`), what it has done after a path of `P` is allowed by `c`, or it has left in a way that is
allowed (`GoneCalls`, `GoneSets`); no flag is forgotten that later code relies on (`Grows`); and inside a loop no path calls a constructor or sets a `const` field. It holds from each open frame to the
next, from the innermost frame to the construct being analysed, and for each part that is finished. Stretches compose (`Compose`), which is a simple
statement; two of them merge (`MergeLevel`, the cases of `mergeCallSuper` and `mergeFieldInit`), which is the end of a condition; a scope is popped
(`PopLevel`, `PopBranch`), a loop repeats (`LoopLevel`, `RepeatLevel`) and a label collects its `goto`s (`LabelLevel`). The frames are the same for calls and for
fields, so one layer (`Watched`, `Seen`) serves both, and each action has one lemma. At the end no frame is open and what is left speaks of whole paths.

`CallsRejectedRightly == Spec => []CallRejectionsJustified` and `FieldsRejectedRightly == Spec => []FieldRejectionsJustified`, again under `Settled`,
are the other direction: each flag has a path behind it. This cannot be said of a stretch by itself, since what makes a flag true may
have happened before it; it is said of the paths from the beginning of the constructor to a point (`Unfolds` gives those to each open frame). There
(`Fair`) the flags either fit the paths (`GoodCalls`, `GoodSets`: a call or an assignment that a flag claims is made by some path, one that is missing is missed by some),
or some path is wrong already (`Doomed`). They must be allowed to stop fitting: a `return` that skips the constructor is reported once, and what is merged after it means
nothing. A report is accounted for by `Blame`: a path is wrong at the point where the analysis is, or at the end of the first branch of an open
condition, whose paths come back when the condition ends (`Owed`), or will be when an open loop runs again (`Pending`). No step loses the blame (`JudgePush`, `JudgeTurn`, `JudgePop`, and
one lemma per action), and at the end what is left speaks of whole paths. A loop with a call in it needs no `Pending`: a
path that skips it, or runs it twice, is wrong as soon as it ends (`FairRepeat`). Without the exceptions in the two properties they are false: a branch that
ends in `throw` or `goto` is compared as if it went on, a path that is wrong may never complete because an `assert(0)` follows (TLC finds such constructors of a
few constructs), and an assignment in a `switch` counts as one in a loop.

**Statement exits** (`SortAssumption`). `TypeCorrect`, `FlagsCover`, `NothrowIsHonoured`, `NoFalseAlarms`, for statements of any size and nesting. A behaviour builds
a statement out of finished ones, so an invariant over behaviours is an induction over statements: one lemma per construct says that it keeps `Known` (`Covers` unless there is a gap,
with the facts about `jumps`, `label` and `comeFrom` that the next construct asks for).
`NoFalseAlarms` is the other direction, flags that are justified by a way out. `Clear` carries the messages and rests on `Covers`. `Tight` says of
`fallthru`, `break` and `continue` together that they really happen from the top: the end of a loop needs its `break`s to be real. It holds without `Guessed`:
after a `return`, a nested block with a label keeps the flags of its unreachable first part, a `finally` that throws leaves a `break` in
the flags, `goto` makes the end of any `for` reachable, and handlers count that nothing calls.

**The stack of the interpreter** (`ProgramAssumption`). `TypeCorrect` and `RestoredAlways`. `StackInv` speaks of every suspended
activation: the part of the stack between its frame pointer and the next (`Base`, `Limit`), the addresses as they were when the next
call began (`Adr`), and that unwinding this part would restore what the activation found (`FrameOK`), for the variables that can be trusted. The end of a call
takes one of these parts away.

`OwnValuesAlways == Spec => []OwnValues`. `ValueInv` beside `StackInv`: a `ref` parameter names a cell that is no `ref` of an
activation below, and has the address of that cell, or of an entry of its own frame that holds the variable of another function
with that address; the arguments still to be passed have the address their target had when the call began; and a
variable of the called function has no entry in the new frame yet. The last two are what makes the order of the code
right: all arguments are evaluated before any parameter is pushed.

**Scopes** (`NilAssumption`). `TypeCorrect`, `NothingDangles`, `StackAlwaysSound`. The free list and the chains of enclosing scopes use the same
pointer; `Chain` is a least fixed point, with lemmas for what a change of one pointer does to it. The invariant says that what is marked is closed
under `enclosing`, that each current scope is marked or stands on the stack above the one it encloses, and that what a declaration keeps is marked.

What is checked by TLC only:

* **Liveness** (`Termination`, `EveryQuestionAnswered`, `EverySearchEnds`, `EveryCallReturns`) and deadlock: the provers here do no
  fairness and no `ENABLED`.
* **`IntRange`**: `Sound` and `Exact` are about functions defined by recursion over bits, an induction over data.
* **`CtfeStatements`**: the reference semantics is recursive over syntax trees (`RECURSIVE`).
* **`LaidOutOverBases`** beyond `BasesSettled`, `LayoutOrderSpec` and `OrderIrrelevant`: they hold for the families of `Programs` and not for every
  program that `IsProgram` admits, since the interface that is declared done too early (section 5) is such a program.
* Nothing is claimed of the message "switch case fallthrough": in `case 1: final switch (x) { f(); } case 2:` it is given for code that is never
  run, since the flags of a body count although no case leads into it.

## 5. Disagreements between code and documentation

With a run:

1. **Ref parameters that are passed on** (`Swapped`). The stack of the interpreter keeps "the previous stack address of that variable, so that we can
   restore it" (`dinterpret.cpp:59`). A recursive call that passes the function's own ref parameters in another order leaves them with
   addresses they did not have. A build evaluates such a function to 2020 where it returns 1020 at run time.
2. **A deprecated enum member** (`Deprecated`). `EnumMember::getVarExp` (`denum.cpp:381`) keeps a scope without
   `setNoFree()`. If the message is not needed at once, the scope is given back and later pushed onto, against the assertion at `dscope.cpp:152`.
   A build stops there on the program that PROJECT.json quotes.

Met while modelling; the instances that show them are left out of the runs, and properties name them as exceptions where they meet them:

* **A repeated interface.** `test/fail_compilation/fail124.d` expects two errors for `class D : T, T, T`.
  After removing the second entry the inner `continue` (`dsymbolsem.cpp:4149`) does
  not restart the outer loop, which steps over the third entry; its `sym` stays null
  and `copyBaseInterfaces` (`dclass.cpp:971`) uses it. `Programs` has no interface three times in one list.
* **A base that names its derived class.** The
  comment at `dsymbolsem.cpp:4249` says a base may refer to a member of the derived
  class "as a normal forward reference". If the derived class is being analysed by
  a lookup and its base, declared later, looks a member
  up in it, the lookup reports a forward reference although there is no
  circle: `class A { enum x = C.y; } class C : B { enum y = 1; } class B { enum z = C.y; }`
  is refused.
* **An interface declared done too early.** The same
  comment says that bases are finished before the members. A nested activation of an
  interface marks it as done (`dsymbolsem.cpp:4555`) while the outer one is still in its
  members: a class in the queue is then laid out over an interface without methods. The interfaces of the class over two interfaces have no template instances in `Programs`.
* **A root that is not seen.** "Return true if module
  imports root module" (`dmodule.cpp:1051`), but the marks are not cleared between two roots
  (`dmodule.cpp:1062-1066`). Two objects of one program can each leave a template's function to the other.
* **Names after a cycle or a change.** A module that was searched while its importer was
  marked remembers an answer without what is reached through the importer, and after a change of another module a remembered answer is stale:
  `Fresh` in `AnswersExact`.
* **Constructors.** Each of these is accepted by a build, and each is an exception of the properties of `CtorFlow` or of `Settled`. A `return`
  before `assert(0)` in one branch is forgotten, a `goto` may pass over a call, and calls in conditions of `if` and in `switch` are merged with flags
  from before or after. Each hypothesis of `Settled` excludes a `const` field that is set twice: `do {} while ((f = c) < 3);` in a condition,
  `if (c) { while (n) assert(0); f = 1; } else {} f = 2;` with an exit in a loop, and `if (c) { f = 1; goto L; return; L:; } else {} f = 2;` with dead code.
  Met while proving:
  `if (c) { if (d) { super(); return; } assert(0); } else assert(0);` constructs the base twice, because both branches are halted, which leaves
  `CSXhalt` alone (`dscope.cpp:246`), and `super()` is inserted before the body. `f = 1; this();` sets a `const` field twice.
  `if (c) { x && assert(0); f = 1; } else {} f = 2;` does too: `&&` merges `callSuper` but not `fieldinit` (`expressionsem.cpp:9435`), so the branch counts as halted;
  and `c && (f = S(1)).get();` leaves a field with `@disable this()` uninitialised.
* **Value ranges.** A divisor whose range goes from a negative number to 0 gives a range that is too small; numbers of 64 bits saturate where the
  program wraps.
* **Statement exits.** The five `Gaps`: `break` out of a `do` whose body does not end, `continue` with a label in a `do`,
  `break` in a `foreach` over a tuple, a label where a constant condition does not lead, and a `Throwable` of static type that `catch (Exception)` is taken to catch.
* **Jumps at compile time.** `SecondJump`, `GotoInFinally`, `BreakInFinally`, `GotoInTry`, each confirmed with a build: a second `goto` inside `with` loops for ever; a `goto` in `finally` is
  dropped; a labelled `break` through a `finally` with a loop gives 2 for 0; after a `goto` inside a `try` body an exception is not caught.
* **Ref parameters** once more: the assertion at `dinterpret.cpp:903` fails where a ref parameter is passed on, or one local twice.

## 6. What is not modelled

The backend and the glue (80 000 lines of code generation), input and output
(library and object formats, headers, documentation, JSON, options), the lexer and the
parser are deterministic translations without the interleavings and histories that a model
checker is for. The visitors over expressions and types (`expressionsem.cpp`, `mtype.cpp`, `typesem.cpp`, `dtemplate.cpp`) are the largest part of the
front end; their state is local to a recursive call, and a faithful model of a visitor is the visitor.
So the modules cover a few per cent of the lines of the repository, chosen for their protocol and not for their
size. Next in line would be:

* `deferred2` and `deferred3`, walked by index while the analysed symbols add to them (`dmodule.cpp:979`); it needs the third pass and the inliner, which
  decide where the entries come from.
* `searchBase` (`dclass.cpp:413`), a walk over base types as written.
* Template instances: instance lists, gagged analysis, `needsCodegen` over `ModuleImports`.
* Attribute inference through recursive functions, in `semantic3`.
