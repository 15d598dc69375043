----------------------- MODULE AggregateSemanticProofs -----------------------
(***************************************************************************)
(* Theorems about AggregateSemantic, for every set of declarations and     *)
(* every program.                                                          *)
(***************************************************************************)
EXTENDS AggregateSemantic, SequenceTheorems, TLAPS

(* What an activation on the stack may look like.                          *)
GoodFrame ==
  {f \in ActivationType :
     /\ f.fn \in {"semantic", "search"} => f.d \in Decls
     /\ f.fn = "semantic" => f.b \in 0..Len(prog.bases[f.d])
     /\ f.fn = "semantic" /\ f.pc = "base" => IsClass(f.d)}

AgOK ==
  /\ ag \in [Decls -> AggregateType]
  /\ \A d \in Decls : ag[d].baseclasses \in Seq(0..Len(prog.bases[d]))
StackOK == stack \in Seq(GoodFrame)
RestOK ==
  /\ bsym \in [Decls -> SUBSET Nat]
  /\ deferred \in Seq(Decls)
  /\ dprogress \in BOOLEAN /\ nested \in BOOLEAN /\ found \in BOOLEAN
  /\ errors \in Nat
  /\ phase \in {"semantic", "deferred", "done", "fatal", "crashed"}

(* The inductive form of TypeOK.                                           *)
TypeInv == IsProgram(prog) /\ AgOK /\ StackOK /\ RestOK

----------------------------------------------------------------------------
(* Sequences and activations.                                              *)

(* The stack operations keep a stack of good activations.                  *)
LEMMA ReplaceTop ==
  ASSUME NEW S, NEW s \in Seq(S), s # <<>>, NEW f \in S
  PROVE  [s EXCEPT ![Len(s)] = f] \in Seq(S)
  BY ExceptSeq, LenProperties, EmptySeq

LEMMA PushOn ==
  ASSUME NEW S, NEW s \in Seq(S), s # <<>>, NEW f \in S, NEW g \in S
  PROVE  Append([s EXCEPT ![Len(s)] = f], g) \in Seq(S)
  BY ReplaceTop, AppendProperties

LEMMA PopOff ==
  ASSUME NEW S, NEW s \in Seq(S), s # <<>>
  PROVE  SubSeq(s, 1, Len(s) - 1) \in Seq(S)
<1>1. Len(s) \in Nat \ {0}
  BY EmptySeq
<1>2. \A i \in 1..(Len(s) - 1) : s[i] \in S
  BY <1>1, ElementOfSeq
<1> QED
  BY <1>1, <1>2, SubSeqProperties

LEMMA TopIsGood ==
  ASSUME StackOK, stack # <<>>
  PROVE  Top \in GoodFrame
<1>1. Len(stack) \in 1..Len(stack)
  BY EmptySeq DEF StackOK
<1> QED
  BY <1>1, ElementOfSeq DEF StackOK, Top

LEMMA SemanticActivation ==
  ASSUME TypeInv, NEW d \in Decls, NEW sc \in BOOLEAN
  PROVE  Activation("semantic", d, sc) \in GoodFrame
<1>1. Len(prog.bases[d]) \in Nat
  BY LenProperties DEF TypeInv, IsProgram
<1> QED
  BY <1>1 DEF Activation, GoodFrame, ActivationType, Labels, MaybeDecl, TypeInv, RestOK

LEMMA SearchActivation ==
  ASSUME TypeInv, NEW d \in Decls, NEW owner \in MaybeDecl
  PROVE  Searching(d, owner) \in GoodFrame
<1> DEFINE f == Activation("search", d, FALSE)
<1>1. f \in GoodFrame /\ f.fn = "search" /\ f.d = d
  BY DEF Activation, GoodFrame, ActivationType, Labels, MaybeDecl, TypeInv, RestOK
<1> HIDE DEF f
<1>2. [f EXCEPT !.owner = owner] \in GoodFrame
  BY <1>1 DEF GoodFrame, ActivationType, Labels
<1> QED
  BY <1>2 DEF Searching, f

LEMMA RunActivation ==
  ASSUME TypeInv
  PROVE  Activation("run", NoDecl, FALSE) \in GoodFrame
  BY DEF Activation, GoodFrame, ActivationType, Labels, MaybeDecl, TypeInv, RestOK

LEMMA RemoveAtType ==
  ASSUME NEW S, NEW s \in Seq(S), NEW j \in 1..Len(s)
  PROVE  /\ RemoveAt(s, j) \in Seq(S)
         /\ Len(RemoveAt(s, j)) = Len(s) - 1
         /\ \A x \in 1..(Len(s) - 1) :
              RemoveAt(s, j)[x] = IF x < j THEN s[x] ELSE s[x + 1]
<1>1. Len(s) \in Nat /\ \A x \in 1..Len(s) : s[x] \in S
  BY LenProperties, ElementOfSeq
<1>2. \A x \in 1..(Len(s) - 1) : (IF x < j THEN s[x] ELSE s[x + 1]) \in S
  BY <1>1
<1>3. Len(s) - 1 \in Nat
  BY <1>1
<1>4. RemoveAt(s, j) \in [1..(Len(s) - 1) -> S]
  BY <1>2 DEF RemoveAt
<1> QED
  BY <1>3, <1>4, SeqDef, LenProperties DEF RemoveAt

LEMMA AddDeferredType ==
  ASSUME NEW q \in Seq(Decls), NEW d \in Decls
  PROVE  AddDeferred(q, d) \in Seq(Decls) /\ AddIfScoped(q, d) \in Seq(Decls)
  BY AppendProperties DEF AddDeferred, AddIfScoped
----------------------------------------------------------------------------
(* How the actions change an activation, an aggregate and the stack.       *)

(* Moving an activation on keeps it good.                                  *)
LEMMA FrameMoves ==
  ASSUME NEW f \in GoodFrame, NEW pc \in Labels, NEW i \in Nat \ {0},
         f.fn = "semantic" /\ pc = "base" => IsClass(f.d)
  PROVE  /\ [f EXCEPT !.pc = pc, !.i = i] \in GoodFrame
         /\ [f EXCEPT !.pc = pc] \in GoodFrame
  BY DEF GoodFrame, ActivationType

LEMMA FrameSteps ==
  ASSUME NEW f \in GoodFrame, NEW i \in Nat \ {0}
  PROVE  /\ [f EXCEPT !.i = i] \in GoodFrame
         /\ [f EXCEPT !.i = i, !.scx = TRUE] \in GoodFrame
  BY DEF GoodFrame, ActivationType

LEMMA FrameCalls ==
  ASSUME NEW f \in GoodFrame, NEW pc \in Labels \ {"base"},
         f.fn = "semantic", NEW b \in 0..Len(prog.bases[f.d]), b \in Nat
  PROVE  [f EXCEPT !.pc = pc, !.b = b, !.scx = TRUE] \in GoodFrame
  BY DEF GoodFrame, ActivationType

LEMMA FrameEnters ==
  ASSUME NEW f \in GoodFrame, NEW pc \in Labels \ {"base"}, NEW x \in BOOLEAN
  PROVE  [f EXCEPT !.sc = TRUE, !.scx = x, !.pc = pc] \in GoodFrame
  BY DEF GoodFrame, ActivationType

LEMMA FrameRuns ==
  ASSUME NEW f \in GoodFrame, f.fn = "run", NEW q \in Seq(Decls)
  PROVE  [f EXCEPT !.pc = "each", !.i = 1, !.todo = q] \in GoodFrame
<1>1. [f EXCEPT !.pc = "each", !.i = 1] \in GoodFrame
  <2>1. "each" \in Labels /\ 1 \in Nat \ {0} /\ f.fn # "semantic"
    BY DEF Labels
  <2> QED
    BY <2>1, FrameMoves
<1>2. \A g \in GoodFrame : [g EXCEPT !.todo = q] \in GoodFrame
  BY DEF GoodFrame, ActivationType
<1> QED
  BY <1>1, <1>2

(* One aggregate changes.                                                  *)
LEMMA AgChange ==
  ASSUME AgOK, prog' = prog, NEW d \in Decls, NEW r \in AggregateType,
         r.baseclasses \in Seq(0..Len(prog.bases[d])), ag' = [ag EXCEPT ![d] = r]
  PROVE  AgOK'
<1>1. ag \in [Decls -> AggregateType]
  BY DEF AgOK
<1>2. ag' \in [Decls -> AggregateType]
  BY <1>1
<1>3. \A x \in Decls : ag'[x] = IF x = d THEN r ELSE ag[x]
  BY <1>1
<1> QED
  BY <1>2, <1>3 DEF AgOK

(* The fields an action may set, one after the other.                      *)
LEMMA SetFlag ==
  ASSUME NEW q \in AggregateType, NEW v \in BOOLEAN
  PROVE  /\ [q EXCEPT !.scope = v] \in AggregateType
         /\ [q EXCEPT !.inuse = v] \in AggregateType
         /\ [q EXCEPT !.bad = v] \in AggregateType
         /\ [q EXCEPT !.membersRun = v] \in AggregateType
  BY DEF AggregateType

LEMMA SetPass ==
  ASSUME NEW q \in AggregateType
  PROVE  /\ \A v \in {"init", "semantic", "done"} :
              [q EXCEPT !.semanticRun = v] \in AggregateType
         /\ \A v \in {"none", "in", "done", "semanticdone"} :
              [q EXCEPT !.baseok = v] \in AggregateType
         /\ \A v \in {"none", "empty", "full"} :
              [q EXCEPT !.symtab = v] \in AggregateType
  BY DEF AggregateType

LEMMA SetBase ==
  ASSUME NEW q \in AggregateType
  PROVE  /\ \A v \in MaybeDecl : [q EXCEPT !.baseClass = v] \in AggregateType
         /\ \A v \in SUBSET Decls : [q EXCEPT !.vtbl = v] \in AggregateType
         /\ \A v \in Seq(Nat) : [q EXCEPT !.baseclasses = v] \in AggregateType
  BY DEF AggregateType

LEMMA FieldTypes ==
  ASSUME TypeInv, NEW d \in Decls
  PROVE  /\ ag[d] \in AggregateType
         /\ ag[d].semanticRun \in {"init", "semantic", "done"}
         /\ ag[d].baseok \in {"none", "in", "done", "semanticdone"}
         /\ ag[d].symtab \in {"none", "empty", "full"}
         /\ ag[d].scope \in BOOLEAN /\ ag[d].bad \in BOOLEAN
         /\ ag[d].baseClass \in MaybeDecl /\ ag[d].vtbl \in SUBSET Decls
         /\ BaseList(d) = ag[d].baseclasses
         /\ BaseList(d) \in Seq(0..Len(prog.bases[d])) /\ BaseList(d) \in Seq(Nat)
         /\ Len(BaseList(d)) \in Nat /\ Len(prog.bases[d]) \in Nat
<1>1. ag[d] \in AggregateType /\ ag[d].baseclasses \in Seq(0..Len(prog.bases[d]))
  BY DEF TypeInv, AgOK
<1>2. Len(prog.bases[d]) \in Nat
  BY LenProperties DEF TypeInv, IsProgram
<1> QED
  BY <1>1, <1>2, LenProperties DEF AggregateType, BaseList

(* The parts of TypeInv together, in the next state of an action.          *)
LEMMA Together ==
  ASSUME TypeInv, prog' = prog, AgOK', stack' \in Seq(GoodFrame), RestOK'
  PROVE  TypeInv'
<1>1. GoodFrame' = GoodFrame
  BY DEF GoodFrame, IsClass
<1> QED
  BY <1>1 DEF TypeInv, StackOK

LEMMA SameAg == ASSUME AgOK, UNCHANGED <<prog, ag>> PROVE AgOK'
  BY DEF AgOK

(* What is known in an activation.                                         *)
LEMMA InActivation ==
  ASSUME TypeInv, NEW fn, NEW pc, At(fn, pc)
  PROVE  /\ stack # <<>> /\ stack \in Seq(GoodFrame) /\ Top \in GoodFrame
         /\ Top.fn = fn /\ Top.pc = pc
         /\ Top.i \in Nat \ {0} /\ Top.errors \in Nat /\ Top.todo \in Seq(Decls)
         /\ Top.sc \in BOOLEAN /\ Top.owner \in MaybeDecl
         /\ fn \in {"semantic", "search"} => Top.d \in Decls
         /\ fn = "semantic" => Top.b \in 0..Len(prog.bases[Top.d])
         /\ fn = "semantic" /\ pc = "base" => IsClass(Top.d)
<1>1. stack # <<>> /\ Top \in GoodFrame /\ Top.fn = fn /\ Top.pc = pc
  BY TopIsGood DEF TypeInv, At
<1> QED
  BY <1>1 DEF GoodFrame, ActivationType, TypeInv, StackOK

LEMMA GotoGood ==
  ASSUME TypeInv, stack # <<>>, Top \in GoodFrame,
         NEW pc \in Labels, NEW i \in Nat \ {0},
         Top.fn = "semantic" /\ pc = "base" => IsClass(Top.d), Goto(pc, i)
  PROVE  stack' \in Seq(GoodFrame)
  BY FrameMoves, ReplaceTop DEF Goto, Become, TypeInv, StackOK

LEMMA BecomeGood ==
  ASSUME TypeInv, stack # <<>>, NEW f \in GoodFrame, Become(f)
  PROVE  stack' \in Seq(GoodFrame)
  BY ReplaceTop DEF Become, TypeInv, StackOK

LEMMA CallGood ==
  ASSUME TypeInv, stack # <<>>, NEW f \in GoodFrame, NEW g \in GoodFrame, Call(f, g)
  PROVE  stack' \in Seq(GoodFrame)
  BY PushOn DEF Call, TypeInv, StackOK

LEMMA ReturnGood ==
  ASSUME TypeInv, stack # <<>>, Return
  PROVE  stack' \in Seq(GoodFrame)
  BY PopOff DEF Return, TypeInv, StackOK

(* The declaration a BaseClass stands for.                                 *)
LEMMA BaseDeclType ==
  ASSUME TypeInv, NEW d \in Decls, NEW k \in 0..Len(prog.bases[d])
  PROVE  /\ BaseDecl(d, k) \in Decls
         /\ k # 0 => prog.bases[d][k].via \in MaybeDecl
<1>1. prog.bases[d] \in Seq(BaseRefs)
  BY DEF TypeInv, IsProgram
<1>2. CASE k = 0
  BY <1>2, ConstantsAssumption DEF BaseDecl
<1>3. CASE k # 0
  <2>1. Len(prog.bases[d]) \in Nat
    BY <1>1, LenProperties
  <2>2. k \in 1..Len(prog.bases[d])
    BY <1>3, <2>1
  <2>3. prog.bases[d][k] \in BaseRefs
    BY <1>1, <2>2, ElementOfSeq
  <2> QED
    BY <1>3, <2>3 DEF BaseDecl, BaseRefs
<1> QED
  BY <1>2, <1>3

LEMMA BaseListElement ==
  ASSUME TypeInv, NEW d \in Decls, NEW j \in 1..Len(BaseList(d))
  PROVE  /\ BaseList(d)[j] \in 0..Len(prog.bases[d])
         /\ BaseList(d)[j] \in Nat
         /\ BaseDecl(d, BaseList(d)[j]) \in Decls
<1>1. BaseList(d)[j] \in 0..Len(prog.bases[d])
  BY FieldTypes, ElementOfSeq
<1>2. Len(prog.bases[d]) \in Nat
  BY FieldTypes
<1> QED
  BY <1>1, <1>2, BaseDeclType

LEMMA SymBasesType ==
  ASSUME TypeInv, NEW d \in Decls
  PROVE  SymBases(d) \in SUBSET Decls
  BY BaseListElement DEF SymBases, Elems
----------------------------------------------------------------------------
(* Every action preserves TypeInv.                                         *)

LEMMA TypeReturnAtOnce == ASSUME TypeInv, SemReturnAtOnce PROVE TypeInv'
<1> DEFINE r == [ag[Top.d] EXCEPT !.semanticRun = "done"]
<1>1. stack # <<>> /\ Top.d \in Decls
  BY InActivation DEF SemReturnAtOnce
<1>2. r \in AggregateType
  BY <1>1, FieldTypes, SetPass
<1>3. AgOK'
  <2>1. r.baseclasses \in Seq(0..Len(prog.bases[Top.d]))
    BY <1>1, FieldTypes DEF AggregateType
  <2>2. CASE IsIface(Top.d)
    <3>1. ag' = [ag EXCEPT ![Top.d] = r]
      BY <2>2 DEF SemReturnAtOnce
    <3> QED
      BY <1>1, <1>2, <2>1, <3>1, AgChange DEF SemReturnAtOnce, TypeInv
  <2>3. CASE ~IsIface(Top.d)
    BY <2>3, SameAg DEF SemReturnAtOnce, TypeInv
  <2> QED
    BY <2>2, <2>3
<1>4. stack' \in Seq(GoodFrame)
  BY <1>1, ReturnGood DEF SemReturnAtOnce
<1> QED
  BY <1>3, <1>4, Together DEF SemReturnAtOnce, TypeInv, RestOK

LEMMA TypeCrash == ASSUME TypeInv, Crash PROVE TypeInv'
  BY Together, SameAg DEF Crash, TypeInv, StackOK, RestOK

LEMMA TypeEnter == ASSUME TypeInv, SemEnter PROVE TypeInv'
<1> SUFFICES ASSUME ~Crash PROVE TypeInv'
  BY TypeCrash
<1> DEFINE pc == IF ~IsStruct(Top.d) /\ BasesOpen(Top.d) THEN "types" ELSE "symtab"
           ok == IF ~IsStruct(Top.d) /\ BasesOpen(Top.d) THEN "in" ELSE ag[Top.d].baseok
           f == [Top EXCEPT !.sc = TRUE, !.scx = ag[Top.d].scope, !.pc = pc]
           r == [ag[Top.d] EXCEPT !.scope = FALSE, !.semanticRun = "semantic",
                                  !.baseok = ok]
<1>1. stack # <<>> /\ Top.d \in Decls /\ Top \in GoodFrame
  BY InActivation DEF SemEnter
<1>2. f \in GoodFrame
  BY <1>1, FieldTypes, FrameEnters DEF Labels
<1>3. stack' \in Seq(GoodFrame)
  BY <1>1, <1>2, BecomeGood DEF SemEnter
<1>4. ok \in {"none", "in", "done", "semanticdone"}
  BY <1>1, FieldTypes
<1>5. r \in AggregateType
  <2>1. [ag[Top.d] EXCEPT !.scope = FALSE] \in AggregateType
    BY <1>1, FieldTypes, SetFlag
  <2>2. [ag[Top.d] EXCEPT !.scope = FALSE, !.semanticRun = "semantic"] \in AggregateType
    BY <2>1, SetPass
  <2> QED
    BY <2>2, <1>4, SetPass
<1>6. r.baseclasses \in Seq(0..Len(prog.bases[Top.d]))
  BY <1>1, FieldTypes DEF AggregateType
<1>7. ag' = [ag EXCEPT ![Top.d] = r]
  BY <1>1 DEF SemEnter, TypeInv, AgOK, AggregateType
<1>8. AgOK'
  BY <1>1, <1>5, <1>6, <1>7, AgChange DEF SemEnter, TypeInv
<1> QED
  BY <1>3, <1>8, Together DEF SemEnter, TypeInv, RestOK

(* A change of one aggregate that leaves its base list alone.              *)
LEMMA AgSet ==
  ASSUME TypeInv, prog' = prog, NEW d \in Decls, NEW r \in AggregateType,
         r.baseclasses = ag[d].baseclasses, ag' = [ag EXCEPT ![d] = r]
  PROVE  AgOK'
  BY AgChange, FieldTypes DEF TypeInv

LEMMA SetScope ==
  ASSUME TypeInv, prog' = prog, NEW d \in Decls, NEW v \in BOOLEAN,
         ag' = [ag EXCEPT ![d].scope = v]
  PROVE  AgOK'
<1> DEFINE r == [ag[d] EXCEPT !.scope = v]
<1>1. r \in AggregateType
  BY FieldTypes, SetFlag
<1>2. r.baseclasses = ag[d].baseclasses
  BY FieldTypes DEF AggregateType
<1>3. ag' = [ag EXCEPT ![d] = r]
  BY DEF TypeInv, AgOK, AggregateType
<1> HIDE DEF r
<1> QED
  BY <1>1, <1>2, <1>3, AgSet

LEMMA TypeBaseType == ASSUME TypeInv, SemBaseType PROVE TypeInv'
<1> DEFINE d == Top.d
           k == BaseList(d)[Top.i]
           via == prog.bases[d][k].via
           f == [Top EXCEPT !.pc = "typed", !.b = k, !.scx = TRUE]
           g == [Top EXCEPT !.i = Top.i + 1, !.scx = TRUE]
<1>1. stack # <<>> /\ d \in Decls /\ Top \in GoodFrame /\ Top.i \in Nat \ {0}
      /\ Top.fn = "semantic"
  BY InActivation DEF SemBaseType
<1>2. Top.i \in 1..Len(BaseList(d))
  BY <1>1, FieldTypes DEF SemBaseType
<1>3. k \in 0..Len(prog.bases[d]) /\ k \in Nat
  BY <1>1, <1>2, BaseListElement
<1>4. CASE k # 0 /\ btype[d][k] = "ident" /\ via # NoDecl
  <2>1. via \in Decls
    BY <1>1, <1>3, <1>4, BaseDeclType DEF MaybeDecl
  <2>2. f \in GoodFrame
    BY <1>1, <1>3, FrameCalls DEF Labels
  <2>3. Searching(via, via) \in GoodFrame
    BY <2>1, SearchActivation DEF MaybeDecl
  <2>4. Call(f, Searching(via, via)) /\ ag' = [ag EXCEPT ![d].scope = TRUE]
    BY <1>4 DEF SemBaseType
  <2>5. stack' \in Seq(GoodFrame)
    BY <1>1, <2>2, <2>3, <2>4, CallGood
  <2>6. AgOK'
    BY <1>1, <2>4, SetScope DEF SemBaseType
  <2> QED
    BY <2>5, <2>6, Together DEF SemBaseType, TypeInv, RestOK
<1>5. CASE ~(k # 0 /\ btype[d][k] = "ident" /\ via # NoDecl)
  <2>1. g \in GoodFrame
    <3>1. Top.i + 1 \in Nat \ {0}
      BY <1>1
    <3> QED
      BY <1>1, <3>1, FrameSteps
  <2>2. Become(g) /\ ag' = [ag EXCEPT ![d].scope = FALSE]
    BY <1>5 DEF SemBaseType
  <2>3. stack' \in Seq(GoodFrame)
    BY <1>1, <2>1, <2>2, BecomeGood
  <2>4. AgOK'
    BY <1>1, <2>2, SetScope DEF SemBaseType
  <2> QED
    BY <2>3, <2>4, Together DEF SemBaseType, TypeInv, RestOK
<1> QED
  BY <1>4, <1>5

LEMMA TypeBaseTyped == ASSUME TypeInv, SemBaseTyped PROVE TypeInv'
<1>1. stack # <<>> /\ Top.d \in Decls /\ Top \in GoodFrame /\ Top.i + 1 \in Nat \ {0}
  BY InActivation DEF SemBaseTyped
<1>2. stack' \in Seq(GoodFrame)
  BY <1>1, GotoGood DEF SemBaseTyped, Labels
<1>3. AgOK'
  BY <1>1, SetScope DEF SemBaseTyped
<1> QED
  BY <1>2, <1>3, Together DEF SemBaseTyped, TypeInv, RestOK

LEMMA TypeTypesResolved == ASSUME TypeInv, SemTypesResolved PROVE TypeInv'
<1>1. stack # <<>> /\ Top \in GoodFrame
  BY InActivation DEF SemTypesResolved
<1>2. stack' \in Seq(GoodFrame)
  <2>1. CASE Return
    BY <1>1, <2>1, ReturnGood
  <2>2. CASE Goto("base", 1) /\ IsClass(Top.d)
    BY <1>1, <2>2, GotoGood DEF Labels
  <2>3. CASE Goto("ifaces", 1) \/ Goto("symtab", 1)
    BY <1>1, <2>3, GotoGood DEF Labels
  <2> QED
    BY <2>1, <2>2, <2>3 DEF SemTypesResolved
<1> QED
  BY <1>2, Together, SameAg DEF SemTypesResolved, TypeInv, RestOK

(* Removing the j-th base.                                                 *)
LEMMA TypeDropBase ==
  ASSUME TypeInv, stack # <<>>, Top \in GoodFrame,
         NEW d \in Decls, NEW j \in 1..Len(BaseList(d)),
         NEW isError \in BOOLEAN, DropBase(d, j, isError),
         NEW i \in Nat \ {0}, Goto("ifaces", i)
  PROVE  TypeInv'
<1> DEFINE r == [ag[d] EXCEPT !.baseclasses = RemoveAt(@, j)]
<1>1. RemoveAt(ag[d].baseclasses, j) \in Seq(0..Len(prog.bases[d]))
  BY FieldTypes, RemoveAtType
<1>2. RemoveAt(ag[d].baseclasses, j) \in Seq(Nat)
  BY FieldTypes, RemoveAtType
<1>3. r \in AggregateType
  BY <1>2, FieldTypes, SetBase
<1>4. r.baseclasses = RemoveAt(ag[d].baseclasses, j)
  BY FieldTypes DEF AggregateType
<1>5. ag' = [ag EXCEPT ![d] = r]
  BY DEF DropBase, TypeInv, AgOK, AggregateType
<1> HIDE DEF r
<1>6. AgOK'
  BY <1>1, <1>3, <1>4, <1>5, AgChange DEF DropBase, TypeInv
<1>7. stack' \in Seq(GoodFrame)
  BY GotoGood DEF Labels
<1> QED
  BY <1>6, <1>7, Together DEF DropBase, TypeInv, RestOK

LEMMA TypeNoBaseClass == ASSUME TypeInv, SemNoBaseClass PROVE TypeInv'
<1>1. stack # <<>> /\ Top.d \in Decls /\ Top \in GoodFrame
  BY InActivation DEF SemNoBaseClass
<1>2. FirstIface(Top.d) \in Nat \ {0} /\ Goto("ifaces", FirstIface(Top.d))
  BY DEF FirstIface, SemNoBaseClass
<1>3. CASE FirstKind(Top.d) \in {"error", "struct"}
  <2>1. 1 \in 1..Len(BaseList(Top.d))
    BY <1>1, <1>3, FieldTypes, EmptySeq DEF FirstKind
  <2> QED
    BY <1>1, <1>2, <1>3, <2>1, TypeDropBase DEF SemNoBaseClass
<1>4. CASE FirstKind(Top.d) \notin {"error", "struct"}
  <2>1. stack' \in Seq(GoodFrame)
    BY <1>1, <1>2, GotoGood DEF Labels
  <2> QED
    BY <1>4, <2>1, Together, SameAg DEF SemNoBaseClass, TypeInv, RestOK
<1> QED
  BY <1>3, <1>4

LEMMA TypeCircularBase == ASSUME TypeInv, SemCircularBase PROVE TypeInv'
<1>1. stack # <<>> /\ Top.d \in Decls /\ Top \in GoodFrame
  BY InActivation DEF SemCircularBase
<1>2. 1 \in 1..Len(BaseList(Top.d))
  BY <1>1, FieldTypes, EmptySeq DEF SemCircularBase, FirstKind
<1>3. FirstIface(Top.d) \in Nat \ {0}
  BY DEF FirstIface
<1> QED
  BY <1>1, <1>2, <1>3, TypeDropBase DEF SemCircularBase

LEMMA TypeBaseClass == ASSUME TypeInv, SemBaseClass PROVE TypeInv'
<1> DEFINE d == Top.d
           k == BaseList(d)[1]
           c == BaseDecl(d, k)
           f == [Top EXCEPT !.pc = "based", !.b = k, !.scx = TRUE]
           r == [ag[d] EXCEPT !.baseClass = c]
           s == [ag[d] EXCEPT !.baseClass = c, !.scope = TRUE]
<1>1. stack # <<>> /\ d \in Decls /\ Top \in GoodFrame /\ Top.fn = "semantic"
  BY InActivation DEF SemBaseClass
<1>2. 1 \in 1..Len(BaseList(d))
  BY <1>1, FieldTypes, EmptySeq DEF SemBaseClass, FirstKind
<1>3. k \in 0..Len(prog.bases[d]) /\ k \in Nat /\ c \in Decls
  BY <1>1, <1>2, BaseListElement
<1>4. bsym' \in [Decls -> SUBSET Nat]
  BY <1>1, <1>3 DEF SemBaseClass, TypeInv, RestOK
<1>5. RestOK'
  BY <1>4 DEF SemBaseClass, TypeInv, RestOK
<1>6. r \in AggregateType /\ r.baseclasses = ag[d].baseclasses
  <2>1. r \in AggregateType
    BY <1>1, <1>3, FieldTypes, SetBase DEF MaybeDecl
  <2>2. r.baseclasses = ag[d].baseclasses
    BY <1>1, FieldTypes DEF AggregateType
  <2> QED
    BY <2>1, <2>2
<1>7. s \in AggregateType /\ s.baseclasses = ag[d].baseclasses
  <2>1. s = [r EXCEPT !.scope = TRUE]
    OBVIOUS
  <2>2. s \in AggregateType
    BY <1>6, <2>1, SetFlag
  <2>3. s.baseclasses = ag[d].baseclasses
    BY <1>1, FieldTypes DEF AggregateType
  <2> QED
    BY <2>2, <2>3
<1>8. CASE BasesOpen(c)
  <2>1. f \in GoodFrame
    BY <1>1, <1>3, FrameCalls DEF Labels
  <2>2. Activation("semantic", c, FALSE) \in GoodFrame
    BY <1>3, SemanticActivation
  <2>3. stack' \in Seq(GoodFrame)
    BY <1>1, <1>8, <2>1, <2>2, CallGood DEF SemBaseClass
  <2>4. ag' = [ag EXCEPT ![d] = s]
    BY <1>1, <1>8 DEF SemBaseClass, TypeInv, AgOK, AggregateType
  <2>5. AgOK'
    BY <1>1, <1>7, <2>4, AgSet DEF SemBaseClass
  <2> QED
    BY <1>5, <2>3, <2>5, Together DEF SemBaseClass
<1>9. CASE ~BasesOpen(c)
  <2>1. stack' \in Seq(GoodFrame)
    BY <1>1, <1>9, GotoGood DEF SemBaseClass, Labels
  <2>2. ag' = [ag EXCEPT ![d] = r]
    BY <1>1, <1>9 DEF SemBaseClass, TypeInv, AgOK, AggregateType
  <2>3. AgOK'
    BY <1>1, <1>6, <2>2, AgSet DEF SemBaseClass
  <2> QED
    BY <1>5, <2>1, <2>3, Together DEF SemBaseClass
<1> QED
  BY <1>8, <1>9

LEMMA TypeBaseResolved == ASSUME TypeInv, SemBaseResolved PROVE TypeInv'
<1> DEFINE d == Top.d
           c == BaseDecl(d, Top.b)
           ok == IF BasesOpen(c) THEN "none" ELSE ag[d].baseok
           i == IF Top.pc = "based" THEN 2 ELSE Top.i + 1
           r == [ag[d] EXCEPT !.scope = FALSE, !.baseok = ok]
<1>1. stack # <<>> /\ d \in Decls /\ Top \in GoodFrame /\ Top.fn = "semantic"
      /\ i \in Nat \ {0} /\ Top.b \in 0..Len(prog.bases[d])
  BY InActivation DEF SemBaseResolved
<1>2. c \in Decls
  BY <1>1, BaseDeclType
<1>3. stack' \in Seq(GoodFrame)
  BY <1>1, GotoGood DEF SemBaseResolved, Labels
<1>4. deferred' \in Seq(Decls)
  BY <1>2, AddDeferredType DEF SemBaseResolved, TypeInv, RestOK
<1>5. r \in AggregateType
  <2>1. [ag[d] EXCEPT !.scope = FALSE] \in AggregateType
    BY <1>1, FieldTypes, SetFlag
  <2>2. ok \in {"none", "in", "done", "semanticdone"}
    BY <1>1, FieldTypes
  <2> QED
    BY <2>1, <2>2, SetPass
<1>6. r.baseclasses = ag[d].baseclasses
  BY <1>1, FieldTypes DEF AggregateType
<1>7. ag' = [ag EXCEPT ![d] = r]
  BY <1>1 DEF SemBaseResolved, TypeInv, AgOK, AggregateType
<1>8. AgOK'
  BY <1>1, <1>5, <1>6, <1>7, AgSet DEF SemBaseResolved
<1> QED
  BY <1>3, <1>4, <1>8, Together DEF SemBaseResolved, TypeInv, RestOK

LEMMA TypeDropIface == ASSUME TypeInv, SemDropIface PROVE TypeInv'
<1>1. stack # <<>> /\ Top.d \in Decls /\ Top \in GoodFrame /\ Top.i \in Nat \ {0}
  BY InActivation DEF SemDropIface
<1>2. Top.i \in 1..Len(BaseList(Top.d))
  BY <1>1, FieldTypes DEF SemDropIface
<1> QED
  BY <1>1, <1>2, TypeDropBase DEF SemDropIface

LEMMA TypeIface == ASSUME TypeInv, SemIface PROVE TypeInv'
<1> DEFINE d == Top.d
           k == BaseList(d)[Top.i]
           c == BaseDecl(d, k)
           open == BasesOpen(c)
           list == IF IsDuplicate(d, Top.i) THEN RemoveAt(ag[d].baseclasses, Top.i)
                   ELSE ag[d].baseclasses
           f == [Top EXCEPT !.pc = "ifaced", !.b = k, !.scx = TRUE]
           r == [ag[d] EXCEPT !.baseclasses = list, !.scope = open]
<1>1. stack # <<>> /\ d \in Decls /\ Top \in GoodFrame /\ Top.fn = "semantic"
      /\ Top.i \in Nat \ {0} /\ Top.i + 1 \in Nat \ {0}
  BY InActivation DEF SemIface
<1>2. Top.i \in 1..Len(BaseList(d))
  BY <1>1, FieldTypes DEF SemIface
<1>3. k \in 0..Len(prog.bases[d]) /\ k \in Nat /\ c \in Decls
  BY <1>1, <1>2, BaseListElement
<1>4. RestOK'
  <2>1. bsym' \in [Decls -> SUBSET Nat]
    BY <1>1, <1>3 DEF SemIface, TypeInv, RestOK
  <2> QED
    BY <2>1 DEF SemIface, TypeInv, RestOK
<1>5. list \in Seq(0..Len(prog.bases[d])) /\ list \in Seq(Nat)
  BY <1>1, <1>2, FieldTypes, RemoveAtType
<1>6. open \in BOOLEAN
  BY DEF BasesOpen
<1>7. r \in AggregateType
  BY <1>1, <1>5, <1>6, FieldTypes, SetBase, SetFlag
<1>8. r.baseclasses = list
  BY <1>1, FieldTypes DEF AggregateType
<1>9. ag' = [ag EXCEPT ![d] = r]
  BY <1>1 DEF SemIface, TypeInv, AgOK, AggregateType
<1> HIDE DEF r
<1>10. AgOK'
  BY <1>1, <1>5, <1>7, <1>8, <1>9, AgChange DEF SemIface, TypeInv
<1>11. stack' \in Seq(GoodFrame)
  <2>1. CASE open
    <3>1. f \in GoodFrame
      BY <1>1, <1>3, FrameCalls DEF Labels
    <3>2. Activation("semantic", c, FALSE) \in GoodFrame
      BY <1>3, SemanticActivation
    <3> QED
      BY <1>1, <2>1, <3>1, <3>2, CallGood DEF SemIface
  <2>2. CASE ~open
    BY <1>1, <2>2, GotoGood DEF SemIface, Labels
  <2> QED
    BY <2>1, <2>2
<1> QED
  BY <1>4, <1>10, <1>11, Together DEF SemIface

(* The end of an activation that has to wait.                              *)
LEMMA TypePostpone ==
  ASSUME TypeInv, stack # <<>>, NEW d \in Decls, NEW q \in Seq(Decls), Postpone(d, q)
  PROVE  TypeInv'
<1>1. AgOK'
  BY SetScope DEF Postpone
<1>2. stack' \in Seq(GoodFrame)
  BY ReturnGood DEF Postpone
<1>3. deferred' \in Seq(Decls)
  BY AddDeferredType DEF Postpone
<1> QED
  BY <1>1, <1>2, <1>3, Together DEF Postpone, TypeInv, RestOK

LEMMA TypeBasesDone == ASSUME TypeInv, SemBasesDone PROVE TypeInv'
<1> DEFINE d == Top.d
           base == IF NeedsObject(d) THEN Object ELSE ag[d].baseClass
           list == IF NeedsObject(d) THEN <<0>> \o ag[d].baseclasses
                   ELSE ag[d].baseclasses
           r == [ag[d] EXCEPT !.baseok = "done", !.baseClass = base,
                              !.baseclasses = list]
<1>1. stack # <<>> /\ d \in Decls /\ Top \in GoodFrame
  BY InActivation DEF SemBasesDone
<1>2. CASE Crash
  BY <1>2, TypeCrash
<1>3. CASE /\ phase' = "fatal" /\ errors' = errors + 1
           /\ UNCHANGED <<prog, ag, btype, bsym, deferred, dprogress, nested,
                          found, stack>>
  BY <1>3, Together, SameAg DEF TypeInv, RestOK, StackOK
<1>4. CASE /\ ag' = [ag EXCEPT
                 ![d].baseok = "done",
                 ![d].baseClass = IF NeedsObject(d) THEN Object ELSE @,
                 ![d].baseclasses = IF NeedsObject(d) THEN <<0>> \o @ ELSE @]
           /\ Goto("symtab", 1)
           /\ UNCHANGED <<prog, btype, bsym, deferred, dprogress, nested,
                          errors, found, phase>>
  <2>1. stack' \in Seq(GoodFrame)
    BY <1>1, <1>4, GotoGood DEF Labels
  <2>2. base \in MaybeDecl
    BY <1>1, FieldTypes, ConstantsAssumption DEF MaybeDecl
  <2>3. list \in Seq(0..Len(prog.bases[d])) /\ list \in Seq(Nat)
    <3>1. 0 \in 0..Len(prog.bases[d])
      BY <1>1, FieldTypes
    <3>2. <<0>> \in Seq(0..Len(prog.bases[d])) /\ <<0>> \in Seq(Nat)
      BY <3>1
    <3> QED
      BY <1>1, <3>2, FieldTypes, ConcatProperties
  <2>4. r \in AggregateType
    <3>1. [ag[d] EXCEPT !.baseok = "done"] \in AggregateType
      BY <1>1, FieldTypes, SetPass
    <3>2. [ag[d] EXCEPT !.baseok = "done", !.baseClass = base] \in AggregateType
      BY <2>2, <3>1, SetBase
    <3> QED
      BY <2>3, <3>2, SetBase
  <2>5. r.baseclasses = list
    BY <1>1, FieldTypes DEF AggregateType
  <2>6. ag' = [ag EXCEPT ![d] = r]
    BY <1>1, <1>4 DEF TypeInv, AgOK, AggregateType
  <2> HIDE DEF r
  <2>7. AgOK'
    BY <1>1, <1>4, <2>3, <2>4, <2>5, <2>6, AgChange DEF TypeInv
  <2> QED
    BY <1>4, <2>1, <2>7, Together DEF TypeInv, RestOK
<1>5. CASE Postpone(d, deferred)
  BY <1>1, <1>5, TypePostpone DEF TypeInv, RestOK
<1> QED
  BY <1>2, <1>3, <1>4, <1>5 DEF SemBasesDone

LEMMA TypeSymtab == ASSUME TypeInv, SemSymtab PROVE TypeInv'
<1> DEFINE d == Top.d
           tab == IF ag[d].symtab # "none" THEN ag[d].symtab
                  ELSE IF IsIface(d) THEN "empty" ELSE "full"
           r == [ag[d] EXCEPT !.semanticRun = "done"]
           s == [ag[d] EXCEPT !.symtab = tab]
<1>1. stack # <<>> /\ d \in Decls /\ Top \in GoodFrame
  BY InActivation DEF SemSymtab
<1>2. tab \in {"none", "empty", "full"}
  BY <1>1, FieldTypes
<1>3. CASE d \in prog.opaque
  <2>1. r \in AggregateType
    BY <1>1, FieldTypes, SetPass
  <2>2. r.baseclasses = ag[d].baseclasses
    BY <1>1, FieldTypes DEF AggregateType
  <2>3. ag' = [ag EXCEPT ![d] = r]
    BY <1>1, <1>3 DEF SemSymtab, TypeInv, AgOK, AggregateType
  <2>4. AgOK'
    BY <1>1, <2>1, <2>2, <2>3, AgSet DEF SemSymtab
  <2>5. stack' \in Seq(GoodFrame)
    BY <1>1, <1>3, ReturnGood DEF SemSymtab
  <2> QED
    BY <2>4, <2>5, Together DEF SemSymtab, TypeInv, RestOK
<1>4. CASE d \notin prog.opaque
  <2>1. s \in AggregateType
    BY <1>1, <1>2, FieldTypes, SetPass
  <2>2. s.baseclasses = ag[d].baseclasses
    BY <1>1, FieldTypes DEF AggregateType
  <2>3. ag' = [ag EXCEPT ![d] = s]
    BY <1>1, <1>4 DEF SemSymtab, TypeInv, AgOK, AggregateType
  <2>4. AgOK'
    BY <1>1, <2>1, <2>2, <2>3, AgSet DEF SemSymtab
  <2>5. stack' \in Seq(GoodFrame)
    BY <1>1, <1>4, GotoGood DEF SemSymtab, Labels
  <2> QED
    BY <2>4, <2>5, Together DEF SemSymtab, TypeInv, RestOK
<1> QED
  BY <1>3, <1>4

LEMMA TypeAncestorsForward == ASSUME TypeInv, SemAncestorsForward PROVE TypeInv'
<1>1. stack # <<>> /\ Top.d \in Decls
  BY InActivation DEF SemAncestorsForward
<1>2. PICK j \in UnfinishedBases(Top.d) :
        Postpone(Top.d, AddIfScoped(deferred, BaseDecl(Top.d, BaseList(Top.d)[j])))
  BY DEF SemAncestorsForward
<1>3. BaseDecl(Top.d, BaseList(Top.d)[j]) \in Decls
  BY <1>1, BaseListElement DEF UnfinishedBases
<1>4. AddIfScoped(deferred, BaseDecl(Top.d, BaseList(Top.d)[j])) \in Seq(Decls)
  BY <1>3, AddDeferredType DEF TypeInv, RestOK
<1> QED
  BY <1>1, <1>2, <1>4, TypePostpone

LEMMA TypeVtbl == ASSUME TypeInv, SemVtbl PROVE TypeInv'
<1> DEFINE d == Top.d
           ok == IF ag[d].baseok = "done" THEN "semanticdone" ELSE ag[d].baseok
           table == IF ag[d].baseok = "done" THEN InheritedVtbl(d) ELSE ag[d].vtbl
           r == [ag[d] EXCEPT !.vtbl = table, !.baseok = ok, !.symtab = "full"]
<1>1. stack # <<>> /\ d \in Decls /\ Top \in GoodFrame
  BY InActivation DEF SemVtbl
<1>2. stack' \in Seq(GoodFrame)
  BY <1>1, GotoGood DEF SemVtbl, Labels
<1>3. InheritedVtbl(d) \in SUBSET Decls
  <2>1. \A x \in Decls : ag[x].vtbl \in SUBSET Decls
    BY FieldTypes
  <2>2. ag[d].baseClass \in Decls \/ ag[d].baseClass = NoDecl
    BY <1>1, FieldTypes DEF MaybeDecl
  <2> QED
    BY <1>1, <2>1, <2>2, SymBasesType DEF InheritedVtbl
<1>4. table \in SUBSET Decls
  BY <1>1, <1>3, FieldTypes
<1>5. ok \in {"none", "in", "done", "semanticdone"}
  BY <1>1, FieldTypes
<1>6. r \in AggregateType
  <2>1. [ag[d] EXCEPT !.vtbl = table] \in AggregateType
    BY <1>1, <1>4, FieldTypes, SetBase
  <2>2. [ag[d] EXCEPT !.vtbl = table, !.baseok = ok] \in AggregateType
    BY <2>1, <1>5, SetPass
  <2> QED
    BY <2>2, SetPass
<1>7. r.baseclasses = ag[d].baseclasses
  BY <1>1, FieldTypes DEF AggregateType
<1>8. ag' = [ag EXCEPT ![d] = r]
  BY <1>1 DEF SemVtbl, TypeInv, AgOK, AggregateType
<1>9. AgOK'
  BY <1>1, <1>6, <1>7, <1>8, AgSet DEF SemVtbl
<1> QED
  BY <1>2, <1>9, Together DEF SemVtbl, TypeInv, RestOK

LEMMA TypeMethod == ASSUME TypeInv, SemMethod PROVE TypeInv'
<1> DEFINE d == Top.d
           r == [ag[d] EXCEPT !.vtbl = @ \cup {d}]
<1>1. stack # <<>> /\ d \in Decls /\ Top \in GoodFrame /\ Top.i + 1 \in Nat \ {0}
  BY InActivation DEF SemMethod
<1>2. stack' \in Seq(GoodFrame)
  BY <1>1, GotoGood DEF SemMethod, Labels
<1>3. ag[d].vtbl \cup {d} \in SUBSET Decls
  BY <1>1, FieldTypes
<1>4. r \in AggregateType
  BY <1>1, <1>3, FieldTypes, SetBase
<1>5. r.baseclasses = ag[d].baseclasses
  BY <1>1, FieldTypes DEF AggregateType
<1>6. ag' = [ag EXCEPT ![d] = r]
  BY <1>1 DEF SemMethod, TypeInv, AgOK, AggregateType
<1>7. AgOK'
  BY <1>1, <1>4, <1>5, <1>6, AgSet DEF SemMethod
<1> QED
  BY <1>2, <1>7, Together DEF SemMethod, TypeInv, RestOK

LEMMA TypeField == ASSUME TypeInv, SemField PROVE TypeInv'
<1>1. stack # <<>> /\ Top \in GoodFrame /\ Top.i + 1 \in Nat \ {0}
  BY InActivation DEF SemField
<1>2. stack' \in Seq(GoodFrame)
  BY <1>1, GotoGood DEF SemField, Labels
<1> QED
  BY <1>2, Together, SameAg DEF SemField, TypeInv, RestOK

(* The names of a member or of a declaration of the module.                *)
LEMMA LookupNames ==
  ASSUME TypeInv, NEW item, item \in Items, NamesDecl(item), item.what = "lookup"
  PROVE  Searching(item.d, item.owner) \in GoodFrame
<1>1. item.d \in Decls /\ item.owner \in MaybeDecl
  BY DEF NamesDecl, Items
<1> QED
  BY <1>1, SearchActivation

LEMMA MemberNames ==
  ASSUME TypeInv, NEW d \in Decls, NEW i \in 1..Len(prog.members[d])
  PROVE  prog.members[d][i] \in Items /\ NamesDecl(prog.members[d][i])
<1>1. prog.members[d] \in Seq(Items)
  BY DEF TypeInv, IsProgram
<1> QED
  BY <1>1, ElementOfSeq DEF TypeInv, IsProgram

LEMMA NameErrorsType == ASSUME NEW d PROVE NameErrors(d) \in {0, 1}
  BY DEF NameErrors

LEMMA TypeLookupMember == ASSUME TypeInv, SemLookupMember PROVE TypeInv'
<1> DEFINE f == [Top EXCEPT !.pc = "looked"]
<1>1. stack # <<>> /\ Top.d \in Decls /\ Top \in GoodFrame /\ Top.i \in Nat \ {0}
  BY InActivation DEF SemLookupMember
<1>2. Len(prog.members[Top.d]) \in Nat
  BY <1>1, LenProperties DEF TypeInv, IsProgram
<1>3. Member \in Items /\ NamesDecl(Member)
  BY <1>1, <1>2, MemberNames DEF SemLookupMember, MemberPending, Member
<1>4. Searching(Member.d, Member.owner) \in GoodFrame
  BY <1>3, LookupNames DEF SemLookupMember, LookupMember
<1>5. f \in GoodFrame
  BY <1>1, FrameMoves DEF Labels
<1>6. stack' \in Seq(GoodFrame)
  BY <1>1, <1>4, <1>5, CallGood DEF SemLookupMember, LookupMember
<1>7. errors' \in Nat
  BY NameErrorsType DEF SemLookupMember, TypeInv, RestOK
<1> QED
  BY <1>6, <1>7, Together, SameAg DEF SemLookupMember, LookupMember, TypeInv, RestOK

LEMMA TypeLookedUp == ASSUME TypeInv, SemLookedUp PROVE TypeInv'
<1>1. stack # <<>> /\ Top \in GoodFrame /\ Top.i + 1 \in Nat \ {0}
  BY InActivation DEF SemLookedUp
<1>2. stack' \in Seq(GoodFrame)
  BY <1>1, GotoGood DEF SemLookedUp, Labels
<1> QED
  BY <1>2, Together, SameAg DEF SemLookedUp, TypeInv, RestOK

(* runDeferredSemantic() called, or not.                                   *)
LEMMA TypeRunDeferred ==
  ASSUME TypeInv, stack # <<>>, NEW f \in GoodFrame, RunDeferred(f), errors' \in Nat
  PROVE  TypeInv'
<1>1. stack' \in Seq(GoodFrame)
  BY CallGood, BecomeGood, RunActivation DEF RunDeferred
<1> QED
  BY <1>1, Together, SameAg DEF RunDeferred, TypeInv, RestOK

LEMMA TypeInstMember == ASSUME TypeInv, SemInstMember PROVE TypeInv'
<1>1. stack # <<>> /\ Top \in GoodFrame /\ Top.i + 1 \in Nat \ {0}
  BY InActivation DEF SemInstMember
<1>2. [Top EXCEPT !.i = Top.i + 1] \in GoodFrame
  BY <1>1, FrameSteps
<1>3. errors' \in Nat
  BY NameErrorsType DEF SemInstMember, TypeInv, RestOK
<1> QED
  BY <1>1, <1>2, <1>3, TypeRunDeferred DEF SemInstMember

LEMMA TypeOwnField == ASSUME TypeInv, SemOwnField PROVE TypeInv'
<1> DEFINE d == Top.d
           r == [ag[d] EXCEPT !.semanticRun = "done", !.bad = TRUE, !.membersRun = TRUE]
<1>1. stack # <<>> /\ d \in Decls
  BY InActivation DEF SemOwnField
<1>2. stack' \in Seq(GoodFrame)
  BY <1>1, ReturnGood DEF SemOwnField
<1>3. r \in AggregateType
  BY <1>1, FieldTypes, SetPass, SetFlag
<1>4. r.baseclasses = ag[d].baseclasses
  BY <1>1, FieldTypes DEF AggregateType
<1>5. ag' = [ag EXCEPT ![d] = r]
  BY <1>1 DEF SemOwnField, TypeInv, AgOK, AggregateType
<1>6. AgOK'
  BY <1>1, <1>3, <1>4, <1>5, AgSet DEF SemOwnField
<1> QED
  BY <1>2, <1>6, Together DEF SemOwnField, TypeInv, RestOK

LEMMA TypeFieldsForward == ASSUME TypeInv, SemFieldsForward PROVE TypeInv'
<1> DEFINE d == Top.d
           r == [ag[d] EXCEPT !.scope = TRUE, !.membersRun = TRUE]
<1>1. stack # <<>> /\ d \in Decls
  BY InActivation DEF SemFieldsForward
<1>2. stack' \in Seq(GoodFrame)
  BY <1>1, ReturnGood DEF SemFieldsForward
<1>3. r \in AggregateType
  BY <1>1, FieldTypes, SetFlag
<1>4. r.baseclasses = ag[d].baseclasses
  BY <1>1, FieldTypes DEF AggregateType
<1>5. ag' = [ag EXCEPT ![d] = r]
  BY <1>1 DEF SemFieldsForward, TypeInv, AgOK, AggregateType
<1>6. AgOK'
  BY <1>1, <1>3, <1>4, <1>5, AgSet DEF SemFieldsForward
<1>7. deferred' \in Seq(Decls)
  BY <1>1, AddDeferredType DEF SemFieldsForward, TypeInv, RestOK
<1> QED
  BY <1>2, <1>6, <1>7, Together DEF SemFieldsForward, TypeInv, RestOK

LEMMA TypeFinish == ASSUME TypeInv, SemFinish PROVE TypeInv'
<1> DEFINE d == Top.d
           e == errors + SpecialMemberErrors(d)
           bad == ag[d].bad \/ e # Top.errors
           r == [ag[d] EXCEPT !.semanticRun = "done", !.membersRun = TRUE, !.bad = bad]
<1>1. stack # <<>> /\ d \in Decls
  BY InActivation DEF SemFinish
<1>2. stack' \in Seq(GoodFrame)
  BY <1>1, ReturnGood DEF SemFinish
<1>3. bad \in BOOLEAN
  OBVIOUS
<1>4. r \in AggregateType
  <2>1. [ag[d] EXCEPT !.semanticRun = "done"] \in AggregateType
    BY <1>1, FieldTypes, SetPass
  <2>2. [ag[d] EXCEPT !.semanticRun = "done", !.membersRun = TRUE] \in AggregateType
    BY <2>1, SetFlag
  <2> QED
    BY <1>3, <2>2, SetFlag
<1>5. r.baseclasses = ag[d].baseclasses
  BY <1>1, FieldTypes DEF AggregateType
<1>6. ag' = [ag EXCEPT ![d] = r]
  BY <1>1 DEF SemFinish, TypeInv, AgOK, AggregateType
<1>7. AgOK'
  BY <1>1, <1>4, <1>5, <1>6, AgSet DEF SemFinish
<1>8. errors' \in Nat
  BY NameErrorsType DEF SemFinish, SpecialMemberErrors, TypeInv, RestOK
<1> QED
  BY <1>2, <1>7, <1>8, Together DEF SemFinish, TypeInv, RestOK

----------------------------------------------------------------------------
(* The searches.                                                           *)

LEMMA TypeSearchEnter == ASSUME TypeInv, SearchEnter PROVE TypeInv'
<1> DEFINE d == Top.d
           r == [ag[d] EXCEPT !.inuse = ~IsStruct(d)]
           f == [Top EXCEPT !.pc = "analysed"]
<1>1. /\ stack # <<>> /\ d \in Decls /\ Top \in GoodFrame
      /\ Top.fn = "search" /\ Top.i \in Nat \ {0}
  BY InActivation DEF SearchEnter
<1>2. CASE SearchRunsSemantic(d)
  <2>1. IsStruct(d) \in BOOLEAN /\ (~IsStruct(d)) \in BOOLEAN
    BY DEF IsStruct
  <2>2. r \in AggregateType
    BY <1>1, <2>1, FieldTypes, SetFlag
  <2>3. r.baseclasses = ag[d].baseclasses
    BY <1>1, FieldTypes DEF AggregateType
  <2>4. ag' = [ag EXCEPT ![d] = r]
    BY <1>1, <1>2 DEF SearchEnter, TypeInv, AgOK, AggregateType
  <2>5. AgOK'
    BY <1>1, <2>2, <2>3, <2>4, AgSet DEF SearchEnter
  <2>6. f \in GoodFrame
    BY <1>1, FrameMoves DEF Labels
  <2>7. Activation("semantic", d, IsStruct(d)) \in GoodFrame
    BY <1>1, <2>1, SemanticActivation
  <2>8. stack' \in Seq(GoodFrame)
    BY <1>1, <1>2, <2>6, <2>7, CallGood DEF SearchEnter
  <2> QED
    BY <2>5, <2>8, Together DEF SearchEnter, TypeInv, RestOK
<1>3. CASE ~SearchRunsSemantic(d)
  <2>1. stack' \in Seq(GoodFrame)
    BY <1>1, <1>3, GotoGood DEF SearchEnter, Labels
  <2> QED
    BY <1>3, <2>1, Together, SameAg DEF SearchEnter, TypeInv, RestOK
<1> QED
  BY <1>2, <1>3

LEMMA TypeSearchAnalysed == ASSUME TypeInv, SearchAnalysed PROVE TypeInv'
<1> DEFINE d == Top.d
           r == [ag[d] EXCEPT !.inuse = FALSE]
<1>1. stack # <<>> /\ d \in Decls /\ Top \in GoodFrame
  BY InActivation DEF SearchAnalysed
<1>2. stack' \in Seq(GoodFrame)
  BY <1>1, GotoGood DEF SearchAnalysed, Labels
<1>3. r \in AggregateType
  BY <1>1, FieldTypes, SetFlag
<1>4. r.baseclasses = ag[d].baseclasses
  BY <1>1, FieldTypes DEF AggregateType
<1>5. AgOK'
  BY <1>1, <1>3, <1>4, AgSet DEF SearchAnalysed
<1> QED
  BY <1>2, <1>5, Together DEF SearchAnalysed, TypeInv, RestOK

LEMMA TypeSearchForward == ASSUME TypeInv, SearchForward PROVE TypeInv'
<1>1. stack' \in Seq(GoodFrame)
  BY InActivation, ReturnGood DEF SearchForward
<1>2. RestOK'
  <2>1. errors' \in Nat
    BY DEF SearchForward, TypeInv, RestOK
  <2> QED
    BY <2>1 DEF SearchForward, TypeInv, RestOK
<1>3. AgOK'
  BY SameAg DEF SearchForward, TypeInv
<1> QED
  BY <1>1, <1>2, <1>3, Together DEF SearchForward

LEMMA TypeSearchOwn == ASSUME TypeInv, SearchOwn PROVE TypeInv'
<1> DEFINE hit == Top.d = Top.owner /\ ag[Top.d].symtab = "full"
<1>1. stack # <<>> /\ Top \in GoodFrame /\ Top.fn = "search" /\ hit \in BOOLEAN
  BY InActivation DEF SearchOwn
<1>2. stack' \in Seq(GoodFrame)
  BY <1>1, GotoGood, ReturnGood DEF SearchOwn, Labels
<1>3. found' \in BOOLEAN
  BY <1>1 DEF SearchOwn, TypeInv, RestOK
<1> QED
  BY <1>2, <1>3, Together, SameAg DEF SearchOwn, TypeInv, RestOK

LEMMA TypeSearchBase == ASSUME TypeInv, SearchBase PROVE TypeInv'
<1> DEFINE d == Top.d
           k == BaseList(d)[Top.i]
<1>1. /\ stack # <<>> /\ d \in Decls /\ Top \in GoodFrame
      /\ Top.owner \in MaybeDecl /\ Top.i \in Nat \ {0} /\ Top.fn = "search"
  BY InActivation DEF SearchBase
<1>2. Len(BaseList(d)) \in Nat
  BY <1>1, FieldTypes
<1>3. stack' \in Seq(GoodFrame)
  <2>1. CASE Top.i > Len(BaseList(d))
    BY <1>1, <2>1, ReturnGood DEF SearchBase
  <2>2. CASE Top.i <= Len(BaseList(d))
    <3>1. Top.i \in 1..Len(BaseList(d)) /\ ~(Top.i > Len(BaseList(d)))
      BY <1>1, <1>2, <2>2
    <3>2. Searching(BaseDecl(d, k), Top.owner) \in GoodFrame
      BY <1>1, <3>1, BaseListElement, SearchActivation
    <3>3. [Top EXCEPT !.pc = "searched"] \in GoodFrame
      BY <1>1, FrameMoves DEF Labels
    <3>4. Top.i + 1 \in Nat \ {0}
      BY <1>1
    <3>5. \/ Call([Top EXCEPT !.pc = "searched"], Searching(BaseDecl(d, k), Top.owner))
          \/ Goto("bases", Top.i + 1)
      BY <3>1 DEF SearchBase
    <3> QED
      BY <1>1, <3>2, <3>3, <3>4, <3>5, CallGood, GotoGood DEF Labels
  <2> QED
    BY <1>1, <1>2, <2>1, <2>2
<1>4. errors' \in Nat
  BY DEF SearchBase, TypeInv, RestOK
<1>5. found' = FALSE \/ found' = found
  BY DEF SearchBase
<1> QED
  BY <1>3, <1>4, <1>5, Together, SameAg DEF SearchBase, TypeInv, RestOK

LEMMA TypeSearchedBase == ASSUME TypeInv, SearchedBase PROVE TypeInv'
<1>1. stack # <<>> /\ Top \in GoodFrame /\ Top.i + 1 \in Nat \ {0} /\ Top.fn = "search"
  BY InActivation DEF SearchedBase
<1>2. stack' \in Seq(GoodFrame)
  BY <1>1, GotoGood, ReturnGood DEF SearchedBase, Labels
<1> QED
  BY <1>2, Together, SameAg DEF SearchedBase, TypeInv, RestOK

----------------------------------------------------------------------------
(* The driver.                                                             *)

LEMMA TypeRunRound == ASSUME TypeInv, RunRound PROVE TypeInv'
<1>1. stack # <<>> /\ Top \in GoodFrame /\ Top.fn = "run"
  BY InActivation DEF RunRound
<1>2. deferred \in Seq(Decls) /\ deferred' \in Seq(Decls)
  <2>1. <<>> \in Seq(Decls)
    OBVIOUS
  <2> QED
    BY <2>1 DEF RunRound, TypeInv, RestOK
<1>3. [Top EXCEPT !.pc = "each", !.i = 1, !.todo = deferred] \in GoodFrame
  BY <1>1, <1>2, FrameRuns
<1>4. stack' \in Seq(GoodFrame)
  BY <1>1, <1>3, BecomeGood, ReturnGood DEF RunRound
<1>5. nested' = FALSE \/ nested' = nested
  BY DEF RunRound
<1>6. RestOK'
  BY <1>2, <1>5 DEF RunRound, TypeInv, RestOK
<1>7. AgOK'
  BY SameAg DEF RunRound, TypeInv
<1> QED
  BY <1>4, <1>6, <1>7, Together DEF RunRound

LEMMA TypeRunEach == ASSUME TypeInv, RunEach PROVE TypeInv'
<1>1. /\ stack # <<>> /\ Top \in GoodFrame /\ Top.todo \in Seq(Decls)
      /\ Top.i \in Nat \ {0} /\ Top.i <= Len(Top.todo)
  BY InActivation DEF RunEach
<1>2. Len(Top.todo) \in Nat
  BY <1>1, LenProperties
<1>3. Top.todo[Top.i] \in Decls
  <2>1. Top.i \in 1..Len(Top.todo)
    BY <1>1, <1>2
  <2> QED
    BY <1>1, <2>1, ElementOfSeq
<1>4. Activation("semantic", Top.todo[Top.i], FALSE) \in GoodFrame
  BY <1>3, SemanticActivation
<1>5. [Top EXCEPT !.i = Top.i + 1] \in GoodFrame
  <2>1. Top.i + 1 \in Nat \ {0}
    BY <1>1
  <2> QED
    BY <1>1, <2>1, FrameSteps
<1>6. stack' \in Seq(GoodFrame)
  BY <1>1, <1>4, <1>5, CallGood DEF RunEach
<1> QED
  BY <1>6, Together, SameAg DEF RunEach, TypeInv, RestOK

LEMMA TypeRunRoundDone == ASSUME TypeInv, RunRoundDone PROVE TypeInv'
<1>1. stack # <<>> /\ Top \in GoodFrame /\ Top.fn = "run" /\ 1 \in Nat \ {0}
  BY InActivation DEF RunRoundDone
<1>2. stack' \in Seq(GoodFrame)
  BY <1>1, GotoGood, ReturnGood DEF RunRoundDone, Labels
<1>3. nested' = FALSE \/ nested' = nested
  BY DEF RunRoundDone
<1> QED
  BY <1>2, <1>3, Together, SameAg DEF RunRoundDone, TypeInv, RestOK

LEMMA ModuleNames ==
  ASSUME TypeInv, NEW i \in 1..Len(prog.module)
  PROVE  prog.module[i] \in Items /\ NamesDecl(prog.module[i])
<1>1. prog.module \in Seq(Items)
  BY DEF TypeInv, IsProgram
<1> QED
  BY <1>1, ElementOfSeq DEF TypeInv, IsProgram

LEMMA TypeModuleMember == ASSUME TypeInv, ModuleMember PROVE TypeInv'
<1>1. /\ stack # <<>> /\ Top \in GoodFrame /\ Top.fn = "module"
      /\ Top.i \in Nat \ {0} /\ Top.i <= Len(prog.module)
  BY InActivation DEF ModuleMember
<1>2. Len(prog.module) \in Nat
  BY LenProperties DEF TypeInv, IsProgram
<1>3. ModuleItem \in Items /\ NamesDecl(ModuleItem)
  <2>1. Top.i \in 1..Len(prog.module)
    BY <1>1, <1>2
  <2> QED
    BY <2>1, ModuleNames DEF ModuleItem
<1>4. [Top EXCEPT !.pc = "drain"] \in GoodFrame /\ [Top EXCEPT !.pc = "looked"] \in GoodFrame
  BY <1>1, FrameMoves DEF Labels
<1>5. CASE ModuleItem.what = "decl" /\ ~(ModuleItem.what = "lookup")
  <2>1. ModuleItem.d \in Decls
    BY <1>3, <1>5 DEF NamesDecl
  <2>2. Activation("semantic", ModuleItem.d, TRUE) \in GoodFrame
    BY <2>1, SemanticActivation
  <2>3. stack' \in Seq(GoodFrame)
    BY <1>1, <1>4, <1>5, <2>2, CallGood DEF ModuleMember, LookupMember
  <2> QED
    BY <1>5, <2>3, Together, SameAg DEF ModuleMember, LookupMember, TypeInv, RestOK
<1>6. CASE ModuleItem.what # "decl" /\ LookupMember("module", "enter", ModuleItem)
  <2>1. Searching(ModuleItem.d, ModuleItem.owner) \in GoodFrame
    BY <1>3, <1>6, LookupNames DEF LookupMember
  <2>2. stack' \in Seq(GoodFrame)
    BY <1>1, <1>4, <1>6, <2>1, CallGood DEF LookupMember
  <2> QED
    BY <1>6, <2>2, Together, SameAg DEF ModuleMember, LookupMember, TypeInv, RestOK
<1> QED
  BY <1>5, <1>6 DEF ModuleMember, LookupMember

LEMMA TypeModuleLookedUp == ASSUME TypeInv, ModuleLookedUp PROVE TypeInv'
<1>1. stack # <<>> /\ Top \in GoodFrame /\ Top.i \in Nat \ {0}
  BY InActivation DEF ModuleLookedUp
<1>2. stack' \in Seq(GoodFrame)
  BY <1>1, GotoGood DEF ModuleLookedUp, Labels
<1> QED
  BY <1>2, Together, SameAg DEF ModuleLookedUp, TypeInv, RestOK

LEMMA TypeModuleDrain == ASSUME TypeInv, ModuleDrain PROVE TypeInv'
<1> DEFINE f == [Top EXCEPT !.pc = "enter", !.i = Top.i + 1]
<1>1. stack # <<>> /\ Top \in GoodFrame /\ Top.i + 1 \in Nat \ {0}
  BY InActivation DEF ModuleDrain
<1>2. f \in GoodFrame
  BY <1>1, FrameMoves DEF Labels
<1>3. errors' \in Nat
  BY DEF ModuleDrain, TypeInv, RestOK
<1> QED
  BY <1>1, <1>2, <1>3, TypeRunDeferred DEF ModuleDrain

LEMMA TypeModuleEnd == ASSUME TypeInv, ModuleEnd PROVE TypeInv'
<1>1. stack' \in Seq(GoodFrame)
  BY InActivation, ReturnGood DEF ModuleEnd
<1> QED
  BY <1>1, Together, SameAg DEF ModuleEnd, TypeInv, RestOK

LEMMA TypeDriverDrain == ASSUME TypeInv, DriverDrain PROVE TypeInv'
<1> DEFINE f == Activation("run", NoDecl, FALSE)
<1>1. f \in GoodFrame
  BY RunActivation
<1> HIDE DEF f
<1>2. <<f>> \in Seq(GoodFrame)
  BY <1>1
<1>3. stack' \in Seq(GoodFrame)
  BY <1>2 DEF DriverDrain, TypeInv, StackOK, f
<1> QED
  BY <1>3, Together, SameAg DEF DriverDrain, TypeInv, RestOK

LEMMA TypeDriverCheck == ASSUME TypeInv, DriverCheck PROVE TypeInv'
<1>1. Len(deferred) \in Nat
  BY LenProperties DEF TypeInv, RestOK
<1> QED
  BY <1>1, Together, SameAg DEF DriverCheck, TypeInv, StackOK, RestOK

LEMMA TypeUnchanged == ASSUME TypeInv, UNCHANGED vars PROVE TypeInv'
  BY Together, SameAg DEF vars, TypeInv, StackOK, RestOK

----------------------------------------------------------------------------
(* Type correctness.                                                       *)

LEMMA TypeInit == ASSUME Init PROVE TypeInv
<1>1. IsProgram(prog)
  BY ConstantsAssumption DEF Init
<1>2. \A d \in Decls : Len(prog.bases[d]) \in Nat
  BY <1>1, LenProperties DEF IsProgram
<1>3. ASSUME NEW d \in Decls
      PROVE  [k \in 1..Len(prog.bases[d]) |-> k] \in Seq(0..Len(prog.bases[d]))
  <2> DEFINE n == Len(prog.bases[d])
             list == [k \in 1..n |-> k]
  <2>1. n \in Nat
    BY <1>2
  <2> HIDE DEF n
  <2>2. list \in [1..n -> 0..n]
    BY <2>1
  <2>3. list \in Seq(0..n)
    BY <2>1, <2>2, SeqDef
  <2> QED
    BY <2>3 DEF n
<1>4. ASSUME NEW n \in Nat, NEW list \in Seq(0..n)
      PROVE  NewAggregate(list) \in AggregateType /\ NewAggregate(list).baseclasses = list
  BY DEF NewAggregate, AggregateType, MaybeDecl
<1>5. \A d \in Decls : /\ ag[d] \in AggregateType
                       /\ ag[d].baseclasses \in Seq(0..Len(prog.bases[d]))
  BY <1>2, <1>3, <1>4 DEF Init
<1>6. AgOK
  BY <1>5 DEF AgOK, Init
<1>7. StackOK
  <2> DEFINE f == [fn |-> "module", pc |-> "enter", d |-> NoDecl, i |-> 1, b |-> 0,
                   sc |-> TRUE, scx |-> FALSE, errors |-> 0, owner |-> NoDecl,
                   todo |-> <<>>]
  <2>1. f \in GoodFrame
    BY DEF GoodFrame, ActivationType, Labels, MaybeDecl
  <2>2. stack = <<f>>
    BY DEF Init
  <2> HIDE DEF f
  <2> QED
    BY <2>1, <2>2 DEF StackOK
<1>8. RestOK
  <2>1. /\ bsym = [d \in Decls |-> {}] /\ deferred = <<>> /\ errors = 0
        /\ phase = "semantic"
        /\ dprogress = FALSE /\ nested = FALSE /\ found = FALSE
    BY DEF Init
  <2>2. bsym \in [Decls -> SUBSET Nat]
    BY <2>1
  <2>3. deferred \in Seq(Decls)
    BY <2>1
  <2> QED
    BY <2>1, <2>2, <2>3 DEF RestOK
<1> QED
  BY <1>1, <1>6, <1>7, <1>8 DEF TypeInv

LEMMA TypeNext == ASSUME TypeInv, [Next]_vars PROVE TypeInv'
<1>1. CASE SemanticStep
  BY <1>1, TypeReturnAtOnce, TypeEnter, TypeBaseType, TypeBaseTyped,
     TypeTypesResolved, TypeNoBaseClass, TypeCircularBase, TypeBaseClass,
     TypeBaseResolved, TypeDropIface, TypeIface, TypeBasesDone, TypeSymtab,
     TypeAncestorsForward, TypeVtbl, TypeMethod, TypeField, TypeLookupMember,
     TypeLookedUp, TypeInstMember, TypeOwnField, TypeFieldsForward, TypeFinish
  DEF SemanticStep
<1>2. CASE SearchStep
  BY <1>2, TypeSearchEnter, TypeSearchAnalysed, TypeSearchForward, TypeSearchOwn,
     TypeSearchBase, TypeSearchedBase DEF SearchStep
<1>3. CASE DriverStep
  BY <1>3, TypeRunRound, TypeRunEach, TypeRunRoundDone, TypeModuleMember,
     TypeModuleLookedUp, TypeModuleDrain, TypeModuleEnd, TypeDriverDrain,
     TypeDriverCheck, TypeUnchanged DEF DriverStep, Stopped
<1> QED
  BY <1>1, <1>2, <1>3, TypeUnchanged DEF Next

(* Type correctness: in every program the fields of the declarations, the  *)
(* queue and every activation on the stack keep their types; no index runs *)
(* past a base list and no activation is started on a null declaration.    *)
LEMMA TypeInvariant == Spec => []TypeInv
<1>1. Init => TypeInv
  BY TypeInit
<1>2. TypeInv /\ [Next]_vars => TypeInv'
  BY TypeNext
<1> QED
  BY <1>1, <1>2, PTL DEF Spec

THEOREM TypeCorrect == Spec => []TypeOK
<1>1. TypeInv => TypeOK
  <2>1. ASSUME TypeInv PROVE stack \in Seq(ActivationType)
    <3>1. GoodFrame \subseteq ActivationType
      BY DEF GoodFrame
    <3>2. \A i \in 1..Len(stack) : stack[i] \in ActivationType
      BY <2>1, <3>1, ElementOfSeq DEF TypeInv, StackOK
    <3>3. Len(stack) \in Nat /\ stack \in [1..Len(stack) -> GoodFrame]
      BY <2>1, LenProperties DEF TypeInv, StackOK
    <3>4. stack \in [1..Len(stack) -> ActivationType]
      BY <3>1, <3>3
    <3> QED
      BY <3>3, <3>4, SeqDef
  <2> QED
    BY <2>1 DEF TypeInv, AgOK, RestOK, TypeOK
<1> QED
  BY <1>1, TypeInvariant, PTL

----------------------------------------------------------------------------
(* The queue of deferred symbols.                                          *)

Once(q) == \A i, j \in 1..Len(q) : i # j => q[i] # q[j]

LEMMA AddDeferredOnce ==
  ASSUME NEW q \in Seq(Decls), Once(q), NEW d \in Decls
  PROVE  Once(AddDeferred(q, d)) /\ Once(AddIfScoped(q, d))
<1>1. CASE d \in Elems(q)
  BY <1>1 DEF AddDeferred, AddIfScoped
<1>2. CASE d \notin Elems(q)
  <2>1. Len(q) \in Nat /\ \A i \in 1..Len(q) : q[i] # d
    BY <1>2, LenProperties DEF Elems
  <2>2. /\ Len(Append(q, d)) = Len(q) + 1
        /\ \A i \in 1..Len(q) : Append(q, d)[i] = q[i]
        /\ Append(q, d)[Len(q) + 1] = d
    BY AppendProperties
  <2>3. Once(Append(q, d))
    BY <2>1, <2>2 DEF Once
  <2> QED
    BY <1>2, <2>3 DEF AddDeferred, AddIfScoped
<1> QED
  BY <1>1, <1>2

(* The queue changes in five places only: it is taken by a round, and a    *)
(* declaration is added to it, a base before it.                           *)
LEMMA OnceNext ==
  ASSUME TypeInv, Once(deferred), [Next]_vars
  PROVE  Once(deferred')
<1>1. deferred \in Seq(Decls)
  BY DEF TypeInv, RestOK
<1>2. Once(<<>>)
  BY DEF Once
<1>3. ASSUME SemBasesDone PROVE Once(deferred')
  BY <1>1, <1>3, AddDeferredOnce, InActivation DEF SemBasesDone, Postpone, Crash
<1>4. ASSUME SemFieldsForward PROVE Once(deferred')
  BY <1>1, <1>4, AddDeferredOnce, InActivation DEF SemFieldsForward
<1>5. ASSUME SemBaseResolved PROVE Once(deferred')
  <2> DEFINE c == BaseDecl(Top.d, Top.b)
  <2>1. Top.d \in Decls /\ Top.b \in 0..Len(prog.bases[Top.d])
    BY <1>5, InActivation DEF SemBaseResolved
  <2>2. c \in Decls
    BY <2>1, BaseDeclType
  <2>3. deferred' = deferred \/ deferred' = AddIfScoped(deferred, c)
    BY <1>5 DEF SemBaseResolved
  <2> QED
    BY <1>1, <2>2, <2>3, AddDeferredOnce
<1>6. ASSUME SemAncestorsForward PROVE Once(deferred')
  <2>1. Top.d \in Decls
    BY <1>6, InActivation DEF SemAncestorsForward
  <2>2. PICK j \in UnfinishedBases(Top.d) :
          Postpone(Top.d, AddIfScoped(deferred, BaseDecl(Top.d, BaseList(Top.d)[j])))
    BY <1>6 DEF SemAncestorsForward
  <2> DEFINE c == BaseDecl(Top.d, BaseList(Top.d)[j])
  <2>3. c \in Decls
    BY <2>1, BaseListElement DEF UnfinishedBases
  <2>4. AddIfScoped(deferred, c) \in Seq(Decls) /\ Once(AddIfScoped(deferred, c))
    BY <1>1, <2>3, AddDeferredType, AddDeferredOnce
  <2> QED
    BY <2>1, <2>2, <2>4, AddDeferredOnce DEF Postpone
<1>7. ASSUME RunRound PROVE Once(deferred')
  BY <1>2, <1>7 DEF RunRound
<1>8. ASSUME SemanticStep, ~SemBasesDone, ~SemFieldsForward, ~SemBaseResolved,
             ~SemAncestorsForward
      PROVE  deferred' = deferred
  BY <1>8 DEF SemanticStep, SemReturnAtOnce, Crash, SemEnter,
     SemBaseType, SemBaseTyped, SemTypesResolved, SemNoBaseClass, DropBase,
     SemCircularBase, SemBaseClass, SemDropIface, SemIface, SemSymtab,
     SemVtbl, SemMethod, SemField, SemLookupMember, LookupMember, SemLookedUp,
     SemInstMember, RunDeferred, SemOwnField, SemFinish
<1>9. ASSUME SearchStep PROVE deferred' = deferred
  BY <1>9 DEF SearchStep, SearchEnter, SearchAnalysed, SearchForward, SearchOwn,
     SearchBase, SearchedBase
<1>10. ASSUME DriverStep, ~RunRound PROVE deferred' = deferred
  BY <1>10 DEF DriverStep, RunEach, RunRoundDone, ModuleMember, LookupMember,
     ModuleLookedUp, ModuleDrain, RunDeferred, ModuleEnd, DriverDrain, DriverCheck,
     Stopped, vars
<1>11. ASSUME UNCHANGED vars PROVE deferred' = deferred
  BY <1>11 DEF vars
<1> QED
  BY <1>3, <1>4, <1>5, <1>6, <1>7, <1>8, <1>9, <1>10, <1>11 DEF Next

(* A symbol is never queued twice, whatever re-enters semantic() between   *)
(* the place that queues a base and the place that queues the declaration  *)
(* itself: a round of runDeferredSemantic() analyses each symbol once.     *)
THEOREM QueuedOnce == Spec => []DeferredOnce
<1>1. Init => Once(deferred)
  BY DEF Init, Once
<1>2. TypeInv /\ Once(deferred) /\ [Next]_vars => Once(deferred)'
  BY OnceNext DEF Once
<1>3. Once(deferred) => DeferredOnce
  BY DEF Once, DeferredOnce
<1> QED
  BY <1>1, <1>2, <1>3, TypeInvariant, PTL DEF Spec

----------------------------------------------------------------------------
(* No declaration is forgotten.  Three facts are kept by every step: a     *)
(* declaration in the middle of its analysis and without a scope is in the *)
(* hands of an activation; as long as there is no error a declaration is   *)
(* done, queued, in the rest of a round, on the stack, or still to be      *)
(* reached by the loop over the module's members; and the driver is done   *)
(* only with an empty stack and an empty queue.                            *)

(* The activations that analyse d, and those that analyse d now or later.  *)
Workers(d) ==
  {f \in ActivationType : f.fn = "semantic" /\ f.d = d /\ f.pc # "enter"}
InRound(f, d) ==
  f.fn = "run" /\ f.pc = "each" /\ \E j \in f.i..Len(f.todo) : f.todo[j] = d
FirstToCome(f) == IF f.pc = "enter" THEN f.i ELSE f.i + 1
ToCome(f, d) ==
  /\ f.fn = "module"
  /\ \E j \in 1..Len(prog.module) :
       FirstToCome(f) <= j /\ prog.module[j].what = "decl" /\ prog.module[j].d = d
Carers(d) ==
  {f \in ActivationType :
     (f.fn = "semantic" /\ f.d = d) \/ InRound(f, d) \/ ToCome(f, d)}

OnStack(S, s) == \E k \in 1..Len(s) : s[k] \in S

(* A declaration without a scope is in the hands of an activation.         *)
InHand ==
  \A d \in Decls : ag[d].semanticRun = "semantic" /\ ~ag[d].scope =>
    OnStack(Workers(d), stack)
Remembered ==
  errors = 0 => \A d \in Decls :
    IsDone(d) \/ d \in Elems(deferred) \/ OnStack(Carers(d), stack)
AtEnd == phase = "done" => stack = <<>> /\ deferred = <<>>
CareInv == InHand /\ Remembered /\ AtEnd

(* What a change of the stack does to the activations of a set.            *)
LEMMA Replaced ==
  ASSUME NEW T, NEW s \in Seq(T), s # <<>>, NEW S, OnStack(S, s), NEW f \in T,
         s[Len(s)] \in S => f \in S
  PROVE  OnStack(S, [s EXCEPT ![Len(s)] = f])
<1>1. Len(s) \in Nat /\ Len(s) \in 1..Len(s)
  BY EmptySeq, LenProperties
<1> DEFINE t == [s EXCEPT ![Len(s)] = f]
<1>2. /\ Len(t) = Len(s) /\ t[Len(s)] = f
      /\ \A k \in 1..Len(s) : k # Len(s) => t[k] = s[k]
  <2>1. \A i \in 1..Len(s) : t[i] = IF i = Len(s) THEN f ELSE s[i]
    BY <1>1, ExceptSeq
  <2>2. Len(t) = Len(s)
    BY <1>1, ExceptSeq
  <2> QED BY <1>1, <2>1, <2>2
<1> HIDE DEF t
<1>3. PICK k \in 1..Len(s) : s[k] \in S
  BY DEF OnStack
<1> QED BY <1>1, <1>2, <1>3 DEF OnStack

(* A sequence over T is one over every set that includes T.                *)
LEMMA Wider == ASSUME NEW T, NEW U, T \subseteq U, NEW s \in Seq(T) PROVE s \in Seq(U)
<1>1. Len(s) \in Nat /\ s \in [1..Len(s) -> T]
  BY LenProperties
<1>2. s \in [1..Len(s) -> U]
  BY <1>1
<1> QED BY <1>1, <1>2, SeqDef

LEMMA Pushed ==
  ASSUME NEW T, NEW s \in Seq(T), s # <<>>, NEW S, OnStack(S, s), NEW f \in T, NEW g,
         s[Len(s)] \in S => f \in S \/ g \in S
  PROVE  OnStack(S, Append([s EXCEPT ![Len(s)] = f], g))
<1> DEFINE t == [s EXCEPT ![Len(s)] = f]
           u == Append(t, g)
<1>1. Len(s) \in Nat /\ Len(s) \in 1..Len(s)
  BY EmptySeq, LenProperties
<1>2. t \in Seq(T) /\ Len(t) = Len(s) /\ t[Len(s)] = f
      /\ \A k \in 1..Len(s) : k # Len(s) => t[k] = s[k]
  <2>1. t \in Seq(T) /\ Len(t) = Len(s) /\ \A i \in 1..Len(s) : t[i] = IF i = Len(s) THEN f ELSE s[i]
    BY <1>1, ExceptSeq
  <2> QED BY <1>1, <2>1
<1> HIDE DEF t
<1>3. Len(u) = Len(s) + 1 /\ u[Len(s) + 1] = g /\ \A k \in 1..Len(s) : u[k] = t[k]
  <2>1. t \in Seq(T \cup {g})
    BY <1>2, Wider
  <2> QED BY <1>2, <2>1, AppendProperties
<1>4. PICK k \in 1..Len(s) : s[k] \in S
  BY DEF OnStack
<1> HIDE DEF u
<1>5. CASE k # Len(s)
  <2>1. u[k] \in S /\ k \in 1..Len(u) BY <1>1, <1>2, <1>3, <1>4, <1>5
  <2> QED BY <2>1 DEF OnStack
<1>6. CASE k = Len(s)
  <2>1. u[Len(s)] \in S \/ u[Len(s) + 1] \in S
    BY <1>1, <1>2, <1>3, <1>4, <1>6
  <2> QED BY <1>1, <1>3, <2>1 DEF OnStack
<1> QED BY <1>5, <1>6

LEMMA Popped ==
  ASSUME NEW T, NEW s \in Seq(T), s # <<>>, NEW S, OnStack(S, s), s[Len(s)] \notin S
  PROVE  OnStack(S, SubSeq(s, 1, Len(s) - 1))
<1>1. Len(s) \in Nat /\ Len(s) # 0 /\ Len(s) - 1 \in 0..Len(s)
  BY EmptySeq, LenProperties
<1>2. PICK k \in 1..Len(s) : s[k] \in S
  BY DEF OnStack
<1>3. k \in 1..(Len(s) - 1)
  <2>1. k # Len(s) BY <1>2
  <2> QED BY <1>1, <2>1
<1> DEFINE u == SubSeq(s, 1, Len(s) - 1)
<1>4. Len(u) = Len(s) - 1 /\ \A j \in 1..Len(u) : u[j] = s[j]
  <2>1. \A j \in 1..(Len(s) - 1) : s[j] \in T
    BY <1>1, ElementOfSeq
  <2>2. 1 \in Int /\ Len(s) - 1 \in Int
    BY <1>1
  <2>3. PICK n \in Nat : n = Len(s) - 1
    BY <1>1
  <2>4. /\ Len(u) = IF 1 <= n THEN n - 1 + 1 ELSE 0
        /\ \A i \in 1..(n - 1 + 1) : u[i] = s[1 + i - 1]
    BY <2>1, <2>2, <2>3, SubSeqProperties
  <2> HIDE DEF u
  <2>5. n - 1 + 1 = n /\ \A i \in 1..n : 1 + i - 1 = i
    BY <2>3
  <2>6. Len(u) = n
    BY <2>3, <2>4
  <2> QED BY <2>3, <2>4, <2>5, <2>6
<1>5. k \in 1..Len(u) /\ u[k] \in S
  BY <1>2, <1>3, <1>4
<1> QED BY <1>5 DEF OnStack

LEMMA StackTyped == ASSUME TypeInv PROVE stack \in Seq(ActivationType)
  BY Wider DEF TypeInv, StackOK, GoodFrame

(* The activation at the top goes on as f, maybe with a call.              *)
GoesOn(f) == Become(f) \/ \E g : Call(f, g)

LEMMA Stays ==
  ASSUME TypeInv, stack # <<>>, NEW f \in ActivationType, GoesOn(f), NEW S, OnStack(S, stack),
         Top \in S => f \in S
  PROVE  OnStack(S, stack')
<1>1. stack \in Seq(ActivationType)
  BY StackTyped
<1>2. CASE Become(f)
  BY <1>1, <1>2, Replaced DEF Become, Top
<1>3. ASSUME NEW g, Call(f, g) PROVE OnStack(S, stack')
  BY <1>1, <1>3, Pushed DEF Call, Top
<1> QED BY <1>2, <1>3 DEF GoesOn

LEMMA Comes ==
  ASSUME TypeInv, stack # <<>>, NEW f \in ActivationType, GoesOn(f), NEW S, f \in S
  PROVE  OnStack(S, stack')
<1>1. stack \in Seq(ActivationType) /\ Len(stack) \in 1..Len(stack) /\ Len(stack) \in Nat
  BY StackTyped, EmptySeq, LenProperties
<1> DEFINE t == [stack EXCEPT ![Len(stack)] = f]
<1>2. t \in Seq(ActivationType) /\ Len(t) = Len(stack) /\ t[Len(stack)] = f
  BY <1>1, ExceptSeq
<1> HIDE DEF t
<1>3. CASE stack' = t
  BY <1>1, <1>2, <1>3 DEF OnStack
<1>4. ASSUME NEW g, stack' = Append(t, g) PROVE OnStack(S, stack')
  <2>1. t \in Seq(ActivationType \cup {g})
    BY <1>2, Wider
  <2>2. Len(Append(t, g)) = Len(t) + 1 /\ Append(t, g)[Len(stack)] = f
    BY <1>1, <1>2, <2>1, AppendProperties
  <2>3. Len(stack) \in 1..Len(stack')
    BY <1>1, <1>2, <1>4, <2>2
  <2> QED BY <1>4, <2>2, <2>3 DEF OnStack
<1> QED BY <1>3, <1>4 DEF GoesOn, Become, Call, t

LEMMA Leaves ==
  ASSUME TypeInv, stack # <<>>, Return, NEW S, OnStack(S, stack), Top \notin S
  PROVE  OnStack(S, stack')
<1>1. stack \in Seq(ActivationType)
  BY StackTyped
<1> QED BY <1>1, Popped DEF Return, Top

LEMMA Hands ==
  ASSUME TypeInv, stack # <<>>, NEW f \in ActivationType, NEW g, Call(f, g),
         NEW S, OnStack(S, stack), Top \in S => f \in S \/ g \in S
  PROVE  OnStack(S, stack')
<1>1. stack \in Seq(ActivationType)
  BY StackTyped
<1> QED BY <1>1, Pushed DEF Call, Top

(* Who cares for a declaration depends on the program alone.               *)
LEMMA CarersSame == ASSUME prog' = prog PROVE \A d : Carers(d)' = Carers(d)
  BY DEF Carers, ToCome, InRound, FirstToCome

(* An activation of semantic() goes on with its declaration.               *)
InnerMove ==
  \E f \in ActivationType :
    f.fn = "semantic" /\ f.d = Top.d /\ f.pc # "enter" /\ GoesOn(f)
(* Only the declaration at the top changes, and what is done stays done.   *)
Others ==
  \A x \in Decls :
    /\ x # Top.d => ag'[x].semanticRun = ag[x].semanticRun /\ ag'[x].scope = ag[x].scope
    /\ ag[x].semanticRun = "done" => ag'[x].semanticRun = "done"
(* Nothing leaves the queue and no error is taken back.                    *)
Quiet ==
  /\ prog' = prog /\ phase' # "done" /\ (errors' = 0 => errors = 0)
  /\ Elems(deferred) \subseteq Elems(deferred')

(* A queued declaration stays queued when another one is added.            *)
LEMMA AddedElems ==
  ASSUME NEW q \in Seq(Decls), NEW d \in Decls
  PROVE  /\ AddDeferred(q, d) \in Seq(Decls)
         /\ Elems(AddDeferred(q, d)) = Elems(q) \cup {d}
         /\ Elems(q) \subseteq Elems(AddIfScoped(q, d))
<1>1. Elems(Append(q, d)) = Elems(q) \cup {d}
  <2>1. /\ Len(q) \in Nat /\ Len(Append(q, d)) = Len(q) + 1
        /\ \A i \in 1..Len(q) : Append(q, d)[i] = q[i]
        /\ Append(q, d)[Len(q) + 1] = d
    BY AppendProperties, LenProperties
  <2>2. 1 .. (Len(q) + 1) = 1..Len(q) \cup {Len(q) + 1}
    BY <2>1
  <2> QED BY <2>1, <2>2 DEF Elems
<1>2. Elems(AddDeferred(q, d)) = Elems(q) \cup {d}
  BY <1>1 DEF AddDeferred
<1> QED BY <1>2, AddDeferredType DEF AddIfScoped

(* A step of an activation of semantic().                                  *)
LEMMA InnerCare ==
  ASSUME TypeInv, CareInv, stack # <<>>, Top.fn = "semantic",
         Top.d \in Decls, InnerMove, Others, Quiet
  PROVE  CareInv'
<1> PICK f \in ActivationType :
      f.fn = "semantic" /\ f.d = Top.d /\ f.pc # "enter" /\ GoesOn(f)
  BY DEF InnerMove
<1>1. \A d \in Decls : OnStack(Workers(d), stack) => OnStack(Workers(d), stack')
  <2>1. \A d : Top \in Workers(d) => f \in Workers(d)
    BY DEF Workers
  <2> QED BY <2>1, Stays
<1>2. \A d \in Decls : OnStack(Carers(d), stack) => OnStack(Carers(d), stack')
  <2>1. \A d : Top \in Carers(d) => f \in Carers(d)
    BY DEF Carers, InRound, ToCome
  <2> QED BY <2>1, Stays
<1>3. OnStack(Workers(Top.d), stack')
  BY Comes DEF Workers
<1>4. InHand'
  <2> SUFFICES ASSUME NEW d \in Decls, ag'[d].semanticRun = "semantic", ~ag'[d].scope
               PROVE  OnStack(Workers(d), stack')
    BY DEF InHand, Workers
  <2>1. CASE d = Top.d
    BY <1>3, <2>1
  <2>2. CASE d # Top.d
    BY <1>1, <2>2 DEF CareInv, InHand, Others
  <2> QED BY <2>1, <2>2
<1>5. Remembered'
  BY <1>2, CarersSame DEF CareInv, Remembered, Others, Quiet, IsDone
<1> QED BY <1>4, <1>5 DEF CareInv, AtEnd, Quiet

(* The end of an activation of semantic().                                 *)
LEMMA LeaveCare ==
  ASSUME TypeInv, CareInv, stack # <<>>, Top.fn = "semantic",
         Top.d \in Decls, Return, Others, Quiet,
         ag'[Top.d].semanticRun = "done" \/ (ag'[Top.d].scope /\ Top.d \in Elems(deferred'))
  PROVE  CareInv'
<1>1. \A d \in Decls : d # Top.d /\ OnStack(Workers(d), stack) => OnStack(Workers(d), stack')
  <2>1. \A d : d # Top.d => Top \notin Workers(d)
    BY DEF Workers
  <2> QED BY <2>1, Leaves
<1>2. \A d \in Decls : d # Top.d /\ OnStack(Carers(d), stack) => OnStack(Carers(d), stack')
  <2>1. \A d : d # Top.d => Top \notin Carers(d)
    BY DEF Carers, InRound, ToCome
  <2> QED BY <2>1, Leaves
<1>4. InHand'
  <2> SUFFICES ASSUME NEW d \in Decls, ag'[d].semanticRun = "semantic", ~ag'[d].scope
               PROVE  OnStack(Workers(d), stack')
    BY DEF InHand, Workers
  <2>1. d # Top.d
    OBVIOUS
  <2> QED BY <1>1, <2>1 DEF CareInv, InHand, Others
<1>5. Remembered'
  <2> SUFFICES ASSUME errors' = 0, NEW d \in Decls
               PROVE  IsDone(d)' \/ d \in Elems(deferred') \/ OnStack(Carers(d)', stack')
    BY DEF Remembered, Elems
  <2>1. IsDone(d) \/ d \in Elems(deferred) \/ OnStack(Carers(d), stack)
    BY DEF CareInv, Remembered, Quiet
  <2>2. CASE d = Top.d
    BY <2>2 DEF Quiet, IsDone
  <2>3. CASE d # Top.d
    BY <1>2, <2>1, <2>3, CarersSame DEF Others, Quiet, IsDone
  <2> QED BY <2>2, <2>3
<1> QED BY <1>4, <1>5 DEF CareInv, AtEnd, Quiet

(* A step that leaves the declarations alone.                              *)
LEMMA AsideCare ==
  ASSUME TypeInv, CareInv, prog' = prog, phase' # "done", errors' = 0 => errors = 0,
         \A x \in Decls : ag'[x].semanticRun = ag[x].semanticRun /\ ag'[x].scope = ag[x].scope,
         \A d \in Decls : OnStack(Workers(d), stack) => OnStack(Workers(d), stack'),
         \A d \in Decls : d \in Elems(deferred) \/ OnStack(Carers(d), stack)
                         => d \in Elems(deferred') \/ OnStack(Carers(d), stack')
  PROVE  CareInv'
<1>1. InHand'
  BY DEF CareInv, InHand, Workers
<1>2. Remembered'
  BY CarersSame DEF CareInv, Remembered, IsDone
<1> QED BY <1>1, <1>2 DEF CareInv, AtEnd

(* The top goes on or ends and is not responsible for a declaration.       *)
LEMMA SearchCare ==
  ASSUME TypeInv, CareInv, stack # <<>>, Top.fn = "search", prog' = prog, phase' # "done",
         errors' = 0 => errors = 0, deferred' = deferred,
         \A x \in Decls : ag'[x].semanticRun = ag[x].semanticRun /\ ag'[x].scope = ag[x].scope,
         Return \/ \E f \in ActivationType : GoesOn(f)
  PROVE  CareInv'
<1>1. \A d : Top \notin Workers(d) /\ Top \notin Carers(d)
  BY DEF Workers, Carers, InRound, ToCome
<1>2. \A S : Top \notin S /\ OnStack(S, stack) => OnStack(S, stack')
  BY Leaves, Stays
<1> QED BY <1>1, <1>2, AsideCare

LEMMA GotoMoves ==
  ASSUME TypeInv, stack # <<>>, Top.fn = "semantic",
         NEW pc \in Labels \ {"enter"}, NEW i \in Nat \ {0}, Goto(pc, i)
  PROVE  InnerMove
<1> DEFINE f == [Top EXCEPT !.pc = pc, !.i = i]
<1>1. Top \in ActivationType
  BY TopIsGood DEF TypeInv, GoodFrame
<1>2. f \in ActivationType /\ f.fn = "semantic" /\ f.d = Top.d /\ f.pc = pc
  BY <1>1 DEF ActivationType
<1>3. GoesOn(f)
  BY DEF Goto, GoesOn
<1> QED BY <1>2, <1>3 DEF InnerMove

LEMMA CallMoves ==
  ASSUME TypeInv, stack # <<>>, Top.fn = "semantic", NEW pc \in Labels \ {"enter"}, NEW k \in Nat,
         NEW g, Call([Top EXCEPT !.pc = pc, !.b = k, !.scx = TRUE], g)
  PROVE  InnerMove
<1> DEFINE f == [Top EXCEPT !.pc = pc, !.b = k, !.scx = TRUE]
<1>1. Top \in ActivationType
  BY TopIsGood DEF TypeInv, GoodFrame
<1>2. f \in ActivationType /\ f.fn = "semantic" /\ f.d = Top.d /\ f.pc = pc
  BY <1>1 DEF ActivationType
<1>3. GoesOn(f)
  BY DEF GoesOn
<1> QED BY <1>2, <1>3 DEF InnerMove

(* The updates of a step touch the declaration at the top only.            *)
LEMMA AgOne ==
  ASSUME TypeInv, NEW d \in Decls, d = Top.d, NEW r, ag' = [ag EXCEPT ![d] = r],
         ag[d].semanticRun = "done" => r.semanticRun = "done"
  PROVE  Others
  BY DEF TypeInv, AgOK, Others

LEMMA AgScope ==
  ASSUME TypeInv, Top.d \in Decls, NEW v, ag' = [ag EXCEPT ![Top.d].scope = v]
  PROVE  Others /\ ag'[Top.d].scope = v
  BY DEF TypeInv, AgOK, AggregateType, Others

LEMMA AgBase ==
  ASSUME TypeInv, Top.d \in Decls, NEW u, NEW v,
         ag' = [ag EXCEPT ![Top.d].scope = u, ![Top.d].baseok = v]
  PROVE  Others /\ ag'[Top.d].scope = u
  BY DEF TypeInv, AgOK, AggregateType, Others

LEMMA AgDone ==
  ASSUME TypeInv, Top.d \in Decls, NEW u, NEW v,
         ag' = [ag EXCEPT ![Top.d].semanticRun = "done", ![Top.d].membersRun = u, ![Top.d].bad = v]
  PROVE  Others /\ ag'[Top.d].semanticRun = "done"
  BY DEF TypeInv, AgOK, AggregateType, Others

LEMMA AgBaseClass ==
  ASSUME TypeInv, Top.d \in Decls, NEW c,
         \/ ag' = [ag EXCEPT ![Top.d].baseClass = c, ![Top.d].scope = TRUE]
         \/ ag' = [ag EXCEPT ![Top.d].baseClass = c]
  PROVE  Others
<1>1. CASE ag' = [ag EXCEPT ![Top.d].baseClass = c, ![Top.d].scope = TRUE]
  <2>1. PICK r : r = [ag[Top.d] EXCEPT !.baseClass = c]
    OBVIOUS
  <2>2. ag[Top.d] \in AggregateType
    BY DEF TypeInv, AgOK
  <2>3. r.semanticRun = ag[Top.d].semanticRun /\ [r EXCEPT !.scope = TRUE].semanticRun = r.semanticRun
    BY <2>1, <2>2 DEF AggregateType
  <2>4. ag' = [ag EXCEPT ![Top.d] = [r EXCEPT !.scope = TRUE]]
    BY <1>1, <2>1 DEF TypeInv, AgOK
  <2> QED BY <2>3, <2>4, AgOne
<1>2. CASE ag' = [ag EXCEPT ![Top.d].baseClass = c]
  BY <1>2 DEF TypeInv, AgOK, AggregateType, Others
<1> QED BY <1>1, <1>2

LEMMA AgNone == ASSUME ag' = ag PROVE Others
  BY DEF Others

LEMMA QuietSame ==
  ASSUME TypeInv, NEW fn, NEW pc, At(fn, pc), UNCHANGED <<prog, phase>>,
         deferred' = deferred \/ (\E d \in Decls : deferred' = AddDeferred(deferred, d)),
         errors' = errors \/ (errors' \in Nat /\ errors <= errors')
  PROVE  Quiet
<1>1. prog' = prog /\ phase' # "done"
  BY DEF At
<1>2. errors' = 0 => errors = 0
  BY DEF TypeInv, RestOK
<1>3. Elems(deferred) \subseteq Elems(deferred')
  <2>1. \A d \in Decls : Elems(deferred) \subseteq Elems(AddDeferred(deferred, d))
    BY AddedElems DEF TypeInv, RestOK
  <2> QED BY <2>1
<1> QED BY <1>1, <1>2, <1>3 DEF Quiet

LEMMA AtSemantic ==
  ASSUME TypeInv, NEW pc, At("semantic", pc)
  PROVE  /\ stack # <<>> /\ Top.d \in Decls /\ Top.fn = "semantic" /\ Top.pc = pc
         /\ Top.i \in Nat \ {0} /\ Top.i + 1 \in Nat \ {0} /\ Top \in ActivationType
<1>1. stack # <<>> /\ Top \in GoodFrame /\ Top.fn = "semantic" /\ Top.pc = pc
  BY TopIsGood DEF TypeInv, At
<1> QED
  BY <1>1 DEF GoodFrame, ActivationType

(* The steps of semantic(), one lemma each.                                *)
LEMMA CareBaseType == ASSUME TypeInv, CareInv, SemBaseType PROVE CareInv'
<1>1. /\ stack # <<>> /\ Top.d \in Decls /\ Top.fn = "semantic" /\ Top.pc = "types"
      /\ Top.i \in Nat \ {0} /\ Top.i + 1 \in Nat \ {0} /\ Top \in ActivationType
  BY AtSemantic DEF SemBaseType
<1> Top.i \in 1..Len(BaseList(Top.d))
  BY <1>1, FieldTypes DEF SemBaseType
<1>2. Quiet
  <2>1. At("semantic", "types") /\ UNCHANGED <<prog, phase, deferred, errors>>
    BY DEF SemBaseType
  <2> QED BY <2>1, QuietSame
<1>3. Others
  <2>1. \E v : ag' = [ag EXCEPT ![Top.d].scope = v]
    BY DEF SemBaseType
  <2> QED BY <1>1, <2>1, AgScope
<1>4. InnerMove
  <2> DEFINE k == BaseList(Top.d)[Top.i]
             v == prog.bases[Top.d][k].via
             f == [Top EXCEPT !.i = Top.i + 1, !.scx = TRUE]
  <2>1. k \in Nat
    BY <1>1, BaseListElement
  <2>2. CASE Call([Top EXCEPT !.pc = "typed", !.b = k, !.scx = TRUE], Searching(v, v))
    BY <1>1, <2>1, <2>2, CallMoves DEF Labels
  <2>3. CASE Become(f)
    <3>1. f \in ActivationType /\ f.fn = "semantic" /\ f.d = Top.d /\ f.pc = "types"
      BY <1>1 DEF ActivationType
    <3> QED BY <2>3, <3>1 DEF InnerMove, GoesOn
  <2> QED BY <2>2, <2>3 DEF SemBaseType
<1> QED BY <1>1, <1>2, <1>3, <1>4, InnerCare

LEMMA CareBaseTyped == ASSUME TypeInv, CareInv, SemBaseTyped PROVE CareInv'
<1>1. /\ stack # <<>> /\ Top.d \in Decls /\ Top.fn = "semantic" /\ Top.pc = "typed"
      /\ Top.i \in Nat \ {0} /\ Top.i + 1 \in Nat \ {0} /\ Top \in ActivationType
  BY AtSemantic DEF SemBaseTyped
<1>2. Quiet
  <2>1. (At("semantic", "typed")) /\ UNCHANGED <<prog, phase, deferred>>
    BY DEF SemBaseTyped
  <2>2. errors' = errors \/ (errors' \in Nat /\ errors <= errors')
    BY DEF SemBaseTyped, TypeInv, RestOK
  <2> QED BY <2>1, <2>2, QuietSame
<1>3. Others
  <2>1. \E v : ag' = [ag EXCEPT ![Top.d].scope = v]
    BY DEF SemBaseTyped
  <2> QED BY <1>1, <2>1, AgScope
<1>4. InnerMove
  BY <1>1, GotoMoves DEF SemBaseTyped, Labels
<1> QED BY <1>1, <1>2, <1>3, <1>4, InnerCare

LEMMA CareNoBaseClass == ASSUME TypeInv, CareInv, SemNoBaseClass PROVE CareInv'
<1>1. /\ stack # <<>> /\ Top.d \in Decls /\ Top.fn = "semantic" /\ Top.pc = "base"
      /\ Top.i \in Nat \ {0} /\ Top.i + 1 \in Nat \ {0} /\ Top \in ActivationType
  BY AtSemantic DEF SemNoBaseClass
<1>2. Quiet
  <2>1. (At("semantic", "base")) /\ UNCHANGED <<prog, phase, deferred>>
    BY DEF SemNoBaseClass, DropBase
  <2>2. errors' = errors \/ (errors' \in Nat /\ errors <= errors')
    BY DEF SemNoBaseClass, TypeInv, RestOK, DropBase
  <2> QED BY <2>1, <2>2, QuietSame
<1>3. Others
  BY <1>1 DEF SemNoBaseClass, Others, TypeInv, AgOK, AggregateType, DropBase
<1>4. InnerMove
  BY <1>1, GotoMoves DEF SemNoBaseClass, Labels, FirstIface
<1> QED BY <1>1, <1>2, <1>3, <1>4, InnerCare

LEMMA CareCircularBase == ASSUME TypeInv, CareInv, SemCircularBase PROVE CareInv'
<1>1. /\ stack # <<>> /\ Top.d \in Decls /\ Top.fn = "semantic" /\ Top.pc = "base"
      /\ Top.i \in Nat \ {0} /\ Top.i + 1 \in Nat \ {0} /\ Top \in ActivationType
  BY AtSemantic DEF SemCircularBase
<1>2. Quiet
  <2>1. (At("semantic", "base")) /\ UNCHANGED <<prog, phase, deferred>>
    BY DEF SemCircularBase, DropBase
  <2>2. errors' = errors \/ (errors' \in Nat /\ errors <= errors')
    BY DEF SemCircularBase, TypeInv, RestOK, DropBase
  <2> QED BY <2>1, <2>2, QuietSame
<1>3. Others
  BY <1>1 DEF SemCircularBase, Others, TypeInv, AgOK, AggregateType, DropBase
<1>4. InnerMove
  BY <1>1, GotoMoves DEF SemCircularBase, Labels, FirstIface
<1> QED BY <1>1, <1>2, <1>3, <1>4, InnerCare

LEMMA CareBaseClass == ASSUME TypeInv, CareInv, SemBaseClass PROVE CareInv'
<1>1. /\ stack # <<>> /\ Top.d \in Decls /\ Top.fn = "semantic" /\ Top.pc = "base"
      /\ Top.i \in Nat \ {0} /\ Top.i + 1 \in Nat \ {0} /\ Top \in ActivationType
  BY AtSemantic DEF SemBaseClass
<1>2. Quiet
  <2>1. (At("semantic", "base")) /\ UNCHANGED <<prog, phase, deferred>>
    BY DEF SemBaseClass
  <2>2. errors' = errors \/ (errors' \in Nat /\ errors <= errors')
    BY DEF SemBaseClass, TypeInv, RestOK
  <2> QED BY <2>1, <2>2, QuietSame
<1>3. Others
  <2>1. \E c : \/ ag' = [ag EXCEPT ![Top.d].baseClass = c, ![Top.d].scope = TRUE]
               \/ ag' = [ag EXCEPT ![Top.d].baseClass = c]
    BY DEF SemBaseClass
  <2> QED BY <1>1, <2>1, AgBaseClass
<1>4. InnerMove
  <2> DEFINE k == BaseList(Top.d)[1]
  <2>1. 1 \in 1..Len(BaseList(Top.d))
    <3>1. BaseList(Top.d) # <<>>
      BY DEF SemBaseClass, FirstKind
    <3> QED BY <1>1, <3>1, FieldTypes, EmptySeq
  <2>2. k \in Nat
    BY <1>1, <2>1, BaseListElement
  <2>3. CASE \E g : Call([Top EXCEPT !.pc = "based", !.b = k, !.scx = TRUE], g)
    BY <1>1, <2>2, <2>3, CallMoves DEF Labels
  <2>4. CASE Goto("ifaces", 2)
    BY <1>1, <2>4, GotoMoves DEF Labels
  <2> QED BY <2>3, <2>4 DEF SemBaseClass
<1> QED BY <1>1, <1>2, <1>3, <1>4, InnerCare

LEMMA CareDropIface == ASSUME TypeInv, CareInv, SemDropIface PROVE CareInv'
<1>1. /\ stack # <<>> /\ Top.d \in Decls /\ Top.fn = "semantic" /\ Top.pc = "ifaces"
      /\ Top.i \in Nat \ {0} /\ Top.i + 1 \in Nat \ {0} /\ Top \in ActivationType
  BY AtSemantic DEF SemDropIface
<1>2. Quiet
  <2>1. (At("semantic", "ifaces")) /\ UNCHANGED <<prog, phase, deferred>>
    BY DEF SemDropIface, DropBase
  <2>2. errors' = errors \/ (errors' \in Nat /\ errors <= errors')
    BY DEF SemDropIface, TypeInv, RestOK, DropBase
  <2> QED BY <2>1, <2>2, QuietSame
<1>3. Others
  BY <1>1 DEF SemDropIface, Others, TypeInv, AgOK, AggregateType, DropBase
<1>4. InnerMove
  BY <1>1, GotoMoves DEF SemDropIface, Labels
<1> QED BY <1>1, <1>2, <1>3, <1>4, InnerCare

LEMMA CareIface == ASSUME TypeInv, CareInv, SemIface PROVE CareInv'
<1>1. /\ stack # <<>> /\ Top.d \in Decls /\ Top.fn = "semantic" /\ Top.pc = "ifaces"
      /\ Top.i \in Nat \ {0} /\ Top.i + 1 \in Nat \ {0} /\ Top \in ActivationType
  BY AtSemantic DEF SemIface
<1>2. Quiet
  <2>1. (At("semantic", "ifaces")) /\ UNCHANGED <<prog, phase, deferred>>
    BY DEF SemIface
  <2>2. errors' = errors \/ (errors' \in Nat /\ errors <= errors')
    BY DEF SemIface, TypeInv, RestOK
  <2> QED BY <2>1, <2>2, QuietSame
<1>3. Others
  BY <1>1 DEF SemIface, Others, TypeInv, AgOK, AggregateType
<1>4. InnerMove
  <2> DEFINE k == BaseList(Top.d)[Top.i]
  <2>1. Top.i \in 1..Len(BaseList(Top.d))
    BY <1>1, FieldTypes DEF SemIface
  <2>2. k \in Nat
    BY <1>1, <2>1, BaseListElement
  <2>3. CASE \E g : Call([Top EXCEPT !.pc = "ifaced", !.b = k, !.scx = TRUE], g)
    BY <1>1, <2>2, <2>3, CallMoves DEF Labels
  <2>4. CASE Goto("ifaces", Top.i + 1)
    BY <1>1, <2>4, GotoMoves DEF Labels
  <2> QED BY <2>3, <2>4 DEF SemIface
<1> QED BY <1>1, <1>2, <1>3, <1>4, InnerCare

LEMMA CareVtbl == ASSUME TypeInv, CareInv, SemVtbl PROVE CareInv'
<1>1. /\ stack # <<>> /\ Top.d \in Decls /\ Top.fn = "semantic" /\ Top.pc = "ancestors"
      /\ Top.i \in Nat \ {0} /\ Top.i + 1 \in Nat \ {0} /\ Top \in ActivationType
  BY AtSemantic DEF SemVtbl
<1>2. Quiet
  <2>1. (At("semantic", "ancestors")) /\ UNCHANGED <<prog, phase, deferred>>
    BY DEF SemVtbl
  <2>2. errors' = errors \/ (errors' \in Nat /\ errors <= errors')
    BY DEF SemVtbl, TypeInv, RestOK
  <2> QED BY <2>1, <2>2, QuietSame
<1>3. Others
  BY <1>1 DEF SemVtbl, Others, TypeInv, AgOK, AggregateType
<1>4. InnerMove
  BY <1>1, GotoMoves DEF SemVtbl, Labels
<1> QED BY <1>1, <1>2, <1>3, <1>4, InnerCare

LEMMA CareMethod == ASSUME TypeInv, CareInv, SemMethod PROVE CareInv'
<1>1. /\ stack # <<>> /\ Top.d \in Decls /\ Top.fn = "semantic" /\ Top.pc = "members"
      /\ Top.i \in Nat \ {0} /\ Top.i + 1 \in Nat \ {0} /\ Top \in ActivationType
  BY AtSemantic DEF SemMethod
<1>2. Quiet
  <2>1. (At("semantic", "members")) /\ UNCHANGED <<prog, phase, deferred>>
    BY DEF SemMethod
  <2>2. errors' = errors \/ (errors' \in Nat /\ errors <= errors')
    BY DEF SemMethod, TypeInv, RestOK
  <2> QED BY <2>1, <2>2, QuietSame
<1>3. Others
  BY <1>1 DEF SemMethod, Others, TypeInv, AgOK, AggregateType
<1>4. InnerMove
  BY <1>1, GotoMoves DEF SemMethod, Labels
<1> QED BY <1>1, <1>2, <1>3, <1>4, InnerCare

LEMMA CareField == ASSUME TypeInv, CareInv, SemField PROVE CareInv'
<1>1. /\ stack # <<>> /\ Top.d \in Decls /\ Top.fn = "semantic" /\ Top.pc = "members"
      /\ Top.i \in Nat \ {0} /\ Top.i + 1 \in Nat \ {0} /\ Top \in ActivationType
  BY AtSemantic DEF SemField
<1>2. Quiet
  <2>1. (At("semantic", "members")) /\ UNCHANGED <<prog, phase, deferred>>
    BY DEF SemField
  <2>2. errors' = errors \/ (errors' \in Nat /\ errors <= errors')
    BY DEF SemField, TypeInv, RestOK
  <2> QED BY <2>1, <2>2, QuietSame
<1>3. Others
  BY AgNone DEF SemField
<1>4. InnerMove
  BY <1>1, GotoMoves DEF SemField, Labels
<1> QED BY <1>1, <1>2, <1>3, <1>4, InnerCare

LEMMA CareLookedUp == ASSUME TypeInv, CareInv, SemLookedUp PROVE CareInv'
<1>1. /\ stack # <<>> /\ Top.d \in Decls /\ Top.fn = "semantic" /\ Top.pc = "looked"
      /\ Top.i \in Nat \ {0} /\ Top.i + 1 \in Nat \ {0} /\ Top \in ActivationType
  BY AtSemantic DEF SemLookedUp
<1>2. Quiet
  <2>1. (At("semantic", "looked")) /\ UNCHANGED <<prog, phase, deferred>>
    BY DEF SemLookedUp
  <2>2. errors' = errors \/ (errors' \in Nat /\ errors <= errors')
    BY DEF SemLookedUp, TypeInv, RestOK
  <2> QED BY <2>1, <2>2, QuietSame
<1>3. Others
  BY AgNone DEF SemLookedUp
<1>4. InnerMove
  BY <1>1, GotoMoves DEF SemLookedUp, Labels
<1> QED BY <1>1, <1>2, <1>3, <1>4, InnerCare

LEMMA CareBaseResolved == ASSUME TypeInv, CareInv, SemBaseResolved PROVE CareInv'
<1>1. /\ stack # <<>> /\ Top.d \in Decls /\ Top.fn = "semantic"
      /\ (Top.pc = "based" \/ Top.pc = "ifaced") /\ Top.b \in 0..Len(prog.bases[Top.d])
      /\ Top.i \in Nat \ {0} /\ Top.i + 1 \in Nat \ {0} /\ Top \in ActivationType
  BY AtSemantic, InActivation DEF SemBaseResolved
<1>2. Quiet
  <2> DEFINE c == BaseDecl(Top.d, Top.b)
  <2>1. (At("semantic", "based") \/ At("semantic", "ifaced"))
        /\ UNCHANGED <<prog, phase, errors>>
    BY DEF SemBaseResolved
  <2>2. c \in Decls
    BY <1>1, BaseDeclType
  <2>3. deferred' = deferred \/ deferred' = AddDeferred(deferred, c)
    BY DEF SemBaseResolved, AddIfScoped
  <2> QED BY <2>1, <2>2, <2>3, QuietSame
<1>3. Others
  <2>1. \E v : ag' = [ag EXCEPT ![Top.d].scope = FALSE, ![Top.d].baseok = v]
    BY DEF SemBaseResolved
  <2> QED BY <1>1, <2>1, AgBase
<1>4. InnerMove
  BY <1>1, GotoMoves DEF SemBaseResolved, Labels
<1> QED BY <1>1, <1>2, <1>3, <1>4, InnerCare

(* The stack, the scopes and the queue stay; the run is over.              *)
LEMMA CareStops ==
  ASSUME TypeInv, CareInv, UNCHANGED <<prog, ag, deferred, stack>>,
         phase' # "done", errors' = 0 => errors = 0
  PROVE  CareInv'
  BY AsideCare

LEMMA ErrorsType == ASSUME TypeInv PROVE errors \in Nat
  BY DEF TypeInv, RestOK

(* The declaration at the top waits in the queue.                          *)
LEMMA CarePostpone ==
  ASSUME TypeInv, CareInv, NEW pc, At("semantic", pc), NEW q \in Seq(Decls),
         Elems(deferred) \subseteq Elems(q), Postpone(Top.d, q)
  PROVE  CareInv'
<1>1. stack # <<>> /\ Top.d \in Decls /\ Top.fn = "semantic"
  BY AtSemantic
<1>2. Elems(deferred') = Elems(q) \cup {Top.d}
  BY <1>1, AddedElems DEF Postpone
<1>3. Quiet
  BY <1>2 DEF Postpone, Quiet, At
<1>4. ag' = [ag EXCEPT ![Top.d].scope = TRUE] /\ Return
  BY DEF Postpone
<1>5. Others /\ ag'[Top.d].scope
  BY <1>1, <1>4, AgScope
<1> QED BY <1>1, <1>2, <1>3, <1>4, <1>5, LeaveCare

LEMMA CareBasesDone == ASSUME TypeInv, CareInv, SemBasesDone PROVE CareInv'
<1>1. /\ stack # <<>> /\ Top.d \in Decls /\ Top.fn = "semantic" /\ Top.pc = "ifaces"
      /\ At("semantic", "ifaces")
  BY AtSemantic DEF SemBasesDone
<1>2. CASE Crash
  BY <1>2, CareStops DEF Crash
<1>3. CASE phase' = "fatal" /\ errors' = errors + 1 /\ UNCHANGED <<prog, ag, deferred, stack>>
  BY <1>3, CareStops, ErrorsType
<1>4. CASE /\ ag' = [ag EXCEPT
                 ![Top.d].baseok = "done",
                 ![Top.d].baseClass = IF NeedsObject(Top.d) THEN Object ELSE @,
                 ![Top.d].baseclasses = IF NeedsObject(Top.d) THEN <<0>> \o @ ELSE @]
           /\ Goto("symtab", 1)
           /\ UNCHANGED <<prog, deferred, errors, phase>>
  <2>1. Quiet
    BY <1>1, <1>4, QuietSame
  <2>2. Others
    BY <1>1, <1>4 DEF Others, TypeInv, AgOK, AggregateType
  <2>3. InnerMove
    BY <1>1, <1>4, GotoMoves DEF Labels
  <2> QED BY <1>1, <2>1, <2>2, <2>3, InnerCare
<1>5. CASE Postpone(Top.d, deferred)
  BY <1>1, <1>5, CarePostpone DEF TypeInv, RestOK
<1> QED BY <1>2, <1>3, <1>4, <1>5 DEF SemBasesDone

LEMMA CareTypesResolved == ASSUME TypeInv, CareInv, SemTypesResolved PROVE CareInv'
<1>1. /\ stack # <<>> /\ Top.d \in Decls /\ Top.fn = "semantic" /\ Top.pc = "types"
      /\ At("semantic", "types")
  BY AtSemantic DEF SemTypesResolved
<1>2. Quiet
  <2>1. UNCHANGED <<prog, phase, deferred, errors>>
    BY DEF SemTypesResolved
  <2> QED BY <1>1, <2>1, QuietSame
<1>3. Others
  BY AgNone DEF SemTypesResolved
<1>4. CASE IsDone(Top.d) /\ Return
  <2>1. ag'[Top.d].semanticRun = "done"
    BY <1>4 DEF SemTypesResolved, IsDone
  <2> QED BY <1>1, <1>2, <1>3, <1>4, <2>1, LeaveCare
<1>5. CASE Goto("base", 1) \/ Goto("ifaces", 1) \/ Goto("symtab", 1)
  <2>1. InnerMove
    BY <1>1, <1>5, GotoMoves DEF Labels
  <2> QED BY <1>1, <1>2, <1>3, <2>1, InnerCare
<1> QED BY <1>4, <1>5 DEF SemTypesResolved

LEMMA CareSymtab == ASSUME TypeInv, CareInv, SemSymtab PROVE CareInv'
<1>1. /\ stack # <<>> /\ Top.d \in Decls /\ Top.fn = "semantic" /\ Top.pc = "symtab"
      /\ At("semantic", "symtab")
  BY AtSemantic DEF SemSymtab
<1>2. Quiet
  <2>1. UNCHANGED <<prog, phase, deferred, errors>>
    BY DEF SemSymtab
  <2> QED BY <1>1, <2>1, QuietSame
<1>3. CASE Top.d \in prog.opaque
  <2>1. ag' = [ag EXCEPT ![Top.d].semanticRun = "done"] /\ Return
    BY <1>3 DEF SemSymtab
  <2>2. Others /\ ag'[Top.d].semanticRun = "done"
    BY <1>1, <2>1 DEF Others, TypeInv, AgOK, AggregateType
  <2> QED BY <1>1, <1>2, <2>1, <2>2, LeaveCare
<1>4. CASE Top.d \notin prog.opaque
  <2>1. InnerMove
    BY <1>1, <1>4, GotoMoves DEF SemSymtab, Labels
  <2>2. Others
    BY <1>1, <1>4 DEF SemSymtab, Others, TypeInv, AgOK, AggregateType
  <2> QED BY <1>1, <1>2, <2>1, <2>2, InnerCare
<1> QED BY <1>3, <1>4

LEMMA CareAncestorsForward == ASSUME TypeInv, CareInv, SemAncestorsForward PROVE CareInv'
<1>1. Top.d \in Decls /\ At("semantic", "ancestors")
  BY AtSemantic DEF SemAncestorsForward
<1>2. PICK j \in UnfinishedBases(Top.d) :
        Postpone(Top.d, AddIfScoped(deferred, BaseDecl(Top.d, BaseList(Top.d)[j])))
  BY DEF SemAncestorsForward
<1>3. BaseDecl(Top.d, BaseList(Top.d)[j]) \in Decls /\ deferred \in Seq(Decls)
  BY <1>1, BaseListElement DEF UnfinishedBases, TypeInv, RestOK
<1>4. AddIfScoped(deferred, BaseDecl(Top.d, BaseList(Top.d)[j])) \in Seq(Decls)
  BY <1>3, AddDeferredType
<1>5. Elems(deferred) \subseteq Elems(AddIfScoped(deferred, BaseDecl(Top.d, BaseList(Top.d)[j])))
  BY <1>3, AddedElems
<1> QED BY <1>1, <1>2, <1>4, <1>5, CarePostpone

LEMMA CareOwnField == ASSUME TypeInv, CareInv, SemOwnField PROVE CareInv'
<1>1. /\ stack # <<>> /\ Top.d \in Decls /\ Top.fn = "semantic"
      /\ At("semantic", "members")
  BY AtSemantic DEF SemOwnField
<1>2. Quiet
  <2>1. UNCHANGED <<prog, phase, deferred>> /\ errors' = errors + 1
    BY DEF SemOwnField
  <2> QED BY <1>1, <2>1, QuietSame, ErrorsType
<1>3. Return /\ Others /\ ag'[Top.d].semanticRun = "done"
  BY <1>1 DEF SemOwnField, Others, TypeInv, AgOK, AggregateType
<1> QED BY <1>1, <1>2, <1>3, LeaveCare

LEMMA CareFieldsForward == ASSUME TypeInv, CareInv, SemFieldsForward PROVE CareInv'
<1>1. /\ stack # <<>> /\ Top.d \in Decls /\ Top.fn = "semantic"
      /\ At("semantic", "members")
  BY AtSemantic DEF SemFieldsForward
<1>2. /\ UNCHANGED <<prog, phase, errors>> /\ deferred' = AddDeferred(deferred, Top.d)
      /\ Return /\ ag' = [ag EXCEPT ![Top.d].scope = TRUE, ![Top.d].membersRun = TRUE]
  BY DEF SemFieldsForward
<1>3. Quiet /\ Top.d \in Elems(deferred')
  BY <1>1, <1>2, QuietSame, AddedElems DEF TypeInv, RestOK
<1>4. Others /\ ag'[Top.d].scope
  <2>1. PICK r : r = [ag[Top.d] EXCEPT !.scope = TRUE]
    OBVIOUS
  <2>2. ag[Top.d] \in AggregateType
    BY <1>1 DEF TypeInv, AgOK
  <2>3. r \in AggregateType /\ r.semanticRun = ag[Top.d].semanticRun /\ r.scope
    BY <2>1, <2>2 DEF AggregateType
  <2>4. PICK q : q = [r EXCEPT !.membersRun = TRUE]
    OBVIOUS
  <2>5. q.semanticRun = ag[Top.d].semanticRun /\ q.scope
    BY <2>3, <2>4 DEF AggregateType
  <2>6. ag' = [ag EXCEPT ![Top.d] = q]
    BY <1>1, <1>2, <2>1, <2>4 DEF TypeInv, AgOK
  <2>7. ag'[Top.d] = q
    BY <1>1, <2>6 DEF TypeInv, AgOK
  <2> QED BY <1>1, <2>5, <2>6, <2>7, AgOne
<1> QED BY <1>1, <1>2, <1>3, <1>4, LeaveCare

LEMMA SpecialErrors == ASSUME TypeInv, NEW d PROVE errors + SpecialMemberErrors(d) \in Nat
                            /\ errors <= errors + SpecialMemberErrors(d)
                            /\ errors <= errors + NameErrors(d) /\ errors + NameErrors(d) \in Nat
<1>1. NameErrors(d) \in {0, 1} /\ errors \in Nat
  BY NameErrorsType, ErrorsType
<1> QED BY <1>1 DEF SpecialMemberErrors

LEMMA CareFinish == ASSUME TypeInv, CareInv, SemFinish PROVE CareInv'
<1>1. /\ stack # <<>> /\ Top.d \in Decls /\ Top.fn = "semantic"
      /\ At("semantic", "members")
  BY AtSemantic DEF SemFinish
<1>2. Quiet
  <2>1. UNCHANGED <<prog, phase, deferred>> /\ errors' = errors + SpecialMemberErrors(Top.d)
    BY DEF SemFinish
  <2> QED BY <1>1, <2>1, QuietSame, SpecialErrors
<1>3. Return /\ Others /\ ag'[Top.d].semanticRun = "done"
  <2>1. \E v : ag' = [ag EXCEPT ![Top.d].semanticRun = "done", ![Top.d].membersRun = TRUE,
                                 ![Top.d].bad = v]
    BY Zenon DEF SemFinish
  <2>2. Return
    BY DEF SemFinish
  <2> QED BY <1>1, <2>1, <2>2, AgDone
<1> QED BY <1>1, <1>2, <1>3, LeaveCare

LEMMA CareLookupMember == ASSUME TypeInv, CareInv, SemLookupMember PROVE CareInv'
<1>1. /\ stack # <<>> /\ Top.d \in Decls /\ Top.fn = "semantic" /\ Top.pc = "members"
      /\ Top \in ActivationType /\ At("semantic", "members")
  BY AtSemantic DEF SemLookupMember
<1>2. Quiet
  <2>1. UNCHANGED <<prog, phase, deferred>> /\ errors' = errors + NameErrors(Top.d)
    BY DEF SemLookupMember, LookupMember
  <2> QED BY <1>1, <2>1, QuietSame, SpecialErrors
<1>3. Others
  BY AgNone DEF SemLookupMember, LookupMember
<1>4. InnerMove
  <2> DEFINE f == [Top EXCEPT !.pc = "looked"]
  <2>1. f \in ActivationType /\ f.fn = "semantic" /\ f.d = Top.d /\ f.pc = "looked"
    BY <1>1 DEF ActivationType, Labels
  <2>2. GoesOn(f)
    BY DEF SemLookupMember, LookupMember, GoesOn
  <2> QED BY <2>1, <2>2 DEF InnerMove
<1> QED BY <1>1, <1>2, <1>3, <1>4, InnerCare

LEMMA CareInstMember == ASSUME TypeInv, CareInv, SemInstMember PROVE CareInv'
<1>1. /\ stack # <<>> /\ Top.d \in Decls /\ Top.fn = "semantic" /\ Top.pc = "members"
      /\ Top.i + 1 \in Nat \ {0} /\ Top \in ActivationType /\ At("semantic", "members")
  BY AtSemantic DEF SemInstMember
<1>2. Quiet
  <2>1. UNCHANGED <<prog, phase, deferred>> /\ errors' = errors + NameErrors(Top.d)
    BY DEF SemInstMember, RunDeferred
  <2> QED BY <1>1, <2>1, QuietSame, SpecialErrors
<1>3. Others
  BY AgNone DEF SemInstMember, RunDeferred
<1>4. InnerMove
  <2> DEFINE f == [Top EXCEPT !.i = Top.i + 1]
  <2>1. f \in ActivationType /\ f.fn = "semantic" /\ f.d = Top.d /\ f.pc = "members"
    BY <1>1 DEF ActivationType
  <2>2. GoesOn(f)
    BY DEF SemInstMember, RunDeferred, GoesOn
  <2> QED BY <2>1, <2>2 DEF InnerMove
<1> QED BY <1>1, <1>2, <1>3, <1>4, InnerCare

(* A second activation: either nothing is left to do or another one is at  *)
(* work on the declaration.                                                *)
LEMMA CareReturnAtOnce == ASSUME TypeInv, CareInv, SemReturnAtOnce PROVE CareInv'
<1>1. /\ stack # <<>> /\ Top.d \in Decls /\ Top.fn = "semantic" /\ Top.pc = "enter"
      /\ At("semantic", "enter")
  BY AtSemantic DEF SemReturnAtOnce
<1>2. UNCHANGED <<prog, phase, deferred, errors>> /\ Return
  BY DEF SemReturnAtOnce
<1>3. Quiet
  BY <1>1, <1>2, QuietSame
<1>4. CASE IsDone(Top.d) \/ IsIface(Top.d)
  <2>1. ag' = ag \/ ag' = [ag EXCEPT ![Top.d].semanticRun = "done"]
    BY DEF SemReturnAtOnce
  <2>2. Others
    BY <1>1, <2>1 DEF Others, TypeInv, AgOK, AggregateType
  <2>3. ag'[Top.d].semanticRun = "done"
    BY <1>1, <1>4 DEF SemReturnAtOnce, TypeInv, AgOK, AggregateType, IsDone
  <2> QED BY <1>1, <1>2, <1>3, <2>2, <2>3, LeaveCare
<1>5. CASE ~IsDone(Top.d) /\ ~IsIface(Top.d)
  <2>1. ag' = ag
    BY <1>5 DEF SemReturnAtOnce
  <2>2. \A d : Top \notin Workers(d)
    BY <1>1 DEF Workers
  <2>3. \A d : d # Top.d => Top \notin Carers(d)
    BY <1>1 DEF Carers, InRound, ToCome
  <2>4. \A S : Top \notin S /\ OnStack(S, stack) => OnStack(S, stack')
    BY <1>1, <1>2, Leaves
  <2>5. OnStack(Workers(Top.d), stack)
    BY <1>1, <1>5 DEF SemReturnAtOnce, EarlyReturn, CareInv, InHand
  <2>6. OnStack(Carers(Top.d), stack')
    <3>1. OnStack(Workers(Top.d), stack')
      BY <2>2, <2>4, <2>5
    <3> QED BY <3>1 DEF Workers, Carers, OnStack
  <2>7. \A d \in Decls : OnStack(Workers(d), stack) => OnStack(Workers(d), stack')
    BY <2>2, <2>4
  <2>8. \A d \in Decls : OnStack(Carers(d), stack) => OnStack(Carers(d), stack')
    BY <2>3, <2>4, <2>6
  <2>9. phase' # "done"
    BY <1>3 DEF Quiet
  <2> QED BY <1>2, <2>1, <2>7, <2>8, <2>9, AsideCare
<1> QED BY <1>4, <1>5

LEMMA CareEnter == ASSUME TypeInv, CareInv, SemEnter PROVE CareInv'
<1>1. /\ stack # <<>> /\ Top.d \in Decls /\ Top.fn = "semantic" /\ Top.pc = "enter"
      /\ Top \in ActivationType /\ At("semantic", "enter")
  BY AtSemantic DEF SemEnter
<1>2. CASE Crash
  BY <1>2, CareStops DEF Crash
<1>3. CASE ~Crash
  <2> DEFINE pc == IF ~IsStruct(Top.d) /\ BasesOpen(Top.d) THEN "types" ELSE "symtab"
             f == [Top EXCEPT !.sc = TRUE, !.scx = ag[Top.d].scope, !.pc = pc]
  <2>1. UNCHANGED <<prog, phase, deferred, errors>> /\ Become(f)
    BY <1>3 DEF SemEnter
  <2>2. Quiet
    BY <1>1, <2>1, QuietSame
  <2>3. /\ \A x \in Decls \ {Top.d} : ag'[x] = ag[x]
        /\ ~IsDone(Top.d)
    BY <1>3 DEF SemEnter, EarlyReturn, TypeInv, AgOK
  <2>4. f \in ActivationType /\ f.fn = "semantic" /\ f.d = Top.d /\ f.pc # "enter"
    <3>1. ag[Top.d].scope \in BOOLEAN
      BY <1>1, FieldTypes
    <3> QED BY <1>1, <3>1 DEF ActivationType, Labels
  <2>5. InnerMove
    BY <2>1, <2>4 DEF InnerMove, GoesOn
  <2>6. Others
    BY <2>3 DEF Others, IsDone
  <2> QED BY <1>1, <2>2, <2>5, <2>6, InnerCare
<1> QED BY <1>2, <1>3

(* A search asks for declarations, it is not responsible for any.          *)
LEMMA CareSearch == ASSUME TypeInv, CareInv, SearchStep PROVE CareInv'
<1>1. stack # <<>> /\ Top.fn = "search" /\ phase \in {"semantic", "deferred"} /\ Top.d \in Decls
      /\ Top \in ActivationType /\ Top.i + 1 \in Nat \ {0}
  <2>1. PICK pc : At("search", pc)
    BY DEF SearchStep, SearchEnter, SearchAnalysed, SearchForward, SearchOwn, SearchBase,
       SearchedBase
  <2>2. Top \in GoodFrame
    BY <2>1, TopIsGood DEF At, TypeInv
  <2> QED BY <2>1, <2>2 DEF At, GoodFrame, ActivationType
<1>2. UNCHANGED <<prog, phase, deferred>>
  BY DEF SearchStep, SearchEnter, SearchAnalysed, SearchForward, SearchOwn, SearchBase,
     SearchedBase
<1>3. errors' = 0 => errors = 0
  <2>1. errors' = errors \/ errors' = errors + 1
    BY DEF SearchStep, SearchEnter, SearchAnalysed, SearchForward, SearchOwn, SearchBase,
       SearchedBase
  <2> QED BY <2>1, ErrorsType
<1>4. \A x \in Decls : ag'[x].semanticRun = ag[x].semanticRun /\ ag'[x].scope = ag[x].scope
  <2>1. ag' = ag \/ \E v : ag' = [ag EXCEPT ![Top.d].inuse = v]
    BY DEF SearchStep, SearchEnter, SearchAnalysed, SearchForward, SearchOwn, SearchBase,
       SearchedBase
  <2>2. ASSUME NEW v, ag' = [ag EXCEPT ![Top.d].inuse = v]
        PROVE  \A x \in Decls : /\ ag'[x].semanticRun = ag[x].semanticRun
                               /\ ag'[x].scope = ag[x].scope
    BY <1>1, <2>2 DEF TypeInv, AgOK, AggregateType
  <2> QED BY <2>1, <2>2
<1>5. Return \/ \E f \in ActivationType : GoesOn(f)
  <2>1. \A pc \in Labels, i \in Nat \ {0} : [Top EXCEPT !.pc = pc, !.i = i] \in ActivationType
    BY <1>1 DEF ActivationType
  <2>2. \A pc \in Labels : [Top EXCEPT !.pc = pc] \in ActivationType
    BY <1>1 DEF ActivationType
  <2>3. ASSUME NEW pc \in Labels, NEW i \in Nat \ {0}, Goto(pc, i)
        PROVE  \E f \in ActivationType : GoesOn(f)
    BY <2>1, <2>3 DEF Goto, GoesOn
  <2>4. ASSUME NEW pc \in Labels, NEW g, Call([Top EXCEPT !.pc = pc], g)
        PROVE  \E f \in ActivationType : GoesOn(f)
    BY <2>2, <2>4 DEF GoesOn
  <2>5. CASE SearchEnter
    BY <2>3, <2>4, <2>5 DEF SearchEnter, Labels
  <2>6. CASE SearchAnalysed
    BY <2>3, <2>6 DEF SearchAnalysed, Labels
  <2>7. CASE SearchForward
    BY <2>7 DEF SearchForward
  <2>8. CASE SearchOwn
    BY <2>3, <2>8 DEF SearchOwn, Labels
  <2>9. CASE SearchBase
    <3>1. Return \/ Goto("bases", Top.i + 1) \/ \E g : Call([Top EXCEPT !.pc = "searched"], g)
      BY <2>9 DEF SearchBase
    <3> QED BY <1>1, <2>3, <2>4, <3>1 DEF Labels
  <2>10. CASE SearchedBase
    <3>1. Return \/ Goto("bases", Top.i + 1)
      BY <2>10 DEF SearchedBase
    <3> QED BY <1>1, <2>3, <3>1 DEF Labels
  <2> QED BY <2>5, <2>6, <2>7, <2>8, <2>9, <2>10 DEF SearchStep
<1> QED BY <1>1, <1>2, <1>3, <1>4, <1>5, SearchCare

(* What is known at a step of a round or of the module.                    *)
LEMMA AtDriver ==
  ASSUME TypeInv, NEW fn \in {"run", "module"}, NEW pc, At(fn, pc)
  PROVE  /\ stack # <<>> /\ Top.fn = fn /\ Top.pc = pc /\ Top \in ActivationType
         /\ Top.i \in Nat \ {0} /\ Top.i + 1 \in Nat \ {0} /\ Top.todo \in Seq(Decls)
         /\ Len(Top.todo) \in Nat /\ phase # "done"
         /\ \A d : Top \notin Workers(d)
<1>1. stack # <<>> /\ Top \in GoodFrame /\ Top.fn = fn /\ Top.pc = pc /\ phase # "done"
  BY TopIsGood DEF TypeInv, At
<1>2. Top.todo \in Seq(Decls) /\ Top.i \in Nat \ {0} /\ Top \in ActivationType
  BY <1>1 DEF GoodFrame, ActivationType
<1> QED
  BY <1>1, <1>2, LenProperties DEF Workers

(* A step of the driver in which the top goes on as f.                     *)
LEMMA DriverCare ==
  ASSUME TypeInv, CareInv, stack # <<>>, \A d : Top \notin Workers(d), phase # "done",
         UNCHANGED <<prog, ag, deferred, phase>>, errors' = 0 => errors = 0,
         NEW f \in ActivationType, GoesOn(f),
         \A d \in Decls : Top \in Carers(d) => f \in Carers(d)
  PROVE  CareInv'
<1>1. \A d \in Decls : OnStack(Workers(d), stack) => OnStack(Workers(d), stack')
  BY Stays
<1>2. \A d \in Decls : OnStack(Carers(d), stack) => OnStack(Carers(d), stack')
  BY Stays
<1> QED BY <1>1, <1>2, AsideCare

LEMMA EndCare ==
  ASSUME TypeInv, CareInv, stack # <<>>, \A d : Top \notin Workers(d), phase # "done",
         UNCHANGED <<prog, ag, deferred, phase, errors>>, Return,
         \A d \in Decls : Top \notin Carers(d)
  PROVE  CareInv'
<1>1. \A d \in Decls : OnStack(Workers(d), stack) => OnStack(Workers(d), stack')
  BY Leaves
<1>2. \A d \in Decls : OnStack(Carers(d), stack) => OnStack(Carers(d), stack')
  BY Leaves
<1> QED BY <1>1, <1>2, AsideCare

(* A round takes over the queue.                                           *)
LEMMA CareRunRound == ASSUME TypeInv, CareInv, RunRound PROVE CareInv'
<1>1. /\ stack # <<>> /\ Top.fn = "run" /\ Top.pc = "enter" /\ Top \in ActivationType
      /\ phase # "done" /\ \A d : Top \notin Workers(d)
  BY AtDriver DEF RunRound
<1>2. \A d : Top \notin Carers(d)
  BY <1>1 DEF Carers, InRound, ToCome
<1>3. UNCHANGED <<prog, ag, phase, errors>>
  BY DEF RunRound
<1>4. CASE deferred = <<>>
  BY <1>1, <1>2, <1>3, <1>4, EndCare DEF RunRound
<1>5. CASE deferred # <<>>
  <2> DEFINE f == [Top EXCEPT !.pc = "each", !.i = 1, !.todo = deferred]
  <2>1. Become(f) /\ deferred \in Seq(Decls) /\ Len(deferred) \in Nat
    BY <1>5, LenProperties DEF RunRound, TypeInv, RestOK
  <2>2. f \in ActivationType /\ f.fn = "run" /\ f.pc = "each" /\ f.i = 1 /\ f.todo = deferred
    <3>1. "each" \in Labels
      BY DEF Labels
    <3>2. PICK n \in Nat \ {0} : n = 1
      OBVIOUS
    <3>3. PICK q \in Seq(Decls) : q = deferred
      BY <2>1
    <3>4. PICK h : h = [Top EXCEPT !.pc = "each", !.i = n, !.todo = q]
      OBVIOUS
    <3>5. h \in ActivationType /\ h.fn = Top.fn /\ h.pc = "each" /\ h.i = n /\ h.todo = q
      BY <1>1, <3>1, <3>4 DEF ActivationType
    <3> QED BY <1>1, <3>2, <3>3, <3>4, <3>5
  <2> HIDE DEF f
  <2>3. \A d \in Elems(deferred) : f \in Carers(d)
    BY <2>1, <2>2 DEF Carers, InRound, Elems
  <2>4. \A d \in Decls : OnStack(Workers(d), stack) => OnStack(Workers(d), stack')
    BY <1>1, <2>1, <2>2, Stays DEF GoesOn
  <2>5. \A d \in Decls : OnStack(Carers(d), stack) => OnStack(Carers(d), stack')
    BY <1>1, <1>2, <2>1, <2>2, Stays DEF GoesOn
  <2>6. \A d \in Elems(deferred) : OnStack(Carers(d), stack')
    BY <1>1, <2>1, <2>2, <2>3, Comes DEF GoesOn
  <2> QED BY <1>1, <1>3, <2>4, <2>5, <2>6, AsideCare
<1> QED BY <1>4, <1>5

LEMMA CareRunEach == ASSUME TypeInv, CareInv, RunEach PROVE CareInv'
<1>1. /\ stack # <<>> /\ Top.fn = "run" /\ Top.pc = "each" /\ Top \in ActivationType
      /\ phase # "done" /\ (\A d : Top \notin Workers(d))
      /\ Top.i \in Nat \ {0} /\ Top.i + 1 \in Nat \ {0} /\ Len(Top.todo) \in Nat
      /\ Top.todo \in Seq(Decls) /\ Top.i \in 1..Len(Top.todo)
  BY AtDriver DEF RunEach
<1> DEFINE f == [Top EXCEPT !.i = Top.i + 1]
           g == Activation("semantic", Top.todo[Top.i], FALSE)
<1>2. UNCHANGED <<prog, ag, deferred, phase, errors>> /\ Call(f, g)
  BY DEF RunEach
<1>3. f \in ActivationType /\ f.fn = "run" /\ f.pc = "each" /\ f.i = Top.i + 1 /\ f.todo = Top.todo
  BY <1>1 DEF ActivationType
<1>4. Top.todo[Top.i] \in Decls
  BY <1>1, ElementOfSeq
<1>5. g \in ActivationType /\ g.fn = "semantic" /\ g.d = Top.todo[Top.i]
  BY <1>4, ErrorsType DEF Activation, ActivationType, Labels, MaybeDecl
<1> HIDE DEF f, g
<1>6. \A d \in Decls : Top \in Carers(d) => f \in Carers(d) \/ g \in Carers(d)
  BY <1>1, <1>3, <1>5 DEF Carers, InRound, ToCome
<1>7. \A d \in Decls : OnStack(Workers(d), stack) => OnStack(Workers(d), stack')
  BY <1>1, <1>2, <1>3, Hands
<1>8. \A d \in Decls : OnStack(Carers(d), stack) => OnStack(Carers(d), stack')
  BY <1>1, <1>2, <1>3, <1>6, Hands
<1> QED BY <1>1, <1>2, <1>7, <1>8, AsideCare

LEMMA CareRunRoundDone == ASSUME TypeInv, CareInv, RunRoundDone PROVE CareInv'
<1>1. /\ stack # <<>> /\ Top.fn = "run" /\ Top.pc = "each" /\ Top \in ActivationType
      /\ phase # "done" /\ (\A d : Top \notin Workers(d))
      /\ Top.i \in Nat \ {0} /\ Len(Top.todo) \in Nat /\ Top.i > Len(Top.todo)
  BY AtDriver DEF RunRoundDone
<1>2. \A d : Top \notin Carers(d)
  BY <1>1 DEF Carers, InRound, ToCome
<1>3. UNCHANGED <<prog, ag, deferred, phase, errors>>
  BY DEF RunRoundDone
<1>4. CASE Goto("enter", 1)
  <2> DEFINE f == [Top EXCEPT !.pc = "enter", !.i = 1]
  <2>1. f \in ActivationType
    <3>1. "enter" \in Labels
      BY DEF Labels
    <3>2. PICK n \in Nat \ {0} : n = 1
      OBVIOUS
    <3>3. [Top EXCEPT !.pc = "enter", !.i = n] \in ActivationType
      BY <1>1, <3>1 DEF ActivationType
    <3> QED BY <3>2, <3>3
  <2>2. GoesOn(f)
    BY <1>4 DEF Goto, GoesOn
  <2> HIDE DEF f
  <2> QED BY <1>1, <1>2, <1>3, <2>1, <2>2, DriverCare
<1>5. CASE Return
  BY <1>1, <1>2, <1>3, <1>5, EndCare
<1> QED BY <1>4, <1>5 DEF RunRoundDone

LEMMA CareModuleMember == ASSUME TypeInv, CareInv, ModuleMember PROVE CareInv'
<1>1. /\ stack # <<>> /\ Top.fn = "module" /\ Top.pc = "enter" /\ Top \in ActivationType
      /\ phase # "done" /\ (\A d : Top \notin Workers(d))
      /\ Top.i \in Nat \ {0} /\ Top.i + 1 \in Nat \ {0} /\ Len(prog.module) \in Nat
      /\ Top.i \in 1..Len(prog.module)
  <2>1. Len(prog.module) \in Nat
    BY LenProperties DEF TypeInv, IsProgram
  <2> QED BY <2>1, AtDriver DEF ModuleMember
<1>2. UNCHANGED <<prog, ag, deferred, phase, errors>>
  BY DEF ModuleMember, LookupMember
<1>3. CASE /\ ModuleItem.what = "decl"
           /\ Call([Top EXCEPT !.pc = "drain"], Activation("semantic", ModuleItem.d, TRUE))
  <2> DEFINE f == [Top EXCEPT !.pc = "drain"]
             g == Activation("semantic", ModuleItem.d, TRUE)
  <2>1. f \in ActivationType /\ f.fn = "module" /\ f.pc = "drain" /\ f.i = Top.i
    BY <1>1 DEF ActivationType, Labels
  <2>2. ModuleItem.d \in Decls
    BY <1>1, <1>3, ModuleNames DEF ModuleItem, NamesDecl
  <2>3. g \in ActivationType /\ g.fn = "semantic" /\ g.d = ModuleItem.d
    BY <2>2, ErrorsType DEF Activation, ActivationType, Labels, MaybeDecl
  <2>4. Call(f, g)
    BY <1>3
  <2> HIDE DEF f, g
  <2>5. \A d \in Decls : Top \in Carers(d) => f \in Carers(d) \/ g \in Carers(d)
    <3>1. ASSUME NEW d \in Decls, Top \in Carers(d), d # ModuleItem.d
          PROVE  f \in Carers(d)
      <4>1. PICK j \in 1..Len(prog.module) :
              Top.i <= j /\ prog.module[j].what = "decl" /\ prog.module[j].d = d
        BY <1>1, <3>1 DEF Carers, InRound, ToCome, FirstToCome
      <4>2. Top.i + 1 <= j
        BY <1>1, <3>1, <4>1 DEF ModuleItem
      <4> QED BY <2>1, <4>1, <4>2 DEF Carers, ToCome, FirstToCome
    <3>2. ASSUME NEW d \in Decls, d = ModuleItem.d PROVE g \in Carers(d)
      BY <2>3, <3>2 DEF Carers
    <3> QED BY <3>1, <3>2
  <2>7. \A d \in Decls : OnStack(Workers(d), stack) => OnStack(Workers(d), stack')
    BY <1>1, <2>1, <2>4, Hands
  <2>8. \A d \in Decls : OnStack(Carers(d), stack) => OnStack(Carers(d), stack')
    BY <1>1, <2>1, <2>4, <2>5, Hands
  <2> QED BY <1>1, <1>2, <2>7, <2>8, AsideCare
<1>4. CASE LookupMember("module", "enter", ModuleItem)
  <2> DEFINE f == [Top EXCEPT !.pc = "looked"]
  <2>1. f \in ActivationType /\ f.fn = "module" /\ f.pc = "looked" /\ f.i = Top.i
    BY <1>1 DEF ActivationType, Labels
  <2>2. GoesOn(f) /\ ModuleItem.what # "decl"
    BY <1>4 DEF LookupMember, GoesOn
  <2> HIDE DEF f
  <2>3. ASSUME NEW d \in Decls, Top \in Carers(d) PROVE f \in Carers(d)
    <3>1. PICK j \in 1..Len(prog.module) :
            Top.i <= j /\ prog.module[j].what = "decl" /\ prog.module[j].d = d
      BY <1>1, <2>3 DEF Carers, InRound, ToCome, FirstToCome
    <3>2. Top.i + 1 <= j
      BY <1>1, <2>2, <3>1 DEF ModuleItem
    <3> QED BY <2>1, <3>1, <3>2 DEF Carers, ToCome, FirstToCome
  <2> QED BY <1>1, <1>2, <2>1, <2>2, <2>3, DriverCare
<1> QED BY <1>3, <1>4 DEF ModuleMember

LEMMA CareModuleLookedUp == ASSUME TypeInv, CareInv, ModuleLookedUp PROVE CareInv'
<1>1. /\ stack # <<>> /\ Top.fn = "module" /\ Top.pc = "looked" /\ Top \in ActivationType
      /\ phase # "done" /\ (\A d : Top \notin Workers(d)) /\ Top.i \in Nat \ {0}
  BY AtDriver DEF ModuleLookedUp
<1>2. UNCHANGED <<prog, ag, deferred, phase>> /\ (errors' = 0 => errors = 0)
  BY ErrorsType DEF ModuleLookedUp
<1> DEFINE f == [Top EXCEPT !.pc = "drain", !.i = Top.i]
<1>3. f \in ActivationType /\ f.fn = "module" /\ f.pc = "drain" /\ f.i = Top.i
  BY <1>1 DEF ActivationType, Labels
<1>4. GoesOn(f)
  BY DEF ModuleLookedUp, Goto, GoesOn
<1> HIDE DEF f
<1>5. \A d \in Decls : Top \in Carers(d) => f \in Carers(d)
  BY <1>1, <1>3 DEF Carers, InRound, ToCome, FirstToCome
<1> QED BY <1>1, <1>2, <1>3, <1>4, <1>5, DriverCare

LEMMA CareModuleDrain == ASSUME TypeInv, CareInv, ModuleDrain PROVE CareInv'
<1>1. /\ stack # <<>> /\ Top.fn = "module" /\ Top.pc = "drain" /\ Top \in ActivationType
      /\ phase # "done" /\ (\A d : Top \notin Workers(d)) /\ Top.i \in Nat \ {0}
      /\ Top.i + 1 \in Nat \ {0}
  BY AtDriver DEF ModuleDrain
<1>2. UNCHANGED <<prog, ag, deferred, phase, errors>>
  BY DEF ModuleDrain, RunDeferred
<1> DEFINE f == [Top EXCEPT !.pc = "enter", !.i = Top.i + 1]
<1>3. f \in ActivationType /\ f.fn = "module" /\ f.pc = "enter" /\ f.i = Top.i + 1
  BY <1>1 DEF ActivationType, Labels
<1>4. GoesOn(f)
  BY DEF ModuleDrain, RunDeferred, GoesOn
<1> HIDE DEF f
<1>5. \A d \in Decls : Top \in Carers(d) => f \in Carers(d)
  BY <1>1, <1>3 DEF Carers, InRound, ToCome, FirstToCome
<1> QED BY <1>1, <1>2, <1>3, <1>4, <1>5, DriverCare

LEMMA CareModuleEnd == ASSUME TypeInv, CareInv, ModuleEnd PROVE CareInv'
<1>1. /\ stack # <<>> /\ Top.fn = "module" /\ Top.pc = "enter"
      /\ phase # "done" /\ (\A d : Top \notin Workers(d)) /\ Top.i \in Nat \ {0}
      /\ Len(prog.module) \in Nat /\ Top.i > Len(prog.module)
  <2>1. Len(prog.module) \in Nat
    BY LenProperties DEF TypeInv, IsProgram
  <2> QED BY <2>1, AtDriver DEF ModuleEnd
<1>2. UNCHANGED <<prog, ag, deferred, phase, errors>> /\ Return
  BY DEF ModuleEnd
<1>3. \A d \in Decls : Top \notin Carers(d)
  BY <1>1 DEF Carers, InRound, ToCome, FirstToCome
<1> QED BY <1>1, <1>2, <1>3, EndCare

(* Between the phases the stack is empty: only the queue can remember.     *)
LEMMA CareDriver == ASSUME TypeInv, CareInv, DriverDrain \/ DriverCheck PROVE CareInv'
<1>1. stack = <<>> /\ \A S : ~OnStack(S, stack)
  <2>1. stack = <<>> /\ Len(<<>>) = 0
    BY DEF DriverDrain, DriverCheck
  <2> QED BY <2>1 DEF OnStack
<1>2. CASE DriverDrain
  <2>1. UNCHANGED <<prog, ag, deferred, errors>> /\ phase' # "done"
    BY <1>2 DEF DriverDrain
  <2> QED BY <1>1, <2>1, AsideCare
<1>3. CASE DriverCheck
  <2>1. UNCHANGED <<prog, ag, deferred, stack>>
        /\ (phase' = "done" => deferred = <<>>) /\ errors' = errors + Len(deferred)
    BY <1>3 DEF DriverCheck
  <2>2. errors' = 0 => errors = 0
    <3>1. Len(deferred) \in Nat
      BY LenProperties DEF TypeInv, RestOK
    <3> QED BY <2>1, <3>1, ErrorsType
  <2>3. InHand' /\ Remembered'
    BY <2>1, <2>2, CarersSame DEF CareInv, InHand, Remembered, Workers, IsDone
  <2>4. AtEnd'
    BY <1>1, <2>1 DEF AtEnd
  <2> QED BY <2>3, <2>4 DEF CareInv
<1> QED BY <1>2, <1>3

LEMMA CareUnchanged == ASSUME TypeInv, CareInv, UNCHANGED vars PROVE CareInv'
<1>1. InHand' /\ Remembered'
  BY CarersSame DEF CareInv, InHand, Remembered, Workers, IsDone, vars
<1>2. AtEnd'
  BY DEF CareInv, AtEnd, vars
<1> QED BY <1>1, <1>2 DEF CareInv

LEMMA CareNext == ASSUME TypeInv, CareInv, [Next]_vars PROVE CareInv'
<1>1. CASE SemanticStep
  BY <1>1, CareReturnAtOnce, CareEnter, CareBaseType, CareBaseTyped,
     CareTypesResolved, CareNoBaseClass, CareCircularBase, CareBaseClass,
     CareBaseResolved, CareDropIface, CareIface, CareBasesDone, CareSymtab,
     CareAncestorsForward, CareVtbl, CareMethod, CareField, CareLookupMember,
     CareLookedUp, CareInstMember, CareOwnField, CareFieldsForward, CareFinish
  DEF SemanticStep
<1>2. CASE SearchStep
  BY <1>2, CareSearch
<1>3. CASE DriverStep
  BY <1>3, CareRunRound, CareRunEach, CareRunRoundDone, CareModuleMember,
     CareModuleLookedUp, CareModuleDrain, CareModuleEnd, CareDriver, CareUnchanged
  DEF DriverStep, Stopped
<1> QED
  BY <1>1, <1>2, <1>3, CareUnchanged DEF Next

(* At first every declaration is still to be reached by the module.        *)
LEMMA CareInit == ASSUME Init PROVE CareInv
<1>1. IsProgram(prog)
  BY ConstantsAssumption DEF Init
<1>2. InHand
  BY DEF Init, InHand, NewAggregate
<1>3. Remembered
  <2> SUFFICES ASSUME NEW d \in Decls PROVE OnStack(Carers(d), stack)
    BY DEF Remembered
  <2> DEFINE f == [fn |-> "module", pc |-> "enter", d |-> NoDecl, i |-> 1, b |-> 0,
                   sc |-> TRUE, scx |-> FALSE, errors |-> 0, owner |-> NoDecl, todo |-> <<>>]
  <2>1. stack = <<f>>
    BY DEF Init
  <2>2. f \in ActivationType
    BY DEF ActivationType, Labels, MaybeDecl
  <2>3. Len(prog.module) \in Nat
    BY <1>1, LenProperties DEF IsProgram
  <2>4. ToCome(f, d)
    BY <1>1, <2>3 DEF IsProgram, ToCome, FirstToCome
  <2>5. f \in Carers(d)
    BY <2>2, <2>4 DEF Carers
  <2> HIDE DEF f
  <2> QED BY <2>1, <2>5 DEF OnStack
<1>4. AtEnd
  BY DEF Init, AtEnd
<1> QED BY <1>2, <1>3, <1>4 DEF CareInv

(* No declaration is forgotten: when the driver goes on to semantic2       *)
(* without an error, semantic() of every declaration has run to its end,   *)
(* whichever of the loop over the module's members, the rounds of          *)
(* runDeferredSemantic(), a search or a base clause took it up, and        *)
(* however often it was put back (dsymbolsem.cpp, dmodule.cpp, mars.cpp).  *)
THEOREM NoneForgotten == Spec => []NothingForgotten
<1>1. Init => CareInv
  BY CareInit
<1>2. TypeInv /\ CareInv /\ [Next]_vars => CareInv'
  BY CareNext
<1>3. CareInv => NothingForgotten
  BY DEF CareInv, Remembered, AtEnd, NothingForgotten, Elems, OnStack
<1> QED
  BY <1>1, <1>2, <1>3, TypeInvariant, PTL DEF Spec

----------------------------------------------------------------------------
(***************************************************************************)
(* What the loops over the bases leave behind, in the middle of any nest   *)
(* of activations too.  The inheritance edges never form a cycle, so the   *)
(* walks over baseClass and over the base lists terminate; the bases of    *)
(* every declaration that was entered are being resolved or are resolved;  *)
(* and no activation meets a null Scope or a BaseClass without a symbol.   *)
(***************************************************************************)

(* What the loops over the bases leave in the list of a declaration: each  *)
(* BaseClass once, and the only one that may name a class is the first, of *)
(* a class, when it is that of the field baseClass.                        *)
BasesKept ==
  /\ ag[Object].baseClass = NoDecl
  /\ \A d \in Decls :
       /\ ag[d].baseClass # NoDecl => IsClass(d)
       /\ \A i, j \in 1..Len(BaseList(d)) : i # j => BaseList(d)[i] # BaseList(d)[j]
       /\ \A j \in 1..Len(BaseList(d)) :
            LET k == BaseList(d)[j] IN
            HasSym(d, k) /\ ~IsIface(BaseDecl(d, k)) =>
              j = 1 /\ BaseDecl(d, k) = ag[d].baseClass

EdgeInv == TypeInv /\ BasesKept /\ Acyclic

----------------------------------------------------------------------------
(* Graphs.                                                                 *)

(* ReachBy(E, c) is the least set that holds c and follows E.              *)
LEMMA ReachClosed ==
  ASSUME NEW E, NEW c \in Decls, \A x \in Decls : E[x] \subseteq Decls
  PROVE  /\ c \in ReachBy(E, c)
         /\ ReachBy(E, c) \subseteq Decls
         /\ \A x \in ReachBy(E, c) : E[x] \subseteq ReachBy(E, c)
  BY DEF ReachBy, ClosedUnder

LEMMA ReachLeast ==
  ASSUME NEW E, NEW c \in Decls, NEW S \in SUBSET Decls, c \in S,
         \A x \in S : E[x] \subseteq S
  PROVE  ReachBy(E, c) \subseteq S
  BY DEF ReachBy, ClosedUnder

----------------------------------------------------------------------------
(* The edges of a state.                                                   *)

LEMMA ListType ==
  ASSUME TypeInv, NEW d \in Decls
  PROVE  /\ BaseList(d) = ag[d].baseclasses /\ Len(BaseList(d)) \in Nat
         /\ ag[d].baseClass \in MaybeDecl
         /\ \A j \in 1..Len(BaseList(d)) :
              /\ BaseList(d)[j] \in 0..Len(prog.bases[d])
              /\ BaseDecl(d, BaseList(d)[j]) \in Decls
  BY FieldTypes, BaseListElement

LEMMA ObjectIsClass ==
  ASSUME TypeInv
  PROVE  Object \in Decls /\ NoDecl \notin Decls /\ IsClass(Object) /\ ~IsIface(Object)
<1>1. prog.kind[Object] = "class"
  BY DEF TypeInv, IsProgram
<1> QED
  BY <1>1, ConstantsAssumption DEF IsClass, IsIface

Ifaces == {x \in Decls : IsIface(x)}

(* An interface derives from interfaces only, and has no baseClass.        *)
LEMMA IfacesClosed ==
  ASSUME TypeInv, BasesKept
  PROVE  \A x \in Ifaces : SymBases(x) \subseteq Ifaces /\ Supers(x) = SymBases(x)
<1> SUFFICES ASSUME NEW x \in Decls, IsIface(x)
             PROVE  SymBases(x) \subseteq Ifaces /\ Supers(x) = SymBases(x)
  BY DEF Ifaces
<1>1. ag[x].baseClass = NoDecl
  BY DEF BasesKept, IsClass, IsIface
<1>2. \A j \in 1..Len(BaseList(x)) :
        HasSym(x, BaseList(x)[j]) => IsIface(BaseDecl(x, BaseList(x)[j]))
  BY <1>1, ListType, ConstantsAssumption DEF BasesKept
<1>3. SymBases(x) \subseteq Ifaces
  BY <1>2, SymBasesType DEF SymBases, Elems, Ifaces
<1> QED
  BY <1>1, <1>3 DEF Supers

(* A class derives from its baseClass and from interfaces.                 *)
LEMMA ClassEdges ==
  ASSUME TypeInv, BasesKept, NEW x \in Decls
  PROVE  Supers(x) \subseteq Ifaces \cup ({ag[x].baseClass} \ {NoDecl})
<1>1. \A j \in 1..Len(BaseList(x)) :
        HasSym(x, BaseList(x)[j]) =>
          \/ IsIface(BaseDecl(x, BaseList(x)[j]))
          \/ BaseDecl(x, BaseList(x)[j]) = ag[x].baseClass
  BY DEF BasesKept
<1>2. \A j \in 1..Len(BaseList(x)) : BaseDecl(x, BaseList(x)[j]) \in Decls
  BY ListType
<1> QED
  BY <1>1, <1>2, ConstantsAssumption DEF Supers, SymBases, Elems, Ifaces

(* Object derives from nothing.                                            *)
LEMMA ObjectIsRoot ==
  ASSUME TypeInv, BasesKept
  PROVE  Supers(Object) = {} /\ BaseList(Object) = <<>>
<1>1. Object \in Decls /\ ag[Object].baseClass = NoDecl /\ Len(prog.bases[Object]) = 0
  BY ObjectIsClass, EmptySeq DEF BasesKept, TypeInv, IsProgram
<1>2. \A j \in 1..Len(BaseList(Object)) : BaseList(Object)[j] = 0
  BY <1>1, ListType
<1>3. \A j \in 1..Len(BaseList(Object)) : FALSE
  BY <1>1, <1>2, ObjectIsClass DEF BasesKept, HasSym, BaseDecl
<1>4. Len(BaseList(Object)) = 0
  BY <1>1, <1>3, ListType
<1>5. BaseList(Object) = <<>>
  BY <1>1, <1>4, FieldTypes, EmptySeq
<1>6. Supers(Object) = {}
  BY <1>1, <1>3 DEF Supers, SymBases, Elems
<1> QED
  BY <1>5, <1>6

----------------------------------------------------------------------------
(* The steps that leave the edges alone.                                   *)

Kept ==
  /\ UNCHANGED <<prog, bsym>>
  /\ \A x \in Decls : /\ ag'[x].baseClass = ag[x].baseClass
                      /\ ag'[x].baseclasses = ag[x].baseclasses

LEMMA KeptEdges == ASSUME EdgeInv, Kept PROVE BasesKept' /\ Acyclic'
<1>1. \A x \in Decls : ag'[x].baseClass = ag[x].baseClass /\ BaseList(x)' = BaseList(x)
  BY DEF Kept, BaseList
<1>2. \A x, k : HasSym(x, k)' = HasSym(x, k) /\ BaseDecl(x, k)' = BaseDecl(x, k)
  BY DEF Kept, HasSym, BaseDecl
<1>3. \A x : IsClass(x)' = IsClass(x) /\ IsIface(x)' = IsIface(x)
  BY DEF Kept, IsClass, IsIface
<1>4. BasesKept'
  BY <1>1, <1>2, <1>3, ObjectIsClass DEF EdgeInv, BasesKept
<1>5. \A x \in Decls : Supers(x)' = Supers(x)
  BY <1>1, <1>2 DEF Supers, SymBases
<1>6. Acyclic'
  <2> SUFFICES ASSUME NEW S \in SUBSET Decls, S # {}
               PROVE  \E x \in S : Supers(x)' \cap S = {}
    BY DEF Acyclic
  <2>1. PICK x \in S : Supers(x) \cap S = {}
    BY DEF EdgeInv, Acyclic
  <2> QED
    BY <1>5, <2>1
<1> QED
  BY <1>4, <1>6

LEMMA KeptBySet ==
  ASSUME TypeInv, UNCHANGED <<prog, bsym>>, NEW d \in Decls, NEW r,
         r.baseClass = ag[d].baseClass, r.baseclasses = ag[d].baseclasses,
         ag' = [ag EXCEPT ![d] = r]
  PROVE  Kept
  BY DEF Kept, TypeInv, AgOK

LEMMA KeptByScope ==
  ASSUME TypeInv, UNCHANGED <<prog, bsym>>, NEW d \in Decls, NEW v,
         ag' = [ag EXCEPT ![d].scope = v]
  PROVE  Kept
<1>1. ag' = [ag EXCEPT ![d] = [ag[d] EXCEPT !.scope = v]]
  BY DEF TypeInv, AgOK, AggregateType
<1>2. /\ [ag[d] EXCEPT !.scope = v].baseClass = ag[d].baseClass
      /\ [ag[d] EXCEPT !.scope = v].baseclasses = ag[d].baseclasses
  BY FieldTypes DEF AggregateType
<1> QED
  BY <1>1, <1>2, KeptBySet

LEMMA KeptByStutter == ASSUME UNCHANGED <<prog, bsym, ag>> PROVE Kept
  BY DEF Kept

(* The actions of the first pass that neither drop nor take a base.        *)
LEMMA KeptBySemantic ==
  ASSUME TypeInv, SemanticStep, ~SemNoBaseClass, ~SemCircularBase, ~SemBaseClass,
         ~SemDropIface, ~SemIface, ~SemBasesDone
  PROVE  Kept
<1> DEFINE d == Top.d
<1> HIDE DEF d
<1>1. ASSUME SemReturnAtOnce PROVE Kept
  <2>1. d \in Decls
    BY <1>1, InActivation DEF SemReturnAtOnce, d
  <2>2. \/ ag' = ag
        \/ ag' = [ag EXCEPT ![d] = [ag[d] EXCEPT !.semanticRun = "done"]]
    BY <1>1 DEF SemReturnAtOnce, d
  <2>3. [ag[d] EXCEPT !.semanticRun = "done"].baseClass = ag[d].baseClass
        /\ [ag[d] EXCEPT !.semanticRun = "done"].baseclasses = ag[d].baseclasses
    BY <2>1, FieldTypes DEF AggregateType
  <2> QED
    BY <1>1, <2>1, <2>2, <2>3, KeptBySet, KeptByStutter DEF SemReturnAtOnce
<1>2. ASSUME SemEnter PROVE Kept
  <2>1. d \in Decls
    BY <1>2, InActivation DEF SemEnter, d
  <2> DEFINE ok == IF ~IsStruct(d) /\ BasesOpen(d) THEN "in" ELSE ag[d].baseok
             r == [ag[d] EXCEPT !.scope = FALSE, !.semanticRun = "semantic", !.baseok = ok]
  <2>2. ag' = ag \/ ag' = [ag EXCEPT ![d] = r]
    BY <1>2, <2>1 DEF SemEnter, Crash, TypeInv, AgOK, AggregateType, d
  <2>3. r.baseClass = ag[d].baseClass /\ r.baseclasses = ag[d].baseclasses
    BY <2>1, FieldTypes DEF AggregateType
  <2>4. UNCHANGED <<prog, bsym>>
    BY <1>2 DEF SemEnter, Crash
  <2> HIDE DEF r
  <2> QED
    BY <2>1, <2>2, <2>3, <2>4, KeptBySet, KeptByStutter
<1>3. ASSUME SemBaseType \/ SemBaseTyped PROVE Kept
  <2>1. d \in Decls
    BY <1>3, InActivation DEF SemBaseType, SemBaseTyped, d
  <2>2. ag' = [ag EXCEPT ![d].scope = FALSE] \/ ag' = [ag EXCEPT ![d].scope = TRUE]
    BY <1>3 DEF SemBaseType, SemBaseTyped, d
  <2> QED
    BY <1>3, <2>1, <2>2, KeptByScope DEF SemBaseType, SemBaseTyped
<1>4. ASSUME SemBaseResolved PROVE Kept
  <2>1. d \in Decls
    BY <1>4, InActivation DEF SemBaseResolved, d
  <2> DEFINE ok == IF BasesOpen(BaseDecl(d, Top.b)) THEN "none" ELSE ag[d].baseok
             r == [ag[d] EXCEPT !.scope = FALSE, !.baseok = ok]
  <2>2. ag' = [ag EXCEPT ![d] = r]
    BY <1>4, <2>1 DEF SemBaseResolved, TypeInv, AgOK, AggregateType, d
  <2>3. r.baseClass = ag[d].baseClass /\ r.baseclasses = ag[d].baseclasses
    BY <2>1, FieldTypes DEF AggregateType
  <2>4. UNCHANGED <<prog, bsym>>
    BY <1>4 DEF SemBaseResolved
  <2> HIDE DEF r
  <2> QED
    BY <2>1, <2>2, <2>3, <2>4, KeptBySet
<1>5. ASSUME SemAncestorsForward PROVE Kept
  <2>1. d \in Decls
    BY <1>5, InActivation DEF SemAncestorsForward, d
  <2>2. ag' = [ag EXCEPT ![d].scope = TRUE] /\ UNCHANGED <<prog, bsym>>
    BY <1>5 DEF SemAncestorsForward, Postpone, d
  <2> QED
    BY <2>1, <2>2, KeptByScope
<1>6. ASSUME SemSymtab PROVE Kept
  <2>1. d \in Decls
    BY <1>6, InActivation DEF SemSymtab, d
  <2> DEFINE tab == IF ag[d].symtab # "none" THEN ag[d].symtab
                    ELSE IF IsIface(d) THEN "empty" ELSE "full"
             r == [ag[d] EXCEPT !.semanticRun = "done"]
             s == [ag[d] EXCEPT !.symtab = tab]
  <2>2. ag' = [ag EXCEPT ![d] = r] \/ ag' = [ag EXCEPT ![d] = s]
    BY <1>6, <2>1 DEF SemSymtab, TypeInv, AgOK, AggregateType, d
  <2>3. /\ r.baseClass = ag[d].baseClass /\ r.baseclasses = ag[d].baseclasses
        /\ s.baseClass = ag[d].baseClass /\ s.baseclasses = ag[d].baseclasses
    BY <2>1, FieldTypes DEF AggregateType
  <2>4. UNCHANGED <<prog, bsym>>
    BY <1>6 DEF SemSymtab
  <2> HIDE DEF r, s
  <2> QED
    BY <2>1, <2>2, <2>3, <2>4, KeptBySet
<1>7. ASSUME SemVtbl PROVE Kept
  <2>1. d \in Decls
    BY <1>7, InActivation DEF SemVtbl, d
  <2> DEFINE ok == IF ag[d].baseok = "done" THEN "semanticdone" ELSE ag[d].baseok
             table == IF ag[d].baseok = "done" THEN InheritedVtbl(d) ELSE ag[d].vtbl
             r == [ag[d] EXCEPT !.vtbl = table, !.baseok = ok, !.symtab = "full"]
  <2>2. ag' = [ag EXCEPT ![d] = r]
    BY <1>7, <2>1 DEF SemVtbl, TypeInv, AgOK, AggregateType, d
  <2>3. r.baseClass = ag[d].baseClass /\ r.baseclasses = ag[d].baseclasses
    BY <2>1, FieldTypes DEF AggregateType
  <2>4. UNCHANGED <<prog, bsym>>
    BY <1>7 DEF SemVtbl
  <2> HIDE DEF r
  <2> QED
    BY <2>1, <2>2, <2>3, <2>4, KeptBySet
<1>8. ASSUME SemMethod PROVE Kept
  <2>1. d \in Decls
    BY <1>8, InActivation DEF SemMethod, d
  <2> DEFINE r == [ag[d] EXCEPT !.vtbl = @ \cup {d}]
  <2>2. ag' = [ag EXCEPT ![d] = r]
    BY <1>8, <2>1 DEF SemMethod, TypeInv, AgOK, AggregateType, d
  <2>3. r.baseClass = ag[d].baseClass /\ r.baseclasses = ag[d].baseclasses
    BY <2>1, FieldTypes DEF AggregateType
  <2> QED
    BY <1>8, <2>1, <2>2, <2>3, KeptBySet DEF SemMethod
<1>9. ASSUME SemOwnField \/ SemFieldsForward \/ SemFinish PROVE Kept
  <2>1. d \in Decls
    BY <1>9, InActivation DEF SemOwnField, SemFieldsForward, SemFinish, d
  <2> DEFINE bad == ag[d].bad \/ errors + SpecialMemberErrors(d) # Top.errors
             r == [ag[d] EXCEPT !.semanticRun = "done", !.bad = TRUE, !.membersRun = TRUE]
             s == [ag[d] EXCEPT !.scope = TRUE, !.membersRun = TRUE]
             t == [ag[d] EXCEPT !.semanticRun = "done", !.membersRun = TRUE, !.bad = bad]
  <2>2. \/ ag' = [ag EXCEPT ![d] = r] \/ ag' = [ag EXCEPT ![d] = s]
        \/ ag' = [ag EXCEPT ![d] = t]
    BY <1>9, <2>1 DEF SemOwnField, SemFieldsForward, SemFinish, TypeInv, AgOK,
       AggregateType, d
  <2>3. /\ r.baseClass = ag[d].baseClass /\ r.baseclasses = ag[d].baseclasses
        /\ s.baseClass = ag[d].baseClass /\ s.baseclasses = ag[d].baseclasses
        /\ t.baseClass = ag[d].baseClass /\ t.baseclasses = ag[d].baseclasses
    BY <2>1, FieldTypes DEF AggregateType
  <2> QED
    BY <1>9, <2>1, <2>2, <2>3, KeptBySet DEF SemOwnField, SemFieldsForward, SemFinish
<1>10. ASSUME SemTypesResolved \/ SemField \/ SemLookupMember \/ SemLookedUp
              \/ SemInstMember
       PROVE  UNCHANGED <<prog, bsym, ag>>
  BY <1>10 DEF SemTypesResolved, SemField, SemLookupMember,
     LookupMember, SemLookedUp, SemInstMember, RunDeferred
<1> QED
  BY <1>1, <1>2, <1>3, <1>4, <1>5, <1>6, <1>7, <1>8, <1>9, <1>10, KeptByStutter
  DEF SemanticStep

(* So do the searches and the driver.                                      *)
LEMMA KeptByOthers ==
  ASSUME TypeInv, SearchStep \/ DriverStep \/ UNCHANGED vars
  PROVE  Kept
<1> DEFINE d == Top.d
<1>1. ASSUME SearchEnter \/ SearchAnalysed PROVE Kept
  <2>1. d \in Decls
    BY <1>1, InActivation DEF SearchEnter, SearchAnalysed
  <2> DEFINE r(v) == [ag[d] EXCEPT !.inuse = v]
  <2>2. \/ ag' = ag
        \/ \E v \in BOOLEAN : ag' = [ag EXCEPT ![d] = r(v)]
    BY <1>1, <2>1 DEF SearchEnter, SearchAnalysed, TypeInv, AgOK, AggregateType
  <2>3. \A v \in BOOLEAN : /\ r(v).baseClass = ag[d].baseClass
                           /\ r(v).baseclasses = ag[d].baseclasses
    BY <2>1, FieldTypes DEF AggregateType
  <2> HIDE DEF r
  <2> QED
    BY <1>1, <2>1, <2>2, <2>3, KeptBySet, KeptByStutter DEF SearchEnter, SearchAnalysed
<1>2. ASSUME SearchStep, ~SearchEnter, ~SearchAnalysed PROVE UNCHANGED <<prog, bsym, ag>>
  BY <1>2 DEF SearchStep, SearchForward, SearchOwn, SearchBase, SearchedBase
<1>3. ASSUME DriverStep \/ UNCHANGED vars PROVE UNCHANGED <<prog, bsym, ag>>
  BY <1>3 DEF DriverStep, RunRound, RunEach, RunRoundDone, ModuleMember, LookupMember,
     ModuleLookedUp, ModuleDrain, RunDeferred, ModuleEnd, DriverDrain, DriverCheck,
     Stopped, vars
<1> QED
  BY <1>1, <1>2, <1>3, KeptByStutter

----------------------------------------------------------------------------
(* The steps that change the bases of a declaration.                       *)

LEMMA FewerEdges ==
  ASSUME Acyclic, \A x \in Decls : Supers(x)' \subseteq Supers(x)
  PROVE  Acyclic'
<1> SUFFICES ASSUME NEW S \in SUBSET Decls, S # {}
             PROVE  \E x \in S : Supers(x)' \cap S = {}
  BY DEF Acyclic
<1>1. PICK x \in S : Supers(x) \cap S = {}
  BY DEF Acyclic
<1> QED
  BY <1>1

(* A new edge from d to c closes no cycle when some closed set holds c and *)
(* not d.                                                                  *)
LEMMA OneMoreEdge ==
  ASSUME Acyclic, NEW d \in Decls, NEW c \in Decls, NEW R \in SUBSET Decls,
         c \in R, d \notin R, \A x \in R : Supers(x) \subseteq R,
         \A x \in Decls : x # d => Supers(x)' = Supers(x),
         Supers(d)' \subseteq Supers(d) \cup {c}
  PROVE  Acyclic'
<1> SUFFICES ASSUME NEW S \in SUBSET Decls, S # {}
             PROVE  \E x \in S : Supers(x)' \cap S = {}
  BY DEF Acyclic
<1>1. CASE S \cap R # {}
  <2>1. S \cap R \in SUBSET Decls
    OBVIOUS
  <2>2. PICK x \in S \cap R : Supers(x) \cap (S \cap R) = {}
    BY <1>1, <2>1 DEF Acyclic
  <2>3. Supers(x)' = Supers(x) /\ Supers(x) \subseteq R
    BY <2>2
  <2> QED
    BY <2>2, <2>3
<1>2. CASE S \cap R = {}
  <2>1. PICK x \in S : Supers(x) \cap S = {}
    BY DEF Acyclic
  <2>2. Supers(x)' \subseteq Supers(x) \cup {c} /\ c \notin S
    BY <1>2, <2>1
  <2> QED
    BY <2>1, <2>2
<1> QED
  BY <1>1, <1>2

(* The list after a removal: still each BaseClass once, none further back. *)
Inj(s) == \A i, j \in 1..Len(s) : i # j => s[i] # s[j]
MovedUp(s, t) == \A y \in 1..Len(t) : \E x \in 1..Len(s) : y <= x /\ t[y] = s[x]

LEMMA Removed ==
  ASSUME NEW s \in Seq(Nat), Inj(s), NEW j \in 1..Len(s)
  PROVE  Inj(RemoveAt(s, j)) /\ MovedUp(s, RemoveAt(s, j)) /\ Len(RemoveAt(s, j)) \in Nat
<1> DEFINE t == RemoveAt(s, j)
<1>1. /\ Len(s) \in Nat /\ Len(t) = Len(s) - 1
      /\ \A x \in 1..Len(t) : t[x] = IF x < j THEN s[x] ELSE s[x + 1]
  BY RemoveAtType, LenProperties
<1> HIDE DEF t
<1> DEFINE up(x) == IF x < j THEN x ELSE x + 1
<1>2. \A x \in 1..Len(t) : up(x) \in 1..Len(s) /\ x <= up(x) /\ t[x] = s[up(x)]
  BY <1>1
<1>3. \A x, y \in 1..Len(t) : x # y => up(x) # up(y)
  BY <1>1
<1> HIDE DEF up
<1>4. Inj(t)
  BY <1>2, <1>3 DEF Inj
<1>5. MovedUp(s, t)
  BY <1>2 DEF MovedUp
<1> QED
  BY <1>1, <1>4, <1>5 DEF t

LEMMA NotMoved == ASSUME NEW s \in Seq(Nat) PROVE MovedUp(s, s)
<1>1. \A y \in 1..Len(s) : y <= y
  BY LenProperties
<1> QED
  BY <1>1 DEF MovedUp

(* A base is dropped, or an interface becomes known, or both.              *)
LEMMA ListChange ==
  ASSUME TypeInv, BasesKept, NEW d \in Decls, NEW list, NEW K \in SUBSET Nat,
         prog' = prog,
         Inj(list), MovedUp(BaseList(d), list),
         \A x \in Decls : ag'[x].baseClass = ag[x].baseClass,
         \A x \in Decls : x # d => ag'[x].baseclasses = ag[x].baseclasses,
         ag'[d].baseclasses = list,
         \A x \in Decls : x # d => bsym'[x] = bsym[x],
         bsym'[d] = bsym[d] \cup K,
         \A k \in K : IsIface(BaseDecl(d, k))
  PROVE  /\ BasesKept'
         /\ \A x \in Decls : x # d => Supers(x)' = Supers(x)
         /\ Supers(d)' \subseteq Supers(d) \cup {BaseDecl(d, k) : k \in K}
<1>1. \A x \in Decls : x # d => BaseList(x)' = BaseList(x)
  BY DEF BaseList
<1>2. BaseList(d)' = list
  BY DEF BaseList
<1>3. \A x, k : BaseDecl(x, k)' = BaseDecl(x, k)
  BY DEF BaseDecl
<1>4. \A x \in Decls : x # d => \A k : HasSym(x, k)' = HasSym(x, k)
  BY DEF HasSym
<1>5. \A k : HasSym(d, k)' => HasSym(d, k) \/ k \in K
  BY DEF HasSym
<1>6. \A x : IsClass(x)' = IsClass(x) /\ IsIface(x)' = IsIface(x)
  BY DEF IsClass, IsIface
<1>7. BasesKept'
  <2>1. ag'[Object].baseClass = NoDecl
    BY ObjectIsClass DEF BasesKept
  <2>2. ASSUME NEW x \in Decls
        PROVE  ag'[x].baseClass # NoDecl => IsClass(x)'
    BY <1>6 DEF BasesKept
  <2>3. ASSUME NEW x \in Decls, NEW i \in 1..Len(BaseList(x)'),
               NEW j \in 1..Len(BaseList(x)'), i # j
        PROVE  BaseList(x)'[i] # BaseList(x)'[j]
    BY <1>1, <1>2, <2>3 DEF BasesKept, Inj
  <2>4. ASSUME NEW x \in Decls, NEW j \in 1..Len(BaseList(x)'),
               HasSym(x, BaseList(x)[j])', ~IsIface(BaseDecl(x, BaseList(x)[j]))'
        PROVE  j = 1 /\ BaseDecl(x, BaseList(x)[j])' = ag'[x].baseClass
    <3>1. CASE x # d
      BY <1>1, <1>3, <1>4, <1>6, <2>4, <3>1 DEF BasesKept
    <3>2. CASE x = d
      <4>1. PICK i \in 1..Len(BaseList(d)) : j <= i /\ list[j] = BaseList(d)[i]
        BY <1>2, <3>2 DEF MovedUp
      <4>2. HasSym(d, list[j]) /\ ~IsIface(BaseDecl(d, list[j]))
        BY <1>2, <1>3, <1>5, <1>6, <2>4, <3>2
      <4>3. i = 1 /\ BaseDecl(d, list[j]) = ag[d].baseClass
        BY <4>1, <4>2 DEF BasesKept
      <4>4. j = 1
        BY <4>1, <4>3
      <4> QED
        BY <1>2, <1>3, <3>2, <4>3, <4>4
    <3> QED
      BY <3>1, <3>2
  <2> QED
    BY <2>1, <2>2, <2>3, <2>4 DEF BasesKept
<1>8. \A x \in Decls : x # d => Supers(x)' = Supers(x)
  BY <1>1, <1>3, <1>4 DEF Supers, SymBases
<1>9. Supers(d)' \subseteq Supers(d) \cup {BaseDecl(d, k) : k \in K}
  <2>1. Elems(list) \subseteq Elems(BaseList(d))
    BY DEF Elems, MovedUp
  <2>2. SymBases(d)' \subseteq SymBases(d) \cup {BaseDecl(d, k) : k \in K}
    BY <1>2, <1>3, <1>5, <2>1 DEF SymBases
  <2> QED
    BY <2>2 DEF Supers
<1> QED
  BY <1>7, <1>8, <1>9

LEMMA EdgesDropBase ==
  ASSUME EdgeInv, NEW d \in Decls, NEW j \in 1..Len(BaseList(d)), NEW isError,
         DropBase(d, j, isError)
  PROVE  BasesKept' /\ Acyclic'
<1> DEFINE list == RemoveAt(BaseList(d), j)
<1>1. BaseList(d) \in Seq(Nat) /\ Inj(BaseList(d))
  BY FieldTypes DEF EdgeInv, BasesKept, Inj
<1>2. Inj(list) /\ MovedUp(BaseList(d), list)
  BY <1>1, Removed
<1> HIDE DEF list
<1>3. ag' = [ag EXCEPT ![d] = [ag[d] EXCEPT !.baseclasses = list]]
  BY DEF DropBase, EdgeInv, TypeInv, AgOK, AggregateType, list, BaseList
<1>4. /\ [ag[d] EXCEPT !.baseclasses = list].baseclasses = list
      /\ [ag[d] EXCEPT !.baseclasses = list].baseClass = ag[d].baseClass
  BY FieldTypes DEF EdgeInv, AggregateType
<1>5. /\ \A x \in Decls : ag'[x].baseClass = ag[x].baseClass
      /\ \A x \in Decls : x # d => ag'[x].baseclasses = ag[x].baseclasses
      /\ ag'[d].baseclasses = list
  BY <1>3, <1>4 DEF EdgeInv, TypeInv, AgOK
<1>6. /\ prog' = prog
      /\ \A x \in Decls : x # d => bsym'[x] = bsym[x]
      /\ bsym'[d] = bsym[d] \cup {}
  BY DEF DropBase
<1>7. /\ BasesKept'
      /\ \A x \in Decls : x # d => Supers(x)' = Supers(x)
      /\ Supers(d)' \subseteq Supers(d) \cup {BaseDecl(d, k) : k \in {}}
  BY <1>2, <1>5, <1>6, ListChange DEF EdgeInv
<1>8. Acyclic'
  BY <1>7, FewerEdges DEF EdgeInv
<1> QED
  BY <1>7, <1>8

(* An interface is taken: no circle, since isBaseOf2 has found none.       *)
LEMMA NewIfaceAcyclic ==
  ASSUME EdgeInv, NEW d \in Decls, NEW c \in Decls, IsIface(c), ~IsCircularIface(d, c),
         \A x \in Decls : x # d => Supers(x)' = Supers(x),
         Supers(d)' \subseteq Supers(d) \cup {c}
  PROVE  Acyclic'
<1>1. Ifaces \in SUBSET Decls /\ c \in Ifaces
  BY DEF Ifaces
<1>2. \A x \in Ifaces : SymBases(x) \subseteq Ifaces /\ Supers(x) = SymBases(x)
  BY IfacesClosed DEF EdgeInv
<1>3. CASE ~IsIface(d)
  <2>1. d \notin Ifaces /\ \A x \in Ifaces : Supers(x) \subseteq Ifaces
    BY <1>2, <1>3 DEF Ifaces
  <2> QED
    BY <1>1, <2>1, OneMoreEdge DEF EdgeInv
<1>4. CASE IsIface(d)
  <2> DEFINE E == [y \in Decls |-> SymBases(y)]
             R == ReachBy(E, c)
  <2>1. \A x \in Decls : E[x] = SymBases(x) /\ E[x] \subseteq Decls
    BY SymBasesType DEF EdgeInv
  <2>2. c # d /\ \A x \in R : d \notin SymBases(x)
    BY <1>4 DEF IsCircularIface, IsBaseOf2
  <2> HIDE DEF E
  <2>3. c \in R /\ R \subseteq Decls /\ \A x \in R : E[x] \subseteq R
    BY <2>1, ReachClosed
  <2>4. R \subseteq Ifaces
    BY <1>1, <1>2, <2>1, ReachLeast
  <2>5. d \notin R
    <3>1. /\ R \ {d} \in SUBSET Decls /\ c \in R \ {d}
          /\ \A x \in R \ {d} : E[x] \subseteq R \ {d}
      BY <2>1, <2>2, <2>3
    <3> HIDE DEF R
    <3>2. ReachBy(E, c) \subseteq R \ {d}
      BY <3>1, ReachLeast
    <3> QED
      BY <3>2 DEF R
  <2>6. \A x \in R : Supers(x) \subseteq R
    BY <1>2, <2>1, <2>3, <2>4
  <2> HIDE DEF R
  <2> QED
    BY <2>3, <2>5, <2>6, OneMoreEdge DEF EdgeInv
<1> QED
  BY <1>3, <1>4

LEMMA EdgesIface == ASSUME EdgeInv, SemIface PROVE BasesKept' /\ Acyclic'
<1>0. Top.d \in Decls
  BY InActivation DEF SemIface, EdgeInv
<1> SUFFICES ASSUME NEW d \in Decls, d = Top.d PROVE BasesKept' /\ Acyclic'
  BY <1>0
<1> DEFINE k == BaseList(d)[Top.i]
           c == BaseDecl(d, k)
           list == IF IsDuplicate(d, Top.i) THEN RemoveAt(BaseList(d), Top.i)
                   ELSE BaseList(d)
           r == [ag[d] EXCEPT !.baseclasses = list, !.scope = BasesOpen(c)]
<1>1. d \in Decls /\ Top.i \in 1..Len(BaseList(d))
  <2>1. d \in Decls /\ Top.i \in Nat \ {0} /\ Top.i <= Len(BaseList(d))
    BY InActivation DEF SemIface, EdgeInv
  <2> QED
    BY <2>1, FieldTypes DEF EdgeInv
<1>2. c \in Decls /\ k \in Nat
  BY <1>1, BaseListElement DEF EdgeInv
<1>3. IsIface(c) /\ ~IsCircularIface(d, c)
  BY DEF SemIface, IsIfaceBase, KindOf, IsIface
<1>4. k # 0
  BY <1>3, ObjectIsClass DEF BaseDecl, EdgeInv
<1>5. Inj(list) /\ MovedUp(BaseList(d), list)
  <2>1. BaseList(d) \in Seq(Nat) /\ Inj(BaseList(d))
    BY <1>1, FieldTypes DEF EdgeInv, BasesKept, Inj
  <2> QED
    BY <1>1, <2>1, Removed, NotMoved
<1>6. ag' = [ag EXCEPT ![d] = r]
  BY <1>1 DEF SemIface, EdgeInv, TypeInv, AgOK, AggregateType, BaseList
<1>7. r.baseclasses = list /\ r.baseClass = ag[d].baseClass
  BY <1>1, FieldTypes DEF EdgeInv, AggregateType
<1> HIDE DEF r, list
<1>8. /\ \A x \in Decls : ag'[x].baseClass = ag[x].baseClass
      /\ \A x \in Decls : x # d => ag'[x].baseclasses = ag[x].baseclasses
      /\ ag'[d].baseclasses = list
  BY <1>1, <1>6, <1>7 DEF EdgeInv, TypeInv, AgOK
<1>9. /\ prog' = prog
      /\ \A x \in Decls : x # d => bsym'[x] = bsym[x]
      /\ bsym'[d] = bsym[d] \cup {k}
  BY <1>1, <1>4 DEF SemIface, EdgeInv, TypeInv, RestOK
<1>10. {k} \in SUBSET Nat /\ \A x \in {k} : IsIface(BaseDecl(d, x))
  BY <1>2, <1>3
<1>11. /\ BasesKept'
       /\ \A x \in Decls : x # d => Supers(x)' = Supers(x)
       /\ Supers(d)' \subseteq Supers(d) \cup {BaseDecl(d, x) : x \in {k}}
  BY <1>1, <1>5, <1>8, <1>9, <1>10, ListChange DEF EdgeInv
<1>12. Supers(d)' \subseteq Supers(d) \cup {c}
  BY <1>11
<1>13. Acyclic'
  BY <1>1, <1>2, <1>3, <1>11, <1>12, NewIfaceAcyclic
<1> QED
  BY <1>11, <1>13

(* A base class is taken: no circle, since the walk over baseClass has     *)
(* found none and an interface never derives from a class.                 *)
LEMMA NewClassAcyclic ==
  ASSUME EdgeInv, NEW d \in Decls, NEW c \in Decls, IsClass(d), d \notin BaseClassChain(c),
         \A x \in Decls : x # d => Supers(x)' = Supers(x),
         Supers(d)' \subseteq Supers(d) \cup {c}
  PROVE  Acyclic'
<1> DEFINE E == [x \in Decls |-> {ag[x].baseClass} \ {NoDecl}]
           R == BaseClassChain(c) \cup Ifaces
<1>1. \A x \in Decls : E[x] = {ag[x].baseClass} \ {NoDecl} /\ E[x] \subseteq Decls
  BY FieldTypes DEF EdgeInv, MaybeDecl
<1>2. BaseClassChain(c) = ReachBy(E, c)
  BY DEF BaseClassChain
<1> HIDE DEF E
<1>3. /\ c \in BaseClassChain(c) /\ BaseClassChain(c) \subseteq Decls
      /\ \A x \in BaseClassChain(c) : E[x] \subseteq BaseClassChain(c)
  BY <1>1, <1>2, ReachClosed
<1>4. R \in SUBSET Decls /\ c \in R /\ d \notin R
  BY <1>3 DEF Ifaces, IsClass, IsIface
<1>5. ASSUME NEW x \in R PROVE Supers(x) \subseteq R
  <2>1. CASE x \in Ifaces
    BY <2>1, IfacesClosed DEF EdgeInv
  <2>2. CASE x \in BaseClassChain(c)
    <3>1. x \in Decls /\ E[x] \subseteq BaseClassChain(c)
      BY <1>3, <2>2
    <3>2. Supers(x) \subseteq Ifaces \cup ({ag[x].baseClass} \ {NoDecl})
      BY <3>1, ClassEdges DEF EdgeInv
    <3> QED
      BY <1>1, <3>1, <3>2
  <2> QED
    BY <2>1, <2>2
<1> HIDE DEF R
<1> QED
  BY <1>4, <1>5, OneMoreEdge DEF EdgeInv

LEMMA EdgesBaseClass == ASSUME EdgeInv, SemBaseClass PROVE BasesKept' /\ Acyclic'
<1>0. Top.d \in Decls
  BY InActivation DEF SemBaseClass, EdgeInv
<1> SUFFICES ASSUME NEW d \in Decls, d = Top.d PROVE BasesKept' /\ Acyclic'
  BY <1>0
<1> DEFINE k == BaseList(d)[1]
           c == BaseDecl(d, k)
<1>1. d \in Decls /\ IsClass(d)
  BY InActivation DEF SemBaseClass, EdgeInv
<1>2. 1 \in 1..Len(BaseList(d)) /\ d # Object
  BY <1>1, FieldTypes, EmptySeq, ObjectIsRoot DEF SemBaseClass, FirstKind, EdgeInv
<1>3. c \in Decls /\ k \in Nat
  BY <1>1, <1>2, BaseListElement DEF EdgeInv
<1>4. d \notin BaseClassChain(c) /\ prog' = prog
  BY DEF SemBaseClass
<1>5. \A x : /\ \A y : BaseDecl(x, y)' = BaseDecl(x, y)
             /\ IsClass(x)' = IsClass(x) /\ IsIface(x)' = IsIface(x)
  BY <1>4 DEF BaseDecl, IsClass, IsIface
<1>6. \A x \in Decls : /\ BaseList(x)' = BaseList(x)
                       /\ ag'[x].baseClass = IF x = d THEN c ELSE ag[x].baseClass
  <2> DEFINE r == [ag[d] EXCEPT !.baseClass = c]
             s == [ag[d] EXCEPT !.baseClass = c, !.scope = TRUE]
  <2>1. ag' = [ag EXCEPT ![d] = r] \/ ag' = [ag EXCEPT ![d] = s]
    BY <1>1 DEF SemBaseClass, EdgeInv, TypeInv, AgOK, AggregateType
  <2>2. /\ r.baseClass = c /\ r.baseclasses = ag[d].baseclasses
        /\ s.baseClass = c /\ s.baseclasses = ag[d].baseclasses
    BY <1>1, FieldTypes DEF EdgeInv, AggregateType
  <2> HIDE DEF r, s
  <2> QED
    BY <1>1, <2>1, <2>2 DEF EdgeInv, TypeInv, AgOK, BaseList
<1>7. /\ \A x \in Decls : x # d => \A y : HasSym(x, y)' = HasSym(x, y)
      /\ \A y : HasSym(d, y)' => HasSym(d, y) \/ y = k
  <2>1. bsym' = bsym \/ bsym' = [bsym EXCEPT ![d] = @ \cup {k}]
    BY DEF SemBaseClass
  <2> QED
    BY <1>1, <2>1 DEF HasSym, EdgeInv, TypeInv, RestOK
<1>8. BasesKept'
  <2>1. ag'[Object].baseClass = NoDecl
    BY <1>2, <1>6, ObjectIsClass DEF EdgeInv, BasesKept
  <2>2. ASSUME NEW x \in Decls
        PROVE  /\ ag'[x].baseClass # NoDecl => IsClass(x)'
               /\ \A i, j \in 1..Len(BaseList(x)') :
                    i # j => BaseList(x)'[i] # BaseList(x)'[j]
    BY <1>1, <1>5, <1>6 DEF EdgeInv, BasesKept
  <2>3. ASSUME NEW x \in Decls, NEW j \in 1..Len(BaseList(x)),
               HasSym(x, BaseList(x)[j])', ~IsIface(BaseDecl(x, BaseList(x)[j]))
        PROVE  j = 1 /\ BaseDecl(x, BaseList(x)[j]) = ag'[x].baseClass
    <3>1. CASE x # d
      BY <1>6, <1>7, <2>3, <3>1 DEF EdgeInv, BasesKept
    <3>2. CASE x = d
      <4>1. j = 1
        <5>1. CASE HasSym(d, BaseList(d)[j])
          BY <2>3, <3>2, <5>1 DEF EdgeInv, BasesKept
        <5>2. CASE BaseList(d)[j] = k
          <6>1. \A y, z \in 1..Len(BaseList(d)) : y # z => BaseList(d)[y] # BaseList(d)[z]
            BY DEF EdgeInv, BasesKept
          <6>2. j \in 1..Len(BaseList(d)) /\ BaseList(d)[j] = BaseList(d)[1]
            BY <3>2, <5>2
          <6> HIDE DEF k, c
          <6> QED
            BY <1>2, <6>1, <6>2
        <5> QED
          <6>1. HasSym(d, BaseList(d)[j])'
            BY <2>3, <3>2
          <6>2. BaseList(d)' = BaseList(d)
            BY <1>6
          <6>3. HasSym(d, BaseList(d)[j]) \/ BaseList(d)[j] = k
            BY <1>7, <6>1, <6>2
          <6> QED
            BY <5>1, <5>2, <6>3
      <4> QED
        BY <1>6, <3>2, <4>1
    <3> QED
      BY <3>1, <3>2
  <2>4. ASSUME NEW x \in Decls, NEW j \in 1..Len(BaseList(x)'),
               HasSym(x, BaseList(x)[j])', ~IsIface(BaseDecl(x, BaseList(x)[j]))'
        PROVE  j = 1 /\ BaseDecl(x, BaseList(x)[j])' = ag'[x].baseClass
    <3>1. BaseList(x)' = BaseList(x)
      BY <1>6
    <3>2. ~IsIface(BaseDecl(x, BaseList(x)[j]))
      BY <1>5, <2>4, <3>1
    <3> QED
      BY <1>5, <2>3, <2>4, <3>1, <3>2
  <2> QED
    BY <2>1, <2>2, <2>4 DEF BasesKept
<1>9. \A x \in Decls : x # d => Supers(x)' = Supers(x)
  BY <1>5, <1>6, <1>7 DEF Supers, SymBases
<1>10. Supers(d)' \subseteq Supers(d) \cup {c}
  <2>1. SymBases(d)' \subseteq SymBases(d) \cup {c}
    BY <1>1, <1>5, <1>6, <1>7 DEF SymBases
  <2> QED
    BY <1>1, <1>6, <2>1 DEF Supers
<1>11. Acyclic'
  BY <1>1, <1>3, <1>4, <1>9, <1>10, NewClassAcyclic
<1> QED
  BY <1>8, <1>11

(* The implicit base class comes first, before interfaces only.            *)
LEMMA EdgesBasesDone == ASSUME EdgeInv, SemBasesDone PROVE BasesKept' /\ Acyclic'
<1>0. Top.d \in Decls
  BY InActivation DEF SemBasesDone, EdgeInv
<1> SUFFICES ASSUME NEW d \in Decls, d = Top.d PROVE BasesKept' /\ Acyclic'
  BY <1>0
<1> DEFINE old == BaseList(d)
           base == IF NeedsObject(d) THEN Object ELSE ag[d].baseClass
           list == IF NeedsObject(d) THEN <<0>> \o old ELSE old
           r == [ag[d] EXCEPT !.baseok = "done", !.baseClass = base, !.baseclasses = list]
<1> SUFFICES ASSUME ~Postpone(d, deferred) PROVE BasesKept' /\ Acyclic'
  BY KeptByScope, KeptEdges DEF Postpone, EdgeInv
<1>1. UNCHANGED <<prog, bsym>>
  BY DEF SemBasesDone, Crash
<1>2. ag' = ag \/ ag' = [ag EXCEPT ![d] = r]
  BY DEF SemBasesDone, Crash, EdgeInv, TypeInv, AgOK, AggregateType, BaseList
<1>3. r.baseClass = base /\ r.baseclasses = list
  BY FieldTypes DEF EdgeInv, AggregateType
<1> HIDE DEF r
<1>4. CASE ag' = ag \/ ~NeedsObject(d)
  <2>1. ag' = ag \/ (base = ag[d].baseClass /\ list = ag[d].baseclasses)
    BY <1>4 DEF BaseList
  <2>2. Kept
    BY <1>1, <1>2, <1>3, <2>1, KeptBySet, KeptByStutter DEF EdgeInv
  <2> QED
    BY <2>2, KeptEdges
<1>5. CASE ag' = [ag EXCEPT ![d] = r] /\ NeedsObject(d)
  <2>1. d # Object /\ IsClass(d) /\ ag[d].baseClass = NoDecl
    BY <1>5 DEF NeedsObject
  <2>2. \A j \in 1..Len(old) :
          HasSym(d, old[j]) => IsIface(BaseDecl(d, old[j])) /\ old[j] # 0
    <3>1. \A j \in 1..Len(old) :
            HasSym(d, old[j]) => IsIface(BaseDecl(d, old[j]))
      BY <2>1, ListType, ObjectIsClass DEF EdgeInv, BasesKept
    <3>2. ~IsIface(BaseDecl(d, 0))
      BY ObjectIsClass DEF BaseDecl, EdgeInv
    <3> QED
      BY <3>1, <3>2
  <2>3. \A j \in 1..Len(old) : old[j] # 0
    BY <2>2 DEF HasSym
  <2>4. /\ Len(old) \in Nat /\ Len(list) = Len(old) + 1 /\ list[1] = 0
        /\ \A j \in 1..Len(list) : j # 1 => j - 1 \in 1..Len(old) /\ list[j] = old[j - 1]
    <3>1. old \in Seq(Nat) /\ <<0>> \in Seq(Nat) /\ Len(<<0>>) = 1 /\ <<0>>[1] = 0
      BY FieldTypes DEF EdgeInv
    <3>2. Len(old) \in Nat /\ list = <<0>> \o old
      BY <1>5, <3>1, LenProperties
    <3> HIDE DEF list, old
    <3> QED
      BY <3>1, <3>2, ConcatProperties
  <2>5. /\ BaseList(d)' = list /\ ag'[d].baseClass = Object
        /\ \A x \in Decls : x # d => /\ BaseList(x)' = BaseList(x)
                                     /\ ag'[x].baseClass = ag[x].baseClass
    BY <1>3, <1>5 DEF EdgeInv, TypeInv, AgOK, BaseList
  <2> HIDE DEF list, old, base
  <2>6. \A x, k : /\ BaseDecl(x, k)' = BaseDecl(x, k) /\ HasSym(x, k)' = HasSym(x, k)
                  /\ IsClass(x)' = IsClass(x) /\ IsIface(x)' = IsIface(x)
    BY <1>1 DEF BaseDecl, HasSym, IsClass, IsIface
  <2>7. \A i, j \in 1..Len(list) : i # j => list[i] # list[j]
    <3>1. \A i, j \in 1..Len(old) : i # j => old[i] # old[j]
      BY DEF EdgeInv, BasesKept, old
    <3> QED
      BY <2>3, <2>4, <3>1
  <2>8. ASSUME NEW j \in 1..Len(list), HasSym(d, list[j]), ~IsIface(BaseDecl(d, list[j]))
        PROVE  j = 1 /\ BaseDecl(d, list[j]) = Object
    <3>1. j = 1
      BY <2>2, <2>4, <2>8
    <3> QED
      BY <2>4, <3>1 DEF BaseDecl
  <2>9. BasesKept'
    <3>1. ag'[Object].baseClass = NoDecl
      BY <2>1, <2>5, ObjectIsClass DEF EdgeInv, BasesKept
    <3>2. ASSUME NEW x \in Decls
          PROVE  /\ ag'[x].baseClass # NoDecl => IsClass(x)'
                 /\ \A i, j \in 1..Len(BaseList(x)') :
                      i # j => BaseList(x)'[i] # BaseList(x)'[j]
      BY <2>1, <2>5, <2>6, <2>7 DEF EdgeInv, BasesKept
    <3>3. ASSUME NEW x \in Decls, NEW j \in 1..Len(BaseList(x)'),
                 HasSym(x, BaseList(x)[j])', ~IsIface(BaseDecl(x, BaseList(x)[j]))'
          PROVE  j = 1 /\ BaseDecl(x, BaseList(x)[j])' = ag'[x].baseClass
      <4>1. CASE x # d
        BY <2>5, <2>6, <3>3, <4>1 DEF EdgeInv, BasesKept
      <4>2. CASE x = d
        BY <2>5, <2>6, <2>8, <3>3, <4>2
      <4> QED
        BY <4>1, <4>2
    <3> QED
      BY <3>1, <3>2, <3>3 DEF BasesKept
  <2>10. \A x \in Decls : x # d => Supers(x)' = Supers(x)
    BY <2>5, <2>6 DEF Supers, SymBases
  <2>11. Supers(d)' \subseteq Supers(d) \cup {Object}
    <3>1. Elems(list) \subseteq Elems(old) \cup {0}
      BY <2>4 DEF Elems
    <3>2. SymBases(d)' \subseteq SymBases(d) \cup {Object}
      BY <2>5, <2>6, <3>1 DEF SymBases, BaseDecl, old
    <3> QED
      BY <2>5, <3>2 DEF Supers
  <2>12. Acyclic'
    <3>1. Ifaces \cup {Object} \in SUBSET Decls /\ d \notin Ifaces \cup {Object}
      BY <2>1, ObjectIsClass DEF Ifaces, IsIface, IsClass, EdgeInv
    <3>2. \A x \in Ifaces \cup {Object} : Supers(x) \subseteq Ifaces \cup {Object}
      BY IfacesClosed, ObjectIsRoot DEF EdgeInv
    <3>3. Object \in Decls /\ Object \in Ifaces \cup {Object}
      BY ObjectIsClass DEF EdgeInv
    <3> QED
      BY <2>10, <2>11, <3>1, <3>2, <3>3, OneMoreEdge DEF EdgeInv
  <2> QED
    BY <2>9, <2>12
<1> QED
  BY <1>2, <1>4, <1>5

----------------------------------------------------------------------------
(* No cycle, in every state.                                               *)

LEMMA EdgesInit == ASSUME Init PROVE BasesKept /\ Acyclic
<1>1. TypeInv /\ Object \in Decls
  BY TypeInit, ConstantsAssumption
<1>2. \A x \in Decls : /\ ag[x].baseClass = NoDecl
                       /\ BaseList(x) = [k \in 1..Len(prog.bases[x]) |-> k]
                       /\ bsym[x] = {}
  BY DEF Init, NewAggregate, BaseList
<1>3. \A x \in Decls : Len(BaseList(x)) = Len(prog.bases[x]) /\ Len(prog.bases[x]) \in Nat
  BY <1>1, <1>2, FieldTypes
<1>4. \A x \in Decls : \A j \in 1..Len(BaseList(x)) :
        BaseList(x)[j] = j /\ ~HasSym(x, BaseList(x)[j])
  BY <1>2, <1>3 DEF HasSym
<1>5. BasesKept
  BY <1>1, <1>2, <1>4 DEF BasesKept
<1>6. \A x \in Decls : Supers(x) = {}
  BY <1>2, <1>4 DEF Supers, SymBases, Elems
<1> QED
  BY <1>5, <1>6 DEF Acyclic

LEMMA EdgesNext == ASSUME EdgeInv, [Next]_vars PROVE BasesKept' /\ Acyclic'
<1>1. ASSUME SemNoBaseClass PROVE BasesKept' /\ Acyclic'
  <2>1. Top.d \in Decls
    BY <1>1, InActivation DEF SemNoBaseClass, EdgeInv
  <2>2. CASE FirstKind(Top.d) \in {"error", "struct"}
    <3>1. 1 \in 1..Len(BaseList(Top.d))
      BY <2>1, <2>2, FieldTypes, EmptySeq DEF FirstKind, EdgeInv
    <3> QED
      BY <1>1, <2>1, <2>2, <3>1, EdgesDropBase DEF SemNoBaseClass
  <2>3. CASE FirstKind(Top.d) \notin {"error", "struct"}
    BY <1>1, <2>3, KeptByStutter, KeptEdges DEF SemNoBaseClass
  <2> QED
    BY <2>2, <2>3
<1>2. ASSUME SemCircularBase PROVE BasesKept' /\ Acyclic'
  <2>1. Top.d \in Decls
    BY <1>2, InActivation DEF SemCircularBase, EdgeInv
  <2>2. 1 \in 1..Len(BaseList(Top.d))
    BY <1>2, <2>1, FieldTypes, EmptySeq DEF SemCircularBase, FirstKind, EdgeInv
  <2> QED
    BY <1>2, <2>1, <2>2, EdgesDropBase DEF SemCircularBase
<1>3. ASSUME SemDropIface PROVE BasesKept' /\ Acyclic'
  <2>1. Top.d \in Decls /\ Top.i \in Nat \ {0} /\ Top.i <= Len(BaseList(Top.d))
    BY <1>3, InActivation DEF SemDropIface, EdgeInv
  <2>2. Top.i \in 1..Len(BaseList(Top.d))
    BY <2>1, FieldTypes DEF EdgeInv
  <2> QED
    BY <1>3, <2>1, <2>2, EdgesDropBase DEF SemDropIface
<1>4. ASSUME SemanticStep PROVE BasesKept' /\ Acyclic'
  BY <1>1, <1>2, <1>3, <1>4, EdgesBaseClass, EdgesIface, EdgesBasesDone, KeptBySemantic,
     KeptEdges DEF EdgeInv
<1>5. ASSUME SearchStep \/ DriverStep \/ UNCHANGED vars PROVE BasesKept' /\ Acyclic'
  BY <1>5, KeptByOthers, KeptEdges DEF EdgeInv
<1> QED
  BY <1>4, <1>5 DEF Next

LEMMA EdgeInvariant == Spec => []EdgeInv
<1>1. Init => EdgeInv
  BY TypeInit, EdgesInit DEF EdgeInv
<1>2. EdgeInv /\ [Next]_vars => EdgeInv'
  BY TypeNext, EdgesNext DEF EdgeInv
<1> QED BY <1>1, <1>2, PTL DEF Spec

(* The edges set so far form no cycle in any state of any program, however *)
(* the activations nest: the walk over baseClass that looks for circular   *)
(* inheritance, isBaseOf and isBaseOf2 always terminate.                   *)
THEOREM NoInheritanceCycle == Spec => []Acyclic
<1>1. EdgeInv => Acyclic
  BY DEF EdgeInv
<1> QED
  BY <1>1, EdgeInvariant, PTL

----------------------------------------------------------------------------
(* How far each declaration has come, and what each activation of          *)
(* semantic() may rely on whatever ran meanwhile.                          *)

EarlyPcs == {"types", "typed", "base", "based", "ifaces", "ifaced"}
LatePcs == {"ancestors", "members", "looked"}

(* What an activation of semantic() may rely on at pc, whatever ran        *)
(* meanwhile.                                                              *)
Ready(d, pc) ==
  /\ ag[d].semanticRun # "init"
  /\ pc \in EarlyPcs => ~IsStruct(d)
  /\ pc \in {"symtab"} \cup LatePcs => IsStruct(d) \/ ~BasesOpen(d)
  /\ pc \in LatePcs => ag[d].symtab # "none"
KnownFrame ==
  {f \in GoodFrame : f.fn = "semantic" =>
     /\ f.pc # "enter" => Ready(f.d, f.pc)
     /\ f.pc \in {"based", "ifaced"} => ~IsStruct(BaseDecl(f.d, f.b))}

Stands(d) ==
  ~IsStruct(d) =>
    /\ ag[d].semanticRun # "init" => ag[d].baseok # "none"
    /\ ag[d].symtab # "none" \/ IsDone(d) => ~BasesOpen(d)

(* An activation that waits for the bases of a base.                       *)
Waits(f) == f.fn = "semantic" /\ f.pc \in {"based", "ifaced"}
Chained ==
  \A k \in 1..(Len(stack) - 1) : Waits(stack[k]) =>
    stack[k + 1].fn = "semantic" /\ stack[k + 1].d = BaseDecl(stack[k].d, stack[k].b)
TopClosed ==
  stack # <<>> /\ Waits(Top) => ~BasesOpen(BaseDecl(Top.d, Top.b))

(* A declaration has a scope, or none is needed.                           *)
Held(d) ==
  \/ ag[d].scope
  \/ IsDone(d)
  \/ ag[d].semanticRun = "semantic" /\ ag[d].symtab # "none"
Scoped == \A d \in Decls : Held(d) \/ (stack # <<>> /\ Top \in Workers(d))

StandInv ==
  /\ \A d \in Decls : Stands(d)
  /\ stack \in Seq(KnownFrame)
  /\ Chained /\ TopClosed /\ Scoped

(* The fields of a declaration only go forward.                            *)
Forward ==
  /\ prog' = prog
  /\ \A x \in Decls :
       /\ ag[x].semanticRun # "init" => ag'[x].semanticRun # "init"
       /\ ag[x].semanticRun = "done" => ag'[x].semanticRun = "done"
       /\ ag[x].symtab # "none" => ag'[x].symtab # "none"
       /\ ag[x].baseok \notin {"none", "in"} => ag'[x].baseok \notin {"none", "in"}

Elsewhere(d) ==
  \A x \in Decls : x # d =>
    /\ ag'[x].scope = ag[x].scope /\ ag'[x].semanticRun = ag[x].semanticRun
    /\ ag'[x].symtab = ag[x].symtab /\ ag'[x].baseok = ag[x].baseok

LEMMA KnownWider == ASSUME Forward PROVE KnownFrame \subseteq KnownFrame'
  BY DEF Forward, KnownFrame, Ready, GoodFrame, IsClass, IsStruct, BaseDecl, BasesOpen

LEMMA StandsElsewhere ==
  ASSUME StandInv, Forward, NEW d \in Decls, Elsewhere(d), Stands(d)'
  PROVE  \A x \in Decls : Stands(x)'
  BY DEF StandInv, Forward, Elsewhere, Stands, IsStruct, BasesOpen, IsDone

LEMMA HeldElsewhere ==
  ASSUME Forward, NEW d \in Decls, Elsewhere(d)
  PROVE  \A x \in Decls : x # d /\ Held(x) => Held(x)'
  BY DEF Forward, Elsewhere, Held, IsDone

(* The stack after a step.                                                 *)
LEMMA AfterBecome ==
  ASSUME TypeInv, stack # <<>>, NEW f, Become(f)
  PROVE  /\ Len(stack) \in 1..Len(stack) /\ Len(stack) \in Nat /\ Len(stack') = Len(stack)
         /\ stack'[Len(stack)] = f /\ Top' = f /\ stack' # <<>>
         /\ \A k \in 1..Len(stack) : k # Len(stack) => stack'[k] = stack[k]
<1>1. stack \in Seq(GoodFrame) /\ Len(stack) \in 1..Len(stack) /\ Len(stack) \in Nat
  BY EmptySeq, LenProperties DEF TypeInv, StackOK
<1>2. stack \in Seq(GoodFrame \cup {f})
  BY <1>1, Wider
<1>3. /\ stack' \in Seq(GoodFrame \cup {f}) /\ Len(stack') = Len(stack)
      /\ \A i \in 1..Len(stack) : stack'[i] = IF i = Len(stack) THEN f ELSE stack[i]
  BY <1>1, <1>2, ExceptSeq DEF Become
<1>4. stack' # <<>>
  BY <1>1, <1>3, EmptySeq
<1> QED BY <1>1, <1>3, <1>4 DEF Top

LEMMA AfterCall ==
  ASSUME TypeInv, stack # <<>>, NEW f, NEW g, Call(f, g)
  PROVE  /\ Len(stack) \in 1..Len(stack) /\ Len(stack) \in Nat /\ Len(stack') = Len(stack) + 1
         /\ stack'[Len(stack)] = f /\ stack'[Len(stack) + 1] = g /\ Top' = g /\ stack' # <<>>
         /\ \A k \in 1..Len(stack) : k # Len(stack) => stack'[k] = stack[k]
<1>1. stack \in Seq(GoodFrame) /\ Len(stack) \in 1..Len(stack) /\ Len(stack) \in Nat
  BY EmptySeq, LenProperties DEF TypeInv, StackOK
<1> DEFINE T == GoodFrame \cup {f, g}
           t == [stack EXCEPT ![Len(stack)] = f]
<1>2. stack \in Seq(T)
  BY <1>1, Wider
<1>3. /\ t \in Seq(T) /\ Len(t) = Len(stack)
      /\ \A i \in 1..Len(stack) : t[i] = IF i = Len(stack) THEN f ELSE stack[i]
  BY <1>1, <1>2, ExceptSeq
<1>4. stack' = Append(t, g)
  BY DEF Call
<1> HIDE DEF t
<1>5. /\ stack' \in Seq(T) /\ Len(stack') = Len(t) + 1 /\ stack'[Len(t) + 1] = g
      /\ \A i \in 1..Len(t) : stack'[i] = t[i]
  BY <1>3, <1>4, AppendProperties
<1>6. stack' # <<>>
  BY <1>1, <1>3, <1>5, EmptySeq
<1> QED BY <1>1, <1>3, <1>5, <1>6 DEF Top

LEMMA AfterReturn ==
  ASSUME TypeInv, stack # <<>>, Return
  PROVE  /\ Len(stack) \in 1..Len(stack) /\ Len(stack) \in Nat /\ Len(stack') = Len(stack) - 1
         /\ \A k \in 1..(Len(stack) - 1) : stack'[k] = stack[k]
         /\ stack' # <<>> => Len(stack) - 1 \in 1..(Len(stack) - 1)
                            /\ Top' = stack[Len(stack) - 1]
<1>1. stack \in Seq(GoodFrame) /\ Len(stack) \in 1..Len(stack) /\ Len(stack) \in Nat
  BY EmptySeq, LenProperties DEF TypeInv, StackOK
<1>2. PICK n \in Nat : n = Len(stack) - 1
  BY <1>1
<1>3. stack' = SubSeq(stack, 1, n)
  BY <1>2 DEF Return
<1>4. \A j \in 1..n : stack[j] \in GoodFrame
  BY <1>1, <1>2, ElementOfSeq
<1>5. /\ stack' \in Seq(GoodFrame)
      /\ Len(stack') = IF 1 <= n THEN n - 1 + 1 ELSE 0
      /\ \A i \in 1..(n - 1 + 1) : stack'[i] = stack[1 + i - 1]
  BY <1>2, <1>3, <1>4, SubSeqProperties
<1>6. n - 1 + 1 = n /\ \A i \in 1..n : 1 + i - 1 = i
  BY <1>2
<1>7. Len(stack') = n /\ \A i \in 1..n : stack'[i] = stack[i]
  BY <1>2, <1>5, <1>6
<1>8. stack' # <<>> => n # 0
  BY <1>5, <1>7, EmptySeq
<1> QED BY <1>1, <1>2, <1>7, <1>8 DEF Top

(* The activation of semantic() at the top goes on.                        *)
LEMMA StandMove ==
  ASSUME TypeInv, StandInv, stack # <<>>, NEW d \in Decls, d = Top.d, Top.fn = "semantic",
         Forward, Elsewhere(d), Stands(d)',
         NEW f, f \in KnownFrame', f.fn = "semantic", f.d = d, f.pc # "enter", ~Waits(f),
         Become(f)
  PROVE  StandInv'
<1>1. stack' \in Seq(KnownFrame')
  <2>1. stack \in Seq(KnownFrame')
    BY KnownWider, Wider DEF StandInv
  <2> QED BY <2>1, ReplaceTop DEF Become
<1>2. Chained'
  <2>1. \A k \in 1..(Len(stack) - 1) : k \in 1..Len(stack) /\ k # Len(stack)
          /\ k + 1 \in 1..Len(stack)
    BY AfterBecome
  <2>2. \A x, k : BaseDecl(x, k)' = BaseDecl(x, k)
    BY DEF Forward, BaseDecl
  <2> SUFFICES ASSUME NEW k \in 1..(Len(stack) - 1), Waits(stack[k])
               PROVE  stack'[k + 1].fn = "semantic"
                      /\ stack'[k + 1].d = BaseDecl(stack[k].d, stack[k].b)
    BY <2>1, <2>2, AfterBecome DEF Chained, Waits
  <2>3. stack[k + 1].fn = "semantic" /\ stack[k + 1].d = BaseDecl(stack[k].d, stack[k].b)
    BY DEF StandInv, Chained
  <2> QED BY <2>1, <2>3, AfterBecome DEF Top
<1>3. TopClosed'
  BY AfterBecome DEF TopClosed, Waits
<1>4. Scoped'
  <2>1. f \in Workers(d)
    BY DEF Workers, KnownFrame, GoodFrame
  <2>2. Top' \in Workers(d)
    BY <2>1, AfterBecome
  <2>3. \A x \in Decls : x # d => Held(x)
    BY DEF StandInv, Scoped, Workers
  <2> QED BY <2>2, <2>3, HeldElsewhere, AfterBecome DEF Scoped, Workers
<1> QED BY <1>1, <1>2, <1>3, <1>4, StandsElsewhere DEF StandInv

(* It calls.                                                               *)
LEMMA StandCall ==
  ASSUME TypeInv, StandInv, stack # <<>>, NEW d \in Decls, d = Top.d, Top.fn = "semantic",
         Forward, Elsewhere(d), Stands(d)', Held(d)',
         NEW f, f \in KnownFrame', f.fn = "semantic", f.d = d,
         NEW g, g \in KnownFrame', g.pc = "enter",
         Waits(f) => g.fn = "semantic" /\ g.d = BaseDecl(f.d, f.b),
         Call(f, g)
  PROVE  StandInv'
<1>1. stack' \in Seq(KnownFrame')
  <2>1. stack \in Seq(KnownFrame')
    BY KnownWider, Wider DEF StandInv
  <2> QED BY <2>1, PushOn DEF Call
<1>2. Chained'
  <2>2. \A x, k : BaseDecl(x, k)' = BaseDecl(x, k)
    BY DEF Forward, BaseDecl
  <2> SUFFICES ASSUME NEW k \in 1..Len(stack), Waits(stack'[k])
               PROVE  stack'[k + 1].fn = "semantic"
                      /\ stack'[k + 1].d = BaseDecl(stack'[k].d, stack'[k].b)
    BY <2>2, AfterCall DEF Chained, Waits
  <2>3. CASE k = Len(stack)
    BY <2>3, AfterCall
  <2>4. CASE k # Len(stack)
    <3>1. k \in 1..(Len(stack) - 1) /\ k + 1 \in 1..Len(stack)
      BY <2>4, AfterCall
    <3>2. stack[k + 1].fn = "semantic" /\ stack[k + 1].d = BaseDecl(stack[k].d, stack[k].b)
      BY <2>4, <3>1, AfterCall DEF StandInv, Chained
    <3> QED BY <2>4, <3>1, <3>2, AfterCall DEF Top
  <2> QED BY <2>3, <2>4
<1>3. TopClosed'
  BY AfterCall DEF TopClosed, Waits
<1>4. Scoped'
  <2>3. \A x \in Decls : x # d => Held(x)
    BY DEF StandInv, Scoped, Workers
  <2> QED BY <2>3, HeldElsewhere DEF Scoped
<1> QED BY <1>1, <1>2, <1>3, <1>4, StandsElsewhere DEF StandInv

(* It ends.                                                                *)
LEMMA StandReturn ==
  ASSUME TypeInv, StandInv, stack # <<>>, NEW d \in Decls, d = Top.d, Top.fn = "semantic",
         Forward, Elsewhere(d), Stands(d)', Held(d)', IsStruct(d) \/ ~BasesOpen(d)',
         Return
  PROVE  StandInv'
<1>1. stack' \in Seq(KnownFrame')
  <2>1. stack \in Seq(KnownFrame')
    BY KnownWider, Wider DEF StandInv
  <2> QED BY <2>1, PopOff DEF Return
<1>2. Chained'
  <2>2. \A x, k : BaseDecl(x, k)' = BaseDecl(x, k)
    BY DEF Forward, BaseDecl
  <2> SUFFICES ASSUME NEW k \in 1..(Len(stack) - 1 - 1), Waits(stack[k])
               PROVE  stack'[k + 1].fn = "semantic"
                      /\ stack'[k + 1].d = BaseDecl(stack[k].d, stack[k].b)
    BY <2>2, AfterReturn DEF Chained, Waits
  <2>3. k \in 1..(Len(stack) - 1) /\ k + 1 \in 1..(Len(stack) - 1)
    BY AfterReturn
  <2>4. stack[k + 1].fn = "semantic" /\ stack[k + 1].d = BaseDecl(stack[k].d, stack[k].b)
    BY <2>3 DEF StandInv, Chained
  <2> QED BY <2>3, <2>4, AfterReturn
<1>3. TopClosed'
  <2> SUFFICES ASSUME stack' # <<>>, Waits(Top')
               PROVE  ~BasesOpen(BaseDecl(Top.d, Top.b))'
    BY DEF TopClosed, Waits
  <2>1. PICK n \in 1..(Len(stack) - 1) : n = Len(stack) - 1 /\ Top' = stack[n]
    BY AfterReturn
  <2>2. n + 1 = Len(stack) /\ n \in 1..Len(stack)
    BY <2>1, AfterReturn
  <2>3. BaseDecl(stack[n].d, stack[n].b) = d
    BY <2>1, <2>2 DEF StandInv, Chained, Top
  <2>4. stack[n] \in KnownFrame
    BY <2>2, ElementOfSeq DEF StandInv
  <2>5. ~IsStruct(d)
    BY <2>1, <2>3, <2>4 DEF KnownFrame, Waits
  <2>6. BaseDecl(Top'.d, Top'.b) = d
    BY <2>1, <2>3
  <2>7. BaseDecl(Top.d, Top.b)' = d
    BY <2>6 DEF BaseDecl, Forward
  <2> QED BY <2>5, <2>7 DEF BasesOpen
<1>4. Scoped'
  <2>3. \A x \in Decls : x # d => Held(x)
    BY DEF StandInv, Scoped, Workers
  <2> QED BY <2>3, HeldElsewhere DEF Scoped
<1> QED BY <1>1, <1>2, <1>3, <1>4, StandsElsewhere DEF StandInv

LEMMA GoodSame == ASSUME prog' = prog PROVE GoodFrame' = GoodFrame
  BY DEF GoodFrame, IsClass

LEMMA StandGoto ==
  ASSUME TypeInv, StandInv, stack # <<>>, NEW d \in Decls, d = Top.d, Top.fn = "semantic",
         Forward, Elsewhere(d), Stands(d)',
         NEW pc \in Labels \ {"enter", "based", "ifaced"}, NEW i \in Nat \ {0},
         pc = "base" => IsClass(d), Ready(d, pc)', Goto(pc, i)
  PROVE  StandInv'
<1> DEFINE f == [Top EXCEPT !.pc = pc, !.i = i]
<1>1. Top \in GoodFrame
  BY TopIsGood DEF TypeInv
<1>2. f \in GoodFrame
  BY <1>1, FrameMoves
<1>3. f.fn = "semantic" /\ f.d = d /\ f.pc = pc
  BY <1>1 DEF GoodFrame, ActivationType
<1>4. Become(f)
  BY DEF Goto
<1> HIDE DEF f
<1>5. f \in KnownFrame'
  BY <1>2, <1>3, GoodSame DEF KnownFrame, Forward
<1> QED BY <1>3, <1>4, <1>5, StandMove DEF Waits

(* What is known in an activation of semantic().                           *)
LEMMA InKnown ==
  ASSUME TypeInv, StandInv, NEW pc, At("semantic", pc), pc # "enter"
  PROVE  /\ Ready(Top.d, pc) /\ Stands(Top.d)
         /\ pc \in {"based", "ifaced"} =>
              /\ ~IsStruct(BaseDecl(Top.d, Top.b)) /\ ~BasesOpen(BaseDecl(Top.d, Top.b))
<1>1. stack # <<>> /\ Len(stack) \in 1..Len(stack) /\ Top.d \in Decls
      /\ Top.fn = "semantic" /\ Top.pc = pc
  BY AtSemantic, EmptySeq DEF TypeInv, StackOK
<1>2. Top \in KnownFrame
  BY <1>1, ElementOfSeq DEF StandInv, Top
<1> QED BY <1>1, <1>2 DEF KnownFrame, StandInv, TopClosed, Waits

(* Fields that do not matter here.                                         *)
LEMMA AgForward ==
  ASSUME TypeInv, StandInv, NEW d \in Decls, NEW r, ag' = [ag EXCEPT ![d] = r], prog' = prog,
         r.semanticRun = ag[d].semanticRun \/ r.semanticRun = "done"
           \/ (r.semanticRun = "semantic" /\ ag[d].semanticRun # "done"),
         ag[d].symtab # "none" => r.symtab # "none",
         ag[d].baseok \notin {"none", "in"} => r.baseok \notin {"none", "in"}
  PROVE  Forward /\ Elsewhere(d) /\ ag'[d] = r
  BY DEF TypeInv, AgOK, Forward, Elsewhere

(* Only the scope changes, or nothing does.                                *)
LEMMA ScopeForward ==
  ASSUME TypeInv, StandInv, NEW d \in Decls, NEW v, ag' = [ag EXCEPT ![d].scope = v],
         prog' = prog
  PROVE  /\ Forward /\ Elsewhere(d) /\ Stands(d)' /\ ag'[d].scope = v
         /\ \A pc : Ready(d, pc) => Ready(d, pc)'
<1>1. /\ ag'[d].scope = v /\ ag'[d].semanticRun = ag[d].semanticRun
      /\ ag'[d].symtab = ag[d].symtab /\ ag'[d].baseok = ag[d].baseok
      /\ \A x \in Decls : x # d => ag'[x] = ag[x]
  BY DEF TypeInv, AgOK, AggregateType
<1>2. Forward /\ Elsewhere(d)
  BY <1>1 DEF Forward, Elsewhere
<1>3. Stands(d)'
  BY <1>1 DEF StandInv, Stands, IsStruct, BasesOpen, IsDone
<1> QED BY <1>1, <1>2, <1>3 DEF Ready, IsStruct, BasesOpen

LEMMA SameForward ==
  ASSUME TypeInv, StandInv, NEW d \in Decls, ag' = ag, prog' = prog
  PROVE  /\ Forward /\ Elsewhere(d) /\ Stands(d)'
         /\ \A pc : Ready(d, pc) => Ready(d, pc)'
  BY DEF StandInv, Forward, Elsewhere, Stands, Ready, IsStruct, BasesOpen, IsDone

LEMMA StandBaseType == ASSUME TypeInv, StandInv, SemBaseType PROVE StandInv'
<1>0. /\ stack # <<>> /\ Top.d \in Decls /\ Top.fn = "semantic" /\ Top.pc = "types"
      /\ Top.i \in Nat \ {0} /\ Top.i + 1 \in Nat \ {0} /\ Top \in GoodFrame
      /\ Ready(Top.d, "types") /\ Stands(Top.d)
  BY AtSemantic, InKnown, InActivation DEF SemBaseType
<1> SUFFICES ASSUME NEW d \in Decls, d = Top.d PROVE StandInv'
  BY <1>0
<1>2. PICK k \in 0..Len(prog.bases[d]) : k \in Nat /\ k = BaseList(d)[Top.i]
  <2>1. Top.i \in 1..Len(BaseList(d))
    BY <1>0, FieldTypes DEF SemBaseType
  <2> QED BY <2>1, BaseListElement
<1>3. ASSUME NEW v \in MaybeDecl, ag' = [ag EXCEPT ![d].scope = TRUE], v \in Decls, prog' = prog,
             Call([Top EXCEPT !.pc = "typed", !.b = k, !.scx = TRUE], Searching(v, v))
      PROVE  StandInv'
  <2> DEFINE f == [Top EXCEPT !.pc = "typed", !.b = k, !.scx = TRUE]
             g == Searching(v, v)
  <2>1. f \in GoodFrame /\ g \in GoodFrame
    BY <1>0, <1>2, <1>3, FrameCalls, SearchActivation DEF Labels, MaybeDecl
  <2>2. f.fn = "semantic" /\ f.d = d /\ f.pc = "typed" /\ g.fn = "search" /\ g.pc = "enter"
    BY <1>0 DEF GoodFrame, ActivationType, Searching, Activation
  <2>4. Call(f, g)
    BY <1>3
  <2> HIDE DEF f, g
  <2>5. Forward /\ Elsewhere(d) /\ Stands(d)' /\ Ready(d, "types")' /\ Held(d)'
    BY <1>0, <1>3, ScopeForward DEF Held
  <2>6. Ready(d, "typed")'
    BY <2>5 DEF Ready, EarlyPcs, LatePcs
  <2>3. f \in KnownFrame' /\ g \in KnownFrame'
    BY <2>1, <2>2, <2>5, <2>6, GoodSame DEF KnownFrame, Forward
  <2> QED BY <1>0, <2>2, <2>3, <2>4, <2>5, StandCall DEF Waits
<1>4. ASSUME ag' = [ag EXCEPT ![d].scope = FALSE], prog' = prog,
             Become([Top EXCEPT !.i = Top.i + 1, !.scx = TRUE])
      PROVE  StandInv'
  <2> DEFINE f == [Top EXCEPT !.i = Top.i + 1, !.scx = TRUE]
  <2>1. f \in GoodFrame /\ f.fn = "semantic" /\ f.d = d /\ f.pc = "types"
    BY <1>0, FrameSteps DEF GoodFrame, ActivationType
  <2>4. Become(f)
    BY <1>4
  <2> HIDE DEF f
  <2>5. Forward /\ Elsewhere(d) /\ Stands(d)' /\ Ready(d, "types")'
    BY <1>0, <1>4, ScopeForward
  <2>3. f \in KnownFrame'
    BY <2>1, <2>5, GoodSame DEF KnownFrame, Forward
  <2> QED BY <1>0, <2>1, <2>3, <2>4, <2>5, StandMove DEF Waits
<1>5. PICK v : v = prog.bases[d][k].via
  OBVIOUS
<1>6. k # 0 => v \in MaybeDecl
  BY <1>2, <1>5, BaseDeclType
<1>7. prog' = prog /\
      (\/ /\ ag' = [ag EXCEPT ![d].scope = FALSE]
          /\ Become([Top EXCEPT !.i = Top.i + 1, !.scx = TRUE])
       \/ /\ ag' = [ag EXCEPT ![d].scope = TRUE] /\ k # 0 /\ v # NoDecl
          /\ Call([Top EXCEPT !.pc = "typed", !.b = k, !.scx = TRUE], Searching(v, v)))
  BY <1>2, <1>5 DEF SemBaseType
<1> QED BY <1>3, <1>4, <1>6, <1>7 DEF MaybeDecl

LEMMA StandBaseTyped == ASSUME TypeInv, StandInv, SemBaseTyped PROVE StandInv'
<1>0. /\ stack # <<>> /\ Top.d \in Decls /\ Top.fn = "semantic"
      /\ Top.i \in Nat \ {0} /\ Top.i + 1 \in Nat \ {0}
      /\ Ready(Top.d, "typed") /\ Stands(Top.d)
  BY AtSemantic, InKnown DEF SemBaseTyped
<1> SUFFICES ASSUME NEW d \in Decls, d = Top.d PROVE StandInv'
  BY <1>0
<1>1. ag' = [ag EXCEPT ![d].scope = FALSE] /\ prog' = prog /\ Goto("types", Top.i + 1)
  BY DEF SemBaseTyped
<1>2. /\ Forward /\ Elsewhere(d) /\ Stands(d)' /\ Ready(d, "typed")'
  BY <1>0, <1>1, ScopeForward
<1>3. Ready(d, "types")'
  BY <1>2 DEF Ready, EarlyPcs, LatePcs
<1> QED BY <1>0, <1>1, <1>2, <1>3, StandGoto DEF Labels

LEMMA StandTypesResolved == ASSUME TypeInv, StandInv, SemTypesResolved PROVE StandInv'
<1>0. /\ stack # <<>> /\ Top.d \in Decls /\ Top.fn = "semantic"
      /\ Ready(Top.d, "types") /\ Stands(Top.d)
  BY AtSemantic, InKnown DEF SemTypesResolved
<1> SUFFICES ASSUME NEW d \in Decls, d = Top.d PROVE StandInv'
  BY <1>0
<1>1. Forward /\ Elsewhere(d) /\ Stands(d)' /\ UNCHANGED <<ag, prog>>
  BY <1>0 DEF SemTypesResolved, Forward, Elsewhere, Stands, IsStruct, BasesOpen, IsDone
<1>2. CASE BasesOpen(d)
  <2>1. Ready(d, "base")' /\ Ready(d, "ifaces")'
    BY <1>0, <1>1 DEF Ready, EarlyPcs, LatePcs, IsStruct, BasesOpen
  <2>2. CASE IsClass(d) /\ Goto("base", 1)
    BY <1>0, <1>1, <2>1, <2>2, StandGoto DEF Labels
  <2>3. CASE Goto("ifaces", 1)
    BY <1>0, <1>1, <2>1, <2>3, StandGoto DEF Labels
  <2> QED BY <1>2, <2>2, <2>3 DEF SemTypesResolved
<1>3. CASE ~BasesOpen(d) /\ IsDone(d)
  <2>1. Return /\ Held(d)' /\ ~BasesOpen(d)'
    BY <1>1, <1>3 DEF SemTypesResolved, Held, IsDone, BasesOpen
  <2> QED BY <1>0, <1>1, <2>1, StandReturn
<1>4. CASE ~BasesOpen(d) /\ ~IsDone(d)
  <2>1. Goto("symtab", 1) /\ Ready(d, "symtab")'
    BY <1>0, <1>1, <1>4 DEF SemTypesResolved, Ready, EarlyPcs, LatePcs, BasesOpen
  <2> QED BY <1>0, <1>1, <2>1, StandGoto DEF Labels
<1> QED BY <1>2, <1>3, <1>4

(* Neither the pass, nor the symbol table, nor baseok changes.             *)
LEMMA RestForward ==
  ASSUME TypeInv, StandInv, NEW d \in Decls, prog' = prog,
         ag'[d].semanticRun = ag[d].semanticRun, ag'[d].symtab = ag[d].symtab,
         ag'[d].baseok = ag[d].baseok, \A x \in Decls : x # d => ag'[x] = ag[x]
  PROVE  /\ Forward /\ Elsewhere(d) /\ Stands(d)'
         /\ \A pc : Ready(d, pc) => Ready(d, pc)'
<1>2. Forward /\ Elsewhere(d)
  BY DEF Forward, Elsewhere
<1>3. Stands(d)'
  BY DEF StandInv, Stands, IsStruct, BasesOpen, IsDone
<1> QED BY <1>2, <1>3 DEF Ready, IsStruct, BasesOpen

(* Resolving the bases: from one label of the loops to the next.           *)
LEMMA ReadyEarly ==
  ASSUME NEW d, NEW pc \in EarlyPcs, Ready(d, pc)
  PROVE  \A q \in EarlyPcs : Ready(d, q)
  BY DEF Ready, EarlyPcs, LatePcs

LEMMA StandNoBaseClass ==
  ASSUME TypeInv, StandInv, SemNoBaseClass \/ SemCircularBase
  PROVE  StandInv'
<1>0. /\ stack # <<>> /\ Top.d \in Decls /\ Top.fn = "semantic"
      /\ Ready(Top.d, "base") /\ Stands(Top.d)
  BY AtSemantic, InKnown DEF SemNoBaseClass, SemCircularBase
<1> SUFFICES ASSUME NEW d \in Decls, d = Top.d PROVE StandInv'
  BY <1>0
<1>1. prog' = prog /\ Goto("ifaces", FirstIface(d))
      /\ (ag' = ag \/ \E v : ag' = [ag EXCEPT ![d].baseclasses = v])
  BY DEF SemNoBaseClass, SemCircularBase, DropBase
<1>2. /\ ag'[d].semanticRun = ag[d].semanticRun /\ ag'[d].symtab = ag[d].symtab
      /\ ag'[d].baseok = ag[d].baseok /\ \A x \in Decls : x # d => ag'[x] = ag[x]
  <2>1. ASSUME NEW v, ag' = [ag EXCEPT ![d].baseclasses = v]
        PROVE  /\ ag'[d].semanticRun = ag[d].semanticRun /\ ag'[d].symtab = ag[d].symtab
               /\ ag'[d].baseok = ag[d].baseok
               /\ \A x \in Decls : x # d => ag'[x] = ag[x]
    BY <2>1 DEF TypeInv, AgOK, AggregateType
  <2> QED BY <1>1, <2>1
<1>3. /\ Forward /\ Elsewhere(d) /\ Stands(d)' /\ Ready(d, "base")'
  BY <1>0, <1>1, <1>2, RestForward
<1>4. Ready(d, "ifaces")'
  BY <1>3 DEF Ready, EarlyPcs, LatePcs
<1> QED BY <1>0, <1>1, <1>3, <1>4, StandGoto DEF Labels, FirstIface

LEMMA StandDropIface == ASSUME TypeInv, StandInv, SemDropIface PROVE StandInv'
<1>0. /\ stack # <<>> /\ Top.d \in Decls /\ Top.fn = "semantic" /\ Top.i \in Nat \ {0}
      /\ Ready(Top.d, "ifaces") /\ Stands(Top.d)
  BY AtSemantic, InKnown DEF SemDropIface
<1> SUFFICES ASSUME NEW d \in Decls, d = Top.d PROVE StandInv'
  BY <1>0
<1>1. prog' = prog /\ Goto("ifaces", Top.i) /\ \E v : ag' = [ag EXCEPT ![d].baseclasses = v]
  BY DEF SemDropIface, DropBase
<1>2. /\ ag'[d].semanticRun = ag[d].semanticRun /\ ag'[d].symtab = ag[d].symtab
      /\ ag'[d].baseok = ag[d].baseok /\ \A x \in Decls : x # d => ag'[x] = ag[x]
  BY <1>1 DEF TypeInv, AgOK, AggregateType
<1>3. /\ Forward /\ Elsewhere(d) /\ Stands(d)' /\ Ready(d, "ifaces")'
  BY <1>0, <1>1, <1>2, RestForward
<1> QED BY <1>0, <1>1, <1>3, StandGoto DEF Labels

(* A call of resolveBase().                                                *)
LEMMA StandResolve ==
  ASSUME TypeInv, StandInv, stack # <<>>, NEW d \in Decls, d = Top.d, Top.fn = "semantic",
         Forward, Elsewhere(d), Stands(d)', ag'[d].scope,
         NEW pc \in {"based", "ifaced"}, Ready(d, pc)',
         NEW k \in 0..Len(prog.bases[d]), k \in Nat, ~IsStruct(BaseDecl(d, k)),
         Call([Top EXCEPT !.pc = pc, !.b = k, !.scx = TRUE],
              Activation("semantic", BaseDecl(d, k), FALSE))
  PROVE  StandInv'
<1> DEFINE f == [Top EXCEPT !.pc = pc, !.b = k, !.scx = TRUE]
           g == Activation("semantic", BaseDecl(d, k), FALSE)
<1>0. Top \in GoodFrame
  BY TopIsGood DEF TypeInv
<1>1. f \in GoodFrame /\ g \in GoodFrame
  <2>1. BaseDecl(d, k) \in Decls
    BY BaseDeclType
  <2> QED BY <1>0, <2>1, FrameCalls, SemanticActivation DEF Labels
<1>2. /\ f.fn = "semantic" /\ f.d = d /\ f.pc = pc /\ f.b = k
      /\ g.fn = "semantic" /\ g.pc = "enter" /\ g.d = BaseDecl(d, k)
  BY <1>0 DEF GoodFrame, ActivationType, Activation
<1>3. Call(f, g)
  OBVIOUS
<1> HIDE DEF f, g
<1>4. (~IsStruct(BaseDecl(d, k)))'
  BY DEF Forward, IsStruct, BaseDecl
<1>5. f \in KnownFrame' /\ g \in KnownFrame'
  BY <1>1, <1>2, <1>4, GoodSame DEF KnownFrame, Forward
<1>6. Held(d)'
  BY DEF Held
<1> QED BY <1>2, <1>3, <1>5, <1>6, StandCall DEF Waits

LEMMA StandBaseClass == ASSUME TypeInv, StandInv, SemBaseClass PROVE StandInv'
<1>0. /\ stack # <<>> /\ Top.d \in Decls /\ Top.fn = "semantic"
      /\ Ready(Top.d, "base") /\ Stands(Top.d)
  BY AtSemantic, InKnown DEF SemBaseClass
<1> SUFFICES ASSUME NEW d \in Decls, d = Top.d PROVE StandInv'
  BY <1>0
<1>1. PICK k \in 0..Len(prog.bases[d]) : k \in Nat /\ k = BaseList(d)[1]
  <2>1. BaseList(d) # <<>>
    BY DEF SemBaseClass, FirstKind
  <2>2. 1 \in 1..Len(BaseList(d))
    BY <2>1, FieldTypes, EmptySeq
  <2> QED BY <2>2, BaseListElement
<1>2. ~IsStruct(BaseDecl(d, k))
  BY <1>1 DEF SemBaseClass, FirstKind, KindOf, IsStruct
<1>3. PICK c \in Decls : c = BaseDecl(d, k)
  BY <1>1, BaseDeclType
<1>4. prog' = prog /\
      (\/ /\ ag' = [ag EXCEPT ![d].baseClass = c, ![d].scope = TRUE]
          /\ Call([Top EXCEPT !.pc = "based", !.b = k, !.scx = TRUE],
                  Activation("semantic", c, FALSE))
       \/ ag' = [ag EXCEPT ![d].baseClass = c] /\ Goto("ifaces", 2))
  BY <1>1, <1>3 DEF SemBaseClass
<1>5. /\ ag'[d].semanticRun = ag[d].semanticRun /\ ag'[d].symtab = ag[d].symtab
      /\ ag'[d].baseok = ag[d].baseok /\ \A x \in Decls : x # d => ag'[x] = ag[x]
      /\ ag' = [ag EXCEPT ![d].baseClass = c, ![d].scope = TRUE] => ag'[d].scope
  <2>1. CASE ag' = [ag EXCEPT ![d].baseClass = c]
    <3>1. /\ ag'[d].semanticRun = ag[d].semanticRun /\ ag'[d].symtab = ag[d].symtab
          /\ ag'[d].baseok = ag[d].baseok /\ \A x \in Decls : x # d => ag'[x] = ag[x]
      BY <2>1 DEF TypeInv, AgOK, AggregateType
    <3>2. CASE ag' = [ag EXCEPT ![d].baseClass = c, ![d].scope = TRUE]
      BY <3>2 DEF TypeInv, AgOK, AggregateType
    <3> QED BY <3>1, <3>2
  <2>2. CASE ag' = [ag EXCEPT ![d].baseClass = c, ![d].scope = TRUE]
    BY <2>2 DEF TypeInv, AgOK, AggregateType
  <2> QED BY <1>4, <2>1, <2>2
<1>6. /\ Forward /\ Elsewhere(d) /\ Stands(d)' /\ Ready(d, "base")'
  BY <1>0, <1>4, <1>5, RestForward
<1>7. Ready(d, "ifaces")' /\ Ready(d, "based")'
  BY <1>6 DEF Ready, EarlyPcs, LatePcs
<1>8. CASE Goto("ifaces", 2)
  BY <1>0, <1>6, <1>7, <1>8, StandGoto DEF Labels
<1>9. CASE /\ ag' = [ag EXCEPT ![d].baseClass = c, ![d].scope = TRUE]
           /\ Call([Top EXCEPT !.pc = "based", !.b = k, !.scx = TRUE],
                   Activation("semantic", c, FALSE))
  BY <1>0, <1>1, <1>2, <1>3, <1>5, <1>6, <1>7, <1>9, StandResolve
<1> QED BY <1>4, <1>8, <1>9

LEMMA StandIface == ASSUME TypeInv, StandInv, SemIface PROVE StandInv'
<1>0. /\ stack # <<>> /\ Top.d \in Decls /\ Top.fn = "semantic"
      /\ Top.i \in Nat \ {0} /\ Top.i + 1 \in Nat \ {0}
      /\ Ready(Top.d, "ifaces") /\ Stands(Top.d)
  BY AtSemantic, InKnown DEF SemIface
<1> SUFFICES ASSUME NEW d \in Decls, d = Top.d PROVE StandInv'
  BY <1>0
<1>1. PICK k \in 0..Len(prog.bases[d]) : k \in Nat /\ k = BaseList(d)[Top.i]
  <2>2. Top.i \in 1..Len(BaseList(d))
    BY <1>0, FieldTypes DEF SemIface
  <2> QED BY <2>2, BaseListElement
<1>2. ~IsStruct(BaseDecl(d, k))
  BY <1>1 DEF SemIface, IsIfaceBase, KindOf, IsStruct
<1>3. PICK c \in Decls : c = BaseDecl(d, k)
  BY <1>1, BaseDeclType
<1>4. /\ prog' = prog
      /\ \E l : ag' = [ag EXCEPT ![d].baseclasses = l, ![d].scope = BasesOpen(c)]
      /\ IF BasesOpen(c)
         THEN Call([Top EXCEPT !.pc = "ifaced", !.b = k, !.scx = TRUE],
                   Activation("semantic", c, FALSE))
         ELSE Goto("ifaces", Top.i + 1)
  BY <1>1, <1>3, Zenon DEF SemIface
<1>5. PICK l : ag' = [ag EXCEPT ![d].baseclasses = l, ![d].scope = BasesOpen(c)]
  BY <1>4
<1>6. /\ ag'[d].semanticRun = ag[d].semanticRun /\ ag'[d].symtab = ag[d].symtab
      /\ ag'[d].baseok = ag[d].baseok /\ \A x \in Decls : x # d => ag'[x] = ag[x]
      /\ ag'[d].scope = BasesOpen(c)
  <2>1. PICK o : o = BasesOpen(c)
    OBVIOUS
  <2>2. ag' = [ag EXCEPT ![d].baseclasses = l, ![d].scope = o]
    BY <1>5, <2>1
  <2>3. /\ ag'[d].semanticRun = ag[d].semanticRun /\ ag'[d].symtab = ag[d].symtab
        /\ ag'[d].baseok = ag[d].baseok /\ \A x \in Decls : x # d => ag'[x] = ag[x]
        /\ ag'[d].scope = o
    BY <2>2 DEF TypeInv, AgOK, AggregateType
  <2> QED BY <2>1, <2>3
<1>7. /\ Forward /\ Elsewhere(d) /\ Stands(d)' /\ Ready(d, "ifaces")'
  BY <1>0, <1>4, <1>6, RestForward
<1>8. Ready(d, "ifaced")'
  BY <1>7 DEF Ready, EarlyPcs, LatePcs
<1>9. CASE ~BasesOpen(c)
  BY <1>0, <1>4, <1>7, <1>9, StandGoto DEF Labels
<1>10. CASE BasesOpen(c)
  BY <1>0, <1>1, <1>2, <1>3, <1>4, <1>6, <1>7, <1>8, <1>10, StandResolve
<1> QED BY <1>9, <1>10

(* Back from resolveBase(): the base is never open.                        *)
LEMMA StandBaseResolved == ASSUME TypeInv, StandInv, SemBaseResolved PROVE StandInv'
<1>0. /\ stack # <<>> /\ Top.d \in Decls /\ Top.fn = "semantic"
      /\ Top.i \in Nat \ {0} /\ Top.i + 1 \in Nat \ {0}
      /\ (Ready(Top.d, "based") \/ Ready(Top.d, "ifaced")) /\ Stands(Top.d)
      /\ ~BasesOpen(BaseDecl(Top.d, Top.b))
  BY AtSemantic, InKnown DEF SemBaseResolved
<1> SUFFICES ASSUME NEW d \in Decls, d = Top.d PROVE StandInv'
  BY <1>0
<1>1. /\ prog' = prog /\ (Goto("ifaces", 2) \/ Goto("ifaces", Top.i + 1))
      /\ ag' = [ag EXCEPT ![d].scope = FALSE, ![d].baseok = ag[d].baseok]
  BY <1>0 DEF SemBaseResolved, TypeInv, AgOK, AggregateType
<1>2. /\ ag'[d].semanticRun = ag[d].semanticRun /\ ag'[d].symtab = ag[d].symtab
      /\ ag'[d].baseok = ag[d].baseok /\ \A x \in Decls : x # d => ag'[x] = ag[x]
  BY <1>1 DEF TypeInv, AgOK, AggregateType
<1>3. /\ Forward /\ Elsewhere(d) /\ Stands(d)' /\ (Ready(d, "based")' \/ Ready(d, "ifaced")')
  BY <1>0, <1>1, <1>2, RestForward
<1>4. Ready(d, "ifaces")'
  BY <1>3 DEF Ready, EarlyPcs, LatePcs
<1> QED BY <1>0, <1>1, <1>3, <1>4, StandGoto DEF Labels

(* Only the driver's phase, the errors and the like change.                *)
LEMMA StandStops ==
  ASSUME TypeInv, StandInv, UNCHANGED <<prog, ag, stack>>
  PROVE  StandInv'
<1>1. Forward
  BY DEF Forward
<1>2. stack' \in Seq(KnownFrame')
  BY <1>1, KnownWider, Wider DEF StandInv
<1>3. \A x : Workers(x)' = Workers(x) /\ Top' = Top
  BY DEF Workers, Top
<1> QED BY <1>2, <1>3 DEF StandInv, Stands, IsStruct, BasesOpen, IsDone, Chained, TopClosed, Scoped,
     Held, BaseDecl

(* Every base has been resolved.                                           *)
LEMMA StandBasesDone == ASSUME TypeInv, StandInv, SemBasesDone PROVE StandInv'
<1>0. /\ stack # <<>> /\ Top.d \in Decls /\ Top.fn = "semantic"
      /\ Ready(Top.d, "ifaces") /\ Stands(Top.d)
  BY AtSemantic, InKnown DEF SemBasesDone
<1> SUFFICES ASSUME NEW d \in Decls, d = Top.d PROVE StandInv'
  BY <1>0
<1>1. ag[d].baseok # "none"
  BY <1>0 DEF Ready, Stands, EarlyPcs
<1>2. CASE UNCHANGED <<prog, ag, stack>>
  BY <1>2, StandStops
<1>3. ASSUME NEW c, NEW l, prog' = prog, Goto("symtab", 1),
             ag' = [ag EXCEPT ![d].baseok = "done", ![d].baseClass = c, ![d].baseclasses = l]
      PROVE  StandInv'
  <2>1. /\ ag'[d].semanticRun = ag[d].semanticRun /\ ag'[d].symtab = ag[d].symtab
        /\ ag'[d].baseok = "done" /\ \A x \in Decls : x # d => ag'[x] = ag[x]
    BY <1>3 DEF TypeInv, AgOK, AggregateType
  <2>2. Forward /\ Elsewhere(d)
    BY <1>3, <2>1 DEF Forward, Elsewhere
  <2>3. Stands(d)'
    BY <2>1 DEF Stands, BasesOpen
  <2>4. Ready(d, "symtab")'
    BY <1>0, <2>1 DEF Ready, EarlyPcs, LatePcs, BasesOpen
  <2> QED BY <1>0, <1>3, <2>2, <2>3, <2>4, StandGoto DEF Labels
<1> QED
  <2>1. \/ UNCHANGED <<prog, ag, stack>>
        \/ /\ prog' = prog /\ Goto("symtab", 1)
           /\ \E c, l : ag' = [ag EXCEPT ![d].baseok = "done", ![d].baseClass = c,
                                        ![d].baseclasses = l]
    BY <1>1 DEF SemBasesDone, Crash
  <2> QED BY <1>2, <1>3, <2>1

(* An activation of semantic() is never without a scope.                   *)
LEMMA NeverScopeless ==
  ASSUME TypeInv, StandInv, SemEnter PROVE ~Crash
<1>1. stack # <<>> /\ Top.d \in Decls /\ Top.pc = "enter"
  BY AtSemantic DEF SemEnter
<1>2. Held(Top.d)
  BY <1>1 DEF StandInv, Scoped, Workers
<1>3. phase \in {"semantic", "deferred"} /\ ~EarlyReturn(Top.d)
  BY DEF SemEnter, At
<1>4. ag[Top.d].scope
  BY <1>2, <1>3 DEF Held, EarlyReturn
<1>5. phase' = phase
  BY <1>4 DEF SemEnter
<1> QED BY <1>3, <1>5 DEF Crash

LEMMA StandEnter == ASSUME TypeInv, StandInv, SemEnter PROVE StandInv'
<1>0. /\ stack # <<>> /\ Top.d \in Decls /\ Top.fn = "semantic" /\ Top \in GoodFrame
  BY AtSemantic, InActivation DEF SemEnter
<1> SUFFICES ASSUME NEW d \in Decls, d = Top.d PROVE StandInv'
  BY <1>0
<1> DEFINE open == ~IsStruct(d) /\ BasesOpen(d)
<1>1. PICK pc, o : /\ pc = IF open THEN "types" ELSE "symtab"
                   /\ o = IF open THEN "in" ELSE ag[d].baseok
  OBVIOUS
<1> DEFINE f == [Top EXCEPT !.sc = TRUE, !.scx = ag[d].scope, !.pc = pc]
<1>2. /\ prog' = prog /\ Become(f) /\ ~EarlyReturn(d)
      /\ ag' = [ag EXCEPT ![d].scope = FALSE, ![d].semanticRun = "semantic", ![d].baseok = o]
  BY <1>0, <1>1, NeverScopeless DEF SemEnter, TypeInv, AgOK, AggregateType
<1>3. f \in GoodFrame /\ f.fn = "semantic" /\ f.d = d /\ f.pc = pc
  <2>1. ag[d].scope \in BOOLEAN
    BY FieldTypes
  <2>2. pc \in Labels \ {"base"}
    BY <1>1 DEF Labels
  <2>3. f \in GoodFrame
    BY <1>0, <2>1, <2>2, FrameEnters
  <2> QED BY <1>0, <2>3 DEF GoodFrame, ActivationType
<1>4. PICK g : g = f
  OBVIOUS
<1>5. /\ ag'[d].semanticRun = "semantic" /\ ag'[d].symtab = ag[d].symtab
      /\ ag'[d].baseok = o /\ \A x \in Decls : x # d => ag'[x] = ag[x]
  BY <1>2 DEF TypeInv, AgOK, AggregateType
<1>6. ag[d].semanticRun # "done"
  BY <1>2 DEF EarlyReturn, IsDone
<1>7. \/ pc = "types" /\ o = "in" /\ BasesOpen(d) /\ ~IsStruct(d)
      \/ pc = "symtab" /\ o = ag[d].baseok /\ (IsStruct(d) \/ ~BasesOpen(d))
  BY <1>1
<1>8. Forward /\ Elsewhere(d)
  BY <1>2, <1>5, <1>6, <1>7 DEF Forward, Elsewhere, BasesOpen
<1>9. Stands(d)'
  BY <1>2, <1>5, <1>7 DEF StandInv, Stands, BasesOpen, IsDone, IsStruct
<1>10. Ready(d, pc)'
  BY <1>2, <1>5, <1>7 DEF Ready, EarlyPcs, LatePcs, IsStruct, BasesOpen
<1> HIDE DEF f
<1>11. g \in KnownFrame'
  BY <1>3, <1>4, <1>7, <1>8, <1>10, GoodSame DEF KnownFrame, Forward
<1> QED BY <1>0, <1>2, <1>3, <1>4, <1>7, <1>8, <1>9, <1>11, StandMove DEF Waits

LEMMA StandReturnAtOnce == ASSUME TypeInv, StandInv, SemReturnAtOnce PROVE StandInv'
<1>0. /\ stack # <<>> /\ Top.d \in Decls /\ Top.fn = "semantic" /\ Stands(Top.d)
  BY AtSemantic DEF SemReturnAtOnce, StandInv
<1> SUFFICES ASSUME NEW d \in Decls, d = Top.d PROVE StandInv'
  BY <1>0
<1>1. /\ prog' = prog /\ Return /\ EarlyReturn(d)
      /\ (ag' = ag \/ (IsIface(d) /\ ag' = [ag EXCEPT ![d].semanticRun = "done"]))
  BY DEF SemReturnAtOnce
<1>2. /\ (ag'[d].semanticRun = ag[d].semanticRun \/ ag'[d].semanticRun = "done")
      /\ ag'[d].symtab = ag[d].symtab /\ ag'[d].scope = ag[d].scope
      /\ ag'[d].baseok = ag[d].baseok /\ \A x \in Decls : x # d => ag'[x] = ag[x]
  BY <1>1 DEF TypeInv, AgOK, AggregateType
<1>3. IsStruct(d) \/ ~BasesOpen(d)
  BY <1>0, <1>1 DEF EarlyReturn, Stands
<1>4. Forward /\ Elsewhere(d)
  BY <1>1, <1>2 DEF Forward, Elsewhere, EarlyReturn, IsDone
<1>5. Stands(d)' /\ Held(d)' /\ (IsStruct(d) \/ ~BasesOpen(d)')
  BY <1>1, <1>2, <1>3 DEF Stands, Held, EarlyReturn, IsDone, BasesOpen, IsStruct
<1> QED BY <1>0, <1>1, <1>4, <1>5, StandReturn

(* The members: neither the pass nor baseok changes before the end.        *)
LEMMA StandLate ==
  ASSUME TypeInv, StandInv, SemMethod \/ SemField \/ SemLookedUp
  PROVE  StandInv'
<1>0. /\ stack # <<>> /\ Top.d \in Decls /\ Top.fn = "semantic"
      /\ Top.i \in Nat \ {0} /\ Top.i + 1 \in Nat \ {0}
      /\ (Ready(Top.d, "members") \/ Ready(Top.d, "looked"))
  BY AtSemantic, InKnown DEF SemMethod, SemField, SemLookedUp
<1> SUFFICES ASSUME NEW d \in Decls, d = Top.d PROVE StandInv'
  BY <1>0
<1>1. /\ prog' = prog /\ Goto("members", Top.i + 1)
      /\ (ag' = ag \/ \E v : ag' = [ag EXCEPT ![d].vtbl = v])
  BY DEF SemMethod, SemField, SemLookedUp
<1>2. /\ ag'[d].semanticRun = ag[d].semanticRun /\ ag'[d].symtab = ag[d].symtab
      /\ ag'[d].baseok = ag[d].baseok /\ \A x \in Decls : x # d => ag'[x] = ag[x]
  <2>1. ASSUME NEW v, ag' = [ag EXCEPT ![d].vtbl = v]
        PROVE  /\ ag'[d].semanticRun = ag[d].semanticRun /\ ag'[d].symtab = ag[d].symtab
               /\ ag'[d].baseok = ag[d].baseok
               /\ \A x \in Decls : x # d => ag'[x] = ag[x]
    BY <2>1 DEF TypeInv, AgOK, AggregateType
  <2> QED BY <1>1, <2>1
<1>3. /\ Forward /\ Elsewhere(d) /\ Stands(d)'
      /\ (Ready(d, "members")' \/ Ready(d, "looked")')
  BY <1>0, <1>1, <1>2, RestForward
<1>4. Ready(d, "members")'
  BY <1>3 DEF Ready, EarlyPcs, LatePcs
<1> QED BY <1>0, <1>1, <1>3, <1>4, StandGoto DEF Labels

LEMMA StandSymtab == ASSUME TypeInv, StandInv, SemSymtab PROVE StandInv'
<1>0. /\ stack # <<>> /\ Top.d \in Decls /\ Top.fn = "semantic"
      /\ Ready(Top.d, "symtab") /\ Stands(Top.d)
  BY AtSemantic, InKnown DEF SemSymtab
<1> SUFFICES ASSUME NEW d \in Decls, d = Top.d PROVE StandInv'
  BY <1>0
<1>1. prog' = prog /\ (IsStruct(d) \/ ~BasesOpen(d))
  BY <1>0 DEF SemSymtab, Ready
<1>2. CASE Return /\ ag' = [ag EXCEPT ![d].semanticRun = "done"]
  <2>1. /\ ag'[d].semanticRun = "done" /\ ag'[d].symtab = ag[d].symtab
        /\ ag'[d].baseok = ag[d].baseok /\ \A x \in Decls : x # d => ag'[x] = ag[x]
    BY <1>2 DEF TypeInv, AgOK, AggregateType
  <2>2. Forward /\ Elsewhere(d)
    BY <1>1, <2>1 DEF Forward, Elsewhere
  <2>3. Stands(d)' /\ Held(d)' /\ (IsStruct(d) \/ ~BasesOpen(d)')
    BY <1>1, <2>1 DEF Stands, Held, IsDone, BasesOpen, IsStruct
  <2> QED BY <1>0, <1>2, <2>2, <2>3, StandReturn
<1>3. ASSUME NEW v, NEW pc \in {"members", "ancestors"}, v # "none", Goto(pc, 1),
             ag' = [ag EXCEPT ![d].symtab = v]
      PROVE  StandInv'
  <2>1. /\ ag'[d].semanticRun = ag[d].semanticRun /\ ag'[d].symtab = v
        /\ ag'[d].baseok = ag[d].baseok /\ \A x \in Decls : x # d => ag'[x] = ag[x]
    BY <1>3 DEF TypeInv, AgOK, AggregateType
  <2>2. Forward /\ Elsewhere(d)
    BY <1>1, <1>3, <2>1 DEF Forward, Elsewhere
  <2>3. Stands(d)'
    BY <1>0, <1>1, <2>1 DEF Stands, Ready, IsDone, BasesOpen, IsStruct
  <2>4. Ready(d, pc)'
    BY <1>0, <1>1, <1>3, <2>1 DEF Ready, BasesOpen, IsStruct, EarlyPcs, LatePcs
  <2> QED BY <1>0, <1>3, <2>2, <2>3, <2>4, StandGoto DEF Labels
<1> QED
  <2>1. PICK v : v = IF ag[d].symtab # "none" THEN ag[d].symtab
                     ELSE IF IsIface(d) THEN "empty" ELSE "full"
    OBVIOUS
  <2>2. v # "none"
    BY <2>1
  <2>3. \/ Return /\ ag' = [ag EXCEPT ![d].semanticRun = "done"]
        \/ /\ Goto("members", 1) \/ Goto("ancestors", 1)
           /\ ag' = [ag EXCEPT ![d].symtab = v]
    BY <2>1 DEF SemSymtab, TypeInv, AgOK, AggregateType
  <2> QED BY <1>2, <1>3, <2>2, <2>3

LEMMA StandVtbl == ASSUME TypeInv, StandInv, SemVtbl PROVE StandInv'
<1>0. /\ stack # <<>> /\ Top.d \in Decls /\ Top.fn = "semantic"
      /\ Ready(Top.d, "ancestors") /\ Stands(Top.d)
  BY AtSemantic, InKnown DEF SemVtbl
<1> SUFFICES ASSUME NEW d \in Decls, d = Top.d PROVE StandInv'
  BY <1>0
<1>1. PICK ok, table :
        /\ prog' = prog /\ Goto("members", 1)
        /\ ok = IF ag[d].baseok = "done" THEN "semanticdone" ELSE ag[d].baseok
        /\ ag' = [ag EXCEPT ![d].vtbl = table, ![d].baseok = ok, ![d].symtab = "full"]
  <2>1. PICK table : table = IF ag[d].baseok = "done" THEN InheritedVtbl(d) ELSE ag[d].vtbl
    OBVIOUS
  <2> QED BY <2>1 DEF SemVtbl, TypeInv, AgOK, AggregateType
<1>2. /\ ag'[d].semanticRun = ag[d].semanticRun /\ ag'[d].symtab = "full"
      /\ ag'[d].baseok = ok /\ \A x \in Decls : x # d => ag'[x] = ag[x]
  BY <1>1 DEF TypeInv, AgOK, AggregateType
<1>3. Forward /\ Elsewhere(d) /\ Stands(d)'
  <2>1. ag[d].baseok \notin {"none", "in"} => ok \notin {"none", "in"}
    BY <1>1
  <2>2. Forward /\ Elsewhere(d)
    BY <1>1, <1>2, <2>1 DEF Forward, Elsewhere
  <2>3. IsStruct(d) \/ ~BasesOpen(d)
    BY <1>0 DEF Ready, LatePcs
  <2>4. Stands(d)'
    BY <1>1, <1>2, <2>1, <2>3 DEF Stands, BasesOpen, IsStruct
  <2> QED BY <2>2, <2>4
<1>4. Ready(d, "members")'
  BY <1>0, <1>1, <1>2 DEF Ready, BasesOpen, IsStruct, EarlyPcs, LatePcs
<1> QED BY <1>0, <1>1, <1>3, <1>4, StandGoto DEF Labels

(* The ends.                                                               *)
LEMMA StandEnd ==
  ASSUME TypeInv, StandInv, stack # <<>>, NEW d \in Decls, d = Top.d, Top.fn = "semantic",
         IsStruct(d) \/ ~BasesOpen(d), ag[d].symtab # "none", prog' = prog, Return,
         \A x \in Decls : x # d => ag'[x] = ag[x], ag'[d].symtab = ag[d].symtab,
         ag'[d].baseok = ag[d].baseok,
         ag'[d].semanticRun = "done"
           \/ (ag'[d].scope /\ ag'[d].semanticRun = ag[d].semanticRun)
  PROVE  StandInv'
<1>1. Forward /\ Elsewhere(d)
  BY DEF Forward, Elsewhere
<1>2. Stands(d)' /\ Held(d)' /\ (IsStruct(d) \/ ~BasesOpen(d)')
  BY DEF Stands, Held, IsDone, BasesOpen, IsStruct
<1> QED BY <1>1, <1>2, StandReturn

LEMMA StandEnds ==
  ASSUME TypeInv, StandInv,
         SemAncestorsForward \/ SemOwnField \/ SemFieldsForward \/ SemFinish
  PROVE  StandInv'
<1>0. /\ stack # <<>> /\ Top.d \in Decls /\ Top.fn = "semantic"
      /\ (Ready(Top.d, "ancestors") \/ Ready(Top.d, "members"))
  BY AtSemantic, InKnown DEF SemAncestorsForward, SemOwnField, SemFieldsForward, SemFinish
<1> SUFFICES ASSUME NEW d \in Decls, d = Top.d PROVE StandInv'
  BY <1>0
<1>1. (IsStruct(d) \/ ~BasesOpen(d)) /\ ag[d].symtab # "none"
  BY <1>0 DEF Ready, LatePcs
<1>2. /\ prog' = prog /\ Return
      /\ \/ ag' = [ag EXCEPT ![d].scope = TRUE]
         \/ ag' = [ag EXCEPT ![d].semanticRun = "done", ![d].bad = TRUE, ![d].membersRun = TRUE]
         \/ ag' = [ag EXCEPT ![d].scope = TRUE, ![d].membersRun = TRUE]
         \/ \E v : ag' = [ag EXCEPT ![d].semanticRun = "done", ![d].membersRun = TRUE, ![d].bad = v]
  <2>1. CASE SemAncestorsForward
    BY <2>1 DEF SemAncestorsForward, Postpone
  <2>2. CASE SemOwnField
    BY <2>2 DEF SemOwnField
  <2>3. CASE SemFieldsForward
    BY <2>3 DEF SemFieldsForward
  <2>4. CASE SemFinish
    <3>1. \E v : ag' = [ag EXCEPT ![Top.d].semanticRun = "done", ![Top.d].membersRun = TRUE,
                                  ![Top.d].bad = v]
      BY <2>4, Zenon DEF SemFinish
    <3>2. prog' = prog /\ Return
      BY <2>4 DEF SemFinish
    <3> QED BY <3>1, <3>2
  <2> QED BY <2>1, <2>2, <2>3, <2>4
<1>3. /\ ag'[d].symtab = ag[d].symtab /\ ag'[d].baseok = ag[d].baseok
      /\ \A x \in Decls : x # d => ag'[x] = ag[x]
      /\ \/ ag'[d].semanticRun = "done"
         \/ ag'[d].scope /\ ag'[d].semanticRun = ag[d].semanticRun
  <2>1. CASE ag' = [ag EXCEPT ![d].scope = TRUE]
    BY <2>1 DEF TypeInv, AgOK, AggregateType
  <2>2. CASE ag' = [ag EXCEPT ![d].semanticRun = "done", ![d].bad = TRUE, ![d].membersRun = TRUE]
    BY <2>2 DEF TypeInv, AgOK, AggregateType
  <2>3. CASE ag' = [ag EXCEPT ![d].scope = TRUE, ![d].membersRun = TRUE]
    BY <2>3 DEF TypeInv, AgOK, AggregateType
  <2>4. ASSUME NEW v, ag' = [ag EXCEPT ![d].semanticRun = "done", ![d].membersRun = TRUE,
                                       ![d].bad = v]
        PROVE  /\ ag'[d].symtab = ag[d].symtab /\ ag'[d].baseok = ag[d].baseok
               /\ \A x \in Decls : x # d => ag'[x] = ag[x]
               /\ ag'[d].semanticRun = "done"
    BY <2>4 DEF TypeInv, AgOK, AggregateType
  <2> QED BY <1>2, <2>1, <2>2, <2>3, <2>4
<1> QED BY <1>0, <1>1, <1>2, <1>3, StandEnd

(* The calls made for a member.                                            *)
LEMMA StandMemberCalls ==
  ASSUME TypeInv, StandInv, TypeInv', SemLookupMember \/ SemInstMember
  PROVE  StandInv'
<1>0. /\ stack # <<>> /\ Top.d \in Decls /\ Top.fn = "semantic" /\ Top.pc = "members"
      /\ Top \in GoodFrame /\ Top.i + 1 \in Nat \ {0} /\ Ready(Top.d, "members")
  BY AtSemantic, InKnown, InActivation DEF SemLookupMember, SemInstMember, LookupMember
<1> SUFFICES ASSUME NEW d \in Decls, d = Top.d PROVE StandInv'
  BY <1>0
<1>1. PICK f, g : /\ prog' = prog /\ ag' = ag /\ f.fn = "semantic" /\ f.d = d
                  /\ f.pc \in {"members", "looked"} /\ f \in GoodFrame
                  /\ (Become(f) \/ (Call(f, g) /\ g.pc = "enter"))
  <2>1. CASE SemLookupMember
    <3> DEFINE f == [Top EXCEPT !.pc = "looked"]
               g == Searching(Member.d, Member.owner)
    <3>00. 1 \in Nat \ {0}
      OBVIOUS
    <3>0. f \in GoodFrame
      BY <1>0, <3>00, FrameMoves DEF Labels
    <3>1. f.fn = "semantic" /\ f.d = d /\ f.pc = "looked"
      BY <1>0 DEF GoodFrame, ActivationType
    <3>2. g.pc = "enter"
      BY DEF Searching, Activation
    <3>3. prog' = prog /\ ag' = ag /\ Call(f, g)
      BY <2>1 DEF SemLookupMember, LookupMember
    <3> HIDE DEF f, g
    <3> QED BY <3>0, <3>1, <3>2, <3>3
  <2>2. CASE SemInstMember
    <3> DEFINE f == [Top EXCEPT !.i = Top.i + 1]
               g == Activation("run", NoDecl, FALSE)
    <3>1. f \in GoodFrame /\ f.fn = "semantic" /\ f.d = d /\ f.pc = "members"
      BY <1>0, FrameSteps DEF Labels, GoodFrame, ActivationType
    <3>2. g.pc = "enter"
      BY DEF Activation
    <3>3. prog' = prog /\ ag' = ag /\ (Become(f) \/ Call(f, g))
      BY <2>2 DEF SemInstMember, RunDeferred
    <3> HIDE DEF f, g
    <3> QED BY <3>1, <3>2, <3>3
  <2> QED BY <2>1, <2>2
<1>2. /\ Forward /\ Elsewhere(d) /\ Stands(d)' /\ Ready(d, "members")'
  BY <1>0, <1>1, SameForward
<1>3. Ready(d, "looked")'
  BY <1>2 DEF Ready, EarlyPcs, LatePcs
<1>4. f \in KnownFrame'
  BY <1>1, <1>2, <1>3, GoodSame DEF KnownFrame
<1>5. Held(d)'
  <2>1. ag[d].semanticRun \in {"init", "semantic", "done"}
    BY FieldTypes
  <2> QED BY <1>0, <1>1, <2>1 DEF Held, IsDone, Ready, LatePcs
<1>6. CASE Become(f)
  BY <1>0, <1>1, <1>2, <1>4, <1>6, StandMove DEF Waits
<1>7. CASE Call(f, g) /\ g.pc = "enter"
  <2>1. stack' \in Seq(GoodFrame')
    BY DEF TypeInv, StackOK
  <2>2. Len(stack) + 1 \in 1..Len(stack') /\ stack'[Len(stack) + 1] = g
    BY <1>0, <1>7, AfterCall
  <2>3. g \in GoodFrame'
    BY <2>1, <2>2, ElementOfSeq
  <2>4. g \in KnownFrame'
    BY <1>7, <2>3 DEF KnownFrame
  <2> QED BY <1>0, <1>1, <1>2, <1>4, <1>5, <1>7, <2>4, StandCall DEF Waits
<1> QED BY <1>1, <1>6, <1>7

(* A step of another activation than semantic()'s.                         *)
LEMMA StandAside ==
  ASSUME TypeInv, TypeInv', StandInv, stack # <<>>, Top.fn # "semantic", prog' = prog,
         \A x \in Decls : /\ ag'[x].scope = ag[x].scope /\ ag'[x].semanticRun = ag[x].semanticRun
                          /\ ag'[x].symtab = ag[x].symtab /\ ag'[x].baseok = ag[x].baseok,
         \/ Return
         \/ \E f : f.fn # "semantic" /\ (Become(f) \/ \E g : g.pc = "enter" /\ Call(f, g))
  PROVE  StandInv'
<1>1. Forward /\ \A x \in Decls : Stands(x)' /\ (Held(x) => Held(x)')
  BY DEF Forward, StandInv, Stands, Held, IsStruct, IsDone, BasesOpen
<1>2. stack \in Seq(KnownFrame')
  BY <1>1, KnownWider, Wider DEF StandInv
<1>3. \A x \in Decls : Held(x)
  BY DEF StandInv, Scoped, Workers
<1>4. Scoped'
  BY <1>1, <1>3 DEF Scoped
<1>5. \A x, k : BaseDecl(x, k)' = BaseDecl(x, k)
  BY DEF BaseDecl
<1>6. stack' \in Seq(GoodFrame') /\ \A k \in 1..Len(stack') : stack'[k] \in GoodFrame'
  BY ElementOfSeq DEF TypeInv, StackOK
<1>7. CASE Return
  <2>1. stack' \in Seq(KnownFrame')
    BY <1>2, <1>7, PopOff DEF Return
  <2>2. Chained'
    <3>1. \A k \in 1..(Len(stack) - 1 - 1) : k \in 1..(Len(stack) - 1) /\ k + 1 \in 1..(Len(stack) - 1)
      BY <1>7, AfterReturn
    <3> QED BY <1>5, <1>7, <3>1, AfterReturn DEF StandInv, Chained, Waits
  <2>3. TopClosed'
    <3> SUFFICES ASSUME stack' # <<>>, Waits(Top') PROVE FALSE
      BY DEF TopClosed, Waits
    <3>1. PICK n \in 1..(Len(stack) - 1) : n = Len(stack) - 1 /\ Top' = stack[n]
      BY <1>7, AfterReturn
    <3>2. n + 1 = Len(stack)
      BY <1>7, <3>1, AfterReturn
    <3> QED BY <3>1, <3>2 DEF StandInv, Chained, Top
  <2> QED BY <1>1, <1>4, <2>1, <2>2, <2>3 DEF StandInv
<1>8. ASSUME NEW f, f.fn # "semantic", Become(f) PROVE StandInv'
  <2>1. f \in KnownFrame'
    BY <1>6, <1>8, AfterBecome DEF KnownFrame
  <2>2. stack' \in Seq(KnownFrame')
    BY <1>2, <1>8, <2>1, ReplaceTop DEF Become
  <2>3. Chained'
    <3>1. \A k \in 1..(Len(stack) - 1) : k \in 1..Len(stack) /\ k # Len(stack)
            /\ k + 1 \in 1..Len(stack)
      BY <1>8, AfterBecome
    <3> SUFFICES ASSUME NEW k \in 1..(Len(stack) - 1), Waits(stack[k])
                 PROVE  stack'[k + 1].fn = "semantic"
                        /\ stack'[k + 1].d = BaseDecl(stack[k].d, stack[k].b)
      BY <1>5, <1>8, <3>1, AfterBecome DEF Chained, Waits
    <3>2. stack[k + 1].fn = "semantic" /\ stack[k + 1].d = BaseDecl(stack[k].d, stack[k].b)
      BY DEF StandInv, Chained
    <3>3. k + 1 # Len(stack) /\ k + 1 \in 1..Len(stack)
      BY <1>8, <3>2, AfterBecome DEF Top
    <3> QED BY <1>8, <3>2, <3>3, AfterBecome
  <2>4. TopClosed'
    BY <1>8, AfterBecome DEF TopClosed, Waits
  <2> QED BY <1>1, <1>4, <2>2, <2>3, <2>4 DEF StandInv
<1>9. ASSUME NEW f, NEW g, f.fn # "semantic", g.pc = "enter", Call(f, g) PROVE StandInv'
  <2>1. f \in KnownFrame' /\ g \in KnownFrame'
    <3>1. Len(stack) \in 1..Len(stack') /\ Len(stack) + 1 \in 1..Len(stack')
      BY <1>9, AfterCall
    <3> QED BY <1>6, <1>9, <3>1, AfterCall DEF KnownFrame
  <2>2. stack' \in Seq(KnownFrame')
    BY <1>2, <1>9, <2>1, PushOn DEF Call
  <2>3. Chained'
    <3> SUFFICES ASSUME NEW k \in 1..Len(stack), Waits(stack'[k])
                 PROVE  stack'[k + 1].fn = "semantic"
                        /\ stack'[k + 1].d = BaseDecl(stack'[k].d, stack'[k].b)
      BY <1>5, <1>9, AfterCall DEF Chained, Waits
    <3>1. k # Len(stack) /\ stack'[k] = stack[k]
      BY <1>9, AfterCall DEF Waits
    <3>2. k \in 1..(Len(stack) - 1) /\ k + 1 \in 1..Len(stack)
      BY <1>9, <3>1, AfterCall
    <3>3. stack[k + 1].fn = "semantic" /\ stack[k + 1].d = BaseDecl(stack[k].d, stack[k].b)
      BY <3>1, <3>2 DEF StandInv, Chained
    <3>4. k + 1 # Len(stack)
      BY <3>3 DEF Top
    <3> QED BY <1>9, <3>1, <3>2, <3>3, <3>4, AfterCall
  <2>4. TopClosed'
    BY <1>9, AfterCall DEF TopClosed, Waits
  <2> QED BY <1>1, <1>4, <2>2, <2>3, <2>4 DEF StandInv
<1> QED BY <1>7, <1>8, <1>9

LEMMA StandSearch == ASSUME TypeInv, TypeInv', StandInv, SearchStep PROVE StandInv'
<1>1. stack # <<>> /\ Top.fn = "search" /\ Top.d \in Decls /\ Top \in ActivationType
  <2>1. PICK pc : At("search", pc)
    BY DEF SearchStep, SearchEnter, SearchAnalysed, SearchForward, SearchOwn, SearchBase,
       SearchedBase
  <2>2. Top \in GoodFrame
    BY <2>1, TopIsGood DEF At, TypeInv
  <2> QED BY <2>1, <2>2 DEF At, GoodFrame, ActivationType
<1>2. prog' = prog
  BY DEF SearchStep, SearchEnter, SearchAnalysed, SearchForward, SearchOwn, SearchBase,
     SearchedBase
<1>3. \A x \in Decls : /\ ag'[x].scope = ag[x].scope /\ ag'[x].semanticRun = ag[x].semanticRun
                       /\ ag'[x].symtab = ag[x].symtab /\ ag'[x].baseok = ag[x].baseok
  <2>1. ag' = ag \/ \E v : ag' = [ag EXCEPT ![Top.d].inuse = v]
    BY DEF SearchStep, SearchEnter, SearchAnalysed, SearchForward, SearchOwn, SearchBase,
       SearchedBase
  <2>2. ASSUME NEW v, ag' = [ag EXCEPT ![Top.d].inuse = v]
        PROVE  \A x \in Decls :
                 /\ ag'[x].scope = ag[x].scope /\ ag'[x].semanticRun = ag[x].semanticRun
                 /\ ag'[x].symtab = ag[x].symtab /\ ag'[x].baseok = ag[x].baseok
    BY <1>1, <2>2 DEF TypeInv, AgOK, AggregateType
  <2> QED BY <2>1, <2>2
<1>4. \/ Return
      \/ \E f : f.fn # "semantic" /\ (Become(f) \/ \E g : g.pc = "enter" /\ Call(f, g))
  <2>1. ASSUME NEW pc, NEW i, Goto(pc, i)
        PROVE  \E f : f.fn # "semantic" /\ Become(f)
    <3>1. [Top EXCEPT !.pc = pc, !.i = i].fn = "search"
      BY <1>1 DEF ActivationType
    <3> QED BY <2>1, <3>1 DEF Goto
  <2>2. ASSUME NEW pc, NEW g, Call([Top EXCEPT !.pc = pc], g), g.pc = "enter"
        PROVE  \E f : f.fn # "semantic" /\ \E h : h.pc = "enter" /\ Call(f, h)
    <3>1. [Top EXCEPT !.pc = pc].fn = "search"
      BY <1>1 DEF ActivationType
    <3> QED BY <2>2, <3>1
  <2>3. CASE SearchEnter
    <3>1. Activation("semantic", Top.d, IsStruct(Top.d)).pc = "enter"
      BY DEF Activation
    <3> QED BY <2>1, <2>2, <2>3, <3>1 DEF SearchEnter
  <2>4. CASE SearchBase
    <3>1. \A c : Searching(c, Top.owner).pc = "enter"
      BY DEF Searching, Activation
    <3>2. \/ Return \/ Goto("bases", Top.i + 1)
          \/ \E c : Call([Top EXCEPT !.pc = "searched"], Searching(c, Top.owner))
      BY <2>4 DEF SearchBase
    <3> QED BY <2>1, <2>2, <3>1, <3>2
  <2> QED BY <2>1, <2>3, <2>4 DEF SearchStep, SearchAnalysed, SearchForward, SearchOwn,
          SearchedBase
<1> QED BY <1>1, <1>2, <1>3, <1>4, StandAside

(* The queue and the module.                                               *)
LEMMA StandDriver ==
  ASSUME TypeInv, TypeInv', StandInv,
         \/ RunRound \/ RunEach \/ RunRoundDone \/ ModuleMember \/ ModuleLookedUp
         \/ ModuleDrain \/ ModuleEnd
  PROVE  StandInv'
<1>1. stack # <<>> /\ Top.fn \in {"run", "module"} /\ Top \in ActivationType
  <2>1. PICK fn \in {"run", "module"} : \E pc : At(fn, pc)
    BY DEF RunRound, RunEach, RunRoundDone, ModuleMember, ModuleLookedUp, ModuleDrain, ModuleEnd
  <2>2. Top \in GoodFrame
    BY <2>1, TopIsGood DEF At, TypeInv
  <2> QED BY <2>1, <2>2 DEF At, GoodFrame
<1>2. prog' = prog /\ ag' = ag
  BY DEF RunRound, RunEach, RunRoundDone, ModuleMember, ModuleLookedUp, ModuleDrain, ModuleEnd,
     LookupMember, RunDeferred
<1>3. \A pc, i, t : /\ [Top EXCEPT !.pc = pc, !.i = i].fn # "semantic"
                    /\ [Top EXCEPT !.pc = pc].fn # "semantic"
                    /\ [Top EXCEPT !.i = i].fn # "semantic"
                    /\ [Top EXCEPT !.pc = pc, !.i = i, !.todo = t].fn # "semantic"
  BY <1>1 DEF ActivationType
<1>4. \A fn, d, sc : Activation(fn, d, sc).pc = "enter"
  BY DEF Activation
<1>5. \A d, c : Searching(d, c).pc = "enter"
  BY DEF Searching, Activation
<1>6. \/ Return
      \/ \E f : f.fn # "semantic" /\ (Become(f) \/ \E g : g.pc = "enter" /\ Call(f, g))
  <2>1. ASSUME NEW pc, NEW i, Goto(pc, i)
        PROVE  \E f : f.fn # "semantic" /\ Become(f)
    BY <1>3, <2>1 DEF Goto
  <2>2. CASE RunRound
    BY <1>3, <2>2 DEF RunRound
  <2>3. CASE RunEach
    BY <1>3, <1>4, <2>3 DEF RunEach
  <2>4. CASE RunRoundDone
    BY <2>1, <2>4 DEF RunRoundDone
  <2>5. CASE ModuleMember
    BY <1>3, <1>4, <1>5, <2>5 DEF ModuleMember, LookupMember
  <2>6. CASE ModuleLookedUp
    BY <2>1, <2>6 DEF ModuleLookedUp
  <2>7. CASE ModuleDrain
    BY <1>3, <1>4, <2>7 DEF ModuleDrain, RunDeferred
  <2>8. CASE ModuleEnd
    BY <2>8 DEF ModuleEnd
  <2> QED BY <2>2, <2>3, <2>4, <2>5, <2>6, <2>7, <2>8
<1> QED BY <1>1, <1>2, <1>6, StandAside

LEMMA StandDrain == ASSUME TypeInv, TypeInv', StandInv, DriverDrain PROVE StandInv'
<1>1. prog' = prog /\ ag' = ag /\ stack = <<>>
  BY DEF DriverDrain
<1>2. CASE stack' = stack
  BY <1>1, <1>2, StandStops
<1>3. CASE stack' = <<Activation("run", NoDecl, FALSE)>>
  <2>1. PICK g : g = Activation("run", NoDecl, FALSE)
    OBVIOUS
  <2>2. g.fn = "run"
    BY <2>1 DEF Activation
  <2>3. stack' = <<g>> /\ Len(stack') = 1 /\ stack'[1] = g /\ Top' = g
    BY <1>3, <2>1 DEF Top
  <2>4. stack' \in Seq(GoodFrame')
    BY DEF TypeInv, StackOK
  <2>5. g \in GoodFrame'
    BY <2>3, <2>4, ElementOfSeq, 1 \in 1..1
  <2>6. g \in KnownFrame'
    BY <2>2, <2>5 DEF KnownFrame
  <2>7. stack' \in Seq(KnownFrame')
    BY <2>3, <2>6
  <2>8. \A x \in Decls : Stands(x)' /\ (Held(x) => Held(x)')
    BY <1>1 DEF StandInv, Stands, Held, IsStruct, IsDone, BasesOpen
  <2>9. Chained' /\ TopClosed'
    BY <2>2, <2>3 DEF Chained, TopClosed, Waits
  <2>10. Scoped'
    BY <1>1, <2>8 DEF StandInv, Scoped
  <2> QED BY <2>7, <2>8, <2>9, <2>10 DEF StandInv
<1> QED BY <1>2, <1>3 DEF DriverDrain

LEMMA StandInit == ASSUME Init PROVE StandInv
<1> DEFINE f == [fn |-> "module", pc |-> "enter", d |-> NoDecl, i |-> 1, b |-> 0,
                 sc |-> TRUE, scx |-> FALSE, errors |-> 0, owner |-> NoDecl, todo |-> <<>>]
<1>1. stack = <<f>> /\ f \in GoodFrame /\ f.fn = "module"
  BY DEF Init, GoodFrame, ActivationType, Labels, MaybeDecl
<1> HIDE DEF f
<1>2. f \in KnownFrame /\ Len(stack) = 1 /\ stack[1] = f /\ Top = f
  BY <1>1 DEF KnownFrame, Top
<1>3. stack \in Seq(KnownFrame) /\ Chained /\ TopClosed
  BY <1>1, <1>2 DEF Chained, TopClosed, Waits
<1>4. \A d \in Decls : Stands(d) /\ Held(d)
  BY DEF Init, Stands, Held, NewAggregate, IsDone
<1> QED BY <1>3, <1>4 DEF StandInv, Scoped

LEMMA StandNext == ASSUME TypeInv, TypeInv', StandInv, [Next]_vars PROVE StandInv'
<1>1. CASE UNCHANGED vars \/ DriverCheck \/ Stopped
  BY <1>1, StandStops DEF vars, DriverCheck, Stopped
<1>2. CASE SemanticStep
  BY <1>2, StandReturnAtOnce, StandEnter, StandBaseType, StandBaseTyped, StandTypesResolved,
     StandNoBaseClass, StandBaseClass, StandBaseResolved, StandDropIface,
     StandIface, StandBasesDone, StandSymtab, StandVtbl, StandLate,
     StandMemberCalls, StandEnds DEF SemanticStep
<1>3. CASE SearchStep
  BY <1>3, StandSearch
<1>4. CASE DriverStep
  BY <1>1, <1>4, StandDriver, StandDrain DEF DriverStep
<1> QED BY <1>1, <1>2, <1>3, <1>4 DEF Next

LEMMA StandInvariant == Spec => []StandInv
<1>1. Init => StandInv
  BY StandInit
<1>2. TypeInv /\ TypeInv' /\ StandInv /\ [Next]_vars => StandInv'
  BY StandNext
<1> QED BY <1>1, <1>2, TypeInvariant, PTL DEF Spec

(* Once a class or interface has been entered its bases are being resolved *)
(* or are resolved, however the activations nest: the way out of the loops *)
(* for "forward reference of one or more bases" is never taken.            *)
THEOREM BasesAreSettled == Spec => []BasesSettled
<1>1. StandInv => BasesSettled
  BY DEF StandInv, Stands, BasesSettled
<1> QED BY <1>1, StandInvariant, PTL

----------------------------------------------------------------------------
(* What the two loops know of the list of bases.                           *)

(* A declaration is written at most once in a list of bases, but for the   *)
(* last entry, which may repeat an earlier one.                            *)
OnlyLastRepeats ==
  \A d \in Decls : \A j, k \in 1..Len(prog.bases[d]) :
    j < k /\ prog.bases[d][j].sym = prog.bases[d][k].sym => k = Len(prog.bases[d])

BasePcs == {"base", "based", "ifaces", "ifaced"}
AtBases(f, d) == f.fn = "semantic" /\ f.d = d /\ f.pc \in BasePcs
Typing(f, d) == f.fn = "semantic" /\ f.d = d /\ f.pc = "typed"
Busy(d) == \E k \in 1..Len(stack) : AtBases(stack[k], d)
BusyBelow(d) == \E k \in 1..Len(stack) : k # Len(stack) /\ AtBases(stack[k], d)

(* The list of bases of a declaration.                                     *)
TypesOK ==
  \A d \in Decls : \A k \in 1..Len(prog.bases[d]) : btype[d][k] \in {"ident", "decl", "error"}
TypesFun ==
  btype = [d \in Decls |-> [k \in 1..Len(prog.bases[d]) |-> btype[d][k]]]
Ordered ==
  \A d \in Decls : \A i, j \in 1..Len(BaseList(d)) : i < j => BaseList(d)[i] < BaseList(d)[j]
FirstTaken ==
  \A d \in Decls : ag[d].baseClass # NoDecl =>
    /\ IsClass(ag[d].baseClass) /\ 1 \in 1..Len(BaseList(d))
    /\ HasSym(d, BaseList(d)[1]) /\ BaseDecl(d, BaseList(d)[1]) = ag[d].baseClass
ListsOK == TypesFun /\ TypesOK /\ Ordered /\ FirstTaken

(* The first names of a list are resolved, none of those with a symbol is  *)
(* an error, and the interfaces passed by the loop have their symbol.      *)
Named(d, j) == TypeOf(d, BaseList(d)[j]) # "ident"
AllNamed(d) ==
  \A j \in 1..Len(BaseList(d)) :
    Named(d, j) /\ (HasSym(d, BaseList(d)[j]) => TypeOf(d, BaseList(d)[j]) # "error")
Passed(d, i) ==
  \A j \in 1..Len(BaseList(d)) : FirstIface(d) <= j /\ j <= i => HasSym(d, BaseList(d)[j])
Sees(f) ==
  f.fn = "semantic" =>
    /\ f.pc = "enter" => f.i = 1
    /\ f.pc = "types" => \A j \in 1..Len(BaseList(f.d)) : j < f.i => Named(f.d, j)
    /\ f.pc = "typed" =>
         \A j \in 1..Len(BaseList(f.d)) : j <= f.i => Named(f.d, j) \/ BaseList(f.d)[j] = f.b
    /\ f.pc \in BasePcs => AllNamed(f.d)
    /\ f.pc = "based" => ag[f.d].baseClass # NoDecl
    /\ f.pc = "ifaces" => Passed(f.d, f.i - 1) /\ FirstIface(f.d) <= f.i
    /\ f.pc = "ifaced" => Passed(f.d, f.i)

Fresh == \A d \in Decls : ~IsStruct(d) /\ BasesOpen(d) => bsym[d] = {} \/ Busy(d)
NamedOnce ==
  \A k, l \in 1..Len(stack) : k < l /\ Typing(stack[l], stack[l].d) => ~AtBases(stack[k], stack[l].d)
LoopOnTop ==
  \A k \in 1..Len(stack) : stack[k].fn = "semantic" /\ stack[k].pc = "ifaces" => k = Len(stack)
FramesSee == \A k \in 1..Len(stack) : Sees(stack[k])

NullInv == ListsOK /\ Fresh /\ FramesSee /\ NamedOnce /\ LoopOnTop

(* A step at the top of the stack.                                         *)
Opens(g) == g.pc = "enter" /\ g.i = 1
Stepped(f) == Become(f) \/ \E g : Opens(g) /\ Call(f, g)
Arrived(f) ==
  /\ Stepped(f) /\ Sees(f)'
  /\ f.fn = "semantic" /\ f.pc = "ifaces" => Become(f)
  /\ \A x \in Decls : Typing(f, x) => ~BusyBelow(x)
  /\ \A x \in Decls : AtBases(Top, x) => AtBases(f, x) \/ ~BasesOpen(x)'
  /\ \A x \in Decls : bsym'[x] = bsym[x] \/ AtBases(f, x)
Left == Return /\ bsym' = bsym /\ \A x \in Decls : ~AtBases(Top, x)

OpenOnly == \A x \in Decls : BasesOpen(x)' => BasesOpen(x)
Below(f) == \E k \in 1..Len(stack) : k # Len(stack) /\ stack[k] = f
BelowSee == \A f : Below(f) => Sees(f)'

(* The frame that becomes the top of the stack.                            *)
LEMMA NullArrived ==
  ASSUME TypeInv, NullInv, stack # <<>>, ListsOK', prog' = prog, OpenOnly, BelowSee,
         NEW f, f.fn = "semantic" => f.d \in Decls, Arrived(f)
  PROVE  NullInv'
<1>1. PICK n \in 1..Len(stack) : n = Len(stack) /\ n \in Nat
  BY EmptySeq DEF TypeInv, StackOK
<1>2. /\ stack'[n] = f /\ \A k \in 1..n : k # n => stack'[k] = stack[k]
      /\ \/ Len(stack') = n
         \/ /\ Len(stack') = n + 1 /\ Opens(stack'[n + 1]) /\ ~Become(f)
  <2>1. CASE Become(f)
    BY <1>1, <2>1, AfterBecome
  <2>2. ASSUME NEW g, Opens(g), Call(f, g), ~Become(f)
        PROVE  /\ stack'[n] = f /\ \A k \in 1..n : k # n => stack'[k] = stack[k]
               /\ Len(stack') = n + 1 /\ Opens(stack'[n + 1])
    BY <1>1, <2>2, AfterCall
  <2> QED BY <2>1, <2>2 DEF Arrived, Stepped
<1>3. \A k \in 1..Len(stack') : k # n => k \in 1..n \/ Opens(stack'[k])
  BY <1>1, <1>2
<1>4. n \in 1..Len(stack')
  BY <1>1, <1>2
<1>5. FramesSee'
  <2>1. \A g : Opens(g) => Sees(g)'
    BY DEF Sees, Opens, BasePcs
  <2>2. \A k \in 1..Len(stack') : k # n => Opens(stack'[k]) \/ Below(stack'[k])
    BY <1>1, <1>2, <1>3 DEF Below
  <2> SUFFICES ASSUME NEW k \in 1..Len(stack'), NEW g, g = stack'[k] PROVE Sees(g)'
    BY DEF FramesSee
  <2> QED BY <1>2, <2>1, <2>2 DEF Arrived, BelowSee
<1>6. NamedOnce'
  <2> SUFFICES ASSUME NEW k \in 1..Len(stack'), NEW l \in 1..Len(stack'), k < l,
                      Typing(stack'[l], stack'[l].d), AtBases(stack'[k], stack'[l].d)
               PROVE  FALSE
    BY DEF NamedOnce, Typing, AtBases
  <2>1. ~Opens(stack'[l])
    BY DEF Typing, Opens
  <2>2. l \in 1..n
    BY <1>3, <1>1, <2>1
  <2>3. k \in 1..n /\ k # n /\ stack'[k] = stack[k]
    BY <1>1, <1>2, <2>2
  <2>4. CASE l = n
    BY <1>1, <1>2, <2>3, <2>4 DEF Arrived, BusyBelow, Typing
  <2>5. CASE l # n
    BY <1>1, <1>2, <2>2, <2>3, <2>5 DEF NullInv, NamedOnce
  <2> QED BY <2>4, <2>5
<1>7. LoopOnTop'
  <2> SUFFICES ASSUME NEW k \in 1..Len(stack'), stack'[k].fn = "semantic",
                      stack'[k].pc = "ifaces"
               PROVE  k = Len(stack')
    BY DEF LoopOnTop
  <2>1. k \in 1..n
    BY <1>1, <1>3 DEF Opens
  <2>2. k = n
    BY <1>1, <1>2, <2>1 DEF NullInv, LoopOnTop
  <2>3. Become(f)
    BY <1>2, <2>2 DEF Arrived
  <2> QED BY <1>2, <2>2, <2>3
<1>8. Fresh'
  <2> SUFFICES ASSUME NEW x \in Decls, ~IsStruct(x), BasesOpen(x)', bsym'[x] # {}
               PROVE  Busy(x)'
    BY DEF Fresh, IsStruct
  <2>1. AtBases(f, x) => Busy(x)'
    BY <1>2, <1>4 DEF Busy, AtBases
  <2>2. CASE ~AtBases(f, x)
    <3>1. bsym[x] # {} /\ BasesOpen(x) /\ ~AtBases(Top, x)
      BY <2>2 DEF Arrived, OpenOnly
    <3>2. PICK k \in 1..n : AtBases(stack[k], x)
      BY <1>1, <3>1 DEF NullInv, Fresh, Busy
    <3>3. k # n
      BY <1>1, <3>1, <3>2 DEF Top
    <3>4. k \in 1..Len(stack') /\ AtBases(stack'[k], x)
      BY <1>1, <1>2, <3>2, <3>3
    <3> QED BY <3>4 DEF Busy, AtBases
  <2> QED BY <2>1, <2>2
<1> QED BY <1>5, <1>6, <1>7, <1>8 DEF NullInv

LEMMA NullLeft ==
  ASSUME TypeInv, NullInv, stack # <<>>, ListsOK', prog' = prog, OpenOnly, BelowSee, Left
  PROVE  NullInv'
<1>1. PICK n \in 1..Len(stack) : n = Len(stack) /\ n \in Nat
  BY EmptySeq DEF TypeInv, StackOK
<1>2. Len(stack') = n - 1 /\ \A k \in 1..(n - 1) : stack'[k] = stack[k] /\ k \in 1..n /\ k # n
  BY <1>1, AfterReturn DEF Left
<1>5. FramesSee'
  <2> SUFFICES ASSUME NEW k \in 1..Len(stack'), NEW g, g = stack'[k] PROVE Sees(g)'
    BY DEF FramesSee
  <2> QED BY <1>1, <1>2 DEF BelowSee, Below
<1>6. NamedOnce'
  <2> SUFFICES ASSUME NEW k \in 1..(n - 1), NEW l \in 1..(n - 1), k < l,
                      Typing(stack[l], stack[l].d), AtBases(stack[k], stack[l].d)
               PROVE  FALSE
    BY <1>2 DEF NamedOnce, Typing, AtBases
  <2> QED BY <1>1, <1>2 DEF NullInv, NamedOnce
<1>7. LoopOnTop'
  BY <1>1, <1>2 DEF NullInv, LoopOnTop
<1>8. Fresh'
  <2> SUFFICES ASSUME NEW x \in Decls, ~IsStruct(x), BasesOpen(x)', bsym'[x] # {}
               PROVE  Busy(x)'
    BY DEF Fresh, IsStruct
  <2>1. bsym[x] # {} /\ BasesOpen(x) /\ ~AtBases(Top, x)
    BY DEF Left, OpenOnly
  <2>2. PICK k \in 1..n : AtBases(stack[k], x)
    BY <1>1, <2>1 DEF NullInv, Fresh, Busy
  <2>3. k # n
    BY <1>1, <2>1, <2>2 DEF Top
  <2>4. k \in 1..Len(stack') /\ AtBases(stack'[k], x)
    BY <1>1, <1>2, <2>2, <2>3
  <2> QED BY <2>4 DEF Busy, AtBases
<1> QED BY <1>5, <1>6, <1>7, <1>8 DEF NullInv

(* A step that does not touch the lists.                                   *)
LEMMA SeesKept ==
  ASSUME TypeInv, Kept, btype' = btype, NEW f, f.fn = "semantic" => f.d \in Decls, Sees(f)
  PROVE  Sees(f)'
<1> SUFFICES ASSUME f.fn = "semantic", NEW d \in Decls, f.d = d PROVE Sees(f)'
  BY DEF Sees
<1>1. ag'[d].baseClass = ag[d].baseClass /\ BaseList(d)' = BaseList(d)
  BY DEF Kept, BaseList
<1>2. FirstIface(d)' = FirstIface(d) /\ \A k : HasSym(d, k)' = HasSym(d, k)
                                            /\ TypeOf(d, k)' = TypeOf(d, k)
  BY <1>1 DEF Kept, FirstIface, HasSym, TypeOf
<1>3. \A j : Named(d, j)' = Named(d, j)
  BY <1>1, <1>2 DEF Named
<1>4. AllNamed(d)' = AllNamed(d) /\ \A i : Passed(d, i)' = Passed(d, i)
  BY <1>1, <1>2, <1>3 DEF AllNamed, Passed
<1> QED BY <1>1, <1>2, <1>3, <1>4 DEF Sees

LEMMA ListsKept ==
  ASSUME TypeInv, NullInv, Kept, btype' = btype
  PROVE  ListsOK' /\ BelowSee
<1>1. \A x \in Decls : ag'[x].baseClass = ag[x].baseClass /\ BaseList(x)' = BaseList(x)
  BY DEF Kept, BaseList
<1>2. \A x, k : HasSym(x, k)' = HasSym(x, k) /\ BaseDecl(x, k)' = BaseDecl(x, k)
  BY DEF Kept, HasSym, BaseDecl
<1>3. \A x : IsClass(x)' = IsClass(x)
  BY DEF Kept, IsClass
<1>4. ListsOK'
  BY <1>1, <1>2, <1>3 DEF Kept, NullInv, ListsOK, TypesOK, TypesFun, Ordered, FirstTaken
<1>5. BelowSee
  <2>1. \A k \in 1..Len(stack) : stack[k].fn = "semantic" => stack[k].d \in Decls
    BY ElementOfSeq DEF TypeInv, StackOK, GoodFrame
  <2> SUFFICES ASSUME NEW f, Below(f) PROVE Sees(f)'
    BY DEF BelowSee
  <2> QED BY <2>1, SeesKept DEF Below, NullInv, FramesSee
<1> QED BY <1>4, <1>5

LEMMA NullStays ==
  ASSUME TypeInv, NullInv, UNCHANGED <<prog, ag, btype, bsym, stack>>
  PROVE  NullInv'
<1>1. Kept
  BY DEF Kept
<1>2. ListsOK' /\ BelowSee
  BY <1>1, ListsKept
<1>3. FramesSee'
  <2>1. \A k \in 1..Len(stack) : stack[k].fn = "semantic" => stack[k].d \in Decls
    BY ElementOfSeq DEF TypeInv, StackOK, GoodFrame
  <2> SUFFICES ASSUME NEW k \in 1..Len(stack), NEW f, f = stack[k] PROVE Sees(f)'
    BY DEF FramesSee
  <2> QED BY <1>1, <2>1, SeesKept DEF FramesSee, NullInv
<1>4. Fresh'
  BY DEF NullInv, Fresh, Busy, IsStruct, BasesOpen
<1> QED BY <1>2, <1>3, <1>4 DEF NullInv, NamedOnce, LoopOnTop

(* The bases of a declaration that are known stay known.                   *)
LEMMA Closing == ASSUME TypeInv, StandInv, [Next]_vars PROVE OpenOnly
<1>1. CASE ag' = ag
  BY <1>1 DEF OpenOnly, BasesOpen
<1>2. ASSUME NEW d \in Decls, NEW r, ag' = [ag EXCEPT ![d] = r],
             r.baseok = ag[d].baseok \/ r.baseok \in {"done", "semanticdone"}
      PROVE  OpenOnly
  BY <1>2 DEF OpenOnly, BasesOpen, TypeInv, AgOK
<1>3. ASSUME NEW d \in Decls, NEW v, ag' = [ag EXCEPT ![d].scope = v] PROVE OpenOnly
  BY <1>3 DEF OpenOnly, BasesOpen, TypeInv, AgOK, AggregateType
<1>20. ASSUME NEW d \in Decls, NEW v, ag' = [ag EXCEPT ![d].semanticRun = v] PROVE OpenOnly
  BY <1>20 DEF OpenOnly, BasesOpen, TypeInv, AgOK, AggregateType
<1>21. ASSUME NEW d \in Decls, NEW v, ag' = [ag EXCEPT ![d].baseclasses = v] PROVE OpenOnly
  BY <1>21 DEF OpenOnly, BasesOpen, TypeInv, AgOK, AggregateType
<1>22. ASSUME NEW d \in Decls, NEW c, ag' = [ag EXCEPT ![d].baseClass = c] PROVE OpenOnly
  BY <1>22 DEF OpenOnly, BasesOpen, TypeInv, AgOK, AggregateType
<1>23. ASSUME NEW d \in Decls, NEW c, ag' = [ag EXCEPT ![d].baseClass = c, ![d].scope = TRUE] PROVE OpenOnly
  BY <1>23 DEF OpenOnly, BasesOpen, TypeInv, AgOK, AggregateType
<1>24. ASSUME NEW d \in Decls, NEW l, NEW v, ag' = [ag EXCEPT ![d].baseclasses = l, ![d].scope = v] PROVE OpenOnly
  BY <1>24 DEF OpenOnly, BasesOpen, TypeInv, AgOK, AggregateType
<1>25. ASSUME NEW d \in Decls, NEW c, NEW l, ag' = [ag EXCEPT ![d].baseok = "done", ![d].baseClass = c, ![d].baseclasses = l] PROVE OpenOnly
  BY <1>25 DEF OpenOnly, BasesOpen, TypeInv, AgOK, AggregateType
<1>26. ASSUME NEW d \in Decls, NEW v, ag' = [ag EXCEPT ![d].symtab = v] PROVE OpenOnly
  BY <1>26 DEF OpenOnly, BasesOpen, TypeInv, AgOK, AggregateType
<1>27. ASSUME NEW d \in Decls, NEW v, ag' = [ag EXCEPT ![d].vtbl = v] PROVE OpenOnly
  BY <1>27 DEF OpenOnly, BasesOpen, TypeInv, AgOK, AggregateType
<1>28. ASSUME NEW d \in Decls, NEW v, ag' = [ag EXCEPT ![d].inuse = v] PROVE OpenOnly
  BY <1>28 DEF OpenOnly, BasesOpen, TypeInv, AgOK, AggregateType
<1>29. ASSUME NEW d \in Decls, NEW v, ag' = [ag EXCEPT ![d].semanticRun = "done", ![d].membersRun = TRUE, ![d].bad = v] PROVE OpenOnly
  BY <1>29 DEF OpenOnly, BasesOpen, TypeInv, AgOK, AggregateType
<1>30. ASSUME NEW d \in Decls, NEW v, ag' = [ag EXCEPT ![d].semanticRun = "done", ![d].bad = TRUE, ![d].membersRun = TRUE] PROVE OpenOnly
  BY <1>30 DEF OpenOnly, BasesOpen, TypeInv, AgOK, AggregateType
<1>31. ASSUME NEW d \in Decls, NEW v, ag' = [ag EXCEPT ![d].scope = TRUE, ![d].membersRun = TRUE] PROVE OpenOnly
  BY <1>31 DEF OpenOnly, BasesOpen, TypeInv, AgOK, AggregateType
<1>4. ASSUME SemanticStep, NEW d \in Decls, d = Top.d PROVE OpenOnly
  <2>1. CASE SemReturnAtOnce
    <3>1. ag' = ag \/ ag' = [ag EXCEPT ![d].semanticRun = "done"]
      BY <1>4, <2>1 DEF SemReturnAtOnce
    <3> QED BY <1>1, <1>4, <1>20, <3>1
  <2>2. CASE SemEnter
    <3>1. PICK o : o = IF ~IsStruct(d) /\ BasesOpen(d) THEN "in" ELSE ag[d].baseok
      OBVIOUS
    <3>2. ag' = [ag EXCEPT ![d].scope = FALSE, ![d].semanticRun = "semantic", ![d].baseok = o]
      BY <1>4, <2>2, <3>1, NeverScopeless DEF SemEnter, TypeInv, AgOK, AggregateType
    <3>3. ag'[d].baseok = o /\ \A x \in Decls : x # d => ag'[x] = ag[x]
      BY <3>2 DEF TypeInv, AgOK, AggregateType
    <3> QED BY <3>1, <3>3 DEF OpenOnly, BasesOpen
  <2>3. CASE SemBaseType \/ SemBaseTyped
    <3>1. \E v : ag' = [ag EXCEPT ![d].scope = v]
      BY <1>4, <2>3 DEF SemBaseType, SemBaseTyped
    <3> QED BY <1>3, <3>1
  <2>4. CASE SemNoBaseClass \/ SemCircularBase \/ SemDropIface
    <3>1. ag' = ag \/ \E v : ag' = [ag EXCEPT ![d].baseclasses = v]
      BY <1>1, <1>4, <2>4 DEF SemNoBaseClass, SemCircularBase, SemDropIface, DropBase
    <3> QED BY <1>4, <1>1, <1>21, <3>1
  <2>5. CASE SemBaseClass
    <3>1. \E c : \/ ag' = [ag EXCEPT ![d].baseClass = c, ![d].scope = TRUE]
                 \/ ag' = [ag EXCEPT ![d].baseClass = c]
      BY <1>4, <2>5 DEF SemBaseClass
    <3> QED BY <1>4, <1>22, <1>23, <3>1
  <2>6. CASE SemBaseResolved
    <3>1. ~BasesOpen(BaseDecl(d, Top.b))
      BY <1>4, <2>6, InKnown DEF SemBaseResolved
    <3>2. ag' = [ag EXCEPT ![d].scope = FALSE, ![d].baseok = ag[d].baseok]
      BY <1>4, <2>6, <3>1 DEF SemBaseResolved, TypeInv, AgOK, AggregateType
    <3> QED BY <3>2 DEF OpenOnly, BasesOpen, TypeInv, AgOK, AggregateType
  <2>7. CASE SemIface
    <3>1. \E l, v : ag' = [ag EXCEPT ![d].baseclasses = l, ![d].scope = v]
      BY <1>4, <2>7 DEF SemIface, TypeInv, AgOK, AggregateType
    <3> QED BY <1>4, <1>24, <3>1
  <2>8. CASE SemBasesDone
    <3>1. \/ ag' = ag \/ ag' = [ag EXCEPT ![d].scope = TRUE]
          \/ \E c, l : ag' = [ag EXCEPT ![d].baseok = "done", ![d].baseClass = c,
                                        ![d].baseclasses = l]
      BY <1>4, <2>8 DEF SemBasesDone, Postpone, Crash
    <3>2. ag' = [ag EXCEPT ![d].scope = TRUE] => OpenOnly
      BY <1>3, <1>4
    <3>3. ASSUME NEW c, NEW l, ag' = [ag EXCEPT ![d].baseok = "done", ![d].baseClass = c,
                                                 ![d].baseclasses = l]
          PROVE  OpenOnly
      BY <1>4, <1>25, <3>3
    <3> QED BY <1>1, <3>1, <3>2, <3>3
  <2>9. CASE SemSymtab
    <3>1. \E v : ag' = [ag EXCEPT ![d].semanticRun = v] \/ ag' = [ag EXCEPT ![d].symtab = v]
      BY <1>4, <2>9 DEF SemSymtab, TypeInv, AgOK, AggregateType
    <3> QED BY <1>4, <1>20, <1>26, <3>1
  <2>10. CASE SemVtbl
    <3>1. PICK o, u : /\ o = IF ag[d].baseok = "done" THEN "semanticdone" ELSE ag[d].baseok
                      /\ u = IF ag[d].baseok = "done" THEN InheritedVtbl(d) ELSE ag[d].vtbl
      OBVIOUS
    <3>2. ag' = [ag EXCEPT ![d].vtbl = u, ![d].baseok = o, ![d].symtab = "full"]
      BY <1>4, <2>10, <3>1 DEF SemVtbl, TypeInv, AgOK, AggregateType
    <3> QED BY <3>1, <3>2 DEF OpenOnly, BasesOpen, TypeInv, AgOK, AggregateType
  <2>11. CASE SemMethod
    <3>1. \E v : ag' = [ag EXCEPT ![d].vtbl = v]
      BY <1>4, <2>11 DEF SemMethod
    <3> QED BY <1>4, <1>27, <3>1
  <2>12. CASE SemAncestorsForward \/ SemOwnField \/ SemFieldsForward
    <3>1. \/ ag' = [ag EXCEPT ![d].scope = TRUE]
          \/ ag' = [ag EXCEPT ![d].semanticRun = "done", ![d].bad = TRUE, ![d].membersRun = TRUE]
          \/ ag' = [ag EXCEPT ![d].scope = TRUE, ![d].membersRun = TRUE]
      BY <1>4, <2>12 DEF SemAncestorsForward, SemOwnField, SemFieldsForward, Postpone
    <3> QED BY <1>4, <1>3, <1>30, <1>31, <3>1
  <2>13. CASE SemFinish
    <3>1. \E v : ag' = [ag EXCEPT ![Top.d].semanticRun = "done", ![Top.d].membersRun = TRUE,
                                  ![Top.d].bad = v]
      BY <2>13, Zenon DEF SemFinish
    <3> QED BY <1>4, <1>29, <3>1
  <2>14. CASE SemTypesResolved \/ SemField \/ SemLookupMember \/ SemLookedUp \/ SemInstMember
    BY <1>1, <2>14 DEF SemTypesResolved, SemField, SemLookupMember, LookupMember, SemLookedUp,
       SemInstMember, RunDeferred
  <2> QED BY <1>4, <2>1, <2>2, <2>3, <2>4, <2>5, <2>6, <2>7, <2>8, <2>9, <2>10, <2>11, <2>12,
          <2>13, <2>14 DEF SemanticStep
<1>5. ASSUME SemanticStep PROVE Top.d \in Decls
  <2>1. \E pc : At("semantic", pc)
    BY <1>5 DEF SemanticStep, SemReturnAtOnce, SemEnter, SemBaseType, SemBaseTyped,
       SemTypesResolved, SemNoBaseClass, SemCircularBase, SemBaseClass, SemBaseResolved,
       SemDropIface, SemIface, SemBasesDone, SemSymtab, SemAncestorsForward, SemVtbl,
       SemMethod, SemField, SemLookupMember, SemLookedUp, SemInstMember, SemOwnField,
       SemFieldsForward, SemFinish
  <2> QED BY <2>1, AtSemantic
<1>6. ASSUME SearchStep PROVE OpenOnly
  <2>1. ag' = ag \/ \E v : ag' = [ag EXCEPT ![Top.d].inuse = v]
    BY <1>6 DEF SearchStep, SearchEnter, SearchAnalysed, SearchForward, SearchOwn, SearchBase,
       SearchedBase
  <2>2. PICK pc : At("search", pc)
    BY <1>6 DEF SearchStep, SearchEnter, SearchAnalysed, SearchForward, SearchOwn, SearchBase,
       SearchedBase
  <2>3. Top.d \in Decls
    BY <2>2, InActivation
  <2> QED BY <1>1, <1>28, <2>1, <2>3
<1>7. ASSUME DriverStep \/ UNCHANGED vars PROVE OpenOnly
  <2>1. ag' = ag
    BY <1>7 DEF DriverStep, RunRound, RunEach, RunRoundDone, ModuleMember, LookupMember,
       ModuleLookedUp, ModuleDrain, RunDeferred, ModuleEnd, DriverDrain, DriverCheck,
       Stopped, vars
  <2> QED BY <1>1, <2>1
<1> QED BY <1>4, <1>5, <1>6, <1>7 DEF Next

----------------------------------------------------------------------------
(* The steps outside the loops over the bases.                             *)

(* A step outside the analysis of the bases.                               *)
QuietPcs == {"symtab", "ancestors", "members", "looked"}

LEMMA NullQuiet ==
  ASSUME TypeInv, NullInv, stack # <<>>, Kept, btype' = btype, OpenOnly,
         \A x \in Decls : ~AtBases(Top, x),
         \/ Return
         \/ \E f : /\ Stepped(f)
                   /\ f.fn = "semantic" => f.d \in Decls /\ f.pc \in QuietPcs
  PROVE  NullInv'
<1>1. ListsOK' /\ BelowSee /\ prog' = prog /\ bsym' = bsym
  BY ListsKept DEF Kept
<1>2. CASE Return
  BY <1>1, <1>2, NullLeft DEF Left
<1>3. ASSUME NEW f, Stepped(f), f.fn = "semantic" => f.d \in Decls /\ f.pc \in QuietPcs
      PROVE  NullInv'
  <2>1. Sees(f)'
    BY <1>3 DEF Sees, QuietPcs, BasePcs
  <2>2. Arrived(f)
    BY <1>1, <1>3, <2>1 DEF Arrived, Typing, QuietPcs
  <2> QED BY <1>1, <1>3, <2>2, NullArrived
<1> QED BY <1>2, <1>3

LEMMA AtIsQuiet ==
  ASSUME NEW fn, NEW pc, At(fn, pc), fn # "semantic" \/ pc \notin BasePcs
  PROVE  \A x \in Decls : ~AtBases(Top, x)
  BY DEF At, AtBases

LEMMA NullLate ==
  ASSUME TypeInv, StandInv, NullInv, [Next]_vars,
         \/ SemReturnAtOnce \/ SemSymtab \/ SemAncestorsForward \/ SemVtbl \/ SemMethod
         \/ SemField \/ SemLookupMember \/ SemLookedUp \/ SemInstMember \/ SemOwnField
         \/ SemFieldsForward \/ SemFinish
  PROVE  NullInv'
<1>1. PICK pc \in {"enter", "symtab", "ancestors", "members", "looked"} : At("semantic", pc)
  BY DEF SemReturnAtOnce, SemSymtab, SemAncestorsForward, SemVtbl, SemMethod, SemField,
     SemLookupMember, LookupMember, SemLookedUp, SemInstMember, SemOwnField, SemFieldsForward,
     SemFinish
<1>2. /\ stack # <<>> /\ Top.d \in Decls /\ Top.fn = "semantic" /\ Top.pc = pc
      /\ Top \in ActivationType
  BY <1>1, AtSemantic
<1>3. \A x \in Decls : ~AtBases(Top, x)
  BY <1>1, AtIsQuiet DEF BasePcs
<1>4. Kept
  <2>1. SemanticStep
    BY DEF SemanticStep
  <2>2. ~SemNoBaseClass /\ ~SemCircularBase /\ ~SemBaseClass /\ ~SemDropIface /\ ~SemIface
        /\ ~SemBasesDone
    BY <1>1, <1>2 DEF At, SemNoBaseClass, SemCircularBase, SemBaseClass, SemDropIface, SemIface,
       SemBasesDone
  <2> QED BY <2>1, <2>2, KeptBySemantic
<1>5. btype' = btype
  BY DEF SemReturnAtOnce, SemSymtab, SemAncestorsForward, SemVtbl, SemMethod, SemField,
     SemLookupMember, LookupMember, SemLookedUp, SemInstMember, SemOwnField, SemFieldsForward,
     SemFinish, Postpone, RunDeferred
<1>6. \/ Return
      \/ \E f : /\ Stepped(f)
                /\ f.fn = "semantic" => f.d \in Decls /\ f.pc \in QuietPcs
  <2>1. \A p, i : /\ [Top EXCEPT !.pc = p, !.i = i].d = Top.d
                  /\ [Top EXCEPT !.pc = p, !.i = i].pc = p
                  /\ [Top EXCEPT !.pc = p].d = Top.d /\ [Top EXCEPT !.pc = p].pc = p
                  /\ [Top EXCEPT !.i = i].d = Top.d /\ [Top EXCEPT !.i = i].pc = Top.pc
    BY <1>2 DEF ActivationType
  <2>2. ASSUME NEW p \in QuietPcs, NEW i, Goto(p, i)
        PROVE  \E f : Stepped(f) /\ (f.fn = "semantic" => f.d \in Decls /\ f.pc \in QuietPcs)
    <3>1. PICK f : f = [Top EXCEPT !.pc = p, !.i = i]
      OBVIOUS
    <3>2. Become(f)
      BY <2>2, <3>1 DEF Goto
    <3>3. f.d = Top.d /\ f.pc = p
      BY <2>1, <3>1
    <3> QED BY <1>2, <2>2, <3>2, <3>3 DEF Stepped
  <2>3. ASSUME SemLookupMember
        PROVE  \E f : Stepped(f) /\ (f.fn = "semantic" => f.d \in Decls /\ f.pc \in QuietPcs)
    <3>1. PICK g : g = Searching(Member.d, Member.owner)
      OBVIOUS
    <3>2. Opens(g)
      BY <3>1 DEF Opens, Searching, Activation
    <3>3. PICK f : f = [Top EXCEPT !.pc = "looked"]
      OBVIOUS
    <3>4. Call(f, g)
      BY <2>3, <3>1, <3>3 DEF SemLookupMember, LookupMember
    <3>5. f.d = Top.d /\ f.pc = "looked"
      BY <2>1, <3>3
    <3> QED BY <1>2, <3>2, <3>4, <3>5 DEF Stepped, QuietPcs
  <2>4. ASSUME SemInstMember
        PROVE  \E f : Stepped(f) /\ (f.fn = "semantic" => f.d \in Decls /\ f.pc \in QuietPcs)
    <3>1. PICK g : g = Activation("run", NoDecl, FALSE)
      OBVIOUS
    <3>2. Opens(g)
      BY <3>1 DEF Opens, Activation
    <3>3. PICK f : f = [Top EXCEPT !.i = Top.i + 1]
      OBVIOUS
    <3>4. Become(f) \/ Call(f, g)
      BY <2>4, <3>1, <3>3 DEF SemInstMember, RunDeferred
    <3>5. f.d = Top.d /\ f.pc = "members"
      BY <2>1, <2>4, <3>3 DEF SemInstMember, At
    <3> QED BY <1>2, <3>2, <3>4, <3>5 DEF Stepped, QuietPcs
  <2>5. CASE SemSymtab \/ SemVtbl \/ SemMethod \/ SemField \/ SemLookedUp
    <3>1. Return \/ \E p \in QuietPcs, i \in Nat : Goto(p, i)
      BY <1>2, <2>5 DEF SemSymtab, SemVtbl, SemMethod, SemField, SemLookedUp, QuietPcs,
         ActivationType
    <3> QED BY <2>2, <3>1
  <2>6. CASE SemReturnAtOnce \/ SemAncestorsForward \/ SemOwnField \/ SemFieldsForward
             \/ SemFinish
    BY <2>6 DEF SemReturnAtOnce, SemAncestorsForward, SemOwnField, SemFieldsForward, SemFinish,
       Postpone
  <2> QED BY <2>3, <2>4, <2>5, <2>6
<1> QED BY <1>2, <1>3, <1>4, <1>5, <1>6, Closing, NullQuiet

LEMMA NullEnter ==
  ASSUME TypeInv, StandInv, NullInv, [Next]_vars, SemEnter
  PROVE  NullInv'
<1>1. /\ stack # <<>> /\ Top.d \in Decls /\ Top.fn = "semantic" /\ Top.pc = "enter"
      /\ Top \in ActivationType
  BY AtSemantic DEF SemEnter
<1>2. \A x \in Decls : ~AtBases(Top, x)
  BY <1>1 DEF AtBases, BasePcs
<1>3. Kept /\ btype' = btype
  <2>1. SemanticStep
    BY DEF SemanticStep
  <2>2. ~SemNoBaseClass /\ ~SemCircularBase /\ ~SemBaseClass /\ ~SemDropIface /\ ~SemIface
        /\ ~SemBasesDone
    BY <1>1 DEF At, SemNoBaseClass, SemCircularBase, SemBaseClass, SemDropIface, SemIface,
       SemBasesDone
  <2> QED BY <2>1, <2>2, KeptBySemantic DEF SemEnter, Crash
<1>4. PICK pc, s : /\ pc = IF ~IsStruct(Top.d) /\ BasesOpen(Top.d) THEN "types" ELSE "symtab"
                   /\ s = ag[Top.d].scope
  OBVIOUS
<1>5. PICK f : f = [Top EXCEPT !.sc = TRUE, !.scx = s, !.pc = pc]
  OBVIOUS
<1>51. Become(f) /\ pc \in {"types", "symtab"}
  BY <1>4, <1>5, NeverScopeless DEF SemEnter
<1>6. f.fn = "semantic" /\ f.d = Top.d /\ f.pc = pc /\ f.i = Top.i
  BY <1>1, <1>5 DEF ActivationType
<1>7. Top.i = 1
  <2>1. Sees(Top)
    BY <1>1, EmptySeq DEF NullInv, FramesSee, Top, TypeInv, StackOK
  <2> QED BY <1>1, <2>1 DEF Sees
<1>8. Sees(f)'
  BY <1>51, <1>6, <1>7 DEF Sees, BasePcs
<1>9. ListsOK' /\ BelowSee /\ prog' = prog /\ bsym' = bsym
  BY <1>3, ListsKept DEF Kept
<1>10. Arrived(f)
  BY <1>2, <1>51, <1>6, <1>8, <1>9 DEF Arrived, Stepped, Typing
<1> QED BY <1>1, <1>6, <1>9, <1>10, Closing, NullArrived

LEMMA NullAside ==
  ASSUME TypeInv, StandInv, NullInv, [Next]_vars,
         \/ SearchStep
         \/ RunRound \/ RunEach \/ RunRoundDone \/ ModuleMember \/ ModuleLookedUp
         \/ ModuleDrain \/ ModuleEnd
  PROVE  NullInv'
<1>1. PICK fn \in {"search", "run", "module"} : \E pc : At(fn, pc)
  <2>1. CASE SearchStep
    BY <2>1 DEF SearchStep, SearchEnter, SearchAnalysed, SearchForward, SearchOwn, SearchBase,
       SearchedBase
  <2>2. CASE RunRound \/ RunEach \/ RunRoundDone
    BY <2>2 DEF RunRound, RunEach, RunRoundDone
  <2>3. CASE ModuleMember \/ ModuleLookedUp \/ ModuleDrain \/ ModuleEnd
    BY <2>3 DEF ModuleMember, ModuleLookedUp, ModuleDrain, ModuleEnd
  <2> QED BY <2>1, <2>2, <2>3
<1>2. stack # <<>> /\ Top \in ActivationType /\ Top.fn = fn
  BY <1>1, TopIsGood DEF At, TypeInv, GoodFrame
<1>3. \A x \in Decls : ~AtBases(Top, x)
  BY <1>1, AtIsQuiet
<1>4. Kept
  BY KeptByOthers DEF DriverStep
<1>5. btype' = btype
  BY DEF SearchStep, SearchEnter, SearchAnalysed, SearchForward, SearchOwn, SearchBase,
     SearchedBase, RunRound, RunEach, RunRoundDone, ModuleMember, ModuleLookedUp, ModuleDrain,
     ModuleEnd, LookupMember, RunDeferred
<1>6. \A pc1, i, t : /\ [Top EXCEPT !.pc = pc1, !.i = i].fn # "semantic"
                     /\ [Top EXCEPT !.pc = pc1].fn # "semantic"
                     /\ [Top EXCEPT !.i = i].fn # "semantic"
                     /\ [Top EXCEPT !.pc = pc1, !.i = i, !.todo = t].fn # "semantic"
  BY <1>1, <1>2 DEF ActivationType
<1>7. \A n, d, sc : Opens(Activation(n, d, sc))
  BY DEF Activation, Opens
<1>8. \A d, c : Opens(Searching(d, c))
  BY DEF Searching, Activation, Opens
<1>9. Return \/ \E f : f.fn # "semantic" /\ Stepped(f)
  <2>1. ASSUME NEW p, NEW i, Goto(p, i) PROVE \E f : f.fn # "semantic" /\ Stepped(f)
    BY <1>6, <2>1 DEF Goto, Stepped
  <2>2. CASE RunRound
    BY <1>6, <2>2 DEF RunRound, Stepped
  <2>3. CASE RunEach
    BY <1>6, <1>7, <2>3 DEF RunEach, Stepped
  <2>4. CASE RunRoundDone
    BY <2>1, <2>4 DEF RunRoundDone
  <2>5. CASE ModuleMember
    BY <1>6, <1>7, <1>8, <2>5 DEF ModuleMember, LookupMember, Stepped
  <2>6. CASE ModuleLookedUp
    BY <2>1, <2>6 DEF ModuleLookedUp
  <2>7. CASE ModuleDrain
    BY <1>6, <1>7, <2>7 DEF ModuleDrain, RunDeferred, Stepped
  <2>8. CASE ModuleEnd
    BY <2>8 DEF ModuleEnd
  <2>9. CASE SearchEnter
    BY <1>6, <1>7, <2>1, <2>9 DEF SearchEnter, Stepped
  <2>10. CASE SearchBase
    <3>1. \/ Return \/ Goto("bases", Top.i + 1)
          \/ \E c : Call([Top EXCEPT !.pc = "searched"], Searching(c, Top.owner))
      BY <2>10 DEF SearchBase
    <3> QED BY <1>6, <1>8, <2>1, <3>1 DEF Stepped
  <2>11. CASE SearchAnalysed \/ SearchForward \/ SearchOwn \/ SearchedBase
    BY <2>1, <2>11 DEF SearchAnalysed, SearchForward, SearchOwn, SearchedBase
  <2> QED BY <2>2, <2>3, <2>4, <2>5, <2>6, <2>7, <2>8, <2>9, <2>10, <2>11 DEF SearchStep
<1> QED BY <1>2, <1>3, <1>4, <1>5, <1>9, Closing, NullQuiet

----------------------------------------------------------------------------
(* The loop that resolves the types of the bases.                          *)

LEMMA TopSees ==
  ASSUME TypeInv, NullInv, stack # <<>>
  PROVE  Sees(Top) /\ \A x \in Decls : Busy(x) /\ ~AtBases(Top, x) => BusyBelow(x)
<1>1. Len(stack) \in 1..Len(stack)
  BY EmptySeq DEF TypeInv, StackOK
<1> QED BY <1>1 DEF NullInv, FramesSee, Top, Busy, BusyBelow

LEMMA BusyNamed ==
  ASSUME NullInv, NEW d \in Decls, BusyBelow(d) PROVE AllNamed(d)
  BY DEF NullInv, FramesSee, BusyBelow, AtBases, Sees

(* The type of a base is settled.                                          *)
LEMMA TypeSettled ==
  ASSUME TypeInv, NullInv, Kept, NEW d \in Decls, NEW k \in 0..Len(prog.bases[d]),
         NEW v \in {"decl", "error"}, btype' = [btype EXCEPT ![d][k] = v], ~BusyBelow(d)
  PROVE  /\ ListsOK' /\ BelowSee
         /\ \A j \in 1..Len(BaseList(d)) : Named(d, j) \/ BaseList(d)[j] = k => Named(d, j)'
<1>1. \A x \in Decls : ag'[x].baseClass = ag[x].baseClass /\ BaseList(x)' = BaseList(x)
  BY DEF Kept, BaseList
<1>2. \A x, m : HasSym(x, m)' = HasSym(x, m) /\ BaseDecl(x, m)' = BaseDecl(x, m)
  BY DEF Kept, HasSym, BaseDecl
<1>3. \A x : IsClass(x)' = IsClass(x)
  BY DEF Kept, IsClass
<1>4. prog' = prog /\ TypesFun /\ TypesOK
  BY DEF Kept, NullInv, ListsOK
<1>5. /\ \A x \in Decls : \A m \in 1..Len(prog.bases[x]) :
            btype'[x][m] = IF x = d /\ m = k THEN v ELSE btype[x][m]
      /\ TypesFun'
  <2>1. btype' = [x \in Decls |-> [m \in 1..Len(prog.bases[x]) |->
                    IF x = d /\ m = k THEN v ELSE btype[x][m]]]
    BY <1>4 DEF TypesFun
  <2>2. \A x \in Decls : \A m \in 1..Len(prog.bases[x]) :
          btype'[x][m] = IF x = d /\ m = k THEN v ELSE btype[x][m]
    BY <2>1
  <2>3. [x \in Decls |-> [m \in 1..Len(prog.bases[x]) |-> btype'[x][m]]]
          = [x \in Decls |-> [m \in 1..Len(prog.bases[x]) |->
                    IF x = d /\ m = k THEN v ELSE btype[x][m]]]
    BY <2>2
  <2> QED BY <1>4, <2>1, <2>2, <2>3 DEF TypesFun
<1>6. TypesOK'
  BY <1>4, <1>5 DEF TypesOK
<1>7. Ordered' /\ FirstTaken'
  BY <1>1, <1>2, <1>3 DEF NullInv, ListsOK, Ordered, FirstTaken
<1>8. \A x \in Decls : \A j \in 1..Len(BaseList(x)) :
        Named(x, j) \/ (x = d /\ BaseList(x)[j] = k) => Named(x, j)'
  <2> SUFFICES ASSUME NEW x \in Decls, NEW j \in 1..Len(BaseList(x)),
                      Named(x, j) \/ (x = d /\ BaseList(x)[j] = k)
               PROVE  Named(x, j)'
    OBVIOUS
  <2>1. PICK m \in 0..Len(prog.bases[x]) : m = BaseList(x)[j]
    BY ListType
  <2>2. BaseList(x)'[j] = m
    BY <1>1, <2>1
  <2>3. CASE m = 0
    BY <2>2, <2>3 DEF Named, TypeOf
  <2>4. CASE m # 0
    <3>1. m \in 1..Len(prog.bases[x])
      BY <2>4, FieldTypes
    <3>2. btype'[x][m] = IF x = d /\ m = k THEN v ELSE btype[x][m]
      BY <1>5, <3>1
    <3>3. btype'[x][m] # "ident"
      BY <2>1, <2>4, <3>2 DEF Named, TypeOf
    <3> QED BY <2>2, <2>4, <3>3 DEF Named, TypeOf
  <2> QED BY <2>3, <2>4
<1>9. \A x \in Decls : x # d => AllNamed(x)' = AllNamed(x)
  <2> SUFFICES ASSUME NEW x \in Decls, x # d PROVE AllNamed(x)' = AllNamed(x)
    OBVIOUS
  <2>1. \A j \in 1..Len(BaseList(x)) : TypeOf(x, BaseList(x)[j])' = TypeOf(x, BaseList(x)[j])
    <3> SUFFICES ASSUME NEW j \in 1..Len(BaseList(x))
                 PROVE  TypeOf(x, BaseList(x)[j])' = TypeOf(x, BaseList(x)[j])
      OBVIOUS
    <3>1. PICK m \in 0..Len(prog.bases[x]) : m = BaseList(x)[j] /\ m = BaseList(x)'[j]
      BY <1>1, ListType
    <3>2. m # 0 => m \in 1..Len(prog.bases[x])
      BY FieldTypes
    <3> QED BY <1>5, <3>1, <3>2 DEF TypeOf
  <2> QED BY <1>1, <1>2, <2>1 DEF AllNamed, Named
<1>10. BelowSee
  <2> SUFFICES ASSUME NEW f, Below(f) PROVE Sees(f)'
    BY DEF BelowSee
  <2>1. Sees(f) /\ (f.fn = "semantic" => f.d \in Decls) /\ ~AtBases(f, d)
    <3>1. f.fn = "semantic" => f.d \in Decls
      BY ElementOfSeq DEF Below, TypeInv, StackOK, GoodFrame
    <3> QED BY <3>1 DEF Below, BusyBelow, NullInv, FramesSee
  <2> SUFFICES ASSUME f.fn = "semantic", NEW x \in Decls, f.d = x PROVE Sees(f)'
    BY <2>1 DEF Sees
  <2>2. FirstIface(x)' = FirstIface(x)
    BY <1>1 DEF FirstIface
  <2>3. \A i : Passed(x, i)' = Passed(x, i)
    BY <1>1, <1>2, <2>2 DEF Passed
  <2>4. f.pc \in BasePcs => AllNamed(x)'
    BY <1>9, <2>1 DEF Sees, AtBases
  <2> QED BY <1>1, <1>8, <2>1, <2>2, <2>3, <2>4 DEF Sees
<1> QED BY <1>5, <1>6, <1>7, <1>8, <1>10 DEF ListsOK

LEMMA NullBaseType ==
  ASSUME TypeInv, StandInv, NullInv, [Next]_vars, SemBaseType
  PROVE  NullInv'
<1>1. /\ stack # <<>> /\ Top.d \in Decls /\ Top.fn = "semantic" /\ Top.pc = "types"
      /\ Top.i \in Nat \ {0} /\ Top \in ActivationType
  BY AtSemantic DEF SemBaseType
<1> SUFFICES ASSUME NEW d \in Decls, d = Top.d PROVE NullInv'
  BY <1>1
<1>2. \A x \in Decls : ~AtBases(Top, x)
  BY <1>1 DEF AtBases, BasePcs
<1>3. Kept /\ OpenOnly
  <2>1. SemanticStep
    BY DEF SemanticStep
  <2>2. ~SemNoBaseClass /\ ~SemCircularBase /\ ~SemBaseClass /\ ~SemDropIface /\ ~SemIface
        /\ ~SemBasesDone
    BY <1>1 DEF At, SemNoBaseClass, SemCircularBase, SemBaseClass, SemDropIface, SemIface,
       SemBasesDone
  <2> QED BY <2>1, <2>2, KeptBySemantic, Closing
<1>4. PICK i \in 1..Len(BaseList(d)) : i = Top.i
  BY <1>1, FieldTypes DEF SemBaseType
<1>5. PICK k \in 0..Len(prog.bases[d]) : k = BaseList(d)[i]
  BY ListType
<1>6. \A j \in 1..Len(BaseList(d)) : j < i => Named(d, j)
  BY <1>1, <1>4, TopSees DEF Sees
<1>7. prog' = prog /\ bsym' = bsym /\ BaseList(d)' = BaseList(d)
  BY <1>3 DEF Kept, BaseList
<1>8. CASE k = 0 \/ btype[d][k] # "ident" \/ prog.bases[d][k].via = NoDecl
  <2>1. PICK f : f = [Top EXCEPT !.i = Top.i + 1, !.scx = TRUE]
    OBVIOUS
  <2>2. f.fn = "semantic" /\ f.d = d /\ f.pc = "types" /\ f.i = i + 1
    BY <1>1, <1>4, <2>1 DEF ActivationType
  <2>3. Become(f)
    BY <1>4, <1>5, <1>8, <2>1 DEF SemBaseType
  <2>4. ListsOK' /\ BelowSee /\ \A j \in 1..Len(BaseList(d)) : j <= i => Named(d, j)'
    <3>1. CASE k = 0 \/ btype[d][k] # "ident"
      <4>1. btype' = btype
        BY <1>4, <1>5, <3>1 DEF SemBaseType
      <4>2. Named(d, i)
        BY <1>5, <3>1 DEF Named, TypeOf
      <4>3. \A j \in 1..Len(BaseList(d)) : j <= i => Named(d, j)
        BY <1>6, <4>2
      <4>4. \A j : Named(d, j)' = Named(d, j)
        BY <1>7, <4>1 DEF Named, TypeOf
      <4> QED BY <1>3, <4>1, <4>3, <4>4, ListsKept
    <3>2. CASE k # 0 /\ btype[d][k] = "ident"
      <4>1. PICK v : v = ResolvedType(BaseDecl(d, k)) /\ v \in {"decl", "error"}
        BY DEF ResolvedType
      <4>2. btype' = [btype EXCEPT ![d][k] = v]
        BY <1>4, <1>5, <1>8, <3>2, <4>1 DEF SemBaseType
      <4>3. ~BusyBelow(d)
        BY <1>5, <3>2, BusyNamed DEF AllNamed, Named, TypeOf
      <4>4. /\ ListsOK' /\ BelowSee
            /\ \A j \in 1..Len(BaseList(d)) : Named(d, j) \/ BaseList(d)[j] = k => Named(d, j)'
        BY <1>3, <4>1, <4>2, <4>3, TypeSettled
      <4>5. \A j \in 1..Len(BaseList(d)) : j <= i => Named(d, j) \/ BaseList(d)[j] = k
        BY <1>5, <1>6
      <4> QED BY <4>4, <4>5
    <3> QED BY <3>1, <3>2
  <2>5. Sees(f)'
    BY <1>7, <2>2, <2>4 DEF Sees, BasePcs
  <2>6. Arrived(f)
    BY <1>2, <1>7, <2>2, <2>3, <2>5 DEF Arrived, Stepped, Typing
  <2> QED BY <1>1, <1>3, <1>7, <2>2, <2>4, <2>6, NullArrived
<1>9. CASE ~(k = 0 \/ btype[d][k] # "ident" \/ prog.bases[d][k].via = NoDecl)
  <2>1. PICK f, g : /\ f = [Top EXCEPT !.pc = "typed", !.b = k, !.scx = TRUE]
                    /\ g = Searching(prog.bases[d][k].via, prog.bases[d][k].via)
    OBVIOUS
  <2>2. f.fn = "semantic" /\ f.d = d /\ f.pc = "typed" /\ f.i = i /\ f.b = k
    BY <1>1, <1>4, <2>1 DEF ActivationType
  <2>3. Call(f, g) /\ Opens(g) /\ btype' = btype
    <3>1. Opens(g)
      BY <2>1 DEF Opens, Searching, Activation
    <3> QED BY <1>4, <1>5, <1>9, <2>1, <3>1 DEF SemBaseType
  <2>4. ListsOK' /\ BelowSee
    BY <1>3, <2>3, ListsKept
  <2>5. ~BusyBelow(d)
    BY <1>5, <1>9, BusyNamed DEF AllNamed, Named, TypeOf
  <2>6. Sees(f)'
    <3>1. \A j : Named(d, j)' = Named(d, j)
      BY <1>7, <2>3 DEF Named, TypeOf
    <3> QED BY <1>5, <1>6, <1>7, <2>2, <3>1 DEF Sees, BasePcs
  <2>7. Arrived(f)
    BY <1>2, <1>7, <2>2, <2>3, <2>5, <2>6 DEF Arrived, Stepped, Typing
  <2> QED BY <1>1, <1>3, <1>7, <2>2, <2>4, <2>7, NullArrived
<1> QED BY <1>8, <1>9

LEMMA KeptHere ==
  ASSUME TypeInv, SemBaseTyped \/ SemTypesResolved \/ SemBaseResolved
  PROVE  Kept
<1>1. SemanticStep
  BY DEF SemanticStep
<1>2. ~SemNoBaseClass /\ ~SemCircularBase /\ ~SemBaseClass
  BY DEF SemBaseTyped, SemTypesResolved, SemBaseResolved, At, SemNoBaseClass, SemCircularBase,
     SemBaseClass
<1>3. CASE SemBaseTyped \/ SemBaseResolved
  <2>1. ~SemDropIface /\ ~SemIface /\ ~SemBasesDone
    BY <1>3 DEF SemBaseTyped, SemBaseResolved, At, SemDropIface, SemIface, SemBasesDone
  <2> QED BY <1>1, <1>2, <2>1, KeptBySemantic
<1>4. CASE SemTypesResolved
  BY <1>4 DEF SemTypesResolved, Kept
<1> QED BY <1>3, <1>4

LEMMA NullBaseTyped ==
  ASSUME TypeInv, StandInv, NullInv, [Next]_vars, SemBaseTyped
  PROVE  NullInv'
<1>1. /\ stack # <<>> /\ Top.d \in Decls /\ Top.fn = "semantic" /\ Top.pc = "typed"
      /\ Top.i \in Nat \ {0} /\ Top \in ActivationType /\ Top.b \in 0..Len(prog.bases[Top.d])
  BY AtSemantic, InActivation DEF SemBaseTyped
<1> SUFFICES ASSUME NEW d \in Decls, d = Top.d PROVE NullInv'
  BY <1>1
<1>2. \A x \in Decls : ~AtBases(Top, x)
  BY <1>1 DEF AtBases, BasePcs
<1>3. Kept /\ OpenOnly
  BY KeptHere, Closing
<1>4. PICK i \in Nat \ {0}, k \in 0..Len(prog.bases[d]) : i = Top.i /\ k = Top.b
  BY <1>1
<1>5. \A j \in 1..Len(BaseList(d)) : j <= i => Named(d, j) \/ BaseList(d)[j] = k
  BY <1>1, <1>4, TopSees DEF Sees
<1>6. prog' = prog /\ bsym' = bsym /\ BaseList(d)' = BaseList(d)
  BY <1>3 DEF Kept, BaseList
<1>7. PICK v \in {"decl", "error"} : btype' = [btype EXCEPT ![d][k] = v]
  <2>1. PICK v : v = IF found THEN ResolvedType(BaseDecl(Top.d, Top.b)) ELSE "error"
    OBVIOUS
  <2>2. v \in {"decl", "error"}
    BY <2>1 DEF ResolvedType
  <2>3. btype' = [btype EXCEPT ![d][k] = v]
    BY <1>4, <2>1 DEF SemBaseTyped
  <2> QED BY <2>2, <2>3
<1>8. ~BusyBelow(d)
  <2>1. PICK n \in 1..Len(stack) : n = Len(stack) /\ n \in Nat /\ Top = stack[n]
    BY <1>1, EmptySeq DEF TypeInv, StackOK, Top
  <2>2. Typing(stack[n], stack[n].d) /\ stack[n].d = d
    BY <1>1, <2>1 DEF Typing
  <2> QED BY <2>1, <2>2 DEF NullInv, NamedOnce, BusyBelow
<1>9. /\ ListsOK' /\ BelowSee
      /\ \A j \in 1..Len(BaseList(d)) : Named(d, j) \/ BaseList(d)[j] = k => Named(d, j)'
  BY <1>3, <1>7, <1>8, TypeSettled
<1>10. PICK f : f = [Top EXCEPT !.pc = "types", !.i = Top.i + 1]
  OBVIOUS
<1>11. f.fn = "semantic" /\ f.d = d /\ f.pc = "types" /\ f.i = i + 1
  BY <1>1, <1>4, <1>10 DEF ActivationType
<1>12. Become(f)
  BY <1>10 DEF SemBaseTyped, Goto
<1>13. Sees(f)'
  <2>1. \A j \in 1..Len(BaseList(d)) : j < i + 1 => j <= i
    BY <1>4, FieldTypes
  <2> QED BY <1>5, <1>6, <1>9, <1>11, <2>1 DEF Sees, BasePcs
<1>14. Arrived(f)
  BY <1>2, <1>6, <1>11, <1>12, <1>13 DEF Arrived, Stepped, Typing
<1> QED BY <1>1, <1>3, <1>6, <1>9, <1>11, <1>14, NullArrived

LEMMA NullTypesResolved ==
  ASSUME TypeInv, EdgeInv, StandInv, NullInv, [Next]_vars, SemTypesResolved
  PROVE  NullInv'
<1>1. /\ stack # <<>> /\ Top.d \in Decls /\ Top.fn = "semantic" /\ Top.pc = "types"
      /\ Top.i \in Nat \ {0} /\ Top \in ActivationType
  BY AtSemantic DEF SemTypesResolved
<1> SUFFICES ASSUME NEW d \in Decls, d = Top.d PROVE NullInv'
  BY <1>1
<1>2. \A x \in Decls : ~AtBases(Top, x)
  BY <1>1 DEF AtBases, BasePcs
<1>3. Kept /\ OpenOnly /\ btype' = btype
  BY KeptHere, Closing DEF SemTypesResolved
<1>4. ListsOK' /\ BelowSee /\ prog' = prog /\ bsym' = bsym
  BY <1>3, ListsKept DEF Kept
<1>5. ASSUME BasesOpen(d), NEW pc \in {"base", "ifaces"}, Goto(pc, 1),
             pc = "ifaces" => ~IsClass(d)
      PROVE  NullInv'
  <2>1. PICK f : f = [Top EXCEPT !.pc = pc, !.i = 1]
    OBVIOUS
  <2>2. f.fn = "semantic" /\ f.d = d /\ f.pc = pc /\ f.i = 1
    BY <1>1, <2>1 DEF ActivationType
  <2>3. Become(f)
    BY <1>5, <2>1 DEF Goto
  <2>4. \A j \in 1..Len(BaseList(d)) : Named(d, j)
    <3>1. \A j \in 1..Len(BaseList(d)) : j < Top.i
      BY <1>1, FieldTypes DEF SemTypesResolved
    <3> QED BY <1>1, <3>1, TopSees DEF Sees
  <2>5. AllNamed(d)
    <3>1. CASE Busy(d)
      BY <1>1, <1>2, <3>1, TopSees, BusyNamed
    <3>2. CASE ~Busy(d)
      <4>1. ~IsStruct(d)
        BY <1>1, InKnown DEF SemTypesResolved, Ready, EarlyPcs
      <4>2. bsym[d] = {}
        BY <1>5, <3>2, <4>1 DEF NullInv, Fresh
      <4> QED BY <2>4, <4>2 DEF AllNamed, HasSym, TypeOf
    <3> QED BY <3>1, <3>2
  <2>6. pc = "ifaces" => FirstIface(d) = 1
    BY <1>5 DEF EdgeInv, BasesKept, FirstIface
  <2>7. Sees(f)
    <3>1. pc = "ifaces" => Passed(d, 0) /\ FirstIface(d) <= 1
      BY <2>6 DEF Passed
    <3> QED BY <2>2, <2>5, <3>1 DEF Sees
  <2>8. Sees(f)'
    BY <1>3, <2>2, <2>7, SeesKept
  <2>9. Arrived(f)
    BY <1>2, <1>4, <2>2, <2>3, <2>8 DEF Arrived, Stepped, Typing
  <2> QED BY <1>1, <1>3, <1>4, <2>2, <2>9, NullArrived
<1>6. CASE BasesOpen(d)
  BY <1>5, <1>6 DEF SemTypesResolved
<1>7. CASE ~BasesOpen(d) /\ Return
  BY <1>1, <1>2, <1>3, <1>7, NullQuiet
<1>8. CASE ~BasesOpen(d) /\ Goto("symtab", 1)
  <2>1. PICK f : f = [Top EXCEPT !.pc = "symtab", !.i = 1]
    OBVIOUS
  <2>2. f.d = d /\ f.pc = "symtab" /\ Stepped(f)
    BY <1>1, <1>8, <2>1 DEF ActivationType, Goto, Stepped
  <2> QED BY <1>1, <1>2, <1>3, <2>2, NullQuiet DEF QuietPcs
<1> QED BY <1>6, <1>7, <1>8 DEF SemTypesResolved

LEMMA NullBaseResolved ==
  ASSUME TypeInv, EdgeInv, StandInv, NullInv, [Next]_vars, SemBaseResolved
  PROVE  NullInv'
<1>1. /\ stack # <<>> /\ Top.d \in Decls /\ Top.fn = "semantic" /\ Top.pc \in {"based", "ifaced"}
      /\ Top.i \in Nat \ {0} /\ Top \in ActivationType
  BY AtSemantic DEF SemBaseResolved
<1> SUFFICES ASSUME NEW d \in Decls, d = Top.d PROVE NullInv'
  BY <1>1
<1>3. Kept /\ OpenOnly /\ btype' = btype
  BY KeptHere, Closing DEF SemBaseResolved
<1>4. ListsOK' /\ BelowSee /\ prog' = prog /\ bsym' = bsym
  BY <1>3, ListsKept DEF Kept
<1>5. PICK i \in Nat : i = IF Top.pc = "based" THEN 2 ELSE Top.i + 1
  BY <1>1
<1>6. PICK f : f = [Top EXCEPT !.pc = "ifaces", !.i = i]
  OBVIOUS
<1>7. f.fn = "semantic" /\ f.d = d /\ f.pc = "ifaces" /\ f.i = i
  BY <1>1, <1>6 DEF ActivationType
<1>8. Become(f)
  BY <1>5, <1>6 DEF SemBaseResolved, Goto
<1>9. Sees(f)
  <2>1. AllNamed(d)
    BY <1>1, TopSees DEF Sees, BasePcs
  <2>2. Passed(d, i - 1) /\ FirstIface(d) <= i
    <3>1. CASE Top.pc = "based"
      <4>1. FirstIface(d) = 2 /\ i = 2
        BY <1>1, <1>5, <3>1, TopSees DEF Sees, FirstIface
      <4> QED BY <4>1, FieldTypes DEF Passed
    <3>2. CASE Top.pc = "ifaced"
      <4>1. Passed(d, Top.i) /\ i - 1 = Top.i
        BY <1>1, <1>5, <3>2, TopSees DEF Sees
      <4>2. FirstIface(d) <= i
        BY <1>1, <1>5, <3>2 DEF FirstIface
      <4> QED BY <4>1, <4>2
    <3> QED BY <1>1, <3>1, <3>2
  <2> QED BY <1>7, <2>1, <2>2 DEF Sees
<1>10. Sees(f)'
  BY <1>3, <1>7, <1>9, SeesKept
<1>11. Arrived(f)
  BY <1>1, <1>4, <1>7, <1>8, <1>10 DEF Arrived, Stepped, Typing, AtBases, BasePcs
<1> QED BY <1>1, <1>3, <1>4, <1>7, <1>11, NullArrived

LEMMA NullDrain == ASSUME TypeInv, NullInv, DriverDrain PROVE NullInv'
<1>1. UNCHANGED <<prog, ag, btype, bsym>> /\ stack = <<>>
  BY DEF DriverDrain
<1>2. CASE stack' = stack
  BY <1>1, <1>2, NullStays
<1>3. CASE stack' = <<Activation("run", NoDecl, FALSE)>>
  <2>1. PICK g : g = Activation("run", NoDecl, FALSE)
    OBVIOUS
  <2>2. g.fn = "run"
    BY <2>1 DEF Activation
  <2>3. stack' = <<g>> /\ Len(stack') = 1 /\ stack'[1] = g
    BY <1>3, <2>1
  <2>4. Kept /\ btype' = btype
    BY <1>1 DEF Kept
  <2>5. ListsOK'
    BY <2>4, ListsKept
  <2>6. FramesSee' /\ NamedOnce' /\ LoopOnTop'
    <3>1. Sees(g)'
      BY <2>2 DEF Sees
    <3> SUFFICES FramesSee'
      BY <2>2, <2>3 DEF NamedOnce, LoopOnTop, Typing
    <3> SUFFICES ASSUME NEW k \in 1..Len(stack'), NEW f, f = stack'[k] PROVE Sees(f)'
      BY DEF FramesSee
    <3> QED BY <2>3, <3>1
  <2>7. \A x \in Decls : ~Busy(x)
    BY <1>1 DEF Busy
  <2>8. Fresh'
    BY <1>1, <2>7 DEF NullInv, Fresh, IsStruct, BasesOpen
  <2> QED BY <2>5, <2>6, <2>8 DEF NullInv
<1> QED BY <1>2, <1>3 DEF DriverDrain

----------------------------------------------------------------------------
(* Dropping a base, and giving it its symbol.                              *)

(* No way leads back along the inheritance edges.                          *)
LEMMA NoWayBack ==
  ASSUME Acyclic, NEW E, \A x \in Decls : E[x] \subseteq Supers(x) /\ E[x] \subseteq Decls,
         NEW d \in Decls, NEW c \in Decls, c \in Supers(d)
  PROVE  d \notin ReachBy(E, c)
<1> SUFFICES ASSUME d \in ReachBy(E, c) PROVE FALSE
  OBVIOUS
<1> DEFINE S == {y \in Decls : d \in ReachBy(E, y)}
<1>1. d \in S /\ c \in S
  BY ReachClosed
<1>2. PICK x \in S : Supers(x) \cap S = {}
  <2>1. S \in SUBSET Decls /\ S # {}
    BY <1>1
  <2> HIDE DEF S
  <2> QED BY <2>1 DEF Acyclic
<1>3. x # d
  BY <1>1, <1>2
<1> DEFINE T == {x} \cup {y \in Decls : d \notin ReachBy(E, y)}
<1>4. \A y \in T : E[y] \subseteq T
  <2>1. E[x] \subseteq T
    BY <1>2
  <2>2. ASSUME NEW y \in Decls, d \notin ReachBy(E, y), NEW z \in E[y]
        PROVE  d \notin ReachBy(E, z)
    <3>1. z \in ReachBy(E, y) /\ z \in Decls
      BY <2>2, ReachClosed
    <3>2. ReachBy(E, z) \subseteq ReachBy(E, y)
      <4>1. ReachBy(E, y) \in SUBSET Decls /\ \A w \in ReachBy(E, y) : E[w] \subseteq ReachBy(E, y)
        BY ReachClosed
      <4> QED BY <3>1, <4>1, ReachLeast
    <3> QED BY <2>2, <3>2
  <2> QED BY <2>1, <2>2
<1>5. T \in SUBSET Decls /\ x \in T /\ x \in Decls
  OBVIOUS
<1> HIDE DEF T
<1>6. ReachBy(E, x) \subseteq T
  BY <1>4, <1>5, ReachLeast
<1>7. d \in T
  BY <1>2, <1>6
<1>8. d \in ReachBy(E, d)
  BY ReachClosed
<1> QED BY <1>3, <1>7, <1>8 DEF T

LEMMA ChainAhead ==
  ASSUME EdgeInv, NEW d \in Decls, ag[d].baseClass # NoDecl
  PROVE  d \notin BaseClassChain(ag[d].baseClass)
<1> DEFINE E == [x \in Decls |-> {ag[x].baseClass} \ {NoDecl}]
<1>1. \A x \in Decls : E[x] \subseteq Supers(x) /\ E[x] \subseteq Decls
  BY ListType DEF EdgeInv, Supers, MaybeDecl
<1>2. ag[d].baseClass \in Decls /\ ag[d].baseClass \in Supers(d)
  BY ListType DEF EdgeInv, Supers, MaybeDecl
<1> HIDE DEF E
<1>3. d \notin ReachBy(E, ag[d].baseClass)
  BY <1>1, <1>2, NoWayBack DEF EdgeInv
<1> QED BY <1>3 DEF BaseClassChain, E

LEMMA IfaceAhead ==
  ASSUME EdgeInv, NEW d \in Decls, NEW c \in SymBases(d)
  PROVE  ~IsCircularIface(d, c)
<1> DEFINE E == [x \in Decls |-> SymBases(x)]
<1>1. \A x \in Decls : E[x] \subseteq Supers(x) /\ E[x] \subseteq Decls
  BY SymBasesType DEF EdgeInv, Supers
<1>2. c \in Decls /\ c \in Supers(d) /\ \A x \in Decls : E[x] = SymBases(x)
  BY SymBasesType DEF EdgeInv, Supers
<1> HIDE DEF E
<1>3. d \notin ReachBy(E, c)
  BY <1>1, <1>2, NoWayBack DEF EdgeInv
<1>4. \A x \in ReachBy(E, c) : x \in Decls /\ d \notin SymBases(x)
  BY <1>1, <1>2, <1>3, ReachClosed
<1>5. c # d
  BY <1>1, <1>2, <1>3, ReachClosed
<1>6. ~IsBaseOf2(d, c)
  BY <1>4 DEF IsBaseOf2, E
<1> QED BY <1>5, <1>6 DEF IsCircularIface

(* What a base with a symbol is.                                           *)
LEMMA WithSym ==
  ASSUME EdgeInv, NullInv, NEW d \in Decls, AllNamed(d),
         NEW j \in 1..Len(BaseList(d)), HasSym(d, BaseList(d)[j])
  PROVE  LET k == BaseList(d)[j] IN
         \/ /\ j = 1 /\ FirstIface(d) = 2 /\ KindOf(d, k) = "class"
            /\ d \notin BaseClassChain(BaseDecl(d, k))
         \/ IsIfaceBase(d, k) /\ ~IsCircularIface(d, BaseDecl(d, k))
<1>1. PICK k \in 0..Len(prog.bases[d]), c \in Decls : k = BaseList(d)[j] /\ c = BaseDecl(d, k)
  BY ListType DEF EdgeInv
<1>2. TypeOf(d, k) # "error"
  BY <1>1 DEF AllNamed
<1>3. KindOf(d, k) = prog.kind[c]
  BY <1>1, <1>2 DEF KindOf
<1>4. c \in SymBases(d)
  BY <1>1 DEF SymBases, Elems
<1>5. CASE IsIface(c)
  BY <1>1, <1>3, <1>4, <1>5, IfaceAhead DEF IsIfaceBase, IsIface
<1>6. CASE ~IsIface(c)
  <2>1. j = 1 /\ c = ag[d].baseClass
    BY <1>1, <1>6 DEF EdgeInv, BasesKept
  <2>2. ag[d].baseClass # NoDecl
    BY <2>1, ConstantsAssumption
  <2>3. IsClass(c)
    BY <2>1, <2>2 DEF NullInv, ListsOK, FirstTaken
  <2> QED BY <1>1, <1>3, <2>1, <2>2, <2>3, ChainAhead DEF FirstIface, IsClass
<1> QED BY <1>5, <1>6

(* The bases of a declaration change.                                      *)
LEMMA NullLists ==
  ASSUME TypeInv, NullInv, NEW d \in Decls, prog' = prog, btype' = btype,
         \A x \in Decls : x # d => /\ ag'[x].baseClass = ag[x].baseClass
                                   /\ ag'[x].baseclasses = ag[x].baseclasses
                                   /\ bsym'[x] = bsym[x],
         AllNamed(d)', \A i \in Int : Passed(d, i) => Passed(d, i)',
         \A i, j \in 1..Len(BaseList(d)') : i < j => BaseList(d)'[i] < BaseList(d)'[j],
         ag'[d].baseClass # NoDecl =>
            /\ IsClass(ag'[d].baseClass) /\ 1 \in 1..Len(BaseList(d)')
            /\ HasSym(d, BaseList(d)[1])' /\ BaseDecl(d, BaseList(d)'[1]) = ag'[d].baseClass,
         ag[d].baseClass # NoDecl => ag'[d].baseClass # NoDecl
  PROVE  ListsOK' /\ BelowSee
<1>1. \A x \in Decls : x # d => BaseList(x)' = BaseList(x) /\ FirstIface(x)' = FirstIface(x)
                                 /\ \A m : HasSym(x, m)' = HasSym(x, m)
  BY DEF BaseList, FirstIface, HasSym
<1>2. \A x, m : BaseDecl(x, m)' = BaseDecl(x, m) /\ TypeOf(x, m)' = TypeOf(x, m)
  BY DEF BaseDecl, TypeOf
<1>3. \A x : IsClass(x)' = IsClass(x)
  BY DEF IsClass
<1>4. TypesFun' /\ TypesOK'
  BY DEF NullInv, ListsOK, TypesFun, TypesOK
<1>5. Ordered'
  BY <1>1 DEF NullInv, ListsOK, Ordered
<1>6. FirstTaken'
  <2> SUFFICES ASSUME NEW x \in Decls, ag'[x].baseClass # NoDecl
               PROVE  /\ IsClass(ag[x].baseClass)' /\ 1 \in 1..Len(BaseList(x)')
                      /\ HasSym(x, BaseList(x)[1])'
                      /\ BaseDecl(x, BaseList(x)[1])' = ag'[x].baseClass
    BY DEF FirstTaken
  <2>1. CASE x = d
    BY <1>2, <1>3, <2>1 DEF IsClass
  <2>2. CASE x # d
    <3>1. /\ IsClass(ag[x].baseClass) /\ 1 \in 1..Len(BaseList(x))
          /\ HasSym(x, BaseList(x)[1]) /\ BaseDecl(x, BaseList(x)[1]) = ag[x].baseClass
      BY <2>2 DEF NullInv, ListsOK, FirstTaken
    <3> QED BY <1>1, <1>2, <2>2, <3>1 DEF IsClass
  <2> QED BY <2>1, <2>2
<1>7. BelowSee
  <2> SUFFICES ASSUME NEW f, Below(f) PROVE Sees(f)'
    BY DEF BelowSee
  <2>1. /\ Sees(f) /\ (f.fn = "semantic" => f.d \in Decls /\ f.i \in Int)
        /\ f.fn = "semantic" => f.pc # "ifaces"
    <3>1. f.fn = "semantic" => f.d \in Decls /\ f.i \in Int
      BY ElementOfSeq DEF Below, TypeInv, StackOK, GoodFrame, ActivationType
    <3> QED BY <3>1 DEF Below, NullInv, FramesSee, LoopOnTop
  <2> SUFFICES ASSUME f.fn = "semantic", NEW x \in Decls, f.d = x PROVE Sees(f)'
    BY <2>1 DEF Sees
  <2>2. CASE x = d
    BY <2>1, <2>2 DEF Sees, AllNamed
  <2>3. CASE x # d
    <3>1. \A j : Named(x, j)' = Named(x, j)
      BY <1>1, <1>2, <2>3 DEF Named
    <3>2. AllNamed(x)' = AllNamed(x) /\ \A i : Passed(x, i)' = Passed(x, i)
      BY <1>1, <1>2, <2>3, <3>1 DEF AllNamed, Passed
    <3> QED BY <1>1, <2>1, <2>3, <3>1, <3>2 DEF Sees
  <2> QED BY <2>2, <2>3
<1> QED BY <1>4, <1>5, <1>6, <1>7 DEF ListsOK

OnlyBasesOf(d) ==
  /\ prog' = prog /\ btype' = btype
  /\ \A x \in Decls : x # d => /\ ag'[x].baseClass = ag[x].baseClass
                               /\ ag'[x].baseclasses = ag[x].baseclasses
                               /\ bsym'[x] = bsym[x]

(* A base is dropped that has no symbol, or the last one.                  *)
LEMMA NullRemove ==
  ASSUME EdgeInv, NullInv, NEW d \in Decls, OnlyBasesOf(d), AllNamed(d),
         NEW K \in SUBSET Nat, \A k \in K : TypeOf(d, k) # "error",
         bsym'[d] = bsym[d] \cup K, ag'[d].baseClass = ag[d].baseClass,
         NEW j \in 1..Len(BaseList(d)), ag'[d].baseclasses = RemoveAt(BaseList(d), j),
         ~HasSym(d, BaseList(d)[j]) \/ (j = Len(BaseList(d)) /\ j # 1)
  PROVE  /\ ListsOK' /\ BelowSee /\ AllNamed(d)' /\ \A i \in Int : Passed(d, i) => Passed(d, i)'
         /\ FirstIface(d)' = FirstIface(d) /\ Len(BaseList(d)') = Len(BaseList(d)) - 1
<1>0. PICK s, t : s = BaseList(d) /\ t = RemoveAt(s, j)
  OBVIOUS
<1>1. /\ s \in Seq(Nat) /\ Len(s) \in Nat /\ Len(t) = Len(s) - 1
      /\ \A x \in 1..(Len(s) - 1) :
           t[x] = IF x < j THEN s[x] ELSE s[x + 1]
  <2>1. BaseList(d) \in Seq(Nat) /\ Len(BaseList(d)) \in Nat
    BY FieldTypes DEF EdgeInv
  <2>2. s \in Seq(Nat) /\ Len(s) \in Nat /\ j \in 1..Len(s)
    BY <1>0, <2>1
  <2>3. /\ Len(RemoveAt(s, j)) = Len(s) - 1
        /\ \A x \in 1..(Len(s) - 1) :
             RemoveAt(s, j)[x] = IF x < j THEN s[x] ELSE s[x + 1]
    BY <2>2, RemoveAtType
  <2> QED BY <1>0, <2>2, <2>3, Zenon
<1>2. BaseList(d)' = t
  BY <1>0 DEF BaseList
<1> DEFINE up(x) == IF x < j THEN x ELSE x + 1
<1>3. \A x \in 1..Len(t) : up(x) \in 1..Len(s) /\ t[x] = s[up(x)]
  BY <1>1
<1>4. \A x, y \in 1..Len(t) : x < y => up(x) < up(y)
  BY <1>1
<1>5. \A x \in 1..Len(t) : x < j => up(x) = x
  OBVIOUS
<1>6. FirstIface(d)' = FirstIface(d) /\ FirstIface(d) \in {1, 2}
  BY DEF FirstIface
<1>7. \A m : TypeOf(d, m)' = TypeOf(d, m) /\ BaseDecl(d, m)' = BaseDecl(d, m)
             /\ (HasSym(d, m) => HasSym(d, m)') /\ (HasSym(d, m)' => HasSym(d, m) \/ m \in K)
  BY DEF OnlyBasesOf, TypeOf, BaseDecl, HasSym
<1>8. AllNamed(d)'
  <2> SUFFICES ASSUME NEW x \in 1..Len(t)
               PROVE  /\ TypeOf(d, t[x]) # "ident"
                      /\ HasSym(d, t[x])' => TypeOf(d, t[x]) # "error"
    BY <1>0, <1>2, <1>7 DEF AllNamed, Named
  <2> QED BY <1>0, <1>3, <1>7 DEF AllNamed, Named
<1>9. ag[d].baseClass # NoDecl => j # 1
  <2> SUFFICES ASSUME ag[d].baseClass # NoDecl, j = 1 PROVE FALSE
    OBVIOUS
  <2> QED BY <1>0 DEF NullInv, ListsOK, FirstTaken
<1>10. ASSUME NEW i \in Int, Passed(d, i) PROVE Passed(d, i)'
  <2> SUFFICES ASSUME NEW x \in 1..Len(t), FirstIface(d) <= x, x <= i
               PROVE  HasSym(d, t[x])'
    BY <1>0, <1>2, <1>6 DEF Passed
  <2>0. x \in Int /\ j \in 1..Len(s)
    BY <1>0, <1>1
  <2>1. x < j
    <3>1. CASE ~HasSym(d, s[j])
      <4> SUFFICES ASSUME j <= x PROVE FALSE
        BY <1>1
      <4>1. ~(FirstIface(d) <= j /\ j <= i)
        BY <1>0, <2>0, <3>1, <1>10 DEF Passed
      <4>2. j = 1 /\ FirstIface(d) = 2
        BY <1>1, <1>6, <2>0, <4>1
      <4> QED BY <1>9, <4>2 DEF FirstIface
    <3>2. CASE j = Len(s)
      BY <1>1, <3>2
    <3> QED BY <1>0, <3>1, <3>2
  <2>2. t[x] = s[x] /\ x \in 1..Len(s)
    BY <1>3, <1>5, <2>1
  <2> QED BY <1>0, <1>7, <1>10, <2>2 DEF Passed
<1>11. \A a, b \in 1..Len(t) : a < b => t[a] < t[b]
  <2>1. \A a, b \in 1..Len(s) : a < b => s[a] < s[b]
    BY <1>0 DEF NullInv, ListsOK, Ordered
  <2> HIDE DEF up
  <2> QED BY <1>3, <1>4, <2>1
<1>12. ag[d].baseClass # NoDecl =>
         /\ IsClass(ag[d].baseClass) /\ 1 \in 1..Len(t)
         /\ HasSym(d, t[1])' /\ BaseDecl(d, t[1]) = ag[d].baseClass
  <2> SUFFICES ASSUME ag[d].baseClass # NoDecl
               PROVE  /\ IsClass(ag[d].baseClass) /\ 1 \in 1..Len(t)
                      /\ HasSym(d, t[1])' /\ BaseDecl(d, t[1]) = ag[d].baseClass
    OBVIOUS
  <2>1. /\ IsClass(ag[d].baseClass) /\ 1 \in 1..Len(s)
        /\ HasSym(d, s[1]) /\ BaseDecl(d, s[1]) = ag[d].baseClass
    BY <1>0 DEF NullInv, ListsOK, FirstTaken
  <2>2. 1 < j /\ 1 \in 1..Len(t) /\ t[1] = s[1]
    <3>1. j \in 1..Len(s) /\ j # 1
      BY <1>0, <1>9
    <3> QED BY <1>1, <3>1
  <2> QED BY <1>7, <2>1, <2>2
<1>13. /\ prog' = prog /\ btype' = btype
       /\ \A x \in Decls : x # d => /\ ag'[x].baseClass = ag[x].baseClass
                                    /\ ag'[x].baseclasses = ag[x].baseclasses
                                    /\ bsym'[x] = bsym[x]
  BY DEF OnlyBasesOf
<1>14. ListsOK' /\ BelowSee
  <2>1. TypeInv
    BY DEF EdgeInv
  <2>2. \A i \in Int : Passed(d, i) => Passed(d, i)'
    BY <1>10
  <2>3. \A a, b \in 1..Len(BaseList(d)') : a < b => BaseList(d)'[a] < BaseList(d)'[b]
    BY <1>2, <1>11
  <2>4. ag'[d].baseClass # NoDecl =>
            /\ IsClass(ag'[d].baseClass) /\ 1 \in 1..Len(BaseList(d)')
            /\ HasSym(d, BaseList(d)[1])' /\ BaseDecl(d, BaseList(d)'[1]) = ag'[d].baseClass
    BY <1>2, <1>12 DEF IsClass
  <2> QED BY <1>8, <1>13, <2>1, <2>2, <2>3, <2>4, NullLists
<1> QED BY <1>0, <1>1, <1>2, <1>6, <1>8, <1>10, <1>14

(* Bases get their symbol, the first one perhaps as the base class.        *)
LEMMA NullSymbols ==
  ASSUME EdgeInv, NullInv, NEW d \in Decls, OnlyBasesOf(d), AllNamed(d),
         NEW K \in SUBSET Nat, \A k \in K : TypeOf(d, k) # "error",
         bsym'[d] = bsym[d] \cup K, ag'[d].baseclasses = BaseList(d),
         \/ ag'[d].baseClass = ag[d].baseClass
         \/ /\ ag'[d].baseClass \in Decls /\ IsClass(ag'[d].baseClass)
            /\ 1 \in 1..Len(BaseList(d)) /\ BaseDecl(d, BaseList(d)[1]) = ag'[d].baseClass
            /\ BaseList(d)[1] \in K \cup {0}
  PROVE  /\ ListsOK' /\ BelowSee /\ AllNamed(d)' /\ \A i \in Int : Passed(d, i) => Passed(d, i)'
<1>0. PICK s : s = BaseList(d)
  OBVIOUS
<1>1. BaseList(d)' = s
  BY <1>0 DEF BaseList
<1>2. FirstIface(d)' \in {FirstIface(d), 2} /\ FirstIface(d) \in {1, 2}
  <2>1. CASE ag'[d].baseClass = ag[d].baseClass
    BY <2>1 DEF FirstIface
  <2>2. CASE ag'[d].baseClass \in Decls
    BY <2>2, ConstantsAssumption DEF FirstIface
  <2> QED BY <2>1, <2>2
<1>3. \A m : TypeOf(d, m)' = TypeOf(d, m) /\ BaseDecl(d, m)' = BaseDecl(d, m)
             /\ (HasSym(d, m) => HasSym(d, m)') /\ (HasSym(d, m)' => HasSym(d, m) \/ m \in K)
             /\ (m \in K \cup {0} => HasSym(d, m)')
  BY DEF OnlyBasesOf, TypeOf, BaseDecl, HasSym
<1>4. AllNamed(d)'
  <2> SUFFICES ASSUME NEW x \in 1..Len(s)
               PROVE  /\ TypeOf(d, s[x]) # "ident"
                      /\ HasSym(d, s[x])' => TypeOf(d, s[x]) # "error"
    BY <1>1, <1>3 DEF AllNamed, Named
  <2> QED BY <1>0, <1>3 DEF AllNamed, Named
<1>5. \A i \in Int : Passed(d, i) => Passed(d, i)'
  <2> SUFFICES ASSUME NEW i \in Int, Passed(d, i), NEW j \in 1..Len(s),
                      FirstIface(d)' <= j, j <= i
               PROVE  HasSym(d, s[j])'
    BY <1>1 DEF Passed
  <2>1. FirstIface(d) <= j
    BY <1>0, <1>2, ListType DEF EdgeInv
  <2> QED BY <1>0, <1>3, <2>1 DEF Passed
<1>6. \A i, j \in 1..Len(BaseList(d)') : i < j => BaseList(d)'[i] < BaseList(d)'[j]
  BY <1>0, <1>1 DEF NullInv, ListsOK, Ordered
<1>7. ag'[d].baseClass # NoDecl =>
            /\ IsClass(ag'[d].baseClass) /\ 1 \in 1..Len(BaseList(d)')
            /\ HasSym(d, BaseList(d)[1])' /\ BaseDecl(d, BaseList(d)'[1]) = ag'[d].baseClass
  BY <1>0, <1>1, <1>3 DEF NullInv, ListsOK, FirstTaken
<1>8. ag[d].baseClass # NoDecl => ag'[d].baseClass # NoDecl
  BY ConstantsAssumption
<1>9. /\ prog' = prog /\ btype' = btype
      /\ \A x \in Decls : x # d => /\ ag'[x].baseClass = ag[x].baseClass
                                   /\ ag'[x].baseclasses = ag[x].baseclasses
                                   /\ bsym'[x] = bsym[x]
  BY DEF OnlyBasesOf
<1>10. ListsOK' /\ BelowSee
  BY <1>4, <1>5, <1>6, <1>7, <1>8, <1>9, NullLists DEF EdgeInv
<1> QED BY <1>4, <1>5, <1>10

----------------------------------------------------------------------------
(* The steps of the loops that change the list of bases.                   *)

(* A step inside the two loops that resolve the bases.                     *)
LEMMA NullAtBases ==
  ASSUME TypeInv, StandInv, NullInv, [Next]_vars, stack # <<>>, ListsOK', BelowSee, prog' = prog,
         NEW d \in Decls, Top.fn = "semantic", Top.d = d,
         \A x \in Decls : x # d => bsym'[x] = bsym[x],
         NEW f, f.fn = "semantic", f.d = d, f.pc \in BasePcs, Stepped(f), Sees(f)',
         f.pc = "ifaces" => Become(f)
  PROVE  NullInv'
<1>1. Arrived(f)
  BY DEF Arrived, Typing, AtBases, BasePcs
<1> QED BY <1>1, Closing, NullArrived

(* The first entry is no base class: it may be dropped.                    *)
LEMMA NullNoBaseClass ==
  ASSUME EdgeInv, StandInv, NullInv, [Next]_vars, SemNoBaseClass \/ SemCircularBase
  PROVE  NullInv'
<1>1. /\ TypeInv /\ stack # <<>> /\ Top.d \in Decls /\ Top.fn = "semantic" /\ Top.pc = "base"
      /\ Top \in ActivationType
  BY AtSemantic DEF SemNoBaseClass, SemCircularBase, EdgeInv
<1> SUFFICES ASSUME NEW d \in Decls, d = Top.d PROVE NullInv'
  BY <1>1
<1>2. AllNamed(d)
  BY <1>1, TopSees DEF Sees, BasePcs
<1>3. prog' = prog /\ btype' = btype /\ bsym' = bsym
  BY DEF SemNoBaseClass, SemCircularBase, DropBase
<1>4. PICK n : n = FirstIface(d) /\ n \in {1, 2}
  BY DEF FirstIface
<1>5. PICK f : f = [Top EXCEPT !.pc = "ifaces", !.i = n]
  OBVIOUS
<1>6. f.fn = "semantic" /\ f.d = d /\ f.pc = "ifaces" /\ f.i = n
  BY <1>1, <1>5 DEF ActivationType
<1>7. Become(f)
  BY <1>4, <1>5 DEF SemNoBaseClass, SemCircularBase, Goto
<1>8. CASE ag' = ag
  <2>1. Kept
    BY <1>3, <1>8 DEF Kept
  <2>2. ListsOK' /\ BelowSee
    BY <1>1, <1>3, <2>1, ListsKept
  <2>3. Passed(d, n - 1)
    BY <1>1, <1>4, FieldTypes DEF Passed
  <2>4. Sees(f)
    BY <1>2, <1>4, <1>6, <2>3 DEF Sees
  <2>5. Sees(f)'
    BY <1>1, <1>3, <1>6, <2>1, <2>4, SeesKept
  <2> QED BY <1>1, <1>3, <1>6, <1>7, <2>2, <2>5, NullAtBases DEF Stepped, BasePcs
<1>9. CASE ag' # ag
  <2>1. /\ ag' = [ag EXCEPT ![d].baseclasses = RemoveAt(@, 1)] /\ FirstKind(d) # "none"
        /\ \/ FirstKind(d) \in {"error", "struct"}
           \/ FirstKind(d) = "class" /\ d \in BaseClassChain(BaseDecl(d, BaseList(d)[1]))
    BY <1>9 DEF SemNoBaseClass, SemCircularBase, DropBase
  <2>2. 1 \in 1..Len(BaseList(d))
    BY <1>1, <2>1, FieldTypes, EmptySeq DEF FirstKind
  <2>3. KindOf(d, BaseList(d)[1]) = FirstKind(d)
    BY <2>1 DEF FirstKind
  <2>4. ~HasSym(d, BaseList(d)[1])
    BY <1>2, <2>1, <2>2, <2>3, WithSym DEF IsIfaceBase
  <2>5. /\ ag'[d].baseclasses = RemoveAt(BaseList(d), 1) /\ ag'[d].baseClass = ag[d].baseClass
        /\ \A x \in Decls : x # d => ag'[x] = ag[x]
    BY <1>1, <2>1 DEF TypeInv, AgOK, AggregateType, BaseList
  <2>6. OnlyBasesOf(d)
    BY <1>3, <2>5 DEF OnlyBasesOf
  <2>7. PICK K \in SUBSET Nat : K = {}
    OBVIOUS
  <2>71. bsym'[d] = bsym[d] \cup K /\ \A m \in K : TypeOf(d, m) # "error"
    BY <1>3, <2>7
  <2>8. /\ ListsOK' /\ BelowSee /\ AllNamed(d)' /\ FirstIface(d)' = FirstIface(d)
        /\ Len(BaseList(d)') = Len(BaseList(d)) - 1
    BY <1>2, <2>2, <2>4, <2>5, <2>6, <2>71, NullRemove
  <2>9. Passed(d, n - 1)'
    <3>1. Len(BaseList(d)') \in Int
      BY <1>1, <2>8, FieldTypes
    <3>2. FirstIface(d)' = n
      BY <1>4, <2>8
    <3> QED BY <1>4, <3>1, <3>2 DEF Passed
  <2>10. Sees(f)'
    BY <1>4, <1>6, <2>8, <2>9 DEF Sees
  <2> QED BY <1>1, <1>3, <1>6, <1>7, <2>8, <2>10, NullAtBases DEF Stepped, BasePcs
<1> QED BY <1>8, <1>9

LEMMA NullBaseClass ==
  ASSUME EdgeInv, StandInv, NullInv, [Next]_vars, SemBaseClass
  PROVE  NullInv'
<1>1. /\ TypeInv /\ stack # <<>> /\ Top.d \in Decls /\ Top.fn = "semantic" /\ Top.pc = "base"
      /\ Top \in ActivationType
  BY AtSemantic DEF SemBaseClass, EdgeInv
<1> SUFFICES ASSUME NEW d \in Decls, d = Top.d PROVE NullInv'
  BY <1>1
<1>2. AllNamed(d)
  BY <1>1, TopSees DEF Sees, BasePcs
<1>3. 1 \in 1..Len(BaseList(d))
  BY <1>1, FieldTypes, EmptySeq DEF SemBaseClass, FirstKind
<1>4. PICK k \in 0..Len(prog.bases[d]), c \in Decls :
        k = BaseList(d)[1] /\ c = BaseDecl(d, k)
  BY <1>1, <1>3, ListType
<1>5. KindOf(d, k) = "class" /\ TypeOf(d, k) # "error" /\ IsClass(c)
  BY <1>4 DEF SemBaseClass, FirstKind, KindOf, IsClass
<1>6. /\ prog' = prog /\ btype' = btype
      /\ bsym' = IF k = 0 THEN bsym ELSE [bsym EXCEPT ![d] = @ \cup {k}]
  BY <1>4 DEF SemBaseClass
<1>7. PICK K \in SUBSET Nat : K = IF k = 0 THEN {} ELSE {k}
  <2>1. k \in Nat
    BY <1>1, FieldTypes
  <2>2. {} \in SUBSET Nat /\ {k} \in SUBSET Nat
    BY <2>1
  <2> QED BY <2>2
<1>8. bsym'[d] = bsym[d] \cup K /\ \A x \in Decls : x # d => bsym'[x] = bsym[x]
  <2>1. CASE k = 0
    BY <1>6, <1>7, <2>1
  <2>2. CASE k # 0
    BY <1>1, <1>6, <1>7, <2>2 DEF TypeInv, RestOK
  <2> QED BY <2>1, <2>2
<1>9. \/ ag' = [ag EXCEPT ![d].baseClass = c, ![d].scope = TRUE]
      \/ ag' = [ag EXCEPT ![d].baseClass = c]
  BY <1>4 DEF SemBaseClass
<1>10. /\ ag'[d].baseClass = c /\ ag'[d].baseclasses = BaseList(d)
       /\ \A x \in Decls : x # d => ag'[x] = ag[x]
  BY <1>1, <1>9 DEF TypeInv, AgOK, AggregateType, BaseList
<1>11. OnlyBasesOf(d)
  BY <1>6, <1>8, <1>10 DEF OnlyBasesOf
<1>12. ListsOK' /\ BelowSee /\ AllNamed(d)'
  <2>1. BaseDecl(d, BaseList(d)[1]) = ag'[d].baseClass /\ BaseList(d)[1] \in K \cup {0}
    BY <1>4, <1>7, <1>10
  <2>2. \A m \in K : TypeOf(d, m) # "error"
    BY <1>5, <1>7
  <2>3. ag'[d].baseClass \in Decls /\ IsClass(ag'[d].baseClass)
    BY <1>5, <1>10 DEF IsClass
  <2> QED BY <1>2, <1>3, <1>8, <1>10, <1>11, <2>1, <2>2, <2>3, NullSymbols
<1>13. CASE BasesOpen(c)
  <2>1. PICK f, g : /\ f = [Top EXCEPT !.pc = "based", !.b = k, !.scx = TRUE]
                    /\ g = Activation("semantic", c, FALSE)
    OBVIOUS
  <2>2. f.fn = "semantic" /\ f.d = d /\ f.pc = "based"
    BY <1>1, <2>1 DEF ActivationType
  <2>3. Call(f, g)
    BY <1>4, <1>13, <2>1 DEF SemBaseClass
  <2>4. Opens(g)
    BY <2>1 DEF Opens, Activation
  <2>5. Sees(f)'
    BY <1>10, <1>12, <2>2, ConstantsAssumption DEF Sees
  <2> QED BY <1>1, <1>6, <1>8, <1>12, <2>2, <2>3, <2>4, <2>5, NullAtBases DEF Stepped, BasePcs
<1>14. CASE ~BasesOpen(c)
  <2>1. PICK f : f = [Top EXCEPT !.pc = "ifaces", !.i = 2]
    OBVIOUS
  <2>2. f.fn = "semantic" /\ f.d = d /\ f.pc = "ifaces" /\ f.i = 2
    BY <1>1, <2>1 DEF ActivationType
  <2>3. Become(f)
    BY <1>4, <1>14, <2>1 DEF SemBaseClass, Goto
  <2>4. FirstIface(d)' = 2
    BY <1>10, ConstantsAssumption DEF FirstIface
  <2>5. Len(BaseList(d)') \in Nat
    BY <1>1, <1>10, FieldTypes DEF BaseList
  <2>6. Passed(d, 2 - 1)'
    BY <2>4, <2>5 DEF Passed
  <2>7. Sees(f)'
    BY <1>12, <2>2, <2>4, <2>6 DEF Sees
  <2> QED BY <1>1, <1>6, <1>8, <1>12, <2>2, <2>3, <2>7, NullAtBases DEF Stepped, BasePcs
<1> QED BY <1>13, <1>14

LEMMA NullDropIface ==
  ASSUME EdgeInv, StandInv, NullInv, [Next]_vars, SemDropIface
  PROVE  NullInv'
<1>1. /\ TypeInv /\ stack # <<>> /\ Top.d \in Decls /\ Top.fn = "semantic" /\ Top.pc = "ifaces"
      /\ Top \in ActivationType /\ Top.i \in Nat \ {0}
  BY AtSemantic DEF SemDropIface, EdgeInv
<1> SUFFICES ASSUME NEW d \in Decls, d = Top.d PROVE NullInv'
  BY <1>1
<1>2. PICK i \in 1..Len(BaseList(d)) : i = Top.i
  BY <1>1, FieldTypes DEF SemDropIface
<1>3. AllNamed(d) /\ Passed(d, i - 1) /\ FirstIface(d) <= i
  BY <1>1, <1>2, TopSees DEF Sees, BasePcs
<1>4. prog' = prog /\ btype' = btype /\ bsym' = bsym
  BY DEF SemDropIface, DropBase
<1>5. ~HasSym(d, BaseList(d)[i])
  <2>1. \/ ~IsIfaceBase(d, BaseList(d)[i])
        \/ IsCircularIface(d, BaseDecl(d, BaseList(d)[i]))
    BY <1>2 DEF SemDropIface
  <2>2. ~(i = 1 /\ FirstIface(d) = 2)
    BY <1>3
  <2> QED BY <1>3, <2>1, <2>2, WithSym
<1>6. ag' = [ag EXCEPT ![d].baseclasses = RemoveAt(@, i)]
  BY <1>2 DEF SemDropIface, DropBase
<1>7. /\ ag'[d].baseclasses = RemoveAt(BaseList(d), i) /\ ag'[d].baseClass = ag[d].baseClass
      /\ \A x \in Decls : x # d => ag'[x] = ag[x]
  BY <1>1, <1>6 DEF TypeInv, AgOK, AggregateType, BaseList
<1>8. OnlyBasesOf(d)
  BY <1>4, <1>7 DEF OnlyBasesOf
<1>9. PICK K \in SUBSET Nat : K = {}
  OBVIOUS
<1>10. bsym'[d] = bsym[d] \cup K /\ \A m \in K : TypeOf(d, m) # "error"
  BY <1>4, <1>9
<1>11. /\ ListsOK' /\ BelowSee /\ AllNamed(d)' /\ FirstIface(d)' = FirstIface(d)
       /\ \A x \in Int : Passed(d, x) => Passed(d, x)'
  BY <1>3, <1>5, <1>7, <1>8, <1>10, NullRemove
<1>12. PICK f : f = [Top EXCEPT !.pc = "ifaces", !.i = i]
  OBVIOUS
<1>13. f.fn = "semantic" /\ f.d = d /\ f.pc = "ifaces" /\ f.i = i
  BY <1>1, <1>12 DEF ActivationType
<1>14. Become(f)
  BY <1>2, <1>12 DEF SemDropIface, Goto
<1>15. Passed(d, i - 1)' /\ FirstIface(d)' <= i
  BY <1>3, <1>11
<1>16. Sees(f)'
  BY <1>11, <1>13, <1>15 DEF Sees
<1> QED BY <1>1, <1>4, <1>11, <1>13, <1>14, <1>16, NullAtBases DEF Stepped, BasePcs

(* A duplicate is the last entry of the list.                              *)
LEMMA DuplicateIsLast ==
  ASSUME OnlyLastRepeats, EdgeInv, NullInv, NEW d \in Decls, NEW i \in 1..Len(BaseList(d)),
         IsDuplicate(d, i), IsIfaceBase(d, BaseList(d)[i])
  PROVE  i = Len(BaseList(d)) /\ i # 1
<1>1. TypeInv /\ Len(BaseList(d)) \in Nat /\ Len(prog.bases[d]) \in Nat
  BY FieldTypes DEF EdgeInv
<1>2. FirstIface(d) \in {1, 2}
  BY DEF FirstIface
<1>3. PICK x \in FirstIface(d)..(i - 1) : BaseDecl(d, BaseList(d)[x]) = BaseDecl(d, BaseList(d)[i])
  BY DEF IsDuplicate
<1>4. x \in 1..Len(BaseList(d)) /\ x < i
  BY <1>1, <1>2, <1>3
<1>5. PICK s : s = BaseList(d)
  OBVIOUS
<1>6. \A a, b \in 1..Len(s) : a < b => s[a] < s[b]
  BY <1>5 DEF NullInv, ListsOK, Ordered
<1>7. \A a \in 1..Len(s) : s[a] \in 0..Len(prog.bases[d])
  BY <1>1, <1>5, ListType
<1>8. s[i] # 0 /\ s[x] # 0
  <2>1. IsIface(BaseDecl(d, s[i]))
    BY <1>5 DEF IsIfaceBase, KindOf, IsIface
  <2>2. ~IsIface(Object)
    BY <1>1, ObjectIsClass
  <2> QED BY <1>3, <1>5, <2>1, <2>2 DEF BaseDecl
<1>9. s[i] \in 1..Len(prog.bases[d]) /\ s[x] \in 1..Len(prog.bases[d]) /\ s[x] < s[i]
  BY <1>1, <1>4, <1>5, <1>6, <1>7, <1>8
<1>10. prog.bases[d][s[x]].sym = prog.bases[d][s[i]].sym
  BY <1>3, <1>5, <1>8 DEF BaseDecl
<1>11. s[i] = Len(prog.bases[d])
  BY <1>9, <1>10 DEF OnlyLastRepeats
<1>12. i = Len(s)
  <2> SUFFICES ASSUME i # Len(s) PROVE FALSE
    OBVIOUS
  <2>1. i + 1 \in 1..Len(s) /\ i \in 1..Len(s) /\ i < i + 1
    BY <1>1, <1>5
  <2>2. s[i] < s[i + 1] /\ s[i + 1] \in 0..Len(prog.bases[d])
    BY <1>6, <1>7, <2>1
  <2> QED BY <1>1, <1>11, <2>2
<1> QED BY <1>4, <1>5, <1>12

LEMMA NullIface ==
  ASSUME OnlyLastRepeats, EdgeInv, StandInv, NullInv, [Next]_vars, SemIface
  PROVE  NullInv'
<1>1. /\ TypeInv /\ stack # <<>> /\ Top.d \in Decls /\ Top.fn = "semantic" /\ Top.pc = "ifaces"
      /\ Top \in ActivationType /\ Top.i \in Nat \ {0}
  BY AtSemantic DEF SemIface, EdgeInv
<1> SUFFICES ASSUME NEW d \in Decls, d = Top.d PROVE NullInv'
  BY <1>1
<1>2. PICK i \in 1..Len(BaseList(d)) : i = Top.i /\ i \in Nat
  BY <1>1, FieldTypes DEF SemIface
<1>3. AllNamed(d) /\ Passed(d, i - 1) /\ FirstIface(d) <= i
  BY <1>1, <1>2, TopSees DEF Sees, BasePcs
<1>4. PICK k \in 0..Len(prog.bases[d]), c \in Decls :
        k = BaseList(d)[i] /\ c = BaseDecl(d, k)
  BY <1>1, ListType
<1>5. IsIfaceBase(d, k) /\ TypeOf(d, k) # "error"
  BY <1>2, <1>4 DEF SemIface, IsIfaceBase, KindOf
<1>6. /\ prog' = prog /\ btype' = btype
      /\ bsym' = IF k = 0 THEN bsym ELSE [bsym EXCEPT ![d] = @ \cup {k}]
  BY <1>2, <1>4 DEF SemIface
<1>7. PICK K \in SUBSET Nat : K = IF k = 0 THEN {} ELSE {k}
  <2>1. k \in Nat
    BY <1>1, FieldTypes
  <2>2. {} \in SUBSET Nat /\ {k} \in SUBSET Nat
    BY <2>1
  <2> QED BY <2>2
<1>8. bsym'[d] = bsym[d] \cup K /\ \A x \in Decls : x # d => bsym'[x] = bsym[x]
  <2>1. CASE k = 0
    BY <1>6, <1>7, <2>1
  <2>2. CASE k # 0
    BY <1>1, <1>6, <1>7, <2>2 DEF TypeInv, RestOK
  <2> QED BY <2>1, <2>2
<1>9. \A m \in K : TypeOf(d, m) # "error"
  BY <1>5, <1>7
<1>10. PICK v, w : v = BasesOpen(c) /\ w = IsDuplicate(d, i)
  OBVIOUS
<1>11. ag' = [ag EXCEPT ![d].baseclasses = IF w THEN RemoveAt(@, i) ELSE @, ![d].scope = v]
  BY <1>2, <1>4, <1>10 DEF SemIface
<1>12. /\ ag'[d].baseclasses = (IF w THEN RemoveAt(BaseList(d), i) ELSE BaseList(d))
       /\ ag'[d].baseClass = ag[d].baseClass /\ \A x \in Decls : x # d => ag'[x] = ag[x]
  BY <1>1, <1>11 DEF TypeInv, AgOK, AggregateType, BaseList
<1>13. OnlyBasesOf(d)
  BY <1>6, <1>8, <1>12 DEF OnlyBasesOf
<1>14. HasSym(d, k)'
  BY <1>7, <1>8 DEF HasSym
<1>15. /\ ListsOK' /\ BelowSee /\ AllNamed(d)' /\ Passed(d, i)' /\ FirstIface(d)' <= i
  <2>1. FirstIface(d)' = FirstIface(d)
    BY <1>12 DEF FirstIface
  <2>2. CASE w
    <3>1. i = Len(BaseList(d)) /\ i # 1
      BY <1>4, <1>5, <1>10, <2>2, DuplicateIsLast
    <3>2. /\ ListsOK' /\ BelowSee /\ AllNamed(d)' /\ Len(BaseList(d)') = Len(BaseList(d)) - 1
          /\ \A x \in Int : Passed(d, x) => Passed(d, x)'
      <4>1. /\ ag'[d].baseclasses = RemoveAt(BaseList(d), i) /\ ag'[d].baseClass = ag[d].baseClass
            /\ bsym'[d] = bsym[d] \cup K
        BY <1>8, <1>12, <2>2
      <4>2. ~HasSym(d, BaseList(d)[i]) \/ (i = Len(BaseList(d)) /\ i # 1)
        BY <3>1
      <4> QED BY <1>3, <1>9, <1>13, <4>1, <4>2, NullRemove
    <3>3. Passed(d, i - 1)' /\ Len(BaseList(d)') = i - 1
      BY <1>3, <3>1, <3>2
    <3>4. Passed(d, i)'
      BY <3>3 DEF Passed
    <3> QED BY <1>3, <2>1, <3>2, <3>4
  <2>3. CASE ~w
    <3>1. /\ ListsOK' /\ BelowSee /\ AllNamed(d)'
          /\ \A x \in Int : Passed(d, x) => Passed(d, x)'
      BY <1>3, <1>8, <1>9, <1>12, <1>13, <2>3, NullSymbols
    <3>2. Passed(d, i - 1)' /\ BaseList(d)' = BaseList(d)
      BY <1>3, <1>12, <2>3, <3>1 DEF BaseList
    <3>3. Passed(d, i)'
      <4> SUFFICES ASSUME NEW j \in 1..Len(BaseList(d)), FirstIface(d)' <= j, j <= i
                   PROVE  HasSym(d, BaseList(d)[j])'
        BY <3>2 DEF Passed
      <4>1. CASE j = i
        BY <1>4, <1>14, <3>2, <4>1
      <4>2. CASE j # i
        <5>1. j <= i - 1
          BY <1>1, <4>2, FieldTypes
        <5> QED BY <3>2, <5>1 DEF Passed
      <4> QED BY <4>1, <4>2
    <3> QED BY <1>3, <2>1, <3>1, <3>3
  <2> QED BY <2>2, <2>3
<1>16. CASE v
  <2>1. PICK f, g : /\ f = [Top EXCEPT !.pc = "ifaced", !.b = k, !.scx = TRUE]
                    /\ g = Activation("semantic", c, FALSE)
    OBVIOUS
  <2>2. f.fn = "semantic" /\ f.d = d /\ f.pc = "ifaced" /\ f.i = i
    BY <1>1, <1>2, <2>1 DEF ActivationType
  <2>3. Call(f, g)
    BY <1>2, <1>4, <1>10, <1>16, <2>1 DEF SemIface
  <2>4. Opens(g)
    BY <2>1 DEF Opens, Activation
  <2>5. Sees(f)'
    BY <1>15, <2>2 DEF Sees
  <2> QED BY <1>1, <1>6, <1>8, <1>15, <2>2, <2>3, <2>4, <2>5, NullAtBases DEF Stepped, BasePcs
<1>17. CASE ~v
  <2>1. PICK f : f = [Top EXCEPT !.pc = "ifaces", !.i = i + 1]
    OBVIOUS
  <2>2. f.fn = "semantic" /\ f.d = d /\ f.pc = "ifaces" /\ f.i = i + 1 /\ f.i - 1 = i
    BY <1>1, <1>2, <2>1 DEF ActivationType
  <2>3. Become(f)
    BY <1>2, <1>4, <1>10, <1>17, <2>1 DEF SemIface, Goto
  <2>4. FirstIface(d)' \in {1, 2}
    BY DEF FirstIface
  <2>5. FirstIface(d)' <= f.i
    BY <1>2, <1>15, <2>2, <2>4
  <2>6. Passed(d, f.i - 1)'
    BY <1>15, <2>2
  <2>7. Sees(f)'
    BY <1>15, <2>2, <2>5, <2>6 DEF Sees
  <2> QED BY <1>1, <1>6, <1>8, <1>15, <2>2, <2>3, <2>7, NullAtBases DEF Stepped, BasePcs
<1> QED BY <1>16, <1>17

----------------------------------------------------------------------------
(* The end of the loop over the interfaces, and no null pointer.           *)

(* The loop leaves no interface without a symbol.                          *)
LEMMA NoneLeft ==
  ASSUME TypeInv, NullInv, SemBasesDone
  PROVE  \A j \in FirstIface(Top.d)..Len(BaseList(Top.d)) : HasSym(Top.d, BaseList(Top.d)[j])
<1>1. /\ stack # <<>> /\ Top.d \in Decls /\ Top.fn = "semantic" /\ Top.pc = "ifaces"
      /\ Top.i \in Nat \ {0} /\ Top.i > Len(BaseList(Top.d))
  BY AtSemantic DEF SemBasesDone
<1>2. Passed(Top.d, Top.i - 1)
  BY <1>1, TopSees DEF Sees
<1>3. FirstIface(Top.d) \in {1, 2} /\ Len(BaseList(Top.d)) \in Nat
  BY <1>1, FieldTypes DEF FirstIface
<1> QED BY <1>1, <1>2, <1>3 DEF Passed

(* Object becomes the first base.                                          *)
ObjectFirst(d) == <<0>> \o BaseList(d)

LEMMA NullObject ==
  ASSUME EdgeInv, NullInv, NEW d \in Decls, OnlyBasesOf(d), AllNamed(d), bsym'[d] = bsym[d],
         ag[d].baseClass = NoDecl, ag'[d].baseClass = Object,
         ag'[d].baseclasses = ObjectFirst(d),
         \A j \in FirstIface(d)..Len(BaseList(d)) : HasSym(d, BaseList(d)[j])
  PROVE  ListsOK' /\ BelowSee
<1>1. /\ TypeInv /\ Object \in Decls /\ NoDecl \notin Decls /\ IsClass(Object)
      /\ ~IsIface(Object)
  BY ObjectIsClass DEF EdgeInv
<1>2. PICK s \in Seq(Nat) : s = BaseList(d) /\ Len(s) \in Nat
  BY <1>1, FieldTypes
<1>3. PICK t : t = <<0>> \o s
  OBVIOUS
<1>4. /\ Len(t) = Len(s) + 1 /\ t[1] = 0
      /\ \A j \in 1..Len(t) : j # 1 => j - 1 \in 1..Len(s) /\ t[j] = s[j - 1]
  <2>1. <<0>> \in Seq(Nat) /\ Len(<<0>>) = 1 /\ <<0>>[1] = 0
    BY <1>2
  <2> QED BY <1>2, <1>3, <2>1, ConcatProperties
<1>5. BaseList(d)' = t
  BY <1>2, <1>3 DEF BaseList, ObjectFirst
<1>6. FirstIface(d) = 1
  BY DEF FirstIface
<1>7. \A j \in 1..Len(s) : s[j] \in Nat \ {0} /\ HasSym(d, s[j])
  <2> SUFFICES ASSUME NEW j \in 1..Len(s) PROVE s[j] \in Nat \ {0} /\ HasSym(d, s[j])
    OBVIOUS
  <2>1. HasSym(d, s[j])
    BY <1>2, <1>6
  <2>2. s[j] # 0
    <3> SUFFICES ASSUME s[j] = 0 PROVE FALSE
      OBVIOUS
    <3>1. BaseDecl(d, s[j]) = Object
      BY DEF BaseDecl
    <3> QED BY <1>1, <1>2, <2>1, <3>1 DEF EdgeInv, BasesKept
  <2> QED BY <1>2, <2>1, <2>2, ElementOfSeq
<1>8. \A m : TypeOf(d, m)' = TypeOf(d, m) /\ BaseDecl(d, m)' = BaseDecl(d, m)
             /\ HasSym(d, m)' = HasSym(d, m)
  BY DEF OnlyBasesOf, TypeOf, BaseDecl, HasSym
<1>9. \A j \in 1..Len(t) : HasSym(d, t[j])
  BY <1>4, <1>7 DEF HasSym
<1>10. AllNamed(d)'
  <2> SUFFICES ASSUME NEW j \in 1..Len(t)
               PROVE  TypeOf(d, t[j]) \notin {"ident", "error"}
    BY <1>5, <1>8 DEF AllNamed, Named
  <2>1. CASE j = 1
    BY <1>4, <2>1 DEF TypeOf
  <2>2. CASE j # 1
    BY <1>2, <1>4, <1>7, <2>2 DEF AllNamed, Named
  <2> QED BY <2>1, <2>2
<1>11. \A i \in Int : Passed(d, i) => Passed(d, i)'
  BY <1>5, <1>8, <1>9 DEF Passed
<1>12. \A i, j \in 1..Len(t) : i < j => t[i] < t[j]
  <2> SUFFICES ASSUME NEW i \in 1..Len(t), NEW j \in 1..Len(t), i < j PROVE t[i] < t[j]
    OBVIOUS
  <2>1. j # 1 /\ j - 1 \in 1..Len(s) /\ t[j] = s[j - 1]
    BY <1>2, <1>4
  <2>2. CASE i = 1
    BY <1>4, <1>7, <2>1, <2>2
  <2>3. CASE i # 1
    <3>1. i - 1 \in 1..Len(s) /\ t[i] = s[i - 1] /\ i - 1 < j - 1
      BY <1>2, <1>4, <2>3
    <3> QED BY <1>2, <2>1, <3>1 DEF NullInv, ListsOK, Ordered
  <2> QED BY <2>2, <2>3
<1>13. /\ IsClass(ag'[d].baseClass) /\ 1 \in 1..Len(t) /\ HasSym(d, t[1])'
       /\ BaseDecl(d, t[1]) = ag'[d].baseClass
  BY <1>1, <1>2, <1>4, <1>8, <1>9 DEF BaseDecl
<1>14. /\ prog' = prog /\ btype' = btype
       /\ \A x \in Decls : x # d => /\ ag'[x].baseClass = ag[x].baseClass
                                    /\ ag'[x].baseclasses = ag[x].baseclasses
                                    /\ bsym'[x] = bsym[x]
  BY DEF OnlyBasesOf
<1>15. \A i, j \in 1..Len(BaseList(d)') : i < j => BaseList(d)'[i] < BaseList(d)'[j]
  BY <1>5, <1>12
<1>16. /\ IsClass(ag'[d].baseClass) /\ 1 \in 1..Len(BaseList(d)')
       /\ HasSym(d, BaseList(d)[1])' /\ BaseDecl(d, BaseList(d)'[1]) = ag'[d].baseClass
  BY <1>5, <1>13
<1> QED BY <1>1, <1>10, <1>11, <1>14, <1>15, <1>16, NullLists

LEMMA NullBasesDone ==
  ASSUME EdgeInv, StandInv, NullInv, [Next]_vars, SemBasesDone
  PROVE  NullInv' /\ phase' # "crashed"
<1>1. /\ TypeInv /\ stack # <<>> /\ Top.d \in Decls /\ Top.fn = "semantic" /\ Top.pc = "ifaces"
      /\ Top \in ActivationType /\ Ready(Top.d, "ifaces") /\ Stands(Top.d)
  BY AtSemantic, InKnown DEF SemBasesDone, EdgeInv
<1> SUFFICES ASSUME NEW d \in Decls, d = Top.d PROVE NullInv' /\ phase' # "crashed"
  BY <1>1
<1>2. ag[d].baseok # "none"
  BY <1>1 DEF Ready, Stands, EarlyPcs
<1>3. \A j \in FirstIface(d)..Len(BaseList(d)) : HasSym(d, BaseList(d)[j])
  BY <1>1, NoneLeft
<1>4. AllNamed(d)
  BY <1>1, TopSees DEF Sees, BasePcs
<1>5. CASE UNCHANGED <<prog, ag, btype, bsym, stack>> /\ phase' = "fatal"
  BY <1>1, <1>5, NullStays
<1>6. ASSUME NEW c, NEW l, Goto("symtab", 1), UNCHANGED <<prog, btype, bsym, phase>>,
             c = IF NeedsObject(d) THEN Object ELSE ag[d].baseClass,
             l = IF NeedsObject(d) THEN ObjectFirst(d) ELSE BaseList(d),
             ag' = [ag EXCEPT ![d].baseok = "done", ![d].baseClass = c, ![d].baseclasses = l]
      PROVE  NullInv' /\ phase' # "crashed"
  <2>1. /\ ag'[d].baseok = "done" /\ ag'[d].baseClass = c /\ ag'[d].baseclasses = l
        /\ \A x \in Decls : x # d => ag'[x] = ag[x]
    BY <1>1, <1>6 DEF TypeInv, AgOK, AggregateType
  <2>2. ListsOK' /\ BelowSee
    <3>1. CASE NeedsObject(d)
      <4>1. OnlyBasesOf(d) /\ bsym'[d] = bsym[d]
        BY <1>6, <2>1 DEF OnlyBasesOf
      <4>2. /\ ag[d].baseClass = NoDecl /\ ag'[d].baseClass = Object
            /\ ag'[d].baseclasses = ObjectFirst(d)
        BY <1>6, <2>1, <3>1 DEF NeedsObject, ObjectFirst
      <4> QED BY <1>3, <1>4, <4>1, <4>2, NullObject
    <3>2. CASE ~NeedsObject(d)
      <4>1. Kept
        BY <1>6, <2>1, <3>2 DEF Kept, BaseList
      <4> QED BY <1>1, <1>6, <4>1, ListsKept
    <3> QED BY <3>1, <3>2
  <2>3. PICK f : f = [Top EXCEPT !.pc = "symtab", !.i = 1]
    OBVIOUS
  <2>4. f.fn = "semantic" /\ f.d = d /\ f.pc = "symtab"
    BY <1>1, <2>3 DEF ActivationType
  <2>5. Become(f)
    BY <1>6, <2>3 DEF Goto
  <2>6. ~BasesOpen(d)'
    BY <2>1 DEF BasesOpen
  <2>7. Sees(f)'
    BY <2>4 DEF Sees, BasePcs
  <2>8. Arrived(f)
    BY <1>1, <1>6, <2>4, <2>5, <2>6, <2>7 DEF Arrived, Stepped, Typing, AtBases, BasePcs
  <2>9. NullInv'
    BY <1>1, <1>6, <2>2, <2>4, <2>8, Closing, NullArrived
  <2>10. phase' # "crashed"
    BY <1>6 DEF SemBasesDone, At
  <2> QED BY <2>9, <2>10
<1>7. PICK c, l : /\ c = IF NeedsObject(d) THEN Object ELSE ag[d].baseClass
                  /\ l = IF NeedsObject(d) THEN ObjectFirst(d) ELSE BaseList(d)
  OBVIOUS
<1>8. \/ UNCHANGED <<prog, ag, btype, bsym, stack>> /\ phase' = "fatal"
      \/ /\ Goto("symtab", 1) /\ UNCHANGED <<prog, btype, bsym, phase>>
         /\ ag' = [ag EXCEPT ![d].baseok = "done", ![d].baseClass = c, ![d].baseclasses = l]
  <2>1. PICK o : o = ObjectFirst(d) /\ o = <<0>> \o ag[d].baseclasses
    BY DEF ObjectFirst, BaseList
  <2> QED BY <1>1, <1>2, <1>3, <1>7, <2>1 DEF SemBasesDone, TypeInv, AgOK, AggregateType, BaseList
<1>9. ASSUME Goto("symtab", 1), UNCHANGED <<prog, btype, bsym, phase>>,
             ag' = [ag EXCEPT ![d].baseok = "done", ![d].baseClass = c, ![d].baseclasses = l]
      PROVE  NullInv' /\ phase' # "crashed"
  BY <1>6, <1>7, <1>9
<1> QED BY <1>5, <1>8, <1>9

LEMMA NullInit == ASSUME Init PROVE NullInv
<1>1. TypeInv
  BY TypeInit
<1>2. PICK f : stack = <<f>> /\ f.fn = "module"
  BY DEF Init
<1>3. Len(stack) = 1 /\ stack[1] = f
  BY <1>2
<1>4. FramesSee /\ NamedOnce /\ LoopOnTop
  BY <1>2, <1>3 DEF FramesSee, Sees, NamedOnce, Typing, LoopOnTop
<1>5. Fresh
  BY DEF Init, Fresh
<1>6. \A x \in Decls : /\ ag[x].baseClass = NoDecl
                       /\ BaseList(x) = [k \in 1..Len(prog.bases[x]) |-> k]
                       /\ Len(BaseList(x)) = Len(prog.bases[x]) /\ Len(prog.bases[x]) \in Nat
  <2>1. \A x \in Decls : /\ ag[x].baseClass = NoDecl
                         /\ BaseList(x) = [k \in 1..Len(prog.bases[x]) |-> k]
    BY DEF Init, NewAggregate, BaseList
  <2> QED BY <1>1, <2>1, FieldTypes
<1>7. Ordered
  BY <1>6 DEF Ordered
<1>8. FirstTaken
  BY <1>6 DEF FirstTaken
<1>9. btype = [d \in Decls |-> [k \in 1..Len(prog.bases[d]) |-> "ident"]]
  BY DEF Init
<1>10. TypesFun /\ TypesOK
  BY <1>9 DEF TypesFun, TypesOK
<1> QED BY <1>4, <1>5, <1>7, <1>8, <1>10 DEF NullInv, ListsOK

LEMMA NullNext ==
  ASSUME OnlyLastRepeats, EdgeInv, StandInv, NullInv, [Next]_vars
  PROVE  NullInv'
<1>0. TypeInv
  BY DEF EdgeInv
<1>1. CASE UNCHANGED <<prog, ag, btype, bsym, stack>>
  BY <1>0, <1>1, NullStays
<1>2. CASE UNCHANGED vars \/ DriverCheck \/ Stopped
  BY <1>1, <1>2 DEF vars, DriverCheck, Stopped
<1>3. CASE SemanticStep
  BY <1>0, <1>3, NullLate, NullEnter, NullBaseType, NullBaseTyped, NullTypesResolved,
     NullNoBaseClass, NullBaseClass, NullBaseResolved, NullDropIface, NullIface, NullBasesDone
     DEF SemanticStep
<1>4. CASE SearchStep
  BY <1>0, <1>4, NullAside
<1>5. CASE DriverStep
  BY <1>0, <1>2, <1>5, NullAside, NullDrain DEF DriverStep
<1> QED BY <1>2, <1>3, <1>4, <1>5 DEF Next

LEMMA NoCrash ==
  ASSUME EdgeInv, StandInv, NullInv, NoNullDereference, [Next]_vars
  PROVE  NoNullDereference'
<1>1. CASE SemEnter
  <2>1. TypeInv
    BY DEF EdgeInv
  <2>2. phase' = phase
    BY <1>1, <2>1, NeverScopeless DEF SemEnter
  <2> QED BY <2>2 DEF NoNullDereference
<1>2. CASE SemBasesDone
  BY <1>2, NullBasesDone DEF NoNullDereference
<1>3. ASSUME SemanticStep, ~SemEnter, ~SemBasesDone PROVE phase' = phase
  BY <1>3 DEF SemanticStep, SemReturnAtOnce, SemBaseType, SemBaseTyped, SemTypesResolved,
     SemNoBaseClass, SemCircularBase, SemBaseClass, SemBaseResolved, SemDropIface, SemIface,
     DropBase, SemSymtab, SemAncestorsForward, SemVtbl, SemMethod, SemField, SemLookupMember,
     LookupMember, SemLookedUp, SemInstMember, RunDeferred, SemOwnField, SemFieldsForward,
     SemFinish, Postpone
<1>4. ASSUME SearchStep PROVE phase' = phase
  BY <1>4 DEF SearchStep, SearchEnter, SearchAnalysed, SearchForward, SearchOwn, SearchBase,
     SearchedBase
<1>5. ASSUME DriverStep PROVE phase' = phase \/ phase' \in {"fatal", "deferred", "done"}
  BY <1>5 DEF DriverStep, RunRound, RunEach, RunRoundDone, ModuleMember, LookupMember,
     ModuleLookedUp, ModuleDrain, RunDeferred, ModuleEnd, DriverDrain, DriverCheck,
     Stopped, vars
<1>6. CASE UNCHANGED vars
  BY <1>6 DEF vars, NoNullDereference
<1> QED BY <1>1, <1>2, <1>3, <1>4, <1>5, <1>6 DEF Next, NoNullDereference

LEMMA SameProgram == ASSUME TypeInv, [Next]_vars PROVE prog' = prog
<1>1. CASE SemanticStep
  BY <1>1 DEF SemanticStep, SemReturnAtOnce, SemEnter, Crash, SemBaseType, SemBaseTyped,
     SemTypesResolved, SemNoBaseClass, SemCircularBase, SemBaseClass, SemBaseResolved,
     SemDropIface, SemIface, DropBase, SemBasesDone, Postpone, SemSymtab, SemAncestorsForward,
     SemVtbl, SemMethod, SemField, SemLookupMember, LookupMember, SemLookedUp, SemInstMember,
     RunDeferred, SemOwnField, SemFieldsForward, SemFinish
<1>2. CASE SearchStep \/ DriverStep \/ UNCHANGED vars
  BY <1>2, KeptByOthers DEF Kept
<1> QED BY <1>1, <1>2 DEF Next

(* No null pointer is dereferenced in any state of any program in which    *)
(* only the last entry of a list of bases repeats an earlier one: every    *)
(* semantic() has a scope to work in, and interfaceSemantic() finds the    *)
(* symbol of every BaseClass it reads.                                     *)
THEOREM NoNullEver == Spec => [](OnlyLastRepeats => NoNullDereference)
<1> DEFINE Safe == OnlyLastRepeats => NullInv /\ NoNullDereference
<1>1. Init => Safe
  BY NullInit DEF Init, NoNullDereference
<1>2. EdgeInv /\ StandInv /\ Safe /\ [Next]_vars => Safe'
  <2> SUFFICES ASSUME EdgeInv, StandInv, Safe, [Next]_vars, OnlyLastRepeats'
               PROVE  NullInv' /\ NoNullDereference'
    OBVIOUS
  <2>1. prog' = prog
    BY SameProgram DEF EdgeInv
  <2>2. OnlyLastRepeats
    BY <2>1 DEF OnlyLastRepeats
  <2> QED BY <2>2, NullNext, NoCrash
<1>3. Safe => (OnlyLastRepeats => NoNullDereference)
  OBVIOUS
<1> HIDE DEF Safe
<1> QED BY <1>1, <1>2, <1>3, EdgeInvariant, StandInvariant, PTL DEF Spec

=============================================================================
