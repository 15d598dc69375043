------------------------- MODULE ModuleSearchProofs -------------------------
(***************************************************************************)
(* Theorems about ModuleSearch, for every set of modules, every import     *)
(* graph and every sequence of questions and changes.                      *)
(***************************************************************************)
EXTENDS ModuleSearch, SequenceTheorems, FiniteSetTheorems, TLAPS

Activations ==
  [mod : Modules, flags : SUBSET Flags, i : Nat, found : SUBSET Modules, errors : Nat]

(* Activations are there for a question.                                   *)
Answering ==
  /\ asked # NoQuestion => ident = asked.ident
  /\ stack # <<>> => asked # NoQuestion

SearchTyped == TypeOK /\ Answering

----------------------------------------------------------------------------
(* Sequences and activations.                                              *)

LEMMA TopOfStack ==
  ASSUME TypeOK, stack # <<>>
  PROVE  /\ Len(stack) \in Nat \ {0} /\ Top \in Activations
         /\ Callers \in Seq(Activations) /\ Len(Callers) = Len(stack) - 1
         /\ \A k \in 1..Len(Callers) : Callers[k] = stack[k]
<1>1. stack \in Seq(Activations)
  BY DEF TypeOK, Activations
<1>2. Len(stack) \in Nat \ {0}
  BY <1>1, EmptySeq, LenProperties
<1>3. Top \in Activations
  BY <1>1, <1>2, ElementOfSeq DEF Top
<1> DEFINE n == Len(stack) - 1
<1>4. n \in Nat /\ \A k \in 1..n : stack[k] \in Activations
  BY <1>1, <1>2, ElementOfSeq
<1>5. /\ SubSeq(stack, 1, n) \in Seq(Activations)
      /\ Len(SubSeq(stack, 1, n)) = IF 1 <= n THEN n - 1 + 1 ELSE 0
      /\ \A k \in 1..(n - 1 + 1) : SubSeq(stack, 1, n)[k] = stack[1 + k - 1]
  BY <1>4, SubSeqProperties
<1>6. Callers = SubSeq(stack, 1, n)
  BY DEF Callers
<1> HIDE DEF n
<1>7. /\ Callers \in Seq(Activations) /\ Len(Callers) = n
      /\ \A k \in 1..n : Callers[k] = stack[k]
  BY <1>4, <1>5, <1>6
<1> QED
  BY <1>2, <1>3, <1>7 DEF n

LEMMA TopReplaced ==
  ASSUME NEW s \in Seq(Activations), s # <<>>, NEW f \in Activations
  PROVE  /\ [s EXCEPT ![Len(s)] = f] \in Seq(Activations)
         /\ Len([s EXCEPT ![Len(s)] = f]) = Len(s)
         /\ [s EXCEPT ![Len(s)] = f][Len(s)] = f
         /\ \A k \in 1..Len(s) : k # Len(s) => [s EXCEPT ![Len(s)] = f][k] = s[k]
<1>1. Len(s) \in 1..Len(s)
  BY EmptySeq, LenProperties
<1> QED
  BY <1>1, ExceptSeq, LenProperties

LEMMA FlagsTyped ==
  ASSUME NEW flags \in SUBSET Flags
  PROVE  Effective(flags) \in SUBSET Flags /\ Passed(flags) \in SUBSET Flags
BY DEF Effective, Passed, Flags

LEMMA ScopesTyped ==
  ASSUME TypeOK, NEW m \in Modules
  PROVE  /\ Len(imports[m]) \in Nat
         /\ \A i \in 1..Len(imports[m]) : imports[m][i] \in Imports
<1>1. imports[m] \in Seq(Imports)
  BY DEF TypeOK
<1> QED
  BY <1>1, LenProperties, ElementOfSeq

LEMMA TookTyped ==
  ASSUME TypeOK, NEW f \in Activations, NEW s \in SUBSET Modules
  PROVE  Took(f, s) \in Activations /\ Took(f, s).mod = f.mod /\ Took(f, s).flags = f.flags
<1>1. Len(imports[f.mod]) + 1 \in Nat
  BY ScopesTyped DEF Activations
<1>2. CASE Conflict(f, s)
  BY <1>1, <1>2 DEF Took, Activations
<1>3. CASE ~Conflict(f, s)
  <2>1. Took(f, s) = [f EXCEPT !.i = f.i + 1,
                               !.found = IF Unseen(f, s) THEN f.found ELSE f.found \cup s]
    BY <1>3 DEF Took
  <2>2. f.i + 1 \in Nat /\ (IF Unseen(f, s) THEN f.found ELSE f.found \cup s) \in SUBSET Modules
    BY DEF Activations
  <2> QED
    BY <2>1, <2>2 DEF Activations
<1> QED
  BY <1>2, <1>3

LEMMA ActivationTyped ==
  ASSUME TypeOK, NEW m \in Modules, NEW flags \in SUBSET Flags
  PROVE  Activation(m, flags) \in Activations
BY FlagsTyped DEF Activation, Activations, TypeOK

LEMMA AskedTyped ==
  ASSUME TypeOK, asked # NoQuestion
  PROVE  /\ asked \in Questions /\ asked.of \in Modules
         /\ asked.flags \in SUBSET Flags /\ asked.ident \in Names
BY SearchAssumption DEF TypeOK

LEMMA ScannedTyped ==
  ASSUME TypeOK, Scanning
  PROVE  /\ Scanned.mod \in Modules /\ Top.i + 1 \in Nat
         /\ Passed(Top.flags) \in SUBSET Flags
<1>1. Top \in Activations
  BY TopOfStack DEF Scanning
<1>2. imports[Top.mod][Top.i] \in Imports
  BY <1>1, ScopesTyped DEF Scanning, Scopes, Activations
<1> QED
  BY <1>1, <1>2, FlagsTyped DEF Scanned, Scopes, Imports, Activations

LEMMA ImmediateTyped ==
  ASSUME TypeOK, NEW m \in Modules
  PROVE  ImmediateAnswer(m) \in SUBSET Modules
BY DEF TypeOK, ImmediateAnswer

----------------------------------------------------------------------------
(* Type correctness.                                                       *)

LEMMA DeliverTyped ==
  ASSUME TypeOK, asked # NoQuestion, NEW s \in SUBSET Modules, NEW b \in BOOLEAN,
         Deliver(s, b)
  PROVE  answered' \subseteq [asked : Questions, answer : SUBSET Modules, erred : BOOLEAN]
BY AskedTyped DEF TypeOK, Deliver

LEMMA ReturnTyped ==
  ASSUME SearchTyped, stack # <<>>, NEW s \in SUBSET Modules, Return(s)
  PROVE  SearchTyped'
<1> USE DEF SearchTyped
<1>1. /\ Top \in Activations /\ Callers \in Seq(Activations)
  BY TopOfStack
<1>2. asked # NoQuestion /\ asked \in Questions /\ ident \in Names
  BY AskedTyped DEF Answering
<1>3. cache' \in [Modules -> [ident : Names \cup {NoName}, flags : SUBSET Flags, symbol : SUBSET Modules]]
  <2>1. [ident |-> ident, flags |-> Top.flags, symbol |-> s]
          \in [ident : Names \cup {NoName}, flags : SUBSET Flags, symbol : SUBSET Modules]
    BY <1>1, <1>2 DEF Activations
  <2> QED
    BY <2>1 DEF Return, Remember, TypeOK
<1>4. insearch' \in [Modules -> BOOLEAN]
  BY DEF Return, TypeOK
<1>5. CASE Callers = <<>>
  <2>1. /\ stack' = <<>> /\ asked' = NoQuestion /\ errors' = errors
        /\ Deliver(s, errors # Top.errors)
    BY <1>5 DEF Return, Resume
  <2>2. answered' \subseteq [asked : Questions, answer : SUBSET Modules, erred : BOOLEAN]
    BY <2>1, <1>2, DeliverTyped
  <2> QED
    BY <1>3, <1>4, <2>1, <2>2 DEF Return, TypeOK, Answering, graph, NoQuestion
<1>6. CASE Callers # <<>>
  <2> DEFINE f == Callers[Len(Callers)]
  <2>1. f \in Activations
    BY <1>1, <1>6, EmptySeq, LenProperties, ElementOfSeq
  <2>2. /\ stack' = [Callers EXCEPT ![Len(Callers)] = Took(f, s)]
        /\ errors' = errors + (IF MultiplyDefined(f, s) THEN 1 ELSE 0)
        /\ asked' = asked /\ answered' = answered
    BY <1>6 DEF Return, Resume
  <2>3. Took(f, s) \in Activations
    BY <2>1, TookTyped
  <2> HIDE DEF f
  <2>4. stack' \in Seq(Activations) /\ errors' \in Nat
    BY <1>1, <1>6, <2>2, <2>3, TopReplaced DEF TypeOK
  <2> QED
    BY <1>2, <1>3, <1>4, <2>2, <2>4 DEF Return, TypeOK, Answering, graph, Activations
<1> QED
  BY <1>5, <1>6

LEMMA TopStepTyped ==
  ASSUME SearchTyped, stack # <<>>, NEW f \in Activations, stack' = WithTop(f),
         NEW e \in Nat, errors' = e,
         UNCHANGED <<graph, insearch, cache, ident, asked, answered, questions, changes>>
  PROVE  SearchTyped'
<1>1. stack \in Seq(Activations)
  BY DEF SearchTyped, TypeOK, Activations
<1>2. stack' \in Seq(Activations)
  BY <1>1, TopReplaced DEF WithTop
<1> QED
  BY <1>2 DEF SearchTyped, TypeOK, Answering, graph, Activations

LEMMA PushTyped ==
  ASSUME SearchTyped, asked # NoQuestion, NEW m \in Modules, NEW flags \in SUBSET Flags,
         NEW s \in Seq(Activations), stack' = Append(s, Activation(m, flags)),
         insearch' = [insearch EXCEPT ![m] = TRUE],
         UNCHANGED <<graph, cache, errors, ident, asked, answered, questions, changes>>
  PROVE  SearchTyped'
<1>1. stack' \in Seq(Activations)
  BY ActivationTyped, AppendProperties DEF SearchTyped
<1> QED
  BY <1>1 DEF SearchTyped, TypeOK, Answering, graph, Activations

LEMMA ChangeTyped ==
  ASSUME SearchTyped, Change, decl' \in [Modules -> [Names -> Kinds \cup {"none"}]],
         imports' \in [Modules -> Seq(Imports)],
         cache' \in [Modules -> [ident : Names \cup {NoName}, flags : SUBSET Flags, symbol : SUBSET Modules]]
  PROVE  SearchTyped'
<1>1. changes' \in 0..MaxChanges
  BY SearchAssumption DEF SearchTyped, TypeOK, Change
<1> QED
  BY <1>1 DEF SearchTyped, TypeOK, Change, Answering

LEMMA ImportedTyped ==
  ASSUME NEW scopes \in Seq(Imports), NEW m \in Modules, NEW prot \in Protections
  PROVE  Imported(scopes, m, prot) \in Seq(Imports)
<1>1. [mod |-> m, prot |-> prot] \in Imports
  BY DEF Imports
<1>2. Append(scopes, [mod |-> m, prot |-> prot]) \in Seq(Imports)
  BY <1>1, AppendProperties
<1> DEFINE g == [i \in 1..Len(scopes) |-> IF scopes[i].mod = m /\ prot = "public"
                                  THEN [scopes[i] EXCEPT !.prot = "public"]
                                  ELSE scopes[i]]
<1>3. \A i \in 1..Len(scopes) : g[i] \in Imports
  <2> TAKE i \in 1..Len(scopes)
  <2>1. scopes[i] \in Imports
    BY ElementOfSeq
  <2> QED
    BY <2>1 DEF Imports, Protections
<1>4. g \in Seq(Imports)
  BY <1>3, LenProperties, IsASeq
<1> QED
  BY <1>2, <1>4 DEF Imported

LEMMA TypedStep ==
  ASSUME SearchTyped, [Next]_vars
  PROVE  SearchTyped'
<1> USE DEF SearchTyped
<1>1. ASSUME NEW q \in Questions, Ask(q) PROVE SearchTyped'
  <2>1. q.ident \in Names
    BY SearchAssumption
  <2>2. questions' \in 0..MaxQuestions
    BY <1>1, SearchAssumption DEF Ask, TypeOK
  <2> QED
    BY <1>1, <2>1, <2>2 DEF Ask, TypeOK, Answering, graph
<1>2. CASE AskedAnswered
  <2>1. ImmediateAnswer(asked.of) \in SUBSET Modules
    BY <1>2, AskedTyped, ImmediateTyped DEF AskedAnswered
  <2>2. answered' \subseteq [asked : Questions, answer : SUBSET Modules, erred : BOOLEAN]
    BY <1>2, <2>1, DeliverTyped DEF AskedAnswered
  <2> QED
    BY <1>2, <2>2 DEF AskedAnswered, TypeOK, Answering, graph, NoQuestion
<1>3. CASE Enter
  <2>1. asked.of \in Modules /\ asked.flags \in SUBSET Flags /\ asked # NoQuestion
    BY <1>3, AskedTyped DEF Enter
  <2>2. stack' = Append(<<>>, Activation(asked.of, asked.flags)) /\ <<>> \in Seq(Activations)
    BY <1>3 DEF Enter
  <2> QED
    BY <1>3, <2>1, <2>2, PushTyped DEF Enter
<1>4. CASE FoundInLocals
  <2>1. {Top.mod} \in SUBSET Modules
    BY <1>4, TopOfStack DEF FoundInLocals, Activations
  <2> QED
    BY <1>4, <2>1, ReturnTyped DEF FoundInLocals
<1>5. CASE NotInLocals
  <2>1. [Top EXCEPT !.i = 1] \in Activations
    BY <1>5, TopOfStack DEF NotInLocals, Activations
  <2> QED
    BY <1>5, <2>1, TopStepTyped DEF NotInLocals, TypeOK
<1>6. CASE SkipImport
  <2>1. Top \in Activations /\ Top.i + 1 \in Nat
    BY <1>6, TopOfStack DEF SkipImport, Scanning, Activations
  <2>2. [Top EXCEPT !.i = @ + 1] \in Activations
    BY <2>1 DEF Activations
  <2> QED
    BY <1>6, <2>2, TopStepTyped DEF SkipImport, Scanning, TypeOK
<1>7. CASE ImportAnswered
  <2> DEFINE s == ImmediateAnswer(Scanned.mod)
  <2>1. s \in SUBSET Modules
    BY <1>7, ScannedTyped, ImmediateTyped DEF ImportAnswered
  <2>2. Took(Top, s) \in Activations
    BY <1>7, <2>1, TopOfStack, TookTyped DEF ImportAnswered, Scanning
  <2>3. errors' \in Nat
    BY <1>7 DEF ImportAnswered, TypeOK
  <2> QED
    BY <1>7, <2>2, <2>3, TopStepTyped DEF ImportAnswered, Scanning
<1>8. CASE SearchImport
  <2>1. Scanned.mod \in Modules /\ Passed(Top.flags) \in SUBSET Flags
    BY <1>8, ScannedTyped DEF SearchImport
  <2>2. stack \in Seq(Activations) /\ asked # NoQuestion
    BY <1>8 DEF SearchImport, Scanning, TypeOK, Activations, Answering
  <2> QED
    BY <1>8, <2>1, <2>2, PushTyped DEF SearchImport
<1>9. CASE ImportsSearched
  <2>1. Top.found \in SUBSET Modules
    BY <1>9, TopOfStack DEF ImportsSearched, Activations
  <2> QED
    BY <1>9, <2>1, ReturnTyped DEF ImportsSearched
<1>10. ASSUME NEW n \in Insertions, SymtabInsert(n) PROVE SearchTyped'
  <2>1. n.in \in Modules /\ n.ident \in Names /\ n.kind \in Kinds
    BY SearchAssumption
  <2>2. decl' \in [Modules -> [Names -> Kinds \cup {"none"}]] /\ imports' \in [Modules -> Seq(Imports)]
    BY <1>10, <2>1 DEF SymtabInsert, TypeOK
  <2>3. cache' \in [Modules -> [ident : Names \cup {NoName}, flags : SUBSET Flags, symbol : SUBSET Modules]]
    BY <1>10, <2>1 DEF SymtabInsert, Invalidated, TypeOK
  <2> QED
    BY <1>10, <2>2, <2>3, ChangeTyped DEF SymtabInsert
<1>11. ASSUME NEW m \in Modules, NEW s \in Modules, NEW prot \in Protections, ImportScope(m, s, prot)
       PROVE  SearchTyped'
  <2>1. Imported(imports[m], s, prot) \in Seq(Imports)
    BY ImportedTyped DEF TypeOK
  <2>2. decl' \in [Modules -> [Names -> Kinds \cup {"none"}]] /\ imports' \in [Modules -> Seq(Imports)]
    BY <1>11, <2>1 DEF ImportScope, TypeOK
  <2>3. cache' \in [Modules -> [ident : Names \cup {NoName}, flags : SUBSET Flags, symbol : SUBSET Modules]]
    BY <1>11 DEF ImportScope, Invalidated, TypeOK
  <2> QED
    BY <1>11, <2>2, <2>3, ChangeTyped DEF ImportScope
<1>12. CASE ClearCache
  <2>1. cache' \in [Modules -> [ident : Names \cup {NoName}, flags : SUBSET Flags, symbol : SUBSET Modules]]
    BY <1>12 DEF ClearCache, TypeOK
  <2> QED
    BY <1>12, <2>1, ChangeTyped DEF ClearCache, TypeOK, graph
<1>13. CASE UNCHANGED vars
  BY <1>13 DEF vars, TypeOK, Answering
<1> QED
  BY <1>1, <1>2, <1>3, <1>4, <1>5, <1>6, <1>7, <1>8, <1>9, <1>10, <1>11, <1>12, <1>13 DEF Next, Step

LEMMA TypedInit ==
  ASSUME Init
  PROVE  SearchTyped
<1>1. PICK w \in Worlds : decl = w.decl /\ imports = w.imports
  BY DEF Init
<1>2. IsWorld(w)
  BY SearchAssumption
<1>3. <<>> \in Seq(Activations)
  OBVIOUS
<1> QED
  BY <1>1, <1>2, <1>3, SearchAssumption
  DEF Init, SearchTyped, TypeOK, Answering, IsWorld, NoCache, NoQuestion, Activations

(* The types of all variables: there is always a question behind an        *)
(* activation, and the answers are sets of modules.                        *)
THEOREM SearchTypes == Spec => []TypeOK
<1>1. Spec => []SearchTyped
  BY TypedInit, TypedStep, PTL DEF Spec
<1> QED
  BY <1>1, PTL DEF SearchTyped

----------------------------------------------------------------------------
(* Marks.                                                                  *)

LEMMA SameMarks ==
  ASSUME MarkedIffActive, Len(stack') = Len(stack), insearch' = insearch,
         \A k \in 1..Len(stack) : stack'[k].mod = stack[k].mod
  PROVE  MarkedIffActive'
BY DEF MarkedIffActive

LEMMA TopStepMarks ==
  ASSUME SearchTyped, MarkedIffActive, stack # <<>>, insearch' = insearch,
         NEW f \in Activations, f.mod = Top.mod, stack' = WithTop(f)
  PROVE  MarkedIffActive'
<1>1. stack \in Seq(Activations)
  BY DEF SearchTyped, TypeOK, Activations
<1>2. /\ Len(stack') = Len(stack) /\ stack'[Len(stack)] = f
      /\ \A k \in 1..Len(stack) : k # Len(stack) => stack'[k] = stack[k]
  BY <1>1, TopReplaced DEF WithTop
<1>3. \A k \in 1..Len(stack) : stack'[k].mod = stack[k].mod
  BY <1>2 DEF Top
<1> QED
  BY <1>2, <1>3, SameMarks

LEMMA PushMarks ==
  ASSUME SearchTyped, MarkedIffActive, NEW m \in Modules, ~insearch[m], NEW flags,
         stack' = Append(stack, Activation(m, flags)),
         insearch' = [insearch EXCEPT ![m] = TRUE]
  PROVE  MarkedIffActive'
<1> DEFINE n == Len(stack)
<1>1. stack \in Seq(Activations) /\ insearch \in [Modules -> BOOLEAN]
  BY DEF SearchTyped, TypeOK, Activations
<1>2. /\ n \in Nat /\ Len(stack') = n + 1 /\ stack'[n + 1].mod = m
      /\ \A k \in 1..n : stack'[k] = stack[k]
  BY <1>1, AppendProperties, LenProperties DEF Activation
<1>3. \A k \in 1..n : stack[k].mod # m
  BY <1>1 DEF MarkedIffActive
<1>4. ASSUME NEW x \in Modules
      PROVE  insearch'[x] <=> \E k \in 1..(n + 1) : stack'[k].mod = x
  <2>1. CASE x = m
    BY <1>1, <1>2, <2>1
  <2>2. CASE x # m
    <3>1. insearch'[x] <=> \E k \in 1..n : stack[k].mod = x
      BY <1>1, <2>2 DEF MarkedIffActive
    <3> HIDE DEF n
    <3>2. \A k \in 1..(n + 1) : k \in 1..n \/ k = n + 1
      BY <1>2
    <3>3. 1..n \subseteq 1..(n + 1)
      BY <1>2
    <3> QED
      BY <1>2, <2>2, <3>1, <3>2, <3>3
  <2> QED
    BY <2>1, <2>2
<1>5. \A j, k \in 1..n : stack[j].mod = stack[k].mod => j = k
  BY DEF MarkedIffActive
<1> HIDE DEF n
<1>6. \A j, k \in 1..(n + 1) : stack'[j].mod = stack'[k].mod => j = k
  <2>1. \A k \in 1..(n + 1) : k \in 1..n \/ k = n + 1
    BY <1>2
  <2> QED
    BY <1>2, <1>3, <1>5, <2>1
<1> QED
  BY <1>2, <1>4, <1>6 DEF MarkedIffActive

(* What return does to the activations below: the last of them takes the   *)
(* answer, the others stay.                                                *)
LEMMA ResumeKeeps ==
  ASSUME SearchTyped, stack # <<>>, NEW s \in SUBSET Modules, Return(s)
  PROVE  /\ Len(stack') = Len(stack) - 1
         /\ \A k \in 1..Len(stack') :
              /\ stack[k] \in Activations
              /\ stack'[k].mod = stack[k].mod /\ stack'[k].flags = stack[k].flags
              /\ stack'[k] = stack[k] \/ stack'[k] = Took(stack[k], s)
<1> USE DEF SearchTyped
<1>1. /\ Len(stack) \in Nat \ {0} /\ Callers \in Seq(Activations)
      /\ Len(Callers) = Len(stack) - 1
      /\ \A k \in 1..Len(Callers) : Callers[k] = stack[k]
  BY TopOfStack
<1>2. CASE Callers = <<>>
  BY <1>1, <1>2 DEF Return, Resume
<1>3. CASE Callers # <<>>
  <2> DEFINE n == Len(Callers)
             f == Callers[n]
  <2>1. n \in 1..n /\ f \in Activations /\ \A k \in 1..n : stack[k] \in Activations
    BY <1>1, <1>3, EmptySeq, LenProperties, ElementOfSeq
  <2>2. stack' = [Callers EXCEPT ![n] = Took(f, s)]
    BY <1>3 DEF Return, Resume
  <2>3. Took(f, s) \in Activations /\ Took(f, s).mod = f.mod /\ Took(f, s).flags = f.flags
    BY <2>1, TookTyped
  <2>4. /\ Len(stack') = n /\ stack'[n] = Took(f, s)
        /\ \A k \in 1..n : k # n => stack'[k] = Callers[k]
    BY <1>1, <1>3, <2>2, <2>3, TopReplaced
  <2>5. f = stack[n]
    BY <1>1, <2>1
  <2> HIDE DEF n, f
  <2>6. Len(stack') = Len(stack) - 1
    BY <1>1, <2>4 DEF n
  <2>7. \A k \in 1..n : Callers[k] = stack[k]
    BY <1>1 DEF n
  <2> QED
    BY <2>1, <2>3, <2>4, <2>5, <2>6, <2>7
<1> QED
  BY <1>2, <1>3

LEMMA ReturnMarks ==
  ASSUME SearchTyped, MarkedIffActive, stack # <<>>, NEW s \in SUBSET Modules, Return(s)
  PROVE  MarkedIffActive'
<1> DEFINE n == Len(stack)
<1>1. /\ n \in Nat \ {0} /\ Top = stack[n] /\ Top.mod \in Modules
      /\ insearch \in [Modules -> BOOLEAN]
  BY TopOfStack DEF SearchTyped, TypeOK, Top, Activations
<1>2. Len(stack') = n - 1 /\ \A k \in 1..(n - 1) : stack'[k].mod = stack[k].mod
  BY ResumeKeeps
<1>3. insearch' = [insearch EXCEPT ![Top.mod] = FALSE]
  BY DEF Return
<1>4. /\ \A x \in Modules : insearch[x] <=> \E k \in 1..n : stack[k].mod = x
      /\ \A j, k \in 1..n : stack[j].mod = stack[k].mod => j = k
  BY DEF MarkedIffActive
<1> HIDE DEF n
<1>5. \A k \in 1..n : k \in 1..(n - 1) \/ k = n
  BY <1>1
<1>6. n \in 1..n /\ n \notin 1..(n - 1) /\ 1..(n - 1) \subseteq 1..n
  BY <1>1
<1>7. ASSUME NEW x \in Modules
      PROVE  insearch'[x] <=> \E k \in 1..(n - 1) : stack'[k].mod = x
  <2>1. CASE x = Top.mod
    BY <1>1, <1>2, <1>3, <1>4, <1>6, <2>1
  <2>2. CASE x # Top.mod
    BY <1>1, <1>2, <1>3, <1>4, <1>5, <1>6, <2>2
  <2> QED
    BY <2>1, <2>2
<1>8. \A j, k \in 1..(n - 1) : stack'[j].mod = stack'[k].mod => j = k
  BY <1>2, <1>4, <1>6
<1> QED
  BY <1>2, <1>7, <1>8 DEF MarkedIffActive

LEMMA MarksStep ==
  ASSUME SearchTyped, MarkedIffActive, [Next]_vars
  PROVE  MarkedIffActive'
<1>1. ASSUME UNCHANGED <<stack, insearch>> PROVE MarkedIffActive'
  BY <1>1, SameMarks
<1>2. ASSUME NEW q \in Questions, Ask(q) PROVE MarkedIffActive'
  BY <1>1, <1>2 DEF Ask
<1>3. CASE AskedAnswered
  BY <1>1, <1>3 DEF AskedAnswered
<1>4. CASE Enter
  <2>1. asked.of \in Modules /\ ~insearch[asked.of]
    BY <1>4, AskedTyped DEF Enter, Immediate, SearchTyped
  <2>2. stack' = Append(stack, Activation(asked.of, asked.flags))
    BY <1>4 DEF Enter
  <2> QED
    BY <1>4, <2>1, <2>2, PushMarks DEF Enter
<1>5. CASE FoundInLocals
  <2>1. {Top.mod} \in SUBSET Modules
    BY <1>5, TopOfStack DEF FoundInLocals, Activations, SearchTyped
  <2> QED
    BY <1>5, <2>1, ReturnMarks DEF FoundInLocals
<1>6. CASE NotInLocals
  <2>1. Top \in Activations
    BY <1>6, TopOfStack DEF NotInLocals, SearchTyped
  <2>2. [Top EXCEPT !.i = 1] \in Activations /\ [Top EXCEPT !.i = 1].mod = Top.mod
    BY <2>1 DEF Activations
  <2> QED
    BY <1>6, <2>2, TopStepMarks DEF NotInLocals
<1>7. CASE SkipImport
  <2>1. Top \in Activations /\ Top.i + 1 \in Nat
    BY <1>7, TopOfStack DEF SkipImport, Scanning, Activations, SearchTyped
  <2>2. [Top EXCEPT !.i = @ + 1] \in Activations /\ [Top EXCEPT !.i = @ + 1].mod = Top.mod
    BY <2>1 DEF Activations
  <2> QED
    BY <1>7, <2>2, TopStepMarks DEF SkipImport, Scanning
<1>8. CASE ImportAnswered
  <2> DEFINE s == ImmediateAnswer(Scanned.mod)
  <2>1. s \in SUBSET Modules /\ Top \in Activations
    BY <1>8, TopOfStack, ScannedTyped, ImmediateTyped DEF ImportAnswered, Scanning, SearchTyped
  <2>2. Took(Top, s) \in Activations /\ Took(Top, s).mod = Top.mod
    BY <2>1, TookTyped DEF SearchTyped
  <2> QED
    BY <1>8, <2>2, TopStepMarks DEF ImportAnswered, Scanning
<1>9. CASE SearchImport
  <2>1. Scanned.mod \in Modules /\ ~insearch[Scanned.mod]
    BY <1>9, ScannedTyped DEF SearchImport, Immediate, SearchTyped
  <2> QED
    BY <1>9, <2>1, PushMarks DEF SearchImport
<1>10. CASE ImportsSearched
  <2>1. Top.found \in SUBSET Modules
    BY <1>10, TopOfStack DEF ImportsSearched, Activations, SearchTyped
  <2> QED
    BY <1>10, <2>1, ReturnMarks DEF ImportsSearched
<1>11. ASSUME Change PROVE MarkedIffActive'
  BY <1>1, <1>11 DEF Change
<1>12. CASE UNCHANGED vars
  BY <1>1, <1>12 DEF vars
<1> QED
  BY <1>2, <1>3, <1>4, <1>5, <1>6, <1>7, <1>8, <1>9, <1>10, <1>11, <1>12
  DEF Next, Step, SymtabInsert, ImportScope, ClearCache

(* The modules that carry the insearch mark are the ones being searched,   *)
(* and none of them is searched twice at a time: in every import graph the *)
(* recursion is no deeper than there are modules, and between searches no  *)
(* mark is left.                                                           *)
THEOREM MarksExact == Spec => []MarkedIffActive
<1>1. Init => MarkedIffActive
  BY DEF Init, MarkedIffActive
<1>2. SearchTyped /\ MarkedIffActive /\ [Next]_vars => (SearchTyped /\ MarkedIffActive)'
  BY TypedStep, MarksStep
<1>3. Init => SearchTyped
  BY TypedInit
<1> QED
  BY <1>1, <1>2, <1>3, PTL DEF Spec
----------------------------------------------------------------------------
(* Private symbols.                                                        *)

(* s may be the answer of m: symbols that are declared, and one symbol     *)
(* that m may see or several overloads.                                    *)
Shows(dcl, m, flags, n, s) ==
  /\ s \in SUBSET Modules
  /\ \A d \in s : dcl[d][n] # "none"
  /\ \/ \A d \in s : dcl[d][n] = "overload"
     \/ \E d \in Modules :
          /\ s = {d}
          /\ "ignoreVisibility" \notin flags /\ d # m => dcl[d][n] \in {"public", "overload"}

CachesShow ==
  \A m \in Modules : cache[m].ident # NoName =>
    Shows(decl, m, cache[m].flags, cache[m].ident, cache[m].symbol)
ActivationsShow ==
  \A k \in 1..Len(stack) : Shows(decl, stack[k].mod, stack[k].flags, ident, stack[k].found)
PrivateInv == CachesShow /\ ActivationsShow

LEMMA ShowsNothing ==
  ASSUME NEW dcl, NEW m, NEW flags, NEW n
  PROVE  Shows(dcl, m, flags, n, {})
BY DEF Shows

(* What one module shows another may take: it is visible there, or it is   *)
(* a set of overloads, which have no private ones.                         *)
LEMMA TookShows ==
  ASSUME TypeOK, ident \in Names, NEW f \in Activations, NEW g, NEW flags, NEW s,
         "ignoreVisibility" \notin flags,
         Shows(decl, g, flags, ident, s), Shows(decl, f.mod, f.flags, ident, f.found)
  PROVE  Shows(decl, f.mod, f.flags, ident, Took(f, s).found)
<1>1. CASE Conflict(f, s)
  <2>1. Took(f, s).found = {} \/ Took(f, s).found = f.found
    BY <1>1 DEF Took, Activations
  <2> QED
    BY <2>1, ShowsNothing
<1>2. CASE ~Conflict(f, s)
  <2>1. Took(f, s).found = IF Unseen(f, s) THEN f.found ELSE f.found \cup s
    BY <1>2 DEF Took, Activations
  <2>2. CASE Unseen(f, s)
    BY <2>1, <2>2
  <2>3. CASE ~Unseen(f, s)
    <3>1. Shows(decl, f.mod, f.flags, ident, s)
      <4>1. CASE \A d \in s : decl[d][ident] = "overload"
        BY <4>1 DEF Shows
      <4>2. ASSUME NEW d \in Modules, s = {d} PROVE Shows(decl, f.mod, f.flags, ident, s)
        <5>1. Cardinality(s) = 1
          BY <4>2, FS_Singleton
        <5>2. "ignoreVisibility" \in f.flags \/ (decl[d][ident] = "private" => d = f.mod)
          BY <2>3, <4>2, <5>1 DEF Unseen, Visible
        <5>3. TypeOK /\ decl[d][ident] # "none"
          BY <4>2 DEF Shows
        <5>4. decl[d][ident] \in {"public", "private", "overload"}
          BY <5>3 DEF TypeOK, Kinds
        <5> QED
          BY <4>2, <5>2, <5>3, <5>4 DEF Shows
      <4> QED
        BY <4>1, <4>2 DEF Shows
    <3>2. f.found = {} \/ s = f.found \/ Overloadable(f.found \cup s)
      BY <1>2, <2>3 DEF Conflict
    <3>3. CASE f.found = {}
      BY <2>1, <2>3, <3>1, <3>3
    <3>4. CASE s = f.found
      BY <2>1, <2>3, <3>1, <3>4
    <3>5. CASE Overloadable(f.found \cup s)
      BY <2>1, <2>3, <3>1, <3>5 DEF Shows, Overloadable
    <3> QED
      BY <3>2, <3>3, <3>4, <3>5
  <2> QED
    BY <2>2, <2>3
<1> QED
  BY <1>1, <1>2

LEMMA ImmediateShows ==
  ASSUME SearchTyped, CachesShow, ident \in Names, NEW m \in Modules, NEW flags \in SUBSET Flags,
         Immediate(m, flags)
  PROVE  Shows(decl, m, Effective(flags), ident, ImmediateAnswer(m))
<1>1. CASE insearch[m]
  BY <1>1, ShowsNothing DEF ImmediateAnswer
<1>2. CASE ~insearch[m]
  BY <1>2, SearchAssumption DEF Immediate, Hit, ImmediateAnswer, CachesShow
<1> QED
  BY <1>1, <1>2

LEMMA Searching ==
  ASSUME SearchTyped, stack # <<>>
  PROVE  asked # NoQuestion /\ ident \in Names /\ ident # NoName
BY AskedTyped, SearchAssumption DEF SearchTyped, Answering

LEMMA PassedFlags ==
  ASSUME NEW flags \in SUBSET Flags
  PROVE  "ignoreVisibility" \notin Passed(flags) /\ Effective(Passed(flags)) = Passed(flags)
BY DEF Passed, Effective

LEMMA TopStepPrivate ==
  ASSUME SearchTyped, PrivateInv, stack # <<>>, NEW f \in Activations, stack' = WithTop(f),
         f.mod = Top.mod, f.flags = Top.flags, Shows(decl, f.mod, f.flags, ident, f.found),
         UNCHANGED <<graph, cache, ident>>
  PROVE  PrivateInv'
<1>1. stack \in Seq(Activations)
  BY DEF SearchTyped, TypeOK, Activations
<1>2. /\ Len(stack') = Len(stack) /\ stack'[Len(stack)] = f
      /\ \A k \in 1..Len(stack) : k # Len(stack) => stack'[k] = stack[k]
  BY <1>1, TopReplaced DEF WithTop
<1>3. decl' = decl /\ ident' = ident /\ cache' = cache
  BY DEF graph
<1>4. CachesShow'
  BY <1>3 DEF PrivateInv, CachesShow
<1>5. ActivationsShow'
  BY <1>2, <1>3 DEF PrivateInv, ActivationsShow
<1> QED
  BY <1>4, <1>5 DEF PrivateInv

LEMMA PushPrivate ==
  ASSUME SearchTyped, PrivateInv, NEW m, NEW flags,
         stack' = Append(stack, Activation(m, flags)), UNCHANGED <<graph, cache, ident>>
  PROVE  PrivateInv'
<1>1. stack \in Seq(Activations)
  BY DEF SearchTyped, TypeOK, Activations
<1>2. /\ Len(stack) \in Nat /\ Len(stack') = Len(stack) + 1
      /\ stack'[Len(stack) + 1] = Activation(m, flags)
      /\ \A k \in 1..Len(stack) : stack'[k] = stack[k]
  BY <1>1, AppendProperties, LenProperties
<1>3. decl' = decl /\ ident' = ident /\ cache' = cache
  BY DEF graph
<1>4. CachesShow'
  BY <1>3 DEF PrivateInv, CachesShow
<1>5. ASSUME NEW k \in 1..Len(stack')
      PROVE  Shows(decl, stack'[k].mod, stack'[k].flags, ident, stack'[k].found)
  <2>1. k \in 1..Len(stack) \/ k = Len(stack) + 1
    BY <1>2
  <2>2. Activation(m, flags).found = {}
    BY DEF Activation
  <2> QED
    BY <1>2, <2>1, <2>2, ShowsNothing DEF PrivateInv, ActivationsShow
<1> QED
  BY <1>3, <1>4, <1>5 DEF PrivateInv, ActivationsShow

(* Only the activation that was called first has flags of its own.         *)
Inner == \A k \in 2..Len(stack) : "ignoreVisibility" \notin stack[k].flags

LEMMA ReturnPrivate ==
  ASSUME SearchTyped, PrivateInv, Inner, stack # <<>>, NEW s, Return(s),
         Shows(decl, Top.mod, Top.flags, ident, s)
  PROVE  PrivateInv'
<1>1. s \in SUBSET Modules /\ ident \in Names /\ TypeOK /\ Len(stack) \in Nat \ {0}
  BY Searching, TopOfStack DEF Shows, SearchTyped
<1>2. /\ Len(stack') = Len(stack) - 1
      /\ \A k \in 1..Len(stack') :
           /\ stack[k] \in Activations
           /\ stack'[k].mod = stack[k].mod /\ stack'[k].flags = stack[k].flags
           /\ stack'[k] = stack[k] \/ stack'[k] = Took(stack[k], s)
  BY <1>1, ResumeKeeps
<1>3. decl' = decl /\ ident' = ident
  BY DEF Return, graph
<1>4. CachesShow'
  <2> SUFFICES ASSUME NEW m \in Modules, cache'[m].ident # NoName
               PROVE  Shows(decl, m, cache'[m].flags, cache'[m].ident, cache'[m].symbol)
    BY <1>3 DEF CachesShow
  <2>1. cache'[m] = cache[m]
        \/ (m = Top.mod /\ cache'[m] = [ident |-> ident, flags |-> Top.flags, symbol |-> s])
    <3> DEFINE r == [ident |-> ident, flags |-> Top.flags, symbol |-> s]
    <3>1. cache' = cache \/ cache' = [cache EXCEPT ![Top.mod] = r]
      BY DEF Return, Remember
    <3>2. cache \in [Modules -> [ident : Names \cup {NoName}, flags : SUBSET Flags, symbol : SUBSET Modules]]
      BY DEF SearchTyped, TypeOK
    <3> HIDE DEF r
    <3>3. cache'[m] = cache[m] \/ (m = Top.mod /\ cache'[m] = r)
      BY <3>1, <3>2
    <3> QED
      BY <3>3 DEF r
  <2>2. CASE cache'[m] = cache[m]
    BY <2>2 DEF PrivateInv, CachesShow
  <2>3. CASE m = Top.mod /\ cache'[m] = [ident |-> ident, flags |-> Top.flags, symbol |-> s]
    BY <2>3
  <2> QED
    BY <2>1, <2>2, <2>3
<1>5. ASSUME NEW k \in 1..Len(stack')
      PROVE  Shows(decl, stack'[k].mod, stack'[k].flags, ident, stack'[k].found)
  <2>1. k \in 1..Len(stack) /\ Len(stack) \in 2..Len(stack)
    <3>1. Len(stack') = Len(stack) - 1
      BY <1>2
    <3> QED
      BY <1>1, <3>1
  <2>2. Shows(decl, stack[k].mod, stack[k].flags, ident, stack[k].found)
    BY <2>1 DEF PrivateInv, ActivationsShow
  <2>3. "ignoreVisibility" \notin Top.flags
    BY <2>1 DEF Inner, Top
  <2>4. Shows(decl, stack[k].mod, stack[k].flags, ident, Took(stack[k], s).found)
    BY <1>1, <1>2, <2>2, <2>3, TookShows
  <2> QED
    BY <1>2, <2>2, <2>4
<1> QED
  BY <1>3, <1>4, <1>5 DEF PrivateInv, ActivationsShow

(* A declaration never changes; only names that had none get one.          *)
LEMMA ChangePrivate ==
  ASSUME SearchTyped, PrivateInv, Change,
         \A m \in Modules : cache'[m].ident # NoName => cache'[m] = cache[m],
         \A m \in Modules : \A n \in Names : decl[m][n] # "none" => decl'[m][n] = decl[m][n]
  PROVE  PrivateInv'
<1>1. ActivationsShow'
  BY DEF Change, ActivationsShow
<1>2. ASSUME NEW m \in Modules, cache'[m].ident # NoName
      PROVE  Shows(decl', m, cache'[m].flags, cache'[m].ident, cache'[m].symbol)
  <2>1. cache'[m] = cache[m] /\ cache[m].ident \in Names
    BY <1>2 DEF SearchTyped, TypeOK
  <2>2. Shows(decl, m, cache[m].flags, cache[m].ident, cache[m].symbol)
    BY <1>2, <2>1 DEF PrivateInv, CachesShow
  <2>3. \A d \in cache[m].symbol : decl'[d][cache[m].ident] = decl[d][cache[m].ident]
    BY <2>1, <2>2 DEF Shows
  <2> QED
    BY <2>1, <2>2, <2>3 DEF Shows
<1> QED
  BY <1>1, <1>2 DEF PrivateInv, CachesShow

LEMMA PrivateStep ==
  ASSUME SearchTyped, PrivateInv, Inner, [Next]_vars
  PROVE  PrivateInv'
<1>1. ASSUME stack = <<>>, stack' = stack, cache' = cache, decl' = decl PROVE PrivateInv'
  BY <1>1 DEF PrivateInv, CachesShow, ActivationsShow
<1>2. ASSUME NEW q \in Questions, Ask(q) PROVE PrivateInv'
  BY <1>1, <1>2 DEF Ask, graph
<1>3. CASE AskedAnswered
  BY <1>1, <1>3 DEF AskedAnswered, graph
<1>4. CASE Enter
  <2>1. stack' = Append(stack, Activation(asked.of, asked.flags))
    BY <1>4 DEF Enter
  <2> QED
    BY <1>4, <2>1, PushPrivate DEF Enter
<1>5. CASE FoundInLocals
  <2>1. Top \in Activations /\ decl[Top.mod][ident] # "none"
    BY <1>5, TopOfStack DEF FoundInLocals, InLocals, SearchTyped
  <2>2. Shows(decl, Top.mod, Top.flags, ident, {Top.mod})
    BY <2>1 DEF Shows, Activations
  <2> QED
    BY <1>5, <2>2, ReturnPrivate DEF FoundInLocals
<1>6. CASE NotInLocals \/ SkipImport
  <2> DEFINE i == IF Top.i = 0 THEN 1 ELSE Top.i + 1
  <2>1. Top \in Activations /\ stack # <<>> /\ i \in Nat
    BY <1>6, TopOfStack DEF NotInLocals, SkipImport, Scanning, SearchTyped, Activations
  <2>2. Len(stack) \in 1..Len(stack)
    BY <2>1, TopOfStack DEF SearchTyped
  <2>3. Shows(decl, Top.mod, Top.flags, ident, Top.found)
    BY <2>2 DEF PrivateInv, ActivationsShow, Top
  <2>4. NotInLocals => Top.i = 0
    BY DEF NotInLocals
  <2>5. SkipImport => Top.i # 0
    BY DEF SkipImport, Scanning
  <2>6. stack' = WithTop([Top EXCEPT !.i = i]) /\ UNCHANGED <<graph, cache, ident>>
    BY <1>6, <2>4, <2>5 DEF NotInLocals, SkipImport
  <2> HIDE DEF i
  <2>7. /\ [Top EXCEPT !.i = i] \in Activations /\ [Top EXCEPT !.i = i].mod = Top.mod
        /\ [Top EXCEPT !.i = i].flags = Top.flags /\ [Top EXCEPT !.i = i].found = Top.found
    BY <2>1 DEF Activations
  <2> QED
    BY <2>1, <2>3, <2>6, <2>7, TopStepPrivate
<1>7. CASE ImportAnswered
  <2> DEFINE s == ImmediateAnswer(Scanned.mod)
             flags == Passed(Top.flags)
  <2>1. /\ stack # <<>> /\ Top \in Activations /\ Scanned.mod \in Modules
        /\ flags \in SUBSET Flags /\ s \in SUBSET Modules
        /\ Immediate(Scanned.mod, flags)
    BY <1>7, TopOfStack, ScannedTyped, ImmediateTyped DEF ImportAnswered, Scanning, SearchTyped
  <2>2. Top.flags \in SUBSET Flags /\ ident \in Names /\ TypeOK
    BY <2>1, Searching DEF Activations, SearchTyped
  <2>3. "ignoreVisibility" \notin flags /\ Effective(flags) = flags
    BY <2>2, PassedFlags
  <2>4. Shows(decl, Scanned.mod, flags, ident, s)
    BY <2>1, <2>2, <2>3, ImmediateShows DEF PrivateInv
  <2>5. Len(stack) \in 1..Len(stack)
    BY <2>1, TopOfStack DEF SearchTyped
  <2>6. Shows(decl, Top.mod, Top.flags, ident, Top.found)
    BY <2>5 DEF PrivateInv, ActivationsShow, Top
  <2>7. stack' = WithTop(Took(Top, s)) /\ UNCHANGED <<graph, cache, ident>>
    BY <1>7 DEF ImportAnswered
  <2> HIDE DEF s, flags
  <2>8. /\ Took(Top, s) \in Activations /\ Took(Top, s).mod = Top.mod
        /\ Took(Top, s).flags = Top.flags
    BY <2>1, <2>2, TookTyped
  <2>9. Shows(decl, Top.mod, Top.flags, ident, Took(Top, s).found)
    BY <2>1, <2>2, <2>3, <2>4, <2>6, TookShows
  <2> QED
    BY <2>1, <2>7, <2>8, <2>9, TopStepPrivate
<1>8. CASE SearchImport
  BY <1>8, PushPrivate DEF SearchImport
<1>9. CASE ImportsSearched
  <2>1. stack # <<>> /\ Len(stack) \in 1..Len(stack)
    BY <1>9, TopOfStack DEF ImportsSearched, SearchTyped
  <2>2. Shows(decl, Top.mod, Top.flags, ident, Top.found)
    BY <2>1 DEF PrivateInv, ActivationsShow, Top
  <2> QED
    BY <1>9, <2>1, <2>2, ReturnPrivate DEF ImportsSearched
<1>10. ASSUME NEW n \in Insertions, SymtabInsert(n) PROVE PrivateInv'
  <2>1. \A m \in Modules : cache'[m].ident # NoName => cache'[m] = cache[m]
    BY <1>10, SearchAssumption DEF SymtabInsert, Invalidated, SearchTyped, TypeOK
  <2>2. \A m \in Modules : \A x \in Names : decl[m][x] # "none" => decl'[m][x] = decl[m][x]
    BY <1>10, SearchAssumption DEF SymtabInsert, SearchTyped, TypeOK
  <2> QED
    BY <1>10, <2>1, <2>2, ChangePrivate DEF SymtabInsert
<1>11. ASSUME NEW m \in Modules, NEW s \in Modules, NEW prot \in Protections, ImportScope(m, s, prot)
       PROVE  PrivateInv'
  <2>1. \A x \in Modules : cache'[x].ident # NoName => cache'[x] = cache[x]
    BY <1>11 DEF ImportScope, Invalidated, SearchTyped, TypeOK
  <2> QED
    BY <1>11, <2>1, ChangePrivate DEF ImportScope
<1>12. CASE ClearCache
  <2>1. \A x \in Modules : cache'[x].ident # NoName => cache'[x] = cache[x]
    BY <1>12 DEF ClearCache, SearchTyped, TypeOK
  <2> QED
    BY <1>12, <2>1, ChangePrivate DEF ClearCache, graph
<1>13. CASE UNCHANGED vars
  BY <1>13 DEF vars, PrivateInv, CachesShow, ActivationsShow
<1> QED
  BY <1>2, <1>3, <1>4, <1>5, <1>6, <1>7, <1>8, <1>9, <1>10, <1>11, <1>12, <1>13 DEF Next, Step

LEMMA InnerStep ==
  ASSUME SearchTyped, Inner, [Next]_vars
  PROVE  Inner'
<1>1. ASSUME Len(stack') = Len(stack), \A k \in 1..Len(stack) : stack'[k].flags = stack[k].flags
      PROVE  Inner'
  <2>1. \A k \in 2..Len(stack) : k \in 1..Len(stack)
    OBVIOUS
  <2> QED
    BY <1>1, <2>1 DEF Inner
<1>2. ASSUME stack # <<>>, NEW f \in Activations, f.flags = Top.flags, stack' = WithTop(f)
      PROVE  Inner'
  <2>1. stack \in Seq(Activations)
    BY DEF SearchTyped, TypeOK, Activations
  <2>2. /\ Len(stack') = Len(stack) /\ stack'[Len(stack)] = f
        /\ \A k \in 1..Len(stack) : k # Len(stack) => stack'[k] = stack[k]
    BY <1>2, <2>1, TopReplaced DEF WithTop
  <2>3. \A k \in 1..Len(stack) : stack'[k].flags = stack[k].flags
    BY <1>2, <2>2 DEF Top
  <2> QED
    BY <1>1, <2>2, <2>3
<1>3. ASSUME stack # <<>>, NEW s \in SUBSET Modules, Return(s) PROVE Inner'
  <2>1. /\ Len(stack') = Len(stack) - 1
        /\ \A k \in 1..Len(stack') : stack'[k].flags = stack[k].flags
    BY <1>3, ResumeKeeps
  <2>2. Len(stack) \in Nat \ {0}
    BY <1>3, TopOfStack DEF SearchTyped
  <2>3. \A k \in 2..Len(stack') : k \in 1..Len(stack') /\ k \in 2..Len(stack)
    BY <2>1, <2>2
  <2> QED
    BY <2>1, <2>3 DEF Inner
<1>4. CASE Enter
  <2>1. Len(stack') = 1
    BY <1>4 DEF Enter
  <2> QED
    BY <2>1 DEF Inner
<1>5. CASE FoundInLocals \/ ImportsSearched
  <2>1. stack # <<>> /\ {Top.mod} \in SUBSET Modules /\ Top.found \in SUBSET Modules
    BY <1>5, TopOfStack DEF FoundInLocals, ImportsSearched, Activations, SearchTyped
  <2> QED
    BY <1>3, <1>5, <2>1 DEF FoundInLocals, ImportsSearched
<1>6. CASE NotInLocals
  <2>1. stack # <<>> /\ Top \in Activations
    BY <1>6, TopOfStack DEF NotInLocals, SearchTyped
  <2>2. [Top EXCEPT !.i = 1] \in Activations /\ [Top EXCEPT !.i = 1].flags = Top.flags
    BY <2>1 DEF Activations
  <2> QED
    BY <1>2, <1>6, <2>1, <2>2 DEF NotInLocals
<1>7. CASE SkipImport
  <2>1. stack # <<>> /\ Top \in Activations /\ Top.i + 1 \in Nat
    BY <1>7, TopOfStack DEF SkipImport, Scanning, Activations, SearchTyped
  <2>2. [Top EXCEPT !.i = @ + 1] \in Activations /\ [Top EXCEPT !.i = @ + 1].flags = Top.flags
    BY <2>1 DEF Activations
  <2> QED
    BY <1>2, <1>7, <2>1, <2>2 DEF SkipImport
<1>8. CASE ImportAnswered
  <2> DEFINE s == ImmediateAnswer(Scanned.mod)
  <2>1. stack # <<>> /\ s \in SUBSET Modules /\ Top \in Activations
    BY <1>8, TopOfStack, ScannedTyped, ImmediateTyped DEF ImportAnswered, Scanning, SearchTyped
  <2>2. Took(Top, s) \in Activations /\ Took(Top, s).flags = Top.flags
    BY <2>1, TookTyped DEF SearchTyped
  <2> QED
    BY <1>2, <1>8, <2>1, <2>2 DEF ImportAnswered
<1>9. CASE SearchImport
  <2>1. stack \in Seq(Activations) /\ Top.flags \in SUBSET Flags
    BY <1>9, TopOfStack DEF SearchTyped, TypeOK, Activations, SearchImport, Scanning
  <2>2. "ignoreVisibility" \notin Activation(Scanned.mod, Passed(Top.flags)).flags
    BY <2>1, PassedFlags DEF Activation
  <2>3. /\ Len(stack) \in Nat /\ Len(stack') = Len(stack) + 1
        /\ stack'[Len(stack) + 1] = Activation(Scanned.mod, Passed(Top.flags))
        /\ \A k \in 1..Len(stack) : stack'[k] = stack[k]
    BY <1>9, <2>1, AppendProperties, LenProperties DEF SearchImport
  <2>4. \A k \in 2..Len(stack') : (k \in 2..Len(stack) /\ k \in 1..Len(stack)) \/ k = Len(stack) + 1
    BY <2>3
  <2> QED
    BY <2>2, <2>3, <2>4 DEF Inner
<1>10. CASE UNCHANGED stack
  BY <1>10 DEF Inner
<1> QED
  BY <1>4, <1>5, <1>6, <1>7, <1>8, <1>9, <1>10
  DEF Next, Step, Ask, AskedAnswered, SymtabInsert, ImportScope, ClearCache, Change, vars

(* Whatever is searched, declared, imported and remembered in whatever     *)
(* order, no module remembers another module's private symbol as an answer *)
(* to a search that respects visibility.                                   *)
THEOREM PrivateHidden == Spec => []PrivateStaysPrivate
<1> DEFINE Inv == SearchTyped /\ Inner /\ PrivateInv
<1>1. Init => Inv
  BY TypedInit DEF Init, Inner, PrivateInv, CachesShow, ActivationsShow, NoCache
<1>2. Inv /\ [Next]_vars => Inv'
  BY TypedStep, InnerStep, PrivateStep
<1>3. Inv => PrivateStaysPrivate
  <2> SUFFICES ASSUME Inv, NEW m \in Modules, NEW d \in cache[m].symbol,
                      cache[m].ident # NoName, "ignoreVisibility" \notin cache[m].flags, d # m
               PROVE  decl[d][cache[m].ident] \in {"public", "overload"}
    BY DEF PrivateStaysPrivate
  <2>1. Shows(decl, m, cache[m].flags, cache[m].ident, cache[m].symbol)
    BY DEF PrivateInv, CachesShow
  <2> QED
    BY <2>1 DEF Shows
<1> HIDE DEF Inv
<1> QED
  BY <1>1, <1>2, <1>3, PTL DEF Spec

----------------------------------------------------------------------------
(* Calls.                                                                  *)

(* Each activation was called for the import where its caller stands, and  *)
(* the first one for the question.                                         *)
CalledFor(f, g) ==
  /\ f.i \in 1..Len(imports[f.mod])
  /\ ~Skipped(f, imports[f.mod][f.i])
  /\ g.mod = imports[f.mod][f.i].mod /\ g.flags = Passed(f.flags)
Called == \A k \in 2..Len(stack) : CalledFor(stack[k - 1], stack[k])
First == stack # <<>> => stack[1].mod = asked.of /\ stack[1].flags = Effective(asked.flags)
CallInv == Called /\ First

LEMMA EffectiveTwice ==
  ASSUME NEW flags
  PROVE  Effective(Effective(flags)) = Effective(flags)
BY DEF Effective

LEMMA NonEmpty ==
  ASSUME TypeOK, stack # <<>>
  PROVE  Len(stack) \in Nat \ {0} /\ Len(stack) \in 1..Len(stack) /\ Top = stack[Len(stack)]
         /\ stack \in Seq(Activations)
<1>1. Len(stack) \in Nat \ {0}
  BY TopOfStack
<1> QED
  BY <1>1 DEF Top, TypeOK, Activations

(* What a step inside the top activation leaves.                           *)
LEMMA TopStepStack ==
  ASSUME TypeOK, stack # <<>>, NEW f \in Activations, stack' = WithTop(f)
  PROVE  /\ Len(stack') = Len(stack) /\ stack' # <<>> /\ stack'[Len(stack)] = f
         /\ \A k \in 1..Len(stack) : k # Len(stack) => stack'[k] = stack[k]
<1>1. stack \in Seq(Activations) /\ Len(stack) \in Nat \ {0}
  BY NonEmpty
<1>2. /\ Len(stack') = Len(stack) /\ stack'[Len(stack)] = f
      /\ \A k \in 1..Len(stack) : k # Len(stack) => stack'[k] = stack[k]
  BY <1>1, TopReplaced DEF WithTop
<1> QED
  BY <1>1, <1>2

LEMMA TopStepCalls ==
  ASSUME SearchTyped, CallInv, stack # <<>>, NEW f \in Activations, stack' = WithTop(f),
         f.mod = Top.mod, f.flags = Top.flags, UNCHANGED <<graph, asked>>
  PROVE  CallInv'
<1>1. /\ Len(stack') = Len(stack) /\ stack' # <<>> /\ stack'[Len(stack)] = f
      /\ \A k \in 1..Len(stack) : k # Len(stack) => stack'[k] = stack[k]
  BY TopStepStack DEF SearchTyped
<1>2. Len(stack) \in Nat \ {0} /\ Top = stack[Len(stack)]
  BY NonEmpty DEF SearchTyped
<1>3. \A k \in 1..Len(stack) : stack'[k].mod = stack[k].mod /\ stack'[k].flags = stack[k].flags
  BY <1>1, <1>2
<1>4. ASSUME NEW k \in 2..Len(stack') PROVE CalledFor(stack'[k - 1], stack'[k])
  <2>1. k \in 1..Len(stack) /\ k - 1 \in 1..Len(stack) /\ k - 1 # Len(stack) /\ k \in 2..Len(stack)
    BY <1>1, <1>2
  <2>2. CalledFor(stack[k - 1], stack[k])
    BY <2>1 DEF CallInv, Called
  <2> QED
    BY <1>1, <1>3, <2>1, <2>2 DEF CalledFor
<1>6. imports' = imports
  BY DEF graph
<1>7. Called'
  BY <1>4, <1>6 DEF Called, CalledFor
<1>8. First'
  BY <1>1, <1>2, <1>3 DEF CallInv, First
<1> QED
  BY <1>7, <1>8 DEF CallInv

(* A return changes its caller only.                                       *)
LEMMA ReturnLeaves ==
  ASSUME TypeOK, stack # <<>>, NEW s \in SUBSET Modules, Return(s)
  PROVE  \A k \in 1..Len(stack') : k + 1 # Len(stack) => stack'[k] = stack[k]
<1>1. Len(stack) \in Nat \ {0} /\ Callers \in Seq(Activations) /\ Len(Callers) = Len(stack) - 1
      /\ \A k \in 1..Len(Callers) : Callers[k] = stack[k]
  BY TopOfStack
<1>2. CASE Callers = <<>>
  BY <1>2 DEF Return, Resume
<1>3. CASE Callers # <<>>
  <2> DEFINE m == Len(Callers)
  <2>1. stack' = [Callers EXCEPT ![m] = Took(Callers[m], s)]
    BY <1>3 DEF Return, Resume
  <2>2. m \in 1..m /\ Callers[m] \in Activations
    BY <1>1, <1>3, EmptySeq, LenProperties, ElementOfSeq
  <2>3. Took(Callers[m], s) \in Activations
    BY <2>2, TookTyped
  <2>4. Len(stack') = m /\ \A k \in 1..m : k # m => stack'[k] = Callers[k]
    BY <1>1, <1>3, <2>1, <2>3, TopReplaced
  <2>5. \A k \in 1..m : k + 1 # Len(stack) => k # m
    BY <1>1
  <2> QED
    BY <1>1, <2>4, <2>5
<1> QED
  BY <1>2, <1>3

LEMMA CallsStep ==
  ASSUME SearchTyped, CallInv, [Next]_vars
  PROVE  CallInv'
<1> USE DEF SearchTyped
<1>1. ASSUME stack = <<>>, stack' = <<>> PROVE CallInv'
  BY <1>1 DEF CallInv, Called, First
<1>2. ASSUME NEW q \in Questions, Ask(q) PROVE CallInv'
  BY <1>1, <1>2 DEF Ask
<1>3. CASE AskedAnswered
  BY <1>1, <1>3 DEF AskedAnswered
<1>4. CASE Enter
  <2>1. stack' = <<Activation(asked.of, asked.flags)>> /\ asked' = asked
    BY <1>4 DEF Enter
  <2> QED
    BY <2>1 DEF CallInv, Called, First, Activation
<1>5. ASSUME stack # <<>>, NEW s \in SUBSET Modules, Return(s) PROVE CallInv'
  <2>1. /\ Len(stack') = Len(stack) - 1
        /\ \A k \in 1..Len(stack') :
             /\ stack[k] \in Activations
             /\ stack'[k].mod = stack[k].mod /\ stack'[k].flags = stack[k].flags
             /\ stack'[k] = stack[k] \/ stack'[k] = Took(stack[k], s)
    BY <1>5, ResumeKeeps
  <2>2. Len(stack) \in Nat \ {0} /\ Callers \in Seq(Activations) /\ Len(Callers) = Len(stack) - 1
        /\ \A k \in 1..Len(Callers) : Callers[k] = stack[k]
    BY <1>5, TopOfStack
  <2>3. imports' = imports
    BY <1>5 DEF Return, graph
  <2>4. \A k \in 1..(Len(stack) - 2) : stack'[k] = stack[k]
    <3>1. \A k \in 1..(Len(stack) - 2) : k \in 1..Len(stack') /\ k + 1 # Len(stack)
      BY <2>1, <2>2
    <3> QED
      BY <1>5, <3>1, ReturnLeaves
  <2>5. ASSUME NEW k \in 2..Len(stack') PROVE CalledFor(stack'[k - 1], stack'[k])
    <3>1. k \in 2..Len(stack) /\ k \in 1..Len(stack') /\ k - 1 \in 1..(Len(stack) - 2)
      BY <2>1, <2>2
    <3>2. CalledFor(stack[k - 1], stack[k])
      BY <3>1 DEF CallInv, Called
    <3> QED
      BY <2>1, <2>4, <3>1, <3>2 DEF CalledFor
  <2>6. Called'
    BY <2>3, <2>5 DEF Called, CalledFor
  <2>7. First'
    <3>1. CASE stack' = <<>>
      BY <3>1 DEF First
    <3>2. CASE stack' # <<>>
      <4>1. Callers # <<>>
        BY <1>5, <3>2 DEF Return, Resume
      <4>2. asked' = asked
        BY <1>5, <4>1 DEF Return, Resume
      <4>3. 1 \in 1..Len(stack')
        BY <2>1, <2>2, <4>1, EmptySeq, LenProperties
      <4> QED
        BY <1>5, <2>1, <4>2, <4>3 DEF CallInv, First
    <3> QED
      BY <3>1, <3>2
  <2> QED
    BY <2>6, <2>7 DEF CallInv
<1>6. CASE FoundInLocals
  <2>1. {Top.mod} \in SUBSET Modules /\ stack # <<>>
    BY <1>6, TopOfStack DEF FoundInLocals, Activations
  <2> QED
    BY <1>5, <1>6, <2>1 DEF FoundInLocals
<1>7. CASE ImportsSearched
  <2>1. Top.found \in SUBSET Modules /\ stack # <<>>
    BY <1>7, TopOfStack DEF ImportsSearched, Activations
  <2> QED
    BY <1>5, <1>7, <2>1 DEF ImportsSearched
<1>8. CASE NotInLocals
  <2>1. Top \in Activations /\ stack # <<>>
    BY <1>8, TopOfStack DEF NotInLocals
  <2>2. /\ [Top EXCEPT !.i = 1] \in Activations /\ [Top EXCEPT !.i = 1].mod = Top.mod
        /\ [Top EXCEPT !.i = 1].flags = Top.flags
    BY <2>1 DEF Activations
  <2> QED
    BY <1>8, <2>1, <2>2, TopStepCalls DEF NotInLocals
<1>9. CASE SkipImport
  <2>1. Top \in Activations /\ Top.i + 1 \in Nat /\ stack # <<>>
    BY <1>9, TopOfStack DEF SkipImport, Scanning, Activations
  <2>2. /\ [Top EXCEPT !.i = @ + 1] \in Activations /\ [Top EXCEPT !.i = @ + 1].mod = Top.mod
        /\ [Top EXCEPT !.i = @ + 1].flags = Top.flags
    BY <2>1 DEF Activations
  <2> QED
    BY <1>9, <2>1, <2>2, TopStepCalls DEF SkipImport
<1>10. CASE ImportAnswered
  <2> DEFINE s == ImmediateAnswer(Scanned.mod)
  <2>1. s \in SUBSET Modules /\ Top \in Activations /\ stack # <<>>
    BY <1>10, TopOfStack, ScannedTyped, ImmediateTyped DEF ImportAnswered, Scanning
  <2>2. Took(Top, s) \in Activations /\ Took(Top, s).mod = Top.mod /\ Took(Top, s).flags = Top.flags
    BY <2>1, TookTyped
  <2> QED
    BY <1>10, <2>1, <2>2, TopStepCalls DEF ImportAnswered
<1>11. CASE SearchImport
  <2> DEFINE g == Activation(Scanned.mod, Passed(Top.flags))
  <2>1. /\ stack # <<>> /\ Top \in Activations /\ Top = stack[Len(stack)]
        /\ stack \in Seq(Activations)
        /\ imports' = imports /\ asked' = asked /\ stack' = Append(stack, g)
    BY <1>11, TopOfStack, NonEmpty DEF SearchImport, Scanning, graph
  <2>2. /\ Len(stack) \in Nat \ {0} /\ Len(stack') = Len(stack) + 1
        /\ stack'[Len(stack) + 1] = g
        /\ \A k \in 1..Len(stack) : stack'[k] = stack[k]
    BY <2>1, NonEmpty, AppendProperties
  <2>3. CalledFor(Top, g)
    <3>1. Effective(Passed(Top.flags)) = Passed(Top.flags)
      BY <2>1, PassedFlags DEF Activations
    <3> QED
      BY <1>11, <3>1 DEF SearchImport, Scanning, CalledFor, Activation, Scanned, Scopes
  <2> HIDE DEF g
  <2>4. ASSUME NEW k \in 2..Len(stack') PROVE CalledFor(stack'[k - 1], stack'[k])
    <3>1. CASE k = Len(stack) + 1
      BY <2>1, <2>2, <2>3, <3>1
    <3>2. CASE k # Len(stack) + 1
      <4>1. k \in 2..Len(stack) /\ k \in 1..Len(stack) /\ k - 1 \in 1..Len(stack)
        BY <2>2, <3>2
      <4> QED
        BY <2>2, <4>1 DEF CallInv, Called
    <3> QED
      BY <3>1, <3>2
  <2>5. Called'
    BY <2>1, <2>4 DEF Called, CalledFor
  <2>6. First'
    BY <2>1, <2>2 DEF CallInv, First
  <2> QED
    BY <2>5, <2>6 DEF CallInv
<1>12. ASSUME Change PROVE CallInv'
  BY <1>1, <1>12 DEF Change
<1>13. CASE UNCHANGED vars
  BY <1>13 DEF vars, CallInv, Called, CalledFor, First
<1> QED
  BY <1>2, <1>3, <1>4, <1>6, <1>7, <1>8, <1>9, <1>10, <1>11, <1>12, <1>13
  DEF Next, Step, SymtabInsert, ImportScope, ClearCache
----------------------------------------------------------------------------
(* Private imports.                                                        *)

AllReached(m, s) == \A d \in s : PubliclyReached(m, d)
ActivationsReach ==
  \A k \in 1..Len(stack) :
    "ignorePrivate" \in stack[k].flags => AllReached(stack[k].mod, stack[k].found)
PublicInv == PrivateImportsStayPrivate /\ ActivationsReach

LEMMA ReachedAlong ==
  ASSUME TypeOK, NEW m \in Modules, NEW i \in 1..Len(imports[m]), imports[m][i].prot # "private",
         NEW d, PubliclyReached(imports[m][i].mod, d)
  PROVE  PubliclyReached(m, d)
<1>1. imports[m][i] \in Imports
  BY ScopesTyped
<1>2. imports[m][i].mod \in ImportsOf(m, {"public"})
  BY <1>1 DEF ImportsOf, Imports, Protections
<1> SUFFICES ASSUME NEW S \in SUBSET Modules, m \in S,
                    \A x \in S : ImportsOf(x, {"public"}) \subseteq S
             PROVE  d \in S
  BY DEF PubliclyReached
<1>3. imports[m][i].mod \in S
  BY <1>2
<1> QED
  BY <1>3 DEF PubliclyReached

(* The name was found in m itself.                                         *)
LEMMA ReachedAtHome ==
  ASSUME NEW m PROVE AllReached(m, {m}) /\ AllReached(m, {})
BY DEF AllReached, PubliclyReached

LEMMA TookReached ==
  ASSUME TypeOK, NEW f \in Activations, f.i \in 1..Len(imports[f.mod]),
         ~Skipped(f, imports[f.mod][f.i]), "ignorePrivate" \in f.flags,
         NEW s, AllReached(imports[f.mod][f.i].mod, s), AllReached(f.mod, f.found)
  PROVE  AllReached(f.mod, Took(f, s).found)
<1>1. f.mod \in Modules /\ imports[f.mod][f.i].prot # "private"
  BY DEF Activations, Skipped
<1>2. AllReached(f.mod, s)
  BY <1>1, ReachedAlong DEF AllReached
<1>3. \/ Took(f, s).found = {}
      \/ Took(f, s).found = f.found
      \/ Took(f, s).found = f.found \cup s
  BY DEF Took, Activations
<1> QED
  BY <1>2, <1>3 DEF AllReached

LEMMA TopStepReached ==
  ASSUME SearchTyped, PublicInv, stack # <<>>, NEW f \in Activations, stack' = WithTop(f),
         "ignorePrivate" \in f.flags => AllReached(f.mod, f.found),
         UNCHANGED <<graph, cache>>
  PROVE  PublicInv'
<1>1. /\ Len(stack') = Len(stack) /\ stack'[Len(stack)] = f
      /\ \A k \in 1..Len(stack) : k # Len(stack) => stack'[k] = stack[k]
  BY TopStepStack DEF SearchTyped
<1>2. imports' = imports /\ cache' = cache
  BY DEF graph
<1>3. PrivateImportsStayPrivate'
  BY <1>2 DEF PublicInv, PrivateImportsStayPrivate, PubliclyReached, ImportsOf
<1>4. \A k \in 1..Len(stack') :
        "ignorePrivate" \in stack'[k].flags => AllReached(stack'[k].mod, stack'[k].found)
  BY <1>1 DEF PublicInv, ActivationsReach
<1>5. ActivationsReach'
  BY <1>2, <1>4 DEF ActivationsReach, AllReached, PubliclyReached, ImportsOf
<1> QED
  BY <1>3, <1>5 DEF PublicInv

LEMMA PushReached ==
  ASSUME SearchTyped, PublicInv, NEW m, NEW flags,
         stack' = Append(stack, Activation(m, flags)), UNCHANGED <<graph, cache>>
  PROVE  PublicInv'
<1>1. stack \in Seq(Activations)
  BY DEF SearchTyped, TypeOK, Activations
<1>2. /\ Len(stack) \in Nat /\ Len(stack') = Len(stack) + 1
      /\ stack'[Len(stack) + 1] = Activation(m, flags)
      /\ \A k \in 1..Len(stack) : stack'[k] = stack[k]
  BY <1>1, AppendProperties, LenProperties
<1>3. imports' = imports /\ cache' = cache
  BY DEF graph
<1>4. PrivateImportsStayPrivate'
  BY <1>3 DEF PublicInv, PrivateImportsStayPrivate, PubliclyReached, ImportsOf
<1>5. ASSUME NEW k \in 1..Len(stack'), "ignorePrivate" \in stack'[k].flags
      PROVE  AllReached(stack'[k].mod, stack'[k].found)
  <2>1. k \in 1..Len(stack) \/ k = Len(stack) + 1
    BY <1>2
  <2>2. Activation(m, flags).found = {}
    BY DEF Activation
  <2> QED
    BY <1>2, <1>5, <2>1, <2>2, ReachedAtHome DEF PublicInv, ActivationsReach
<1>6. ActivationsReach'
  BY <1>3, <1>5 DEF ActivationsReach, AllReached, PubliclyReached, ImportsOf
<1> QED
  BY <1>4, <1>6 DEF PublicInv

(* The caller takes the answer at the import that it called for; calls     *)
(* pass the flag on.                                                       *)
LEMMA ReturnReached ==
  ASSUME SearchTyped, CallInv, PublicInv, stack # <<>>, NEW s \in SUBSET Modules, Return(s),
         "ignorePrivate" \in Top.flags => AllReached(Top.mod, s)
  PROVE  PublicInv'
<1>1. TypeOK /\ Len(stack) \in Nat \ {0}
  BY TopOfStack DEF SearchTyped
<1>2. /\ Len(stack') = Len(stack) - 1
      /\ \A k \in 1..Len(stack') :
           /\ stack[k] \in Activations
           /\ stack'[k].mod = stack[k].mod /\ stack'[k].flags = stack[k].flags
           /\ stack'[k] = stack[k] \/ stack'[k] = Took(stack[k], s)
  BY <1>1, ResumeKeeps
<1>3. imports' = imports
  BY DEF Return, graph
<1>4. PrivateImportsStayPrivate'
  <2> SUFFICES ASSUME NEW m \in Modules, cache'[m].ident # NoName,
                      "ignorePrivate" \in cache'[m].flags
               PROVE  \A d \in cache'[m].symbol : PubliclyReached(m, d)
    BY <1>3 DEF PrivateImportsStayPrivate, PubliclyReached, ImportsOf
  <2> DEFINE r == [ident |-> ident, flags |-> Top.flags, symbol |-> s]
  <2>1. cache' = cache \/ cache' = [cache EXCEPT ![Top.mod] = r]
    BY DEF Return, Remember
  <2>2. cache \in [Modules -> [ident : Names \cup {NoName}, flags : SUBSET Flags, symbol : SUBSET Modules]]
    BY DEF SearchTyped, TypeOK
  <2>3. r.flags = Top.flags /\ r.symbol = s
    OBVIOUS
  <2> HIDE DEF r
  <2>4. cache'[m] = cache[m] \/ (m = Top.mod /\ cache'[m] = r)
    BY <2>1, <2>2
  <2> QED
    BY <2>3, <2>4 DEF PublicInv, PrivateImportsStayPrivate, AllReached
<1>5. ASSUME NEW k \in 1..Len(stack'), "ignorePrivate" \in stack'[k].flags
      PROVE  AllReached(stack'[k].mod, stack'[k].found)
  <2>1. k \in 1..Len(stack) /\ k + 1 \in 2..Len(stack) /\ (k + 1) - 1 = k
    <3>1. Len(stack') = Len(stack) - 1
      BY <1>2
    <3> QED
      BY <1>1, <3>1
  <2>2. AllReached(stack[k].mod, stack[k].found)
    BY <1>2, <1>5, <2>1 DEF PublicInv, ActivationsReach
  <2>3. CASE stack'[k] = stack[k]
    BY <2>2, <2>3
  <2>4. CASE stack'[k] = Took(stack[k], s) /\ k + 1 = Len(stack)
    <3>1. Top = stack[k + 1]
      BY <2>4 DEF Top
    <3>2. CalledFor(stack[k], Top)
      BY <2>1, <3>1 DEF CallInv, Called
    <3>3. "ignorePrivate" \in Top.flags
      BY <3>2 DEF CalledFor, Passed
    <3>4. AllReached(imports[stack[k].mod][stack[k].i].mod, s)
      BY <3>2, <3>3 DEF CalledFor
    <3> QED
      BY <1>1, <1>2, <1>5, <2>2, <2>4, <3>2, <3>4, TookReached DEF CalledFor
  <2>5. k + 1 # Len(stack) => stack'[k] = stack[k]
    BY <1>1, <1>2, ReturnLeaves
  <2> QED
    BY <1>2, <2>3, <2>4, <2>5
<1>6. ActivationsReach'
  BY <1>3, <1>5 DEF ActivationsReach, AllReached, PubliclyReached, ImportsOf
<1> QED
  BY <1>4, <1>6 DEF PublicInv

(* An import that is added or made public takes nothing away.              *)
LEMMA ImportedKeeps ==
  ASSUME TypeOK, NEW m \in Modules, NEW s \in Modules, NEW prot \in Protections,
         imports' = [imports EXCEPT ![m] = Imported(@, s, prot)], NEW x \in Modules
  PROVE  ImportsOf(x, {"public"}) \subseteq ImportsOf(x, {"public"})'
<1> DEFINE old == imports[m]
           new == Imported(old, s, prot)
<1>1. old \in Seq(Imports) /\ imports' = [imports EXCEPT ![m] = new]
      /\ imports \in [Modules -> Seq(Imports)]
  BY DEF TypeOK
<1>2. Len(old) \in Nat /\ \A i \in 1..Len(old) : old[i] \in Imports
  BY <1>1, LenProperties, ElementOfSeq
<1>3. ASSUME NEW i \in 1..Len(old), old[i].prot = "public"
      PROVE  i \in 1..Len(new) /\ new[i].mod = old[i].mod /\ new[i].prot = "public"
  <2>1. CASE \E j \in 1..Len(old) : old[j].mod = s
    <3>1. new = [j \in 1..Len(old) |-> IF old[j].mod = s /\ prot = "public"
                                  THEN [old[j] EXCEPT !.prot = "public"] ELSE old[j]]
      BY <2>1 DEF Imported
    <3>2. Len(new) = Len(old)
      BY <1>2, <3>1
    <3>3. new[i] = old[i] \/ new[i] = [old[i] EXCEPT !.prot = "public"]
      BY <3>1
    <3> QED
      BY <1>2, <1>3, <3>2, <3>3 DEF Imports
  <2>2. CASE ~\E j \in 1..Len(old) : old[j].mod = s
    <3>1. new = Append(old, [mod |-> s, prot |-> prot])
      BY <2>2 DEF Imported
    <3>2. [mod |-> s, prot |-> prot] \in Imports
      BY DEF Imports
    <3>3. Len(new) = Len(old) + 1 /\ new[i] = old[i]
      BY <1>1, <1>2, <3>1, <3>2, AppendProperties
    <3> QED
      BY <1>2, <1>3, <3>3
  <2> QED
    BY <2>1, <2>2
<1> HIDE DEF new
<1>4. imports'[x] = imports[x] \/ (x = m /\ imports'[x] = new)
  BY <1>1
<1> QED
  BY <1>3, <1>4 DEF ImportsOf

LEMMA ChangeReached ==
  ASSUME SearchTyped, PublicInv, Change,
         \A m \in Modules : cache'[m].ident # NoName => cache'[m] = cache[m],
         \A m \in Modules : ImportsOf(m, {"public"}) \subseteq ImportsOf(m, {"public"})'
  PROVE  PublicInv'
<1>1. ActivationsReach'
  BY DEF Change, ActivationsReach
<1>2. ASSUME NEW m \in Modules, NEW d, PubliclyReached(m, d) PROVE PubliclyReached(m, d)'
  <2> SUFFICES ASSUME NEW S \in SUBSET Modules, m \in S,
                      \A x \in S : ImportsOf(x, {"public"})' \subseteq S
               PROVE  d \in S
    BY DEF PubliclyReached
  <2>1. \A x \in S : ImportsOf(x, {"public"}) \subseteq S
    OBVIOUS
  <2> QED
    BY <1>2, <2>1 DEF PubliclyReached
<1>3. PrivateImportsStayPrivate'
  BY <1>2 DEF PublicInv, PrivateImportsStayPrivate
<1> QED
  BY <1>1, <1>3 DEF PublicInv

LEMMA ImmediateReached ==
  ASSUME SearchTyped, PublicInv, ident \in Names, NEW m \in Modules, NEW flags \in SUBSET Flags,
         Immediate(m, Passed(flags))
  PROVE  AllReached(m, ImmediateAnswer(m))
<1>1. CASE insearch[m]
  BY <1>1, ReachedAtHome DEF ImmediateAnswer
<1>2. CASE ~insearch[m]
  <2>1. cache[m].ident = ident /\ cache[m].flags = Passed(flags) /\ ImmediateAnswer(m) = cache[m].symbol
    BY <1>2, PassedFlags DEF Immediate, Hit, ImmediateAnswer
  <2>2. cache[m].ident # NoName /\ "ignorePrivate" \in cache[m].flags
    BY <2>1, SearchAssumption DEF Passed
  <2> QED
    BY <2>1, <2>2 DEF PublicInv, PrivateImportsStayPrivate, AllReached
<1> QED
  BY <1>1, <1>2

LEMMA PublicStep ==
  ASSUME SearchTyped, CallInv, PublicInv, [Next]_vars
  PROVE  PublicInv'
<1> USE DEF SearchTyped
<1>1. ASSUME stack' = stack, cache' = cache, imports' = imports PROVE PublicInv'
  BY <1>1 DEF PublicInv, PrivateImportsStayPrivate, ActivationsReach, AllReached,
              PubliclyReached, ImportsOf
<1>2. ASSUME NEW q \in Questions, Ask(q) PROVE PublicInv'
  BY <1>1, <1>2 DEF Ask, graph
<1>3. CASE AskedAnswered
  BY <1>1, <1>3 DEF AskedAnswered, graph
<1>4. CASE Enter
  <2>1. stack' = Append(stack, Activation(asked.of, asked.flags))
    BY <1>4 DEF Enter
  <2> QED
    BY <1>4, <2>1, PushReached DEF Enter
<1>5. CASE FoundInLocals
  <2>1. {Top.mod} \in SUBSET Modules /\ stack # <<>>
    BY <1>5, TopOfStack DEF FoundInLocals, Activations
  <2> QED
    BY <1>5, <2>1, ReachedAtHome, ReturnReached DEF FoundInLocals
<1>6. CASE NotInLocals \/ SkipImport
  <2> DEFINE i == IF Top.i = 0 THEN 1 ELSE Top.i + 1
  <2>1. Top \in Activations /\ stack # <<>> /\ i \in Nat
    BY <1>6, TopOfStack DEF NotInLocals, SkipImport, Scanning, Activations
  <2>2. Len(stack) \in 1..Len(stack) /\ Top = stack[Len(stack)]
    BY <2>1, NonEmpty
  <2>3. "ignorePrivate" \in Top.flags => AllReached(Top.mod, Top.found)
    BY <2>2 DEF PublicInv, ActivationsReach
  <2>4. NotInLocals => Top.i = 0
    BY DEF NotInLocals
  <2>5. SkipImport => Top.i # 0
    BY DEF SkipImport, Scanning
  <2>6. stack' = WithTop([Top EXCEPT !.i = i]) /\ UNCHANGED <<graph, cache>>
    BY <1>6, <2>4, <2>5 DEF NotInLocals, SkipImport
  <2> HIDE DEF i
  <2>7. /\ [Top EXCEPT !.i = i] \in Activations /\ [Top EXCEPT !.i = i].mod = Top.mod
        /\ [Top EXCEPT !.i = i].flags = Top.flags /\ [Top EXCEPT !.i = i].found = Top.found
    BY <2>1 DEF Activations
  <2> QED
    BY <2>1, <2>3, <2>6, <2>7, TopStepReached
<1>7. CASE ImportAnswered
  <2> DEFINE s == ImmediateAnswer(Scanned.mod)
  <2>1. /\ stack # <<>> /\ Top \in Activations /\ Scanned.mod \in Modules
        /\ s \in SUBSET Modules /\ Immediate(Scanned.mod, Passed(Top.flags))
        /\ Top.i \in 1..Len(imports[Top.mod]) /\ Scanned = imports[Top.mod][Top.i]
        /\ ~Skipped(Top, imports[Top.mod][Top.i])
    BY <1>7, TopOfStack, ScannedTyped, ImmediateTyped
    DEF ImportAnswered, Scanning, Scanned, Scopes
  <2>2. Top.flags \in SUBSET Flags /\ ident \in Names /\ TypeOK
    BY <2>1, Searching DEF Activations
  <2>3. AllReached(Scanned.mod, s)
    BY <2>1, <2>2, ImmediateReached
  <2>4. Len(stack) \in 1..Len(stack) /\ Top = stack[Len(stack)]
    BY <2>1, NonEmpty
  <2>5. "ignorePrivate" \in Top.flags => AllReached(Top.mod, Top.found)
    BY <2>4 DEF PublicInv, ActivationsReach
  <2>6. stack' = WithTop(Took(Top, s)) /\ UNCHANGED <<graph, cache>>
    BY <1>7 DEF ImportAnswered
  <2> HIDE DEF s
  <2>7. /\ Took(Top, s) \in Activations /\ Took(Top, s).mod = Top.mod
        /\ Took(Top, s).flags = Top.flags
    BY <2>1, <2>2, TookTyped
  <2>8. "ignorePrivate" \in Top.flags => AllReached(Top.mod, Took(Top, s).found)
    BY <2>1, <2>2, <2>3, <2>5, TookReached
  <2> QED
    BY <2>1, <2>6, <2>7, <2>8, TopStepReached
<1>8. CASE SearchImport
  BY <1>8, PushReached DEF SearchImport
<1>9. CASE ImportsSearched
  <2>1. /\ stack # <<>> /\ Len(stack) \in 1..Len(stack) /\ Top = stack[Len(stack)]
        /\ Top.found \in SUBSET Modules
    BY <1>9, TopOfStack, NonEmpty DEF ImportsSearched, Activations
  <2>2. "ignorePrivate" \in Top.flags => AllReached(Top.mod, Top.found)
    BY <2>1 DEF PublicInv, ActivationsReach
  <2> QED
    BY <1>9, <2>1, <2>2, ReturnReached DEF ImportsSearched
<1>10. ASSUME NEW n \in Insertions, SymtabInsert(n) PROVE PublicInv'
  <2>1. \A m \in Modules : cache'[m].ident # NoName => cache'[m] = cache[m]
    BY <1>10, SearchAssumption DEF SymtabInsert, Invalidated, TypeOK
  <2>2. \A m \in Modules : ImportsOf(m, {"public"}) \subseteq ImportsOf(m, {"public"})'
    BY <1>10 DEF SymtabInsert, ImportsOf
  <2> QED
    BY <1>10, <2>1, <2>2, ChangeReached DEF SymtabInsert
<1>11. ASSUME NEW m \in Modules, NEW s \in Modules, NEW prot \in Protections, ImportScope(m, s, prot)
       PROVE  PublicInv'
  <2>1. \A x \in Modules : cache'[x].ident # NoName => cache'[x] = cache[x]
    BY <1>11 DEF ImportScope, Invalidated, TypeOK
  <2>2. \A x \in Modules : ImportsOf(x, {"public"}) \subseteq ImportsOf(x, {"public"})'
    BY <1>11, ImportedKeeps DEF ImportScope
  <2> QED
    BY <1>11, <2>1, <2>2, ChangeReached DEF ImportScope
<1>12. CASE ClearCache
  <2>1. \A x \in Modules : cache'[x].ident # NoName => cache'[x] = cache[x]
    BY <1>12 DEF ClearCache, TypeOK
  <2>2. \A m \in Modules : ImportsOf(m, {"public"}) \subseteq ImportsOf(m, {"public"})'
    BY <1>12 DEF ClearCache, graph, ImportsOf
  <2> QED
    BY <1>12, <2>1, <2>2, ChangeReached DEF ClearCache
<1>13. CASE UNCHANGED vars
  BY <1>1, <1>13 DEF vars
<1> QED
  BY <1>2, <1>3, <1>4, <1>5, <1>6, <1>7, <1>8, <1>9, <1>10, <1>11, <1>12, <1>13 DEF Next, Step

(* Whatever is searched, declared, imported and remembered in whatever     *)
(* order, what a module answers to a search that ignores private imports,  *)
(* which is how importing modules ask, was reached from it along public    *)
(* imports only.  An import made public later keeps it true.               *)
THEOREM PrivateImportsKept == Spec => []PrivateImportsStayPrivate
<1> DEFINE Inv == SearchTyped /\ CallInv /\ PublicInv
<1>1. Init => Inv
  BY TypedInit DEF Init, CallInv, Called, First, PublicInv, PrivateImportsStayPrivate,
                   ActivationsReach, NoCache
<1>2. Inv /\ [Next]_vars => Inv'
  BY TypedStep, CallsStep, PublicStep
<1>3. Inv => PrivateImportsStayPrivate
  BY DEF PublicInv
<1> HIDE DEF Inv
<1> QED
  BY <1>1, <1>2, <1>3, PTL DEF Spec

----------------------------------------------------------------------------
(* Questions within a question.                                            *)

(* What an activation is asked, and what it asks where it stands.          *)
Query(f) == [of |-> f.mod, ident |-> ident, flags |-> f.flags]
Asks(f) == [of |-> imports[f.mod][f.i].mod, ident |-> ident, flags |-> Passed(f.flags)]
MayAsk(f) == f.i \in 1..Len(imports[f.mod]) /\ ~Skipped(f, imports[f.mod][f.i])
Lacks(f) == decl[f.mod][ident] = "none"

LEMMA CalleeScanned ==
  ASSUME TypeOK, NEW f \in Activations, MayAsk(f)
  PROVE  Asks(f).of \in Modules /\ Asks(f).of \in FirstScopes(Query(f))
<1>1. f.mod \in Modules /\ imports[f.mod][f.i] \in Imports
  BY ScopesTyped DEF Activations, MayAsk
<1>2. "localsOnly" \notin Effective(f.flags)
  BY DEF MayAsk, Skipped, Effective
<1>3. "ignorePrivate" \in f.flags => imports[f.mod][f.i].prot = "public"
  BY <1>1 DEF MayAsk, Skipped, Imports, Protections
<1>4. FirstScopes(Query(f)) =
        ImportsOf(f.mod, IF "ignorePrivate" \in f.flags THEN {"public"} ELSE Protections)
  BY <1>2 DEF FirstScopes, Query
<1>5. imports[f.mod][f.i].mod
        \in ImportsOf(f.mod, IF "ignorePrivate" \in f.flags THEN {"public"} ELSE Protections)
  BY <1>1, <1>3 DEF ImportsOf, MayAsk, Imports
<1> QED
  BY <1>1, <1>4, <1>5 DEF Asks, Imports

LEMMA CalleeSearched ==
  ASSUME TypeOK, NEW f \in Activations, MayAsk(f)
  PROVE  /\ Asks(f).of \in Searched(Query(f))
         /\ decl[Asks(f).of][ident] = "none" => Searched(Asks(f)) \subseteq Searched(Query(f))
<1>1. Asks(f).of \in Modules /\ Asks(f).of \in FirstScopes(Query(f))
  BY CalleeScanned
<1>2. Asks(f).of \in Searched(Query(f))
  BY <1>1 DEF Searched
<1>3. ASSUME decl[Asks(f).of][ident] = "none", NEW d \in Searched(Asks(f)),
             NEW S \in SUBSET Modules, FirstScopes(Query(f)) \subseteq S, ClosedFor(ident, S)
      PROVE  d \in S
  <2>1. ImportsOf(Asks(f).of, {"public"}) \subseteq S
    BY <1>1, <1>3 DEF ClosedFor
  <2>2. "ignorePrivate" \in Asks(f).flags /\ "localsOnly" \notin Effective(Asks(f).flags)
    BY DEF Asks, Passed, Effective
  <2>3. FirstScopes(Asks(f)) = ImportsOf(Asks(f).of, {"public"})
    BY <2>2 DEF FirstScopes
  <2>4. Asks(f).ident = ident
    BY DEF Asks
  <2> QED
    BY <1>3, <2>1, <2>3, <2>4 DEF Searched
<1>4. Query(f).ident = ident
  BY DEF Query
<1> QED
  BY <1>2, <1>3, <1>4 DEF Searched

(* What an import offers is offered by the importing module, unless it is  *)
(* private there.                                                          *)
LEMMA OfferPassed ==
  ASSUME TypeOK, ident \in Names, NEW f \in Activations, MayAsk(f), Lacks(f),
         NEW d \in Offered(Asks(f)),
         "ignoreVisibility" \in f.flags \/ decl[d][ident] # "private"
  PROVE  d \in Offered(Query(f))
<1> DEFINE c == Asks(f).of
<1>1. /\ c \in Modules /\ c \in FirstScopes(Query(f)) /\ c \in Searched(Query(f))
      /\ decl[c][ident] = "none" => Searched(Asks(f)) \subseteq Searched(Query(f))
  BY CalleeScanned, CalleeSearched
<1>2. /\ Asks(f).ident = ident /\ "ignoreVisibility" \notin Asks(f).flags
      /\ Query(f).of = f.mod /\ Query(f).ident = ident /\ Query(f).flags = f.flags
  BY DEF Asks, Query, Passed
<1>3. Offered(Query(f)) =
        {x \in Searched(Query(f)) \ {f.mod} : decl[x][ident] \in {"public", "overload"}}
        \cup IF "ignoreVisibility" \in f.flags
             THEN {x \in FirstScopes(Query(f)) : decl[x][ident] = "private"} ELSE {}
  BY <1>2 DEF Offered, Lacks
<1>4. CASE decl[c][ident] # "none"
  <2>1. d = c
    BY <1>2, <1>4 DEF Offered
  <2>2. decl[d][ident] \in {"public", "private", "overload"}
    BY <1>1, <1>4, <2>1 DEF TypeOK, Kinds
  <2>3. d # f.mod
    BY <2>2 DEF Lacks
  <2> QED
    BY <1>1, <1>3, <2>1, <2>2, <2>3
<1>5. CASE decl[c][ident] = "none"
  <2>1. d \in Searched(Asks(f)) /\ decl[d][ident] \in {"public", "overload"}
    BY <1>2, <1>5 DEF Offered
  <2>2. d # f.mod
    BY <2>1 DEF Lacks
  <2> QED
    BY <1>1, <1>3, <1>5, <2>1, <2>2
<1> QED
  BY <1>4, <1>5

LEMMA OffersTyped ==
  ASSUME TypeOK, NEW q, q.of \in Modules
  PROVE  Offered(q) \in SUBSET Modules /\ IsFiniteSet(Offered(q))
<1>1. \A m \in Modules : \A prots : ImportsOf(m, prots) \subseteq Modules
  <2> SUFFICES ASSUME NEW m \in Modules, NEW prots, NEW j \in 1..Len(imports[m])
               PROVE  imports[m][j].mod \in Modules
    BY DEF ImportsOf
  <2> QED
    BY ScopesTyped DEF Imports
<1>2. FirstScopes(q) \subseteq Modules
  BY <1>1 DEF FirstScopes
<1>3. Offered(q) \in SUBSET Modules
  BY <1>2 DEF Offered, Searched
<1> QED
  BY <1>3, SearchAssumption, FS_Subset

LEMMA NestedOffers ==
  ASSUME TypeOK, ident \in Names, NEW f \in Activations, MayAsk(f), Lacks(f),
         decl[Asks(f).of][ident] = "none"
  PROVE  Offered(Asks(f)) \subseteq Offered(Query(f))
<1> SUFFICES ASSUME NEW d \in Offered(Asks(f))
             PROVE  decl[d][ident] # "private"
  BY OfferPassed
<1>1. Asks(f).ident = ident /\ "ignoreVisibility" \notin Asks(f).flags
  BY DEF Asks, Passed
<1> QED
  BY <1>1 DEF Offered

LEMMA TwoOffered ==
  ASSUME TypeOK, NEW q, q.of \in Modules, NEW x \in Offered(q), NEW y \in Offered(q), x # y
  PROVE  Cardinality(Offered(q)) > 1
<1>1. IsFiniteSet(Offered(q)) /\ {x, y} \subseteq Offered(q)
  BY OffersTyped
<1>2. IsFiniteSet({x}) /\ Cardinality({x}) = 1
  BY FS_Singleton
<1>3. IsFiniteSet({x} \cup {y}) /\ Cardinality({x} \cup {y}) = 2
  BY <1>2, FS_AddElement
<1>4. {x} \cup {y} = {x, y}
  OBVIOUS
<1>5. Cardinality({x, y}) <= Cardinality(Offered(q)) /\ Cardinality(Offered(q)) \in Nat
  BY <1>1, FS_Subset, FS_CardinalityType
<1> QED
  BY <1>3, <1>4, <1>5

LEMMA ManyAreTwo ==
  ASSUME NEW S, IsFiniteSet(S), Cardinality(S) > 1
  PROVE  \E x, y \in S : x # y
<1>1. SUFFICES ASSUME \A x, y \in S : x = y PROVE FALSE
  OBVIOUS
<1>2. CASE S = {}
  BY <1>2, FS_EmptySet
<1>3. CASE S # {}
  <2>1. PICK x \in S : TRUE
    BY <1>3
  <2>2. S = {x}
    BY <1>1, <2>1
  <2> QED
    BY <2>2, FS_Singleton
<1> QED
  BY <1>2, <1>3

(* What a module takes from an import is offered to it.                    *)
LEMMA SeenOffered ==
  ASSUME TypeOK, ident \in Names, NEW f \in Activations, MayAsk(f), Lacks(f),
         NEW s \in SUBSET Modules, s \subseteq Offered(Asks(f)), ~Unseen(f, s)
  PROVE  s \subseteq Offered(Query(f))
<1>1. Visible(f.mod, f.flags, s)
  BY DEF Unseen
<1>2. CASE "ignoreVisibility" \in f.flags
  BY <1>2, OfferPassed
<1>3. CASE Cardinality(s) > 1
  <2>1. IsFiniteSet(s)
    BY SearchAssumption, FS_Subset
  <2>2. PICK x, y \in s : x # y
    BY <1>3, <2>1, ManyAreTwo
  <2>3. decl[Asks(f).of][ident] = "none"
    <3>1. Asks(f).ident = ident
      BY DEF Asks
    <3> QED
      BY <2>2, <3>1 DEF Offered
  <2> QED
    BY <2>3, NestedOffers
<1>4. CASE \A d \in s : decl[d][ident] = "private" => d = f.mod
  <2> SUFFICES ASSUME NEW d \in s PROVE decl[d][ident] # "private"
    BY OfferPassed
  <2> QED
    BY <1>4 DEF Lacks
<1> QED
  BY <1>1, <1>2, <1>3, <1>4 DEF Visible

LEMMA TookSound ==
  ASSUME TypeOK, ident \in Names, NEW f \in Activations, MayAsk(f), Lacks(f),
         NEW s \in SUBSET Modules, s \subseteq Offered(Asks(f)), f.found \subseteq Offered(Query(f))
  PROVE  Took(f, s).found \subseteq Offered(Query(f))
<1>1. CASE Conflict(f, s)
  <2>1. Took(f, s).found = {} \/ Took(f, s).found = f.found
    BY <1>1 DEF Took, Activations
  <2> QED
    BY <2>1
<1>2. CASE ~Conflict(f, s)
  <2>1. Took(f, s).found = IF Unseen(f, s) THEN f.found ELSE f.found \cup s
    BY <1>2 DEF Took, Activations
  <2> QED
    BY <2>1, SeenOffered
<1> QED
  BY <1>1, <1>2

(* An ambiguity that is reported is one.                                   *)
LEMMA ConflictAmbiguous ==
  ASSUME TypeOK, ident \in Names, NEW f \in Activations, MayAsk(f), Lacks(f),
         NEW s \in SUBSET Modules, s \subseteq Offered(Asks(f)), f.found \subseteq Offered(Query(f)),
         Conflict(f, s)
  PROVE  Ambiguous(Query(f))
<1>1. /\ s \subseteq Offered(Query(f)) /\ s # {} /\ f.found # {} /\ s # f.found
      /\ ~Overloadable(f.found \cup s)
  BY SeenOffered DEF Conflict, Unseen
<1>2. PICK x \in f.found \cup s, y \in f.found \cup s : x # y
  BY <1>1
<1>3. Query(f).of \in Modules /\ Query(f).ident = ident
  BY DEF Query, Activations
<1>4. Cardinality(Offered(Query(f))) > 1
  BY <1>1, <1>2, <1>3, TwoOffered
<1>5. ~Overloads(Query(f), Offered(Query(f)))
  BY <1>1, <1>3 DEF Overloads, Overloadable
<1> QED
  BY <1>4, <1>5 DEF Ambiguous

LEMMA AmbiguousAbove ==
  ASSUME TypeOK, NEW p, NEW q, p.of \in Modules, q.of \in Modules, p.ident = q.ident,
         Offered(p) \subseteq Offered(q), Ambiguous(p)
  PROVE  Ambiguous(q)
<1>1. IsFiniteSet(Offered(p)) /\ IsFiniteSet(Offered(q))
  BY OffersTyped
<1>2. Cardinality(Offered(p)) <= Cardinality(Offered(q))
      /\ Cardinality(Offered(p)) \in Nat /\ Cardinality(Offered(q)) \in Nat
  BY <1>1, FS_Subset, FS_CardinalityType
<1> QED
  BY <1>2 DEF Ambiguous, Overloads

(* Effective() changes nothing about what is asked.                        *)
LEMMA SameOffer ==
  ASSUME NEW m, NEW n, NEW flags
  PROVE  Offered([of |-> m, ident |-> n, flags |-> Effective(flags)])
           = Offered([of |-> m, ident |-> n, flags |-> flags])
<1> DEFINE p == [of |-> m, ident |-> n, flags |-> Effective(flags)]
           q == [of |-> m, ident |-> n, flags |-> flags]
<1>1. /\ "ignorePrivate" \in Effective(flags) <=> "ignorePrivate" \in flags
      /\ "ignoreVisibility" \in Effective(flags) <=> "ignoreVisibility" \in flags
      /\ Effective(Effective(flags)) = Effective(flags)
  BY DEF Effective
<1>2. /\ p.of = m /\ p.ident = n /\ p.flags = Effective(flags)
      /\ q.of = m /\ q.ident = n /\ q.flags = flags
  OBVIOUS
<1> HIDE DEF p, q
<1>3. FirstScopes(p) = FirstScopes(q)
  BY <1>1, <1>2 DEF FirstScopes
<1>4. Searched(p) = Searched(q)
  BY <1>2, <1>3 DEF Searched
<1>5. Offered(p) = Offered(q)
  BY <1>1, <1>2, <1>3, <1>4 DEF Offered
<1> QED
  BY <1>5 DEF p, q

(* A module that searches its imports does not declare the name, so that   *)
(* what a search within another is offered is offered to the other.        *)
PastLocals == \A k \in 1..Len(stack) : stack[k].i # 0 => Lacks(stack[k])
AskedLocals ==
  asked # NoQuestion /\ "importsOnly" \in asked.flags => decl[asked.of][asked.ident] = "none"
Nested ==
  \A j, k \in 1..Len(stack) :
    j < k /\ Lacks(stack[k]) => Offered(Query(stack[k])) \subseteq Offered(Query(stack[j]))
ChainInv == PastLocals /\ AskedLocals /\ Nested

LEMMA SameGraph ==
  ASSUME graph' = graph
  PROVE  \A q : Offered(q)' = Offered(q) /\ (Ambiguous(q)' <=> Ambiguous(q))
<1>1. decl' = decl /\ imports' = imports
  BY DEF graph
<1>2. \A q : Offered(q)' = Offered(q)
  BY <1>1 DEF Offered, Searched, FirstScopes, ClosedFor, ImportsOf
<1>3. \A q : Ambiguous(q)' <=> Ambiguous(q)
  BY <1>1, <1>2 DEF Ambiguous, Overloads
<1> QED
  BY <1>2, <1>3

LEMMA NestedKept ==
  ASSUME Nested, graph' = graph, ident' = ident,
         Len(stack) \in Nat, Len(stack') \in Nat, Len(stack') <= Len(stack),
         \A k \in 1..Len(stack') : stack'[k].mod = stack[k].mod /\ stack'[k].flags = stack[k].flags
  PROVE  Nested'
<1>1. decl' = decl /\ \A q : Offered(q)' = Offered(q)
  BY SameGraph DEF graph
<1>2. ASSUME NEW j \in 1..Len(stack'), NEW k \in 1..Len(stack'), j < k, Lacks(stack'[k])
      PROVE  Offered(Query(stack'[k])) \subseteq Offered(Query(stack'[j]))
  <2>1. j \in 1..Len(stack) /\ k \in 1..Len(stack)
    OBVIOUS
  <2>2. Lacks(stack[k]) /\ Query(stack'[k]) = Query(stack[k]) /\ Query(stack'[j]) = Query(stack[j])
    BY <1>2 DEF Lacks, Query
  <2>3. Offered(Query(stack[k])) \subseteq Offered(Query(stack[j]))
    BY <1>2, <2>1, <2>2 DEF Nested
  <2> QED
    BY <2>2, <2>3
<1>3. \A f : Query(f)' = Query(f') /\ (Lacks(f)' <=> Lacks(f'))
  BY <1>1 DEF Query, Lacks
<1> QED
  BY <1>1, <1>2, <1>3 DEF Nested, Query, Lacks

LEMMA TopStepChain ==
  ASSUME SearchTyped, ChainInv, stack # <<>>, NEW f \in Activations, stack' = WithTop(f),
         f.mod = Top.mod, f.flags = Top.flags, f.i # 0 => Lacks(f),
         UNCHANGED <<graph, ident, asked>>
  PROVE  ChainInv'
<1>1. /\ Len(stack') = Len(stack) /\ stack'[Len(stack)] = f
      /\ \A k \in 1..Len(stack) : k # Len(stack) => stack'[k] = stack[k]
      /\ Len(stack) \in Nat /\ Top = stack[Len(stack)]
  BY TopStepStack, NonEmpty DEF SearchTyped
<1>2. \A k \in 1..Len(stack') : stack'[k].mod = stack[k].mod /\ stack'[k].flags = stack[k].flags
  BY <1>1
<1>3. Nested'
  BY <1>1, <1>2, NestedKept DEF ChainInv
<1>4. decl' = decl
  BY DEF graph
<1>5. \A k \in 1..Len(stack') : stack'[k].i # 0 => Lacks(stack'[k])
  BY <1>1 DEF ChainInv, PastLocals
<1>6. PastLocals' /\ AskedLocals'
  BY <1>4, <1>5 DEF PastLocals, Lacks, ChainInv, AskedLocals
<1> QED
  BY <1>3, <1>6 DEF ChainInv

LEMMA PushChain ==
  ASSUME SearchTyped, ChainInv, NEW m \in Modules, NEW flags \in SUBSET Flags,
         stack' = Append(stack, Activation(m, flags)),
         stack # <<>> => /\ ident \in Names /\ Top \in Activations /\ MayAsk(Top)
                         /\ Query(Activation(m, flags)) = Asks(Top),
         UNCHANGED <<graph, ident, asked>>
  PROVE  ChainInv'
<1> DEFINE n == Len(stack)
           g == Activation(m, flags)
<1>1. stack \in Seq(Activations)
  BY DEF SearchTyped, TypeOK, Activations
<1>2. /\ n \in Nat /\ Len(stack') = n + 1 /\ stack'[n + 1] = g /\ g.i = 0
      /\ \A k \in 1..n : stack'[k] = stack[k]
  BY <1>1, AppendProperties, LenProperties DEF Activation
<1>3. decl' = decl /\ \A q : Offered(q)' = Offered(q)
  BY SameGraph DEF graph
<1>4. ASSUME NEW j \in 1..n, Lacks(g)
      PROVE  Offered(Query(g)) \subseteq Offered(Query(stack[j]))
  <2>1. stack # <<>> /\ n \in 1..n /\ Top = stack[n] /\ j <= n
    BY <1>1, <1>2 DEF Top
  <2>2. Top.i # 0
    BY <2>1 DEF MayAsk
  <2>3. Lacks(Top)
    BY <2>1, <2>2 DEF ChainInv, PastLocals
  <2>4. Query(g) = Asks(Top) /\ Asks(Top).of = g.mod
    BY <2>1 DEF Query
  <2>5. Offered(Query(g)) \subseteq Offered(Query(Top))
    BY <1>4, <2>1, <2>3, <2>4, NestedOffers DEF Lacks, SearchTyped
  <2>6. Offered(Query(Top)) \subseteq Offered(Query(stack[j]))
    BY <1>2, <2>1, <2>3 DEF ChainInv, Nested
  <2> QED
    BY <2>5, <2>6
<1> HIDE DEF n, g
<1>5. ASSUME NEW j \in 1..Len(stack'), NEW k \in 1..Len(stack'), j < k, Lacks(stack'[k])
      PROVE  Offered(Query(stack'[k])) \subseteq Offered(Query(stack'[j]))
  <2>1. j \in 1..n /\ (k \in 1..n \/ k = n + 1)
    BY <1>2, <1>5
  <2>2. CASE k \in 1..n
    <3>1. \A x, y \in 1..n : x < y /\ Lacks(stack[y]) =>
            Offered(Query(stack[y])) \subseteq Offered(Query(stack[x]))
      BY DEF ChainInv, Nested, n
    <3> QED
      BY <1>2, <1>5, <2>1, <2>2, <3>1
  <2>3. CASE k = n + 1
    BY <1>2, <1>4, <1>5, <2>1, <2>3
  <2> QED
    BY <2>1, <2>2, <2>3
<1>6. \A k \in 1..Len(stack') : stack'[k].i # 0 => Lacks(stack'[k])
  <2>1. \A k \in 1..Len(stack') : k \in 1..n \/ k = n + 1
    BY <1>2
  <2>2. \A k \in 1..n : stack[k].i # 0 => Lacks(stack[k])
    BY DEF ChainInv, PastLocals, n
  <2> QED
    BY <1>2, <2>1, <2>2
<1>7. PastLocals' /\ AskedLocals'
  BY <1>3, <1>6 DEF PastLocals, Lacks, ChainInv, AskedLocals
<1>8. Nested'
  BY <1>3, <1>5 DEF Nested, Lacks, Query
<1> QED
  BY <1>7, <1>8 DEF ChainInv

LEMMA CallersAsk ==
  ASSUME SearchTyped, CallInv, ChainInv, NEW k \in 1..Len(stack), k # Len(stack)
  PROVE  /\ stack[k] \in Activations /\ k + 1 \in 1..Len(stack)
         /\ MayAsk(stack[k]) /\ Lacks(stack[k]) /\ Query(stack[k + 1]) = Asks(stack[k])
<1>1. stack \in Seq(Activations) /\ Len(stack) \in Nat
  BY LenProperties DEF SearchTyped, TypeOK, Activations
<1>2. stack[k] \in Activations /\ k + 1 \in 2..Len(stack) /\ (k + 1) - 1 = k
  BY <1>1, ElementOfSeq
<1>3. CalledFor(stack[k], stack[k + 1])
  BY <1>2 DEF CallInv, Called
<1>4. MayAsk(stack[k]) /\ Query(stack[k + 1]) = Asks(stack[k])
  BY <1>3 DEF CalledFor, MayAsk, Query, Asks
<1>5. stack[k].i # 0
  BY <1>4 DEF MayAsk
<1> QED
  BY <1>2, <1>4, <1>5 DEF ChainInv, PastLocals

LEMMA ReturnChain ==
  ASSUME SearchTyped, CallInv, ChainInv, stack # <<>>, NEW s \in SUBSET Modules, Return(s)
  PROVE  ChainInv'
<1>1. TypeOK /\ Len(stack) \in Nat \ {0}
  BY TopOfStack DEF SearchTyped
<1>2. /\ Len(stack') = Len(stack) - 1
      /\ \A k \in 1..Len(stack') :
           /\ stack[k] \in Activations
           /\ stack'[k].mod = stack[k].mod /\ stack'[k].flags = stack[k].flags
  BY ResumeKeeps
<1>3. graph' = graph /\ ident' = ident /\ decl' = decl
  BY DEF Return, graph
<1>4. Len(stack') \in Nat /\ Len(stack') <= Len(stack)
      /\ \A k \in 1..Len(stack') : k \in 1..Len(stack) /\ k # Len(stack)
  BY <1>1, <1>2
<1>5. Nested'
  BY <1>1, <1>2, <1>3, <1>4, NestedKept DEF ChainInv
<1>6. \A k \in 1..Len(stack') : Lacks(stack'[k])
  BY <1>2, <1>4, CallersAsk DEF Lacks
<1>7. PastLocals'
  BY <1>3, <1>6 DEF PastLocals, Lacks
<1>8. asked' = asked \/ asked' = NoQuestion
  BY DEF Return, Resume
<1>9. AskedLocals'
  BY <1>3, <1>8 DEF ChainInv, AskedLocals
<1> QED
  BY <1>5, <1>7, <1>9 DEF ChainInv

(* Only an outermost search leaves out the module's own symbols, and only  *)
(* when there was none of that name.                                       *)
LEMMA NotInLocalsLacks ==
  ASSUME SearchTyped, CallInv, ChainInv, stack # <<>>, ~InLocals
  PROVE  Lacks(Top)
<1>1. Len(stack) \in Nat \ {0} /\ Top = stack[Len(stack)]
  BY NonEmpty DEF SearchTyped
<1>2. CASE decl[Top.mod][ident] = "none"
  BY <1>2 DEF Lacks
<1>3. CASE "importsOnly" \in Top.flags
  <2>1. CASE Len(stack) = 1
    <3>1. Top.mod = asked.of /\ Top.flags = Effective(asked.flags)
      BY <1>1, <2>1 DEF CallInv, First
    <3>2. "importsOnly" \in asked.flags /\ asked # NoQuestion /\ ident = asked.ident
      BY <1>3, <3>1 DEF Effective, SearchTyped, Answering
    <3> QED
      BY <3>1, <3>2 DEF ChainInv, AskedLocals, Lacks
  <2>2. CASE Len(stack) # 1
    <3>. \A n \in Nat \ {0} : n # 1 => n \in 2..n
      OBVIOUS
    <3>1. Len(stack) \in 2..Len(stack)
      BY <1>1, <2>2
    <3>2. Top.flags = Passed(stack[Len(stack) - 1].flags)
      BY <1>1, <3>1 DEF CallInv, Called, CalledFor
    <3> QED
      BY <1>3, <3>2 DEF Passed
  <2> QED
    BY <2>1, <2>2
<1> QED
  BY <1>2, <1>3 DEF InLocals

LEMMA ChainStep ==
  ASSUME SearchTyped, CallInv, ChainInv, [Next]_vars
  PROVE  ChainInv'
<1> USE DEF SearchTyped
<1>1. ASSUME stack = <<>>, stack' = <<>>, AskedLocals' PROVE ChainInv'
  BY <1>1 DEF ChainInv, PastLocals, Nested
<1>2. ASSUME NEW q \in Questions, Ask(q) PROVE ChainInv'
  BY <1>1, <1>2 DEF Ask, AskedLocals, graph
<1>3. CASE AskedAnswered
  BY <1>1, <1>3 DEF AskedAnswered, AskedLocals
<1>4. CASE Enter
  <2>1. /\ asked.of \in Modules /\ asked.flags \in SUBSET Flags /\ stack = <<>>
        /\ stack' = Append(stack, Activation(asked.of, asked.flags))
        /\ UNCHANGED <<graph, ident, asked>>
    BY <1>4, AskedTyped DEF Enter
  <2> QED
    BY <2>1, PushChain
<1>5. CASE FoundInLocals
  <2>1. {Top.mod} \in SUBSET Modules /\ stack # <<>>
    BY <1>5, TopOfStack DEF FoundInLocals, Activations
  <2> QED
    BY <1>5, <2>1, ReturnChain DEF FoundInLocals
<1>6. CASE ImportsSearched
  <2>1. Top.found \in SUBSET Modules /\ stack # <<>>
    BY <1>6, TopOfStack DEF ImportsSearched, Activations
  <2> QED
    BY <1>6, <2>1, ReturnChain DEF ImportsSearched
<1>7. CASE NotInLocals
  <2>1. Top \in Activations /\ stack # <<>> /\ Lacks(Top)
    BY <1>7, TopOfStack, NotInLocalsLacks DEF NotInLocals
  <2>2. /\ [Top EXCEPT !.i = 1] \in Activations /\ [Top EXCEPT !.i = 1].mod = Top.mod
        /\ [Top EXCEPT !.i = 1].flags = Top.flags
    BY <2>1 DEF Activations
  <2>3. Lacks([Top EXCEPT !.i = 1])
    BY <2>1, <2>2 DEF Lacks
  <2> QED
    BY <1>7, <2>1, <2>2, <2>3, TopStepChain DEF NotInLocals
<1>8. ASSUME Scanning PROVE stack # <<>> /\ Top \in Activations /\ Top.i # 0 /\ Lacks(Top)
  <2>1. stack # <<>> /\ Top.i # 0
    BY <1>8 DEF Scanning
  <2>2. Top \in Activations /\ Len(stack) \in 1..Len(stack) /\ Top = stack[Len(stack)]
    BY <2>1, TopOfStack, NonEmpty
  <2> QED
    BY <2>1, <2>2 DEF ChainInv, PastLocals
<1>9. CASE SkipImport
  <2>1. /\ Top \in Activations /\ Top.i + 1 \in Nat /\ stack # <<>> /\ Lacks(Top)
    BY <1>8, <1>9 DEF SkipImport, Activations
  <2>2. /\ [Top EXCEPT !.i = @ + 1] \in Activations /\ [Top EXCEPT !.i = @ + 1].mod = Top.mod
        /\ [Top EXCEPT !.i = @ + 1].flags = Top.flags
    BY <2>1 DEF Activations
  <2>3. Lacks([Top EXCEPT !.i = @ + 1])
    BY <2>1, <2>2 DEF Lacks
  <2> QED
    BY <1>9, <2>1, <2>2, <2>3, TopStepChain DEF SkipImport
<1>10. CASE ImportAnswered
  <2> DEFINE s == ImmediateAnswer(Scanned.mod)
  <2>1. s \in SUBSET Modules /\ Top \in Activations /\ stack # <<>> /\ Lacks(Top)
    BY <1>8, <1>10, ScannedTyped, ImmediateTyped DEF ImportAnswered
  <2>2. Took(Top, s) \in Activations /\ Took(Top, s).mod = Top.mod /\ Took(Top, s).flags = Top.flags
    BY <2>1, TookTyped
  <2>3. Lacks(Took(Top, s))
    BY <2>1, <2>2 DEF Lacks
  <2> QED
    BY <1>10, <2>1, <2>2, <2>3, TopStepChain DEF ImportAnswered
<1>11. CASE SearchImport
  <2>1. Scanned.mod \in Modules /\ Passed(Top.flags) \in SUBSET Flags /\ ident \in Names
        /\ Top \in Activations
    BY <1>8, <1>11, ScannedTyped, Searching DEF SearchImport
  <2>2. MayAsk(Top) /\ Query(Activation(Scanned.mod, Passed(Top.flags))) = Asks(Top)
    <3>1. Effective(Passed(Top.flags)) = Passed(Top.flags)
      BY <2>1, PassedFlags DEF Activations
    <3> QED
      BY <1>11, <3>1 DEF SearchImport, Scanning, MayAsk, Scanned, Scopes, Query, Asks, Activation
  <2> QED
    BY <1>11, <2>1, <2>2, PushChain DEF SearchImport
<1>12. ASSUME Change PROVE ChainInv'
  BY <1>1, <1>12 DEF Change, AskedLocals
<1>13. CASE UNCHANGED vars
  <2>1. UNCHANGED <<graph, stack, ident, asked, decl>>
    BY <1>13 DEF vars, graph
  <2>2. \A q : Offered(q)' = Offered(q)
    BY <2>1, SameGraph
  <2> QED
    BY <2>1, <2>2 DEF ChainInv, PastLocals, AskedLocals, Nested, Lacks, Query
<1> QED
  BY <1>2, <1>3, <1>4, <1>5, <1>6, <1>7, <1>9, <1>10, <1>11, <1>12, <1>13
  DEF Next, Step, SymtabInsert, ImportScope, ClearCache

----------------------------------------------------------------------------
(* Nothing is found that is not offered.                                   *)

Remembered(m) == [of |-> m, ident |-> cache[m].ident, flags |-> cache[m].flags]
CachesSound ==
  \A m \in Modules : cache[m].ident # NoName => cache[m].symbol \subseteq Offered(Remembered(m))
FoundSound == \A k \in 1..Len(stack) : stack[k].found \subseteq Offered(Query(stack[k]))
(* An error since an activation began is an ambiguity of what it looks for.*)
Blamed == \A k \in 1..Len(stack) : stack[k].errors # errors => Ambiguous(Query(stack[k]))
SoundInv == AnswersSound /\ (changes = 0 => CachesSound /\ FoundSound /\ Blamed)

LEMMA SoundKept ==
  ASSUME graph' = graph,
         \A a \in answered' :
           a.answer \subseteq Offered(a.asked) /\ (a.erred => Ambiguous(a.asked)),
         \A m \in Modules : cache'[m].ident # NoName =>
           cache'[m].symbol
             \subseteq Offered([of |-> m, ident |-> cache'[m].ident, flags |-> cache'[m].flags]),
         \A k \in 1..Len(stack') :
           LET q == [of |-> stack'[k].mod, ident |-> ident', flags |-> stack'[k].flags] IN
           /\ stack'[k].found \subseteq Offered(q)
           /\ stack'[k].errors # errors' => Ambiguous(q)
  PROVE  SoundInv'
<1>1. \A q : Offered(q)' = Offered(q) /\ (Ambiguous(q)' <=> Ambiguous(q))
  BY SameGraph
<1>2. AnswersSound'
  BY <1>1 DEF AnswersSound
<1>3. CachesSound'
  BY <1>1 DEF CachesSound, Remembered
<1>4. FoundSound' /\ Blamed'
  BY <1>1 DEF FoundSound, Blamed, Query
<1> QED
  BY <1>2, <1>3, <1>4 DEF SoundInv

LEMMA TookKeepsErrors ==
  ASSUME NEW f \in Activations, NEW s
  PROVE  Took(f, s).errors = f.errors
BY DEF Took, Activations

LEMMA TopStepSound ==
  ASSUME SearchTyped, ChainInv, SoundInv, changes = 0, stack # <<>>, NEW f \in Activations,
         stack' = WithTop(f), f.mod = Top.mod, f.flags = Top.flags, f.errors = Top.errors,
         f.found \subseteq Offered(Query(Top)),
         errors' = errors \/ (Lacks(Top) /\ Ambiguous(Query(Top))),
         UNCHANGED <<graph, cache, ident, answered>>
  PROVE  SoundInv'
<1>1. /\ Len(stack') = Len(stack) /\ stack'[Len(stack)] = f
      /\ \A k \in 1..Len(stack) : k # Len(stack) => stack'[k] = stack[k]
      /\ Len(stack) \in Nat /\ Len(stack) \in 1..Len(stack) /\ Top = stack[Len(stack)]
      /\ stack \in Seq(Activations)
  BY TopStepStack, NonEmpty DEF SearchTyped
<1>2. ASSUME NEW k \in 1..Len(stack')
      PROVE  /\ stack'[k].found \subseteq Offered(Query(stack'[k]))
             /\ stack'[k].errors # errors' => Ambiguous(Query(stack'[k]))
  <2>1. k \in 1..Len(stack) /\ k <= Len(stack) /\ stack[k] \in Activations
    BY <1>1, ElementOfSeq
  <2>2. Query(stack'[k]) = Query(stack[k]) /\ stack'[k].errors = stack[k].errors
    BY <1>1, <2>1 DEF Query
  <2>3. stack'[k].found \subseteq Offered(Query(stack[k]))
    BY <1>1, <2>1 DEF SoundInv, FoundSound
  <2>4. stack[k].errors # errors => Ambiguous(Query(stack[k]))
    BY <2>1 DEF SoundInv, Blamed
  <2>5. ASSUME errors' # errors PROVE Ambiguous(Query(stack[k]))
    <3>1. Lacks(Top) /\ Ambiguous(Query(Top))
      BY <2>5
    <3>2. CASE k = Len(stack)
      BY <1>1, <3>1, <3>2
    <3>3. CASE k # Len(stack)
      <4>1. Offered(Query(Top)) \subseteq Offered(Query(stack[k]))
        BY <1>1, <2>1, <3>1, <3>3 DEF ChainInv, Nested
      <4>2. Query(Top).of \in Modules /\ Query(stack[k]).of \in Modules
            /\ Query(Top).ident = Query(stack[k]).ident
        BY <2>1, TopOfStack DEF Query, Activations, SearchTyped
      <4> QED
        BY <3>1, <4>1, <4>2, AmbiguousAbove DEF SearchTyped
    <3> QED
      BY <3>2, <3>3
  <2> QED
    BY <2>2, <2>3, <2>4, <2>5
<1>3. \A m \in Modules : cache'[m].ident # NoName =>
        cache'[m].symbol \subseteq Offered([of |-> m, ident |-> cache'[m].ident, flags |-> cache'[m].flags])
  BY DEF SoundInv, CachesSound, Remembered
<1>4. \A a \in answered' :
        a.answer \subseteq Offered(a.asked) /\ (a.erred => Ambiguous(a.asked))
  BY DEF SoundInv, AnswersSound
<1> QED
  BY <1>2, <1>3, <1>4, SoundKept DEF Query

LEMMA PushSound ==
  ASSUME SearchTyped, SoundInv, changes = 0, NEW m, NEW flags,
         stack' = Append(stack, Activation(m, flags)),
         UNCHANGED <<graph, cache, ident, answered, errors>>
  PROVE  SoundInv'
<1>1. stack \in Seq(Activations)
  BY DEF SearchTyped, TypeOK, Activations
<1>2. /\ Len(stack) \in Nat /\ Len(stack') = Len(stack) + 1
      /\ stack'[Len(stack) + 1] = Activation(m, flags)
      /\ \A k \in 1..Len(stack) : stack'[k] = stack[k]
  BY <1>1, AppendProperties, LenProperties
<1>3. ASSUME NEW k \in 1..Len(stack')
      PROVE  /\ stack'[k].found \subseteq Offered(Query(stack'[k]))
             /\ stack'[k].errors # errors' => Ambiguous(Query(stack'[k]))
  <2>1. k \in 1..Len(stack) \/ k = Len(stack) + 1
    BY <1>2
  <2>2. CASE k \in 1..Len(stack)
    BY <1>2, <2>2 DEF SoundInv, FoundSound, Blamed
  <2>3. CASE k = Len(stack) + 1
    BY <1>2, <2>3 DEF Activation
  <2> QED
    BY <2>1, <2>2, <2>3
<1>4. \A x \in Modules : cache'[x].ident # NoName =>
        cache'[x].symbol \subseteq Offered([of |-> x, ident |-> cache'[x].ident, flags |-> cache'[x].flags])
  BY DEF SoundInv, CachesSound, Remembered
<1>5. \A a \in answered' :
        a.answer \subseteq Offered(a.asked) /\ (a.erred => Ambiguous(a.asked))
  BY DEF SoundInv, AnswersSound
<1> QED
  BY <1>3, <1>4, <1>5, SoundKept DEF Query

LEMMA AskedQuery ==
  ASSUME SearchTyped, asked # NoQuestion
  PROVE  /\ Offered([of |-> asked.of, ident |-> ident, flags |-> Effective(asked.flags)]) = Offered(asked)
         /\ Ambiguous([of |-> asked.of, ident |-> ident, flags |-> Effective(asked.flags)])
              <=> Ambiguous(asked)
<1>1. ident = asked.ident /\ asked = [of |-> asked.of, ident |-> asked.ident, flags |-> asked.flags]
  BY SearchAssumption DEF SearchTyped, Answering, TypeOK
<1>2. Offered([of |-> asked.of, ident |-> ident, flags |-> Effective(asked.flags)]) = Offered(asked)
  BY <1>1, SameOffer
<1> QED
  BY <1>1, <1>2 DEF Ambiguous, Overloads

LEMMA ReturnSound ==
  ASSUME SearchTyped, CallInv, ChainInv, SoundInv, changes = 0, stack # <<>>,
         NEW s \in SUBSET Modules, s \subseteq Offered(Query(Top)), Return(s)
  PROVE  SoundInv'
<1>1. /\ Len(stack) \in Nat \ {0} /\ Len(stack) \in 1..Len(stack) /\ Top = stack[Len(stack)]
      /\ asked # NoQuestion /\ ident \in Names /\ Len(Callers) = Len(stack) - 1
      /\ \A k \in 1..Len(Callers) : Callers[k] = stack[k]
  BY NonEmpty, TopOfStack, Searching DEF SearchTyped
<1>2. /\ Len(stack') = Len(stack) - 1
      /\ \A k \in 1..Len(stack') :
           /\ stack[k] \in Activations
           /\ stack'[k].mod = stack[k].mod /\ stack'[k].flags = stack[k].flags
           /\ stack'[k] = stack[k] \/ stack'[k] = Took(stack[k], s)
  BY ResumeKeeps
<1>3. graph' = graph /\ ident' = ident
  BY DEF Return
<1>4. ASSUME NEW m \in Modules, cache'[m].ident # NoName
      PROVE  cache'[m].symbol
               \subseteq Offered([of |-> m, ident |-> cache'[m].ident, flags |-> cache'[m].flags])
  <2> DEFINE r == [ident |-> ident, flags |-> Top.flags, symbol |-> s]
  <2>1. cache' = cache \/ cache' = [cache EXCEPT ![Top.mod] = r]
    BY DEF Return, Remember
  <2>2. cache \in [Modules -> [ident : Names \cup {NoName}, flags : SUBSET Flags, symbol : SUBSET Modules]]
    BY DEF SearchTyped, TypeOK
  <2>3. r.flags = Top.flags /\ r.symbol = s /\ r.ident = ident
    OBVIOUS
  <2> HIDE DEF r
  <2>4. cache'[m] = cache[m] \/ (m = Top.mod /\ cache'[m] = r)
    BY <2>1, <2>2
  <2>5. CASE cache'[m] = cache[m]
    BY <1>4, <2>5 DEF SoundInv, CachesSound, Remembered
  <2>6. CASE m = Top.mod /\ cache'[m] = r
    BY <2>3, <2>6 DEF Query
  <2> QED
    BY <2>4, <2>5, <2>6
<1>5. ASSUME NEW k \in 1..Len(stack')
      PROVE  /\ stack'[k].found \subseteq Offered(Query(stack'[k]))
             /\ stack'[k].errors # errors' => Ambiguous(Query(stack'[k]))
  <2>1. k \in 1..Len(stack) /\ k # Len(stack) /\ k < Len(stack)
    BY <1>1, <1>2
  <2>2. /\ stack[k] \in Activations /\ MayAsk(stack[k]) /\ Lacks(stack[k])
        /\ Query(stack[k + 1]) = Asks(stack[k])
    BY <2>1, CallersAsk
  <2>3. /\ stack[k].found \subseteq Offered(Query(stack[k]))
        /\ stack[k].errors # errors => Ambiguous(Query(stack[k]))
    BY <2>1 DEF SoundInv, FoundSound, Blamed
  <2>4. Query(stack'[k]) = Query(stack[k]) /\ stack'[k].errors = stack[k].errors
    BY <1>2, <2>2, TookKeepsErrors DEF Query
  <2>5. stack'[k].found \subseteq Offered(Query(stack'[k]))
    <3>1. CASE k + 1 # Len(stack)
      BY <2>3, <2>4, <3>1, ReturnLeaves, <1>1 DEF SearchTyped
    <3>2. CASE k + 1 = Len(stack)
      <4>1. s \subseteq Offered(Asks(stack[k]))
        BY <1>1, <2>2, <3>2
      <4> QED
        BY <1>1, <1>2, <2>2, <2>3, <2>4, <4>1, TookSound DEF SearchTyped
    <3> QED
      BY <3>1, <3>2
  <2>6. ASSUME errors' # errors PROVE Ambiguous(Query(stack[k]))
    <3> DEFINE n == Len(stack) - 1
               f == stack[n]
    <3>1. n \in 1..Len(stack) /\ n # Len(stack) /\ k <= n /\ n = Len(Callers)
          /\ Callers # <<>> /\ Callers[n] = f
      BY <1>1, <2>1
    <3>2. MultiplyDefined(f, s)
      <4>1. errors' = errors + (IF MultiplyDefined(Callers[Len(Callers)], s) THEN 1 ELSE 0)
        BY <3>1 DEF Return, Resume
      <4>2. Callers[Len(Callers)] = f /\ errors \in Nat
        BY <3>1 DEF SearchTyped, TypeOK
      <4> QED
        BY <2>6, <4>1, <4>2
    <3>3. f \in Activations /\ MayAsk(f) /\ Lacks(f) /\ Query(stack[n + 1]) = Asks(f)
          /\ f.found \subseteq Offered(Query(f))
      BY <3>1, CallersAsk DEF SoundInv, FoundSound
    <3>4. s \subseteq Offered(Asks(f))
      BY <1>1, <3>3
    <3>5. Ambiguous(Query(f))
      BY <1>1, <3>2, <3>3, <3>4, ConflictAmbiguous DEF MultiplyDefined, SearchTyped
    <3>6. CASE k = n
      BY <3>5, <3>6
    <3>7. CASE k # n
      <4>1. Offered(Query(f)) \subseteq Offered(Query(stack[k]))
        BY <2>1, <3>1, <3>3, <3>7 DEF ChainInv, Nested
      <4>2. Query(f).of \in Modules /\ Query(stack[k]).of \in Modules
            /\ Query(f).ident = Query(stack[k]).ident
        BY <2>2, <3>3 DEF Query, Activations
      <4> QED
        BY <3>5, <4>1, <4>2, AmbiguousAbove DEF SearchTyped
    <3> QED
      BY <3>6, <3>7
  <2> QED
    BY <2>3, <2>4, <2>5, <2>6
<1>6. ASSUME NEW a \in answered'
      PROVE  a.answer \subseteq Offered(a.asked) /\ (a.erred => Ambiguous(a.asked))
  <2>1. CASE a \in answered
    BY <2>1 DEF SoundInv, AnswersSound
  <2>2. CASE a \notin answered
    <3>1. Callers = <<>> /\ a = [asked |-> asked, answer |-> s, erred |-> errors # Top.errors]
      BY <1>6, <2>2 DEF Return, Resume, Deliver
    <3>2. Len(stack) = 1
      BY <1>1, <3>1
    <3>3. Query(Top) = [of |-> asked.of, ident |-> ident, flags |-> Effective(asked.flags)]
      BY <1>1, <3>2 DEF CallInv, First, Query
    <3>4. Offered(Query(Top)) = Offered(asked) /\ (Ambiguous(Query(Top)) <=> Ambiguous(asked))
      BY <1>1, <3>3, AskedQuery
    <3>5. errors # Top.errors => Ambiguous(Query(Top))
      BY <1>1 DEF SoundInv, Blamed
    <3> QED
      BY <3>1, <3>4, <3>5
  <2> QED
    BY <2>1, <2>2
<1> QED
  BY <1>3, <1>4, <1>5, <1>6, SoundKept DEF Query

LEMMA ImmediateSound ==
  ASSUME SearchTyped, CachesSound, ident \in Names, NEW m \in Modules, NEW flags \in SUBSET Flags,
         Immediate(m, flags)
  PROVE  ImmediateAnswer(m) \subseteq Offered([of |-> m, ident |-> ident, flags |-> flags])
<1>1. CASE insearch[m]
  BY <1>1 DEF ImmediateAnswer
<1>2. CASE ~insearch[m]
  <2>1. /\ cache[m].ident = ident /\ cache[m].flags = Effective(flags)
        /\ ImmediateAnswer(m) = cache[m].symbol
    BY <1>2 DEF Immediate, Hit, ImmediateAnswer
  <2>2. cache[m].symbol \subseteq Offered([of |-> m, ident |-> ident, flags |-> Effective(flags)])
    BY <2>1, SearchAssumption DEF CachesSound, Remembered
  <2> QED
    BY <2>1, <2>2, SameOffer
<1> QED
  BY <1>1, <1>2

LEMMA SoundStep ==
  ASSUME SearchTyped, CallInv, ChainInv, SoundInv, [Next]_vars
  PROVE  SoundInv'
<1> USE DEF SearchTyped
<1>1. ASSUME Change PROVE SoundInv'
  <2>1. changes' # 0
    BY <1>1 DEF Change, TypeOK
  <2> QED
    BY <2>1 DEF SoundInv, AnswersSound
<1>2. ASSUME changes' = changes, changes # 0 PROVE SoundInv'
  BY <1>2 DEF SoundInv, AnswersSound
<1>3. ASSUME stack = <<>>, stack' = <<>>, UNCHANGED <<graph, cache, answered>>, changes = 0
      PROVE  SoundInv'
  <2>1. \A a \in answered' :
          a.answer \subseteq Offered(a.asked) /\ (a.erred => Ambiguous(a.asked))
    BY <1>3 DEF SoundInv, AnswersSound
  <2>2. \A m \in Modules : cache'[m].ident # NoName =>
          cache'[m].symbol
            \subseteq Offered([of |-> m, ident |-> cache'[m].ident, flags |-> cache'[m].flags])
    BY <1>3 DEF SoundInv, CachesSound, Remembered
  <2> QED
    BY <1>3, <2>1, <2>2, SoundKept
<1>4. ASSUME NEW q \in Questions, Ask(q), changes = 0 PROVE SoundInv'
  BY <1>3, <1>4 DEF Ask
<1>5. CASE AskedAnswered /\ changes = 0
  <2> DEFINE s == ImmediateAnswer(asked.of)
  <2>1. /\ stack = <<>> /\ stack' = <<>> /\ asked # NoQuestion
        /\ Immediate(asked.of, asked.flags) /\ UNCHANGED <<graph, cache>>
        /\ answered' = answered \cup {[asked |-> asked, answer |-> s, erred |-> FALSE]}
    BY <1>5 DEF AskedAnswered, Deliver
  <2>2. /\ asked.of \in Modules /\ asked.flags \in SUBSET Flags /\ ident \in Names
        /\ ident = asked.ident
        /\ asked = [of |-> asked.of, ident |-> asked.ident, flags |-> asked.flags]
    BY <2>1, AskedTyped, SearchAssumption DEF Answering
  <2>3. s \subseteq Offered([of |-> asked.of, ident |-> ident, flags |-> asked.flags])
    BY <1>5, <2>1, <2>2, ImmediateSound DEF SoundInv
  <2>4. s \subseteq Offered(asked)
    BY <2>2, <2>3
  <2> HIDE DEF s
  <2>5. \A a \in answered' :
          a.answer \subseteq Offered(a.asked) /\ (a.erred => Ambiguous(a.asked))
    BY <1>5, <2>1, <2>4 DEF SoundInv, AnswersSound
  <2>6. \A m \in Modules : cache'[m].ident # NoName =>
          cache'[m].symbol
            \subseteq Offered([of |-> m, ident |-> cache'[m].ident, flags |-> cache'[m].flags])
    BY <1>5, <2>1 DEF SoundInv, CachesSound, Remembered
  <2> QED
    BY <2>1, <2>5, <2>6, SoundKept
<1>6. CASE Enter /\ changes = 0
  <2>1. stack' = Append(stack, Activation(asked.of, asked.flags))
    BY <1>6 DEF Enter
  <2> QED
    BY <1>6, <2>1, PushSound DEF Enter
<1>7. CASE FoundInLocals /\ changes = 0
  <2>1. {Top.mod} \in SUBSET Modules /\ stack # <<>> /\ decl[Top.mod][ident] # "none"
    BY <1>7, TopOfStack DEF FoundInLocals, InLocals, Activations
  <2>2. {Top.mod} \subseteq Offered(Query(Top))
    BY <2>1 DEF Offered, Query
  <2> QED
    BY <1>7, <2>1, <2>2, ReturnSound DEF FoundInLocals
<1>8. ASSUME stack # <<>>, changes = 0
      PROVE  Top \in Activations /\ Top.found \subseteq Offered(Query(Top))
  <2>1. Top \in Activations /\ Len(stack) \in 1..Len(stack) /\ Top = stack[Len(stack)]
    BY <1>8, TopOfStack, NonEmpty
  <2> QED
    BY <1>8, <2>1 DEF SoundInv, FoundSound
<1>9. CASE ImportsSearched /\ changes = 0
  <2>1. Top.found \in SUBSET Modules /\ stack # <<>> /\ Top.found \subseteq Offered(Query(Top))
    BY <1>8, <1>9 DEF ImportsSearched, Activations
  <2> QED
    BY <1>9, <2>1, ReturnSound DEF ImportsSearched
<1>10. CASE (NotInLocals \/ SkipImport) /\ changes = 0
  <2> DEFINE i == IF Top.i = 0 THEN 1 ELSE Top.i + 1
  <2>1. /\ Top \in Activations /\ stack # <<>> /\ Top.found \subseteq Offered(Query(Top))
        /\ i \in Nat
    BY <1>8, <1>10 DEF NotInLocals, SkipImport, Scanning, Activations
  <2>2. NotInLocals => Top.i = 0
    BY DEF NotInLocals
  <2>3. SkipImport => Top.i # 0
    BY DEF SkipImport, Scanning
  <2>4. /\ stack' = WithTop([Top EXCEPT !.i = i])
        /\ UNCHANGED <<graph, cache, ident, answered, errors>>
    BY <1>10, <2>2, <2>3 DEF NotInLocals, SkipImport
  <2> HIDE DEF i
  <2>5. /\ [Top EXCEPT !.i = i] \in Activations /\ [Top EXCEPT !.i = i].mod = Top.mod
        /\ [Top EXCEPT !.i = i].flags = Top.flags /\ [Top EXCEPT !.i = i].found = Top.found
        /\ [Top EXCEPT !.i = i].errors = Top.errors
    BY <2>1 DEF Activations
  <2> QED
    BY <1>10, <2>1, <2>4, <2>5, TopStepSound
<1>11. CASE ImportAnswered /\ changes = 0
  <2> DEFINE s == ImmediateAnswer(Scanned.mod)
  <2>1. /\ stack # <<>> /\ Top \in Activations /\ Top.found \subseteq Offered(Query(Top))
        /\ Scanned.mod \in Modules /\ s \in SUBSET Modules /\ Top.flags \in SUBSET Flags
        /\ Immediate(Scanned.mod, Passed(Top.flags)) /\ Passed(Top.flags) \in SUBSET Flags
        /\ ident \in Names
    BY <1>8, <1>11, ScannedTyped, ImmediateTyped, Searching
    DEF ImportAnswered, Scanning, Activations
  <2>2. MayAsk(Top) /\ Asks(Top) = [of |-> Scanned.mod, ident |-> ident, flags |-> Passed(Top.flags)]
    BY <1>11 DEF ImportAnswered, Scanning, MayAsk, Scanned, Scopes, Asks
  <2>3. Lacks(Top)
    <3>1. Len(stack) \in 1..Len(stack) /\ Top = stack[Len(stack)] /\ Top.i # 0
      BY <2>1, <2>2, NonEmpty DEF MayAsk
    <3> QED
      BY <3>1 DEF ChainInv, PastLocals
  <2>4. s \subseteq Offered(Asks(Top))
    BY <1>11, <2>1, <2>2, ImmediateSound DEF SoundInv
  <2>5. /\ stack' = WithTop(Took(Top, s)) /\ UNCHANGED <<graph, cache, ident, answered>>
        /\ errors' = errors + (IF MultiplyDefined(Top, s) THEN 1 ELSE 0)
    BY <1>11 DEF ImportAnswered
  <2> HIDE DEF s
  <2>6. /\ Took(Top, s) \in Activations /\ Took(Top, s).mod = Top.mod
        /\ Took(Top, s).flags = Top.flags /\ Took(Top, s).errors = Top.errors
        /\ Took(Top, s).found \subseteq Offered(Query(Top))
    BY <2>1, <2>2, <2>3, <2>4, TookTyped, TookKeepsErrors, TookSound
  <2>7. errors' = errors \/ Ambiguous(Query(Top))
    <3>1. CASE MultiplyDefined(Top, s)
      BY <2>1, <2>2, <2>3, <2>4, <3>1, ConflictAmbiguous DEF MultiplyDefined
    <3>2. CASE ~MultiplyDefined(Top, s)
      BY <2>5, <3>2 DEF TypeOK
    <3> QED
      BY <3>1, <3>2
  <2> QED
    BY <1>11, <2>1, <2>3, <2>5, <2>6, <2>7, TopStepSound
<1>12. CASE SearchImport /\ changes = 0
  BY <1>12, PushSound DEF SearchImport
<1>13. CASE UNCHANGED vars
  <2>1. UNCHANGED <<graph, cache, stack, ident, errors, answered, changes>>
    BY <1>13 DEF vars, graph
  <2>2. \A q : Offered(q)' = Offered(q) /\ (Ambiguous(q)' <=> Ambiguous(q))
    BY <2>1, SameGraph
  <2> QED
    BY <2>1, <2>2 DEF SoundInv, AnswersSound, CachesSound, FoundSound, Blamed, Query, Remembered
<1>14. changes \in Nat
  BY SearchAssumption DEF TypeOK
<1> QED
  BY <1>1, <1>2, <1>4, <1>5, <1>6, <1>7, <1>9, <1>10, <1>11, <1>12, <1>13, <1>14
  DEF Next, Step, Ask, AskedAnswered, Enter, FoundInLocals, NotInLocals, SkipImport,
      ImportAnswered, SearchImport, ImportsSearched, Return, SymtabInsert, ImportScope, ClearCache

(* In every import graph, cycles included, and whatever was asked before   *)
(* and is remembered from it, a name never stands for a symbol that it     *)
(* should not stand for, and it is never called ambiguous when it is not.  *)
(* What is remembered after a change is another matter: there the answers  *)
(* can be those of the program before the change.                          *)
THEOREM NothingElseFound == Spec => []AnswersSound
<1> DEFINE Inv == SearchTyped /\ CallInv /\ ChainInv /\ SoundInv
<1>1. Init => Inv
  <2> SUFFICES ASSUME Init PROVE Inv
    OBVIOUS
  <2>1. /\ stack = <<>> /\ asked = NoQuestion /\ answered = {}
        /\ \A m \in Modules : cache[m].ident = NoName
    BY DEF Init, NoCache
  <2>2. CallInv /\ ChainInv
    BY <2>1 DEF CallInv, Called, First, ChainInv, PastLocals, AskedLocals, Nested
  <2>3. SoundInv
    BY <2>1 DEF SoundInv, AnswersSound, CachesSound, FoundSound, Blamed
  <2> QED
    BY <2>2, <2>3, TypedInit
<1>2. Inv /\ [Next]_vars => Inv'
  BY TypedStep, CallsStep, ChainStep, SoundStep
<1>3. Inv => AnswersSound
  BY DEF SoundInv
<1> HIDE DEF Inv
<1> QED
  BY <1>1, <1>2, <1>3, PTL DEF Spec

----------------------------------------------------------------------------
(* Exact answers.                                                          *)

(* Conflicts are neither passed over nor turned into null.                 *)
NoIgnores(flags) == flags \cap {"ignoreErrors", "ignoreAmbiguous"} = {}

(* One symbol or one overload set.                                         *)
Uniform(n, s) == (\A x, y \in s : x = y) \/ (\A d \in s : decl[d][n] = "overload")

(* The answer s to q leaves nothing out.                                   *)
Right(q, s) ==
  /\ ~Ambiguous(q) => s = Offered(q)
  /\ s = {} => Offered(q) = {} \/ "ignoreAmbiguous" \in q.flags

(* An answer without an error is a sign that there is no ambiguity.        *)
Silent(q, quiet) == quiet /\ NoIgnores(q.flags) => ~Ambiguous(q)

(* What the imports that f has scanned offer it.                           *)
MayAskAt(f, i) == i \in 1..Len(imports[f.mod]) /\ ~Skipped(f, imports[f.mod][i])

(* The question that f asks its i-th import, and what it is offered by it. *)
AsksAt(f, i) == [of |-> imports[f.mod][i].mod, ident |-> ident, flags |-> Passed(f.flags)]
Offers(f, i, d) ==
  /\ MayAskAt(f, i) /\ d \in Offered(AsksAt(f, i))
  /\ "ignoreVisibility" \in f.flags \/ decl[d][ident] # "private"

(* f has found all of it, unless it has met a conflict.                    *)
Quiet(f, e) == ~Ambiguous(Query(f)) \/ (NoIgnores(f.flags) /\ e = f.errors)
Gathers(f, e) ==
  \A i, d : i < f.i /\ Offers(f, i, d) =>
    /\ Quiet(f, e) => d \in f.found
    /\ f.found # {} \/ "ignoreAmbiguous" \in f.flags

(* The first scopes and all that is searched are modules.                  *)
LEMMA ScopesAreModules ==
  ASSUME TypeOK, NEW m \in Modules, NEW prots
  PROVE  ImportsOf(m, prots) \subseteq Modules
<1> SUFFICES ASSUME NEW j \in 1..Len(imports[m]) PROVE imports[m][j].mod \in Modules
  BY DEF ImportsOf
<1> QED
  BY ScopesTyped DEF Imports

(* What is searched is closed, and contains the first scopes.              *)
LEMMA SearchedClosed ==
  ASSUME TypeOK, NEW q, q.of \in Modules
  PROVE  /\ FirstScopes(q) \subseteq Searched(q)
         /\ \A m \in Searched(q) :
              decl[m][q.ident] = "none" => ImportsOf(m, {"public"}) \subseteq Searched(q)
<1>1. FirstScopes(q) \subseteq Modules
  BY ScopesAreModules DEF FirstScopes
<1>2. FirstScopes(q) \subseteq Searched(q)
  BY <1>1 DEF Searched
<1>3. ASSUME NEW m \in Searched(q), decl[m][q.ident] = "none", NEW x \in ImportsOf(m, {"public"})
      PROVE  x \in Searched(q)
  <2>1. x \in Modules
    BY <1>3, ScopesAreModules DEF Searched
  <2>2. ASSUME NEW S \in SUBSET Modules, FirstScopes(q) \subseteq S, ClosedFor(q.ident, S)
        PROVE  x \in S
    <3>1. m \in S
      BY <2>2 DEF Searched
    <3> QED
      BY <1>3, <2>2, <3>1 DEF ClosedFor
  <2> QED
    BY <2>1, <2>2 DEF Searched
<1> QED
  BY <1>2, <1>3

(* A first scope is an import that is asked.                               *)
LEMMA ScopeAsked ==
  ASSUME NEW f, Effective(f.flags) = f.flags, NEW x \in FirstScopes(Query(f))
  PROVE  \E i : MayAskAt(f, i) /\ AsksAt(f, i).of = x
<1>1. /\ "localsOnly" \notin f.flags
      /\ x \in ImportsOf(f.mod, IF "ignorePrivate" \in f.flags THEN {"public"} ELSE Protections)
  BY DEF FirstScopes, Query
<1>2. PICK i \in 1..Len(imports[f.mod]) :
        /\ imports[f.mod][i].mod = x
        /\ imports[f.mod][i].prot \in IF "ignorePrivate" \in f.flags THEN {"public"} ELSE Protections
  BY <1>1 DEF ImportsOf
<1>3. ~Skipped(f, imports[f.mod][i])
  BY <1>1, <1>2 DEF Skipped
<1> QED
  BY <1>2, <1>3 DEF MayAskAt, AsksAt

(* A module that does not declare a name is offered it by its imports.     *)
LEMMA Unfold ==
  ASSUME TypeOK, ident \in Names, NEW f \in Activations, Lacks(f),
         Effective(f.flags) = f.flags, NEW d \in Offered(Query(f))
  PROVE  \E i : Offers(f, i, d)
<1> DEFINE q == Query(f)
           T == FirstScopes(q)
                \cup {x \in Modules : \E i : /\ MayAskAt(f, i) /\ decl[AsksAt(f, i).of][ident] = "none"
                                             /\ x \in Searched(AsksAt(f, i))}
<1>1. q.of = f.mod /\ q.ident = ident /\ q.flags = f.flags /\ f.mod \in Modules
  BY DEF Query, Activations
<1> HIDE DEF q
<1>2. \A i : MayAskAt(f, i) => AsksAt(f, i).of \in Modules /\ AsksAt(f, i).ident = ident
  BY <1>1, ScopesTyped DEF MayAskAt, AsksAt, Imports
<1>3. ASSUME NEW x \in FirstScopes(q)
      PROVE  \E i : MayAskAt(f, i) /\ AsksAt(f, i).of = x
  BY <1>3, ScopeAsked DEF q
<1>4. ASSUME NEW i, MayAskAt(f, i)
      PROVE  FirstScopes(AsksAt(f, i)) = ImportsOf(AsksAt(f, i).of, {"public"})
  <2>1. "ignorePrivate" \in AsksAt(f, i).flags /\ "localsOnly" \notin Effective(AsksAt(f, i).flags)
    BY DEF AsksAt, Passed, Effective
  <2> QED
    BY <2>1 DEF FirstScopes
<1>5. T \in SUBSET Modules
  BY <1>1, ScopesAreModules DEF FirstScopes
<1>6. ClosedFor(ident, T)
  <2> SUFFICES ASSUME NEW m \in T, decl[m][ident] = "none", NEW x \in ImportsOf(m, {"public"})
               PROVE  x \in T
    BY DEF ClosedFor
  <2>1. m \in Modules /\ x \in Modules
    BY <1>5, ScopesAreModules
  <2>2. CASE m \in FirstScopes(q)
    <3>1. PICK i : MayAskAt(f, i) /\ AsksAt(f, i).of = m
      BY <1>3, <2>2
    <3>2. x \in Searched(AsksAt(f, i))
      BY <1>4, <2>1, <3>1, SearchedClosed
    <3> QED
      BY <2>1, <3>1, <3>2
  <2>3. CASE m \notin FirstScopes(q)
    <3>1. PICK i : /\ MayAskAt(f, i) /\ decl[AsksAt(f, i).of][ident] = "none"
                   /\ m \in Searched(AsksAt(f, i))
      BY <2>3
    <3>2. x \in Searched(AsksAt(f, i))
      BY <1>2, <3>1, SearchedClosed
    <3> QED
      BY <2>1, <3>1, <3>2
  <2> QED
    BY <2>2, <2>3
<1>7. d \in Searched(q) => d \in T
  BY <1>1, <1>5, <1>6 DEF Searched
<1>8. \/ d \in T /\ decl[d][ident] \in {"public", "overload"}
      \/ "ignoreVisibility" \in f.flags /\ d \in FirstScopes(q) /\ decl[d][ident] = "private"
  <2>1. decl[q.of][q.ident] = "none"
    BY <1>1 DEF Lacks
  <2>2. d \in Offered(q)
    BY DEF q
  <2> QED
    BY <1>1, <1>7, <2>1, <2>2 DEF Offered
<1> HIDE DEF T
<1>9. CASE d \in FirstScopes(q)
  <2>1. PICK i : MayAskAt(f, i) /\ AsksAt(f, i).of = d
    BY <1>3, <1>9
  <2>2. d \in Offered(AsksAt(f, i))
    BY <1>2, <1>8, <2>1 DEF Offered
  <2> QED
    BY <1>8, <2>1, <2>2 DEF Offers
<1>10. CASE d \notin FirstScopes(q)
  <2>1. d \in T /\ decl[d][ident] \in {"public", "overload"}
    BY <1>8, <1>10
  <2>2. PICK i : /\ MayAskAt(f, i) /\ decl[AsksAt(f, i).of][ident] = "none"
                 /\ d \in Searched(AsksAt(f, i))
    BY <1>10, <2>1 DEF T
  <2>3. d # AsksAt(f, i).of
    BY <2>1, <2>2
  <2>4. d \in Offered(AsksAt(f, i))
    BY <1>2, <2>1, <2>2, <2>3 DEF Offered
  <2> QED
    BY <2>1, <2>2, <2>4 DEF Offers
<1> QED
  BY <1>9, <1>10

(* A module that declares the name is the only one it offers.              *)
LEMMA LocalOffer ==
  ASSUME TypeOK, NEW q, q.of \in Modules, decl[q.of][q.ident] # "none"
  PROVE  Offered(q) = {q.of} /\ ~Ambiguous(q) /\ Right(q, {q.of})
<1>1. Offered(q) = {q.of}
  BY DEF Offered
<1>2. Cardinality({q.of}) = 1
  BY FS_Singleton
<1>3. ~Ambiguous(q)
  BY <1>1, <1>2 DEF Ambiguous
<1> QED
  BY <1>1, <1>3 DEF Right

(* A symbol that is offered to an import is visible, or the import's own.  *)
LEMMA HiddenIsLocal ==
  ASSUME TypeOK, ident \in Names, NEW f \in Activations, MayAsk(f),
         NEW s \in SUBSET Modules, s \subseteq Offered(Asks(f)), s # {}, Unseen(f, s)
  PROVE  /\ "ignoreVisibility" \notin f.flags
         /\ Offered(Asks(f)) = {Asks(f).of} /\ decl[Asks(f).of][ident] = "private"
<1>1. /\ "ignoreVisibility" \notin f.flags
      /\ \E d \in s : decl[d][ident] = "private"
  BY DEF Unseen, Visible
<1>2. PICK d \in s : decl[d][ident] = "private"
  BY <1>1
<1>3. /\ Asks(f).ident = ident /\ "ignoreVisibility" \notin Asks(f).flags
      /\ d \in Offered(Asks(f))
  BY <1>2 DEF Asks, Passed
<1>4. decl[Asks(f).of][ident] # "none"
  BY <1>2, <1>3 DEF Offered
<1>5. Offered(Asks(f)) = {Asks(f).of}
  BY <1>3, <1>4 DEF Offered
<1> QED
  BY <1>1, <1>2, <1>3, <1>5

(* Taking an answer moves on by one import and touches nothing else.       *)
LEMMA TookFields ==
  ASSUME NEW f \in Activations, NEW s
  PROVE  /\ Took(f, s).mod = f.mod /\ Took(f, s).flags = f.flags /\ Took(f, s).errors = f.errors
         /\ Conflict(f, s) =>
              /\ Took(f, s).i = Len(imports[f.mod]) + 1 /\ f.found # {} /\ ~Unseen(f, s)
              /\ Took(f, s).found = IF "ignoreAmbiguous" \in f.flags THEN {} ELSE f.found
         /\ ~Conflict(f, s) =>
              /\ Took(f, s).i = f.i + 1
              /\ Took(f, s).found = IF Unseen(f, s) THEN f.found ELSE f.found \cup s
<1>1. CASE Conflict(f, s)
  BY <1>1 DEF Took, Activations, Conflict
<1>2. CASE ~Conflict(f, s)
  BY <1>2 DEF Took, Activations
<1> QED
  BY <1>1, <1>2

(* What is found stays one symbol or one overload set.                     *)
LEMMA TookUniform ==
  ASSUME NEW f \in Activations, NEW s, Uniform(ident, f.found), Uniform(ident, s)
  PROVE  Uniform(ident, Took(f, s).found)
<1>1. CASE Conflict(f, s)
  <2>1. Took(f, s).found = {} \/ Took(f, s).found = f.found
    BY <1>1, TookFields
  <2> QED
    BY <2>1 DEF Uniform
<1>2. CASE ~Conflict(f, s) /\ Unseen(f, s)
  BY <1>2, TookFields
<1>3. CASE ~Conflict(f, s) /\ ~Unseen(f, s)
  <2>1. Took(f, s).found = f.found \cup s
    BY <1>3, TookFields
  <2>2. f.found = {} \/ s = f.found \/ Overloadable(f.found \cup s)
    BY <1>3 DEF Conflict
  <2>3. CASE f.found = {}
    BY <2>1, <2>3
  <2>4. CASE s = f.found
    BY <2>1, <2>4
  <2>5. CASE Overloadable(f.found \cup s)
    BY <2>1, <2>5 DEF Overloadable, Uniform
  <2> QED
    BY <2>2, <2>3, <2>4, <2>5
<1> QED
  BY <1>1, <1>2, <1>3

(* An ambiguity in an import is one in the importing module.               *)
LEMMA AmbiguousFromImport ==
  ASSUME TypeOK, ident \in Names, NEW f \in Activations, MayAsk(f), Lacks(f), Ambiguous(Asks(f))
  PROVE  Ambiguous(Query(f))
<1>1. /\ Asks(f).of \in Modules /\ Asks(f).ident = ident
      /\ Query(f).of \in Modules /\ Query(f).ident = ident
  BY CalleeScanned DEF Asks, Query, Activations
<1>2. decl[Asks(f).of][ident] = "none"
  BY <1>1, LocalOffer
<1>3. Offered(Asks(f)) \subseteq Offered(Query(f))
  BY <1>2, NestedOffers
<1> QED
  BY <1>1, <1>3, AmbiguousAbove

(* Taking an exact answer.                                                 *)
LEMMA TookGathers ==
  ASSUME TypeOK, ident \in Names, NEW f \in Activations, MayAsk(f), Lacks(f),
         NEW s \in SUBSET Modules, s \subseteq Offered(Asks(f)), f.found \subseteq Offered(Query(f)),
         NEW e, e = errors + (IF MultiplyDefined(f, s) THEN 1 ELSE 0), f.errors <= errors,
         Gathers(f, errors), Right(Asks(f), s), Silent(Asks(f), errors = f.errors)
  PROVE  Gathers(Took(f, s), e)
<1> SUFFICES ASSUME NEW h, h = Took(f, s) PROVE Gathers(h, e)
  OBVIOUS
<1>1. /\ h.mod = f.mod /\ h.flags = f.flags /\ h.errors = f.errors /\ Query(h) = Query(f)
      /\ \A i, d : Offers(h, i, d) <=> Offers(f, i, d)
  BY TookFields DEF Query, Offers, MayAskAt, AsksAt, Skipped
<1>2. errors \in Nat /\ f.errors \in Nat /\ f.i \in Nat
  BY DEF TypeOK, Activations
<1>3. CASE Conflict(f, s)
  <2>1. /\ f.found # {}
        /\ h.found = IF "ignoreAmbiguous" \in f.flags THEN {} ELSE f.found
    BY <1>3, TookFields
  <2>2. Ambiguous(Query(f))
    BY <1>3, ConflictAmbiguous
  <2>3. NoIgnores(f.flags) => e # f.errors
    BY <1>2, <1>3 DEF MultiplyDefined, NoIgnores
  <2>4. ~Quiet(h, e)
    BY <1>1, <2>2, <2>3 DEF Quiet
  <2> QED
    BY <1>1, <2>1, <2>4 DEF Gathers
<1>4. CASE ~Conflict(f, s)
  <2>1. /\ h.i = f.i + 1 /\ e = errors
        /\ h.found = IF Unseen(f, s) THEN f.found ELSE f.found \cup s
    <3>1. ~MultiplyDefined(f, s)
      BY <1>4 DEF MultiplyDefined
    <3>2. e = errors
      BY <1>2, <3>1
    <3>3. /\ h.i = f.i + 1
          /\ h.found = IF Unseen(f, s) THEN f.found ELSE f.found \cup s
      BY <1>4, TookFields
    <3> QED
      BY <3>2, <3>3
  <2>2. Quiet(h, e) <=> Quiet(f, errors)
    BY <1>1, <2>1 DEF Quiet
  <2> SUFFICES ASSUME NEW i, NEW d, i < h.i, Offers(f, i, d)
               PROVE  /\ Quiet(f, errors) => d \in h.found
                      /\ h.found # {} \/ "ignoreAmbiguous" \in f.flags
    BY <1>1, <2>2 DEF Gathers
  <2>3. i \in Int
    BY DEF Offers, MayAskAt
  <2>4. CASE i < f.i
    BY <2>1, <2>4 DEF Gathers
  <2>5. CASE i = f.i
    <3>1. /\ d \in Offered(Asks(f))
          /\ "ignoreVisibility" \in f.flags \/ decl[d][ident] # "private"
      BY <2>5 DEF Offers, AsksAt, Asks
    <3>2. s # {} => ~Unseen(f, s)
      BY <3>1, HiddenIsLocal
    <3>3. s # {} => h.found = f.found \cup s
      BY <2>1, <3>2
    <3>4. Asks(f).flags = Passed(f.flags)
      BY DEF Asks
    <3>5. ASSUME Quiet(f, errors) PROVE d \in h.found
      <4>1. ~Ambiguous(Asks(f))
        <5>1. CASE ~Ambiguous(Query(f))
          BY <5>1, AmbiguousFromImport
        <5>2. CASE NoIgnores(f.flags) /\ errors = f.errors
          BY <3>4, <5>2 DEF Silent, NoIgnores, Passed
        <5> QED
          BY <3>5, <5>1, <5>2 DEF Quiet
      <4> QED
        BY <3>1, <3>3, <4>1 DEF Right
    <3>6. h.found # {} \/ "ignoreAmbiguous" \in f.flags
      <4>1. s # {} \/ "ignoreAmbiguous" \in f.flags
        BY <3>1, <3>4 DEF Right, Passed
      <4> QED
        BY <3>3, <4>1
    <3> QED
      BY <3>5, <3>6
  <2> QED
    BY <1>2, <2>1, <2>3, <2>4, <2>5
<1> QED
  BY <1>3, <1>4

(* After all imports have been scanned.                                    *)
LEMMA UniformUnambiguous ==
  ASSUME TypeOK, NEW q, q.of \in Modules, Uniform(q.ident, Offered(q))
  PROVE  ~Ambiguous(q)
<1> SUFFICES ASSUME Ambiguous(q) PROVE FALSE
  OBVIOUS
<1>1. PICK x, y \in Offered(q) : x # y
  BY OffersTyped, ManyAreTwo DEF Ambiguous
<1> QED
  BY <1>1 DEF Ambiguous, Overloads, Uniform

(* What all imports offer together is what is offered.                     *)
LEMMA GatheredAll ==
  ASSUME TypeOK, ident \in Names, NEW f \in Activations, Lacks(f), Effective(f.flags) = f.flags,
         f.i > Len(imports[f.mod]), Gathers(f, errors), f.found \subseteq Offered(Query(f)),
         Uniform(ident, f.found)
  PROVE  Right(Query(f), f.found) /\ Silent(Query(f), errors = f.errors)
<1>1. Query(f).of \in Modules /\ Query(f).ident = ident /\ Query(f).flags = f.flags
  BY DEF Query, Activations
<1>2. ASSUME NEW d \in Offered(Query(f))
      PROVE  /\ Quiet(f, errors) => d \in f.found
             /\ f.found # {} \/ "ignoreAmbiguous" \in f.flags
  <2>1. PICK i : Offers(f, i, d)
    BY Unfold
  <2>2. i < f.i
    BY <2>1, ScopesTyped DEF Offers, MayAskAt, Activations
  <2> QED
    BY <2>1, <2>2 DEF Gathers
<1>3. Quiet(f, errors) => f.found = Offered(Query(f))
  BY <1>2
<1>4. Quiet(f, errors) => ~Ambiguous(Query(f))
  BY <1>1, <1>3, UniformUnambiguous
<1> QED
  BY <1>1, <1>2, <1>3, <1>4 DEF Right, Silent, Quiet

(* The steps of a search, for what follows.                                *)
TopAdvances(f) ==
  /\ stack # <<>> /\ Top \in Activations /\ f \in Activations /\ stack' = WithTop(f)
  /\ f.mod = Top.mod /\ f.flags = Top.flags /\ f.errors = Top.errors /\ f.found = Top.found
  /\ f.i = Top.i + 1 /\ ~MayAsk(Top) /\ Lacks(Top)
  /\ UNCHANGED <<graph, insearch, cache, errors, ident, asked, answered, questions, changes>>

(* An activation that passes over an import, or over its locals.           *)
LEMMA AdvanceStep ==
  ASSUME SearchTyped, CallInv, ChainInv, NotInLocals \/ SkipImport
  PROVE  \E f : TopAdvances(f)
<1>1. stack # <<>> /\ Top \in Activations /\ Top = stack[Len(stack)] /\ Len(stack) \in 1..Len(stack)
  BY TopOfStack, NonEmpty DEF NotInLocals, SkipImport, Scanning, SearchTyped
<1> DEFINE f == [Top EXCEPT !.i = Top.i + 1]
<1>2. f \in Activations /\ f.mod = Top.mod /\ f.flags = Top.flags /\ f.errors = Top.errors
      /\ f.found = Top.found /\ f.i = Top.i + 1
  BY <1>1 DEF Activations
<1>3. stack' = WithTop(f)
        /\ UNCHANGED <<graph, insearch, cache, errors, ident, asked, answered, questions, changes>>
  <2>1. CASE NotInLocals
    <3>1. Top.i + 1 = 1
      BY <2>1 DEF NotInLocals
    <3> QED
      BY <2>1, <3>1 DEF NotInLocals
  <2>2. CASE SkipImport
    BY <2>2 DEF SkipImport
  <2> QED
    BY <2>1, <2>2
<1> HIDE DEF f
<1>4. ~MayAsk(Top) /\ Lacks(Top)
  <2>1. CASE NotInLocals
    <3>1. Top.i = 0 /\ ~InLocals
      BY <2>1 DEF NotInLocals
    <3>2. Lacks(Top)
      BY <1>1, <3>1, NotInLocalsLacks
    <3> QED
      BY <3>1, <3>2 DEF MayAsk
  <2>2. CASE SkipImport
    <3>1. Top.i # 0 /\ ~MayAsk(Top)
      BY <2>2 DEF SkipImport, Scanning, MayAsk, Scanned, Scopes
    <3> QED
      BY <1>1, <3>1 DEF ChainInv, PastLocals
  <2> QED
    BY <2>1, <2>2
<1> QED
  BY <1>1, <1>2, <1>3, <1>4 DEF TopAdvances

TopTakes(s) ==
  /\ stack # <<>> /\ Top \in Activations /\ MayAsk(Top) /\ Lacks(Top) /\ ident \in Names
  /\ s \in SUBSET Modules /\ s \subseteq Offered(Asks(Top)) /\ Top.found \subseteq Offered(Query(Top))
  /\ Immediate(Asks(Top).of, Asks(Top).flags) /\ s = ImmediateAnswer(Asks(Top).of)
  /\ Took(Top, s) \in Activations /\ stack' = WithTop(Took(Top, s))
  /\ errors' = errors + (IF MultiplyDefined(Top, s) THEN 1 ELSE 0)
  /\ UNCHANGED <<graph, insearch, cache, ident, asked, answered, questions, changes>>

(* An answer that an import has at once is taken.                          *)
LEMMA TakeStep ==
  ASSUME SearchTyped, CallInv, ChainInv, SoundInv, changes = 0, ImportAnswered
  PROVE  \E s : TopTakes(s)
<1> USE DEF SearchTyped
<1>1. stack # <<>> /\ Top \in Activations /\ Top = stack[Len(stack)] /\ Len(stack) \in 1..Len(stack)
  BY TopOfStack, NonEmpty DEF ImportAnswered, Scanning
<1> DEFINE s == ImmediateAnswer(Scanned.mod)
<1>2. /\ Scanned.mod \in Modules /\ s \in SUBSET Modules /\ Top.flags \in SUBSET Flags
      /\ Immediate(Scanned.mod, Passed(Top.flags)) /\ Passed(Top.flags) \in SUBSET Flags
      /\ ident \in Names
  BY <1>1, ScannedTyped, ImmediateTyped, Searching DEF ImportAnswered, Scanning, Activations
<1>3. MayAsk(Top) /\ Asks(Top) = [of |-> Scanned.mod, ident |-> ident, flags |-> Passed(Top.flags)]
  BY DEF ImportAnswered, Scanning, MayAsk, Scanned, Scopes, Asks
<1>4. Lacks(Top) /\ Top.found \subseteq Offered(Query(Top))
  <2>1. Top.i # 0
    BY <1>3 DEF MayAsk
  <2> QED
    BY <1>1, <2>1 DEF ChainInv, PastLocals, SoundInv, FoundSound
<1>5. s \subseteq Offered(Asks(Top))
  BY <1>2, <1>3, ImmediateSound DEF SoundInv
<1>6. /\ stack' = WithTop(Took(Top, s)) /\ errors' = errors + (IF MultiplyDefined(Top, s) THEN 1 ELSE 0)
      /\ UNCHANGED <<graph, insearch, cache, ident, asked, answered, questions, changes>>
  BY DEF ImportAnswered
<1>7. s = ImmediateAnswer(Asks(Top).of) /\ Immediate(Asks(Top).of, Asks(Top).flags)
  BY <1>2, <1>3
<1> HIDE DEF s
<1>8. Took(Top, s) \in Activations
  BY <1>1, <1>2, TookTyped
<1> QED
  BY <1>1, <1>2, <1>3, <1>4, <1>5, <1>6, <1>7, <1>8 DEF TopTakes

TopPushes(g) ==
  /\ g \in Activations /\ g.i = 0 /\ g.found = {} /\ g.errors = errors
  /\ insearch' = [insearch EXCEPT ![g.mod] = TRUE]
  /\ Len(stack') = Len(stack) + 1 /\ stack'[Len(stack) + 1] = g
  /\ \A k \in 1..Len(stack) : stack'[k] = stack[k]
  /\ UNCHANGED <<graph, cache, errors, ident, asked, answered, questions, changes>>

(* A search of a module begins.                                            *)
LEMMA PushStep ==
  ASSUME SearchTyped, Enter \/ SearchImport
  PROVE  \E g : TopPushes(g)
<1> USE DEF SearchTyped
<1>1. \E m \in Modules, flags \in SUBSET Flags :
        /\ stack' = Append(stack, Activation(m, flags)) /\ insearch' = [insearch EXCEPT ![m] = TRUE]
        /\ UNCHANGED <<graph, cache, errors, ident, asked, answered, questions, changes>>
  <2>1. CASE Enter
    <3>1. asked.of \in Modules /\ asked.flags \in SUBSET Flags
      BY <2>1, AskedTyped DEF Enter
    <3>2. stack' = Append(stack, Activation(asked.of, asked.flags))
      BY <2>1 DEF Enter
    <3> QED
      BY <2>1, <3>1, <3>2 DEF Enter
  <2>2. CASE SearchImport
    <3>1. Scanned.mod \in Modules /\ Passed(Top.flags) \in SUBSET Flags
      BY <2>2, ScannedTyped DEF SearchImport
    <3> QED
      BY <2>2, <3>1 DEF SearchImport
  <2> QED
    BY <2>1, <2>2
<1>2. PICK m \in Modules, flags \in SUBSET Flags :
        /\ stack' = Append(stack, Activation(m, flags)) /\ insearch' = [insearch EXCEPT ![m] = TRUE]
        /\ UNCHANGED <<graph, cache, errors, ident, asked, answered, questions, changes>>
  BY <1>1
<1>3. stack \in Seq(Activations)
  BY DEF TypeOK, Activations
<1> DEFINE g == Activation(m, flags)
<1>4. g \in Activations /\ g.mod = m /\ g.i = 0 /\ g.found = {} /\ g.errors = errors
  BY ActivationTyped DEF Activation
<1> HIDE DEF g
<1>5. /\ Len(stack') = Len(stack) + 1 /\ stack'[Len(stack) + 1] = g
      /\ \A k \in 1..Len(stack) : stack'[k] = stack[k]
  BY <1>2, <1>3, <1>4, AppendProperties DEF g
<1> QED
  BY <1>2, <1>4, <1>5 DEF TopPushes

TopReturns(s) ==
  /\ stack # <<>> /\ Top \in Activations /\ ident \in Names
  /\ s \in SUBSET Modules /\ s \subseteq Offered(Query(Top)) /\ Return(s)
  /\ \/ s = {Top.mod} /\ ~Lacks(Top) /\ Top.i = 0
     \/ s = Top.found /\ Lacks(Top) /\ Top.i > Len(imports[Top.mod])

(* A search of a module ends, and is remembered.                           *)
LEMMA ReturnStep ==
  ASSUME SearchTyped, CallInv, ChainInv, SoundInv, changes = 0, FoundInLocals \/ ImportsSearched
  PROVE  \E s : TopReturns(s)
<1> USE DEF SearchTyped
<1>1. /\ stack # <<>> /\ Top \in Activations /\ Top = stack[Len(stack)] /\ Len(stack) \in 1..Len(stack)
      /\ ident \in Names
  BY TopOfStack, NonEmpty, Searching DEF FoundInLocals, ImportsSearched
<1>2. CASE FoundInLocals
  <2>1. {Top.mod} \in SUBSET Modules /\ decl[Top.mod][ident] # "none" /\ Top.i = 0
        /\ Return({Top.mod})
    BY <1>1, <1>2 DEF FoundInLocals, InLocals, Activations
  <2>2. {Top.mod} \subseteq Offered(Query(Top))
    BY <2>1 DEF Offered, Query
  <2> QED
    BY <1>1, <2>1, <2>2 DEF TopReturns, Lacks
<1>3. CASE ImportsSearched
  <2>1. Top.found \in SUBSET Modules /\ Top.i > Len(imports[Top.mod]) /\ Return(Top.found)
        /\ Top.found \subseteq Offered(Query(Top))
    BY <1>1, <1>3 DEF ImportsSearched, Scopes, Activations, SoundInv, FoundSound
  <2>2. Lacks(Top)
    <3>1. Top.i # 0
      BY <1>1, <2>1, ScopesTyped DEF Activations
    <3> QED
      BY <1>1, <3>1 DEF ChainInv, PastLocals
  <2> QED
    BY <1>1, <2>1, <2>2 DEF TopReturns
<1> QED
  BY <1>2, <1>3

(* The answer of an imported module is taken by the importing one.         *)
CallerTakes(n, f, s) ==
  /\ Len(stack) = n + 1 /\ n \in 1..n /\ Top = stack[n + 1] /\ f = stack[n] /\ f \in Activations
  /\ MayAsk(f) /\ Lacks(f) /\ Query(Top) = Asks(f) /\ f.found \subseteq Offered(Query(f))
  /\ Len(stack') = n /\ stack'[n] = Took(f, s) /\ \A k \in 1..n : k # n => stack'[k] = stack[k]
  /\ errors' = errors + (IF MultiplyDefined(f, s) THEN 1 ELSE 0)
  /\ UNCHANGED <<graph, ident, asked, answered, questions, changes>>

(* An inner search hands its answer to the one that asked.                 *)
LEMMA CallerStep ==
  ASSUME SearchTyped, CallInv, ChainInv, SoundInv, changes = 0, NEW s, TopReturns(s), Len(stack) # 1
  PROVE  \E n, f : CallerTakes(n, f, s)
<1> USE DEF SearchTyped
<1> DEFINE n == Len(stack) - 1
           f == stack[n]
<1>1. /\ Len(stack) \in Nat \ {0} /\ Top = stack[Len(stack)] /\ Len(Callers) = Len(stack) - 1
      /\ \A k \in 1..Len(Callers) : Callers[k] = stack[k]
      /\ Callers \in Seq(Activations)
  BY NonEmpty, TopOfStack DEF TopReturns
<1>2. n \in 1..n /\ n \in 1..Len(stack) /\ n # Len(stack) /\ n + 1 = Len(stack) /\ n = Len(Callers)
      /\ Callers # <<>>
  BY <1>1, EmptySeq
<1>3. /\ f \in Activations /\ MayAsk(f) /\ Lacks(f) /\ Query(Top) = Asks(f)
      /\ f.found \subseteq Offered(Query(f))
  BY <1>1, <1>2, CallersAsk DEF SoundInv, FoundSound
<1>4. Callers[Len(Callers)] = f
  BY <1>1, <1>2
<1>5. /\ stack' = [Callers EXCEPT ![n] = Took(f, s)]
      /\ errors' = errors + (IF MultiplyDefined(f, s) THEN 1 ELSE 0)
      /\ UNCHANGED <<graph, ident, asked, answered, questions, changes>>
  BY <1>2, <1>4 DEF TopReturns, Return, Resume
<1> HIDE DEF f
<1>6. Took(f, s) \in Activations
  BY <1>3, TookTyped DEF TopReturns
<1>7. /\ Len(stack') = n /\ stack'[n] = Took(f, s)
      /\ \A k \in 1..n : k # n => stack'[k] = stack[k]
  BY <1>1, <1>2, <1>5, <1>6, TopReplaced
<1>8. f = stack[n]
  BY DEF f
<1> HIDE DEF n
<1> QED
  BY <1>1, <1>2, <1>3, <1>5, <1>7, <1>8 DEF CallerTakes

LastReturns(s) ==
  /\ Len(stack) = 1 /\ Top = stack[1] /\ asked # NoQuestion
  /\ Query(Top) = [of |-> asked.of, ident |-> ident, flags |-> Effective(asked.flags)]
  /\ stack' = <<>> /\ asked' = NoQuestion
  /\ answered' = answered \cup {[asked |-> asked, answer |-> s, erred |-> errors # Top.errors]}
  /\ UNCHANGED <<graph, errors, ident, questions, changes>>

(* The outermost search answers the question.                              *)
LEMMA LastStep ==
  ASSUME SearchTyped, CallInv, NEW s, TopReturns(s), Len(stack) = 1
  PROVE  LastReturns(s)
<1> USE DEF SearchTyped
<1>1. /\ Top = stack[1] /\ Len(Callers) = 0 /\ Callers \in Seq(Activations) /\ asked # NoQuestion
  BY NonEmpty, TopOfStack, Searching DEF TopReturns
<1>2. Callers = <<>>
  BY <1>1, EmptySeq
<1>3. /\ stack' = <<>> /\ asked' = NoQuestion
      /\ answered' = answered \cup {[asked |-> asked, answer |-> s, erred |-> errors # Top.errors]}
      /\ UNCHANGED <<graph, errors, ident, questions, changes>>
  BY <1>2 DEF TopReturns, Return, Resume, Deliver
<1>4. Query(Top) = [of |-> asked.of, ident |-> ident, flags |-> Effective(asked.flags)]
  BY <1>1 DEF TopReturns, CallInv, First, Query
<1> QED
  BY <1>1, <1>3, <1>4 DEF LastReturns

(* What a return leaves in the caches.                                     *)
LEMMA ReturnCaches ==
  ASSUME SearchTyped, NEW s, TopReturns(s)
  PROVE  /\ insearch' = [insearch EXCEPT ![Top.mod] = FALSE]
         /\ \A m \in Modules : m # Top.mod => cache'[m] = cache[m]
         /\ errors # Top.errors => cache' = cache
         /\ errors = Top.errors =>
              cache'[Top.mod].ident = ident /\ cache'[Top.mod].flags = Top.flags
              /\ cache'[Top.mod].symbol = s
<1>1. insearch' = [insearch EXCEPT ![Top.mod] = FALSE] /\ Remember(Top, s)
  BY DEF TopReturns, Return
<1>2. cache \in [Modules -> [ident : Names \cup {NoName}, flags : SUBSET Flags, symbol : SUBSET Modules]]
  BY DEF SearchTyped, TypeOK
<1>3. Top.mod \in Modules
  BY DEF TopReturns, Activations
<1> QED
  BY <1>1, <1>2, <1>3 DEF Remember

(* As long as nothing is declared or imported: what is remembered and what *)
(* has been found is one symbol or one overload set, a module's own symbol *)
(* is all that is found in it, and errors only become more.                *)
CachesPlain ==
  \A m \in Modules : cache[m].ident # NoName =>
    /\ Uniform(cache[m].ident, cache[m].symbol)
    /\ decl[m][cache[m].ident] # "none" => cache[m].symbol = {m}
FoundPlain ==
  \A k \in 1..Len(stack) :
    Uniform(ident, stack[k].found) /\ (stack[k].i = 0 => stack[k].found = {})
Rising ==
  \A j, k \in 1..Len(stack) :
    j <= k => stack[j].errors <= stack[k].errors /\ stack[k].errors <= errors
PlainInv == changes = 0 => CachesPlain /\ FoundPlain /\ Rising

(* PlainInv is kept by a step that keeps each of its parts.                *)
LEMMA PlainKept ==
  ASSUME graph' = graph,
         \A m \in Modules : cache'[m].ident # NoName =>
           /\ Uniform(cache'[m].ident, cache'[m].symbol)
           /\ decl[m][cache'[m].ident] # "none" => cache'[m].symbol = {m},
         \A k \in 1..Len(stack') :
           Uniform(ident', stack'[k].found) /\ (stack'[k].i = 0 => stack'[k].found = {}),
         Rising'
  PROVE  PlainInv'
<1>1. decl' = decl
  BY DEF graph
<1>2. \A n, s : Uniform(n, s)' <=> Uniform(n, s)
  BY <1>1 DEF Uniform
<1>3. CachesPlain'
  BY <1>1, <1>2 DEF CachesPlain
<1>4. FoundPlain'
  BY <1>2 DEF FoundPlain
<1> QED
  BY <1>3, <1>4 DEF PlainInv

(* The errors at the start of a search are not more than now.              *)
LEMMA RisingTop ==
  ASSUME SearchTyped, Rising, stack # <<>>, NEW f \in Activations, stack' = WithTop(f),
         f.errors = Top.errors, errors' \in Nat, errors <= errors'
  PROVE  Rising'
<1>1. /\ Len(stack') = Len(stack) /\ stack'[Len(stack)] = f
      /\ \A k \in 1..Len(stack) : k # Len(stack) => stack'[k] = stack[k]
      /\ Len(stack) \in Nat /\ Top = stack[Len(stack)] /\ stack \in Seq(Activations)
  BY TopStepStack, NonEmpty DEF SearchTyped
<1>2. \A k \in 1..Len(stack) : stack'[k].errors = stack[k].errors /\ stack[k].errors \in Nat
  <2> SUFFICES ASSUME NEW k \in 1..Len(stack)
               PROVE  stack'[k].errors = stack[k].errors /\ stack[k].errors \in Nat
    OBVIOUS
  <2>1. stack[k] \in Activations
    BY <1>1, ElementOfSeq
  <2>2. stack'[k].errors = stack[k].errors
    BY <1>1
  <2> QED
    BY <2>1, <2>2 DEF Activations
<1>3. errors \in Nat
  BY DEF SearchTyped, TypeOK
<1> SUFFICES ASSUME NEW j \in 1..Len(stack), NEW k \in 1..Len(stack), j <= k
             PROVE  stack'[j].errors <= stack'[k].errors /\ stack'[k].errors <= errors'
  BY <1>1 DEF Rising
<1>4. stack[j].errors <= stack[k].errors /\ stack[k].errors <= errors
  BY DEF Rising
<1> QED
  BY <1>2, <1>3, <1>4

(* Whoever has taken an answer stands past its locals.                     *)
LEMMA TookBegun ==
  ASSUME TypeOK, NEW f \in Activations, NEW s
  PROVE  Took(f, s).i # 0
<1>1. Len(imports[f.mod]) \in Nat /\ f.i \in Nat
  BY ScopesTyped DEF Activations
<1>2. Took(f, s).i = Len(imports[f.mod]) + 1 \/ Took(f, s).i = f.i + 1
  BY TookFields
<1> QED
  BY <1>1, <1>2

(* What the top activation becomes is plain again.                         *)
LEMMA TopPlain ==
  ASSUME SearchTyped, PlainInv, changes = 0, stack # <<>>, NEW f \in Activations,
         stack' = WithTop(f), f.errors = Top.errors, errors' \in Nat, errors <= errors',
         Uniform(ident, f.found), f.i # 0, UNCHANGED <<graph, cache, ident>>
  PROVE  PlainInv'
<1>1. /\ Len(stack') = Len(stack) /\ stack'[Len(stack)] = f
      /\ \A k \in 1..Len(stack) : k # Len(stack) => stack'[k] = stack[k]
  BY TopStepStack, NonEmpty DEF SearchTyped
<1>2. Rising'
  BY RisingTop DEF PlainInv
<1>3. \A k \in 1..Len(stack') :
        Uniform(ident', stack'[k].found) /\ (stack'[k].i = 0 => stack'[k].found = {})
  BY <1>1 DEF PlainInv, FoundPlain
<1> QED
  BY <1>2, <1>3, PlainKept DEF PlainInv, CachesPlain

(* Every step keeps PlainInv.                                              *)
LEMMA PlainStep ==
  ASSUME SearchTyped, CallInv, ChainInv, SoundInv, PlainInv, [Next]_vars
  PROVE  PlainInv'
<1> USE DEF SearchTyped
<1>1. ASSUME changes' # 0 PROVE PlainInv'
  BY <1>1 DEF PlainInv
<1>2. ASSUME Change PROVE changes' # 0
  BY <1>2 DEF Change, TypeOK
<1>3. ASSUME stack = <<>>, stack' = <<>>, UNCHANGED <<graph, cache>>, changes = 0
      PROVE  PlainInv'
  <2>1. \A m \in Modules : cache'[m].ident # NoName =>
          /\ Uniform(cache'[m].ident, cache'[m].symbol)
          /\ decl[m][cache'[m].ident] # "none" => cache'[m].symbol = {m}
    BY <1>3 DEF PlainInv, CachesPlain
  <2>2. Rising'
    BY <1>3 DEF Rising
  <2> QED
    BY <1>3, <2>1, <2>2, PlainKept
<1>4. ASSUME NEW q \in Questions, Ask(q), changes = 0 PROVE PlainInv'
  BY <1>3, <1>4 DEF Ask
<1>5. CASE AskedAnswered /\ changes = 0
  BY <1>3, <1>5 DEF AskedAnswered
<1>6. CASE (Enter \/ SearchImport) /\ changes = 0
  <2>1. PICK g : TopPushes(g)
    BY <1>6, PushStep
  <2>2. Len(stack) \in Nat /\ stack \in Seq(Activations) /\ errors \in Nat
    BY DEF TypeOK, Activations
  <2>3. \A k \in 1..Len(stack') : k \in 1..Len(stack) \/ k = Len(stack) + 1
    BY <2>1, <2>2 DEF TopPushes
  <2>4. \A k \in 1..Len(stack') :
          Uniform(ident', stack'[k].found) /\ (stack'[k].i = 0 => stack'[k].found = {})
    <3>1. Uniform(ident', {})
      BY DEF Uniform
    <3> QED
      BY <1>6, <2>1, <2>3, <3>1 DEF TopPushes, PlainInv, FoundPlain
  <2>5. Rising'
    <3> SUFFICES ASSUME NEW j \in 1..Len(stack'), NEW k \in 1..Len(stack'), j <= k
                 PROVE  stack'[j].errors <= stack'[k].errors /\ stack'[k].errors <= errors
      BY <2>1 DEF Rising, TopPushes
    <3>1. CASE k \in 1..Len(stack)
      <4>1. j \in 1..Len(stack)
        BY <2>2, <3>1
      <4> QED
        BY <1>6, <2>1, <3>1, <4>1 DEF TopPushes, PlainInv, Rising
    <3>2. CASE k = Len(stack) + 1
      <4>1. stack'[k].errors = errors
        BY <2>1, <3>2 DEF TopPushes
      <4>2. stack'[j].errors <= errors
        <5>1. CASE j = k
          BY <2>2, <4>1, <5>1
        <5>2. CASE j # k
          <6>1. j \in 1..Len(stack) /\ j <= j
            BY <2>2, <3>2, <5>2, <2>3
          <6> QED
            BY <1>6, <2>1, <6>1 DEF TopPushes, PlainInv, Rising
        <5> QED
          BY <5>1, <5>2
      <4> QED
        BY <2>2, <4>1, <4>2
    <3> QED
      BY <2>3, <3>1, <3>2
  <2>6. \A m \in Modules : cache'[m].ident # NoName =>
          /\ Uniform(cache'[m].ident, cache'[m].symbol)
          /\ decl[m][cache'[m].ident] # "none" => cache'[m].symbol = {m}
    BY <1>6, <2>1 DEF PlainInv, CachesPlain, TopPushes
  <2>7. graph' = graph
    BY <2>1 DEF TopPushes
  <2> QED
    BY <2>4, <2>5, <2>6, <2>7, PlainKept
<1>7. ASSUME stack # <<>>, changes = 0
      PROVE  Top \in Activations /\ Uniform(ident, Top.found)
  <2>1. Top \in Activations /\ Len(stack) \in 1..Len(stack) /\ Top = stack[Len(stack)]
    BY <1>7, TopOfStack, NonEmpty
  <2> QED
    BY <1>7, <2>1 DEF PlainInv, FoundPlain
<1>8. CASE (NotInLocals \/ SkipImport) /\ changes = 0
  <2>1. PICK f : TopAdvances(f)
    BY <1>8, AdvanceStep
  <2>2. errors' \in Nat /\ errors <= errors' /\ f.i # 0 /\ Uniform(ident, f.found)
    BY <1>7, <1>8, <2>1 DEF TopAdvances, TypeOK, Activations
  <2> QED
    BY <1>8, <2>1, <2>2, TopPlain DEF TopAdvances
<1>9. CASE ImportAnswered /\ changes = 0
  <2>1. PICK s : TopTakes(s)
    BY <1>9, TakeStep
  <2>2. Uniform(ident, s)
    <3>1. CASE s = {}
      BY <3>1 DEF Uniform
    <3>2. CASE s # {}
      <4>1. s = cache[Asks(Top).of].symbol /\ cache[Asks(Top).of].ident = ident
        BY <2>1, <3>2 DEF TopTakes, Immediate, ImmediateAnswer, Hit
      <4>2. Asks(Top).of \in Modules /\ ident # NoName
        BY <2>1, CalleeScanned, SearchAssumption DEF TopTakes
      <4> QED
        BY <1>9, <4>1, <4>2 DEF PlainInv, CachesPlain
    <3> QED
      BY <3>1, <3>2
  <2>3. Uniform(ident, Took(Top, s).found) /\ Took(Top, s).errors = Top.errors
    BY <1>7, <1>9, <2>1, <2>2, TookUniform, TookFields DEF TopTakes
  <2>4. Took(Top, s).i # 0
    BY <2>1, TookBegun DEF TopTakes
  <2>5. errors' \in Nat /\ errors <= errors'
    BY <2>1 DEF TopTakes, TypeOK
  <2> QED
    BY <1>9, <2>1, <2>3, <2>4, <2>5, TopPlain DEF TopTakes
<1>10. CASE (FoundInLocals \/ ImportsSearched) /\ changes = 0
  <2>1. PICK s : TopReturns(s)
    BY <1>10, ReturnStep
  <2>2. Uniform(ident, s) /\ (decl[Top.mod][ident] # "none" => s = {Top.mod})
    <3>1. Uniform(ident, {Top.mod})
      BY DEF Uniform
    <3> QED
      BY <1>7, <1>10, <2>1, <3>1 DEF TopReturns, Lacks
  <2>3. /\ Len(stack') = Len(stack) - 1
        /\ \A k \in 1..Len(stack') :
             /\ stack[k] \in Activations
             /\ stack'[k] = stack[k] \/ stack'[k] = Took(stack[k], s)
    BY <2>1, ResumeKeeps DEF TopReturns
  <2>4. Len(stack) \in Nat \ {0} /\ \A k \in 1..Len(stack') : k \in 1..Len(stack) /\ k # Len(stack)
    BY <2>1, <2>3, NonEmpty DEF TopReturns
  <2>5. ASSUME NEW k \in 1..Len(stack')
        PROVE  /\ Uniform(ident, stack'[k].found) /\ (stack'[k].i = 0 => stack'[k].found = {})
               /\ stack'[k].errors = stack[k].errors
    <3>1. Uniform(ident, stack[k].found) /\ (stack[k].i = 0 => stack[k].found = {})
      BY <1>10, <2>4 DEF PlainInv, FoundPlain
    <3>2. CASE stack'[k] = stack[k]
      BY <3>1, <3>2
    <3>3. CASE stack'[k] = Took(stack[k], s)
      <4>1. Took(stack[k], s).i # 0
        BY <2>3, TookBegun
      <4>2. Uniform(ident, Took(stack[k], s).found)
        BY <2>2, <2>3, <3>1, TookUniform
      <4>3. Took(stack[k], s).errors = stack[k].errors
        BY <2>3, TookFields
      <4> QED
        BY <3>3, <4>1, <4>2, <4>3
    <3> QED
      BY <2>3, <3>2, <3>3
  <2>6. graph' = graph /\ ident' = ident /\ errors' \in Nat /\ errors <= errors'
    <3>1. graph' = graph /\ ident' = ident /\ Resume(Callers, s)
      BY <2>1 DEF TopReturns, Return
    <3>2. errors' = errors \/ errors' = errors + 1
      <4>1. CASE Callers = <<>>
        BY <3>1, <4>1 DEF Resume
      <4>2. CASE Callers # <<>>
        <5>1. errors' = errors + (IF MultiplyDefined(Callers[Len(Callers)], s) THEN 1 ELSE 0)
          BY <3>1, <4>2 DEF Resume
        <5> QED
          BY <5>1 DEF TypeOK
      <4> QED
        BY <4>1, <4>2
    <3> QED
      BY <3>1, <3>2 DEF TypeOK
  <2>7. Rising'
    <3> SUFFICES ASSUME NEW j \in 1..Len(stack'), NEW k \in 1..Len(stack'), j <= k
                 PROVE  stack'[j].errors <= stack'[k].errors /\ stack'[k].errors <= errors'
      BY DEF Rising
    <3>1. stack[j].errors <= stack[k].errors /\ stack[k].errors <= errors
      BY <1>10, <2>4 DEF PlainInv, Rising
    <3>2. stack[k].errors \in Nat /\ errors \in Nat
      BY <2>3 DEF TypeOK, Activations
    <3> QED
      BY <2>5, <2>6, <3>1, <3>2
  <2>8. ASSUME NEW m \in Modules, cache'[m].ident # NoName
        PROVE  /\ Uniform(cache'[m].ident, cache'[m].symbol)
               /\ decl[m][cache'[m].ident] # "none" => cache'[m].symbol = {m}
    <3>1. CASE cache'[m] = cache[m]
      BY <1>10, <2>8, <3>1 DEF PlainInv, CachesPlain
    <3>2. CASE cache'[m] # cache[m]
      <4>1. m = Top.mod /\ cache'[m].ident = ident /\ cache'[m].symbol = s
        BY <2>1, <3>2, ReturnCaches
      <4> QED
        BY <2>2, <4>1
    <3> QED
      BY <3>1, <3>2
  <2> QED
    BY <2>5, <2>6, <2>7, <2>8, PlainKept
<1>11. CASE UNCHANGED vars
  <2>1. UNCHANGED <<graph, cache, stack, ident, errors, changes>> /\ decl' = decl
    BY <1>11 DEF vars, graph
  <2>2. \A n, s : Uniform(n, s)' <=> Uniform(n, s)
    BY <2>1 DEF Uniform
  <2> QED
    BY <2>1, <2>2 DEF PlainInv, CachesPlain, FoundPlain, Rising
<1> QED
  BY <1>1, <1>2, <1>4, <1>5, <1>6, <1>8, <1>9, <1>10, <1>11
  DEF Next, Step, Ask, AskedAnswered, Enter, FoundInLocals, NotInLocals, SkipImport,
      ImportAnswered, SearchImport, ImportsSearched, Return, SymtabInsert, ImportScope, ClearCache

(* Without import cycles: what is remembered is exact, and what has been   *)
(* found so far is all that the imports scanned so far offer.              *)
CachesRight ==
  \A m \in Modules : cache[m].ident # NoName =>
    Right(Remembered(m), cache[m].symbol) /\ Silent(Remembered(m), TRUE)
Gathering == \A k \in 1..Len(stack) : Gathers(stack[k], errors)
AcyclicInv == changes = 0 /\ CycleFree => CachesRight /\ Gathering

(* What is right depends on the modules and imports alone.                 *)
LEMMA SameRight ==
  ASSUME graph' = graph
  PROVE  /\ \A q, s : Right(q, s)' <=> Right(q, s)
         /\ \A q, b : Silent(q, b)' <=> Silent(q, b)
         /\ CycleFree' <=> CycleFree
<1>1. \A q : Offered(q)' = Offered(q) /\ (Ambiguous(q)' <=> Ambiguous(q))
  BY SameGraph
<1>2. imports' = imports
  BY DEF graph
<1>3. \A q, s : Right(q, s)' <=> Right(q, s)
  BY <1>1 DEF Right
<1>4. \A q, b : Silent(q, b)' <=> Silent(q, b)
  BY <1>1 DEF Silent, NoIgnores
<1>5. CycleFree' <=> CycleFree
  BY <1>2 DEF CycleFree, ImportsOf
<1> QED
  BY <1>3, <1>4, <1>5

(* So does what an activation should have found.                           *)
LEMMA SameGathers ==
  ASSUME graph' = graph, ident' = ident
  PROVE  \A f, e : Gathers(f, e)' <=> Gathers(f, e)
<1>1. \A q : Offered(q)' = Offered(q) /\ (Ambiguous(q)' <=> Ambiguous(q))
  BY SameGraph
<1>2. imports' = imports /\ decl' = decl
  BY DEF graph
<1>3. \A f, i, d : Offers(f, i, d)' <=> Offers(f, i, d)
  BY <1>1, <1>2 DEF Offers, MayAskAt, AsksAt, Skipped
<1>4. \A f, e : Quiet(f, e)' <=> Quiet(f, e)
  BY <1>1 DEF Quiet, Query, NoIgnores
<1> QED
  BY <1>3, <1>4 DEF Gathers

(* More errors leave less to show.                                         *)
LEMMA GathersHigher ==
  ASSUME NEW f, NEW e \in Nat, NEW x \in Nat, f.errors \in Nat, f.errors <= e, e <= x, Gathers(f, e)
  PROVE  Gathers(f, x)
<1>1. Quiet(f, x) => Quiet(f, e)
  BY DEF Quiet
<1> QED
  BY <1>1 DEF Gathers

(* An import that offers nothing is passed over without loss.              *)
LEMMA AdvanceGathers ==
  ASSUME TypeOK, NEW f \in Activations, NEW g \in Activations, NEW e,
         g.mod = f.mod, g.flags = f.flags, g.errors = f.errors, g.found = f.found,
         g.i = f.i + 1, ~MayAsk(f), Gathers(f, e)
  PROVE  Gathers(g, e)
<1>1. \A i, d : Offers(g, i, d) <=> Offers(f, i, d)
  BY DEF Offers, MayAskAt, AsksAt, Skipped
<1>2. \A i, d : i < g.i /\ Offers(g, i, d) => i < f.i
  <2> SUFFICES ASSUME NEW i, NEW d, i < g.i, Offers(g, i, d) PROVE i < f.i
    OBVIOUS
  <2>1. i \in Int /\ MayAskAt(f, i)
    BY <1>1 DEF Offers, MayAskAt
  <2>2. i # f.i
    BY <2>1 DEF MayAskAt, MayAsk
  <2> QED
    BY <2>1, <2>2 DEF Activations
<1>3. Quiet(g, e) <=> Quiet(f, e)
  BY DEF Quiet, Query
<1> QED
  BY <1>1, <1>2, <1>3 DEF Gathers

(* A search goes by the flags that its cache is kept under.                *)
LEMMA FlagsEffective ==
  ASSUME SearchTyped, CallInv, NEW k \in 1..Len(stack)
  PROVE  Effective(stack[k].flags) = stack[k].flags
<1>1. Len(stack) \in Nat
  BY LenProperties DEF SearchTyped, TypeOK
<1>2. CASE k = 1
  <2>1. stack # <<>>
    BY <1>1, EmptySeq
  <2> QED
    BY <1>2, <2>1, EffectiveTwice DEF CallInv, First
<1>3. CASE k # 1
  <2>1. k \in 2..Len(stack)
    BY <1>3
  <2>2. stack[k].flags = Passed(stack[k - 1].flags)
    BY <2>1 DEF CallInv, Called, CalledFor
  <2> QED
    BY <2>2 DEF Passed, Effective
<1> QED
  BY <1>2, <1>3

(* Without cycles a search never meets a module that is being searched.    *)
LEMMA NotMarked ==
  ASSUME SearchTyped, MarkedIffActive, CallInv, CycleFree, stack # <<>>, MayAsk(Top)
  PROVE  ~insearch[Asks(Top).of]
<1> USE DEF SearchTyped
<1>1. Len(stack) \in Nat \ {0} /\ Top = stack[Len(stack)] /\ stack \in Seq(Activations)
  BY NonEmpty
<1>2. \A k \in 1..Len(stack) : stack[k] \in Activations /\ stack[k].mod \in Modules
  <2>1. \A k \in 1..Len(stack) : stack[k] \in Activations
    BY <1>1, ElementOfSeq
  <2> QED
    BY <2>1 DEF Activations
<1>3. ASSUME NEW m \in Modules, NEW i \in 1..Len(imports[m])
      PROVE  imports[m][i].mod \in ImportsOf(m, Protections) /\ imports[m][i].mod \in Modules
  <2>1. imports[m][i].mod \in Modules /\ imports[m][i].prot \in Protections
    BY ScopesTyped DEF Imports
  <2>2. i \in {x \in 1..Len(imports[m]) : imports[m][x].prot \in Protections}
    BY <2>1
  <2> QED
    BY <2>1, <2>2 DEF ImportsOf
<1> SUFFICES ASSUME insearch[Asks(Top).of] PROVE FALSE
  OBVIOUS
<1>4. Asks(Top).of \in Modules
  BY <1>1, <1>2, CalleeScanned
<1>5. PICK j \in 1..Len(stack) : stack[j].mod = Asks(Top).of
  BY <1>4 DEF MarkedIffActive
<1> DEFINE S == {stack[k].mod : k \in j..Len(stack)}
<1>6. S \in (SUBSET Modules) \ {{}}
  <2>1. ASSUME NEW k \in j..Len(stack) PROVE stack[k].mod \in Modules
    <3>1. k \in 1..Len(stack)
      BY <1>1
    <3> QED
      BY <1>2, <3>1
  <2>2. j \in j..Len(stack)
    BY <1>1
  <2>3. stack[j].mod \in S
    BY <2>2
  <2> QED
    BY <2>1, <2>3
<1>7. PICK m \in S : ImportsOf(m, Protections) \cap S = {}
  BY <1>6 DEF CycleFree
<1>8. PICK k \in j..Len(stack) : m = stack[k].mod
  BY <1>7
<1>9. CASE k = Len(stack)
  <2>1. Asks(Top).of \in ImportsOf(m, Protections)
    BY <1>1, <1>2, <1>3, <1>8, <1>9 DEF MayAsk, Asks
  <2>2. Asks(Top).of \in S
    BY <1>1, <1>5
  <2> QED
    BY <1>7, <2>1, <2>2
<1>10. CASE k # Len(stack)
  <2>1. k + 1 \in 2..Len(stack) /\ k + 1 \in j..Len(stack) /\ (k + 1) - 1 = k /\ k \in 1..Len(stack)
    BY <1>1, <1>5, <1>8, <1>10
  <2>2. CalledFor(stack[k], stack[k + 1])
    BY <2>1 DEF CallInv, Called
  <2>3. stack[k + 1].mod \in ImportsOf(m, Protections)
    BY <1>2, <1>3, <1>8, <2>1, <2>2 DEF CalledFor
  <2> QED
    BY <1>7, <2>1, <2>3
<1> QED
  BY <1>9, <1>10

(* What a search answers is exact if it has gathered everything.           *)
LEMMA ReturnsRight ==
  ASSUME SearchTyped, CallInv, PlainInv, changes = 0, NEW s, TopReturns(s), Gathers(Top, errors)
  PROVE  Right(Query(Top), s) /\ Silent(Query(Top), errors = Top.errors)
<1> USE DEF SearchTyped
<1>1. Top \in Activations /\ Len(stack) \in 1..Len(stack) /\ Top = stack[Len(stack)]
  BY TopOfStack, NonEmpty DEF TopReturns
<1>2. Query(Top).of = Top.mod /\ Query(Top).ident = ident /\ Top.mod \in Modules
  BY <1>1 DEF Query, Activations
<1>3. CASE s = {Top.mod} /\ ~Lacks(Top)
  BY <1>2, <1>3, LocalOffer DEF Lacks, Silent
<1>4. CASE s = Top.found /\ Lacks(Top) /\ Top.i > Len(imports[Top.mod])
  <2>1. Uniform(ident, Top.found)
    BY <1>1 DEF PlainInv, FoundPlain
  <2>2. Effective(Top.flags) = Top.flags
    BY <1>1, FlagsEffective
  <2> QED
    BY <1>1, <1>4, <2>1, <2>2, GatheredAll DEF TopReturns
<1> QED
  BY <1>3, <1>4 DEF TopReturns

(* AcyclicInv is kept by a step that keeps each of its parts.              *)
LEMMA AcyclicKept ==
  ASSUME graph' = graph, changes' = changes,
         changes = 0 /\ CycleFree =>
           /\ \A m \in Modules : cache'[m].ident # NoName =>
                LET q == [of |-> m, ident |-> cache'[m].ident, flags |-> cache'[m].flags] IN
                Right(q, cache'[m].symbol) /\ Silent(q, TRUE)
           /\ Gathering'
  PROVE  AcyclicInv'
<1>1. /\ \A q, s : Right(q, s)' <=> Right(q, s)
      /\ \A q, b : Silent(q, b)' <=> Silent(q, b)
      /\ CycleFree' <=> CycleFree
  BY SameRight
<1> SUFFICES ASSUME changes = 0, CycleFree PROVE CachesRight' /\ Gathering'
  BY <1>1 DEF AcyclicInv
<1>2. CachesRight'
  BY <1>1 DEF CachesRight, Remembered
<1> QED
  BY <1>2

(* Other activations go on with what they have found.                      *)
LEMMA OthersGather ==
  ASSUME SearchTyped, Rising, Gathering, graph' = graph, ident' = ident,
         errors' \in Nat, errors <= errors', NEW k \in 1..Len(stack), stack'[k] = stack[k]
  PROVE  Gathers(stack[k], errors)'
<1>1. stack[k] \in Activations /\ errors \in Nat /\ stack[k].errors <= errors /\ k <= k
  <2>1. stack[k] \in Activations
    BY ElementOfSeq DEF SearchTyped, TypeOK, Activations
  <2>2. errors \in Nat /\ k <= k
    BY DEF SearchTyped, TypeOK
  <2> QED
    BY <2>1, <2>2 DEF Rising
<1>2. Gathers(stack[k], errors')
  <2>1. Gathers(stack[k], errors) /\ stack[k].errors \in Nat
    BY <1>1 DEF Gathering, Activations
  <2> QED
    BY <1>1, <2>1, GathersHigher
<1> QED
  BY <1>2, SameGathers

(* The top activation changes, the ones below it do not.                   *)
LEMMA TopGathers ==
  ASSUME SearchTyped, Rising, Gathering, graph' = graph, ident' = ident, stack # <<>>,
         errors' \in Nat, errors <= errors',
         NEW f \in Activations, stack' = WithTop(f), Gathers(f, errors')
  PROVE  Gathering'
<1>1. /\ Len(stack') = Len(stack) /\ stack'[Len(stack)] = f
      /\ \A k \in 1..Len(stack) : k # Len(stack) => stack'[k] = stack[k]
  BY TopStepStack DEF SearchTyped
<1> SUFFICES ASSUME NEW k \in 1..Len(stack') PROVE Gathers(stack[k], errors)'
  BY DEF Gathering
<1>2. CASE k = Len(stack)
  <2>1. Gathers(stack'[k], errors')
    BY <1>1, <1>2
  <2> QED
    BY <2>1, SameGathers
<1>3. CASE k # Len(stack)
  BY <1>1, <1>3, OthersGather
<1> QED
  BY <1>2, <1>3

(* Every step keeps AcyclicInv.                                            *)
LEMMA AcyclicStep ==
  ASSUME SearchTyped, MarkedIffActive, CallInv, ChainInv, SoundInv, PlainInv, AcyclicInv,
         [Next]_vars
  PROVE  AcyclicInv'
<1> USE DEF SearchTyped
<1>1. ASSUME changes' # 0 PROVE AcyclicInv'
  BY <1>1 DEF AcyclicInv
<1>2. ASSUME Change PROVE changes' # 0
  BY <1>2 DEF Change, TypeOK
<1>3. ASSUME changes = 0, UNCHANGED <<graph, cache, changes>>, CycleFree => Gathering'
      PROVE  AcyclicInv'
  BY <1>3, AcyclicKept DEF AcyclicInv, CachesRight, Remembered
<1>4. ASSUME stack' = <<>> PROVE Gathering'
  BY <1>4 DEF Gathering
<1>5. ASSUME NEW q \in Questions, Ask(q), changes = 0 PROVE AcyclicInv'
  BY <1>3, <1>4, <1>5 DEF Ask
<1>6. CASE AskedAnswered /\ changes = 0
  BY <1>3, <1>4, <1>6 DEF AskedAnswered
<1>7. ASSUME stack # <<>>, changes = 0, CycleFree
      PROVE  /\ Top \in Activations /\ Gathers(Top, errors) /\ Gathering /\ CachesRight
             /\ Top.errors <= errors /\ Rising
  <2>1. /\ Top \in Activations /\ Len(stack) \in 1..Len(stack) /\ Top = stack[Len(stack)]
        /\ Len(stack) <= Len(stack)
    BY <1>7, TopOfStack, NonEmpty
  <2>2. Gathering /\ CachesRight /\ Rising
    BY <1>7 DEF AcyclicInv, PlainInv
  <2> QED
    BY <2>1, <2>2 DEF Gathering, Rising
<1>8. CASE (Enter \/ SearchImport) /\ changes = 0
  <2>1. PICK g : TopPushes(g)
    BY <1>8, PushStep
  <2>2. errors' \in Nat /\ errors <= errors' /\ Len(stack) \in Nat
    BY <2>1 DEF TopPushes, TypeOK
  <2>3. Gathers(g, errors')
    <3>1. g.i = 0
      BY <2>1 DEF TopPushes
    <3>2. \A i, d : Offers(g, i, d) => i \in Nat /\ i # 0
      BY DEF Offers, MayAskAt
    <3> QED
      BY <3>1, <3>2 DEF Gathers
  <2>4. CycleFree => Gathering'
    <3> SUFFICES ASSUME CycleFree, NEW k \in 1..Len(stack') PROVE Gathers(stack[k], errors)'
      BY DEF Gathering
    <3>1. k \in 1..Len(stack) \/ k = Len(stack) + 1
      BY <2>1, <2>2 DEF TopPushes
    <3>2. CASE k = Len(stack) + 1
      BY <2>1, <2>3, <3>2, SameGathers DEF TopPushes
    <3>3. CASE k \in 1..Len(stack)
      BY <1>8, <2>1, <2>2, <3>3, OthersGather DEF TopPushes, AcyclicInv, PlainInv
    <3> QED
      BY <3>1, <3>2, <3>3
  <2> QED
    BY <1>3, <1>8, <2>1, <2>4 DEF TopPushes
<1>9. CASE (NotInLocals \/ SkipImport) /\ changes = 0
  <2>1. PICK f : TopAdvances(f)
    BY <1>9, AdvanceStep
  <2>2. CycleFree => Gathering'
    <3> SUFFICES ASSUME CycleFree PROVE Gathering'
      OBVIOUS
    <3>1. Gathers(f, errors)
      BY <1>7, <1>9, <2>1, AdvanceGathers DEF TopAdvances
    <3>2. errors' \in Nat /\ errors <= errors' /\ Gathers(f, errors')
      BY <2>1, <3>1 DEF TopAdvances, TypeOK
    <3> QED
      BY <1>7, <1>9, <2>1, <3>2, TopGathers DEF TopAdvances
  <2> QED
    BY <1>3, <1>9, <2>1, <2>2 DEF TopAdvances
<1>10. CASE ImportAnswered /\ changes = 0
  <2>1. PICK s : TopTakes(s)
    BY <1>10, TakeStep
  <2>2. CycleFree => Gathering'
    <3> SUFFICES ASSUME CycleFree PROVE Gathering'
      OBVIOUS
    <3> DEFINE m == Asks(Top).of
    <3>1. ~insearch[m]
      BY <1>10, <2>1, NotMarked DEF TopTakes
    <3>2. /\ s = cache[m].symbol /\ cache[m].ident = ident
          /\ cache[m].flags = Effective(Asks(Top).flags)
      BY <2>1, <3>1 DEF TopTakes, Immediate, ImmediateAnswer, Hit
    <3>3. Effective(Asks(Top).flags) = Asks(Top).flags
      BY DEF Asks, Passed, Effective
    <3>4. m \in Modules /\ ident # NoName
      BY <2>1, CalleeScanned, SearchAssumption DEF TopTakes
    <3>5. Remembered(m) = Asks(Top)
      BY <3>2, <3>3 DEF Remembered, Asks
    <3>6. Right(Asks(Top), s) /\ Silent(Asks(Top), TRUE)
      BY <1>7, <1>10, <2>1, <3>2, <3>4, <3>5 DEF CachesRight, TopTakes
    <3>7. Silent(Asks(Top), errors = Top.errors)
      BY <3>6 DEF Silent
    <3>8. Gathers(Took(Top, s), errors')
      BY <1>7, <1>10, <2>1, <3>6, <3>7, TookGathers DEF TopTakes
    <3>9. errors' \in Nat /\ errors <= errors'
      BY <2>1 DEF TopTakes, TypeOK
    <3> QED
      BY <1>7, <1>10, <2>1, <3>8, <3>9, TopGathers DEF TopTakes
  <2> QED
    BY <1>3, <1>10, <2>1, <2>2 DEF TopTakes
<1>11. CASE (FoundInLocals \/ ImportsSearched) /\ changes = 0
  <2>1. PICK s : TopReturns(s)
    BY <1>11, ReturnStep
  <2>2. graph' = graph /\ ident' = ident /\ changes' = changes
    BY <2>1 DEF TopReturns, Return
  <2> SUFFICES ASSUME CycleFree
               PROVE  /\ \A m \in Modules : cache'[m].ident # NoName =>
                           LET q == [of |-> m, ident |-> cache'[m].ident, flags |-> cache'[m].flags] IN
                           Right(q, cache'[m].symbol) /\ Silent(q, TRUE)
                      /\ Gathering'
    BY <2>2, AcyclicKept
  <2>3. Top \in Activations /\ Gathers(Top, errors) /\ Gathering /\ CachesRight /\ Rising
    BY <1>7, <1>11, <2>1 DEF TopReturns
  <2>4. Right(Query(Top), s) /\ Silent(Query(Top), errors = Top.errors)
    BY <1>11, <2>1, <2>3, ReturnsRight
  <2>5. ASSUME NEW m \in Modules, cache'[m].ident # NoName,
               NEW q, q = [of |-> m, ident |-> cache'[m].ident, flags |-> cache'[m].flags]
        PROVE  Right(q, cache'[m].symbol) /\ Silent(q, TRUE)
    <3>1. CASE cache'[m] = cache[m]
      BY <2>3, <2>5, <3>1 DEF CachesRight, Remembered
    <3>2. CASE cache'[m] # cache[m]
      <4>1. /\ m = Top.mod /\ cache'[m].ident = ident /\ cache'[m].flags = Top.flags
            /\ cache'[m].symbol = s /\ errors = Top.errors
        BY <2>1, <3>2, ReturnCaches
      <4>2. q = Query(Top)
        BY <2>5, <4>1 DEF Query
      <4> QED
        BY <2>4, <4>1, <4>2 DEF Silent
    <3> QED
      BY <3>1, <3>2
  <2>6. CASE Len(stack) = 1
    <3>1. stack' = <<>>
      BY <2>1, <2>6, LastStep DEF LastReturns
    <3> QED
      BY <1>4, <2>5, <3>1
  <2>7. CASE Len(stack) # 1
    <3>1. PICK n, f : CallerTakes(n, f, s)
      BY <1>11, <2>1, <2>7, CallerStep
    <3>2. /\ n \in 1..Len(stack) /\ n + 1 \in 1..Len(stack) /\ n <= n + 1
          /\ \A k \in 1..Len(stack') : k \in 1..Len(stack)
      BY <3>1 DEF CallerTakes
    <3>3. Gathers(f, errors) /\ f.errors <= Top.errors /\ Top.errors <= errors
      BY <2>3, <3>1, <3>2 DEF CallerTakes, Gathering, Rising
    <3>4. f.errors \in Nat /\ Top.errors \in Nat /\ errors \in Nat
      BY <2>3, <3>1 DEF CallerTakes, Activations, TypeOK
    <3>5. Right(Asks(f), s) /\ Silent(Asks(f), errors = f.errors)
      <4>1. errors = f.errors => errors = Top.errors
        BY <3>3, <3>4
      <4>2. Query(Top) = Asks(f)
        BY <3>1 DEF CallerTakes
      <4> QED
        BY <2>4, <4>1, <4>2 DEF Silent
    <3>6. s \in SUBSET Modules /\ s \subseteq Offered(Asks(f)) /\ ident \in Names
      BY <2>1, <3>1 DEF TopReturns, CallerTakes
    <3>7. Gathers(Took(f, s), errors')
      <4>1. f.errors <= errors
        BY <3>3, <3>4
      <4> QED
        BY <3>1, <3>3, <3>5, <3>6, <4>1, TookGathers DEF CallerTakes
    <3>8. errors' \in Nat /\ errors <= errors'
      BY <3>1, <3>4 DEF CallerTakes
    <3>9. ASSUME NEW k \in 1..Len(stack') PROVE Gathers(stack[k], errors)'
      <4>1. CASE k = n
        BY <2>2, <3>1, <3>7, <4>1, SameGathers DEF CallerTakes
      <4>2. CASE k # n
        <5>1. stack'[k] = stack[k] /\ k \in 1..Len(stack)
          BY <3>1, <3>2, <4>2 DEF CallerTakes
        <5>2. Gathers(stack[k], errors)'
          BY <2>2, <2>3, <3>8, <5>1, OthersGather
        <5> QED
          BY <5>2
      <4> QED
        BY <4>1, <4>2
    <3> QED
      BY <2>5, <3>9 DEF Gathering
  <2> QED
    BY <2>6, <2>7
<1>12. CASE UNCHANGED vars
  <2>1. UNCHANGED <<graph, cache, stack, ident, errors, changes>>
    BY <1>12 DEF vars, graph
  <2>2. CASE changes = 0
    <3>1. CycleFree => Gathering'
      BY <2>1, <2>2, SameGathers DEF AcyclicInv, Gathering
    <3> QED
      BY <1>3, <2>1, <2>2, <3>1
  <2> QED
    BY <1>1, <2>1, <2>2
<1> QED
  BY <1>1, <1>2, <1>5, <1>6, <1>8, <1>9, <1>10, <1>11, <1>12
  DEF Next, Step, Ask, AskedAnswered, Enter, FoundInLocals, NotInLocals, SkipImport,
      ImportAnswered, SearchImport, ImportsSearched, Return, SymtabInsert, ImportScope, ClearCache

(* The first question is asked of empty caches; answers are remembered     *)
(* only within its own search, which may be cut where imports form a cycle.*)
One == changes = 0 /\ questions <= 1

InnerFlags == \A k \in 2..Len(stack) : stack[k].flags = Passed(asked.flags)

(* Once something has been found, an ambiguity only has to be reported; a  *)
(* search that ignores it and meets one has nothing to prove.              *)
Loud == "ignoreAmbiguous" \in asked.flags => ~Ambiguous(asked)
Calm == ~Ambiguous(asked) \/ (NoIgnores(asked.flags) /\ errors = stack[1].errors)
Fruitful == \E k \in 1..Len(stack) : stack[k].found # {}
Collecting == Loud /\ (Calm \/ ~Fruitful)

(* Until then: the modules whose search has ended and been remembered, and *)
(* those that are being searched, are closed under imports, and what the   *)
(* first ones declare is held by some activation.                          *)
Finished == {m \in Modules : cache[m].ident = ident /\ cache[m].flags = Passed(asked.flags)}
Begun == Finished \cup {m \in Modules : insearch[m]}
ScansIn(f, R) == \A i : i < f.i /\ MayAskAt(f, i) => AsksAt(f, i).of \in R
HoldsPrivate(f) ==
  "ignoreVisibility" \in f.flags =>
    \A i : i < f.i /\ MayAskAt(f, i) /\ decl[AsksAt(f, i).of][ident] = "private"
             => AsksAt(f, i).of \in f.found
Closed == \A m \in Finished : decl[m][ident] = "none" => ImportsOf(m, {"public"}) \subseteq Begun
Held ==
  \A m \in Finished :
    decl[m][ident] \in {"public", "overload"} => \E k \in 1..Len(stack) : m \in stack[k].found
Collected ==
  /\ Closed /\ Held
  /\ \A k \in 1..Len(stack) : ScansIn(stack[k], Begun) /\ HoldsPrivate(stack[k])

Empty == \A m \in Modules : cache[m].ident = NoName
Idle ==
  /\ asked # NoQuestion => questions # 0
  /\ questions = 0 \/ (asked # NoQuestion /\ stack = <<>>) => Empty
OnceInv ==
  One =>
    /\ Idle
    /\ stack # <<>> =>
         /\ InnerFlags
         /\ Loud /\ errors # stack[1].errors => Fruitful
         /\ Collecting => Collected

(* Every activation has the flags of the question, or those it passes on.  *)
LEMMA FlagsFromAsked ==
  ASSUME SearchTyped, CallInv, InnerFlags, NEW k \in 1..Len(stack)
  PROVE  /\ Passed(stack[k].flags) = Passed(asked.flags)
         /\ "ignoreAmbiguous" \in stack[k].flags <=> "ignoreAmbiguous" \in asked.flags
         /\ NoIgnores(stack[k].flags) <=> NoIgnores(asked.flags)
         /\ k # 1 => "ignoreVisibility" \notin stack[k].flags
<1>1. Len(stack) \in Nat
  BY LenProperties DEF SearchTyped, TypeOK
<1>2. CASE k = 1
  <2>1. stack[k].flags = Effective(asked.flags)
    BY <1>1, <1>2, EmptySeq DEF CallInv, First
  <2> QED
    BY <1>2, <2>1 DEF Effective, Passed, NoIgnores
<1>3. CASE k # 1
  <2>1. k \in 2..Len(stack)
    BY <1>3
  <2>2. stack[k].flags = Passed(asked.flags)
    BY <2>1 DEF InnerFlags
  <2> QED
    BY <2>2 DEF Passed, NoIgnores
<1> QED
  BY <1>2, <1>3

(* An ambiguity anywhere is one of what was asked.                         *)
LEMMA AmbiguousAsked ==
  ASSUME SearchTyped, CallInv, ChainInv, NEW k \in 1..Len(stack), Ambiguous(Query(stack[k]))
  PROVE  Ambiguous(asked)
<1> USE DEF SearchTyped
<1>1. Len(stack) \in Nat \ {0} /\ stack # <<>> /\ stack \in Seq(Activations)
  BY LenProperties, EmptySeq DEF TypeOK, Activations
<1>2. stack[k] \in Activations /\ stack[1] \in Activations /\ 1 \in 1..Len(stack)
  BY <1>1, ElementOfSeq
<1>3. /\ Query(stack[k]).of \in Modules /\ Query(stack[k]).ident = ident
      /\ Query(stack[1]).of \in Modules /\ Query(stack[1]).ident = ident
      /\ Query(stack[k]).of = stack[k].mod
  BY <1>2 DEF Query, Activations
<1>4. Lacks(stack[k])
  BY <1>3, LocalOffer DEF Lacks
<1>5. Ambiguous(Query(stack[1]))
  <2>1. CASE k = 1
    BY <2>1
  <2>2. CASE k # 1
    <3>1. 1 < k
      BY <1>1, <2>2
    <3>2. Offered(Query(stack[k])) \subseteq Offered(Query(stack[1]))
      BY <1>2, <1>4, <3>1 DEF ChainInv, Nested
    <3> QED
      BY <1>3, <3>2, AmbiguousAbove
  <2> QED
    BY <2>1, <2>2
<1>6. Query(stack[1]) = [of |-> asked.of, ident |-> ident, flags |-> Effective(asked.flags)]
  BY <1>1 DEF CallInv, First, Query
<1> QED
  BY <1>1, <1>5, <1>6, Searching, AskedQuery

(* While there is something to prove no error is reported.                 *)
LEMMA NoErrorYet ==
  ASSUME SearchTyped, CallInv, ChainInv, SoundInv, PlainInv, OnceInv, One, stack # <<>>, Collecting,
         NEW k \in 1..Len(stack)
  PROVE  stack[k].errors = errors
<1> USE DEF SearchTyped
<1> SUFFICES ASSUME stack[k].errors # errors PROVE FALSE
  OBVIOUS
<1>1. Len(stack) \in Nat \ {0} /\ stack \in Seq(Activations)
  BY NonEmpty
<1>2. stack[k] \in Activations /\ stack[1] \in Activations /\ 1 \in 1..Len(stack) /\ 1 <= k
  BY <1>1, ElementOfSeq
<1>3. Ambiguous(asked)
  BY AmbiguousAsked DEF One, SoundInv, Blamed
<1>4. stack[1].errors <= stack[k].errors /\ stack[k].errors <= errors
  BY <1>2 DEF One, PlainInv, Rising
<1>5. errors # stack[1].errors
  BY <1>2, <1>4 DEF Activations, TypeOK
<1>6. ~Calm /\ Fruitful
  BY <1>3, <1>5 DEF Calm, OnceInv, Collecting
<1> QED
  BY <1>6 DEF Collecting

(* A conflict is an ambiguity.                                             *)
LEMMA TookConflict ==
  ASSUME SearchTyped, CallInv, ChainInv, InnerFlags, ident \in Names, Loud, NEW k \in 1..Len(stack),
         NEW f \in Activations, f = stack[k], MayAsk(f), Lacks(f), NEW s \in SUBSET Modules,
         s \subseteq Offered(Asks(f)), f.found \subseteq Offered(Query(f)), Conflict(f, s)
  PROVE  /\ Took(f, s).found = f.found /\ f.found # {} /\ Ambiguous(asked)
         /\ NoIgnores(asked.flags) => MultiplyDefined(f, s)
<1>1. Ambiguous(asked)
  BY ConflictAmbiguous, AmbiguousAsked DEF SearchTyped
<1>2. "ignoreAmbiguous" \notin f.flags
  BY <1>1, FlagsFromAsked DEF Loud
<1>3. Took(f, s).found = f.found /\ f.found # {}
  BY <1>2, TookFields
<1>4. NoIgnores(asked.flags) => MultiplyDefined(f, s)
  BY FlagsFromAsked DEF NoIgnores, MultiplyDefined
<1> QED
  BY <1>1, <1>3, <1>4

(* An activation that moves on has scanned one import more.                *)
LEMMA NextScans ==
  ASSUME NEW f \in Activations, NEW g, NEW R, g.mod = f.mod, g.flags = f.flags, g.i = f.i + 1,
         ScansIn(f, R), MayAsk(f) => Asks(f).of \in R
  PROVE  ScansIn(g, R)
<1> SUFFICES ASSUME NEW i, i < g.i, MayAskAt(g, i) PROVE AsksAt(g, i).of \in R
  BY DEF ScansIn
<1>1. i \in Int /\ MayAskAt(f, i) /\ AsksAt(g, i).of = AsksAt(f, i).of
  BY DEF MayAskAt, AsksAt, Skipped
<1>2. CASE i < f.i
  BY <1>1, <1>2 DEF ScansIn
<1>3. CASE i = f.i
  BY <1>1, <1>3 DEF MayAskAt, MayAsk, AsksAt, Asks
<1> QED
  BY <1>1, <1>2, <1>3 DEF Activations

(* The private symbol of an import, which only the module itself may see.  *)
TakesPrivate(f, S) ==
  MayAsk(f) /\ "ignoreVisibility" \in f.flags /\ decl[Asks(f).of][ident] = "private"
    => Asks(f).of \in S

(* It holds what the imports it has scanned declare privately.             *)
LEMMA NextHolds ==
  ASSUME NEW f \in Activations, NEW g, g.mod = f.mod, g.flags = f.flags, g.i = f.i + 1,
         f.found \subseteq g.found, HoldsPrivate(f), TakesPrivate(f, g.found)
  PROVE  HoldsPrivate(g)
<1> SUFFICES ASSUME "ignoreVisibility" \in g.flags,
                    NEW i, i < g.i, MayAskAt(g, i), decl[AsksAt(g, i).of][ident] = "private"
             PROVE  AsksAt(g, i).of \in g.found
  BY DEF HoldsPrivate
<1>1. i \in Int /\ MayAskAt(f, i) /\ AsksAt(g, i).of = AsksAt(f, i).of
  BY DEF MayAskAt, AsksAt, Skipped
<1>2. CASE i < f.i
  BY <1>1, <1>2 DEF HoldsPrivate
<1>3. CASE i = f.i
  <2>1. MayAsk(f) /\ Asks(f).of = AsksAt(f, i).of
    BY <1>1, <1>3 DEF MayAskAt, MayAsk, AsksAt, Asks
  <2> QED
    BY <1>1, <2>1 DEF TakesPrivate
<1> QED
  BY <1>1, <1>2, <1>3 DEF Activations

LEMMA SameCollected ==
  ASSUME graph' = graph, ident' = ident, asked' = asked
  PROVE  /\ \A f, R : ScansIn(f, R)' <=> ScansIn(f, R)
         /\ \A f : HoldsPrivate(f)' <=> HoldsPrivate(f)
         /\ \A m, prots : ImportsOf(m, prots)' = ImportsOf(m, prots)
         /\ decl' = decl
<1>1. imports' = imports /\ decl' = decl
  BY DEF graph
<1>2. \A f, R : ScansIn(f, R)' <=> ScansIn(f, R)
  BY <1>1 DEF ScansIn, MayAskAt, AsksAt, Skipped
<1>3. \A f : HoldsPrivate(f)' <=> HoldsPrivate(f)
  BY <1>1 DEF HoldsPrivate, MayAskAt, AsksAt, Skipped
<1>4. \A m, prots : ImportsOf(m, prots)' = ImportsOf(m, prots)
  BY <1>1 DEF ImportsOf
<1> QED
  BY <1>1, <1>2, <1>3, <1>4

(* Whether something is to be shown depends on errors and finds alone.     *)
LEMMA SameLoud ==
  ASSUME graph' = graph, asked' = asked
  PROVE  (Ambiguous(asked)' <=> Ambiguous(asked)) /\ (Loud' <=> Loud)
<1>1. \A q : Ambiguous(q)' <=> Ambiguous(q)
  BY SameGraph
<1>2. Ambiguous(asked)' <=> Ambiguous(asked)
  BY <1>1
<1> QED
  BY <1>2 DEF Loud

(* What is collected stays collected as long as there is something to      *)
(* collect.                                                                *)
LEMMA CollectsBefore ==
  ASSUME SearchTyped, PlainInv, OnceInv, One, graph' = graph, UNCHANGED <<ident, asked>>,
         stack # <<>>, stack' # <<>>, stack'[1].errors = stack[1].errors,
         errors' \in Nat, errors <= errors',
         Loud /\ Fruitful => Fruitful', Loud /\ errors' # errors => Fruitful'
  PROVE  /\ Loud' /\ errors' # stack'[1].errors => Fruitful'
         /\ Collecting' => Collecting
<1>1. stack[1] \in Activations /\ 1 \in 1..Len(stack) /\ 1 <= 1
  BY NonEmpty, ElementOfSeq DEF SearchTyped
<1>2. stack[1].errors <= errors /\ stack[1].errors \in Nat /\ errors \in Nat
  <2>1. stack[1].errors <= errors
    BY <1>1 DEF One, PlainInv, Rising
  <2> QED
    BY <1>1, <2>1 DEF Activations, SearchTyped, TypeOK
<1>3. Loud /\ errors # stack[1].errors => Fruitful
  BY DEF OnceInv
<1>4. (Loud' <=> Loud) /\ (Ambiguous(asked)' <=> Ambiguous(asked))
  <2>1. ident' = ident /\ asked' = asked
    OBVIOUS
  <2> QED
    BY <2>1, SameLoud
<1>5. Calm' => Calm
  BY <1>2, <1>4 DEF Calm
<1> QED
  BY <1>3, <1>4, <1>5 DEF Collecting

(* A search goes on: the activation n, which becomes the last one, has     *)
(* moved past the import that it stood on to become g, or has met a        *)
(* conflict.                                                               *)
Stops(g, e) ==
  g.found # {} /\ Ambiguous(asked) /\ (NoIgnores(asked.flags) => e # errors)
GoesOn(n, g, e) ==
  /\ e = errors /\ g.i = stack[n].i + 1 /\ TakesPrivate(stack[n], g.found)
  /\ \A k \in n..Len(stack) : stack[k].found \subseteq g.found
  /\ \A m \in Finished' \ Finished : decl[m][ident] \in {"public", "overload"} => m \in g.found
Moves(n, g) ==
  /\ n \in 1..Len(stack) /\ Len(stack') = n /\ g \in Activations
  /\ stack'[n] = g /\ \A k \in 1..n : k # n => stack'[k] = stack[k]
  /\ g.mod = stack[n].mod /\ g.flags = stack[n].flags /\ g.errors = stack[n].errors
  /\ errors' \in Nat /\ errors <= errors' /\ graph' = graph
  /\ UNCHANGED <<ident, asked, questions, changes>>

(* Nothing that was collected is lost when a search goes on.               *)
LEMMA MovesOn ==
  ASSUME SearchTyped, CallInv, ChainInv, SoundInv, PlainInv, OnceInv, One, stack # <<>>,
         NEW n, NEW g, Moves(n, g),
         Loud => Stops(g, errors') \/ GoesOn(n, g, errors')
  PROVE  /\ Loud' /\ errors' # stack'[1].errors => Fruitful'
         /\ Collecting' => Collecting /\ GoesOn(n, g, errors')
<1>1. /\ Len(stack) \in Nat \ {0} /\ n \in Nat /\ n \in 1..n /\ 1 \in 1..n /\ n <= Len(stack)
      /\ stack' # <<>> /\ n \in 1..Len(stack') /\ 1 \in 1..Len(stack)
  <2>1. Len(stack) \in Nat \ {0} /\ n \in 1..Len(stack) /\ Len(stack') = n
    BY NonEmpty DEF SearchTyped, Moves
  <2>2. stack' = <<>> => Len(stack') = 0
    BY EmptySeq
  <2> QED
    BY <2>1, <2>2
<1>2. stack'[1].errors = stack[1].errors
  BY <1>1 DEF Moves
<1>3. Loud /\ Fruitful => Fruitful'
  <2> SUFFICES ASSUME Loud, NEW k \in 1..Len(stack), stack[k].found # {} PROVE Fruitful'
    BY DEF Fruitful
  <2>1. CASE Stops(g, errors')
    BY <1>1, <2>1 DEF Stops, Moves, Fruitful
  <2>2. CASE GoesOn(n, g, errors')
    <3>1. CASE k < n
      <4>1. k \in 1..Len(stack') /\ stack'[k] = stack[k]
        BY <1>1, <3>1 DEF Moves
      <4> QED
        BY <4>1 DEF Fruitful
    <3>2. CASE n <= k
      <4>1. k \in n..Len(stack)
        BY <1>1, <3>2
      <4> QED
        BY <1>1, <2>2, <4>1 DEF GoesOn, Moves, Fruitful
    <3> QED
      BY <1>1, <3>1, <3>2
  <2> QED
    BY <2>1, <2>2
<1>4. Loud /\ errors' # errors => Fruitful'
  BY <1>1 DEF GoesOn, Stops, Moves, Fruitful
<1>5. /\ Loud' /\ errors' # stack'[1].errors => Fruitful'
      /\ Collecting' => Collecting
  BY <1>1, <1>2, <1>3, <1>4, CollectsBefore DEF Moves
<1>6. (Loud' <=> Loud) /\ (Ambiguous(asked)' <=> Ambiguous(asked)) /\ asked' = asked
  <2>1. graph' = graph /\ ident' = ident /\ asked' = asked
    BY DEF Moves
  <2> QED
    BY <2>1, SameLoud
<1>7. ASSUME Collecting', Stops(g, errors') PROVE FALSE
  <2>1. Fruitful'
    BY <1>1, <1>7 DEF Stops, Moves, Fruitful
  <2>2. NoIgnores(asked.flags) /\ errors' = stack[1].errors /\ errors' # errors
    BY <1>2, <1>6, <1>7, <2>1 DEF Collecting, Calm, Stops
  <2>3. stack[1].errors = errors
    BY <1>1, <1>5, <1>7, NoErrorYet
  <2> QED
    BY <2>2, <2>3
<1> QED
  BY <1>5, <1>6, <1>7 DEF Collecting

(* So the invariant is kept when a search goes on.                         *)
LEMMA MovesOnce ==
  ASSUME SearchTyped, CallInv, ChainInv, SoundInv, PlainInv, OnceInv, One, stack # <<>>,
         NEW n, NEW g, Moves(n, g),
         Loud => Stops(g, errors') \/ GoesOn(n, g, errors'),
         Collecting =>
           /\ Begun \subseteq Begun'
           /\ MayAsk(stack[n]) => Asks(stack[n]).of \in Begun'
           /\ \A m \in Finished' \ Finished :
                decl[m][ident] = "none" => ImportsOf(m, {"public"}) \subseteq Begun',
         questions = 0 => cache' = cache
  PROVE  OnceInv'
<1>1. /\ Len(stack) \in Nat \ {0} /\ n \in Nat /\ n \in 1..n /\ n <= Len(stack) /\ stack' # <<>>
      /\ Len(stack') = n /\ stack \in Seq(Activations) /\ \A k \in 1..n : k \in 1..Len(stack)
  <2>1. /\ Len(stack) \in Nat \ {0} /\ n \in 1..Len(stack) /\ Len(stack') = n
        /\ stack \in Seq(Activations)
    BY NonEmpty DEF SearchTyped, Moves
  <2>2. stack' = <<>> => Len(stack') = 0
    BY EmptySeq
  <2> QED
    BY <2>1, <2>2
<1>2. /\ Loud' /\ errors' # stack'[1].errors => Fruitful'
      /\ Collecting' => Collecting /\ GoesOn(n, g, errors')
  BY MovesOn
<1>3. /\ \A f, R : ScansIn(f, R)' <=> ScansIn(f, R)
      /\ \A f : HoldsPrivate(f)' <=> HoldsPrivate(f)
      /\ \A m, prots : ImportsOf(m, prots)' = ImportsOf(m, prots)
      /\ decl' = decl /\ ident' = ident
  <2>1. graph' = graph /\ ident' = ident /\ asked' = asked
    BY DEF Moves
  <2> QED
    BY <2>1, SameCollected
<1>4. InnerFlags'
  <2> SUFFICES ASSUME NEW k \in 2..Len(stack') PROVE stack'[k].flags = Passed(asked.flags)
    BY DEF InnerFlags, Moves
  <2>1. k \in 2..Len(stack) /\ k \in 1..n
    BY <1>1
  <2> QED
    BY <2>1 DEF OnceInv, InnerFlags, Moves
<1>5. Idle'
  BY <1>1 DEF OnceInv, Idle, Empty, Moves
<1>6. ASSUME Collecting' PROVE Collected'
  <2>1. /\ Collecting /\ Loud /\ GoesOn(n, g, errors') /\ Begun \subseteq Begun' /\ Collected
        /\ MayAsk(stack[n]) => Asks(stack[n]).of \in Begun'
    BY <1>2, <1>6 DEF Collecting, OnceInv
  <2>2. Closed'
    <3> SUFFICES ASSUME NEW m \in Finished', decl[m][ident] = "none"
                 PROVE  ImportsOf(m, {"public"}) \subseteq Begun'
      BY <1>3 DEF Closed
    <3>1. CASE m \in Finished
      BY <2>1, <3>1 DEF Collected, Closed
    <3>2. CASE m \notin Finished
      BY <2>1, <3>2
    <3> QED
      BY <3>1, <3>2
  <2>3. Held'
    <3> SUFFICES ASSUME NEW m \in Finished', decl[m][ident] \in {"public", "overload"}
                 PROVE  \E k \in 1..n : m \in stack'[k].found
      BY <1>1, <1>3 DEF Held
    <3>1. CASE m \notin Finished
      BY <1>1, <2>1, <3>1 DEF Moves, GoesOn
    <3>2. CASE m \in Finished
      <4>1. PICK k \in 1..Len(stack) : m \in stack[k].found
        BY <2>1, <3>2 DEF Collected, Held
      <4>2. CASE k < n
        <5>1. k \in 1..n /\ stack'[k] = stack[k]
          BY <1>1, <4>2 DEF Moves
        <5> QED
          BY <4>1, <5>1
      <4>3. CASE n <= k
        <5>1. k \in n..Len(stack)
          BY <1>1, <4>3
        <5>2. m \in g.found
          BY <2>1, <4>1, <5>1 DEF GoesOn
        <5> QED
          BY <1>1, <5>2 DEF Moves
      <4> QED
        BY <1>1, <4>2, <4>3
    <3> QED
      BY <3>1, <3>2
  <2>4. ASSUME NEW k \in 1..n PROVE ScansIn(stack'[k], Begun') /\ HoldsPrivate(stack'[k])
    <3>1. /\ stack[k] \in Activations /\ ScansIn(stack[k], Begun') /\ HoldsPrivate(stack[k])
      <4>1. k \in 1..Len(stack)
        BY <1>1
      <4>2. ScansIn(stack[k], Begun) /\ HoldsPrivate(stack[k])
        BY <2>1, <4>1 DEF Collected
      <4> QED
        BY <1>1, <2>1, <4>1, <4>2, ElementOfSeq DEF ScansIn
    <3>2. CASE k # n
      BY <3>1, <3>2 DEF Moves
    <3>3. CASE k = n
      <4>1. /\ g.mod = stack[n].mod /\ g.flags = stack[n].flags /\ g.i = stack[n].i + 1
            /\ stack[n].found \subseteq g.found /\ TakesPrivate(stack[n], g.found) /\ stack'[k] = g
        BY <1>1, <2>1, <3>3 DEF GoesOn, Moves
      <4>2. ScansIn(g, Begun')
        BY <2>1, <3>1, <3>3, <4>1, NextScans
      <4>3. HoldsPrivate(g)
        BY <3>1, <3>3, <4>1, NextHolds
      <4> QED
        BY <4>1, <4>2, <4>3
    <3> QED
      BY <3>2, <3>3
  <2> QED
    BY <1>1, <1>3, <2>2, <2>3, <2>4 DEF Collected
<1> QED
  BY <1>1, <1>2, <1>4, <1>5, <1>6 DEF OnceInv

(* It is kept when a search of an import begins,                           *)
LEMMA PushesOnce ==
  ASSUME SearchTyped, CallInv, PlainInv, OnceInv, One, asked # NoQuestion, NEW g, TopPushes(g), CallInv'
  PROVE  OnceInv'
<1> USE DEF SearchTyped
<1> DEFINE n == Len(stack)
<1>1. /\ n \in Nat /\ Len(stack') = n + 1 /\ stack'[n + 1] = g /\ g \in Activations /\ g.i = 0
      /\ g.found = {} /\ g.errors = errors /\ insearch' = [insearch EXCEPT ![g.mod] = TRUE]
      /\ \A k \in 1..n : stack'[k] = stack[k]
      /\ UNCHANGED <<graph, cache, errors, ident, asked, answered, questions, changes>>
      /\ stack \in Seq(Activations) /\ errors \in Nat
  BY LenProperties DEF TopPushes, TypeOK, Activations
<1>2. stack # <<>> => 1 \in 1..n
  BY NonEmpty
<1>3. stack' # <<>>
  BY <1>1, EmptySeq
<1>4. stack = <<>> => n = 0
  BY EmptySeq
<1>5. ident \in Names /\ ident # NoName
  BY AskedTyped, SearchAssumption DEF Answering
<1> HIDE DEF n
<1>6. \A k \in 1..Len(stack') : k \in 1..n \/ k = n + 1
  BY <1>1
<1>7. /\ \A f, R : ScansIn(f, R)' <=> ScansIn(f, R)
      /\ \A f : HoldsPrivate(f)' <=> HoldsPrivate(f)
      /\ \A m, prots : ImportsOf(m, prots)' = ImportsOf(m, prots)
      /\ decl' = decl
  <2>1. graph' = graph /\ ident' = ident /\ asked' = asked
    BY <1>1
  <2> QED
    BY <2>1, SameCollected
<1>8. stack = <<>> => Finished = {}
  BY <1>1, <1>5 DEF OnceInv, Idle, Empty, Finished
<1>9. /\ Loud' /\ errors' # stack'[1].errors => Fruitful'
      /\ Collecting' /\ stack # <<>> => Collecting
  <2>1. CASE stack = <<>>
    BY <1>1, <1>4, <2>1
  <2>2. CASE stack # <<>>
    <3>1. stack'[1].errors = stack[1].errors
      BY <1>1, <1>2, <2>2
    <3>2. Fruitful => Fruitful'
      <4> SUFFICES ASSUME NEW k \in 1..Len(stack), stack[k].found # {} PROVE Fruitful'
        BY DEF Fruitful
      <4>1. k \in 1..Len(stack') /\ stack'[k] = stack[k]
        BY <1>1 DEF n
      <4> QED
        BY <4>1 DEF Fruitful
    <3>3. errors' \in Nat /\ errors <= errors' /\ graph' = graph /\ UNCHANGED <<ident, asked>>
      BY <1>1
    <3> QED
      BY <1>1, <1>3, <2>2, <3>1, <3>2, <3>3, CollectsBefore
  <2> QED
    BY <2>1, <2>2
<1>10. InnerFlags'
  <2> SUFFICES ASSUME NEW k \in 2..Len(stack') PROVE stack'[k].flags = Passed(asked.flags)
    BY <1>1 DEF InnerFlags
  <2>1. k \in 1..n \/ k = n + 1
    BY <1>6
  <2>2. stack # <<>>
    BY <1>1, <1>4
  <2>3. InnerFlags
    BY <2>2 DEF OnceInv
  <2>4. CASE k \in 1..n
    BY <1>1, <2>3, <2>4 DEF InnerFlags, n
  <2>5. CASE k = n + 1
    <3>1. n \in 1..n /\ k - 1 = n /\ n \in 1..Len(stack)
      BY <1>1, <2>5 DEF n
    <3>2. stack'[k].flags = Passed(stack'[k - 1].flags)
      BY DEF CallInv, Called, CalledFor
    <3>3. stack'[k - 1] = stack[n]
      BY <1>1, <3>1
    <3> QED
      BY <2>3, <3>1, <3>2, <3>3, FlagsFromAsked
  <2> QED
    BY <2>1, <2>4, <2>5
<1>11. Idle'
  BY <1>1, <1>3 DEF OnceInv, Idle, Empty
<1>12. ASSUME Collecting' PROVE Collected'
  <2>1. Closed /\ Held /\ \A k \in 1..n : ScansIn(stack[k], Begun) /\ HoldsPrivate(stack[k])
    <3>1. CASE stack = <<>>
      BY <1>4, <1>8, <3>1 DEF Closed, Held
    <3>2. CASE stack # <<>>
      BY <1>9, <1>12, <3>2 DEF OnceInv, Collected, n
    <3> QED
      BY <3>1, <3>2
  <2>2. Finished' = Finished /\ Begun \subseteq Begun'
    <3>1. Finished' = Finished
      BY <1>1 DEF Finished
    <3>2. \A m \in Modules : insearch[m] => insearch'[m]
      BY <1>1 DEF TypeOK
    <3> QED
      BY <3>1, <3>2 DEF Begun
  <2>3. Closed'
    BY <1>1, <1>7, <2>1, <2>2 DEF Closed
  <2>4. Held'
    <3> SUFFICES ASSUME NEW m \in Finished, decl[m][ident] \in {"public", "overload"}
                 PROVE  \E k \in 1..Len(stack') : m \in stack'[k].found
      BY <1>1, <1>7, <2>2 DEF Held
    <3>1. PICK k \in 1..n : m \in stack[k].found
      BY <2>1 DEF Held, n
    <3>2. k \in 1..Len(stack') /\ stack'[k] = stack[k]
      BY <1>1
    <3> QED
      BY <3>1, <3>2
  <2>5. ASSUME NEW k \in 1..Len(stack') PROVE ScansIn(stack'[k], Begun') /\ HoldsPrivate(stack'[k])
    <3>1. CASE k \in 1..n
      BY <1>1, <2>1, <2>2, <3>1 DEF ScansIn
    <3>2. CASE k = n + 1
      <4>1. \A i : i < g.i => ~MayAskAt(g, i)
        BY <1>1 DEF MayAskAt
      <4> QED
        BY <1>1, <3>2, <4>1 DEF ScansIn, HoldsPrivate
    <3> QED
      BY <1>6, <3>1, <3>2
  <2> QED
    BY <1>7, <2>3, <2>4, <2>5 DEF Collected
<1> QED
  BY <1>9, <1>10, <1>11, <1>12 DEF OnceInv

(* A step of the top activation.                                           *)
LEMMA TopMoves ==
  ASSUME SearchTyped, stack # <<>>, NEW g \in Activations, stack' = WithTop(g),
         g.mod = Top.mod, g.flags = Top.flags, g.errors = Top.errors,
         errors' \in Nat, errors <= errors', UNCHANGED <<graph, ident, asked, questions, changes>>
  PROVE  Moves(Len(stack), g) /\ Top = stack[Len(stack)]
BY NonEmpty, TopStepStack DEF Moves, SearchTyped

(* when an import is passed over,                                          *)
LEMMA AdvancesOnce ==
  ASSUME SearchTyped, CallInv, ChainInv, SoundInv, PlainInv, OnceInv, One, NEW g, TopAdvances(g)
  PROVE  OnceInv'
<1> USE DEF SearchTyped
<1> DEFINE n == Len(stack)
<1>1. /\ stack # <<>> /\ g \in Activations /\ stack' = WithTop(g)
      /\ g.mod = Top.mod /\ g.flags = Top.flags /\ g.errors = Top.errors /\ g.found = Top.found
      /\ g.i = Top.i + 1 /\ ~MayAsk(Top)
      /\ UNCHANGED <<graph, insearch, cache, errors, ident, asked, questions, changes>>
      /\ errors' \in Nat /\ errors <= errors'
  BY DEF TopAdvances, TypeOK
<1>2. Moves(n, g) /\ Top = stack[n]
  BY <1>1, TopMoves
<1>3. n \in Nat /\ \A k \in n..n : k = n
  BY <1>1, NonEmpty
<1>4. Finished' = Finished /\ Begun' = Begun
  BY <1>1 DEF Finished, Begun
<1>5. GoesOn(n, g, errors')
  BY <1>1, <1>2, <1>3, <1>4 DEF GoesOn, TakesPrivate
<1>6. ~MayAsk(stack[n])
  BY <1>1, <1>2
<1> HIDE DEF n
<1> QED
  BY <1>1, <1>2, <1>4, <1>5, <1>6, MovesOnce

(* It meets a conflict, or takes what it can see.                          *)
TakesIn(f, s, g, e) ==
  /\ e = errors /\ g.i = f.i + 1 /\ f.found \subseteq g.found
  /\ ~Unseen(f, s) => s \subseteq g.found

(* Taking an answer is meeting a conflict, or finding what is visible in   *)
(* it.                                                                     *)
LEMMA StopsOrTakes ==
  ASSUME SearchTyped, CallInv, ChainInv, InnerFlags, ident \in Names, Loud, NEW k \in 1..Len(stack),
         NEW f \in Activations, f = stack[k], MayAsk(f), Lacks(f), NEW s \in SUBSET Modules,
         s \subseteq Offered(Asks(f)), f.found \subseteq Offered(Query(f)),
         NEW e, e = errors + (IF MultiplyDefined(f, s) THEN 1 ELSE 0), NEW g, g = Took(f, s)
  PROVE  Stops(g, e) \/ TakesIn(f, s, g, e)
<1> errors \in Nat
  BY DEF SearchTyped, TypeOK
<1>1. CASE Conflict(f, s)
  <2>1. /\ Took(f, s).found = f.found /\ f.found # {} /\ Ambiguous(asked)
        /\ NoIgnores(asked.flags) => MultiplyDefined(f, s)
    BY <1>1, TookConflict
  <2>2. MultiplyDefined(f, s) => e = errors + 1
    OBVIOUS
  <2>3. NoIgnores(asked.flags) => e # errors
    BY <2>1, <2>2
  <2> QED
    BY <2>1, <2>3 DEF Stops
<1>2. CASE ~Conflict(f, s)
  <2>1. ~MultiplyDefined(f, s)
    BY <1>2 DEF MultiplyDefined
  <2>2. e = errors
    BY <2>1
  <2>3. /\ Took(f, s).i = f.i + 1
        /\ Took(f, s).found = IF Unseen(f, s) THEN f.found ELSE f.found \cup s
    BY <1>2, TookFields
  <2>4. f.found \subseteq Took(f, s).found /\ (~Unseen(f, s) => s \subseteq Took(f, s).found)
    BY <2>3
  <2> QED
    BY <2>2, <2>3, <2>4 DEF TakesIn
<1> QED
  BY <1>1, <1>2

(* Taking an answer changes no flags.                                      *)
LEMMA TookSame ==
  ASSUME NEW f \in Activations, NEW s, NEW g, g = Took(f, s)
  PROVE  g.mod = f.mod /\ g.flags = f.flags /\ g.errors = f.errors
BY TookFields

(* The invariant is kept when an answer is taken at once,                  *)
LEMMA TakesOnce ==
  ASSUME SearchTyped, MarkedIffActive, CallInv, ChainInv, SoundInv, PlainInv, OnceInv, One,
         NEW s, TopTakes(s)
  PROVE  OnceInv'
<1> USE DEF SearchTyped
<1> DEFINE n == Len(stack)
           m == Asks(Top).of
<1> SUFFICES ASSUME NEW g, g = Took(Top, s) PROVE OnceInv'
  OBVIOUS
<1>1. /\ stack # <<>> /\ Top \in Activations /\ MayAsk(Top) /\ Lacks(Top) /\ ident \in Names
      /\ s \in SUBSET Modules /\ s \subseteq Offered(Asks(Top)) /\ Top.found \subseteq Offered(Query(Top))
      /\ Immediate(m, Asks(Top).flags) /\ s = ImmediateAnswer(m)
      /\ g \in Activations /\ stack' = WithTop(g)
      /\ errors' = errors + (IF MultiplyDefined(Top, s) THEN 1 ELSE 0)
      /\ UNCHANGED <<graph, insearch, cache, ident, asked, questions, changes>>
  BY DEF TopTakes
<1>2. /\ g.mod = Top.mod /\ g.flags = Top.flags /\ g.errors = Top.errors
      /\ errors' \in Nat /\ errors <= errors'
  <2>1. errors \in Nat /\ (errors' = errors \/ errors' = errors + 1)
    BY <1>1 DEF TypeOK
  <2>2. errors' \in Nat /\ errors <= errors'
    BY <2>1
  <2> QED
    BY <1>1, <2>2, TookSame
<1>3. Moves(n, g) /\ Top = stack[n]
  BY <1>1, <1>2, TopMoves
<1>4. n \in Nat /\ n \in 1..n /\ (\A k \in n..n : k = n) /\ (n = 1 => \A k \in 1..n : k = 1)
  BY <1>1, NonEmpty
<1>5. InnerFlags
  BY <1>1 DEF OnceInv
<1>6. m \in Modules /\ ident # NoName
  BY <1>1, CalleeScanned, SearchAssumption
<1>7. /\ Passed(Top.flags) = Passed(asked.flags)
      /\ n # 1 => "ignoreVisibility" \notin Top.flags
  BY <1>3, <1>4, <1>5, FlagsFromAsked
<1>8. Hit(m, Asks(Top).flags) => m \in Finished
  <2>1. Effective(Asks(Top).flags) = Passed(Top.flags)
    BY DEF Asks, Passed, Effective
  <2> QED
    BY <1>6, <1>7, <2>1 DEF Hit, Finished
<1>9. Finished' = Finished /\ Begun' = Begun
  BY <1>1 DEF Finished, Begun
<1>10. Asks(stack[n]).of \in Begun'
  BY <1>1, <1>3, <1>6, <1>8, <1>9 DEF Immediate, Begun
<1>11. ASSUME Loud PROVE Stops(g, errors') \/ GoesOn(n, g, errors')
  <2>1. PICK f, k : f = Top /\ k = n
    OBVIOUS
  <2>2. /\ f \in Activations /\ k \in 1..Len(stack) /\ f = stack[k] /\ MayAsk(f) /\ Lacks(f)
        /\ s \in SUBSET Modules /\ s \subseteq Offered(Asks(f)) /\ f.found \subseteq Offered(Query(f))
        /\ errors' = errors + (IF MultiplyDefined(f, s) THEN 1 ELSE 0) /\ g = Took(f, s)
    BY <1>1, <1>3, <1>4, <2>1
  <2>3. Stops(g, errors') \/ TakesIn(f, s, g, errors')
    BY <1>1, <1>5, <1>11, <2>2, StopsOrTakes
  <2>4. CASE TakesIn(f, s, g, errors')
    <3>1. ASSUME "ignoreVisibility" \in Top.flags, decl[m][ident] = "private" PROVE m \in g.found
      <4>1. ~insearch[m]
        <5> SUFFICES ASSUME insearch[m] PROVE FALSE
          OBVIOUS
        <5>1. PICK j \in 1..n : stack[j].mod = m
          BY <1>6 DEF MarkedIffActive
        <5>2. Top.mod = m
          BY <1>3, <1>4, <1>7, <3>1, <5>1
        <5> QED
          BY <1>1, <3>1, <5>2 DEF Lacks
      <4>2. s = cache[m].symbol /\ cache[m].ident = ident
        BY <1>1, <4>1 DEF Immediate, ImmediateAnswer, Hit
      <4>3. s = {m}
        BY <1>6, <3>1, <4>2 DEF One, PlainInv, CachesPlain
      <4>4. ~Unseen(Top, s)
        BY <3>1, <4>3 DEF Unseen, Visible
      <4> QED
        BY <2>1, <2>4, <4>3, <4>4 DEF TakesIn
    <3>2. TakesPrivate(stack[n], g.found)
      BY <1>3, <3>1 DEF TakesPrivate
    <3> QED
      BY <1>3, <1>4, <1>9, <2>1, <2>4, <3>2 DEF GoesOn, TakesIn
  <2> QED
    BY <2>3, <2>4
<1> HIDE DEF n, m
<1> QED
  BY <1>1, <1>3, <1>9, <1>10, <1>11, MovesOnce

(* and when an inner search hands back its answer.                         *)
LEMMA ReturnsOnce ==
  ASSUME SearchTyped, CallInv, ChainInv, SoundInv, PlainInv, OnceInv, One,
         NEW s, TopReturns(s), NEW n, NEW f, CallerTakes(n, f, s)
  PROVE  OnceInv'
<1> USE DEF SearchTyped
<1> SUFFICES ASSUME NEW g, g = Took(f, s) PROVE OnceInv'
  OBVIOUS
<1>1. /\ stack # <<>> /\ Top \in Activations /\ ident \in Names /\ s \in SUBSET Modules
      /\ \/ s = {Top.mod} /\ ~Lacks(Top) /\ Top.i = 0
         \/ s = Top.found /\ Lacks(Top) /\ Top.i > Len(imports[Top.mod])
  BY DEF TopReturns
<1>2. /\ Len(stack) = n + 1 /\ n \in 1..n /\ Top = stack[n + 1] /\ f = stack[n] /\ f \in Activations
      /\ MayAsk(f) /\ Lacks(f) /\ Query(Top) = Asks(f) /\ f.found \subseteq Offered(Query(f))
      /\ Len(stack') = n /\ stack'[n] = g /\ \A k \in 1..n : k # n => stack'[k] = stack[k]
      /\ errors' = errors + (IF MultiplyDefined(f, s) THEN 1 ELSE 0)
      /\ UNCHANGED <<graph, ident, asked, questions, changes>>
  BY DEF CallerTakes
<1>3. s \subseteq Offered(Asks(f))
  BY <1>2 DEF TopReturns
<1>4. /\ g \in Activations /\ g.mod = f.mod /\ g.flags = f.flags /\ g.errors = f.errors
      /\ errors' \in Nat /\ errors <= errors'
  <2>1. errors \in Nat /\ (errors' = errors \/ errors' = errors + 1)
    BY <1>2 DEF TypeOK
  <2>2. errors' \in Nat /\ errors <= errors'
    BY <2>1
  <2>3. g \in Activations
    BY <1>1, <1>2, TookTyped
  <2> QED
    BY <1>2, <2>2, <2>3, TookSame
<1>5. /\ n \in 1..Len(stack) /\ n + 1 \in 1..Len(stack) /\ n + 1 \in 2..Len(stack)
      /\ \A k \in n..Len(stack) : k = n \/ k = n + 1
  BY <1>2
<1>6. Moves(n, g)
  BY <1>2, <1>4, <1>5 DEF Moves
<1>7. InnerFlags /\ Top.flags = Passed(asked.flags)
  BY <1>1, <1>2, <1>5 DEF OnceInv, InnerFlags
<1>8. Asks(f).of = Top.mod /\ Top.mod \in Modules
  BY <1>1, <1>2 DEF Query, Activations
<1>9. /\ insearch' = [insearch EXCEPT ![Top.mod] = FALSE]
      /\ \A m \in Modules : m # Top.mod => cache'[m] = cache[m]
      /\ errors = Top.errors =>
           cache'[Top.mod].ident = ident /\ cache'[Top.mod].flags = Top.flags
  BY ReturnCaches
<1>10. \A m \in Finished' \ Finished : m = Top.mod /\ m \in Modules
  BY <1>2, <1>9 DEF Finished
<1>11. s # {} /\ Unseen(f, s) =>
         "ignoreVisibility" \notin f.flags /\ decl[Top.mod][ident] = "private"
  BY <1>1, <1>2, <1>3, <1>8, HiddenIsLocal
<1>12. ASSUME Loud PROVE Stops(g, errors') \/ GoesOn(n, g, errors')
  <2>1. Stops(g, errors') \/ TakesIn(f, s, g, errors')
    BY <1>1, <1>2, <1>3, <1>5, <1>7, <1>12, StopsOrTakes
  <2>2. CASE TakesIn(f, s, g, errors')
    <3>1. TakesPrivate(stack[n], g.found)
      BY <1>1, <1>2, <1>8, <1>11, <2>2 DEF TakesPrivate, Lacks, TakesIn
    <3>2. Top.found \subseteq g.found
      <4>1. CASE s = {Top.mod} /\ Top.i = 0
        <5>1. Top.found = {}
          BY <1>2, <1>5, <4>1 DEF One, PlainInv, FoundPlain
        <5> QED
          BY <5>1
      <4>2. CASE s = Top.found /\ Lacks(Top)
        BY <1>11, <2>2, <4>2 DEF Lacks, TakesIn
      <4> QED
        BY <1>1, <4>1, <4>2
    <3>3. \A m \in Finished' \ Finished : decl[m][ident] \in {"public", "overload"} => m \in g.found
      <4> SUFFICES ASSUME NEW m \in Finished' \ Finished, decl[m][ident] \in {"public", "overload"}
                   PROVE  m \in g.found
        OBVIOUS
      <4>1. m = Top.mod /\ s = {m}
        BY <1>1, <1>10 DEF Lacks
      <4>2. ~Unseen(f, s)
        BY <1>11, <4>1
      <4> QED
        BY <2>2, <4>1, <4>2 DEF TakesIn
    <3>4. \A k \in n..Len(stack) : stack[k].found \subseteq g.found
      BY <1>2, <1>5, <2>2, <3>2 DEF TakesIn
    <3> QED
      BY <1>2, <2>2, <3>1, <3>3, <3>4 DEF GoesOn, TakesIn
  <2> QED
    BY <2>1, <2>2
<1>13. ASSUME Collecting
       PROVE  /\ Begun \subseteq Begun' /\ Asks(stack[n]).of \in Begun'
              /\ \A m \in Finished' \ Finished :
                   decl[m][ident] = "none" => ImportsOf(m, {"public"}) \subseteq Begun'
  <2>1. errors = Top.errors
    BY <1>1, <1>2, <1>5, <1>13, NoErrorYet
  <2>2. Top.mod \in Finished' /\ Finished \subseteq Finished'
    <3>1. Top.mod \in Finished'
      BY <1>2, <1>7, <1>8, <1>9, <2>1 DEF Finished
    <3> QED
      BY <1>2, <1>9, <3>1 DEF Finished
  <2>3. Begun \subseteq Begun'
    <3>1. \A m \in Modules : insearch[m] => insearch'[m] \/ m = Top.mod
      BY <1>9 DEF TypeOK
    <3> QED
      BY <2>2, <3>1 DEF Begun
  <2>4. Asks(stack[n]).of \in Begun'
    BY <1>2, <1>8, <2>2 DEF Begun
  <2>5. ASSUME NEW m \in Finished' \ Finished, decl[m][ident] = "none",
               NEW x \in ImportsOf(m, {"public"})
        PROVE  x \in Begun'
    <3>1. m = Top.mod /\ Lacks(Top) /\ Top.i > Len(imports[Top.mod])
      BY <1>1, <1>10, <2>5 DEF Lacks
    <3>2. PICK i \in 1..Len(imports[m]) : imports[m][i].mod = x /\ imports[m][i].prot = "public"
      BY <2>5 DEF ImportsOf
    <3>3. MayAskAt(Top, i) /\ AsksAt(Top, i).of = x
      BY <1>7, <3>1, <3>2 DEF MayAskAt, AsksAt, Skipped, Passed
    <3>4. i < Top.i
      BY <1>1, <1>8, <3>1, ScopesTyped DEF Activations
    <3>5. ScansIn(Top, Begun)
      BY <1>1, <1>2, <1>5, <1>13 DEF OnceInv, Collected
    <3> QED
      BY <2>3, <3>3, <3>4, <3>5 DEF ScansIn
  <2> QED
    BY <2>3, <2>4, <2>5
<1>14. questions # 0
  BY <1>1, Searching DEF OnceInv, Idle
<1> QED
  BY <1>1, <1>6, <1>12, <1>13, <1>14, MovesOnce

(* When the outermost search has scanned its imports, everything that is   *)
(* offered has been found.                                                 *)
LEMMA AllCollected ==
  ASSUME SearchTyped, MarkedIffActive, CallInv, Len(stack) = 1, Collected,
         NEW f \in Activations, f = stack[1], Lacks(f), f.i > Len(imports[f.mod])
  PROVE  Offered(Query(f)) \subseteq f.found
<1> USE DEF SearchTyped
<1> DEFINE q == Query(f)
<1>1. q.of = f.mod /\ q.ident = ident /\ q.flags = f.flags /\ f.mod \in Modules
  BY DEF Query, Activations
<1>2. Effective(f.flags) = f.flags
  BY FlagsEffective
<1>3. Closed /\ Held /\ ScansIn(f, Begun) /\ HoldsPrivate(f)
  BY DEF Collected
<1>4. ASSUME NEW i, MayAskAt(f, i) PROVE i < f.i
  BY <1>1, <1>4, ScopesTyped DEF MayAskAt, Activations
<1>5. FirstScopes(q) \subseteq Begun
  <2> SUFFICES ASSUME NEW x \in FirstScopes(q) PROVE x \in Begun
    OBVIOUS
  <2>1. PICK i : MayAskAt(f, i) /\ AsksAt(f, i).of = x
    BY <1>2, ScopeAsked
  <2> QED
    BY <1>3, <1>4, <2>1 DEF ScansIn
<1>6. \A m \in Begun : m \in Finished \/ m = f.mod
  BY DEF MarkedIffActive, Begun
<1>7. Begun \in SUBSET Modules
  BY DEF Begun, Finished
<1> HIDE DEF q
<1>8. CASE "localsOnly" \in f.flags
  <2>1. FirstScopes(q) = {}
    BY <1>1, <1>2, <1>8 DEF FirstScopes
  <2>2. ClosedFor(ident, {})
    BY DEF ClosedFor
  <2>3. Searched(q) = {}
    BY <1>1, <2>1, <2>2 DEF Searched
  <2>4. Offered(q) = {}
    BY <1>1, <2>1, <2>3 DEF Offered, Lacks
  <2> QED
    BY <2>4 DEF q
<1>9. CASE "localsOnly" \notin f.flags
  <2>1. ImportsOf(f.mod, {"public"}) \subseteq Begun
    <3> SUFFICES ASSUME NEW i \in 1..Len(imports[f.mod]), imports[f.mod][i].prot = "public"
                 PROVE  imports[f.mod][i].mod \in Begun
      BY DEF ImportsOf
    <3>1. MayAskAt(f, i) /\ AsksAt(f, i).of = imports[f.mod][i].mod
      BY <1>9 DEF MayAskAt, AsksAt, Skipped
    <3> QED
      BY <1>3, <1>4, <3>1 DEF ScansIn
  <2>2. ClosedFor(ident, Begun)
    BY <1>3, <1>6, <2>1 DEF ClosedFor, Closed
  <2>3. Searched(q) \subseteq Begun
    BY <1>1, <1>5, <1>7, <2>2 DEF Searched
  <2> SUFFICES ASSUME NEW d \in Offered(q) PROVE d \in f.found
    BY DEF q
  <2>4. \/ d \in Searched(q) /\ d # f.mod /\ decl[d][ident] \in {"public", "overload"}
        \/ "ignoreVisibility" \in f.flags /\ d \in FirstScopes(q) /\ decl[d][ident] = "private"
    BY <1>1 DEF Offered, Lacks
  <2>5. CASE d \in Searched(q) /\ d # f.mod /\ decl[d][ident] \in {"public", "overload"}
    <3>1. d \in Finished
      BY <1>6, <2>3, <2>5
    <3>2. PICK k \in 1..Len(stack) : d \in stack[k].found
      BY <1>3, <2>5, <3>1 DEF Held
    <3> QED
      BY <3>2
  <2>6. CASE "ignoreVisibility" \in f.flags /\ d \in FirstScopes(q) /\ decl[d][ident] = "private"
    <3>1. PICK i : MayAskAt(f, i) /\ AsksAt(f, i).of = d
      BY <1>2, <2>6, ScopeAsked DEF q
    <3> QED
      BY <1>3, <1>4, <2>6, <3>1 DEF HoldsPrivate
  <2> QED
    BY <2>4, <2>5, <2>6
<1> QED
  BY <1>8, <1>9

(* What the outermost search of the first question answers is right.       *)
LEMMA ReturnsRightOnce ==
  ASSUME SearchTyped, MarkedIffActive, CallInv, ChainInv, PlainInv, OnceInv, One,
         NEW s, TopReturns(s), Len(stack) = 1
  PROVE  Right(Query(Top), s) /\ Silent(Query(Top), errors = Top.errors)
<1> USE DEF SearchTyped
<1>1. /\ Top \in Activations /\ stack # <<>> /\ Top = stack[1] /\ 1 \in 1..Len(stack) /\ ident \in Names
      /\ s \subseteq Offered(Query(Top))
  BY NonEmpty DEF TopReturns
<1>2. /\ Query(Top).of = Top.mod /\ Query(Top).ident = ident /\ Query(Top).flags = Top.flags
      /\ Top.mod \in Modules
  BY <1>1 DEF Query, Activations
<1>3. CASE s = {Top.mod} /\ ~Lacks(Top)
  BY <1>2, <1>3, LocalOffer DEF Lacks, Silent
<1>4. CASE s = Top.found /\ Lacks(Top) /\ Top.i > Len(imports[Top.mod])
  <2>1. Ambiguous(Query(Top)) => Ambiguous(asked)
    BY <1>1, AmbiguousAsked
  <2>2. InnerFlags /\ (Collecting => Collected)
    BY <1>1 DEF OnceInv
  <2>3. /\ "ignoreAmbiguous" \in Top.flags <=> "ignoreAmbiguous" \in asked.flags
        /\ NoIgnores(Top.flags) <=> NoIgnores(asked.flags)
    BY <1>1, <2>2, FlagsFromAsked
  <2>4. CASE Collecting
    <3>1. Offered(Query(Top)) \subseteq Top.found
      BY <1>1, <1>4, <2>2, <2>4, AllCollected
    <3>2. s = Offered(Query(Top))
      BY <1>1, <1>4, <3>1
    <3>3. Uniform(ident, Top.found)
      BY <1>1 DEF One, PlainInv, FoundPlain
    <3>4. ~Ambiguous(Query(Top))
      BY <1>2, <1>4, <3>2, <3>3, UniformUnambiguous
    <3> QED
      BY <3>2, <3>4 DEF Right, Silent
  <2>5. CASE ~Loud
    <3>1. Ambiguous(asked) /\ "ignoreAmbiguous" \in asked.flags
      BY <2>5 DEF Loud
    <3>2. Ambiguous(Query(Top))
      <4>1. Query(Top) = [of |-> asked.of, ident |-> ident, flags |-> Effective(asked.flags)]
        BY <1>1 DEF CallInv, First, Query
      <4> QED
        BY <1>1, <3>1, <4>1, Searching, AskedQuery
    <3> QED
      BY <1>2, <2>3, <3>1, <3>2 DEF Right, Silent, NoIgnores
  <2>6. CASE Loud /\ ~Collecting
    <3>1. ~Calm /\ Fruitful
      BY <2>6 DEF Collecting
    <3>2. Ambiguous(asked) /\ (NoIgnores(asked.flags) => errors # Top.errors)
      BY <1>1, <3>1 DEF Calm
    <3>3. Top.found # {}
      BY <1>1, <3>1 DEF Fruitful
    <3>4. Ambiguous(Query(Top))
      <4>1. Query(Top) = [of |-> asked.of, ident |-> ident, flags |-> Effective(asked.flags)]
        BY <1>1 DEF CallInv, First, Query
      <4> QED
        BY <1>1, <3>2, <4>1, Searching, AskedQuery
    <3> QED
      BY <1>2, <1>4, <2>3, <3>2, <3>3, <3>4 DEF Right, Silent
  <2> QED
    BY <2>4, <2>5, <2>6
<1> QED
  BY <1>3, <1>4 DEF TopReturns

(* Every step keeps OnceInv.                                               *)
LEMMA OnceStep ==
  ASSUME SearchTyped, MarkedIffActive, CallInv, ChainInv, SoundInv, PlainInv, OnceInv, CallInv',
         [Next]_vars
  PROVE  OnceInv'
<1> USE DEF SearchTyped
<1> changes \in Nat /\ questions \in Nat
  BY SearchAssumption DEF TypeOK
<1>1. ASSUME ~One' PROVE OnceInv'
  BY <1>1 DEF OnceInv
<1>2. ASSUME Change PROVE ~One'
  BY <1>2 DEF Change, One
<1>3. ASSUME stack' = <<>>, Idle' PROVE OnceInv'
  BY <1>3 DEF OnceInv
<1>4. ASSUME NEW q \in Questions, Ask(q), One PROVE OnceInv'
  <2>1. /\ stack' = <<>> /\ questions' = questions + 1 /\ changes' = changes /\ cache' = cache
    BY <1>4 DEF Ask
  <2>2. CASE questions = 0
    <3>1. Idle'
      BY <1>4, <2>1, <2>2 DEF OnceInv, Idle, Empty
    <3> QED
      BY <1>3, <2>1, <3>1
  <2>3. CASE questions # 0
    BY <1>1, <2>1, <2>3 DEF One
  <2> QED
    BY <2>2, <2>3
<1>5. CASE AskedAnswered /\ One
  <2>1. stack' = <<>> /\ asked' = NoQuestion /\ UNCHANGED <<cache, questions>>
    BY <1>5 DEF AskedAnswered
  <2>2. Idle'
    BY <1>5, <2>1 DEF OnceInv, Idle, Empty
  <2> QED
    BY <1>3, <2>1, <2>2
<1>6. CASE (Enter \/ SearchImport) /\ One
  <2>1. PICK g : TopPushes(g)
    BY <1>6, PushStep
  <2>2. asked # NoQuestion
    BY <1>6 DEF Enter, SearchImport, Scanning, Answering
  <2> QED
    BY <1>6, <2>1, <2>2, PushesOnce
<1>7. CASE (NotInLocals \/ SkipImport) /\ One
  <2>1. PICK g : TopAdvances(g)
    BY <1>7, AdvanceStep
  <2> QED
    BY <1>7, <2>1, AdvancesOnce
<1>8. CASE ImportAnswered /\ One
  <2>1. PICK s : TopTakes(s)
    BY <1>8, TakeStep DEF One
  <2> QED
    BY <1>8, <2>1, TakesOnce
<1>9. CASE (FoundInLocals \/ ImportsSearched) /\ One
  <2>1. PICK s : TopReturns(s)
    BY <1>9, ReturnStep DEF One
  <2>2. CASE Len(stack) = 1
    <3>1. /\ stack' = <<>> /\ asked' = NoQuestion /\ asked # NoQuestion /\ questions' = questions
      BY <2>1, <2>2, LastStep DEF LastReturns
    <3>2. Idle'
      BY <1>9, <3>1 DEF OnceInv, Idle
    <3> QED
      BY <1>3, <3>1, <3>2
  <2>3. CASE Len(stack) # 1
    <3>1. PICK n, f : CallerTakes(n, f, s)
      BY <1>9, <2>1, <2>3, CallerStep DEF One
    <3> QED
      BY <1>9, <2>1, <3>1, ReturnsOnce
  <2> QED
    BY <2>2, <2>3
<1>10. ASSUME One', ~Change PROVE One
  <2>1. changes' = changes
    BY <1>10 DEF Next, Step, Ask, AskedAnswered, Enter, FoundInLocals, NotInLocals, SkipImport,
                 ImportAnswered, SearchImport, ImportsSearched, Return, SymtabInsert, ImportScope,
                 ClearCache, vars
  <2>2. questions' = questions \/ questions' = questions + 1
    BY <1>10 DEF Next, Step, Ask, AskedAnswered, Enter, FoundInLocals, NotInLocals, SkipImport,
                 ImportAnswered, SearchImport, ImportsSearched, Return, SymtabInsert, ImportScope,
                 ClearCache, vars
  <2> QED
    BY <1>10, <2>1, <2>2 DEF One
<1>11. CASE UNCHANGED vars
  <2>1. UNCHANGED <<graph, insearch, cache, errors, stack, ident, asked, questions, changes>>
    BY <1>11 DEF vars, graph
  <2>2. decl' = decl /\ imports' = imports
    BY <2>1 DEF graph
  <2>3. Collected' <=> Collected
    BY <2>1, <2>2 DEF Collected, Closed, Held, Begun, Finished, ScansIn, HoldsPrivate, MayAskAt, AsksAt,
                      Skipped, ImportsOf
  <2>4. (Collecting' <=> Collecting) /\ (Loud' <=> Loud) /\ (Fruitful' <=> Fruitful)
    <3>1. (Ambiguous(asked)' <=> Ambiguous(asked)) /\ (Loud' <=> Loud)
      BY <2>1, SameLoud
    <3>2. (Calm' <=> Calm) /\ (Fruitful' <=> Fruitful)
      BY <2>1, <3>1 DEF Calm, Fruitful
    <3> QED
      BY <3>1, <3>2 DEF Collecting
  <2>5. (InnerFlags' <=> InnerFlags) /\ (Idle' <=> Idle) /\ (One' <=> One)
    BY <2>1 DEF InnerFlags, Idle, Empty, One
  <2> QED
    BY <2>1, <2>3, <2>4, <2>5 DEF OnceInv
<1> QED
  BY <1>1, <1>2, <1>4, <1>5, <1>6, <1>7, <1>8, <1>9, <1>10, <1>11
  DEF Next, Step, SymtabInsert, ImportScope, ClearCache

AnswerRight(a) == Right(a.asked, a.answer) /\ Silent(a.asked, a.erred = FALSE)
Undisturbed == changes = 0 /\ (questions <= 1 \/ CycleFree)
AnswersRight == Undisturbed => \A a \in answered : AnswerRight(a)
NewRight == Undisturbed => \A a \in answered' \ answered : AnswerRight(a)

(* A step that leaves the modules alone keeps AnswersRight if the answers *)
(* it gives are right.                                                    *)
LEMMA AnswersKept ==
  ASSUME SearchTyped, AnswersRight, NewRight, graph' = graph, changes' = changes,
         questions <= questions', questions' \in Nat
  PROVE  AnswersRight'
<1>1. questions \in Nat
  BY SearchAssumption DEF SearchTyped, TypeOK
<1>2. Undisturbed' => Undisturbed
  <2>1. CycleFree' <=> CycleFree
    BY SameRight
  <2>2. questions' <= 1 => questions <= 1
    BY <1>1
  <2> QED
    BY <2>1, <2>2 DEF Undisturbed
<1>3. \A a : AnswerRight(a)' <=> AnswerRight(a)
  <2>1. /\ \A q, s : Right(q, s)' <=> Right(q, s)
        /\ \A q, b : Silent(q, b)' <=> Silent(q, b)
    BY SameRight
  <2> QED
    BY <2>1 DEF AnswerRight
<1>4. Undisturbed => \A a \in answered' : AnswerRight(a)
  BY DEF AnswersRight, NewRight
<1>5. Undisturbed' => \A a \in answered' : AnswerRight(a)'
  BY <1>2, <1>3, <1>4
<1> QED
  BY <1>5 DEF AnswersRight

(* Effective() changes nothing about what is right.                        *)
LEMMA RightAsked ==
  ASSUME SearchTyped, asked # NoQuestion, NEW s, NEW b,
         NEW q, q = [of |-> asked.of, ident |-> ident, flags |-> Effective(asked.flags)],
         Right(q, s), Silent(q, b)
  PROVE  Right(asked, s) /\ Silent(asked, b)
<1>1. Offered(q) = Offered(asked) /\ (Ambiguous(q) <=> Ambiguous(asked))
  BY AskedQuery
<1>2. /\ q.flags = Effective(asked.flags)
      /\ "ignoreAmbiguous" \in Effective(asked.flags) <=> "ignoreAmbiguous" \in asked.flags
      /\ NoIgnores(Effective(asked.flags)) <=> NoIgnores(asked.flags)
  BY DEF Effective, NoIgnores
<1> QED
  BY <1>1, <1>2 DEF Right, Silent

(* Every step keeps AnswersRight.                                          *)
LEMMA AnswersStep ==
  ASSUME SearchTyped, MarkedIffActive, CallInv, ChainInv, SoundInv, PlainInv, AcyclicInv, OnceInv,
         AnswersRight, [Next]_vars
  PROVE  AnswersRight'
<1> USE DEF SearchTyped
<1> questions \in Nat
  BY SearchAssumption DEF TypeOK
<1>1. ASSUME changes' # 0 PROVE AnswersRight'
  BY <1>1 DEF AnswersRight, Undisturbed
<1>2. ASSUME Change PROVE changes' # 0
  BY <1>2 DEF Change, TypeOK
<1>3. ASSUME UNCHANGED <<graph, answered, questions, changes>> PROVE AnswersRight'
  <2>1. graph' = graph /\ changes' = changes /\ questions' = questions /\ answered' = answered
    BY <1>3 DEF graph
  <2>2. NewRight
    BY <2>1 DEF NewRight
  <2> QED
    BY <2>1, <2>2, AnswersKept
<1>4. ASSUME NEW q \in Questions, Ask(q) PROVE AnswersRight'
  <2>1. graph' = graph /\ changes' = changes /\ answered' = answered /\ questions' = questions + 1
    BY <1>4 DEF Ask, graph
  <2>2. NewRight
    BY <2>1 DEF NewRight
  <2> QED
    BY <2>1, <2>2, AnswersKept
<1>5. CASE AskedAnswered /\ changes = 0
  <2>1. /\ stack = <<>> /\ asked # NoQuestion /\ Immediate(asked.of, asked.flags)
        /\ answered' = answered \cup {[asked |-> asked, answer |-> ImmediateAnswer(asked.of), erred |-> FALSE]}
        /\ UNCHANGED <<graph, questions, changes>>
    BY <1>5 DEF AskedAnswered, Deliver
  <2>2. asked.of \in Modules /\ ident = asked.ident /\ ident # NoName
    BY <2>1, AskedTyped, SearchAssumption DEF Answering
  <2>3. ~insearch[asked.of]
    <3>1. Len(stack) = 0
      BY <2>1, EmptySeq
    <3> QED
      BY <2>2, <3>1 DEF MarkedIffActive
  <2>4. /\ cache[asked.of].ident = ident /\ cache[asked.of].flags = Effective(asked.flags)
        /\ ImmediateAnswer(asked.of) = cache[asked.of].symbol
    BY <2>1, <2>3 DEF Immediate, ImmediateAnswer, Hit
  <2>5. ~(questions <= 1)
    <3>1. ~Empty
      BY <2>2, <2>4 DEF Empty
    <3> QED
      BY <1>5, <2>1, <3>1 DEF OnceInv, One, Idle
  <2>6. ASSUME CycleFree
        PROVE  Right(asked, ImmediateAnswer(asked.of)) /\ Silent(asked, TRUE)
    <3>1. Remembered(asked.of) = [of |-> asked.of, ident |-> ident, flags |-> Effective(asked.flags)]
      BY <2>4 DEF Remembered
    <3>2. Right(Remembered(asked.of), cache[asked.of].symbol) /\ Silent(Remembered(asked.of), TRUE)
      BY <1>5, <2>2, <2>4, <2>6 DEF AcyclicInv, CachesRight
    <3> QED
      BY <2>1, <2>4, <3>1, <3>2, RightAsked
  <2>7. NewRight
    <3> SUFFICES ASSUME CycleFree, NEW a,
                        a = [asked |-> asked, answer |-> ImmediateAnswer(asked.of), erred |-> FALSE]
                 PROVE  AnswerRight(a)
      BY <2>1, <2>5 DEF NewRight, Undisturbed
    <3>1. a.asked = asked /\ a.answer = ImmediateAnswer(asked.of)
      OBVIOUS
    <3> QED
      BY <2>6, <3>1 DEF Silent, AnswerRight
  <2>8. graph' = graph /\ changes' = changes /\ questions' = questions
    BY <2>1 DEF graph
  <2> QED
    BY <2>7, <2>8, AnswersKept
<1>6. CASE (FoundInLocals \/ ImportsSearched) /\ changes = 0
  <2>1. PICK s : TopReturns(s)
    BY <1>6, ReturnStep
  <2>2. CASE Len(stack) = 1
    <3>1. /\ asked # NoQuestion
          /\ Query(Top) = [of |-> asked.of, ident |-> ident, flags |-> Effective(asked.flags)]
          /\ answered' = answered \cup {[asked |-> asked, answer |-> s, erred |-> errors # Top.errors]}
          /\ UNCHANGED <<graph, questions, changes>>
      BY <2>1, <2>2, LastStep DEF LastReturns
    <3>2. ASSUME questions <= 1 \/ CycleFree
          PROVE  Right(asked, s) /\ Silent(asked, errors = Top.errors)
      <4>1. CASE questions <= 1
        <5>1. Right(Query(Top), s) /\ Silent(Query(Top), errors = Top.errors)
          BY <1>6, <2>1, <2>2, <4>1, ReturnsRightOnce DEF One
        <5> QED
          BY <3>1, <5>1, RightAsked
      <4>2. CASE CycleFree
        <5>1. Gathers(Top, errors)
          <6>1. Top = stack[1] /\ 1 \in 1..Len(stack)
            BY <2>1, <2>2, NonEmpty DEF TopReturns
          <6> QED
            BY <1>6, <4>2, <6>1 DEF AcyclicInv, Gathering
        <5>2. Right(Query(Top), s) /\ Silent(Query(Top), errors = Top.errors)
          BY <1>6, <2>1, <5>1, ReturnsRight
        <5> QED
          BY <3>1, <5>2, RightAsked
      <4> QED
        BY <3>2, <4>1, <4>2
    <3>3. ASSUME NEW a, a = [asked |-> asked, answer |-> s, erred |-> errors # Top.errors],
                 Silent(asked, errors = Top.errors)
          PROVE  Silent(a.asked, a.erred = FALSE)
      <4>1. a.asked = asked /\ (a.erred <=> errors # Top.errors)
        BY <3>3
      <4>2. a.erred = FALSE => errors = Top.errors
        BY <4>1
      <4> QED
        BY <3>3, <4>1, <4>2 DEF Silent
    <3>4. NewRight
      <4> SUFFICES ASSUME questions <= 1 \/ CycleFree, NEW a,
                          a = [asked |-> asked, answer |-> s, erred |-> errors # Top.errors]
                   PROVE  AnswerRight(a)
        BY <3>1 DEF NewRight, Undisturbed
      <4>1. a.asked = asked /\ a.answer = s
        OBVIOUS
      <4> QED
        BY <3>2, <3>3, <4>1 DEF AnswerRight
    <3>5. graph' = graph /\ changes' = changes /\ questions' = questions
      BY <3>1 DEF graph
    <3> QED
      BY <3>4, <3>5, AnswersKept
  <2>3. CASE Len(stack) # 1
    <3>1. PICK n, f : CallerTakes(n, f, s)
      BY <1>6, <2>1, <2>3, CallerStep
    <3>2. UNCHANGED <<graph, answered, questions, changes>>
      BY <3>1 DEF CallerTakes
    <3> QED
      BY <1>3, <3>2
  <2> QED
    BY <2>2, <2>3
<1>7. CASE Enter \/ NotInLocals \/ SkipImport \/ ImportAnswered \/ SearchImport
  <2>1. UNCHANGED <<graph, answered, questions, changes>>
    BY <1>7 DEF Enter, NotInLocals, SkipImport, ImportAnswered, SearchImport
  <2> QED
    BY <1>3, <2>1
<1>8. CASE UNCHANGED vars
  <2>1. UNCHANGED <<graph, answered, questions, changes>>
    BY <1>8 DEF vars, graph
  <2> QED
    BY <1>3, <2>1
<1>9. CASE (AskedAnswered \/ FoundInLocals \/ ImportsSearched) /\ changes # 0
  BY <1>1, <1>9 DEF AskedAnswered, FoundInLocals, ImportsSearched, Return
<1> QED
  BY <1>1, <1>2, <1>4, <1>5, <1>6, <1>7, <1>8, <1>9
  DEF Next, Step, SymtabInsert, ImportScope, ClearCache

(* In a program to which nothing has been added since it was loaded, a     *)
(* search finds a name exactly where it can be found along the imports,    *)
(* finds every overload, and calls ambiguous exactly what is. For the first*)
(* question this is so in every import graph, though the search is cut     *)
(* where imports form a cycle and uses, inside itself, what Module::search *)
(* remembered from the cut; for all later questions where imports form no  *)
(* cycle. It is about Module::search and ScopeDsymbol::search together.    *)
THEOREM NamesExact == Spec => []AnswersExact
<1> DEFINE Calls == SearchTyped /\ MarkedIffActive /\ CallInv /\ ChainInv
           Inv == Calls /\ SoundInv /\ PlainInv /\ AcyclicInv /\ OnceInv /\ AnswersRight
<1>1. Init => Inv
  <2> SUFFICES ASSUME Init PROVE Inv
    OBVIOUS
  <2>1. /\ stack = <<>> /\ asked = NoQuestion /\ answered = {} /\ questions = 0
        /\ \A m \in Modules : cache[m].ident = NoName /\ ~insearch[m]
    BY DEF Init, NoCache
  <2>2. Len(stack) = 0
    BY <2>1, EmptySeq
  <2>3. SearchTyped
    BY TypedInit
  <2>4. MarkedIffActive /\ CallInv /\ ChainInv
    BY <2>1, <2>2 DEF MarkedIffActive, CallInv, Called, First, ChainInv, PastLocals, AskedLocals, Nested
  <2>5. SoundInv /\ PlainInv
    <3>1. SoundInv
      BY <2>1, <2>2 DEF SoundInv, AnswersSound, CachesSound, FoundSound, Blamed
    <3>2. PlainInv
      <4>1. CachesPlain
        BY <2>1 DEF CachesPlain
      <4>2. \A k \in 1..Len(stack) : FALSE
        BY <2>2
      <4>3. FoundPlain
        BY <4>2 DEF FoundPlain
      <4>4. Rising
        BY <4>2 DEF Rising
      <4> QED
        BY <4>1, <4>3, <4>4 DEF PlainInv
    <3> QED
      BY <3>1, <3>2
  <2>6. AcyclicInv
    <3>1. CachesRight
      BY <2>1 DEF CachesRight
    <3>2. \A k \in 1..Len(stack) : FALSE
      BY <2>2
    <3>3. Gathering
      BY <3>2 DEF Gathering
    <3> QED
      BY <3>1, <3>3 DEF AcyclicInv
  <2>7. OnceInv
    BY <2>1 DEF OnceInv, Idle, Empty
  <2>8. AnswersRight
    BY <2>1 DEF AnswersRight
  <2> QED
    BY <2>3, <2>4, <2>5, <2>6, <2>7, <2>8
<1>2. Inv /\ [Next]_vars => Inv'
  <2> SUFFICES ASSUME Inv, [Next]_vars PROVE Inv'
    OBVIOUS
  <2>1. SearchTyped' /\ MarkedIffActive' /\ CallInv' /\ ChainInv'
    BY TypedStep, MarksStep, CallsStep, ChainStep
  <2>2. SoundInv'
    BY SoundStep
  <2>3. PlainInv'
    BY PlainStep
  <2>4. AcyclicInv'
    BY AcyclicStep
  <2>5. OnceInv'
    BY <2>1, OnceStep
  <2>6. AnswersRight'
    BY AnswersStep
  <2> QED
    BY <2>1, <2>2, <2>3, <2>4, <2>5, <2>6
<1>3. Inv => AnswersExact
  <2> SUFFICES ASSUME Inv, Fresh, NEW a \in answered
               PROVE  /\ Exact(a)
                      /\ a.asked.flags \cap {"ignoreErrors", "ignoreAmbiguous"} = {}
                           => (a.erred <=> Ambiguous(a.asked))
    BY DEF AnswersExact
  <2>1. changes = 0 /\ (questions <= 1 \/ CycleFree) /\ a.erred \in BOOLEAN
    BY DEF Fresh, SearchTyped, TypeOK
  <2>2. a.answer \subseteq Offered(a.asked) /\ (a.erred => Ambiguous(a.asked))
    BY <2>1 DEF SoundInv, AnswersSound
  <2>3. Right(a.asked, a.answer) /\ Silent(a.asked, a.erred = FALSE)
    BY <2>1 DEF AnswersRight, AnswerRight, Undisturbed
  <2>4. Exact(a)
    BY <2>2, <2>3 DEF Exact, Right
  <2>5. ASSUME a.asked.flags \cap {"ignoreErrors", "ignoreAmbiguous"} = {}
        PROVE  a.erred <=> Ambiguous(a.asked)
    <3>1. ~a.erred => a.erred = FALSE
      BY <2>1
    <3> QED
      BY <2>2, <2>3, <2>5, <3>1 DEF Silent, NoIgnores
  <2> QED
    BY <2>4, <2>5
<1> HIDE DEF Inv
<1> QED
  BY <1>1, <1>2, <1>3, PTL DEF Spec

=============================================================================
