------------------------ MODULE ModuleImportsProofs ------------------------
(***************************************************************************)
(* Theorems about ModuleImports, for every set of modules and every import *)
(* graph.                                                                  *)
(***************************************************************************)
EXTENDS ModuleImports, SequenceTheorems, TLAPS

(* What each question means for the other variables.                       *)
Idle ==
  asking = "nothing" =>
    /\ this = NoModule /\ target = NoModule /\ at = 0 /\ stack = <<>>
    /\ insearch = Unmarked
Self ==
  asking = "self" =>
    /\ this \in Modules /\ target = this /\ at = 0 /\ selfimports[this] = 0
Root ==
  asking = "root" =>
    /\ this \in Modules /\ rootimports[this] = 1
    /\ stack # <<>> => at # 0 /\ target = graph.amodules[at] /\ target \in graph.roots

(* Each activation is for a module that this imports.                      *)
Followed ==
  /\ stack # <<>> => stack[1].mod = this
  /\ \A j \in 1..Len(stack) : stack[j].mod = this \/ Reaches(graph, this, stack[j].mod)

(* An activation has gone past position p of its list.                     *)
Passed(j, p) ==
  /\ p \in 1..Len(graph.aimports[stack[j].mod])
  /\ p < stack[j].i \/ (p = stack[j].i /\ j # Len(stack))
Behind ==
  \A j \in 1..Len(stack) : \A p \in Nat :
    Passed(j, p) =>
      LET m == graph.aimports[stack[j].mod][p] IN m # target /\ insearch[m]

(* Below the first, activations are for marked modules, each for another.  *)
Entered ==
  /\ \A j \in 2..Len(stack) : insearch[stack[j].mod]
  /\ EnteredOnce

(* A module whose activation is over has only imports that are marked and  *)
(* are not the target: unless marks are left from another search.          *)
Fresh == asking = "self" \/ NoRootBefore(graph, at)
Over(m) ==
  /\ insearch[m] \/ m = this
  /\ \A j \in 1..Len(stack) : stack[j].mod # m
Explored ==
  asking # "nothing" /\ stack # <<>> /\ Fresh =>
    \A m \in Modules : Over(m) =>
      \A x \in Imported(graph, m) : x # target /\ insearch[x]

(* What is known when imports() has returned.                              *)
SelfTried == asking = "self" /\ stack = <<>> => ~Reaches(graph, this, this)
Untouched ==
  asking = "root" /\ stack = <<>> /\ NoRootBefore(graph, at + 1) => insearch = Unmarked
Tried(k) == k \in 1..at /\ (k < at \/ stack = <<>>)
RootTried ==
  asking = "root" =>
    \A k \in 1..Len(graph.amodules) : Tried(k) /\ graph.amodules[k] \in graph.roots =>
      /\ graph.amodules[k] \notin Imported(graph, this)
      /\ NoRootBefore(graph, k) => ~Reaches(graph, this, graph.amodules[k])

Query == Idle /\ Self /\ Root
Searching == Followed /\ Behind /\ Entered /\ Explored
Outcome == SelfTried /\ Untouched /\ RootTried
Answers == SelfAnswerExact /\ RootAnswerSound /\ NearRootsFound
ImportsInv == TypeOK /\ Query /\ Searching /\ Outcome /\ Answers

----------------------------------------------------------------------------
(* Graphs.                                                                 *)

LEMMA ImportsAreModules ==
  ASSUME NEW g, IsGraph(g), NEW m \in Modules
  PROVE  Len(g.aimports[m]) \in Nat /\ Imported(g, m) \subseteq Modules
<1>1. g.aimports[m] \in Seq(Modules)
  BY DEF IsGraph
<1> QED
  BY <1>1, LenProperties, ElementOfSeq DEF Imported

(* One more import leads from what m reaches to what m reaches.            *)
LEMMA ReachesNext ==
  ASSUME NEW g, NEW m, NEW x, NEW y,
         x = m \/ Reaches(g, m, x), y \in Imported(g, x)
  PROVE  Reaches(g, m, y)
<1> SUFFICES ASSUME NEW S \in SUBSET Modules, ClosedFrom(g, m, S)
             PROVE  y \in S
  BY DEF Reaches
<1>1. x = m \/ x \in S
  BY DEF Reaches
<1> QED
  BY <1>1 DEF ClosedFrom

(* If a set with m in it holds the imports of its members and none of them *)
(* is t, then m does not reach t.                                          *)
LEMMA ClosedWithout ==
  ASSUME NEW g, IsGraph(g), NEW m \in Modules, NEW t,
         NEW M \in SUBSET Modules, m \in M,
         \A z \in M : \A x \in Imported(g, z) : x # t /\ x \in M
  PROVE  ~Reaches(g, m, t)
<1> DEFINE S == {x \in Modules : \E z \in M : x \in Imported(g, z)}
<1>1. S \in SUBSET Modules /\ t \notin S
  OBVIOUS
<1>2. Imported(g, m) \subseteq S
  BY ImportsAreModules
<1>3. \A x \in S : Imported(g, x) \subseteq S
  BY ImportsAreModules
<1> HIDE DEF S
<1> QED
  BY <1>1, <1>2, <1>3 DEF Reaches, ClosedFrom

LEMMA NoRootBeforeLess ==
  ASSUME NEW g, NEW k \in Nat, NEW l \in Nat, k <= l, NoRootBefore(g, l)
  PROVE  NoRootBefore(g, k)
  BY DEF NoRootBefore

----------------------------------------------------------------------------
(* The stack.                                                              *)

Frames == [mod : Modules, i : Nat \ {0}]

LEMMA TopFrame ==
  ASSUME TypeOK, stack # <<>>
  PROVE  /\ Len(stack) \in Nat \ {0} /\ Top = stack[Len(stack)]
         /\ \A j \in 1..Len(stack) :
              stack[j] \in Frames /\ stack[j].mod \in Modules /\ stack[j].i \in Nat \ {0}
         /\ Top.mod \in Modules /\ Top.i \in Nat \ {0}
<1>1. stack \in Seq(Frames)
  BY DEF TypeOK, Frames
<1>2. Len(stack) \in Nat \ {0}
  BY <1>1, EmptySeq, LenProperties
<1>3. \A j \in 1..Len(stack) : stack[j] \in Frames
  BY <1>1, ElementOfSeq
<1> QED
  BY <1>2, <1>3 DEF Top, Frames

LEMMA TheImport ==
  ASSUME TypeOK, stack # <<>>, ~AtEnd
  PROVE  /\ Top.i \in 1..Len(graph.aimports[Top.mod])
         /\ mi = graph.aimports[Top.mod][Top.i]
         /\ mi \in Imported(graph, Top.mod) /\ mi \in Modules
<1>1. Len(graph.aimports[Top.mod]) \in Nat /\ Imported(graph, Top.mod) \subseteq Modules
  BY TopFrame, ImportsAreModules DEF TypeOK
<1>2. Top.i \in 1..Len(graph.aimports[Top.mod])
  BY <1>1, TopFrame DEF AtEnd
<1> QED
  BY <1>1, <1>2 DEF mi, Imported

(* The next import of the activation on top.                               *)
LEMMA AdvancedFrames ==
  ASSUME NEW s \in Seq(Frames), s # <<>>
  PROVE  /\ Advance(s) \in Seq(Frames) /\ Advance(s) # <<>>
         /\ Len(Advance(s)) = Len(s) /\ Len(s) \in Nat \ {0}
         /\ \A j \in 1..Len(s) :
              /\ Advance(s)[j].mod = s[j].mod
              /\ Advance(s)[j].i = IF j = Len(s) THEN s[j].i + 1 ELSE s[j].i
<1>1. Len(s) \in Nat \ {0} /\ Len(s) \in 1..Len(s)
  BY EmptySeq, LenProperties
<1>2. \A j \in 1..Len(s) : s[j] \in Frames
  BY ElementOfSeq
<1> DEFINE f == [s[Len(s)] EXCEPT !.i = @ + 1]
<1>3. f \in Frames /\ f.mod = s[Len(s)].mod /\ f.i = s[Len(s)].i + 1
  BY <1>1, <1>2 DEF Frames
<1>4. Advance(s) = [s EXCEPT ![Len(s)] = f]
  BY DEF Advance
<1> HIDE DEF f
<1>5. /\ Advance(s) \in Seq(Frames) /\ Len(Advance(s)) = Len(s)
      /\ \A j \in 1..Len(s) : Advance(s)[j] = IF j = Len(s) THEN f ELSE s[j]
  BY <1>1, <1>3, <1>4, ExceptSeq
<1>6. Advance(s) # <<>>
  BY <1>1, <1>5, EmptySeq
<1> QED
  BY <1>1, <1>3, <1>5, <1>6

LEMMA PushedFrames ==
  ASSUME NEW s \in Seq(Frames), NEW m \in Modules
  PROVE  /\ Append(s, Activation(m)) \in Seq(Frames)
         /\ Append(s, Activation(m)) # <<>>
         /\ Len(Append(s, Activation(m))) = Len(s) + 1 /\ Len(s) \in Nat
         /\ \A j \in 1..Len(s) : Append(s, Activation(m))[j] = s[j]
         /\ Append(s, Activation(m))[Len(s) + 1].mod = m
         /\ Append(s, Activation(m))[Len(s) + 1].i = 1
<1>1. Activation(m) \in Frames /\ Activation(m).mod = m /\ Activation(m).i = 1
  BY DEF Activation, Frames
<1> QED
  BY <1>1, AppendProperties, LenProperties, EmptySeq

LEMMA CallersFrames ==
  ASSUME TypeOK, stack # <<>>
  PROVE  /\ Caller \in Seq(Frames) /\ Len(Caller) = Len(stack) - 1
         /\ Caller = <<>> <=> Len(stack) = 1
         /\ \A j \in 1..(Len(stack) - 1) : Caller[j] = stack[j]
<1>1. Len(stack) \in Nat \ {0} /\ \A j \in 1..Len(stack) : stack[j] \in Frames
  BY TopFrame
<1>2. stack \in Seq(Frames)
  BY DEF TypeOK, Frames
<1> DEFINE n == Len(stack) - 1
<1>n. n \in Nat
  BY <1>1
<1>e. \A i \in 1..n : stack[i] \in Frames
  BY <1>1
<1>s. /\ SubSeq(stack, 1, n) \in Seq(Frames)
      /\ Len(SubSeq(stack, 1, n)) = IF 1 <= n THEN n - 1 + 1 ELSE 0
      /\ \A i \in 1..(n - 1 + 1) : SubSeq(stack, 1, n)[i] = stack[1 + i - 1]
  BY <1>n, <1>e, SubSeqProperties
<1>c. Caller = SubSeq(stack, 1, n)
  BY DEF Caller
<1> HIDE DEF n
<1>4. /\ Caller \in Seq(Frames) /\ Len(Caller) = n
      /\ \A j \in 1..n : Caller[j] = stack[j]
  BY <1>n, <1>s, <1>c
<1>3. /\ Caller \in Seq(Frames) /\ Len(Caller) = Len(stack) - 1
      /\ \A j \in 1..(Len(stack) - 1) : Caller[j] = stack[j]
  BY <1>4 DEF n
<1> QED
  BY <1>1, <1>3, EmptySeq

----------------------------------------------------------------------------
(* What the invariant says of the start of a search.                       *)

LEMMA SearchStarts ==
  ASSUME NEW m \in Modules, NEW s, s = <<Activation(m)>>
  PROVE  /\ s \in Seq(Frames) /\ s # <<>> /\ Len(s) = 1
         /\ s[1].mod = m /\ s[1].i = 1
<1>1. Activation(m) \in Frames /\ Activation(m).mod = m /\ Activation(m).i = 1
  BY DEF Activation, Frames
<1> QED
  BY <1>1

(* An import that was marked before.                                       *)
LEMMA SkipStep ==
  ASSUME ImportsInv, ImportsSkip
  PROVE  ImportsInv'
<1> USE DEF ImportsSkip, memo
<1>1. TypeOK /\ Query /\ Followed /\ Behind /\ Entered /\ Explored /\ Outcome /\ Answers
  BY DEF ImportsInv, Searching
<1>s. stack \in Seq(Frames) /\ stack # <<>> /\ stack' = Advance(stack)
  BY <1>1 DEF TypeOK, Frames
<1>2. /\ stack' \in Seq(Frames) /\ stack' # <<>>
      /\ Len(stack') = Len(stack) /\ Len(stack) \in Nat \ {0}
      /\ \A j \in 1..Len(stack) :
           /\ stack'[j].mod = stack[j].mod
           /\ stack'[j].i = IF j = Len(stack) THEN stack[j].i + 1 ELSE stack[j].i
  BY <1>s, AdvancedFrames
<1>3. /\ Top = stack[Len(stack)]
      /\ \A j \in 1..Len(stack) : stack[j].mod \in Modules /\ stack[j].i \in Nat \ {0}
  BY <1>1, TopFrame
<1>4. TypeOK'
  BY <1>1, <1>2 DEF TypeOK, Frames
<1>5. Query'
  BY <1>1, <1>2 DEF Query, Idle, Self, Root
<1>6. Followed'
  BY <1>1, <1>2 DEF Followed
<1>7. Behind'
  <2> SUFFICES ASSUME NEW j \in 1..Len(stack), NEW p \in Nat, Passed(j, p)'
               PROVE  /\ graph.aimports[stack[j].mod][p] # target
                      /\ insearch[graph.aimports[stack[j].mod][p]]
    BY <1>2 DEF Behind, Passed
  <2>1. CASE Passed(j, p)
    BY <1>1, <2>1 DEF Behind
  <2>2. CASE ~Passed(j, p)
    <3>1. j = Len(stack) /\ p = Top.i
      BY <1>2, <1>3, <2>2 DEF Passed
    <3>2. mi = graph.aimports[stack[j].mod][p]
      BY <1>1, <1>3, <3>1, TheImport
    <3> QED
      BY <3>2
  <2> QED
    BY <2>1, <2>2
<1>8. Entered'
  BY <1>1, <1>2 DEF Entered, EnteredOnce
<1>9. Explored'
  BY <1>1, <1>2 DEF Explored, Over, Fresh
<1>10. Outcome'
  BY <1>1, <1>2 DEF Outcome, SelfTried, Untouched, RootTried, Tried
<1>11. Answers'
  BY <1>1 DEF Answers, SelfAnswerExact, RootAnswerSound, NearRootsFound, AnsweredNo
<1> QED
  BY <1>4, <1>5, <1>6, <1>7, <1>8, <1>9, <1>10, <1>11 DEF ImportsInv, Searching

(* An import that is followed: it was not marked, so it is not below.      *)
LEMMA FollowStep ==
  ASSUME ImportsInv, ImportsFollow
  PROVE  ImportsInv'
<1> USE DEF ImportsFollow, memo
<1>1. TypeOK /\ Query /\ Followed /\ Behind /\ Entered /\ Explored /\ Outcome /\ Answers
  BY DEF ImportsInv, Searching
<1>2. /\ mi \in Modules /\ mi # target /\ ~insearch[mi]
      /\ mi \in Imported(graph, Top.mod)
      /\ mi = graph.aimports[Top.mod][Top.i]
  BY <1>1, TheImport
<1>3. /\ Top = stack[Len(stack)] /\ Len(stack) \in Nat \ {0}
      /\ \A j \in 1..Len(stack) : stack[j].mod \in Modules /\ stack[j].i \in Nat \ {0}
  BY <1>1, TopFrame
<1>s. stack \in Seq(Frames) /\ stack' = Append(stack, Activation(mi))
  BY <1>1 DEF TypeOK, Frames
<1>4. /\ stack' \in Seq(Frames) /\ stack' # <<>> /\ Len(stack') = Len(stack) + 1
      /\ \A j \in 1..Len(stack) : stack'[j] = stack[j]
      /\ stack'[Len(stack) + 1].mod = mi /\ stack'[Len(stack) + 1].i = 1
  BY <1>s, <1>2, PushedFrames
<1>5. /\ insearch' \in [Modules -> BOOLEAN] /\ insearch'[mi]
      /\ \A m \in Modules : m # mi => insearch'[m] = insearch[m]
  BY <1>1, <1>2 DEF TypeOK
<1>6. TypeOK'
  BY <1>1, <1>4, <1>5 DEF TypeOK, Frames
<1>7. Query'
  BY <1>1, <1>2, <1>3, <1>4 DEF Query, Idle, Self, Root
<1>8. Followed'
  <2>1. Top.mod = this \/ Reaches(graph, this, Top.mod)
    BY <1>1, <1>3 DEF Followed
  <2>2. Reaches(graph, this, mi)
    BY <1>2, <2>1, ReachesNext
  <2> QED
    BY <1>1, <1>3, <1>4, <2>2 DEF Followed
<1>9. Behind'
  <2> SUFFICES ASSUME NEW j \in 1..(Len(stack) + 1), NEW p \in Nat, Passed(j, p)'
               PROVE  LET m == graph.aimports[stack'[j].mod][p] IN m # target /\ insearch'[m]
    BY <1>3, <1>4 DEF Behind
  <2>1. j # Len(stack) + 1
    BY <1>3, <1>4 DEF Passed
  <2>2. j \in 1..Len(stack) /\ stack'[j] = stack[j]
    BY <1>3, <1>4, <2>1
  <2>3. CASE Passed(j, p)
    <3> DEFINE m == graph.aimports[stack[j].mod][p]
    <3>1. m # target /\ insearch[m]
      BY <1>1, <2>2, <2>3 DEF Behind
    <3>2. m \in Modules
      BY <1>1, <1>3, <2>2, <2>3, ImportsAreModules DEF Passed, Imported, TypeOK
    <3> QED
      BY <1>2, <1>5, <2>2, <3>1, <3>2
  <2>4. CASE ~Passed(j, p)
    <3>1. j = Len(stack) /\ p = Top.i
      BY <1>3, <1>4, <2>2, <2>4 DEF Passed
    <3> QED
      BY <1>2, <1>3, <1>5, <2>2, <3>1
  <2> QED
    BY <2>3, <2>4
<1>10. Entered'
  <2>1. \A j \in 2..Len(stack) : stack[j].mod \in Modules /\ insearch[stack[j].mod]
    BY <1>1, <1>3 DEF Entered
  <2>2. \A j \in 2..Len(stack) : stack[j].mod # mi
    BY <1>2, <2>1
  <2> QED
    BY <1>1, <1>3, <1>4, <1>5, <2>1, <2>2 DEF Entered, EnteredOnce
<1>11. Explored'
  <2> SUFFICES ASSUME asking # "nothing", Fresh, NEW m \in Modules, Over(m)',
                      NEW x \in Imported(graph, m)
               PROVE  x # target /\ insearch'[x]
    BY DEF Explored, Fresh
  <2>1. m # mi
    BY <1>3, <1>4 DEF Over
  <2>2. Over(m)
    BY <1>3, <1>4, <1>5, <2>1 DEF Over
  <2>3. x # target /\ insearch[x]
    BY <1>1, <2>2 DEF Explored
  <2>4. x \in Modules
    BY <1>1, ImportsAreModules DEF TypeOK
  <2> QED
    BY <1>2, <1>5, <2>3, <2>4
<1>12. Outcome'
  BY <1>1, <1>4 DEF Outcome, SelfTried, Untouched, RootTried, Tried
<1>13. Answers'
  BY <1>1 DEF Answers, SelfAnswerExact, RootAnswerSound, NearRootsFound, AnsweredNo
<1> QED
  BY <1>6, <1>7, <1>8, <1>9, <1>10, <1>11, <1>12, <1>13 DEF ImportsInv, Searching

(* An activation that is at its end has gone past all its imports.         *)
LEMMA AtEndAllPassed ==
  ASSUME ImportsInv, stack # <<>>, AtEnd, NEW x \in Imported(graph, Top.mod)
  PROVE  x # target /\ insearch[x]
<1>1. TypeOK /\ Behind
  BY DEF ImportsInv, Searching
<1>2. Top = stack[Len(stack)] /\ Len(stack) \in Nat \ {0} /\ Top.i \in Nat /\ Top.mod \in Modules
  BY <1>1, TopFrame
<1>3. Len(graph.aimports[Top.mod]) \in Nat
  BY <1>1, <1>2, ImportsAreModules DEF TypeOK
<1>4. PICK p \in 1..Len(graph.aimports[Top.mod]) : x = graph.aimports[Top.mod][p]
  BY DEF Imported
<1>5. Passed(Len(stack), p)
  BY <1>2, <1>3, <1>4 DEF Passed, AtEnd
<1> QED
  BY <1>1, <1>2, <1>3, <1>4, <1>5 DEF Behind

(* The search of a module without result, from no marks: not reachable.    *)
LEMMA SearchedInVain ==
  ASSUME ImportsInv, asking # "nothing", stack # <<>>, Len(stack) = 1, AtEnd, Fresh
  PROVE  ~Reaches(graph, this, target)
<1>1. TypeOK /\ Query /\ Followed /\ Explored
  BY DEF ImportsInv, Searching
<1>2. this \in Modules /\ Top.mod = this /\ stack[1].mod = this
  BY <1>1, TopFrame DEF Query, Self, Root, Followed, TypeOK
<1> DEFINE M == {m \in Modules : insearch[m] \/ m = this}
<1>3. ASSUME NEW z \in M, NEW x \in Imported(graph, z)
      PROVE  x # target /\ x \in M
  <2>1. CASE z = this
    BY <1>1, <1>2, <2>1, AtEndAllPassed, ImportsAreModules DEF TypeOK
  <2>2. CASE z # this
    <3>1. Over(z)
      BY <1>2, <2>2 DEF Over
    <3> QED
      BY <1>1, <3>1, ImportsAreModules DEF Explored, TypeOK
  <2> QED
    BY <2>1, <2>2
<1>4. M \in SUBSET Modules /\ this \in M
  BY <1>2
<1> HIDE DEF M
<1> QED
  BY <1>1, <1>2, <1>3, <1>4, ClosedWithout DEF TypeOK

(* imports() returns false to nobody: the search is over.                  *)
LEMMA LastReturnStep ==
  ASSUME ImportsInv, ImportsReturn, Caller = <<>>
  PROVE  ImportsInv'
<1> USE DEF ImportsReturn, memo
<1>1. TypeOK /\ Query /\ Followed /\ Outcome /\ Answers
  BY DEF ImportsInv, Searching
<1>2. stack' = <<>> /\ Len(stack) = 1
  BY <1>1, CallersFrames
<1>3. Top.mod = this
  BY <1>1, <1>2 DEF Top, Followed
<1>4. stack' \in Seq(Frames) /\ Len(stack') = 0
  BY <1>2
<1>5. TypeOK'
  BY <1>1, <1>4 DEF TypeOK, Frames
<1>6. Query'
  BY <1>1, <1>2 DEF Query, Idle, Self, Root
<1>7. Searching'
  BY <1>2, <1>4 DEF Searching, Followed, Behind, Entered, EnteredOnce, Explored
<1>8. SelfTried'
  <2> SUFFICES ASSUME asking = "self" PROVE ~Reaches(graph, this, this)
    BY DEF SelfTried
  <2>1. target = this
    BY <1>1 DEF Query, Self
  <2> QED
    BY <1>2, <2>1, SearchedInVain DEF Fresh
<1>9. asking = "root" => /\ at \in Nat \ {0} /\ at <= Len(graph.amodules)
                         /\ Len(graph.amodules) \in Nat
                         /\ target = graph.amodules[at] /\ target \in graph.roots
  BY <1>1, LenProperties DEF TypeOK, IsGraph, Query, Root
<1>10. Untouched'
  BY <1>9 DEF Untouched, NoRootBefore
<1>11. RootTried'
  <2> SUFFICES ASSUME asking = "root", NEW k \in 1..Len(graph.amodules),
                      Tried(k)', graph.amodules[k] \in graph.roots
               PROVE  /\ graph.amodules[k] \notin Imported(graph, this)
                      /\ NoRootBefore(graph, k) => ~Reaches(graph, this, graph.amodules[k])
    BY DEF RootTried
  <2>1. CASE k = at
    <3>1. graph.amodules[k] \notin Imported(graph, this)
      BY <1>3, <1>9, <2>1, AtEndAllPassed
    <3>2. NoRootBefore(graph, k) => ~Reaches(graph, this, graph.amodules[k])
      BY <1>2, <1>9, <2>1, SearchedInVain DEF Fresh
    <3> QED
      BY <3>1, <3>2
  <2>2. CASE k # at
    <3>1. Tried(k)
      BY <1>9, <2>2 DEF Tried
    <3> QED
      BY <1>1, <3>1 DEF Outcome, RootTried
  <2> QED
    BY <2>1, <2>2
<1>12. Answers'
  BY <1>1 DEF Answers, SelfAnswerExact, RootAnswerSound, NearRootsFound, AnsweredNo
<1> QED
  BY <1>5, <1>6, <1>7, <1>8, <1>10, <1>11, <1>12 DEF ImportsInv, Outcome

(* imports() returns false to its caller, which goes on behind it.         *)
LEMMA ReturnStep ==
  ASSUME ImportsInv, ImportsReturn, Caller # <<>>
  PROVE  ImportsInv'
<1> USE DEF ImportsReturn, memo
<1>1. TypeOK /\ Query /\ Followed /\ Behind /\ Entered /\ Explored /\ Outcome /\ Answers
  BY DEF ImportsInv, Searching
<1>2. /\ Top = stack[Len(stack)] /\ Len(stack) \in Nat \ {0}
      /\ \A j \in 1..Len(stack) : stack[j].mod \in Modules /\ stack[j].i \in Nat \ {0}
  BY <1>1, TopFrame
<1> DEFINE n == Len(stack) - 1
<1>3. /\ Caller \in Seq(Frames) /\ Len(Caller) = n /\ n \in Nat \ {0}
      /\ \A j \in 1..n : Caller[j] = stack[j]
  BY <1>1, <1>2, CallersFrames
<1>4. /\ stack' \in Seq(Frames) /\ stack' # <<>> /\ Len(stack') = n
      /\ \A j \in 1..n :
           /\ stack'[j].mod = stack[j].mod
           /\ stack'[j].i = IF j = n THEN stack[j].i + 1 ELSE stack[j].i
  BY <1>3, AdvancedFrames
<1>5. 1..n \subseteq 1..Len(stack) /\ n # Len(stack) /\ n < Len(stack)
  BY <1>2, <1>3
<1> HIDE DEF n
<1>6. TypeOK'
  BY <1>1, <1>4 DEF TypeOK, Frames
<1>7. Query'
  BY <1>1, <1>4 DEF Query, Idle, Self, Root
<1>8. Followed'
  BY <1>1, <1>3, <1>4, <1>5 DEF Followed
<1>9. Behind'
  <2> SUFFICES ASSUME NEW j \in 1..n, NEW p \in Nat, Passed(j, p)'
               PROVE  LET m == graph.aimports[stack'[j].mod][p] IN m # target /\ insearch[m]
    BY <1>4 DEF Behind
  <2>1. stack'[j].mod = stack[j].mod /\ Passed(j, p)
    BY <1>2, <1>4, <1>5 DEF Passed
  <2> QED
    BY <1>1, <1>5, <2>1 DEF Behind
<1>10. Entered'
  <2>1. 2..n \subseteq 2..Len(stack) /\ 2..n \subseteq 1..n
    BY <1>2, <1>3, <1>5
  <2>2. \A j \in 2..n : stack'[j].mod = stack[j].mod
    BY <1>4, <2>1
  <2>3. \A j \in 2..n : insearch[stack[j].mod]
    BY <1>1, <2>1 DEF Entered
  <2>4. \A j, k \in 2..n : stack[j].mod = stack[k].mod => j = k
    BY <1>1, <2>1 DEF Entered, EnteredOnce
  <2> QED
    BY <1>4, <2>2, <2>3, <2>4 DEF Entered, EnteredOnce
<1>11. Explored'
  <2> SUFFICES ASSUME asking # "nothing", Fresh, NEW m \in Modules, Over(m)',
                      NEW x \in Imported(graph, m)
               PROVE  x # target /\ insearch[x]
    BY DEF Explored, Fresh
  <2>1. CASE m = Top.mod
    BY <2>1, AtEndAllPassed
  <2>2. CASE m # Top.mod
    <3>1. \A j \in 1..Len(stack) : j \in 1..n \/ j = Len(stack)
      BY <1>2 DEF n
    <3>2. Over(m)
      BY <1>2, <1>4, <2>2, <3>1 DEF Over
    <3> QED
      BY <1>1, <3>2 DEF Explored
  <2> QED
    BY <2>1, <2>2
<1>12. Outcome'
  BY <1>1, <1>4 DEF Outcome, SelfTried, Untouched, RootTried, Tried
<1>13. Answers'
  BY <1>1 DEF Answers, SelfAnswerExact, RootAnswerSound, NearRootsFound, AnsweredNo
<1> QED
  BY <1>6, <1>7, <1>8, <1>9, <1>10, <1>11, <1>12, <1>13 DEF ImportsInv, Searching

----------------------------------------------------------------------------
(* The questions.                                                          *)

LEMMA AskSelfStep ==
  ASSUME ImportsInv, NEW m \in Modules, AskSelf(m)
  PROVE  ImportsInv'
<1> USE DEF AskSelf, memo
<1>1. TypeOK /\ Query /\ Outcome /\ Answers
  BY DEF ImportsInv
<1>2. this = NoModule /\ target = NoModule /\ at = 0 /\ stack = <<>>
  BY <1>1 DEF Query, Idle
<1>3. /\ stack' \in Seq(Frames) /\ stack' # <<>> /\ Len(stack') = 1
      /\ stack'[1].mod = m /\ stack'[1].i = 1 /\ target' = m
  BY SearchStarts DEF Search
<1>4. insearch' \in [Modules -> BOOLEAN] /\ \A x \in Modules : ~insearch'[x]
  BY DEF Unmarked
<1>5. TypeOK'
  BY <1>1, <1>3, <1>4, ImportsAssumption DEF TypeOK, Frames
<1>6. Query'
  BY <1>1, <1>2, <1>3 DEF Query, Idle, Self, Root
<1>7. Followed' /\ Behind' /\ Entered'
  BY <1>3 DEF Followed, Behind, Passed, Entered, EnteredOnce
<1>8. Explored'
  BY <1>3, <1>4 DEF Explored, Over
<1>9. Outcome'
  BY <1>3 DEF Outcome, SelfTried, Untouched, RootTried
<1>10. Answers'
  BY <1>1 DEF Answers, SelfAnswerExact, RootAnswerSound, NearRootsFound, AnsweredNo
<1> QED
  BY <1>5, <1>6, <1>7, <1>8, <1>9, <1>10 DEF ImportsInv, Searching

LEMMA AskRootStep ==
  ASSUME ImportsInv, NEW m \in Modules, AskRoot(m)
  PROVE  ImportsInv'
<1> USE DEF AskRoot
<1>1. TypeOK /\ Query /\ Outcome /\ Answers
  BY DEF ImportsInv
<1>2. this = NoModule /\ target = NoModule /\ at = 0 /\ stack = <<>>
  BY <1>1 DEF Query, Idle
<1>3. stack' = <<>> /\ Len(stack') = 0
  BY <1>2
<1>4. insearch' \in [Modules -> BOOLEAN]
  BY DEF Unmarked
<1>5. /\ rootimports' \in [Modules -> 0..2] /\ rootimports'[m] = 1
      /\ \A x \in Modules : x # m => rootimports'[x] = rootimports[x]
  BY <1>1 DEF TypeOK
<1>6. TypeOK'
  BY <1>1, <1>4, <1>5, ImportsAssumption DEF TypeOK
<1>7. Query'
  BY <1>2, <1>5 DEF Query, Idle, Self, Root
<1>8. Searching'
  BY <1>3 DEF Searching, Followed, Behind, Entered, EnteredOnce, Explored
<1>9. Outcome'
  BY DEF Outcome, SelfTried, Untouched, RootTried, Tried
<1>10. Answers'
  <2>1. \A x \in Modules : AnsweredNo(x)' => AnsweredNo(x)
    BY <1>5 DEF AnsweredNo
  <2>2. \A x \in Modules : rootimports'[x] = 2 => rootimports[x] = 2
    BY <1>5
  <2> QED
    BY <1>1, <2>1, <2>2 DEF Answers, SelfAnswerExact, RootAnswerSound, NearRootsFound
<1> QED
  BY <1>6, <1>7, <1>8, <1>9, <1>10 DEF ImportsInv

(* The next module of amodules: a root is looked for, another passed over. *)
LEMMA RootNextStep ==
  ASSUME ImportsInv, RootNext
  PROVE  ImportsInv'
<1> USE DEF RootNext, memo
<1>1. TypeOK /\ Query /\ Outcome /\ Answers
  BY DEF ImportsInv
<1>2. /\ this \in Modules /\ rootimports[this] = 1 /\ this' = this
      /\ at \in Nat /\ Len(graph.amodules) \in Nat /\ at' \in 1..Len(graph.amodules)
      /\ at' = at + 1 /\ graph.amodules[at'] \in Modules
  <2>1. graph.amodules \in Seq(Modules)
    BY <1>1 DEF TypeOK, IsGraph
  <2> QED
    BY <1>1, <2>1, LenProperties, ElementOfSeq DEF Query, Root, TypeOK
<1>3. Answers'
  BY <1>1 DEF Answers, SelfAnswerExact, RootAnswerSound, NearRootsFound, AnsweredNo
<1>4. \A k \in 1..Len(graph.amodules) : Tried(k)' => Tried(k) \/ (k = at' /\ stack' = <<>>)
  BY <1>2 DEF Tried
<1>5. CASE graph.amodules[at'] \in graph.roots
  <2>1. /\ stack' \in Seq(Frames) /\ stack' # <<>> /\ Len(stack') = 1
        /\ stack'[1].mod = this /\ stack'[1].i = 1 /\ target' = graph.amodules[at']
    BY <1>2, <1>5, SearchStarts DEF Search
  <2>2. TypeOK'
    BY <1>1, <1>2, <2>1 DEF TypeOK, Frames
  <2>3. Query'
    BY <1>2, <1>5, <2>1 DEF Query, Idle, Self, Root
  <2>4. Followed' /\ Behind' /\ Entered'
    BY <1>2, <2>1 DEF Followed, Behind, Passed, Entered, EnteredOnce
  <2>5. Explored'
    <3> SUFFICES ASSUME NoRootBefore(graph, at + 1), NEW m \in Modules, Over(m)'
                 PROVE  FALSE
      BY DEF Explored, Fresh
    <3>1. insearch = Unmarked
      BY <1>1 DEF Outcome, Untouched
    <3> QED
      BY <1>2, <2>1, <3>1 DEF Over, Unmarked
  <2>6. Outcome'
    BY <1>1, <1>4, <2>1 DEF Outcome, SelfTried, Untouched, RootTried
  <2> QED
    BY <1>3, <2>2, <2>3, <2>4, <2>5, <2>6 DEF ImportsInv, Searching
<1>6. CASE graph.amodules[at'] \notin graph.roots
  <2>1. stack' = <<>> /\ target' = target /\ Len(stack') = 0
    BY <1>6
  <2>2. TypeOK'
    BY <1>1, <1>2, <2>1 DEF TypeOK
  <2>3. Query'
    BY <1>2, <2>1 DEF Query, Idle, Self, Root
  <2>4. Searching'
    BY <2>1 DEF Searching, Followed, Behind, Entered, EnteredOnce, Explored
  <2>5. Untouched'
    BY <1>1, <1>2, NoRootBeforeLess DEF Outcome, Untouched
  <2>6. SelfTried' /\ RootTried'
    BY <1>1, <1>4, <1>6 DEF Outcome, SelfTried, RootTried
  <2> QED
    BY <1>3, <2>2, <2>3, <2>4, <2>5, <2>6 DEF ImportsInv, Outcome
<1> QED
  BY <1>5, <1>6

(* Every answer clears the marks and forgets the search.                   *)
LEMMA AnswerStep ==
  ASSUME ImportsInv, NEW self \in 0..2, NEW root \in 0..2, Answer(self, root),
         this \in Modules
  PROVE  /\ TypeOK' /\ Query' /\ Searching' /\ Outcome'
         /\ selfimports' = [selfimports EXCEPT ![this] = self]
         /\ rootimports' = [rootimports EXCEPT ![this] = root]
         /\ graph' = graph /\ asking' = "nothing"
         /\ selfimports \in [Modules -> 0..2] /\ rootimports \in [Modules -> 0..2]
<1> USE DEF Answer
<1>1. TypeOK
  BY DEF ImportsInv
<1>2. stack' = <<>> /\ stack' \in Seq(Frames) /\ Len(stack') = 0
  OBVIOUS
<1>3. insearch' \in [Modules -> BOOLEAN] /\ Len(graph.amodules) \in Nat
  BY <1>1, LenProperties DEF Unmarked, TypeOK, IsGraph
<1>4. TypeOK'
  BY <1>1, <1>2, <1>3 DEF TypeOK, Frames
<1>5. Query'
  BY DEF Query, Idle, Self, Root
<1>6. Searching'
  BY <1>2 DEF Searching, Followed, Behind, Entered, EnteredOnce, Explored
<1>7. Outcome'
  BY DEF Outcome, SelfTried, Untouched, RootTried
<1> QED
  BY <1>1, <1>4, <1>5, <1>6, <1>7 DEF TypeOK

LEMMA FoundIsReached ==
  ASSUME ImportsInv, Found
  PROVE  Reaches(graph, this, target)
<1>1. TypeOK /\ Followed
  BY DEF ImportsInv, Searching
<1>2. mi = target /\ mi \in Imported(graph, Top.mod)
  BY <1>1, TheImport DEF Found
<1>3. Top.mod = this \/ Reaches(graph, this, Top.mod)
  BY <1>1, TopFrame DEF Found, Followed
<1> QED
  BY <1>2, <1>3, ReachesNext

LEMMA SelfAnswerStep ==
  ASSUME ImportsInv, SelfFound \/ SelfNotFound
  PROVE  ImportsInv'
<1>1. TypeOK /\ Query /\ Outcome /\ Answers
  BY DEF ImportsInv
<1>2. asking = "self" /\ this \in Modules /\ target = this
  BY <1>1 DEF SelfFound, SelfNotFound, Query, Self
<1>3. rootimports[this] \in 0..2
  BY <1>1, <1>2 DEF TypeOK
<1>4. PICK self \in {1, 2} :
        /\ Answer(self, rootimports[this])
        /\ self = 2 => Reaches(graph, this, this)
        /\ self = 1 => ~Reaches(graph, this, this)
  BY <1>1, <1>2, FoundIsReached DEF SelfFound, SelfNotFound, Outcome, SelfTried
<1>5. /\ TypeOK' /\ Query' /\ Searching' /\ Outcome'
      /\ selfimports' = [selfimports EXCEPT ![this] = self]
      /\ rootimports' = rootimports
      /\ graph' = graph /\ asking' = "nothing"
      /\ selfimports \in [Modules -> 0..2]
  BY <1>2, <1>3, <1>4, AnswerStep
<1>6. SelfAnswerExact'
  BY <1>1, <1>2, <1>4, <1>5 DEF Answers, SelfAnswerExact
<1>7. RootAnswerSound' /\ NearRootsFound'
  BY <1>1, <1>2, <1>5 DEF Answers, RootAnswerSound, NearRootsFound, AnsweredNo
<1> QED
  BY <1>5, <1>6, <1>7 DEF ImportsInv, Answers

LEMMA RootAnswerStep ==
  ASSUME ImportsInv, RootFound \/ RootNotFound
  PROVE  ImportsInv'
<1>1. TypeOK /\ Query /\ Outcome /\ Answers
  BY DEF ImportsInv
<1>2. asking = "root" /\ this \in Modules
  BY <1>1 DEF RootFound, RootNotFound, Query, Root
<1>3. selfimports[this] \in 0..2
  BY <1>1, <1>2 DEF TypeOK
<1>4. PICK root \in {1, 2} :
        /\ Answer(selfimports[this], root)
        /\ root = 2 => RootFound
        /\ root = 1 => RootNotFound
  BY DEF RootFound, RootNotFound
<1>5. /\ TypeOK' /\ Query' /\ Searching' /\ Outcome'
      /\ rootimports' = [rootimports EXCEPT ![this] = root]
      /\ selfimports' = selfimports
      /\ graph' = graph /\ asking' = "nothing"
      /\ rootimports \in [Modules -> 0..2]
  BY <1>2, <1>3, <1>4, AnswerStep
<1>6. SelfAnswerExact'
  BY <1>1, <1>5 DEF Answers, SelfAnswerExact
<1>7. \A m \in Modules : m # this =>
        rootimports'[m] = rootimports[m] /\ (AnsweredNo(m)' => AnsweredNo(m))
  BY <1>2, <1>5 DEF AnsweredNo
<1>8. CASE root = 2
  <2>1. target \in graph.roots /\ Reaches(graph, this, target)
    BY <1>1, <1>2, <1>4, <1>8, FoundIsReached DEF RootFound, Found, Query, Root
  <2>2. RootAnswerSound'
    BY <1>1, <1>5, <1>7, <2>1 DEF Answers, RootAnswerSound
  <2>3. NearRootsFound'
    BY <1>1, <1>5, <1>7, <1>8 DEF Answers, NearRootsFound, AnsweredNo
  <2> QED
    BY <1>5, <1>6, <2>2, <2>3 DEF ImportsInv, Answers
<1>9. CASE root = 1
  <2>1. stack = <<>> /\ at = Len(graph.amodules) /\ at \in Nat
    BY <1>1, <1>4, <1>9, LenProperties DEF RootNotFound, TypeOK, IsGraph
  <2>2. ASSUME NEW k \in 1..Len(graph.amodules), graph.amodules[k] \in graph.roots
        PROVE  /\ graph.amodules[k] \notin Imported(graph, this)
               /\ NoRootBefore(graph, k) => ~Reaches(graph, this, graph.amodules[k])
    BY <1>1, <1>2, <2>1, <2>2 DEF Outcome, RootTried, Tried
  <2>3. ASSUME NEW r \in graph.roots
        PROVE  /\ r \notin Imported(graph, this)
               /\ IsFirstRoot(graph, r) => ~Reaches(graph, this, r)
    <3>1. \E k \in 1..Len(graph.amodules) : graph.amodules[k] = r
      BY <1>1 DEF TypeOK, IsGraph
    <3> QED
      BY <2>2, <3>1 DEF IsFirstRoot
  <2>4. NearRootsFound'
    BY <1>1, <1>5, <1>7, <2>3 DEF Answers, NearRootsFound
  <2>5. RootAnswerSound'
    BY <1>1, <1>2, <1>5, <1>7, <1>9 DEF Answers, RootAnswerSound
  <2> QED
    BY <1>5, <1>6, <2>4, <2>5 DEF ImportsInv, Answers
<1> QED
  BY <1>8, <1>9

----------------------------------------------------------------------------
(* The invariant and what follows from it.                                 *)

LEMMA ImportsInvHolds == Spec => []ImportsInv
<1>1. Init => ImportsInv
  <2> SUFFICES ASSUME Init PROVE ImportsInv
    OBVIOUS
  <2> USE DEF Init
  <2>1. IsGraph(graph) /\ Len(graph.amodules) \in Nat
    BY ImportsAssumption, LenProperties DEF IsGraph
  <2>2. stack \in Seq(Frames) /\ Len(stack) = 0
    OBVIOUS
  <2>3. TypeOK
    BY <2>1, <2>2, ImportsAssumption DEF TypeOK, Frames, Unmarked
  <2>4. Query /\ Outcome
    BY DEF Query, Idle, Self, Root, Outcome, SelfTried, Untouched, RootTried
  <2>5. Searching
    BY <2>2 DEF Searching, Followed, Behind, Entered, EnteredOnce, Explored
  <2>6. Answers
    BY DEF Answers, SelfAnswerExact, RootAnswerSound, NearRootsFound, AnsweredNo
  <2> QED
    BY <2>3, <2>4, <2>5, <2>6 DEF ImportsInv
<1>2. ImportsInv /\ [Next]_vars => ImportsInv'
  <2> SUFFICES ASSUME ImportsInv, [Next]_vars PROVE ImportsInv'
    OBVIOUS
  <2>1. CASE ImportsSkip
    BY <2>1, SkipStep
  <2>2. CASE ImportsFollow
    BY <2>2, FollowStep
  <2>3. CASE ImportsReturn
    BY <2>3, LastReturnStep, ReturnStep
  <2>4. CASE SelfFound \/ SelfNotFound
    BY <2>4, SelfAnswerStep
  <2>5. CASE RootNext
    BY <2>5, RootNextStep
  <2>6. CASE RootFound \/ RootNotFound
    BY <2>6, RootAnswerStep
  <2>7. CASE Ask
    BY <2>7, AskSelfStep, AskRootStep DEF Ask
  <2>8. CASE UNCHANGED vars
    BY <2>8 DEF vars, ImportsInv, TypeOK, Query, Idle, Self, Root, Searching, Followed,
       Behind, Passed, Entered, EnteredOnce, Explored, Over, Fresh, Outcome, SelfTried,
       Untouched, RootTried, Tried, Answers, SelfAnswerExact, RootAnswerSound,
       NearRootsFound, AnsweredNo
  <2> QED
    BY <2>1, <2>2, <2>3, <2>4, <2>5, <2>6, <2>7, <2>8 DEF Next, Step
<1> QED
  BY <1>1, <1>2, PTL DEF Spec

(* Type correctness.                                                       *)
THEOREM ImportsTyped == Spec => []TypeOK
<1>1. ImportsInv => TypeOK
  BY DEF ImportsInv
<1> QED
  BY <1>1, ImportsInvHolds, PTL

(* In every import graph, however its cycles lie, imports() is active at   *)
(* most once for each module below the one that is asked, and when the     *)
(* question is answered Module::search meets none of its marks.            *)
THEOREM MarksEnd == Spec => []MarksDelimitSearch
<1>1. ImportsInv => EnteredOnce
  BY DEF ImportsInv, Searching, Entered
<1>2. ImportsInv => MarksCleared
  BY DEF ImportsInv, Query, Idle, MarksCleared
<1> QED
  BY <1>1, <1>2, ImportsInvHolds, PTL DEF MarksDelimitSearch

(* selfImports() is right, both when it says yes and when it says no.      *)
THEOREM SelfImportsExact == Spec => []SelfAnswerExact
<1>1. ImportsInv => SelfAnswerExact
  BY DEF ImportsInv, Answers
<1> QED
  BY <1>1, ImportsInvHolds, PTL

(* rootImports() is right when it says yes, and finds the first root and   *)
(* every root imported directly: the marks left from one root to the next  *)
(* can only hide the others.                                               *)
THEOREM RootImportsNear == Spec => []RootAnswerNear
<1>1. ImportsInv => RootAnswerSound /\ NearRootsFound
  BY DEF ImportsInv, Answers
<1> QED
  BY <1>1, ImportsInvHolds, PTL DEF RootAnswerNear
=============================================================================
