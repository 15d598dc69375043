------------------------- MODULE ScopeStackProofs -------------------------
(***************************************************************************)
(* For any number of scopes, declarations and nested calls: no scope that  *)
(* can still be reached is given back, and the free list is sound.         *)
(*                                                                         *)
(* The invariant says what keeps a scope alive.  A current scope, or one   *)
(* that encloses it, is anchored: it is marked, or it belongs to a call    *)
(* further out, which pops it later.  What is marked is closed under       *)
(* enclosing, and what declarations keep is marked.  A call that pops its  *)
(* own unmarked scope is the innermost one, so nothing is anchored in it.  *)
(***************************************************************************)
EXTENDS ScopeStack, SequenceTheorems, TLAPS

Pointers == Scopes \cup {Nil}

HeapType(h) ==
    h \in [enclosing : [Scopes -> Pointers], allocated : SUBSET Scopes,
           nofree : SUBSET Scopes, free : SUBSET Scopes, freelist : Pointers]

Entries == [scope : Scopes, kind : Kinds]

Stacks == Seq(Entries)

\* The scope outlives the i-th current one.
Anchored(h, st, s, i) ==
    s \in h.nofree \/ \E j \in 1..i - 1 : Own(st[j]) /\ st[j].scope = s

AnchoredPointer(h, st, p, i) == p # Nil => Anchored(h, st, p, i)

\* Nobody has two own entries for one scope.
Distinct(st) ==
    \A i, j \in 1..Len(st) :
        i # j /\ Own(st[i]) /\ Own(st[j]) => st[i].scope # st[j].scope

InUse(h, st) == \A i \in 1..Len(st) : st[i].scope \in h.allocated \ h.free

UsesAnchored(h, st) ==
    \A i \in 1..Len(st) : Own(st[i]) \/ Anchored(h, st, st[i].scope, i)

EnclosingAnchored(h, st) ==
    \A i \in 1..Len(st) : AnchoredPointer(h, st, h.enclosing[st[i].scope], i)

StackInv(h, st) ==
    /\ Distinct(st)
    /\ InUse(h, st)
    /\ UsesAnchored(h, st)
    /\ EnclosingAnchored(h, st)

MarkedInv(h) == h.nofree \subseteq h.allocated \ h.free /\ Closed(h.enclosing, h.nofree)

ListSound(h) ==
    IF h.freelist = Nil THEN h.free = {}
    ELSE /\ Chain(h.enclosing, h.freelist) = h.free
         /\ \E s \in h.free : h.enclosing[s] = Nil

FreeInv(h) == h.free \subseteq h.allocated /\ ListSound(h)

KeptInv(h, kept) == \A d \in Declarations : kept[d] # Nil => kept[d] \in h.nofree

CallersInv(h, st) ==
    \A i \in 1..Len(st) - 1 :
        st[i + 1].kind \in {"module", "push"} => h.enclosing[st[i + 1].scope] = st[i].scope

\* All of the invariant but what it says of the declarations.
Sound(h, st) ==
    /\ HeapType(h)
    /\ st \in Stacks
    /\ StackInv(h, st)
    /\ CallersInv(h, st)
    /\ MarkedInv(h)
    /\ FreeInv(h)

RestOK ==
    /\ _scope \in [Declarations -> Pointers]
    /\ depscope \in [Members -> Pointers]
    /\ status \in {"running", "pushed itself", "pushed on a free one", "astray"}

Inv == Sound(heap, stack) /\ KeptInv(heap, _scope) /\ RestOK

-----------------------------------------------------------------------------
(* The scopes that enclose a scope *)

Enclosings == [Scopes -> Pointers]

\* A scope is in its own chain.
LEMMA ChainSelf ==
    ASSUME NEW e, NEW s \in Scopes
    PROVE  s \in Chain(e, s)
  BY DEF Chain

\* A chain goes on to its end.
LEMMA ChainClosed ==
    ASSUME NEW e \in Enclosings, NEW s \in Scopes
    PROVE  Closed(e, Chain(e, s)) /\ Chain(e, s) \in SUBSET Scopes
<1> SUFFICES ASSUME NEW t \in Chain(e, s), e[t] # Nil
             PROVE  e[t] \in Chain(e, s)
  BY DEF Closed, Chain
<1>1. t \in Scopes /\ e[t] \in Scopes
  BY DEF Chain, Enclosings, Pointers
<1>2. ASSUME NEW S \in SUBSET Scopes, s \in S, Closed(e, S)
      PROVE  e[t] \in S
  <2>1. t \in S
    BY <1>2 DEF Chain
  <2> QED  BY <2>1, <1>2 DEF Closed
<1> QED  BY <1>1, <1>2 DEF Chain

\* It has nothing that a closed set does not need.
LEMMA ChainLeast ==
    ASSUME NEW e, NEW s, NEW S \in SUBSET Scopes, s \in S, Closed(e, S)
    PROVE  Chain(e, s) \subseteq S
  BY DEF Chain

\* The chain of a scope that nothing encloses.
LEMMA ChainEnd ==
    ASSUME NEW e, NEW s \in Scopes, e[s] = Nil
    PROVE  Chain(e, s) = {s}
<1>1. Closed(e, {s})
  BY DEF Closed
<1> QED  BY <1>1, ChainSelf, ChainLeast

\* The chain of a scope is the scope and the chain of the one around it.
LEMMA ChainStep ==
    ASSUME NEW e \in Enclosings, NEW s \in Scopes, NEW t \in Scopes, e[s] = t
    PROVE  Chain(e, s) = {s} \cup Chain(e, t)
<1>1. Closed(e, Chain(e, s)) /\ Chain(e, s) \in SUBSET Scopes
  BY ChainClosed
<1>2. Closed(e, Chain(e, t)) /\ Chain(e, t) \in SUBSET Scopes
  BY ChainClosed
<1>3. s \in Chain(e, s) /\ t \in Chain(e, t)
  BY ChainSelf
<1>4. t \in Chain(e, s)
  BY <1>1, <1>3, NilAssumption DEF Closed
<1>5. Chain(e, t) \subseteq Chain(e, s)
  BY <1>1, <1>4, ChainLeast
<1>6. Closed(e, {s} \cup Chain(e, t))
  BY <1>2, <1>3 DEF Closed
<1>7. Chain(e, s) \subseteq {s} \cup Chain(e, t)
  BY <1>6, <1>2, ChainLeast
<1> QED  BY <1>3, <1>5, <1>7

\* A chain inside a closed set depends on nothing outside it.
LEMMA ChainFrame ==
    ASSUME NEW e \in Enclosings, NEW f \in Enclosings, NEW T \in SUBSET Scopes,
           Closed(e, T), \A t \in T : f[t] = e[t], NEW s \in T
    PROVE  Chain(f, s) = Chain(e, s)
<1>1. Closed(f, T)
  BY DEF Closed
<1>2. Chain(e, s) \subseteq T /\ Chain(f, s) \subseteq T
  BY <1>1, ChainLeast
<1>3. Closed(e, Chain(e, s)) /\ Closed(f, Chain(f, s))
  BY ChainClosed
<1>4. Closed(f, Chain(e, s)) /\ Closed(e, Chain(f, s))
  BY <1>2, <1>3 DEF Closed
<1>5. s \in Chain(e, s) /\ s \in Chain(f, s)
  BY ChainSelf
<1>6. Chain(e, s) \in SUBSET Scopes /\ Chain(f, s) \in SUBSET Scopes
  BY <1>2
<1> QED  BY <1>4, <1>5, <1>6, ChainLeast

\* A chain that comes to an end does not come back to its beginning.
LEMMA ChainAcyclic ==
    ASSUME NEW e \in Enclosings, NEW s \in Scopes, NEW t \in Scopes, e[s] = t,
           NEW z \in Chain(e, s), e[z] = Nil
    PROVE  s \notin Chain(e, t)
<1> SUFFICES ASSUME s \in Chain(e, t)
             PROVE  FALSE
  OBVIOUS
<1> DEFINE S == {x \in Scopes : s \in Chain(e, x)}
<1>1. ASSUME NEW x \in S, e[x] # Nil
      PROVE  e[x] \in S
  <2>1. PICK y \in Scopes : y = e[x]
    BY <1>1 DEF Enclosings, Pointers
  <2>2. Chain(e, x) = {x} \cup Chain(e, y)
    BY <2>1, ChainStep
  <2>3. CASE s \in Chain(e, y)
    BY <2>1, <2>3
  <2>4. CASE s = x
    BY <2>1, <2>4
  <2> QED  BY <2>2, <2>3, <2>4
<1>2. Closed(e, S)
  BY <1>1 DEF Closed
<1>3. s \in S
  BY ChainSelf
<1>4. z \in S
  BY <1>2, <1>3, ChainLeast
<1>5. z \in Scopes /\ s \in Chain(e, z)
  BY <1>4
<1>6. s = z
  BY <1>5, ChainEnd
<1> QED  BY <1>6, NilAssumption

-----------------------------------------------------------------------------
(* The free list *)

\* The heap g is h with the scope s handed out.
Handed(h, s, g) ==
    /\ HeapType(g)
    /\ s \in Available(h)
    /\ g.allocated = h.allocated \cup {s}
    /\ g.free = h.free \ {s}
    /\ g.freelist = (IF h.freelist # Nil THEN h.enclosing[s] ELSE Nil)
    /\ \A x \in Scopes : x # s => g.enclosing[x] = h.enclosing[x] /\ (x \in g.nofree <=> x \in h.nofree)

LEMMA HeapFields ==
    ASSUME NEW h, HeapType(h)
    PROVE  /\ h.enclosing \in Enclosings
           /\ h.allocated \in SUBSET Scopes
           /\ h.nofree \in SUBSET Scopes
           /\ h.free \in SUBSET Scopes
           /\ h.freelist \in Pointers
  BY DEF HeapType, Enclosings

\* alloc() hands out a scope that is free or new.
LEMMA AvailableScope ==
    ASSUME NEW h, HeapType(h), FreeInv(h), NEW s \in Available(h)
    PROVE  s \in Scopes /\ s \notin h.allocated \ h.free
<1>1. CASE h.freelist = Nil
  BY <1>1 DEF Available
<1>2. CASE h.freelist # Nil
  <2>1. s = h.freelist /\ s \in Scopes
    BY <1>2, HeapFields DEF Available, Pointers
  <2>2. s \in h.free
    BY <1>2, <2>1, ChainSelf DEF FreeInv, ListSound
  <2> QED  BY <2>1, <2>2
<1> QED  BY <1>1, <1>2

LEMMA InitializedHanded ==
    ASSUME NEW h, HeapType(h), FreeInv(h), NEW s \in Available(h), NEW p \in Pointers
    PROVE  /\ Handed(h, s, Initialized(h, s, p))
           /\ Initialized(h, s, p).enclosing[s] = p
           /\ s \notin Initialized(h, s, p).nofree
<1>1. s \in Scopes
  BY AvailableScope
<1>2. PICK g : g = Initialized(h, s, p)
  OBVIOUS
<1>3. /\ g.enclosing = [h.enclosing EXCEPT ![s] = p]
      /\ g.nofree = h.nofree \ {s}
      /\ g.allocated = h.allocated \cup {s}
      /\ g.free = h.free \ {s}
      /\ g.freelist = (IF h.freelist # Nil THEN h.enclosing[s] ELSE Nil)
      /\ g = [enclosing |-> g.enclosing, allocated |-> g.allocated, nofree |-> g.nofree,
              free |-> g.free, freelist |-> g.freelist]
  BY <1>1, <1>2 DEF Initialized, alloc, HeapType
<1>4. HeapType(g)
  BY <1>1, <1>3, HeapFields DEF HeapType, Enclosings, Pointers
<1>5. g.enclosing[s] = p /\ \A x \in Scopes : x # s => g.enclosing[x] = h.enclosing[x]
  BY <1>1, <1>3, HeapFields DEF Enclosings
<1>6. Handed(h, s, g)
  BY <1>3, <1>4, <1>5 DEF Handed
<1> QED  BY <1>2, <1>3, <1>5, <1>6

LEMMA CopyHanded ==
    ASSUME NEW h, HeapType(h), FreeInv(h), NEW s \in Available(h), NEW o \in Scopes
    PROVE  /\ Handed(h, s, copy(h, s, o))
           /\ copy(h, s, o).enclosing[s] = h.enclosing[o]
           /\ s \in copy(h, s, o).nofree <=> o \in h.nofree
<1>1. s \in Scopes
  BY AvailableScope
<1>2. h.enclosing[o] \in Pointers
  BY HeapFields DEF Enclosings
<1>3. PICK N \in SUBSET Scopes : N = IF o \in h.nofree THEN h.nofree \cup {s} ELSE h.nofree \ {s}
  BY <1>1, HeapFields
<1>4. /\ s \in N <=> o \in h.nofree
      /\ \A x \in Scopes : x # s => (x \in N <=> x \in h.nofree)
  BY <1>3
<1>5. copy(h, s, o) = [alloc(h, s) EXCEPT !.enclosing[s] = h.enclosing[o], !.nofree = N]
  BY <1>3, HeapFields DEF copy, alloc, HeapType
<1>6. PICK g : g = copy(h, s, o)
  OBVIOUS
<1>7. /\ g.enclosing = [h.enclosing EXCEPT ![s] = h.enclosing[o]]
      /\ g.nofree = N
      /\ g.allocated = h.allocated \cup {s}
      /\ g.free = h.free \ {s}
      /\ g.freelist = (IF h.freelist # Nil THEN h.enclosing[s] ELSE Nil)
      /\ g = [enclosing |-> g.enclosing, allocated |-> g.allocated, nofree |-> g.nofree,
              free |-> g.free, freelist |-> g.freelist]
  BY <1>1, <1>5, <1>6 DEF alloc, HeapType
<1>8. HeapType(g)
  BY <1>1, <1>2, <1>7, HeapFields DEF HeapType, Enclosings, Pointers
<1>9. g.enclosing[s] = h.enclosing[o] /\ \A x \in Scopes : x # s => g.enclosing[x] = h.enclosing[x]
  BY <1>1, <1>2, <1>7, HeapFields DEF Enclosings
<1>10. Handed(h, s, g)
  BY <1>4, <1>7, <1>8, <1>9 DEF Handed
<1> QED  BY <1>4, <1>6, <1>7, <1>9, <1>10

\* The rest of the list is what is still free.
LEMMA HandedList ==
    ASSUME NEW h, HeapType(h), FreeInv(h), NEW s, NEW g, Handed(h, s, g)
    PROVE  FreeInv(g)
<1>1. s \in Scopes /\ s \in Available(h)
  BY AvailableScope DEF Handed
<1>2. g.free \subseteq g.allocated
  BY DEF Handed, FreeInv
<1>3. CASE h.freelist = Nil
  BY <1>2, <1>3 DEF Handed, FreeInv, ListSound
<1>4. CASE h.freelist # Nil
  <2>1. s = h.freelist
    BY <1>4 DEF Available, Handed
  <2>2. /\ Chain(h.enclosing, s) = h.free
        /\ \E z \in h.free : h.enclosing[z] = Nil
    BY <1>4, <2>1 DEF FreeInv, ListSound
  <2>3. PICK z \in Chain(h.enclosing, s) : h.enclosing[z] = Nil
    BY <2>2
  <2>4. g.freelist = h.enclosing[s]
    BY <1>4 DEF Handed
  <2>5. h.enclosing \in Enclosings /\ g.enclosing \in Enclosings /\ h.free \in SUBSET Scopes
    BY HeapFields DEF Handed
  <2>6. CASE h.enclosing[s] = Nil
    <3>1. h.free = {s}
      BY <1>1, <2>2, <2>6, ChainEnd
    <3>2. g.free = {}
      BY <3>1 DEF Handed
    <3> QED  BY <1>2, <2>4, <2>6, <3>2 DEF FreeInv, ListSound
  <2>7. CASE h.enclosing[s] # Nil
    <3>1. PICK t \in Scopes : h.enclosing[s] = t
      BY <1>1, <2>5, <2>7 DEF Enclosings, Pointers
    <3>2. Chain(h.enclosing, s) = {s} \cup Chain(h.enclosing, t)
      BY <1>1, <2>5, <3>1, ChainStep
    <3>3. s \notin Chain(h.enclosing, t)
      BY <1>1, <2>3, <2>5, <3>1, ChainAcyclic
    <3>4. Chain(h.enclosing, t) = g.free
      BY <2>2, <3>2, <3>3 DEF Handed
    <3>5. Closed(h.enclosing, Chain(h.enclosing, t)) /\ Chain(h.enclosing, t) \in SUBSET Scopes
      BY <2>5, ChainClosed
    <3>6. \A x \in Chain(h.enclosing, t) : g.enclosing[x] = h.enclosing[x]
      BY <3>3, <3>5 DEF Handed
    <3>7. t \in Chain(h.enclosing, t)
      BY ChainSelf
    <3>8. Chain(g.enclosing, t) = Chain(h.enclosing, t)
      BY <2>5, <3>5, <3>6, <3>7, ChainFrame
    <3>9. z \in g.free /\ g.enclosing[z] = Nil
      BY <2>3, <2>7, <3>2, <3>4, <3>6
    <3>10. g.freelist = t /\ t # Nil
      BY <2>4, <3>1, <2>7
    <3> QED  BY <1>2, <3>4, <3>8, <3>9, <3>10 DEF FreeInv, ListSound
  <2> QED  BY <2>6, <2>7
<1> QED  BY <1>3, <1>4

-----------------------------------------------------------------------------
(* The stack *)

LEMMA StackElement ==
    ASSUME NEW st \in Stacks, NEW i \in 1..Len(st)
    PROVE  st[i] \in Entries /\ st[i].scope \in Scopes /\ st[i].kind \in Kinds
<1>1. st[i] \in Entries
  BY DEF Stacks
<1> QED  BY <1>1 DEF Entries

\* A scope that is handed out is not one that anybody has.
LEMMA HandedApart ==
    ASSUME NEW h, HeapType(h), FreeInv(h), MarkedInv(h), NEW st, InUse(h, st),
           NEW s, NEW g, Handed(h, s, g)
    PROVE  /\ s \in Scopes
           /\ s \notin h.nofree
           /\ \A i \in 1..Len(st) : st[i].scope # s
           /\ s \in g.allocated \ g.free
<1>1. s \in Available(h)
  BY DEF Handed
<1>2. s \in Scopes /\ s \notin h.allocated \ h.free
  BY <1>1, AvailableScope
<1> QED  BY <1>2 DEF MarkedInv, InUse, Handed

LEMMA HandedMarked ==
    ASSUME NEW h, HeapType(h), FreeInv(h), MarkedInv(h), NEW s \in Scopes, NEW g, Handed(h, s, g),
           s \notin h.nofree,
           s \in g.nofree => g.enclosing[s] = Nil \/ g.enclosing[s] \in h.nofree
    PROVE  MarkedInv(g)
<1>0. g.nofree \in SUBSET Scopes /\ h.nofree \in SUBSET Scopes
  BY HeapFields DEF Handed
<1>1. ASSUME NEW x \in g.nofree
      PROVE  x \in g.allocated \ g.free
  <2>1. CASE x = s
    BY <2>1 DEF Handed
  <2>2. CASE x # s
    <3>1. x \in h.nofree
      BY <1>0, <2>2 DEF Handed
    <3> QED  BY <3>1, <2>2 DEF Handed, MarkedInv
  <2> QED  BY <2>1, <2>2
<1>2. ASSUME NEW x \in g.nofree, g.enclosing[x] # Nil
      PROVE  g.enclosing[x] \in g.nofree
  <2>1. g.enclosing[x] \in h.nofree
    <3>1. CASE x = s
      BY <1>2, <3>1
    <3>2. CASE x # s
      <4>1. x \in h.nofree /\ g.enclosing[x] = h.enclosing[x]
        BY <1>0, <3>2 DEF Handed
      <4> QED  BY <1>2, <4>1 DEF MarkedInv, Closed
    <3> QED  BY <3>1, <3>2
  <2>2. g.enclosing[x] # s /\ g.enclosing[x] \in Scopes
    BY <2>1, <1>0
  <2> QED  BY <2>1, <2>2 DEF Handed
<1> QED  BY <1>1, <1>2 DEF MarkedInv, Closed

LEMMA HandedAnchored ==
    ASSUME NEW h, HeapType(h), NEW s, NEW g, Handed(h, s, g), s \notin h.nofree,
           NEW st, NEW p \in Scopes, NEW i \in Nat, Anchored(h, st, p, i)
    PROVE  Anchored(g, st, p, i)
<1>1. CASE p \in h.nofree
  BY <1>1 DEF Anchored, Handed
<1>2. CASE p \notin h.nofree
  BY <1>2 DEF Anchored
<1> QED  BY <1>1, <1>2

LEMMA HandedStack ==
    ASSUME NEW h, HeapType(h), FreeInv(h), MarkedInv(h), NEW st \in Stacks, StackInv(h, st),
           NEW s, NEW g, Handed(h, s, g)
    PROVE  StackInv(g, st)
<1>1. /\ s \in Scopes
      /\ s \notin h.nofree
      /\ \A i \in 1..Len(st) : st[i].scope # s
  BY HandedApart DEF StackInv
<1>2. ASSUME NEW i \in 1..Len(st)
      PROVE  /\ st[i].scope \in g.allocated \ g.free
             /\ Own(st[i]) \/ Anchored(g, st, st[i].scope, i)
             /\ AnchoredPointer(g, st, g.enclosing[st[i].scope], i)
  <2>1. st[i].scope \in Scopes /\ st[i].scope # s /\ i \in Nat
    BY <1>1, StackElement
  <2>2. st[i].scope \in g.allocated \ g.free
    BY <2>1 DEF StackInv, InUse, Handed
  <2>3. Own(st[i]) \/ Anchored(g, st, st[i].scope, i)
    BY <1>1, <2>1, HandedAnchored DEF StackInv, UsesAnchored
  <2>4. g.enclosing[st[i].scope] = h.enclosing[st[i].scope]
    BY <2>1 DEF Handed
  <2>5. h.enclosing[st[i].scope] # Nil => h.enclosing[st[i].scope] \in Scopes
    BY <2>1, HeapFields DEF Enclosings, Pointers
  <2>6. AnchoredPointer(g, st, g.enclosing[st[i].scope], i)
    BY <1>1, <2>1, <2>4, <2>5, HandedAnchored DEF StackInv, EnclosingAnchored, AnchoredPointer
  <2> QED  BY <2>2, <2>3, <2>6
<1> QED  BY <1>2 DEF StackInv, InUse, UsesAnchored, EnclosingAnchored

LEMMA AppendElements ==
    ASSUME NEW st \in Stacks, NEW e \in Entries
    PROVE  /\ Append(st, e) \in Stacks
           /\ Len(Append(st, e)) = Len(st) + 1
           /\ Len(st) \in Nat
           /\ \A i \in 1..Len(st) : Append(st, e)[i] = st[i]
           /\ Append(st, e)[Len(st) + 1] = e
  BY DEF Stacks

\* A stack with one more entry, whose scope and what encloses it are anchored.
LEMMA AppendStack ==
    ASSUME NEW h, NEW st \in Stacks, StackInv(h, st), NEW e \in Entries,
           e.scope \in h.allocated \ h.free,
           Own(e) => \A i \in 1..Len(st) : st[i].scope # e.scope,
           Own(e) \/ Anchored(h, st, e.scope, Len(st) + 1),
           AnchoredPointer(h, st, h.enclosing[e.scope], Len(st) + 1)
    PROVE  StackInv(h, Append(st, e))
<1> DEFINE ts == Append(st, e)
           n == Len(st)
<1>1. /\ ts \in Stacks /\ Len(ts) = n + 1 /\ n \in Nat
      /\ \A i \in 1..n : ts[i] = st[i]
      /\ ts[n + 1] = e
  BY AppendElements
<1> HIDE DEF ts, n
<1>2. ASSUME NEW p, NEW i \in 1..n + 1, Anchored(h, st, p, i)
      PROVE  Anchored(h, ts, p, i)
  BY <1>1, <1>2 DEF Anchored
<1>3. ASSUME NEW i \in 1..n + 1
      PROVE  /\ ts[i].scope \in h.allocated \ h.free
             /\ Own(ts[i]) \/ Anchored(h, ts, ts[i].scope, i)
             /\ AnchoredPointer(h, ts, h.enclosing[ts[i].scope], i)
  <2>1. CASE i = n + 1
    BY <1>1, <1>2, <2>1 DEF AnchoredPointer, n
  <2>2. CASE i # n + 1
    <3>1. i \in 1..n /\ ts[i] = st[i]
      BY <1>1, <2>2
    <3>2. /\ st[i].scope \in h.allocated \ h.free
          /\ Own(st[i]) \/ Anchored(h, st, st[i].scope, i)
          /\ AnchoredPointer(h, st, h.enclosing[st[i].scope], i)
      BY <3>1 DEF StackInv, InUse, UsesAnchored, EnclosingAnchored, n
    <3> QED  BY <1>2, <3>1, <3>2 DEF AnchoredPointer
  <2> QED  BY <2>1, <2>2
<1>4. Distinct(ts)
  <2> SUFFICES ASSUME NEW i \in 1..n + 1, NEW j \in 1..n + 1, i < j, Own(ts[i]), Own(ts[j])
               PROVE  ts[i].scope # ts[j].scope
    BY <1>1 DEF Distinct
  <2>1. i \in 1..n /\ ts[i] = st[i]
    BY <1>1
  <2>2. CASE j = n + 1
    BY <1>1, <2>1, <2>2 DEF n
  <2>3. CASE j # n + 1
    <3>1. j \in 1..n /\ ts[j] = st[j]
      BY <1>1, <2>3
    <3> QED  BY <2>1, <3>1 DEF StackInv, Distinct, n
  <2> QED  BY <2>2, <2>3
<1>5. StackInv(h, ts)
  BY <1>1, <1>3, <1>4 DEF StackInv, InUse, UsesAnchored, EnclosingAnchored
<1> QED  BY <1>5 DEF ts

\* What is anchored in the whole stack is in use, and so is what encloses it.
LEMMA AnchoredInUse ==
    ASSUME NEW h, HeapType(h), MarkedInv(h), NEW st \in Stacks, StackInv(h, st),
           NEW s, Anchored(h, st, s, Len(st) + 1)
    PROVE  /\ s \in Scopes
           /\ s \in h.allocated \ h.free
           /\ AnchoredPointer(h, st, h.enclosing[s], Len(st) + 1)
<1>1. CASE s \in h.nofree
  <2>1. s \in Scopes /\ s \in h.allocated \ h.free
    BY <1>1, HeapFields DEF MarkedInv
  <2>2. h.enclosing[s] # Nil => h.enclosing[s] \in h.nofree
    BY <1>1 DEF MarkedInv, Closed
  <2> QED  BY <2>1, <2>2 DEF AnchoredPointer, Anchored
<1>2. ASSUME NEW j \in 1..Len(st), st[j].scope = s
      PROVE  /\ s \in Scopes
             /\ s \in h.allocated \ h.free
             /\ AnchoredPointer(h, st, h.enclosing[s], Len(st) + 1)
  <2>1. s \in Scopes /\ s \in h.allocated \ h.free
    BY <1>2, StackElement DEF StackInv, InUse
  <2>2. AnchoredPointer(h, st, h.enclosing[s], j)
    BY <1>2 DEF StackInv, EnclosingAnchored
  <2>3. Len(st) \in Nat
    BY DEF Stacks
  <2>4. AnchoredPointer(h, st, h.enclosing[s], Len(st) + 1)
    BY <2>2, <2>3 DEF AnchoredPointer, Anchored
  <2> QED  BY <2>1, <2>4
<1>3. Len(st) \in Nat
  BY DEF Stacks
<1>4. (Len(st) + 1) - 1 = Len(st)
  BY <1>3
<1>5. s \in h.nofree \/ \E j \in 1..Len(st) : st[j].scope = s
  BY <1>4 DEF Anchored
<1> QED  BY <1>1, <1>2, <1>5

\* Every current scope is anchored for whatever comes after it.
LEMMA CurrentAnchored ==
    ASSUME NEW h, NEW st \in Stacks, StackInv(h, st), NEW i \in 1..Len(st)
    PROVE  Anchored(h, st, st[i].scope, Len(st) + 1)
<1>1. Len(st) \in Nat /\ i \in Nat
  BY DEF Stacks
<1>2. CASE Own(st[i])
  BY <1>1, <1>2 DEF Anchored
<1>3. CASE Anchored(h, st, st[i].scope, i)
  BY <1>1, <1>3 DEF Anchored
<1> QED  BY <1>2, <1>3 DEF StackInv, UsesAnchored

\* The stack without its last entry.
LEMMA FrontElements ==
    ASSUME NEW st \in Stacks, st # <<>>
    PROVE  /\ Len(st) \in Nat /\ Len(st) >= 1
           /\ SubSeq(st, 1, Len(st) - 1) \in Stacks
           /\ Len(SubSeq(st, 1, Len(st) - 1)) = Len(st) - 1
           /\ \A i \in 1..Len(st) - 1 : SubSeq(st, 1, Len(st) - 1)[i] = st[i]
<1>1. st \in Seq(Entries) /\ Len(st) \in Nat /\ Len(st) >= 1
  BY DEF Stacks
<1>2. PICK n \in Nat : n = Len(st) - 1
  BY <1>1
<1>3. \A i \in 1..n : st[i] \in Entries
  BY <1>1, <1>2
<1>4. /\ SubSeq(st, 1, n) \in Seq(Entries)
      /\ Len(SubSeq(st, 1, n)) = (IF 1 <= n THEN n - 1 + 1 ELSE 0)
      /\ \A i \in 1..n - 1 + 1 : SubSeq(st, 1, n)[i] = st[1 + i - 1]
  BY <1>3, SubSeqProperties
<1>5. Len(SubSeq(st, 1, n)) = n
  BY <1>4
<1>6. \A i \in 1..n : SubSeq(st, 1, n)[i] = st[i]
  BY <1>4
<1> QED  BY <1>1, <1>2, <1>4, <1>5, <1>6 DEF Stacks

\* It has all that the invariant asks for, also when the scope of the last entry,
\* if it was its own, is freed or taken off its chain.
LEMMA FrontStack ==
    ASSUME NEW h, HeapType(h), MarkedInv(h), NEW st \in Stacks, st # <<>>, StackInv(h, st),
           NEW g, g.nofree = h.nofree, g.allocated = h.allocated,
           NEW s, s = st[Len(st)].scope,
           \A x \in Scopes : x # s => g.enclosing[x] = h.enclosing[x] /\ (x \in g.free <=> x \in h.free),
           \/ g.enclosing[s] = h.enclosing[s] /\ (s \in g.free <=> s \in h.free)
           \/ s \in h.nofree /\ g.enclosing[s] = Nil /\ (s \in g.free <=> s \in h.free)
           \/ s \notin h.nofree /\ Own(st[Len(st)])
    PROVE  StackInv(g, SubSeq(st, 1, Len(st) - 1))
<1> DEFINE ts == SubSeq(st, 1, Len(st) - 1)
           n == Len(st)
<1>1. /\ n \in Nat /\ n >= 1 /\ ts \in Stacks /\ Len(ts) = n - 1
      /\ \A i \in 1..n - 1 : ts[i] = st[i]
  BY FrontElements
<1> HIDE DEF ts
<1>2. ASSUME NEW p, NEW i \in 1..n - 1, Anchored(h, st, p, i)
      PROVE  Anchored(g, ts, p, i)
  BY <1>1, <1>2 DEF Anchored
<1>3. ASSUME NEW i \in 1..n - 1
      PROVE  /\ ts[i].scope \in g.allocated \ g.free
             /\ Own(ts[i]) \/ Anchored(g, ts, ts[i].scope, i)
             /\ AnchoredPointer(g, ts, g.enclosing[ts[i].scope], i)
  <2>1. i \in 1..n /\ n \in 1..n /\ i # n /\ ts[i] = st[i] /\ i \in Nat
    BY <1>1
  <2>2. /\ st[i].scope \in h.allocated \ h.free
        /\ Own(st[i]) \/ Anchored(h, st, st[i].scope, i)
        /\ AnchoredPointer(h, st, h.enclosing[st[i].scope], i)
    BY <2>1 DEF StackInv, InUse, UsesAnchored, EnclosingAnchored
  <2>3. st[i].scope \in Scopes
    BY <2>1, StackElement
  <2>4. Own(ts[i]) \/ Anchored(g, ts, ts[i].scope, i)
    BY <1>2, <2>1, <2>2
  <2>5. CASE st[i].scope # s
    BY <1>2, <2>1, <2>2, <2>3, <2>4, <2>5 DEF AnchoredPointer
  <2>6. CASE st[i].scope = s
    <3>1. s \in h.nofree \/ ~Own(st[n])
      <4> SUFFICES ASSUME s \notin h.nofree, Own(st[n])
                   PROVE  FALSE
        OBVIOUS
      <4>1. ~Own(st[i])
        BY <2>1, <2>6 DEF StackInv, Distinct
      <4>2. PICK j \in 1..i - 1 : Own(st[j]) /\ st[j].scope = s
        BY <2>2, <2>6, <4>1 DEF Anchored
      <4>3. j \in 1..n /\ j # n
        BY <1>1, <2>1, <4>2
      <4> QED  BY <2>1, <4>2, <4>3 DEF StackInv, Distinct
    <3>2. (g.enclosing[s] = h.enclosing[s] \/ g.enclosing[s] = Nil) /\ (s \in g.free <=> s \in h.free)
      BY <3>1
    <3> QED  BY <1>2, <2>1, <2>2, <2>4, <2>6, <3>2 DEF AnchoredPointer
  <2> QED  BY <2>5, <2>6
<1>4. Distinct(ts)
  <2> SUFFICES ASSUME NEW i \in 1..n - 1, NEW j \in 1..n - 1, i # j, Own(ts[i]), Own(ts[j])
               PROVE  ts[i].scope # ts[j].scope
    BY <1>1 DEF Distinct
  <2>1. i \in 1..n /\ j \in 1..n /\ ts[i] = st[i] /\ ts[j] = st[j]
    BY <1>1
  <2> QED  BY <2>1 DEF StackInv, Distinct
<1>5. StackInv(g, ts)
  BY <1>1, <1>3, <1>4 DEF StackInv, InUse, UsesAnchored, EnclosingAnchored
<1> QED  BY <1>5 DEF ts

-----------------------------------------------------------------------------
(* Marking and popping *)

LiveScopes(h, st) == h.nofree \cup {st[i].scope : i \in 1..Len(st)}

\* Nothing that has been given back can be reached from what is live.
LEMMA LiveClosed ==
    ASSUME NEW h, HeapType(h), MarkedInv(h), NEW st \in Stacks, StackInv(h, st)
    PROVE  /\ LiveScopes(h, st) \in SUBSET Scopes
           /\ LiveScopes(h, st) \subseteq h.allocated \ h.free
           /\ Closed(h.enclosing, LiveScopes(h, st))
<1>1. \A i \in 1..Len(st) : st[i].scope \in Scopes /\ st[i].scope \in h.allocated \ h.free
  BY StackElement DEF StackInv, InUse
<1>2. ASSUME NEW s \in LiveScopes(h, st), h.enclosing[s] # Nil
      PROVE  h.enclosing[s] \in LiveScopes(h, st)
  <2>1. CASE s \in h.nofree
    BY <1>2, <2>1 DEF MarkedInv, Closed, LiveScopes
  <2>2. ASSUME NEW i \in 1..Len(st), s = st[i].scope
        PROVE  h.enclosing[s] \in LiveScopes(h, st)
    <3>1. Anchored(h, st, h.enclosing[s], i)
      BY <1>2, <2>2 DEF StackInv, EnclosingAnchored, AnchoredPointer
    <3>2. Len(st) \in Nat /\ \A j \in 1..i - 1 : j \in 1..Len(st)
      BY DEF Stacks
    <3> QED  BY <3>1, <3>2 DEF Anchored, LiveScopes
  <2> QED  BY <2>1, <2>2 DEF LiveScopes
<1> QED  BY <1>1, <1>2, HeapFields DEF LiveScopes, MarkedInv, Closed

\* setNoFree() marks all that a scope needs, and only scopes in use.
LEMMA MarkScope ==
    ASSUME NEW h, HeapType(h), FreeInv(h), MarkedInv(h), NEW st \in Stacks, StackInv(h, st),
           NEW L \in SUBSET Scopes, Closed(h.enclosing, L), L \subseteq h.allocated \ h.free,
           NEW s \in L, NEW g, g = setNoFree(h, s)
    PROVE  /\ HeapType(g) /\ FreeInv(g) /\ MarkedInv(g) /\ StackInv(g, st)
           /\ s \in g.nofree
           /\ h.nofree \subseteq g.nofree
           /\ g.enclosing = h.enclosing
<1>1. s \in Scopes
  OBVIOUS
<1> DEFINE C == Chain(h.enclosing, s)
<1>2. Closed(h.enclosing, C) /\ C \in SUBSET Scopes
  BY <1>1, HeapFields, ChainClosed
<1>3. C \subseteq L
  BY ChainLeast
<1>4. s \in C
  BY <1>1, ChainSelf
<1>5. g = [h EXCEPT !.nofree = h.nofree \cup C]
  BY DEF setNoFree
<1> HIDE DEF C
<1>6. /\ g.enclosing = h.enclosing /\ g.allocated = h.allocated
      /\ g.nofree = h.nofree \cup C
      /\ g.free = h.free /\ g.freelist = h.freelist
      /\ HeapType(g)
  BY <1>2, <1>5 DEF HeapType
<1>7. MarkedInv(g)
  BY <1>2, <1>3, <1>6 DEF MarkedInv, Closed
<1>8. FreeInv(g)
  BY <1>6 DEF FreeInv, ListSound
<1>9. \A p, i : Anchored(h, st, p, i) => Anchored(g, st, p, i)
  BY <1>6 DEF Anchored
<1>10. StackInv(g, st)
  <2>1. InUse(g, st)
    BY <1>6 DEF StackInv, InUse
  <2>2. UsesAnchored(g, st)
    BY <1>9 DEF StackInv, UsesAnchored
  <2>3. EnclosingAnchored(g, st)
    BY <1>6, <1>9 DEF StackInv, EnclosingAnchored, AnchoredPointer
  <2> QED  BY <2>1, <2>2, <2>3 DEF StackInv
<1> QED  BY <1>4, <1>6, <1>7, <1>8, <1>10

\* A chain of free scopes does not depend on a scope in use.
LEMMA FreeFrame ==
    ASSUME NEW h, HeapType(h), FreeInv(h), h.freelist # Nil, NEW s \in Scopes, s \notin h.free,
           NEW e \in Enclosings, \A x \in Scopes : x # s => e[x] = h.enclosing[x]
    PROVE  /\ h.freelist \in Scopes
           /\ Chain(e, h.freelist) = h.free
           /\ \E z \in h.free : e[z] = Nil
<1>1. h.freelist \in Scopes /\ h.enclosing \in Enclosings /\ h.free \in SUBSET Scopes
  BY HeapFields DEF Pointers
<1>2. Chain(h.enclosing, h.freelist) = h.free
  BY DEF FreeInv, ListSound
<1>3. Closed(h.enclosing, h.free)
  BY <1>1, <1>2, ChainClosed
<1>4. h.freelist \in h.free
  BY <1>1, <1>2, ChainSelf
<1>5. \A t \in h.free : e[t] = h.enclosing[t]
  BY <1>1
<1>6. Chain(e, h.freelist) = Chain(h.enclosing, h.freelist)
  BY <1>1, <1>3, <1>4, <1>5, ChainFrame
<1>7. \E z \in h.free : h.enclosing[z] = Nil
  BY DEF FreeInv, ListSound
<1> QED  BY <1>1, <1>2, <1>5, <1>6, <1>7

\* The scope becomes the first of the free list.
LEMMA PushFree ==
    ASSUME NEW h, HeapType(h), FreeInv(h), NEW s \in h.allocated \ h.free, NEW g, HeapType(g),
           \A x \in Scopes : x # s => g.enclosing[x] = h.enclosing[x],
           g.enclosing[s] = h.freelist, g.freelist = s, g.free = h.free \cup {s},
           g.allocated = h.allocated
    PROVE  FreeInv(g)
<1>1. s \in Scopes /\ g.enclosing \in Enclosings
  BY HeapFields
<1>2. s # Nil /\ g.free \subseteq g.allocated
  BY <1>1, NilAssumption DEF FreeInv
<1>3. CASE h.freelist = Nil
  <2>1. Chain(g.enclosing, s) = {s}
    BY <1>1, <1>3, ChainEnd
  <2>2. h.free = {}
    BY <1>3 DEF FreeInv, ListSound
  <2> QED  BY <1>2, <1>3, <2>1, <2>2 DEF FreeInv, ListSound
<1>4. CASE h.freelist # Nil
  <2>1. /\ h.freelist \in Scopes
        /\ Chain(g.enclosing, h.freelist) = h.free
        /\ \E z \in h.free : g.enclosing[z] = Nil
    BY <1>1, <1>4, FreeFrame
  <2>2. Chain(g.enclosing, s) = {s} \cup Chain(g.enclosing, h.freelist)
    BY <1>1, <2>1, ChainStep
  <2> QED  BY <1>2, <2>1, <2>2 DEF FreeInv, ListSound
<1> QED  BY <1>3, <1>4

\* A scope that is not freed may be taken off its chain.
LEMMA DetachFree ==
    ASSUME NEW h, HeapType(h), FreeInv(h), NEW s \in h.allocated \ h.free, NEW g, HeapType(g),
           \A x \in Scopes : x # s => g.enclosing[x] = h.enclosing[x],
           g.freelist = h.freelist, g.free = h.free, g.allocated = h.allocated
    PROVE  FreeInv(g)
<1>1. s \in Scopes /\ g.enclosing \in Enclosings
  BY HeapFields
<1>2. CASE h.freelist = Nil
  BY <1>2 DEF FreeInv, ListSound
<1>3. CASE h.freelist # Nil
  BY <1>1, <1>3, FreeFrame DEF FreeInv, ListSound
<1> QED  BY <1>2, <1>3

-----------------------------------------------------------------------------
(* The operations on heap and stack *)

\* An own scope is handed out and becomes the current one.
LEMMA AddScope ==
    ASSUME NEW h, NEW st, Sound(h, st), NEW e \in Entries, Own(e), NEW g, Handed(h, e.scope, g),
           AnchoredPointer(h, st, g.enclosing[e.scope], Len(st) + 1),
           e.scope \in g.nofree => g.enclosing[e.scope] = Nil \/ g.enclosing[e.scope] \in h.nofree,
           e.kind \in {"module", "push"} /\ Len(st) > 0 => g.enclosing[e.scope] = st[Len(st)].scope
    PROVE  Sound(g, Append(st, e)) /\ h.nofree \subseteq g.nofree
<1> DEFINE s == e.scope
           n == Len(st)
           ts == Append(st, e)
<1>1. /\ s \in Scopes /\ s \notin h.nofree
      /\ \A i \in 1..n : st[i].scope # s
      /\ s \in g.allocated \ g.free
  BY HandedApart DEF Sound, StackInv
<1>2. HeapType(g)
  BY DEF Handed
<1>3. FreeInv(g)
  BY HandedList DEF Sound
<1>4. MarkedInv(g)
  BY <1>1, HandedMarked DEF Sound
<1>5. StackInv(g, st)
  BY HandedStack DEF Sound
<1>6. h.nofree \subseteq g.nofree
  BY <1>1, HeapFields DEF Handed, Sound
<1>7. AnchoredPointer(g, st, g.enclosing[s], n + 1)
  BY <1>6 DEF AnchoredPointer, Anchored
<1>8. StackInv(g, ts)
  BY <1>1, <1>5, <1>7, AppendStack DEF Sound
<1>9. ts \in Stacks /\ Len(ts) = n + 1 /\ n \in Nat /\ ts[n + 1] = e /\ \A i \in 1..n : ts[i] = st[i]
  BY AppendElements DEF Sound
<1>10. CallersInv(g, ts)
  <2> SUFFICES ASSUME NEW i \in 1..n, ts[i + 1].kind \in {"module", "push"}
               PROVE  g.enclosing[ts[i + 1].scope] = ts[i].scope
    BY <1>9 DEF CallersInv
  <2>1. CASE i = n
    BY <1>9, <2>1
  <2>2. CASE i # n
    <3>1. i \in 1..n - 1 /\ i + 1 \in 1..n /\ ts[i + 1] = st[i + 1] /\ ts[i] = st[i]
      BY <1>9, <2>2
    <3>2. h.enclosing[st[i + 1].scope] = st[i].scope
      BY <3>1 DEF Sound, CallersInv
    <3>3. st[i + 1].scope \in Scopes /\ st[i + 1].scope # s
      BY <1>1, <3>1, StackElement DEF Sound
    <3> QED  BY <3>1, <3>2, <3>3 DEF Handed
  <2> QED  BY <2>1, <2>2
<1> QED  BY <1>2, <1>3, <1>4, <1>6, <1>8, <1>9, <1>10 DEF Sound

\* A scope that is anchored becomes the current one for a while.
LEMMA UseScope ==
    ASSUME NEW h, NEW st, Sound(h, st), NEW s, Anchored(h, st, s, Len(st) + 1)
    PROVE  Sound(h, Append(st, Entry(s, "use")))
<1> DEFINE e == Entry(s, "use")
           n == Len(st)
           ts == Append(st, e)
<1>1. /\ s \in Scopes /\ s \in h.allocated \ h.free
      /\ AnchoredPointer(h, st, h.enclosing[s], n + 1)
  BY AnchoredInUse DEF Sound
<1>2. e \in Entries /\ e.scope = s /\ e.kind = "use" /\ ~Own(e)
  BY <1>1 DEF Entry, Entries, Kinds, Own
<1> HIDE DEF e
<1>3. StackInv(h, ts)
  BY <1>1, <1>2, AppendStack DEF Sound
<1>4. ts \in Stacks /\ Len(ts) = n + 1 /\ n \in Nat /\ ts[n + 1] = e /\ \A i \in 1..n : ts[i] = st[i]
  BY <1>2, AppendElements DEF Sound
<1>5. CallersInv(h, ts)
  <2> SUFFICES ASSUME NEW i \in 1..n, ts[i + 1].kind \in {"module", "push"}
               PROVE  h.enclosing[ts[i + 1].scope] = ts[i].scope
    BY <1>4 DEF CallersInv
  <2>1. i # n
    BY <1>2, <1>4
  <2>2. i \in 1..n - 1 /\ i + 1 \in 1..n /\ ts[i + 1] = st[i + 1] /\ ts[i] = st[i]
    BY <1>4, <2>1
  <2> QED  BY <2>2 DEF Sound, CallersInv
<1>6. Sound(h, ts)
  BY <1>3, <1>4, <1>5 DEF Sound
<1> QED  BY <1>6 DEF e

\* What pop() does to the scope s, which may have been taken off its chain before.
Popped(h, s, g) ==
    /\ HeapType(g)
    /\ g.nofree = h.nofree /\ g.allocated = h.allocated
    /\ \A x \in Scopes : x # s => g.enclosing[x] = h.enclosing[x] /\ (x \in g.free <=> x \in h.free)
    /\ \/ /\ s \in h.nofree /\ g.free = h.free /\ g.freelist = h.freelist
          /\ g.enclosing[s] = Nil \/ g.enclosing[s] = h.enclosing[s]
       \/ /\ s \notin h.nofree /\ g.free = h.free \cup {s}
          /\ g.freelist = s /\ g.enclosing[s] = h.freelist

LEMMA PopPopped ==
    ASSUME NEW h, HeapType(h), NEW s \in Scopes, NEW g, g = pop(h, s)
    PROVE  Popped(h, s, g)
<1>1. CASE s \in h.nofree
  BY <1>1 DEF pop, Popped, HeapType
<1>2. CASE s \notin h.nofree
  <2>1. g = [h EXCEPT !.enclosing = [h.enclosing EXCEPT ![s] = h.freelist],
                      !.freelist = s, !.free = h.free \cup {s}]
    BY <1>2 DEF pop, HeapType
  <2>2. PICK E \in Enclosings : E = [h.enclosing EXCEPT ![s] = h.freelist]
    BY HeapFields DEF Enclosings
  <2>3. PICK F \in SUBSET Scopes : F = h.free \cup {s}
    BY HeapFields
  <2>4. s \in Pointers
    BY DEF Pointers
  <2>5. g = [h EXCEPT !.enclosing = E, !.freelist = s, !.free = F]
    BY <2>1, <2>2, <2>3
  <2>6. HeapType(g)
    BY <2>4, <2>5 DEF HeapType, Enclosings
  <2>7. /\ g.enclosing = [h.enclosing EXCEPT ![s] = h.freelist] /\ g.freelist = s
        /\ g.free = h.free \cup {s} /\ g.nofree = h.nofree /\ g.allocated = h.allocated
    BY <2>1 DEF HeapType
  <2>8. g.enclosing[s] = h.freelist /\ \A x \in Scopes : x # s => g.enclosing[x] = h.enclosing[x]
    BY <2>7, HeapFields DEF Enclosings
  <2>9. \A x \in Scopes : x # s => (x \in g.free <=> x \in h.free)
    BY <2>7
  <2> QED  BY <1>2, <2>6, <2>7, <2>8, <2>9 DEF Popped
<1> QED  BY <1>1, <1>2

LEMMA DetachPopped ==
    ASSUME NEW h, HeapType(h), NEW s \in Scopes, NEW g, g = pop([h EXCEPT !.enclosing[s] = Nil], s)
    PROVE  Popped(h, s, g)
<1>1. PICK k : k = [h EXCEPT !.enclosing = [h.enclosing EXCEPT ![s] = Nil]]
  OBVIOUS
<1>2. /\ HeapType(k) /\ k.nofree = h.nofree /\ k.allocated = h.allocated
      /\ k.free = h.free /\ k.freelist = h.freelist
      /\ k.enclosing[s] = Nil
      /\ \A x \in Scopes : x # s => k.enclosing[x] = h.enclosing[x]
  BY <1>1 DEF HeapType, Pointers
<1>3. g = pop(k, s)
  BY <1>1
<1>4. Popped(k, s, g)
  BY <1>2, <1>3, PopPopped
<1> QED  BY <1>2, <1>4 DEF Popped

\* The current scope is popped, taken off its chain first or not.
LEMMA PopScope ==
    ASSUME NEW h, NEW st, Sound(h, st), st # <<>>, Own(st[Len(st)]),
           NEW s, s = st[Len(st)].scope, NEW g, Popped(h, s, g)
    PROVE  Sound(g, SubSeq(st, 1, Len(st) - 1)) /\ g.nofree = h.nofree
<1> DEFINE n == Len(st)
           ts == SubSeq(st, 1, n - 1)
<1>1. n \in Nat /\ n >= 1 /\ ts \in Stacks /\ Len(ts) = n - 1 /\ \A i \in 1..n - 1 : ts[i] = st[i]
  BY FrontElements DEF Sound
<1>2. n \in 1..n
  BY <1>1
<1>3. s \in Scopes /\ s \in h.allocated \ h.free
  BY <1>2, StackElement DEF Sound, StackInv, InUse
<1>4. Popped(h, s, g)
  OBVIOUS
<1>5. FreeInv(g)
  <2>1. CASE s \in h.nofree
    BY <1>3, <1>4, <2>1, DetachFree DEF Sound, Popped
  <2>2. CASE s \notin h.nofree
    BY <1>3, <1>4, <2>2, PushFree DEF Sound, Popped
  <2> QED  BY <2>1, <2>2
<1>6. MarkedInv(g)
  <2>1. h.nofree \in SUBSET Scopes /\ g.free \in SUBSET Scopes
    BY <1>4, HeapFields DEF Sound, Popped
  <2>2. \A x \in h.nofree : x \in h.allocated \ h.free /\ (h.enclosing[x] # Nil => h.enclosing[x] \in h.nofree)
    BY DEF Sound, MarkedInv, Closed
  <2>3. \A x \in h.nofree : x \in g.allocated \ g.free
    BY <1>4, <2>1, <2>2 DEF Popped
  <2>4. \A x \in h.nofree : g.enclosing[x] # Nil => g.enclosing[x] \in h.nofree
    BY <1>4, <2>1, <2>2 DEF Popped
  <2> QED  BY <1>4, <2>3, <2>4 DEF MarkedInv, Closed, Popped
<1>7. StackInv(g, ts)
  <2>1. \/ g.enclosing[s] = h.enclosing[s] /\ (s \in g.free <=> s \in h.free)
        \/ s \in h.nofree /\ g.enclosing[s] = Nil /\ (s \in g.free <=> s \in h.free)
        \/ s \notin h.nofree /\ Own(st[Len(st)])
    BY <1>4 DEF Popped
  <2> QED  BY <1>4, <2>1, FrontStack DEF Sound, Popped
<1>8. CallersInv(g, ts)
  <2> SUFFICES ASSUME NEW i \in 1..n - 2, ts[i + 1].kind \in {"module", "push"}
               PROVE  g.enclosing[ts[i + 1].scope] = ts[i].scope
    BY <1>1 DEF CallersInv
  <2>1. i \in 1..n - 1 /\ i + 1 \in 1..n - 1 /\ i + 1 \in 1..n /\ i + 1 # n
    BY <1>1
  <2>2. ts[i + 1] = st[i + 1] /\ ts[i] = st[i]
    BY <1>1, <2>1
  <2>3. Own(st[i + 1])
    BY <2>2 DEF Own
  <2>4. st[i + 1].scope # s
    BY <1>2, <2>1, <2>3 DEF Sound, StackInv, Distinct
  <2>5. st[i + 1].scope \in Scopes
    BY <2>1, StackElement DEF Sound
  <2>6. h.enclosing[st[i + 1].scope] = st[i].scope
    BY <2>1, <2>2 DEF Sound, CallersInv
  <2> QED  BY <1>4, <2>2, <2>4, <2>5, <2>6 DEF Popped
<1> QED  BY <1>1, <1>4, <1>5, <1>6, <1>7, <1>8 DEF Sound, Popped

\* A call returns and leaves the scopes as they are.
LEMMA LeaveScope ==
    ASSUME NEW h, NEW st, Sound(h, st), st # <<>>
    PROVE  Sound(h, SubSeq(st, 1, Len(st) - 1))
<1> DEFINE n == Len(st)
           ts == SubSeq(st, 1, n - 1)
<1>1. n \in Nat /\ n >= 1 /\ ts \in Stacks /\ Len(ts) = n - 1 /\ \A i \in 1..n - 1 : ts[i] = st[i]
  BY FrontElements DEF Sound
<1>2. PICK s : s = st[n].scope
  OBVIOUS
<1>3. StackInv(h, ts)
  BY <1>2, FrontStack DEF Sound
<1>4. CallersInv(h, ts)
  <2> SUFFICES ASSUME NEW i \in 1..n - 2, ts[i + 1].kind \in {"module", "push"}
               PROVE  h.enclosing[ts[i + 1].scope] = ts[i].scope
    BY <1>1 DEF CallersInv
  <2>1. i \in 1..n - 1 /\ i + 1 \in 1..n - 1 /\ ts[i + 1] = st[i + 1] /\ ts[i] = st[i]
    BY <1>1
  <2> QED  BY <2>1 DEF Sound, CallersInv
<1> QED  BY <1>1, <1>3, <1>4 DEF Sound

\* Everything that is live, and a copy just made of it, may be marked.
LEMMA MarkLive ==
    ASSUME NEW h, NEW st, Sound(h, st), NEW s \in LiveScopes(h, st),
           NEW g, g = setNoFree(h, s)
    PROVE  Sound(g, st) /\ s \in g.nofree /\ h.nofree \subseteq g.nofree
<1>1. /\ LiveScopes(h, st) \in SUBSET Scopes
      /\ LiveScopes(h, st) \subseteq h.allocated \ h.free
      /\ Closed(h.enclosing, LiveScopes(h, st))
  BY LiveClosed DEF Sound
<1>2. /\ HeapType(g) /\ FreeInv(g) /\ MarkedInv(g) /\ StackInv(g, st)
      /\ s \in g.nofree /\ h.nofree \subseteq g.nofree /\ g.enclosing = h.enclosing
  BY <1>1, MarkScope DEF Sound
<1> QED  BY <1>2 DEF Sound, CallersInv

LEMMA ConcatTwo ==
    ASSUME NEW st \in Stacks, NEW a \in Entries, NEW b \in Entries
    PROVE  st \o <<a, b>> = Append(Append(st, a), b)
  BY DEF Stacks

\* The current scope is live, and anchored for whatever comes after it.
LEMMA CurrentScope ==
    ASSUME Inv, stack # <<>>
    PROVE  /\ Len(stack) \in 1..Len(stack)
           /\ Current \in Scopes
           /\ Current \in LiveScopes(heap, stack)
           /\ Anchored(heap, stack, Current, Len(stack) + 1)
<1>1. Sound(heap, stack)
  BY DEF Inv
<1>2. Len(stack) \in 1..Len(stack)
  BY <1>1, FrontElements DEF Sound
<1>3. Current = stack[Len(stack)].scope
  BY DEF Current, Top
<1> QED  BY <1>1, <1>2, <1>3, StackElement, CurrentAnchored DEF Sound, LiveScopes

-----------------------------------------------------------------------------
(* The invariant holds at the beginning *)

LEMMA InitInv == Init => Inv
<1> SUFFICES ASSUME Init
             PROVE  Inv
  OBVIOUS
<1>1. /\ heap.enclosing = [s \in Scopes |-> Nil] /\ heap.allocated = {} /\ heap.nofree = {}
      /\ heap.free = {} /\ heap.freelist = Nil
      /\ HeapType(heap)
  BY DEF Init, NoHeap, HeapType, Pointers
<1>2. stack \in Stacks /\ Len(stack) = 0
  BY DEF Init, Stacks
<1>3. StackInv(heap, stack) /\ CallersInv(heap, stack)
  BY <1>2 DEF StackInv, Distinct, InUse, UsesAnchored, EnclosingAnchored, CallersInv
<1>4. MarkedInv(heap) /\ FreeInv(heap)
  BY <1>1 DEF MarkedInv, FreeInv, Closed, ListSound
<1>5. KeptInv(heap, _scope)
  BY DEF Init, KeptInv
<1>6. RestOK
  BY DEF Init, RestOK, Pointers
<1> QED  BY <1>1, <1>2, <1>3, <1>4, <1>5, <1>6 DEF Inv, Sound

-----------------------------------------------------------------------------
(* Every operation preserves it *)

\* A step that keeps the declarations and the marks has only the heap and the
\* stack to answer for.
LEMMA RestKept ==
    ASSUME Inv, Elsewhere, Sound(heap', stack'), heap.nofree \subseteq heap'.nofree
    PROVE  Inv'
  BY DEF Inv, Elsewhere, KeptInv, RestOK

LEMMA EntryFields ==
    ASSUME NEW s \in Scopes, NEW k \in Kinds
    PROVE  /\ Entry(s, k) \in Entries /\ Entry(s, k).scope = s /\ Entry(s, k).kind = k
           /\ Own(Entry(s, k)) <=> k # "use"
  BY DEF Entry, Entries, Own

LEMMA CreateGlobalStep == Inv /\ createGlobal => Inv'
<1> SUFFICES ASSUME Inv, createGlobal
             PROVE  Inv'
  OBVIOUS
<1>0. Sound(heap, stack)
  BY DEF Inv
<1>a. PICK g \in Available(heap) : \E m \in Available(Initialized(heap, g, Nil)) :
        /\ heap' = Initialized(Initialized(heap, g, Nil), m, g)
        /\ stack' = stack \o <<Entry(g, "global"), Entry(m, "module")>>
  BY DEF createGlobal
<1>2. PICK h : h = Initialized(heap, g, Nil)
  OBVIOUS
<1>1. PICK m \in Available(h) :
        heap' = Initialized(h, m, g) /\ stack' = stack \o <<Entry(g, "global"), Entry(m, "module")>>
  BY <1>a, <1>2
<1>3. g \in Scopes
  BY <1>0, AvailableScope DEF Sound
<1>4. Handed(heap, g, h) /\ h.enclosing[g] = Nil /\ g \notin h.nofree
  BY <1>0, <1>2, InitializedHanded DEF Sound, Pointers
<1>5. PICK a \in Entries : a = Entry(g, "global")
  BY <1>3, EntryFields DEF Kinds
<1>6. a.scope = g /\ a.kind = "global" /\ Own(a)
  BY <1>3, <1>5, EntryFields DEF Kinds
<1>7. Sound(h, Append(stack, a)) /\ heap.nofree \subseteq h.nofree
  BY <1>0, <1>4, <1>6, AddScope DEF AnchoredPointer
<1>8. PICK st \in Stacks : st = Append(stack, a)
  BY <1>7 DEF Sound
<1>9. Len(st) \in Nat /\ Len(st) > 0 /\ Len(st) \in 1..Len(st) /\ st[Len(st)] = a
  BY <1>0, <1>8, AppendElements DEF Sound
<1>10. m \in Available(h) /\ m \in Scopes /\ heap' = Initialized(h, m, g)
  BY <1>1, <1>2, <1>7, AvailableScope DEF Sound
<1>11. Handed(h, m, heap') /\ heap'.enclosing[m] = g /\ m \notin heap'.nofree
  BY <1>3, <1>7, <1>10, InitializedHanded DEF Sound, Pointers
<1>12. PICK b \in Entries : b = Entry(m, "module")
  BY <1>10, EntryFields DEF Kinds
<1>13. b.scope = m /\ b.kind = "module" /\ Own(b)
  BY <1>10, <1>12, EntryFields DEF Kinds
<1>14. Anchored(h, st, g, Len(st) + 1)
  <2>1. Anchored(h, st, st[Len(st)].scope, Len(st) + 1)
    BY <1>7, <1>8, <1>9, CurrentAnchored DEF Sound
  <2> QED  BY <1>6, <1>9, <2>1
<1>15. Sound(heap', Append(st, b)) /\ h.nofree \subseteq heap'.nofree
  <2>1. PICK f : f = heap'
    OBVIOUS
  <2>2. Sound(h, st) /\ Handed(h, b.scope, f)
    BY <1>7, <1>8, <1>11, <1>13, <2>1
  <2>3. AnchoredPointer(h, st, f.enclosing[b.scope], Len(st) + 1)
    BY <1>11, <1>13, <1>14, <2>1 DEF AnchoredPointer
  <2>4. b.scope \notin f.nofree /\ f.enclosing[b.scope] = st[Len(st)].scope
    BY <1>6, <1>9, <1>11, <1>13, <2>1
  <2>5. Sound(f, Append(st, b)) /\ h.nofree \subseteq f.nofree
    BY <1>13, <2>2, <2>3, <2>4, AddScope
  <2> QED  BY <2>1, <2>5
<1>16. stack' = Append(st, b)
  BY <1>0, <1>1, <1>5, <1>8, <1>12, ConcatTwo DEF Sound
<1> QED  BY <1>7, <1>15, <1>16, RestKept DEF createGlobal

LEMMA PushStep == Inv /\ Push => Inv'
<1> SUFFICES ASSUME Inv, Push
             PROVE  Inv'
  OBVIOUS
<1>0. Sound(heap, stack) /\ stack # <<>>
  BY DEF Inv, Push, Active
<1>1. PICK s \in Available(heap) :
        heap' = Initialized(heap, s, Current) /\ stack' = Append(stack, Entry(s, "push"))
  BY DEF Push
<1>2. Current \in Scopes /\ Anchored(heap, stack, Current, Len(stack) + 1) /\ Len(stack) \in 1..Len(stack)
  BY <1>0, CurrentScope
<1>3. s \in Scopes
  BY <1>0, AvailableScope DEF Sound
<1>4. Handed(heap, s, heap') /\ heap'.enclosing[s] = Current /\ s \notin heap'.nofree
  BY <1>0, <1>1, <1>2, InitializedHanded DEF Sound, Pointers
<1>5. PICK e \in Entries : e = Entry(s, "push")
  BY <1>3, EntryFields DEF Kinds
<1>6. e.scope = s /\ e.kind = "push" /\ Own(e)
  BY <1>3, <1>5, EntryFields DEF Kinds
<1>7. Sound(heap', Append(stack, e)) /\ heap.nofree \subseteq heap'.nofree
  BY <1>0, <1>2, <1>4, <1>6, AddScope DEF AnchoredPointer, Current, Top
<1> QED  BY <1>1, <1>5, <1>7, RestKept DEF Push

LEMMA CopyStep == Inv /\ Copy => Inv'
<1> SUFFICES ASSUME Inv, Copy
             PROVE  Inv'
  OBVIOUS
<1>0. Sound(heap, stack) /\ stack # <<>>
  BY DEF Inv, Copy, Active
<1>1. PICK s \in Available(heap) :
        heap' = copy(heap, s, Current) /\ stack' = Append(stack, Entry(s, "copy"))
  BY DEF Copy
<1>2. Current \in Scopes /\ Anchored(heap, stack, Current, Len(stack) + 1)
  BY <1>0, CurrentScope
<1>3. s \in Scopes
  BY <1>0, AvailableScope DEF Sound
<1>4. /\ Handed(heap, s, heap') /\ heap'.enclosing[s] = heap.enclosing[Current]
      /\ s \in heap'.nofree <=> Current \in heap.nofree
  BY <1>0, <1>1, <1>2, CopyHanded DEF Sound
<1>5. PICK e \in Entries : e = Entry(s, "copy")
  BY <1>3, EntryFields DEF Kinds
<1>6. e.scope = s /\ e.kind = "copy" /\ Own(e)
  BY <1>3, <1>5, EntryFields DEF Kinds
<1>7. AnchoredPointer(heap, stack, heap.enclosing[Current], Len(stack) + 1)
  BY <1>0, <1>2, AnchoredInUse DEF Sound
<1>8. s \in heap'.nofree => heap'.enclosing[s] = Nil \/ heap'.enclosing[s] \in heap.nofree
  BY <1>0, <1>4 DEF Sound, MarkedInv, Closed
<1>9. Sound(heap', Append(stack, e)) /\ heap.nofree \subseteq heap'.nofree
  BY <1>0, <1>4, <1>6, <1>7, <1>8, AddScope
<1> QED  BY <1>1, <1>5, <1>9, RestKept DEF Copy

LEMMA PopStep == Inv /\ (Pop \/ Detach) => Inv'
<1> SUFFICES ASSUME Inv, Pop \/ Detach
             PROVE  Inv'
  OBVIOUS
<1>0. Sound(heap, stack) /\ stack # <<>>
  BY DEF Inv, Pop, Detach, Active
<1>1. /\ Own(stack[Len(stack)])
      /\ stack' = SubSeq(stack, 1, Len(stack) - 1)
      /\ heap' = pop(heap, Current) \/ heap' = pop([heap EXCEPT !.enclosing[Current] = Nil], Current)
      /\ Elsewhere
  BY DEF Pop, Detach, Return, Own, Top
<1>2. PICK s : s = Current
  OBVIOUS
<1>3. s = stack[Len(stack)].scope
  BY <1>2 DEF Current, Top
<1>4. PICK g : g = heap'
  OBVIOUS
<1>5. Popped(heap, s, g)
  <2>1. s \in Scopes /\ HeapType(heap)
    BY <1>0, <1>2, CurrentScope DEF Sound
  <2>2. CASE heap' = pop(heap, Current)
    BY <1>2, <1>4, <2>1, <2>2, PopPopped
  <2>3. CASE heap' = pop([heap EXCEPT !.enclosing[Current] = Nil], Current)
    BY <1>2, <1>4, <2>1, <2>3, DetachPopped
  <2> QED  BY <1>1, <2>2, <2>3
<1>6. Sound(g, SubSeq(stack, 1, Len(stack) - 1)) /\ g.nofree = heap.nofree
  BY <1>0, <1>1, <1>3, <1>5, PopScope
<1> QED  BY <1>1, <1>4, <1>6, RestKept

LEMMA LeaveStep == Inv /\ Leave => Inv'
<1> SUFFICES ASSUME Inv, Leave
             PROVE  Inv'
  OBVIOUS
<1>1. Sound(heap, stack) /\ stack # <<>> /\ stack' = SubSeq(stack, 1, Len(stack) - 1) /\ heap' = heap
  BY DEF Inv, Leave, Active, Return
<1>2. Sound(heap', stack')
  BY <1>1, LeaveScope
<1> QED  BY <1>1, <1>2, RestKept DEF Leave

\* A declaration that keeps a marked scope, in a heap with more marks.
LEMMA KeepMarked ==
    ASSUME Inv, NEW d \in Declarations, NEW s \in Scopes, _scope' = [_scope EXCEPT ![d] = s],
           s \in heap'.nofree, heap.nofree \subseteq heap'.nofree,
           Sound(heap', stack'), UNCHANGED <<depscope, status>>
    PROVE  Inv'
<1>1. _scope \in [Declarations -> Pointers]
  BY DEF Inv, RestOK
<1>2. KeptInv(heap', _scope')
  BY <1>1 DEF Inv, KeptInv
<1>3. RestOK'
  BY <1>1 DEF Inv, RestOK, Pointers
<1> QED  BY <1>2, <1>3 DEF Inv

LEMMA SetScopeStep ==
    ASSUME Inv, NEW d \in Declarations, setScope(d) \/ KeepScope(d)
    PROVE  Inv'
<1>0. Sound(heap, stack) /\ stack # <<>>
  BY DEF Inv, setScope, KeepScope, Active
<1>1. Current \in Scopes /\ Current \in LiveScopes(heap, stack)
  BY <1>0, CurrentScope
<1>2. /\ _scope' = [_scope EXCEPT ![d] = Current]
      /\ UNCHANGED <<stack, depscope, status>>
  BY DEF setScope, KeepScope
<1>3. CASE heap' = heap /\ Current \in heap.nofree
  BY <1>0, <1>1, <1>2, <1>3, KeepMarked
<1>4. CASE heap' = setNoFree(heap, Current)
  <2>1. PICK g : g = heap'
    OBVIOUS
  <2>2. PICK s : s = Current
    OBVIOUS
  <2>3. Sound(g, stack) /\ s \in g.nofree /\ heap.nofree \subseteq g.nofree
    BY <1>0, <1>1, <1>4, <2>1, <2>2, MarkLive
  <2> QED  BY <1>1, <1>2, <2>1, <2>2, <2>3, KeepMarked
<1> QED  BY <1>3, <1>4 DEF setScope, KeepScope

LEMMA FrontOfAppend ==
    ASSUME NEW st \in Stacks, NEW e \in Entries
    PROVE  /\ Append(st, e) # <<>>
           /\ SubSeq(Append(st, e), 1, Len(Append(st, e)) - 1) = st
<1>1. st \in Seq(Entries) /\ Append(st, e) \in Seq(Entries) /\ Len(Append(st, e)) = Len(st) + 1
  BY DEF Stacks
<1>3. PICK ts \in Seq(Entries) : ts = Append(st, e)
  BY <1>1
<1>9. Len(ts) = Len(st) + 1 /\ Len(st) \in Nat /\ Len(ts) # 0
  BY <1>1, <1>3 DEF Stacks
<1>2. ts # <<>>
  BY <1>9
<1>4. ts \in Stacks /\ ts # <<>>
  BY <1>2 DEF Stacks
<1>5. PICK fs : fs = SubSeq(ts, 1, Len(ts) - 1)
  OBVIOUS
<1>6. fs \in Seq(Entries) /\ Len(fs) = Len(ts) - 1 /\ \A i \in 1..Len(ts) - 1 : fs[i] = ts[i]
  BY <1>4, <1>5, FrontElements DEF Stacks
<1>7. Len(fs) = Len(st) /\ \A i \in 1..Len(st) : fs[i] = st[i]
  BY <1>1, <1>3, <1>6, AppendElements
<1>8. fs = st
  BY <1>1, <1>6, <1>7
<1> QED  BY <1>2, <1>3, <1>5, <1>8

LEMMA KeepCopyStep ==
    ASSUME Inv, NEW d \in Declarations, KeepCopy(d)
    PROVE  Inv'
<1>0. Sound(heap, stack) /\ stack # <<>>
  BY DEF Inv, KeepCopy, Active
<1>1. PICK s \in Available(heap) :
        heap' = setNoFree(copy(heap, s, Current), s) /\ _scope' = [_scope EXCEPT ![d] = s]
  BY DEF KeepCopy
<1>2. Current \in Scopes /\ Anchored(heap, stack, Current, Len(stack) + 1)
  BY <1>0, CurrentScope
<1>3. s \in Scopes
  BY <1>0, AvailableScope DEF Sound
<1>a. PICK c : c = copy(heap, s, Current)
  OBVIOUS
<1>4. /\ Handed(heap, s, c) /\ c.enclosing[s] = heap.enclosing[Current]
      /\ s \in c.nofree <=> Current \in heap.nofree
  BY <1>0, <1>a, <1>2, CopyHanded DEF Sound
<1>5. PICK e \in Entries : e = Entry(s, "copy")
  BY <1>3, EntryFields DEF Kinds
<1>6. e.scope = s /\ e.kind = "copy" /\ Own(e)
  BY <1>3, <1>5, EntryFields DEF Kinds
<1>7. AnchoredPointer(heap, stack, heap.enclosing[Current], Len(stack) + 1)
  BY <1>0, <1>2, AnchoredInUse DEF Sound
<1>8. s \in c.nofree => c.enclosing[s] = Nil \/ c.enclosing[s] \in heap.nofree
  BY <1>0, <1>4 DEF Sound, MarkedInv, Closed
<1>9. PICK st : st = Append(stack, e)
  OBVIOUS
<1>10. Sound(c, st) /\ heap.nofree \subseteq c.nofree
  BY <1>0, <1>4, <1>6, <1>7, <1>8, <1>9, AddScope
<1>11. s \in LiveScopes(c, st)
  <2>1. st[Len(st)] = e /\ Len(st) \in 1..Len(st)
    BY <1>0, <1>9, AppendElements DEF Sound
  <2> QED  BY <1>6, <2>1 DEF LiveScopes
<1>12. PICK g : g = setNoFree(c, s)
  OBVIOUS
<1>13. Sound(g, st) /\ s \in g.nofree /\ c.nofree \subseteq g.nofree
  BY <1>10, <1>11, <1>12, MarkLive
<1>14. st # <<>> /\ SubSeq(st, 1, Len(st) - 1) = stack
  BY <1>0, <1>9, FrontOfAppend DEF Sound
<1>15. Sound(g, stack)
  BY <1>13, <1>14, LeaveScope
<1>16. heap' = g /\ UNCHANGED <<stack, depscope, status>>
  BY <1>1, <1>a, <1>12 DEF KeepCopy
<1> QED  BY <1>1, <1>3, <1>10, <1>13, <1>15, <1>16, KeepMarked

LEMMA ForgetStep ==
    ASSUME Inv, NEW d \in Declarations, Forget(d)
    PROVE  Inv'
  BY DEF Inv, Forget, KeptInv, RestOK, Pointers

LEMMA ResumeStep ==
    ASSUME Inv, NEW d \in Declarations, Resume(d) \/ Instantiate(d)
    PROVE  Inv'
<1>1. Sound(heap, stack) /\ _scope[d] # Nil
  BY DEF Inv, Resume, Instantiate
<1>2. Anchored(heap, stack, _scope[d], Len(stack) + 1)
  BY <1>1 DEF Inv, KeptInv, Anchored
<1>3. Sound(heap, Append(stack, Entry(_scope[d], "use")))
  BY <1>1, <1>2, UseScope
<1>4. Sound(heap', stack')
  BY <1>3 DEF Resume, Instantiate
<1>5. \/ _scope' = _scope
      \/ _scope' = [_scope EXCEPT ![d] = Nil]
  BY DEF Resume, Instantiate
<1>6. heap' = heap /\ depscope' = depscope /\ status' = status
  BY DEF Resume, Instantiate
<1>7. KeptInv(heap', _scope') /\ RestOK'
  BY <1>5, <1>6 DEF Inv, KeptInv, RestOK, Pointers
<1> QED  BY <1>4, <1>7 DEF Inv

LEMMA QuietUseStep ==
    ASSUME Inv, NEW m \in Members, QuietUse(m)
    PROVE  Inv'
<1>1. Current \in Scopes
  BY CurrentScope DEF QuietUse, Active
<1> QED  BY <1>1 DEF Inv, QuietUse, KeptInv, RestOK, Pointers

LEMMA DeprecatedUseStep ==
    ASSUME Inv, NEW m \in Members, DeprecatedUse(m)
    PROVE  Inv'
<1>0. Sound(heap, stack) /\ stack # <<>>
  BY DEF Inv, DeprecatedUse, Active
<1>1. PICK s : MessageIn(m, s)
  BY DEF DeprecatedUse
<1>2. _scope' = _scope /\ depscope' = [depscope EXCEPT ![m] = Nil]
  BY <1>1 DEF MessageIn
<1>3. CASE heap' = heap /\ stack' = stack
            /\ status' \in {"running", "pushed itself", "pushed on a free one", "astray"}
  BY <1>2, <1>3 DEF Inv, KeptInv, RestOK, Pointers
<1>4. ASSUME s \in Live \ heap.free, status' = status, NEW t \in Available(heap),
             heap' = Initialized(heap, t, s),
             stack' = stack \o <<Entry(s, "use"), Entry(t, "push")>>
      PROVE  Inv'
  <2>1. Anchored(heap, stack, s, Len(stack) + 1)
    <3>1. CASE s \in heap.nofree
      BY <3>1 DEF Anchored
    <3>2. ASSUME NEW i \in 1..Len(stack), s = stack[i].scope
          PROVE  Anchored(heap, stack, s, Len(stack) + 1)
      <4>1. Anchored(heap, stack, stack[i].scope, Len(stack) + 1)
        BY <1>0, CurrentAnchored DEF Sound
      <4> QED  BY <3>2, <4>1
    <3> QED  BY <1>4, <3>1, <3>2 DEF Live
  <2>2. PICK st : st = Append(stack, Entry(s, "use"))
    OBVIOUS
  <2>3. Sound(heap, st)
    BY <1>0, <2>1, <2>2, UseScope
  <2>4. s \in Scopes
    BY <1>0, <2>1, AnchoredInUse DEF Sound
  <2>5. PICK a \in Entries : a = Entry(s, "use")
    BY <2>4, EntryFields DEF Kinds
  <2>6. a.scope = s
    BY <2>4, <2>5, EntryFields DEF Kinds
  <2>7. Len(st) \in 1..Len(st) /\ st[Len(st)] = a
    BY <1>0, <2>2, <2>5, AppendElements DEF Sound
  <2>8. t \in Scopes
    BY <1>0, AvailableScope DEF Sound
  <2>9. PICK g : g = heap'
    OBVIOUS
  <2>10. Handed(heap, t, g) /\ g.enclosing[t] = s /\ t \notin g.nofree
    BY <1>0, <1>4, <2>4, <2>9, InitializedHanded DEF Sound, Pointers
  <2>11. PICK b \in Entries : b = Entry(t, "push")
    BY <2>8, EntryFields DEF Kinds
  <2>12. b.scope = t /\ b.kind = "push" /\ Own(b)
    BY <2>8, <2>11, EntryFields DEF Kinds
  <2>13. Anchored(heap, st, s, Len(st) + 1)
    <3>1. Anchored(heap, st, st[Len(st)].scope, Len(st) + 1)
      BY <2>3, <2>7, CurrentAnchored DEF Sound
    <3> QED  BY <2>6, <2>7, <3>1
  <2>14. AnchoredPointer(heap, st, g.enclosing[b.scope], Len(st) + 1)
    BY <2>10, <2>12, <2>13 DEF AnchoredPointer
  <2>15. b.scope \notin g.nofree /\ g.enclosing[b.scope] = st[Len(st)].scope
    BY <2>6, <2>7, <2>10, <2>12
  <2>16. Sound(g, Append(st, b)) /\ heap.nofree \subseteq g.nofree
    BY <2>3, <2>10, <2>12, <2>14, <2>15, AddScope
  <2>17. stack' = Append(st, b)
    BY <1>0, <1>4, <2>2, <2>5, <2>11, ConcatTwo DEF Sound
  <2>18. Sound(heap', stack') /\ heap.nofree \subseteq heap'.nofree
    BY <2>9, <2>16, <2>17
  <2> QED  BY <1>2, <1>4, <2>18 DEF Inv, KeptInv, RestOK, Pointers
<1> QED  BY <1>1, <1>3, <1>4 DEF MessageIn, DeprecatedUse, Active, Running

-----------------------------------------------------------------------------
(* The theorems *)

\* Every step preserves the invariant.
LEMMA NextStep == Inv /\ [Next]_vars => Inv'
<1> SUFFICES ASSUME Inv, [Next]_vars
             PROVE  Inv'
  OBVIOUS
<1>1. CASE createGlobal
  BY <1>1, CreateGlobalStep
<1>2. CASE Push
  BY <1>2, PushStep
<1>3. CASE Copy
  BY <1>3, CopyStep
<1>4. CASE Pop \/ Detach
  BY <1>4, PopStep
<1>5. CASE Leave
  BY <1>5, LeaveStep
<1>6. ASSUME NEW d \in Declarations, setScope(d) \/ KeepScope(d)
      PROVE  Inv'
  BY <1>6, SetScopeStep
<1>7. ASSUME NEW d \in Declarations, KeepCopy(d)
      PROVE  Inv'
  BY <1>7, KeepCopyStep
<1>8. ASSUME NEW d \in Declarations, Forget(d)
      PROVE  Inv'
  BY <1>8, ForgetStep
<1>9. ASSUME NEW d \in Declarations, Resume(d) \/ Instantiate(d)
      PROVE  Inv'
  BY <1>9, ResumeStep
<1>10. ASSUME NEW m \in Members, QuietUse(m)
       PROVE  Inv'
  BY <1>10, QuietUseStep
<1>11. ASSUME NEW m \in Members, DeprecatedUse(m)
       PROVE  Inv'
  BY <1>11, DeprecatedUseStep
<1>12. CASE UNCHANGED vars
  BY <1>12 DEF vars, Inv, RestOK
<1> QED  BY <1>1, <1>2, <1>3, <1>4, <1>5, <1>6, <1>7, <1>8, <1>9, <1>10, <1>11, <1>12 DEF Next

\* The invariant holds in every reachable state.
LEMMA Invariant == Spec => []Inv
<1>1. Init => Inv
  BY InitInv
<1>2. Inv /\ [Next]_vars => Inv'
  BY NextStep
<1> QED  BY <1>1, <1>2, PTL DEF Spec

\* What a live scope leads to is live, and so has not been given back.
LEMMA LiveChain ==
    ASSUME Sound(heap, stack), NEW s \in LiveScopes(heap, stack)
    PROVE  Chain(heap.enclosing, s) \cap heap.free = {}
<1> DEFINE S == LiveScopes(heap, stack)
<1>1. S \in SUBSET Scopes /\ S \cap heap.free = {} /\ Closed(heap.enclosing, S)
  BY LiveClosed DEF Sound
<1>2. Chain(heap.enclosing, s) \subseteq S
  BY <1>1, ChainLeast
<1> QED  BY <1>1, <1>2

LEMMA InvNoDangling == Inv => NoDangling
<1> SUFFICES ASSUME Inv
             PROVE  NoDangling
  OBVIOUS
<1>1. Sound(heap, stack)
  BY DEF Inv
<1>2. ASSUME NEW i \in 1..Len(stack)
      PROVE  Chain(heap.enclosing, stack[i].scope) \cap heap.free = {}
  <2>1. stack[i].scope \in LiveScopes(heap, stack)
    BY DEF LiveScopes
  <2> QED  BY <1>1, <2>1, LiveChain
<1>3. ASSUME NEW d \in Declarations, _scope[d] # Nil
      PROVE  Chain(heap.enclosing, _scope[d]) \cap heap.free = {}
  <2>1. _scope[d] \in LiveScopes(heap, stack)
    BY <1>3 DEF Inv, KeptInv, LiveScopes
  <2> QED  BY <1>1, <2>1, LiveChain
<1> QED  BY <1>2, <1>3 DEF NoDangling

\* The pointers have their types, whatever is nested in whatever.
THEOREM TypeCorrect == Spec => []TypeOK
<1>1. Inv => TypeOK
  BY DEF Inv, Sound, HeapType, Stacks, Entries, RestOK, TypeOK, Pointers
<1> QED  BY <1>1, Invariant, PTL

\* pop() gives back no scope that a call works in, that a declaration keeps
\* for later (Dsymbol::_scope), or that encloses one of these: for any number
\* of scopes and declarations and any depth of nested analyses.
THEOREM NothingDangles == Spec => []NoDangling
<1>1. Inv => NoDangling
  BY InvNoDangling
<1> QED  BY <1>1, Invariant, PTL

\* The free list of Scope::alloc() has exactly the scopes with SCOPEfree and
\* ends, and what pop() returns is the scope that push() was called on.
THEOREM StackAlwaysSound == Spec => []StackSound
<1>1. Inv => StackSound
  BY DEF Inv, Sound, FreeInv, ListSound, CallersInv, StackSound, FreeListSound, PopReturnsCaller
<1> QED  BY <1>1, Invariant, PTL
=============================================================================
