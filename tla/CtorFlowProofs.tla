---------------------------- MODULE CtorFlowProofs ----------------------------
(***************************************************************************)
(* Theorems about CtorFlow, for every class and every constructor.  The    *)
(* flags of a scope sum up all the paths to a point of the program.  The   *)
(* invariant says how, for each stretch of the program between two points  *)
(* whose flags are kept somewhere: in the current scope, or in the locals  *)
(* of a suspended activation.  Three lemmas carry it: stretches compose,   *)
(* two of them merge, and a part may be repeated.                          *)
(***************************************************************************)
EXTENDS CtorFlow, FiniteSetTheorems, TLAPS

-----------------------------------------------------------------------------
(* Effects                                                                 *)

Live == {p \in Effect : p.out = "on"}
Gone == {p \in Effect : p.out # "on"}

LEMMA SkipLive == Skip \in Live /\ Skip \in Effect
  BY SMT DEF Skip, Live, Effect, Ways

Twice(p) == IF p.again THEN 2 ELSE 1

\* What a path does and then another one.
LEMMA ThenFields ==
  ASSUME NEW p \in Effect, NEW q \in Effect
  PROVE  /\ Then(p, q) \in Effect
         /\ p.out # "on" => Then(p, q) = p
         /\ p.out = "on" => /\ Then(p, q).calls = Cut(p.calls + Twice(p) * q.calls)
                            /\ \A f \in Fields : Then(p, q).sets[f] = Cut(p.sets[f] + Twice(p) * q.sets[f])
                            /\ Then(p, q).out = q.out
                            /\ Then(p, q).again = (p.again \/ q.again)
<1>1. CASE p.out # "on"
  BY <1>1 DEF Then
<1>2. CASE p.out = "on"
  <2> DEFINE g == [f \in Fields |-> Cut(p.sets[f] + Twice(p) * q.sets[f])]
  <2>1. Then(p, q) = [calls |-> Cut(p.calls + Twice(p) * q.calls), sets |-> g,
                      out |-> q.out, again |-> p.again \/ q.again]
    BY <1>2 DEF Then, Twice
  <2>2. p.calls \in 0..2 /\ q.calls \in 0..2 /\ p.again \in BOOLEAN /\ q.again \in BOOLEAN
        /\ p.sets \in [Fields -> 0..2] /\ q.sets \in [Fields -> 0..2] /\ q.out \in Ways
    BY DEF Effect
  <2>3. Cut(p.calls + Twice(p) * q.calls) \in 0..2
    BY <2>2 DEF Cut, Twice
  <2>4. g \in [Fields -> 0..2]
    BY <2>2 DEF Cut, Twice
  <2>5. \A f \in Fields : g[f] = Cut(p.sets[f] + Twice(p) * q.sets[f])
    OBVIOUS
  <2> HIDE DEF g
  <2>6. (p.again \/ q.again) \in BOOLEAN
    OBVIOUS
  <2> QED
    BY <1>2, <2>1, <2>2, <2>3, <2>4, <2>5, <2>6 DEF Effect
<1> QED
  BY <1>1, <1>2

\* Effects are the same if they agree in all that they have.
LEMMA SameEffect ==
  ASSUME NEW p \in Effect, NEW q \in Effect,
         p.calls = q.calls, p.out = q.out, p.again = q.again,
         \A f \in Fields : p.sets[f] = q.sets[f]
  PROVE  p = q
<1>1. p.sets \in [Fields -> 0..2] /\ q.sets \in [Fields -> 0..2]
  BY DEF Effect
<1>2. p.sets = q.sets
  BY <1>1
<1> QED
  BY <1>2 DEF Effect

LEMMA EffectTyped ==
  ASSUME NEW p \in Effect
  PROVE  /\ p.calls \in 0..2 /\ p.again \in BOOLEAN /\ p.out \in Ways
         /\ \A f \in Fields : p.sets[f] \in 0..2
  BY DEF Effect

LEMMA SkipFields ==
  /\ Skip.calls = 0 /\ Skip.out = "on" /\ Skip.again = FALSE
  /\ \A f \in Fields : Skip.sets[f] = 0
  BY DEF Skip

LEMMA ThenSkip ==
  ASSUME NEW p \in Effect
  PROVE  Then(Skip, p) = p /\ Then(p, Skip) = p
<1>0. Skip \in Effect
  BY SkipLive
<1>1. Then(Skip, p) \in Effect /\ Then(p, Skip) \in Effect
  BY <1>0, ThenFields
<1>2. /\ p.calls \in 0..2 /\ p.again \in BOOLEAN /\ p.out \in Ways
      /\ \A f \in Fields : p.sets[f] \in 0..2
  BY EffectTyped
<1>3. /\ Then(Skip, p).calls = p.calls /\ Then(Skip, p).out = p.out /\ Then(Skip, p).again = p.again
      /\ \A f \in Fields : Then(Skip, p).sets[f] = p.sets[f]
  <2>1. /\ Then(Skip, p).calls = Cut(0 + 1 * p.calls) /\ Then(Skip, p).out = p.out
        /\ Then(Skip, p).again = (FALSE \/ p.again)
        /\ \A f \in Fields : Then(Skip, p).sets[f] = Cut(0 + 1 * p.sets[f])
    <3>1. Twice(Skip) = 1
      BY SkipFields DEF Twice
    <3>2. /\ Then(Skip, p).calls = Cut(Skip.calls + Twice(Skip) * p.calls) /\ Then(Skip, p).out = p.out
          /\ Then(Skip, p).again = (Skip.again \/ p.again)
          /\ \A f \in Fields : Then(Skip, p).sets[f] = Cut(Skip.sets[f] + Twice(Skip) * p.sets[f])
      BY <1>0, ThenFields, SkipFields
    <3> QED
      BY <3>1, <3>2, SkipFields
  <2> QED
    BY <2>1, <1>2 DEF Cut
<1>4. CASE p.out = "on"
  <2>1. /\ Then(p, Skip).calls = Cut(p.calls + Twice(p) * 0) /\ Then(p, Skip).out = "on"
        /\ Then(p, Skip).again = (p.again \/ FALSE)
        /\ \A f \in Fields : Then(p, Skip).sets[f] = Cut(p.sets[f] + Twice(p) * 0)
    <3>1. /\ Then(p, Skip).calls = Cut(p.calls + Twice(p) * Skip.calls) /\ Then(p, Skip).out = Skip.out
          /\ Then(p, Skip).again = (p.again \/ Skip.again)
          /\ \A f \in Fields : Then(p, Skip).sets[f] = Cut(p.sets[f] + Twice(p) * Skip.sets[f])
      BY <1>0, <1>4, ThenFields
    <3> QED
      BY <3>1, SkipFields
  <2>2. /\ Then(p, Skip).calls = p.calls /\ Then(p, Skip).again = p.again
        /\ \A f \in Fields : Then(p, Skip).sets[f] = p.sets[f]
    <3>1. Twice(p) * 0 = 0
      BY DEF Twice
    <3>2. Then(p, Skip).calls = Cut(p.calls + 0) /\ \A f \in Fields : Then(p, Skip).sets[f] = Cut(p.sets[f] + 0)
      BY <2>1, <3>1
    <3>3. \A n \in 0..2 : Cut(n + 0) = n
      BY DEF Cut
    <3> QED
      BY <2>1, <3>2, <3>3, <1>2
  <2> QED
    BY <1>1, <1>3, <1>4, <2>1, <2>2, SameEffect
<1>5. CASE p.out # "on"
  BY <1>0, <1>1, <1>3, <1>5, ThenFields, SameEffect
<1> QED
  BY <1>4, <1>5

LEMMA CutTwice ==
  ASSUME NEW a \in 0..2, NEW b \in 0..2, NEW c \in 0..2, NEW s \in {1, 2}, NEW t \in {1, 2}, NEW u \in {1, 2},
         u = IF s = 2 \/ t = 2 THEN 2 ELSE 1
  PROVE  Cut(Cut(a + s * b) + u * c) = Cut(a + s * Cut(b + t * c))
<1>1. CASE s = 1
  BY <1>1 DEF Cut
<1>2. CASE s = 2
  BY <1>2 DEF Cut
<1> QED
  BY <1>1, <1>2

LEMMA ThenThen ==
  ASSUME NEW p \in Effect, NEW q \in Effect, NEW r \in Effect
  PROVE  Then(Then(p, q), r) = Then(p, Then(q, r))
<1>1. CASE p.out # "on"
  <2>1. Then(p, q) = p /\ Then(p, r) = p
    BY <1>1, ThenFields
  <2>2. Then(q, r) \in Effect
    BY ThenFields
  <2>3. Then(p, Then(q, r)) = p
    BY <1>1, <2>2, ThenFields
  <2> QED
    BY <2>1, <2>3
<1>2. CASE p.out = "on" /\ q.out # "on"
  <2>1. Then(q, r) = q
    BY <1>2, ThenFields
  <2>2. Then(p, q) \in Effect /\ Then(p, q).out # "on"
    BY <1>2, ThenFields
  <2> QED
    BY <2>1, <2>2, ThenFields
<1>3. CASE p.out = "on" /\ q.out = "on"
  <2> DEFINE pq == Then(p, q)  qr == Then(q, r)
  <2>1. /\ pq \in Effect /\ pq.out = "on" /\ pq.again = (p.again \/ q.again)
        /\ pq.calls = Cut(p.calls + Twice(p) * q.calls)
        /\ \A f \in Fields : pq.sets[f] = Cut(p.sets[f] + Twice(p) * q.sets[f])
    BY <1>3, ThenFields
  <2>2. /\ qr \in Effect /\ qr.out = r.out /\ qr.again = (q.again \/ r.again)
        /\ qr.calls = Cut(q.calls + Twice(q) * r.calls)
        /\ \A f \in Fields : qr.sets[f] = Cut(q.sets[f] + Twice(q) * r.sets[f])
    BY <1>3, ThenFields
  <2>3. /\ p.calls \in 0..2 /\ q.calls \in 0..2 /\ r.calls \in 0..2
        /\ \A f \in Fields : p.sets[f] \in 0..2 /\ q.sets[f] \in 0..2 /\ r.sets[f] \in 0..2
    BY EffectTyped
  <2> HIDE DEF pq, qr
  <2>4. /\ Then(pq, r) \in Effect /\ Then(pq, r).out = r.out /\ Then(pq, r).again = (pq.again \/ r.again)
        /\ Then(pq, r).calls = Cut(pq.calls + Twice(pq) * r.calls)
        /\ \A f \in Fields : Then(pq, r).sets[f] = Cut(pq.sets[f] + Twice(pq) * r.sets[f])
    BY <2>1, ThenFields
  <2>5. /\ Then(p, qr) \in Effect /\ Then(p, qr).out = qr.out /\ Then(p, qr).again = (p.again \/ qr.again)
        /\ Then(p, qr).calls = Cut(p.calls + Twice(p) * qr.calls)
        /\ \A f \in Fields : Then(p, qr).sets[f] = Cut(p.sets[f] + Twice(p) * qr.sets[f])
    BY <1>3, <2>2, ThenFields
  <2>6. /\ Twice(p) \in {1, 2} /\ Twice(q) \in {1, 2} /\ Twice(pq) \in {1, 2}
        /\ Twice(pq) = IF Twice(p) = 2 \/ Twice(q) = 2 THEN 2 ELSE 1
    BY <2>1 DEF Twice
  <2>7. Then(pq, r).calls = Then(p, qr).calls
    BY <2>1, <2>2, <2>3, <2>4, <2>5, <2>6, CutTwice
  <2>8. ASSUME NEW f \in Fields PROVE Then(pq, r).sets[f] = Then(p, qr).sets[f]
    BY <2>1, <2>2, <2>3, <2>4, <2>5, <2>6, CutTwice
  <2>9. Then(pq, r).again = Then(p, qr).again
    BY <2>1, <2>2, <2>4, <2>5
  <2>10. Then(pq, r) = Then(p, qr)
    BY <2>2, <2>4, <2>5, <2>7, <2>8, <2>9, SameEffect
  <2> QED
    BY <2>10 DEF pq, qr
<1> QED
  BY <1>1, <1>2, <1>3

-----------------------------------------------------------------------------
(* Sets of effects                                                         *)

LEMMA InChain ==
  ASSUME NEW P, NEW Q
  PROVE  \A x : x \in Chain(P, Q) <=> \E p \in P, q \in Q : x = Then(p, q)
  BY DEF Chain

LEMMA ChainTyped ==
  ASSUME NEW P \in SUBSET Effect, NEW Q \in SUBSET Effect
  PROVE  /\ Chain(P, Q) \in SUBSET Effect
         /\ P # {} /\ Q # {} => Chain(P, Q) # {}
<1>1. \A p \in P, q \in Q : Then(p, q) \in Effect
  BY ThenFields
<1>2. \A x \in Chain(P, Q) : x \in Effect
  BY <1>1, InChain
<1>3. ASSUME NEW p \in P, NEW q \in Q PROVE Chain(P, Q) # {}
  <2>1. Then(p, q) \in Chain(P, Q)
    BY InChain
  <2> QED
    BY <2>1
<1> QED
  BY <1>2, <1>3

LEMMA ChainSkip ==
  ASSUME NEW P \in SUBSET Effect
  PROVE  Chain({Skip}, P) = P /\ Chain(P, {Skip}) = P
<1>1. \A p \in P : Then(Skip, p) = p /\ Then(p, Skip) = p
  BY ThenSkip
<1>2. \A x : x \in Chain({Skip}, P) <=> x \in P
  BY <1>1, InChain
<1>3. \A x : x \in Chain(P, {Skip}) <=> x \in P
  BY <1>1, InChain
<1> QED
  BY <1>2, <1>3

LEMMA ChainChain ==
  ASSUME NEW P \in SUBSET Effect, NEW Q \in SUBSET Effect, NEW R \in SUBSET Effect
  PROVE  Chain(Chain(P, Q), R) = Chain(P, Chain(Q, R))
<1>1. ASSUME NEW x \in Chain(Chain(P, Q), R) PROVE x \in Chain(P, Chain(Q, R))
  <2>1. PICK p \in P, q \in Q, r \in R : x = Then(Then(p, q), r)
    BY <1>1, InChain
  <2>2. x = Then(p, Then(q, r))
    BY <2>1, ThenThen
  <2> QED
    BY <2>2, InChain
<1>2. ASSUME NEW x \in Chain(P, Chain(Q, R)) PROVE x \in Chain(Chain(P, Q), R)
  <2>1. PICK p \in P, q \in Q, r \in R : x = Then(p, Then(q, r))
    BY <1>2 DEF Chain
  <2>2. x = Then(Then(p, q), r)
    BY <2>1, ThenThen
  <2> QED
    BY <2>2, InChain
<1> QED
  BY <1>1, <1>2

\* P takes what is in A, if it goes on, to what is in B, and else to what is in C.
Moves(A, P, B, C) ==
    \A p \in A, q \in P :
        LET r == Then(p, q) IN IF r.out = "on" THEN r \in B ELSE r \in C

LEMMA MovesChain ==
  ASSUME NEW A \in SUBSET Live, NEW B, NEW D, NEW C0, NEW C, NEW P \in SUBSET Effect, NEW Q \in SUBSET Effect,
         Moves(A, P, B, C0), Moves(B, Q, D, C), C0 \subseteq C
  PROVE  Moves(A, Chain(P, Q), D, C)
<1> SUFFICES ASSUME NEW p \in A, NEW r \in Chain(P, Q)
             PROVE  IF Then(p, r).out = "on" THEN Then(p, r) \in D ELSE Then(p, r) \in C
  BY DEF Moves
<1>1. PICK q1 \in P, q2 \in Q : r = Then(q1, q2)
  BY InChain
<1>2. p \in Effect
  BY DEF Live
<1>3. Then(p, r) = Then(Then(p, q1), q2)
  BY <1>1, <1>2, ThenThen
<1>4. CASE Then(p, q1).out = "on"
  <2>1. Then(p, q1) \in B
    BY <1>4 DEF Moves
  <2> QED
    BY <1>3, <2>1 DEF Moves
<1>5. CASE Then(p, q1).out # "on"
  <2>1. Then(p, q1) \in C
    BY <1>5 DEF Moves
  <2>2. Then(Then(p, q1), q2) = Then(p, q1)
    BY <1>2, <1>5, ThenFields
  <2> QED
    BY <1>3, <1>5, <2>1, <2>2
<1> QED
  BY <1>4, <1>5

LEMMA MovesUnion ==
  ASSUME NEW A, NEW B, NEW C, NEW P, NEW Q, NEW B1, NEW C1, NEW B2, NEW C2,
         Moves(A, P, B1, C1), Moves(A, Q, B2, C2), B1 \cup B2 \subseteq B, C1 \cup C2 \subseteq C
  PROVE  Moves(A, P \cup Q, B, C)
  BY DEF Moves

LEMMA MovesFewer ==
  ASSUME NEW A, NEW B, NEW C, NEW P, NEW Q, Moves(A, P, B, C), Q \subseteq P
  PROVE  Moves(A, Q, B, C)
  BY DEF Moves

LEMMA MovesSkip ==
  ASSUME NEW A \in SUBSET Live, NEW C
  PROVE  Moves(A, {Skip}, A, C)
<1>1. \A p \in A : p \in Effect /\ p.out = "on"
  BY DEF Live
<1> QED
  BY <1>1, ThenSkip DEF Moves

-----------------------------------------------------------------------------
(* What the flags of a part of the program say of the paths to it          *)

Has(so, name) == name \in so.language

\* The paths that may have come to where the flags are c, and still go on.
LiveCalls(so, c) ==
    {p \in Live :
        /\ "halt" \notin c /\ ("return" \in c => "any" \notin c)
        /\ p.calls <= 1
        /\ p.again => "label" \in c
        /\ p.calls = 1 => /\ Called(c) \/ ("label" \in c /\ Has(so, "goto"))
                          /\ "any" \in c \/ Has(so, "halt")
        /\ ~Has(so, "goto") /\ ~Has(so, "halt") /\ Called(c) => p.calls = 1}

\* The paths that have left before.
GoneCalls(so, c) ==
    {p \in Gone :
        /\ p.calls <= 1
        /\ p.calls = 1 => "any" \in c \/ Has(so, "halt")
        /\ p.out = "return" => Has(so, "return")
        /\ p.out = "goto" => Has(so, "goto")
        /\ ~Has(so, "goto") /\ ~Has(so, "halt") /\ p.out = "return" /\ p.calls = 0
             => "return" \in c /\ "any" \notin c}

\* Flags that fit together, and what becomes of flags a later on.
Fitting(so, c) ==
    /\ c \subseteq Flags
    /\ Called(c) => "any" \in c
    /\ "return" \in c /\ "any" \in c => Called(c) \/ Halted(c)
    /\ "halt" \in c => Has(so, "halt")
    /\ "return" \in c => Has(so, "return")
    /\ "this" \in c => Has(so, "this")

Grows(a, c) ==
    /\ Halted(a) => Halted(c)
    /\ "any" \in a => "any" \in c \/ Halted(c)
    /\ Halted(a) /\ "any" \notin a => "any" \notin c
    /\ "return" \in a /\ "any" \notin a => "any" \notin c /\ ("return" \in c \/ Halted(c))

\* w are the kinds of the frames around.
Looped(w) == w \cap Loops # {}
Still(w) == w \cap (Loops \cup {"until"}) # {}
Quiet(w) == w \cap {"condition", "declared"} # {}

QuietEffect(q) ==
    /\ q.calls = 0 /\ (\A f \in Fields : q.sets[f] = 0)
    /\ ~q.again /\ q.out \in {"on", "stopped"}

Weaker(v, w) == (Looped(v) => Looped(w)) /\ (Still(v) => Still(w)) /\ (Quiet(v) => Quiet(w))

\* From the flags e to the flags c something runs that does P.
CallLevel(so, w, e, c, P) ==
    /\ Fitting(so, e) /\ Fitting(so, c) /\ Grows(e, c)
    /\ Moves(LiveCalls(so, e), P, LiveCalls(so, c), GoneCalls(so, c))
    /\ Looped(w) /\ ~Halted(e) => e \subseteq c /\ c \subseteq e \cup {"label"}
    /\ Still(w) /\ LiveCalls(so, e) # {} => \A q \in P : q.calls = 0
    /\ Quiet(w) => c \subseteq e \cup {"halt"} /\ \A q \in P : QuietEffect(q)

LEMMA CallSets ==
  ASSUME NEW so, NEW c
  PROVE  LiveCalls(so, c) \in SUBSET Live /\ GoneCalls(so, c) \in SUBSET Gone
  BY DEF LiveCalls, GoneCalls

LEMMA GoneStaysGone ==
  ASSUME NEW so, NEW b, NEW c, Fitting(so, b), Fitting(so, c), Grows(b, c)
  PROVE  GoneCalls(so, b) \subseteq GoneCalls(so, c)
  BY DEF GoneCalls, Fitting, Grows, Halted

LEMMA GrowsTwice ==
  ASSUME NEW a, NEW b, NEW c, Grows(a, b), Grows(b, c)
  PROVE  Grows(a, c)
  BY DEF Grows, Halted

LEMMA QuietTwice ==
  ASSUME NEW P \in SUBSET Effect, NEW Q \in SUBSET Effect,
         \A q \in P : QuietEffect(q), \A q \in Q : QuietEffect(q)
  PROVE  \A q \in Chain(P, Q) : QuietEffect(q)
<1> SUFFICES ASSUME NEW q \in Chain(P, Q) PROVE QuietEffect(q)
  OBVIOUS
<1>1. PICK q1 \in P, q2 \in Q : q = Then(q1, q2)
  BY InChain
<1>2. QuietEffect(q1) /\ QuietEffect(q2)
  OBVIOUS
<1>3. CASE q1.out = "on"
  <2>1. /\ q.calls = Cut(q1.calls + Twice(q1) * q2.calls)
        /\ \A f \in Fields : q.sets[f] = Cut(q1.sets[f] + Twice(q1) * q2.sets[f])
        /\ q.out = q2.out /\ q.again = (q1.again \/ q2.again)
    BY <1>1, <1>3, ThenFields
  <2>2. Cut(0 + Twice(q1) * 0) = 0
    BY DEF Twice, Cut
  <2> QED
    BY <2>1, <2>2, <1>2 DEF QuietEffect
<1>4. CASE q1.out # "on"
  BY <1>1, <1>2, <1>4, ThenFields
<1> QED
  BY <1>3, <1>4

LEMMA CallCompose ==
  ASSUME NEW so, NEW w, NEW a, NEW b, NEW c, NEW P \in SUBSET Effect, NEW Q \in SUBSET Effect,
         CallLevel(so, w, a, b, P), CallLevel(so, w, b, c, Q)
  PROVE  CallLevel(so, w, a, c, Chain(P, Q))
<1>1. Moves(LiveCalls(so, a), Chain(P, Q), LiveCalls(so, c), GoneCalls(so, c))
  <2>1. GoneCalls(so, b) \subseteq GoneCalls(so, c)
    BY GoneStaysGone DEF CallLevel
  <2>2. /\ Moves(LiveCalls(so, a), P, LiveCalls(so, b), GoneCalls(so, b))
        /\ Moves(LiveCalls(so, b), Q, LiveCalls(so, c), GoneCalls(so, c))
    BY DEF CallLevel
  <2> QED
    BY <2>1, <2>2, CallSets, MovesChain
<1>2. Grows(a, c)
  BY GrowsTwice DEF CallLevel
<1>3. ASSUME Looped(w), ~Halted(a) PROVE a \subseteq c /\ c \subseteq a \cup {"label"}
  <2>1. a \subseteq b /\ b \subseteq a \cup {"label"}
    BY <1>3 DEF CallLevel
  <2>2. ~Halted(b)
    BY <2>1, <1>3 DEF Halted
  <2> QED
    BY <1>3, <2>1, <2>2 DEF CallLevel
<1>4. ASSUME Still(w), NEW p \in LiveCalls(so, a), NEW q \in Chain(P, Q) PROVE q.calls = 0
  <2>1. PICK q1 \in P, q2 \in Q : q = Then(q1, q2)
    BY InChain
  <2>2. q1.calls = 0
    BY <1>4 DEF CallLevel
  <2>3. CASE q1.out = "on"
    <3>1. p \in Effect /\ p.out = "on"
      BY DEF LiveCalls, Live
    <3>2. Then(p, q1).out = "on"
      BY <2>3, <3>1, ThenFields
    <3>3. Then(p, q1) \in LiveCalls(so, b)
      BY <3>2 DEF CallLevel, Moves
    <3>4. q2.calls = 0
      BY <1>4, <3>3 DEF CallLevel
    <3>5. q.calls = Cut(q1.calls + Twice(q1) * q2.calls)
      BY <2>1, <2>3, ThenFields
    <3>6. Cut(0 + Twice(q1) * 0) = 0
      BY DEF Twice, Cut
    <3> QED
      BY <2>2, <3>4, <3>5, <3>6
  <2>4. CASE q1.out # "on"
    BY <2>1, <2>2, <2>4, ThenFields
  <2> QED
    BY <2>3, <2>4
<1>5. ASSUME Quiet(w) PROVE c \subseteq a \cup {"halt"} /\ \A q \in Chain(P, Q) : QuietEffect(q)
  BY <1>5, QuietTwice DEF CallLevel
<1> QED
  BY <1>1, <1>2, <1>3, <1>4, <1>5 DEF CallLevel

LEMMA CallWeaken ==
  ASSUME NEW so, NEW w, NEW v, Weaker(v, w), NEW e, NEW c, NEW P, NEW Q \in SUBSET P, CallLevel(so, w, e, c, P)
  PROVE  CallLevel(so, v, e, c, Q)
<1>1. Moves(LiveCalls(so, e), Q, LiveCalls(so, c), GoneCalls(so, c))
  BY MovesFewer DEF CallLevel
<1> QED
  BY <1>1 DEF CallLevel, Weaker

LEMMA CallStay ==
  ASSUME NEW so, NEW w, NEW e, Fitting(so, e)
  PROVE  CallLevel(so, w, e, e, {Skip})
<1>1. Moves(LiveCalls(so, e), {Skip}, LiveCalls(so, e), GoneCalls(so, e))
  BY CallSets, MovesSkip
<1>2. Grows(e, e)
  BY DEF Grows
<1>3. Skip.calls = 0 /\ QuietEffect(Skip)
  BY SkipFields DEF QuietEffect
<1> QED
  BY <1>1, <1>2, <1>3 DEF CallLevel

\* The three lemmas about mergeCallSuper(): what may have happened on either
\* branch may have happened.
LEMMA MergeCases ==
  ASSUME NEW a, NEW b, NEW m, MergedCalls(b, a).ok, m = MergedCalls(b, a).cs
  PROVE  \/ a = b /\ m = b
         \/ Halted(a) /\ Halted(b) /\ m = {"halt"}
         \/ /\ ~(Halted(a) /\ Halted(b)) /\ ~Skips(a, b) /\ ~Skips(b, a)
            /\ \/ (Halted(a) \/ (Returned(a) /\ Called(a))) /\ m = b \cup Kept(a)
               \/ (Halted(b) \/ (Returned(b) /\ Called(b))) /\ m = a \cup Kept(b)
               \/ /\ ~Halted(a) /\ ~Halted(b)
                  /\ ~(Returned(a) /\ Called(a)) /\ ~(Returned(b) /\ Called(b))
                  /\ Called(a) = Called(b)
                  /\ m = b \cup Kept(a) \cup {r \in {"return"} : r \in a /\ "any" \notin a}
<1>1. CASE a = b
  BY <1>1 DEF MergedCalls
<1>2. CASE a # b /\ Halted(a) /\ Halted(b)
  BY <1>2 DEF MergedCalls
<1>3. CASE a # b /\ ~(Halted(a) /\ Halted(b)) /\ (Skips(a, b) \/ Skips(b, a))
  BY <1>3 DEF MergedCalls
<1>4. CASE a # b /\ ~(Halted(a) /\ Halted(b)) /\ ~(Skips(a, b) \/ Skips(b, a))
  <2>1. CASE Halted(a) \/ (Returned(a) /\ Called(a))
    BY <1>4, <2>1 DEF MergedCalls
  <2>2. CASE ~(Halted(a) \/ (Returned(a) /\ Called(a))) /\ (Halted(b) \/ (Returned(b) /\ Called(b)))
    BY <1>4, <2>2 DEF MergedCalls
  <2>3. CASE ~(Halted(a) \/ (Returned(a) /\ Called(a))) /\ ~(Halted(b) \/ (Returned(b) /\ Called(b)))
    <3>1. MergedCalls(b, a) = BothGoOn(b, a)
      BY <1>4, <2>3 DEF MergedCalls
    <3>2. /\ BothGoOn(b, a).ok = (Called(a) = Called(b))
          /\ BothGoOn(b, a).cs = b \cup Kept(a)
               \cup {r \in {"return"} : (Called(a) = Called(b)) /\ r \in a /\ "any" \notin a}
      BY DEF BothGoOn
    <3>3. Called(a) = Called(b)
      BY <3>1, <3>2
    <3>4. m = b \cup Kept(a) \cup {r \in {"return"} : r \in a /\ "any" \notin a}
      BY <3>1, <3>2, <3>3
    <3> QED
      BY <1>4, <2>3, <3>3, <3>4
  <2> QED
    BY <2>1, <2>2, <2>3
<1> QED
  BY <1>1, <1>2, <1>3, <1>4

LEMMA MergeFlags ==
  ASSUME NEW a, NEW b, NEW m, MergedCalls(b, a).ok, m = MergedCalls(b, a).cs
  PROVE  \A x \in m : x \in a \/ x \in b \/ (x = "halt" /\ Halted(a))
<1> SUFFICES ASSUME NEW x \in m PROVE x \in a \/ x \in b \/ (x = "halt" /\ Halted(a))
  OBVIOUS
<1>1. CASE m = b
  BY <1>1
<1>2. CASE Halted(a) /\ Halted(b) /\ m = {"halt"}
  BY <1>2
<1>3. CASE m = b \cup Kept(a)
  BY <1>3 DEF Kept
<1>4. CASE m = a \cup Kept(b)
  BY <1>4 DEF Kept
<1>5. CASE m = b \cup Kept(a) \cup {r \in {"return"} : r \in a /\ "any" \notin a}
  BY <1>5 DEF Kept
<1> QED
  BY <1>1, <1>2, <1>3, <1>4, <1>5, MergeCases

LEMMA MergeFits ==
  ASSUME NEW so, NEW a, NEW b, NEW m, MergedCalls(b, a).ok, m = MergedCalls(b, a).cs,
         Fitting(so, a), Fitting(so, b)
  PROVE  Fitting(so, m)
<1>1. \A x \in m : x \in a \/ x \in b \/ (x = "halt" /\ Halted(a))
  BY MergeFlags
<1>2. m \subseteq Flags
  BY <1>1 DEF Fitting, Flags
<1>3. /\ "halt" \in m => Has(so, "halt")
      /\ "return" \in m => Has(so, "return")
      /\ "this" \in m => Has(so, "this")
  BY <1>1 DEF Fitting, Halted
<1>4. Called(m) => "any" \in m
  BY MergeCases DEF Fitting, Halted, Returned, Called, Kept, Skips, Calls
<1>5. "return" \in m /\ "any" \in m => Called(m) \/ Halted(m)
  BY MergeCases DEF Fitting, Halted, Returned, Called, Kept, Skips, Calls
<1> QED
  BY <1>2, <1>3, <1>4, <1>5 DEF Fitting

LEMMA MergeGrows ==
  ASSUME NEW so, NEW a, NEW b, NEW m, NEW e, MergedCalls(b, a).ok, m = MergedCalls(b, a).cs,
         Fitting(so, a), Fitting(so, b), Grows(e, a), Grows(e, b)
  PROVE  Grows(e, m)
  BY MergeCases DEF Fitting, Grows, Halted, Returned, Called, Kept, Skips, Calls, Flags

LEMMA MergeLive ==
  ASSUME NEW so, NEW a, NEW b, NEW m, MergedCalls(b, a).ok, m = MergedCalls(b, a).cs,
         Fitting(so, a), Fitting(so, b)
  PROVE  LiveCalls(so, b) \cup LiveCalls(so, a) \subseteq LiveCalls(so, m)
  BY MergeCases DEF LiveCalls, Fitting, Halted, Returned, Called, Kept, Skips, Calls, Flags

LEMMA MergeGone ==
  ASSUME NEW so, NEW a, NEW b, NEW m, MergedCalls(b, a).ok, m = MergedCalls(b, a).cs,
         Fitting(so, a), Fitting(so, b)
  PROVE  GoneCalls(so, b) \cup GoneCalls(so, a) \subseteq GoneCalls(so, m)
  BY MergeCases DEF GoneCalls, Fitting, Halted, Returned, Called, Kept, Skips, Calls, Flags

LEMMA CallMerge ==
  ASSUME NEW so, NEW w, NEW e, NEW a, NEW b, NEW m, NEW P, NEW Q,
         MergedCalls(b, a).ok, m = MergedCalls(b, a).cs,
         CallLevel(so, w, e, b, P), CallLevel(so, w, e, a, Q)
  PROVE  CallLevel(so, w, e, m, P \cup Q)
<1>1. Fitting(so, m) /\ Grows(e, m)
  BY MergeFits, MergeGrows DEF CallLevel
<1>2. Moves(LiveCalls(so, e), P \cup Q, LiveCalls(so, m), GoneCalls(so, m))
  BY MergeLive, MergeGone, MovesUnion DEF CallLevel
<1>3. ASSUME Looped(w), ~Halted(e) PROVE e \subseteq m /\ m \subseteq e \cup {"label"}
  <2>1. e \subseteq a /\ a \subseteq e \cup {"label"} /\ e \subseteq b /\ b \subseteq e \cup {"label"}
    BY <1>3 DEF CallLevel
  <2> QED
    BY <1>3, <2>1, MergeCases DEF Halted, Kept
<1>4. ASSUME Quiet(w) PROVE m \subseteq e \cup {"halt"}
  <2>1. a \subseteq e \cup {"halt"} /\ b \subseteq e \cup {"halt"}
    BY <1>4 DEF CallLevel
  <2> QED
    BY <2>1, MergeFlags
<1> QED
  BY <1>1, <1>2, <1>3, <1>4 DEF CallLevel

\* What has been seen is added to flags g that are hardly other than at the beginning.
LEMMA CallUnion ==
  ASSUME NEW so, NEW w, NEW e, NEW c, NEW g, NEW P \in SUBSET Effect, CallLevel(so, w, e, c, P),
         Fitting(so, g), Grows(e, g), g \subseteq e \cup {"halt"},
         \A p \in LiveCalls(so, e), q \in P : Then(p, q).out = "on" => ~Halted(g),
         Looped(w) /\ ~Halted(e) => g \subseteq e
  PROVE  CallLevel(so, w, e, g \cup c, P)
<1> DEFINE m == g \cup c
<1>0. Fitting(so, e) /\ Fitting(so, c) /\ Grows(e, c)
  BY DEF CallLevel
<1>1. Fitting(so, m)
  BY <1>0 DEF Fitting, Grows, Halted, Called, Calls
<1>2. Grows(e, m)
  BY <1>0 DEF Fitting, Grows, Halted
<1>3. ASSUME NEW p \in LiveCalls(so, e), NEW q \in P
      PROVE  IF Then(p, q).out = "on" THEN Then(p, q) \in LiveCalls(so, m) ELSE Then(p, q) \in GoneCalls(so, m)
  <2>1. p \in Effect /\ p.out = "on"
    BY DEF LiveCalls, Live
  <2>2. p.calls = 1 /\ Then(p, q).calls <= 1 => Then(p, q).calls = 1
    <3>1. Then(p, q).calls = Cut(p.calls + Twice(p) * q.calls) /\ p.calls \in 0..2 /\ q.calls \in 0..2
      BY <2>1, ThenFields, EffectTyped
    <3> QED
      BY <3>1 DEF Cut, Twice
  <2>3. CASE Then(p, q).out = "on"
    <3>1. Then(p, q) \in LiveCalls(so, c) /\ ~Halted(g)
      BY <2>3 DEF CallLevel, Moves
    <3>2. "halt" \notin m /\ ("return" \in m => "any" \notin m)
      BY <1>0, <3>1 DEF LiveCalls, Grows, Halted
    <3>3. ~Has(so, "goto") /\ ~Has(so, "halt") /\ Called(m) => Then(p, q).calls = 1
      BY <2>2, <3>1 DEF LiveCalls, Called, Calls
    <3> QED
      BY <2>3, <3>1, <3>2, <3>3 DEF LiveCalls, Called, Calls
  <2>4. CASE Then(p, q).out # "on"
    <3>1. Then(p, q) \in GoneCalls(so, c)
      BY <2>4 DEF CallLevel, Moves
    <3>2. ~Has(so, "halt") /\ "any" \notin c => "any" \notin g
      BY <1>0 DEF Grows, Fitting, Halted
    <3> QED
      BY <2>4, <3>1, <3>2 DEF GoneCalls
  <2> QED
    BY <2>3, <2>4
<1>4. Moves(LiveCalls(so, e), P, LiveCalls(so, m), GoneCalls(so, m))
  BY <1>3 DEF Moves
<1> QED
  BY <1>1, <1>2, <1>4 DEF CallLevel

\* Without a call in it, a part may run again.
LEMMA CallRepeat ==
  ASSUME NEW so, NEW w, NEW e, NEW c, NEW P \in SUBSET Effect, CallLevel(so, w, e, c, P), Still(w)
  PROVE  CallLevel(so, w, e, c, P \cup Chain(P, P))
<1>1. ASSUME NEW p \in LiveCalls(so, e), NEW q1 \in P, NEW q2 \in P, NEW r, r = Then(p, Then(q1, q2))
      PROVE  IF r.out = "on" THEN r \in LiveCalls(so, c) ELSE r \in GoneCalls(so, c)
  <2>1. p \in Effect /\ p.out = "on" /\ r = Then(Then(p, q1), q2)
    BY <1>1, ThenThen DEF LiveCalls, Live
  <2>2. q1.calls = 0 /\ q2.calls = 0
    BY DEF CallLevel
  <2> DEFINE r1 == Then(p, q1)  r2 == Then(p, q2)
  <2>3. /\ r1 \in Effect /\ r1.calls = Cut(p.calls + Twice(p) * 0) /\ r1.out = q1.out
        /\ r2 \in Effect /\ r2.calls = Cut(p.calls + Twice(p) * 0) /\ r2.out = q2.out
        /\ r2.again = (p.again \/ q2.again)
    BY <2>1, <2>2, ThenFields
  <2>4. /\ IF r1.out = "on" THEN r1 \in LiveCalls(so, c) ELSE r1 \in GoneCalls(so, c)
        /\ IF r2.out = "on" THEN r2 \in LiveCalls(so, c) ELSE r2 \in GoneCalls(so, c)
    BY DEF CallLevel, Moves
  <2>5. \A x, y \in Effect : Cut(x.calls + Twice(y) * 0) = x.calls
    <3> SUFFICES ASSUME NEW x \in Effect, NEW y \in Effect PROVE Cut(x.calls + Twice(y) * 0) = x.calls
      OBVIOUS
    <3>1. x.calls \in 0..2
      BY EffectTyped
    <3> QED
      BY <3>1 DEF Cut, Twice
  <2>8. r = Then(r1, q2)
    BY <2>1
  <2> HIDE DEF r1, r2
  <2>6. CASE r1.out = "on"
    <3>8. /\ Then(r1, q2) \in Effect /\ Then(r1, q2).calls = Cut(r1.calls + Twice(r1) * q2.calls)
          /\ Then(r1, q2).out = q2.out /\ Then(r1, q2).again = (r1.again \/ q2.again)
      BY <2>3, <2>6, ThenFields
    <3>1. /\ r \in Effect /\ r.calls = Cut(r1.calls + Twice(r1) * 0) /\ r.out = q2.out
          /\ r.again = (r1.again \/ q2.again)
      BY <2>2, <2>8, <3>8
    <3>5. r1 \in Effect /\ Cut(r1.calls + Twice(r1) * 0) = r1.calls /\ Cut(p.calls + Twice(p) * 0) = p.calls
      BY <2>1, <2>3, <2>5
    <3>6. r.calls = r1.calls /\ r1.calls = p.calls /\ r2.calls = p.calls
      BY <2>3, <3>1, <3>5
    <3>7. r.out = r2.out /\ (r.again => r1.again \/ r2.again)
      BY <2>3, <3>1
    <3>2. r.calls = r2.calls /\ r.out = r2.out /\ (r.again => r1.again \/ r2.again)
      BY <3>6, <3>7
    <3>3. CASE r.out = "on"
      BY <2>4, <2>6, <3>1, <3>2, <3>3 DEF LiveCalls, Live
    <3>4. CASE r.out # "on"
      BY <2>4, <3>1, <3>2, <3>4 DEF GoneCalls, Gone
    <3> QED
      BY <3>3, <3>4
  <2>7. CASE r1.out # "on"
    <3>1. r = r1
      BY <2>3, <2>7, <2>8, ThenFields
    <3> QED
      BY <2>4, <2>7, <3>1
  <2> QED
    BY <2>6, <2>7
<1>2. \A q \in Chain(P, P) : \E q1 \in P, q2 \in P : q = Then(q1, q2)
  BY InChain
<1>3. Moves(LiveCalls(so, e), Chain(P, P), LiveCalls(so, c), GoneCalls(so, c))
  BY <1>1, <1>2 DEF Moves
<1>4. Moves(LiveCalls(so, e), P \cup Chain(P, P), LiveCalls(so, c), GoneCalls(so, c))
  BY <1>3, MovesUnion DEF CallLevel
<1>5. ASSUME LiveCalls(so, e) # {}, NEW q \in Chain(P, P) PROVE q.calls = 0
  <2>1. PICK q1 \in P, q2 \in P : q = Then(q1, q2)
    BY <1>2
  <2>2. q1.calls = 0 /\ q2.calls = 0
    BY <1>5 DEF CallLevel
  <2>3. q1.out = "on" => q.calls = Cut(q1.calls + Twice(q1) * q2.calls)
    BY <2>1, ThenFields
  <2>4. Cut(0 + Twice(q1) * 0) = 0
    BY DEF Twice, Cut
  <2>5. q1.out # "on" => q = q1
    BY <2>1, ThenFields
  <2> QED
    BY <2>2, <2>3, <2>4, <2>5
<1>6. ASSUME Quiet(w) PROVE \A q \in Chain(P, P) : QuietEffect(q)
  BY <1>6, QuietTwice DEF CallLevel
<1> QED
  BY <1>4, <1>5, <1>6 DEF CallLevel

LEMMA CallLoop ==
  ASSUME NEW so, NEW w, NEW e, NEW c, NEW P \in SUBSET Effect, CallLevel(so, w, e, c, P), Looped(w), ~Quiet(w)
  PROVE  CallLevel(so, w, e, e \cup c, {Skip} \cup P \cup Chain(P, P))
<1>1. Still(w)
  BY DEF Still, Looped
<1>2. CallLevel(so, w, e, c, P \cup Chain(P, P))
  BY <1>1, CallRepeat
<1>3. P \cup Chain(P, P) \in SUBSET Effect
  BY ChainTyped
<1>4. Fitting(so, e) /\ Grows(e, e) /\ \A p \in LiveCalls(so, e) : ~Halted(e)
  BY DEF CallLevel, Grows, LiveCalls, Halted
<1>5. CallLevel(so, w, e, e \cup c, P \cup Chain(P, P))
  BY <1>2, <1>3, <1>4, CallUnion
<1>6. LiveCalls(so, e) \subseteq LiveCalls(so, e \cup c)
  <2> SUFFICES ASSUME NEW p \in LiveCalls(so, e) PROVE p \in LiveCalls(so, e \cup c)
    OBVIOUS
  <2>1. e \subseteq c /\ c \subseteq e \cup {"label"}
    BY <1>4 DEF CallLevel
  <2> QED
    BY <2>1 DEF LiveCalls, Called, Calls
<1>7. Moves(LiveCalls(so, e), {Skip}, LiveCalls(so, e), {})
  BY CallSets, MovesSkip
<1>8. Moves(LiveCalls(so, e), {Skip} \cup (P \cup Chain(P, P)), LiveCalls(so, e \cup c), GoneCalls(so, e \cup c))
  BY <1>5, <1>6, <1>7, MovesUnion DEF CallLevel
<1>9. Skip.calls = 0
  BY SkipFields
<1>10. {Skip} \cup (P \cup Chain(P, P)) = {Skip} \cup P \cup Chain(P, P)
  OBVIOUS
<1>11. CallLevel(so, w, e, e \cup c, {Skip} \cup (P \cup Chain(P, P)))
  BY <1>5, <1>8, <1>9 DEF CallLevel
<1> QED
  BY <1>10, <1>11

\* What a label makes of a path.
Labelled(q) == IF q.out \in {"on", "goto"} THEN [q EXCEPT !.out = "on", !.again = TRUE] ELSE q

LEMMA LabelledFields ==
  ASSUME NEW q \in Effect
  PROVE  /\ Labelled(q) \in Effect
         /\ Labelled(q).calls = q.calls /\ Labelled(q).sets = q.sets
         /\ q.out \in {"on", "goto"} => Labelled(q).out = "on" /\ Labelled(q).again = TRUE
         /\ q.out \notin {"on", "goto"} => Labelled(q) = q
<1>1. q.calls \in 0..2 /\ q.sets \in [Fields -> 0..2] /\ q.out \in Ways /\ q.again \in BOOLEAN
      /\ q = [calls |-> q.calls, sets |-> q.sets, out |-> q.out, again |-> q.again]
  BY DEF Effect
<1>2. CASE q.out \in {"on", "goto"}
  <2>1. Labelled(q) = [q EXCEPT !.out = "on", !.again = TRUE]
    BY <1>2 DEF Labelled
  <2>2. Labelled(q) = [calls |-> q.calls, sets |-> q.sets, out |-> "on", again |-> TRUE]
    BY <1>1, <2>1
  <2>3. "on" \in Ways
    BY DEF Ways
  <2> QED
    BY <1>1, <1>2, <2>2, <2>3 DEF Effect
<1>3. CASE q.out \notin {"on", "goto"}
  BY <1>3 DEF Labelled
<1> QED
  BY <1>2, <1>3

LEMMA InAtLabel ==
  ASSUME NEW P
  PROVE  \A x : x \in AtLabel(P) <=> \E q \in P : x = Labelled(q)
  BY DEF AtLabel, Labelled

LEMMA AtLabelTyped ==
  ASSUME NEW P \in SUBSET Effect
  PROVE  AtLabel(P) \in SUBSET Effect /\ (P # {} => AtLabel(P) # {})
<1>1. ASSUME NEW x \in AtLabel(P) PROVE x \in Effect
  <2>1. PICK q \in P : x = Labelled(q)
    BY InAtLabel
  <2> QED
    BY <2>1, LabelledFields
<1>2. ASSUME NEW q \in P PROVE AtLabel(P) # {}
  <2>1. Labelled(q) \in AtLabel(P)
    BY InAtLabel
  <2> QED
    BY <2>1
<1> QED
  BY <1>1, <1>2

\* A path to a label and a path from it.
LEMMA ThenLabelled ==
  ASSUME NEW x \in Effect, x.out = "on", NEW q \in Effect
  PROVE  /\ Then(x, Labelled(q)) \in Effect
         /\ Then(x, Labelled(q)).calls = Then(x, q).calls
         /\ \A f \in Fields : Then(x, Labelled(q)).sets[f] = Then(x, q).sets[f]
         /\ q.out \in {"on", "goto"} => Then(x, Labelled(q)).out = "on" /\ Then(x, Labelled(q)).again = TRUE
         /\ q.out \notin {"on", "goto"} => Then(x, Labelled(q)) = Then(x, q)
<1>1. /\ Labelled(q) \in Effect
      /\ Labelled(q).calls = q.calls /\ Labelled(q).sets = q.sets
      /\ q.out \in {"on", "goto"} => Labelled(q).out = "on" /\ Labelled(q).again = TRUE
      /\ q.out \notin {"on", "goto"} => Labelled(q) = q
  BY LabelledFields
<1>2. /\ Then(x, q).calls = Cut(x.calls + Twice(x) * q.calls)
      /\ \A f \in Fields : Then(x, q).sets[f] = Cut(x.sets[f] + Twice(x) * q.sets[f])
  BY ThenFields
<1> DEFINE l == Labelled(q)
<1> HIDE DEF l
<1>3. /\ Then(x, l) \in Effect /\ Then(x, l).calls = Cut(x.calls + Twice(x) * l.calls)
      /\ \A f \in Fields : Then(x, l).sets[f] = Cut(x.sets[f] + Twice(x) * l.sets[f])
      /\ Then(x, l).out = l.out
      /\ Then(x, l).again = (x.again \/ l.again)
  BY <1>1, ThenFields DEF l
<1> QED
  BY <1>1, <1>2, <1>3 DEF l

LEMMA CallLabel ==
  ASSUME NEW so, NEW w, NEW e, NEW c, NEW F \in SUBSET Effect, NEW Q \in SUBSET Effect,
         CallLevel(so, w, e, c, Chain(F, Q)), NEW q0 \in Q, q0.out = "on", ~Quiet(w)
  PROVE  CallLevel(so, w, e, c \cup {"label"}, Chain(F, AtLabel(Q)))
<1> DEFINE m == c \cup {"label"}
<1>0. Fitting(so, e) /\ Fitting(so, c) /\ Grows(e, c)
  BY DEF CallLevel
<1>1. Fitting(so, m) /\ Grows(e, m)
  BY <1>0 DEF Fitting, Grows, Halted, Called, Calls, Flags
<1>2. ASSUME NEW p \in LiveCalls(so, e), NEW h \in F, NEW q \in Q, NEW r, r = Then(p, Then(h, Labelled(q)))
      PROVE  IF r.out = "on" THEN r \in LiveCalls(so, m) ELSE r \in GoneCalls(so, m)
  <2>1. p \in Effect /\ p.out = "on" /\ Labelled(q) \in Effect
    BY LabelledFields DEF LiveCalls, Live
  <2> DEFINE x == Then(p, h)
  <2>2. /\ x \in Effect /\ r = Then(x, Labelled(q))
        /\ \A q1 \in Q : Then(p, Then(h, q1)) = Then(x, q1)
    BY <1>2, <2>1, ThenThen, ThenFields
  <2>3. \A q1 \in Q : Then(h, q1) \in Chain(F, Q)
    BY InChain
  <2>4. \A q1 \in Q : IF Then(x, q1).out = "on" THEN Then(x, q1) \in LiveCalls(so, c)
                                                ELSE Then(x, q1) \in GoneCalls(so, c)
    BY <2>2, <2>3 DEF CallLevel, Moves
  <2> HIDE DEF x
  <2>5. CASE x.out # "on"
    <3>1. r = x /\ Then(x, q) = x
      BY <2>1, <2>2, <2>5, ThenFields
    <3>2. x \in GoneCalls(so, c)
      BY <2>4, <2>5, <3>1
    <3> QED
      BY <2>5, <3>1, <3>2 DEF GoneCalls
  <2>6. CASE x.out = "on"
    <3>1. /\ r \in Effect /\ r.calls = Then(x, q).calls
          /\ q.out \in {"on", "goto"} => r.out = "on" /\ r.again = TRUE
          /\ q.out \notin {"on", "goto"} => r = Then(x, q)
      BY <2>2, <2>6, ThenLabelled
    <3>2. Then(x, q).out = q.out /\ Then(x, q0).out = "on"
      BY <2>2, <2>6, ThenFields
    <3>3. Then(x, q0) \in LiveCalls(so, c)
      BY <2>4, <3>2
    <3>4. "halt" \notin m /\ ("return" \in m => "any" \notin m)
      BY <3>3 DEF LiveCalls
    <3>5. CASE q.out = "on"
      <4>1. Then(x, q) \in LiveCalls(so, c)
        BY <2>4, <3>2, <3>5
      <4> QED
        BY <3>1, <3>4, <3>5, <4>1 DEF LiveCalls, Live, Called, Calls
    <3>6. CASE q.out = "goto"
      <4>1. Then(x, q) \in GoneCalls(so, c)
        BY <2>4, <3>2, <3>6
      <4>2. Has(so, "goto") /\ r.calls <= 1 /\ (r.calls = 1 => "any" \in m \/ Has(so, "halt"))
        BY <3>1, <3>2, <3>6, <4>1 DEF GoneCalls
      <4> QED
        BY <3>1, <3>4, <3>6, <4>2 DEF LiveCalls, Live
    <3>7. CASE q.out \notin {"on", "goto"}
      <4>1. Then(x, q) \in GoneCalls(so, c)
        BY <2>4, <3>2, <3>7
      <4> QED
        BY <3>1, <3>2, <3>7, <4>1 DEF GoneCalls
    <3> QED
      BY <3>5, <3>6, <3>7
  <2> QED
    BY <2>5, <2>6
<1>3. ASSUME NEW z \in Chain(F, AtLabel(Q)) PROVE \E h \in F, q \in Q : z = Then(h, Labelled(q))
  <2>1. PICK h \in F, y \in AtLabel(Q) : z = Then(h, y)
    BY InChain
  <2>2. PICK q \in Q : y = Labelled(q)
    BY InAtLabel
  <2> QED
    BY <2>1, <2>2
<1>4. Moves(LiveCalls(so, e), Chain(F, AtLabel(Q)), LiveCalls(so, m), GoneCalls(so, m))
  <2>1. ASSUME NEW p \in LiveCalls(so, e), NEW z \in Chain(F, AtLabel(Q))
        PROVE  IF Then(p, z).out = "on" THEN Then(p, z) \in LiveCalls(so, m) ELSE Then(p, z) \in GoneCalls(so, m)
    <3>1. PICK h \in F, q \in Q : z = Then(h, Labelled(q))
      BY <1>3
    <3>2. Then(p, z) = Then(p, Then(h, Labelled(q)))
      BY <3>1
    <3> DEFINE r == Then(p, z)
    <3>3. r = Then(p, Then(h, Labelled(q)))
      BY <3>2
    <3> HIDE DEF r
    <3>4. IF r.out = "on" THEN r \in LiveCalls(so, m) ELSE r \in GoneCalls(so, m)
      BY <1>2, <3>3
    <3> QED
      BY <3>4 DEF r
  <2> QED
    BY <2>1 DEF Moves
<1>5. ASSUME \A q \in Chain(F, Q) : q.calls = 0, NEW z \in Chain(F, AtLabel(Q))
      PROVE  z.calls = 0
  <2>1. PICK h \in F, q \in Q : z = Then(h, Labelled(q))
    BY <1>3
  <2>2. Then(h, q).calls = 0
    BY <1>5, InChain
  <2>3. h.out = "on" => z.calls = Then(h, q).calls
    BY <2>1, ThenLabelled
  <2>4. h.out # "on" => z = h /\ Then(h, q) = h
    BY <2>1, LabelledFields, ThenFields
  <2> QED
    BY <2>2, <2>3, <2>4
<1>6. ASSUME Looped(w), ~Halted(e) PROVE e \subseteq m /\ m \subseteq e \cup {"label"}
  BY <1>6 DEF CallLevel
<1>7. ASSUME Still(w), LiveCalls(so, e) # {} PROVE \A q \in Chain(F, AtLabel(Q)) : q.calls = 0
  BY <1>5, <1>7 DEF CallLevel
<1> QED
  BY <1>0, <1>1, <1>4, <1>6, <1>7 DEF CallLevel

-----------------------------------------------------------------------------
(* One statement or expression                                             *)

\* A path that calls nothing, after another.
LEMMA ThenCallless ==
  ASSUME NEW p \in Effect, p.out = "on", NEW q \in Effect, q.calls = 0, ~q.again
  PROVE  /\ Then(p, q) \in Effect /\ Then(p, q).calls = p.calls
         /\ Then(p, q).again = p.again /\ Then(p, q).out = q.out
<1>1. /\ Then(p, q) \in Effect /\ Then(p, q).calls = Cut(p.calls + Twice(p) * q.calls)
      /\ Then(p, q).out = q.out /\ Then(p, q).again = (p.again \/ q.again)
  BY ThenFields
<1>2. Then(p, q).calls = Cut(p.calls + Twice(p) * 0)
  BY <1>1
<1>3. p.calls \in 0..2 /\ p.again \in BOOLEAN
  BY EffectTyped
<1>4. Cut(p.calls + Twice(p) * 0) = p.calls
  BY <1>3 DEF Cut, Twice
<1> QED
  BY <1>1, <1>2, <1>3, <1>4

\* A statement that neither calls a constructor nor returns changes no flag, or sets
\* CSXhalt.
LEMMA CallNeutral ==
  ASSUME NEW so, NEW w, NEW c, NEW q \in Effect, Fitting(so, c), q.calls = 0, ~q.again,
         q.out \in {"on", "stopped", "goto"}, q.out = "goto" => Has(so, "goto"),
         Quiet(w) => QuietEffect(q)
  PROVE  CallLevel(so, w, c, c, {q})
<1>1. ASSUME NEW p \in LiveCalls(so, c)
      PROVE  IF Then(p, q).out = "on" THEN Then(p, q) \in LiveCalls(so, c) ELSE Then(p, q) \in GoneCalls(so, c)
  <2>1. p \in Effect /\ p.out = "on"
    BY DEF LiveCalls, Live
  <2>2. /\ Then(p, q) \in Effect /\ Then(p, q).calls = p.calls
        /\ Then(p, q).again = p.again /\ Then(p, q).out = q.out
    BY <2>1, ThenCallless
  <2>3. CASE q.out = "on"
    BY <2>2, <2>3 DEF LiveCalls, Live
  <2>4. CASE q.out # "on"
    BY <2>2, <2>4 DEF LiveCalls, GoneCalls, Gone
  <2> QED
    BY <2>2, <2>3, <2>4
<1>2. Moves(LiveCalls(so, c), {q}, LiveCalls(so, c), GoneCalls(so, c))
  BY <1>1 DEF Moves
<1>3. Grows(c, c)
  BY DEF Grows
<1> QED
  BY <1>2, <1>3 DEF CallLevel

LEMMA CallHalt ==
  ASSUME NEW so, NEW w, NEW c, NEW q \in Effect, Fitting(so, c), q.calls = 0, ~q.again,
         q.out = "stopped", Has(so, "halt"), ~Looped(w), Quiet(w) => QuietEffect(q)
  PROVE  CallLevel(so, w, c, c \cup {"halt"}, {q})
<1> DEFINE m == c \cup {"halt"}
<1>1. ASSUME NEW p \in LiveCalls(so, c)
      PROVE  IF Then(p, q).out = "on" THEN Then(p, q) \in LiveCalls(so, m) ELSE Then(p, q) \in GoneCalls(so, m)
  <2>1. p \in Effect /\ p.out = "on"
    BY DEF LiveCalls, Live
  <2>2. /\ Then(p, q) \in Effect /\ Then(p, q).calls = p.calls
        /\ Then(p, q).again = p.again /\ Then(p, q).out = q.out
    BY <2>1, ThenCallless
  <2> QED
    BY <2>2 DEF LiveCalls, GoneCalls, Gone
<1>2. Moves(LiveCalls(so, c), {q}, LiveCalls(so, m), GoneCalls(so, m))
  BY <1>1 DEF Moves
<1>3. Grows(c, m) /\ Fitting(so, m)
  BY DEF Grows, Fitting, Halted, Called, Calls, Flags
<1> QED
  BY <1>2, <1>3 DEF CallLevel

LEMMA CallReturn ==
  ASSUME NEW so, NEW w, NEW c, NEW q \in Effect, Fitting(so, c), q.calls = 0, ~q.again,
         q.out = "return", Has(so, "return"), ~Looped(w), ~Quiet(w), ReturnErrors(c) = {}
  PROVE  CallLevel(so, w, c, c \cup {"return"}, {q})
<1> DEFINE m == c \cup {"return"}
<1>0. "any" \in c => Called(c)
  BY DEF ReturnErrors, When
<1>1. ASSUME NEW p \in LiveCalls(so, c)
      PROVE  IF Then(p, q).out = "on" THEN Then(p, q) \in LiveCalls(so, m) ELSE Then(p, q) \in GoneCalls(so, m)
  <2>1. p \in Effect /\ p.out = "on" /\ p.calls \in 0..2
    BY EffectTyped DEF LiveCalls, Live
  <2>2. /\ Then(p, q) \in Effect /\ Then(p, q).calls = p.calls
        /\ Then(p, q).again = p.again /\ Then(p, q).out = q.out
    BY <2>1, ThenCallless
  <2> QED
    BY <1>0, <2>1, <2>2 DEF LiveCalls, GoneCalls, Gone
<1>2. Moves(LiveCalls(so, c), {q}, LiveCalls(so, m), GoneCalls(so, m))
  BY <1>1 DEF Moves
<1>3. Grows(c, m) /\ Fitting(so, m)
  BY <1>0 DEF Grows, Fitting, Halted, Called, Calls, Flags
<1> QED
  BY <1>2, <1>3 DEF CallLevel

\* A call that no error is reported for, and one in dead code.
LEMMA CallCounted ==
  ASSUME NEW so, NEW w, NEW c, NEW k \in Calls, NEW q \in Effect, Fitting(so, c), q.calls = 1, ~q.again,
         q.out = "on", Has(so, k), ~Still(w), ~Quiet(w), "label" \notin c, ~Called(c),
         "return" \in c => "any" \in c, ~Halted(c)
  PROVE  CallLevel(so, w, c, c \cup {"any", k}, {q})
<1> DEFINE m == c \cup {"any", k}
<1>1. ASSUME NEW p \in LiveCalls(so, c)
      PROVE  Then(p, q).out = "on" /\ Then(p, q) \in LiveCalls(so, m)
  <2>1. p \in Effect /\ p.out = "on" /\ p.calls \in 0..2
    BY EffectTyped DEF LiveCalls, Live
  <2>2. /\ Then(p, q) \in Effect /\ Then(p, q).calls = Cut(p.calls + Twice(p) * 1)
        /\ Then(p, q).again = (p.again \/ q.again) /\ Then(p, q).out = "on"
    BY <2>1, ThenFields
  <2>3. p.calls = 0 /\ ~p.again
    BY <2>1 DEF LiveCalls
  <2>4. Then(p, q).calls = 1
    <3>1. Twice(p) = 1
      BY <2>3 DEF Twice
    <3>2. Cut(0 + 1 * 1) = 1
      BY DEF Cut
    <3> QED
      BY <2>2, <2>3, <3>1, <3>2
  <2>5. "return" \notin m
    BY DEF LiveCalls, Calls
  <2>6. "halt" \notin m /\ "any" \in m /\ Called(m)
    BY DEF Called, Calls, Halted
  <2>7. Then(p, q).again => "label" \in m
    BY <2>2, <2>3
  <2>8. Then(p, q) \in Live
    BY <2>2 DEF Live
  <2> HIDE DEF m
  <2> QED
    BY <2>2, <2>4, <2>5, <2>6, <2>7, <2>8 DEF LiveCalls
<1>2. Moves(LiveCalls(so, c), {q}, LiveCalls(so, m), GoneCalls(so, m))
  BY <1>1 DEF Moves
<1>3. Grows(c, m)
  BY DEF Grows, Halted, Calls
<1>4. Fitting(so, m)
  BY DEF Fitting, Halted, Called, Calls, Flags
<1>5. ~Looped(w)
  BY DEF Looped, Still
<1> QED
  BY <1>2, <1>3, <1>4, <1>5 DEF CallLevel

LEMMA CallDead ==
  ASSUME NEW so, NEW w, NEW c, NEW q \in Effect, Fitting(so, c), Halted(c), ~Quiet(w)
  PROVE  CallLevel(so, w, c, c, {q})
  BY DEF CallLevel, Moves, LiveCalls, Grows, Halted

-----------------------------------------------------------------------------
(* The same for the flags of one field f                                   *)

LiveSets(so, f, c) ==
    {p \in Live :
        /\ "halt" \notin c /\ "return" \notin c
        /\ p.again => "label" \in c
        /\ f \in so.unassignable =>
             /\ p.sets[f] <= 1
             /\ p.sets[f] = 1 => "this" \in c \/ ("label" \in c /\ Has(so, "goto"))
        /\ f \in so.mustInit /\ ~Has(so, "goto") /\ "this" \in c => p.sets[f] >= 1}

GoneSets(so, f) ==
    {p \in Gone :
        /\ f \in so.unassignable => p.sets[f] <= 1
        /\ p.out = "goto" => Has(so, "goto")
        /\ f \in so.mustInit /\ ~Has(so, "goto") /\ p.out = "return" => p.sets[f] >= 1}

FieldLevel(so, f, w, e, c, P) ==
    /\ Moves(LiveSets(so, f, e), P, LiveSets(so, f, c), GoneSets(so, f))
    /\ Looped(w) /\ ~Halted(e) => e \subseteq c /\ c \subseteq e \cup {"label"}
    /\ Still(w) /\ f \in so.unassignable => \A q \in P : q.sets[f] = 0
    /\ Quiet(w) => c \subseteq e \cup {"halt"} /\ \A q \in P : QuietEffect(q)

LEMMA SetsTyped ==
  ASSUME NEW so, NEW f, NEW c
  PROVE  LiveSets(so, f, c) \in SUBSET Live /\ GoneSets(so, f) \in SUBSET Gone
  BY DEF LiveSets, GoneSets

LEMMA NoSetsTwice ==
  ASSUME NEW f \in Fields, NEW P \in SUBSET Effect, NEW Q \in SUBSET Effect,
         \A q \in P : q.sets[f] = 0, \A q \in Q : q.sets[f] = 0
  PROVE  \A q \in Chain(P, Q) : q.sets[f] = 0
<1> SUFFICES ASSUME NEW q \in Chain(P, Q) PROVE q.sets[f] = 0
  OBVIOUS
<1>1. PICK q1 \in P, q2 \in Q : q = Then(q1, q2)
  BY InChain
<1>2. q1.out = "on" => q.sets[f] = Cut(q1.sets[f] + Twice(q1) * q2.sets[f])
  BY <1>1, ThenFields
<1>3. Cut(0 + Twice(q1) * 0) = 0
  BY DEF Twice, Cut
<1>4. q1.out # "on" => q = q1
  BY <1>1, ThenFields
<1> QED
  BY <1>2, <1>3, <1>4

LEMMA FieldCompose ==
  ASSUME NEW so, NEW f \in Fields, NEW w, NEW a, NEW b, NEW c, NEW P \in SUBSET Effect, NEW Q \in SUBSET Effect,
         FieldLevel(so, f, w, a, b, P), FieldLevel(so, f, w, b, c, Q)
  PROVE  FieldLevel(so, f, w, a, c, Chain(P, Q))
<1>1. Moves(LiveSets(so, f, a), Chain(P, Q), LiveSets(so, f, c), GoneSets(so, f))
  <2>1. /\ Moves(LiveSets(so, f, a), P, LiveSets(so, f, b), GoneSets(so, f))
        /\ Moves(LiveSets(so, f, b), Q, LiveSets(so, f, c), GoneSets(so, f))
    BY DEF FieldLevel
  <2> QED
    BY <2>1, SetsTyped, MovesChain
<1>3. ASSUME Looped(w), ~Halted(a) PROVE a \subseteq c /\ c \subseteq a \cup {"label"}
  <2>1. a \subseteq b /\ b \subseteq a \cup {"label"}
    BY <1>3 DEF FieldLevel
  <2>2. ~Halted(b)
    BY <2>1, <1>3 DEF Halted
  <2> QED
    BY <1>3, <2>1, <2>2 DEF FieldLevel
<1>4. ASSUME Still(w), f \in so.unassignable PROVE \A q \in Chain(P, Q) : q.sets[f] = 0
  BY <1>4, NoSetsTwice DEF FieldLevel
<1>5. ASSUME Quiet(w) PROVE c \subseteq a \cup {"halt"} /\ \A q \in Chain(P, Q) : QuietEffect(q)
  BY <1>5, QuietTwice DEF FieldLevel
<1> QED
  BY <1>1, <1>3, <1>4, <1>5 DEF FieldLevel

LEMMA FieldWeaken ==
  ASSUME NEW so, NEW f, NEW w, NEW v, Weaker(v, w), NEW e, NEW c, NEW P, NEW Q \in SUBSET P,
         FieldLevel(so, f, w, e, c, P)
  PROVE  FieldLevel(so, f, v, e, c, Q)
<1>1. Moves(LiveSets(so, f, e), Q, LiveSets(so, f, c), GoneSets(so, f))
  BY MovesFewer DEF FieldLevel
<1> QED
  BY <1>1 DEF FieldLevel, Weaker

LEMMA FieldStay ==
  ASSUME NEW so, NEW f \in Fields, NEW w, NEW e
  PROVE  FieldLevel(so, f, w, e, e, {Skip})
<1>1. Moves(LiveSets(so, f, e), {Skip}, LiveSets(so, f, e), GoneSets(so, f))
  BY SetsTyped, MovesSkip
<1>2. Skip.sets[f] = 0 /\ QuietEffect(Skip)
  BY SkipFields DEF QuietEffect
<1> QED
  BY <1>1, <1>2 DEF FieldLevel

\* mergeFieldInit() of one field.
LEMMA FieldCases ==
  ASSUME NEW a, NEW b, NEW m, m = MergedField(b, a).fi
  PROVE  \/ a = b /\ m = b
         \/ Halted(a) /\ Halted(b) /\ m = {"halt"}
         \/ (Halted(a) \/ Returned(a)) /\ m = b
         \/ (Halted(b) \/ Returned(b)) /\ m = a
         \/ /\ ~Halted(a) /\ ~Halted(b) /\ ~Returned(a) /\ ~Returned(b) /\ m = a \cup b
            /\ MergedField(b, a).ok => (("this" \in a) <=> ("this" \in b))
<1>1. CASE a = b
  BY <1>1 DEF MergedField
<1>2. CASE a # b /\ Halted(a) /\ Halted(b)
  BY <1>2 DEF MergedField
<1>3. CASE a # b /\ ~(Halted(a) /\ Halted(b)) /\ ~Halted(a) /\ Returned(a)
  BY <1>3 DEF MergedField
<1>4. CASE a # b /\ ~(Halted(a) /\ Halted(b)) /\ ~(~Halted(a) /\ Returned(a)) /\ ~Halted(b) /\ Returned(b)
  BY <1>4 DEF MergedField
<1>5. CASE /\ a # b /\ ~(Halted(a) /\ Halted(b)) /\ ~(~Halted(a) /\ Returned(a)) /\ ~(~Halted(b) /\ Returned(b))
           /\ Halted(a)
  BY <1>5 DEF MergedField
<1>6. CASE /\ a # b /\ ~(Halted(a) /\ Halted(b)) /\ ~(~Halted(a) /\ Returned(a)) /\ ~(~Halted(b) /\ Returned(b))
           /\ ~Halted(a) /\ Halted(b)
  BY <1>6 DEF MergedField
<1>7. CASE a # b /\ ~Halted(a) /\ ~Returned(a) /\ ~Halted(b) /\ ~Returned(b)
  <2>1. MergedField(b, a) = [fi |-> b \cup a, ok |-> ("this" \in b) = ("this" \in a)]
    BY <1>7 DEF MergedField
  <2>2. MergedField(b, a).fi = b \cup a
    BY <2>1
  <2>3. MergedField(b, a).ok = (("this" \in b) = ("this" \in a))
    BY <2>1
  <2>4. MergedField(b, a).ok => (("this" \in a) <=> ("this" \in b))
    BY <2>3
  <2> QED
    BY <1>7, <2>2, <2>4
<1> QED
  BY <1>1, <1>2, <1>3, <1>4, <1>5, <1>6, <1>7

LEMMA FieldMerge ==
  ASSUME NEW so, NEW f \in Fields, NEW w, NEW e, NEW a, NEW b, NEW m, NEW P, NEW Q,
         f \in so.mustInit => MergedField(b, a).ok, m = MergedField(b, a).fi,
         FieldLevel(so, f, w, e, b, P), FieldLevel(so, f, w, e, a, Q)
  PROVE  FieldLevel(so, f, w, e, m, P \cup Q)
<1>1. LiveSets(so, f, b) \cup LiveSets(so, f, a) \subseteq LiveSets(so, f, m)
  BY FieldCases DEF LiveSets, Halted, Returned
<1>2. Moves(LiveSets(so, f, e), P \cup Q, LiveSets(so, f, m), GoneSets(so, f))
  BY <1>1, MovesUnion DEF FieldLevel
<1>3. ASSUME Looped(w), ~Halted(e) PROVE e \subseteq m /\ m \subseteq e \cup {"label"}
  <2>1. e \subseteq a /\ a \subseteq e \cup {"label"} /\ e \subseteq b /\ b \subseteq e \cup {"label"}
    BY <1>3 DEF FieldLevel
  <2> QED
    BY <1>3, <2>1, FieldCases DEF Halted
<1>4. ASSUME Quiet(w) PROVE m \subseteq e \cup {"halt"}
  <2>1. a \subseteq e \cup {"halt"} /\ b \subseteq e \cup {"halt"}
    BY <1>4 DEF FieldLevel
  <2> QED
    BY <2>1, FieldCases
<1> QED
  BY <1>2, <1>3, <1>4 DEF FieldLevel

LEMMA ThenMore ==
  ASSUME NEW p \in Effect, NEW q \in Effect, NEW f \in Fields
  PROVE  p.sets[f] <= Then(p, q).sets[f]
<1>1. p.sets[f] \in 0..2 /\ q.sets[f] \in 0..2
  BY EffectTyped
<1>2. CASE p.out = "on"
  <2>1. Then(p, q).sets[f] = Cut(p.sets[f] + Twice(p) * q.sets[f])
    BY <1>2, ThenFields
  <2> QED
    BY <1>1, <2>1 DEF Cut, Twice
<1>3. CASE p.out # "on"
  <2>1. Then(p, q) = p
    BY <1>3, ThenFields
  <2> QED
    BY <1>1, <2>1
<1> QED
  BY <1>2, <1>3

LEMMA FieldUnion ==
  ASSUME NEW so, NEW f \in Fields, NEW w, NEW e, NEW c, NEW g, NEW P \in SUBSET Effect, FieldLevel(so, f, w, e, c, P),
         g \subseteq e \cup {"halt"},
         \A p \in LiveSets(so, f, e), q \in P : Then(p, q).out = "on" => ~Halted(g),
         Looped(w) /\ ~Halted(e) => g \subseteq e
  PROVE  FieldLevel(so, f, w, e, g \cup c, P)
<1> DEFINE m == g \cup c
<1>3. ASSUME NEW p \in LiveSets(so, f, e), NEW q \in P, Then(p, q).out = "on"
      PROVE  Then(p, q) \in LiveSets(so, f, m)
  <2>1. p \in Effect /\ p.out = "on" /\ Then(p, q) \in Effect
    BY ThenFields DEF LiveSets, Live
  <2>2. p.sets[f] \in 0..2 /\ Then(p, q).sets[f] \in 0..2 /\ p.sets[f] <= Then(p, q).sets[f]
    BY <2>1, ThenMore, EffectTyped
  <2>3. Then(p, q) \in LiveSets(so, f, c) /\ ~Halted(g)
    BY <1>3 DEF FieldLevel, Moves
  <2>4. "halt" \notin m /\ "return" \notin m
    BY <2>3 DEF LiveSets, Halted
  <2>5. f \in so.mustInit /\ ~Has(so, "goto") /\ "this" \in m => Then(p, q).sets[f] >= 1
    <3>1. CASE "this" \in c
      BY <3>1, <2>3 DEF LiveSets
    <3>2. CASE "this" \in g
      <4>1. "this" \in e
        BY <3>2
      <4>2. f \in so.mustInit /\ ~Has(so, "goto") => p.sets[f] >= 1
        BY <4>1 DEF LiveSets
      <4> QED
        BY <4>2, <2>2
    <3> QED
      BY <3>1, <3>2
  <2> QED
    BY <2>3, <2>4, <2>5 DEF LiveSets
<1>4. Moves(LiveSets(so, f, e), P, LiveSets(so, f, m), GoneSets(so, f))
  BY <1>3 DEF Moves, FieldLevel
<1> QED
  BY <1>4 DEF FieldLevel

\* A path that does not touch the field, after another.
LEMMA ThenUnset ==
  ASSUME NEW p \in Effect, p.out = "on", NEW q \in Effect, NEW f \in Fields, q.sets[f] = 0
  PROVE  Then(p, q).sets[f] = p.sets[f]
<1>1. Then(p, q).sets[f] = Cut(p.sets[f] + Twice(p) * 0)
  BY ThenFields
<1>2. p.sets[f] \in 0..2
  BY EffectTyped
<1> QED
  BY <1>1, <1>2 DEF Cut, Twice

\* What is set later on is set.
LEMMA ThenAfter ==
  ASSUME NEW p \in Effect, p.out = "on", NEW q \in Effect, NEW f \in Fields, q.sets[f] >= 1
  PROVE  Then(p, q).sets[f] >= 1
<1>1. Then(p, q).sets[f] = Cut(p.sets[f] + Twice(p) * q.sets[f])
  BY ThenFields
<1>2. p.sets[f] \in 0..2 /\ q.sets[f] \in 0..2
  BY EffectTyped
<1> QED
  BY <1>1, <1>2 DEF Cut, Twice

LEMMA FieldRepeat ==
  ASSUME NEW so, NEW f \in Fields, NEW w, NEW e, NEW c, NEW P \in SUBSET Effect,
         FieldLevel(so, f, w, e, c, P), Still(w)
  PROVE  FieldLevel(so, f, w, e, c, P \cup Chain(P, P))
<1>1. ASSUME NEW p \in LiveSets(so, f, e), NEW q1 \in P, NEW q2 \in P, NEW r, r = Then(p, Then(q1, q2))
      PROVE  IF r.out = "on" THEN r \in LiveSets(so, f, c) ELSE r \in GoneSets(so, f)
  <2>1. p \in Effect /\ p.out = "on" /\ r = Then(Then(p, q1), q2)
    BY <1>1, ThenThen DEF LiveSets, Live
  <2> DEFINE r1 == Then(p, q1)  r2 == Then(p, q2)
  <2>3. /\ r1 \in Effect /\ r1.out = q1.out
        /\ r2 \in Effect /\ r2.out = q2.out /\ r2.again = (p.again \/ q2.again)
    BY <2>1, ThenFields
  <2>4. /\ IF r1.out = "on" THEN r1 \in LiveSets(so, f, c) ELSE r1 \in GoneSets(so, f)
        /\ IF r2.out = "on" THEN r2 \in LiveSets(so, f, c) ELSE r2 \in GoneSets(so, f)
    BY DEF FieldLevel, Moves
  <2>5. f \in so.unassignable => q1.sets[f] = 0 /\ q2.sets[f] = 0
    BY DEF FieldLevel
  <2>6. CASE r1.out = "on"
    <3>1. /\ r \in Effect /\ r.out = q2.out /\ r.again = (r1.again \/ q2.again)
      BY <2>1, <2>3, <2>6, ThenFields
    <3>2. r1.sets[f] <= r.sets[f] /\ r1.sets[f] \in 0..2 /\ r.sets[f] \in 0..2 /\ r2.sets[f] \in 0..2
      BY <2>1, <2>3, <3>1, ThenMore, EffectTyped
    <3>3. f \in so.unassignable => r.sets[f] = r1.sets[f]
      BY <2>1, <2>3, <2>5, <2>6, ThenUnset
    <3>4. p.sets[f] >= 1 \/ q2.sets[f] >= 1 => r.sets[f] >= 1
      <4>1. p.sets[f] <= r1.sets[f] /\ p.sets[f] \in 0..2
        BY <2>1, ThenMore, EffectTyped
      <4>2. q2.sets[f] >= 1 => r.sets[f] >= 1
        BY <2>1, <2>3, <2>6, ThenAfter
      <4> QED
        BY <3>2, <4>1, <4>2
    <3>5. r2.sets[f] >= 1 => p.sets[f] >= 1 \/ q2.sets[f] >= 1
      <4>1. q2.sets[f] = 0 => r2.sets[f] = p.sets[f]
        BY <2>1, ThenUnset
      <4>2. q2.sets[f] \in 0..2
        BY EffectTyped
      <4> QED
        BY <4>1, <4>2
    <3> HIDE DEF r1, r2
    <3>6. CASE r.out = "on"
      <4>1. r1 \in LiveSets(so, f, c) /\ r2 \in LiveSets(so, f, c)
        BY <2>3, <2>4, <2>6, <3>1, <3>6
      <4>2. r.again => "label" \in c
        BY <2>3, <3>1, <4>1 DEF LiveSets
      <4>3. f \in so.mustInit /\ ~Has(so, "goto") /\ "this" \in c => r.sets[f] >= 1
        BY <3>2, <4>1 DEF LiveSets
      <4>4. r \in Live
        BY <3>1, <3>6 DEF Live
      <4> QED
        BY <3>3, <3>6, <4>1, <4>2, <4>3, <4>4 DEF LiveSets
    <3>7. CASE r.out # "on"
      <4>1. r2 \in GoneSets(so, f)
        BY <2>3, <2>4, <3>1, <3>7
      <4>2. f \in so.mustInit /\ ~Has(so, "goto") /\ r.out = "return" => r.sets[f] >= 1
        BY <2>3, <3>1, <3>4, <3>5, <4>1 DEF GoneSets
      <4>3. f \in so.unassignable => r.sets[f] <= 1
        BY <2>4, <2>6, <3>3 DEF LiveSets
      <4>4. r.out = "goto" => Has(so, "goto")
        BY <2>3, <3>1, <4>1 DEF GoneSets
      <4>5. r \in Gone
        BY <3>1, <3>7 DEF Gone
      <4> QED
        BY <3>7, <4>2, <4>3, <4>4, <4>5 DEF GoneSets
    <3> QED
      BY <3>6, <3>7
  <2>7. CASE r1.out # "on"
    <3>1. r = r1
      BY <2>1, <2>3, <2>7, ThenFields
    <3> QED
      BY <2>4, <2>7, <3>1
  <2> QED
    BY <2>6, <2>7
<1>2. \A q \in Chain(P, P) : \E q1 \in P, q2 \in P : q = Then(q1, q2)
  BY InChain
<1>3. Moves(LiveSets(so, f, e), Chain(P, P), LiveSets(so, f, c), GoneSets(so, f))
  BY <1>1, <1>2 DEF Moves
<1>4. Moves(LiveSets(so, f, e), P \cup Chain(P, P), LiveSets(so, f, c), GoneSets(so, f))
  BY <1>3, MovesUnion DEF FieldLevel
<1>5. ASSUME f \in so.unassignable PROVE \A q \in Chain(P, P) : q.sets[f] = 0
  BY <1>5, NoSetsTwice DEF FieldLevel
<1>6. ASSUME Quiet(w) PROVE \A q \in Chain(P, P) : QuietEffect(q)
  BY <1>6, QuietTwice DEF FieldLevel
<1> QED
  BY <1>4, <1>5, <1>6 DEF FieldLevel

LEMMA FieldLoop ==
  ASSUME NEW so, NEW f \in Fields, NEW w, NEW e, NEW c, NEW P \in SUBSET Effect,
         FieldLevel(so, f, w, e, c, P), Looped(w), ~Quiet(w)
  PROVE  FieldLevel(so, f, w, e, e \cup c, {Skip} \cup P \cup Chain(P, P))
<1>1. Still(w)
  BY DEF Still, Looped
<1>2. FieldLevel(so, f, w, e, c, P \cup Chain(P, P))
  BY <1>1, FieldRepeat
<1>3. P \cup Chain(P, P) \in SUBSET Effect
  BY ChainTyped
<1>4. \A p \in LiveSets(so, f, e) : ~Halted(e)
  BY DEF LiveSets, Halted
<1>5. FieldLevel(so, f, w, e, e \cup c, P \cup Chain(P, P))
  BY <1>2, <1>3, <1>4, FieldUnion
<1>6. LiveSets(so, f, e) \subseteq LiveSets(so, f, e \cup c)
  <2> SUFFICES ASSUME NEW p \in LiveSets(so, f, e) PROVE p \in LiveSets(so, f, e \cup c)
    OBVIOUS
  <2>1. e \subseteq c /\ c \subseteq e \cup {"label"}
    BY <1>4 DEF FieldLevel
  <2> QED
    BY <2>1 DEF LiveSets
<1>7. Moves(LiveSets(so, f, e), {Skip}, LiveSets(so, f, e), {})
  BY SetsTyped, MovesSkip
<1>8. Moves(LiveSets(so, f, e), {Skip} \cup (P \cup Chain(P, P)), LiveSets(so, f, e \cup c), GoneSets(so, f))
  <2>1. Moves(LiveSets(so, f, e), P \cup Chain(P, P), LiveSets(so, f, e \cup c), GoneSets(so, f))
    BY <1>5 DEF FieldLevel
  <2> QED
    BY <1>6, <1>7, <2>1, MovesUnion
<1>9. Skip.sets[f] = 0
  BY SkipFields
<1>10. {Skip} \cup (P \cup Chain(P, P)) = {Skip} \cup P \cup Chain(P, P)
  OBVIOUS
<1>11. FieldLevel(so, f, w, e, e \cup c, {Skip} \cup (P \cup Chain(P, P)))
  BY <1>5, <1>8, <1>9 DEF FieldLevel
<1> QED
  BY <1>10, <1>11

LEMMA FieldLabel ==
  ASSUME NEW so, NEW f \in Fields, NEW w, NEW e, NEW c, NEW F \in SUBSET Effect, NEW Q \in SUBSET Effect,
         FieldLevel(so, f, w, e, c, Chain(F, Q)), NEW q0 \in Q, q0.out = "on", ~Quiet(w)
  PROVE  FieldLevel(so, f, w, e, c \cup {"label"}, Chain(F, AtLabel(Q)))
<1> DEFINE m == c \cup {"label"}
<1>2. ASSUME NEW p \in LiveSets(so, f, e), NEW h \in F, NEW q \in Q, NEW r, r = Then(p, Then(h, Labelled(q)))
      PROVE  IF r.out = "on" THEN r \in LiveSets(so, f, m) ELSE r \in GoneSets(so, f)
  <2>1. p \in Effect /\ p.out = "on" /\ Labelled(q) \in Effect
    BY LabelledFields DEF LiveSets, Live
  <2> DEFINE x == Then(p, h)
  <2>2. /\ x \in Effect /\ r = Then(x, Labelled(q))
        /\ \A q1 \in Q : Then(p, Then(h, q1)) = Then(x, q1)
    BY <1>2, <2>1, ThenThen, ThenFields
  <2>3. \A q1 \in Q : Then(h, q1) \in Chain(F, Q)
    BY InChain
  <2>4. \A q1 \in Q : IF Then(x, q1).out = "on" THEN Then(x, q1) \in LiveSets(so, f, c)
                                                ELSE Then(x, q1) \in GoneSets(so, f)
    BY <2>2, <2>3 DEF FieldLevel, Moves
  <2> HIDE DEF x
  <2>5. CASE x.out # "on"
    <3>1. r = x /\ Then(x, q) = x
      BY <2>1, <2>2, <2>5, ThenFields
    <3>2. x \in GoneSets(so, f)
      BY <2>4, <2>5, <3>1
    <3> QED
      BY <2>5, <3>1, <3>2
  <2>6. CASE x.out = "on"
    <3>1. /\ r \in Effect /\ r.sets[f] = Then(x, q).sets[f]
          /\ q.out \in {"on", "goto"} => r.out = "on" /\ r.again = TRUE
          /\ q.out \notin {"on", "goto"} => r = Then(x, q)
      BY <2>2, <2>6, ThenLabelled
    <3>2. Then(x, q).out = q.out /\ Then(x, q0).out = "on"
      BY <2>2, <2>6, ThenFields
    <3>3. Then(x, q0) \in LiveSets(so, f, c)
      BY <2>4, <3>2
    <3>4. "halt" \notin m /\ "return" \notin m
      BY <3>3 DEF LiveSets
    <3>5. CASE q.out = "on"
      <4>1. Then(x, q) \in LiveSets(so, f, c)
        BY <2>4, <3>2, <3>5
      <4>2. r \in Live /\ r.out = "on"
        BY <3>1, <3>5 DEF Live
      <4> QED
        BY <3>1, <3>4, <4>1, <4>2 DEF LiveSets
    <3>6. CASE q.out = "goto"
      <4>1. Then(x, q) \in GoneSets(so, f)
        BY <2>4, <3>2, <3>6
      <4>2. Has(so, "goto") /\ (f \in so.unassignable => r.sets[f] <= 1)
        BY <3>1, <3>2, <3>6, <4>1 DEF GoneSets
      <4>3. r \in Live /\ r.out = "on"
        BY <3>1, <3>6 DEF Live
      <4> QED
        BY <3>1, <3>4, <4>2, <4>3 DEF LiveSets
    <3>7. CASE q.out \notin {"on", "goto"}
      BY <2>4, <3>1, <3>2, <3>7
    <3> QED
      BY <3>5, <3>6, <3>7
  <2> QED
    BY <2>5, <2>6
<1>3. ASSUME NEW z \in Chain(F, AtLabel(Q)) PROVE \E h \in F, q \in Q : z = Then(h, Labelled(q))
  <2>1. PICK h \in F, y \in AtLabel(Q) : z = Then(h, y)
    BY InChain
  <2>2. PICK q \in Q : y = Labelled(q)
    BY InAtLabel
  <2> QED
    BY <2>1, <2>2
<1>4. Moves(LiveSets(so, f, e), Chain(F, AtLabel(Q)), LiveSets(so, f, m), GoneSets(so, f))
  <2>1. ASSUME NEW p \in LiveSets(so, f, e), NEW z \in Chain(F, AtLabel(Q))
        PROVE  IF Then(p, z).out = "on" THEN Then(p, z) \in LiveSets(so, f, m) ELSE Then(p, z) \in GoneSets(so, f)
    <3>1. PICK h \in F, q \in Q : z = Then(h, Labelled(q))
      BY <1>3
    <3>2. Then(p, z) = Then(p, Then(h, Labelled(q)))
      BY <3>1
    <3> DEFINE r == Then(p, z)
    <3>3. r = Then(p, Then(h, Labelled(q)))
      BY <3>2
    <3> HIDE DEF r
    <3>4. IF r.out = "on" THEN r \in LiveSets(so, f, m) ELSE r \in GoneSets(so, f)
      BY <1>2, <3>3
    <3> QED
      BY <3>4 DEF r
  <2> QED
    BY <2>1 DEF Moves
<1>5. ASSUME \A q \in Chain(F, Q) : q.sets[f] = 0, NEW z \in Chain(F, AtLabel(Q))
      PROVE  z.sets[f] = 0
  <2>1. PICK h \in F, q \in Q : z = Then(h, Labelled(q))
    BY <1>3
  <2>2. Then(h, q).sets[f] = 0
    BY <1>5, InChain
  <2>3. h.out = "on" => z.sets[f] = Then(h, q).sets[f]
    BY <2>1, ThenLabelled
  <2>4. h.out # "on" => z = h /\ Then(h, q) = h
    BY <2>1, LabelledFields, ThenFields
  <2> QED
    BY <2>2, <2>3, <2>4
<1>6. ASSUME Looped(w), ~Halted(e) PROVE e \subseteq m /\ m \subseteq e \cup {"label"}
  BY <1>6 DEF FieldLevel
<1>7. ASSUME Still(w), f \in so.unassignable PROVE \A q \in Chain(F, AtLabel(Q)) : q.sets[f] = 0
  BY <1>5, <1>7 DEF FieldLevel
<1> QED
  BY <1>4, <1>6, <1>7 DEF FieldLevel

LEMMA ThenSetless ==
  ASSUME NEW p \in Effect, p.out = "on", NEW q \in Effect, NEW f \in Fields, q.sets[f] = 0, ~q.again
  PROVE  /\ Then(p, q) \in Effect /\ Then(p, q).sets[f] = p.sets[f]
         /\ Then(p, q).again = p.again /\ Then(p, q).out = q.out
<1>1. Then(p, q) \in Effect /\ Then(p, q).out = q.out /\ Then(p, q).again = (p.again \/ q.again)
  BY ThenFields
<1>2. p.again \in BOOLEAN
  BY EffectTyped
<1> QED
  BY <1>1, <1>2, ThenUnset

LEMMA FieldNeutral ==
  ASSUME NEW so, NEW f \in Fields, NEW w, NEW c, NEW q \in Effect, q.sets[f] = 0, ~q.again,
         q.out \in {"on", "stopped", "goto"}, q.out = "goto" => Has(so, "goto"),
         Quiet(w) => QuietEffect(q)
  PROVE  FieldLevel(so, f, w, c, c, {q})
<1>1. ASSUME NEW p \in LiveSets(so, f, c)
      PROVE  IF Then(p, q).out = "on" THEN Then(p, q) \in LiveSets(so, f, c) ELSE Then(p, q) \in GoneSets(so, f)
  <2>1. p \in Effect /\ p.out = "on"
    BY DEF LiveSets, Live
  <2>2. /\ Then(p, q) \in Effect /\ Then(p, q).sets[f] = p.sets[f]
        /\ Then(p, q).again = p.again /\ Then(p, q).out = q.out
    BY <2>1, ThenSetless
  <2>3. CASE q.out = "on"
    BY <2>2, <2>3 DEF LiveSets, Live
  <2>4. CASE q.out # "on"
    BY <2>2, <2>4 DEF LiveSets, GoneSets, Gone
  <2> QED
    BY <2>2, <2>3, <2>4
<1>2. Moves(LiveSets(so, f, c), {q}, LiveSets(so, f, c), GoneSets(so, f))
  BY <1>1 DEF Moves
<1> QED
  BY <1>2 DEF FieldLevel

LEMMA FieldHalt ==
  ASSUME NEW so, NEW f \in Fields, NEW w, NEW c, NEW q \in Effect, q.sets[f] = 0, ~q.again,
         q.out = "stopped", ~Looped(w), Quiet(w) => QuietEffect(q)
  PROVE  FieldLevel(so, f, w, c, c \cup {"halt"}, {q})
<1>1. ASSUME NEW p \in LiveSets(so, f, c)
      PROVE  Then(p, q).out = "stopped" /\ Then(p, q) \in GoneSets(so, f)
  <2>1. p \in Effect /\ p.out = "on"
    BY DEF LiveSets, Live
  <2>2. /\ Then(p, q) \in Effect /\ Then(p, q).sets[f] = p.sets[f] /\ Then(p, q).out = q.out
    BY <2>1, ThenSetless
  <2> QED
    BY <2>2 DEF LiveSets, GoneSets, Gone
<1>2. Moves(LiveSets(so, f, c), {q}, LiveSets(so, f, c \cup {"halt"}), GoneSets(so, f))
  BY <1>1 DEF Moves
<1> QED
  BY <1>2 DEF FieldLevel

LEMMA FieldReturn ==
  ASSUME NEW so, NEW f \in Fields, NEW w, NEW c, NEW q \in Effect, q.sets[f] = 0, ~q.again,
         q.out = "return", ~Looped(w), ~Quiet(w), f \in so.mustInit => "this" \in c
  PROVE  FieldLevel(so, f, w, c, c \cup {"return"}, {q})
<1>1. ASSUME NEW p \in LiveSets(so, f, c)
      PROVE  Then(p, q).out = "return" /\ Then(p, q) \in GoneSets(so, f)
  <2>1. p \in Effect /\ p.out = "on"
    BY DEF LiveSets, Live
  <2>2. /\ Then(p, q) \in Effect /\ Then(p, q).sets[f] = p.sets[f] /\ Then(p, q).out = q.out
    BY <2>1, ThenSetless
  <2> QED
    BY <2>2 DEF LiveSets, GoneSets, Gone
<1>2. Moves(LiveSets(so, f, c), {q}, LiveSets(so, f, c \cup {"return"}), GoneSets(so, f))
  BY <1>1 DEF Moves
<1> QED
  BY <1>2 DEF FieldLevel

\* An assignment to f that no error is reported for.
LEMMA FieldSet ==
  ASSUME NEW so, NEW f \in Fields, NEW w, NEW c, NEW q \in Effect, q.sets[f] = 1, ~q.again,
         q.out = "on", ~Quiet(w),
         "this" \in c => f \notin so.unassignable,
         "this" \notin c => /\ "label" \notin c \/ f \notin so.unassignable
                           /\ ~Looped(w),
         Still(w) => f \notin so.unassignable
  PROVE  FieldLevel(so, f, w, c, c \cup {"this"}, {q})
<1> DEFINE m == c \cup {"this"}
<1>1. ASSUME NEW p \in LiveSets(so, f, c)
      PROVE  Then(p, q).out = "on" /\ Then(p, q) \in LiveSets(so, f, m)
  <2>1. p \in Effect /\ p.out = "on" /\ p.sets[f] \in 0..2
    BY EffectTyped DEF LiveSets, Live
  <2>2. /\ Then(p, q) \in Effect /\ Then(p, q).out = "on" /\ Then(p, q).again = (p.again \/ q.again)
        /\ Then(p, q).sets[f] = Cut(p.sets[f] + Twice(p) * 1)
    BY <2>1, ThenFields
  <2>3. Then(p, q).sets[f] >= 1
    BY <2>1, <2>2 DEF Cut, Twice
  <2>4. ASSUME f \in so.unassignable PROVE Then(p, q).sets[f] = 1
    <3>1. "this" \notin c /\ "label" \notin c
      BY <2>4
    <3>2. p.sets[f] = 0 /\ ~p.again
      BY <2>1, <2>4, <3>1 DEF LiveSets
    <3>3. Twice(p) = 1
      BY <3>2 DEF Twice
    <3> QED
      BY <2>2, <3>2, <3>3 DEF Cut
  <2>5. "halt" \notin m /\ "return" \notin m /\ "this" \in m
    BY DEF LiveSets
  <2>6. Then(p, q).again => "label" \in m
    BY <2>2 DEF LiveSets
  <2>7. Then(p, q) \in Live
    BY <2>2 DEF Live
  <2> HIDE DEF m
  <2> QED
    BY <2>2, <2>3, <2>4, <2>5, <2>6, <2>7 DEF LiveSets
<1>2. Moves(LiveSets(so, f, c), {q}, LiveSets(so, f, m), GoneSets(so, f))
  BY <1>1 DEF Moves
<1>3. Looped(w) => m = c
  OBVIOUS
<1> QED
  BY <1>2, <1>3 DEF FieldLevel

-----------------------------------------------------------------------------
(* Calls and fields together                                               *)

\* What is watched: a field, or, under the name Calling, the calls.
Calling == CHOOSE x : x \notin Fields

LEMMA CallingIsNoField == Calling \notin Fields
  BY NoSetContainsEverything DEF Calling

\* With a call of this() or an && the flags of the fields say little.
Watched(so) ==
    {Calling} \cup {f \in so.mustInit \cup so.unassignable : ~Has(so, "this") /\ ~Has(so, "&&")}

Seen(x, cs, fi) == IF x \in Fields THEN fi[x] ELSE cs

Level(so, x, w, e, c, P) ==
    IF x \in Fields THEN FieldLevel(so, x, w, e, c, P) ELSE CallLevel(so, w, e, c, P)

LEMMA Compose ==
  ASSUME NEW so, NEW x, NEW w, NEW a, NEW b, NEW c, NEW P \in SUBSET Effect, NEW Q \in SUBSET Effect,
         Level(so, x, w, a, b, P), Level(so, x, w, b, c, Q)
  PROVE  Level(so, x, w, a, c, Chain(P, Q))
<1>1. CASE x \in Fields
  BY <1>1, FieldCompose DEF Level
<1>2. CASE x \notin Fields
  BY <1>2, CallCompose DEF Level
<1> QED
  BY <1>1, <1>2

LEMMA Weaken ==
  ASSUME NEW so, NEW x, NEW w, NEW v, Weaker(v, w), NEW e, NEW c, NEW P, NEW Q \in SUBSET P,
         Level(so, x, w, e, c, P)
  PROVE  Level(so, x, v, e, c, Q)
<1>1. CASE x \in Fields
  BY <1>1, FieldWeaken DEF Level
<1>2. CASE x \notin Fields
  BY <1>2, CallWeaken DEF Level
<1> QED
  BY <1>1, <1>2

Fits(so, x, c) == x \notin Fields => Fitting(so, c)

LEMMA LevelFits ==
  ASSUME NEW so, NEW x, NEW w, NEW e, NEW c, NEW P, Level(so, x, w, e, c, P)
  PROVE  Fits(so, x, e) /\ Fits(so, x, c)
  BY DEF Level, Fits, CallLevel

LEMMA Stay ==
  ASSUME NEW so, NEW x, NEW w, NEW e, Fits(so, x, e)
  PROVE  Level(so, x, w, e, e, {Skip})
<1>1. CASE x \in Fields
  BY <1>1, FieldStay DEF Level
<1>2. CASE x \notin Fields
  BY <1>2, CallStay DEF Level, Fits
<1> QED
  BY <1>1, <1>2

\* Conditions leave no trace but a path that stops.
LEMMA QuietLevel ==
  ASSUME NEW so, NEW x, NEW w, NEW e, Fits(so, x, e), NEW P \in SUBSET Effect, \A q \in P : QuietEffect(q)
  PROVE  Level(so, x, w, e, e, P)
<1>1. CASE x \in Fields
  <2>1. ASSUME NEW q \in P PROVE FieldLevel(so, x, w, e, e, {q})
    BY <1>1, <2>1, FieldNeutral DEF QuietEffect
  <2>2. Moves(LiveSets(so, x, e), P, LiveSets(so, x, e), GoneSets(so, x))
    BY <2>1 DEF FieldLevel, Moves
  <2>3. \A q \in P : q.sets[x] = 0
    BY <1>1 DEF QuietEffect
  <2> QED
    BY <1>1, <2>2, <2>3 DEF FieldLevel, Level
<1>2. CASE x \notin Fields
  <2>1. ASSUME NEW q \in P PROVE CallLevel(so, w, e, e, {q})
    BY <1>2, <2>1, CallNeutral DEF QuietEffect, Fits
  <2>2. Moves(LiveCalls(so, e), P, LiveCalls(so, e), GoneCalls(so, e))
    BY <2>1 DEF CallLevel, Moves
  <2>3. \A q \in P : q.calls = 0
    BY DEF QuietEffect
  <2>4. Grows(e, e) /\ Fitting(so, e)
    BY <1>2 DEF Grows, Fits
  <2> QED
    BY <1>2, <2>2, <2>3, <2>4 DEF CallLevel, Level
<1> QED
  BY <1>1, <1>2

\* The flags after two branches.
LEMMA MergeLevel ==
  ASSUME NEW so, NEW x, NEW w, NEW e, NEW a, NEW b, NEW m, NEW P, NEW Q,
         x \notin Fields => MergedCalls(b, a).ok /\ m = MergedCalls(b, a).cs,
         x \in Fields => (x \in so.mustInit => MergedField(b, a).ok) /\ m = MergedField(b, a).fi,
         Level(so, x, w, e, b, P), Level(so, x, w, e, a, Q)
  PROVE  Level(so, x, w, e, m, P \cup Q)
<1>1. CASE x \in Fields
  BY <1>1, FieldMerge DEF Level
<1>2. CASE x \notin Fields
  BY <1>2, CallMerge DEF Level
<1> QED
  BY <1>1, <1>2

\* A scope that is popped: what its flags g were, or those after the condition.
LEMMA PopLevel ==
  ASSUME NEW so, NEW x, NEW w, NEW e, NEW c, NEW g, NEW P \in SUBSET Effect, Level(so, x, w, e, c, P),
         g = e \/ e = g \cup {"label"}
  PROVE  Level(so, x, w, e, g \cup c, P)
<1>1. CASE x \in Fields
  <2>1. \A p \in LiveSets(so, x, e) : ~Halted(g)
    BY DEF LiveSets, Halted
  <2>2. g \subseteq e
    OBVIOUS
  <2> QED
    BY <1>1, <2>1, <2>2, FieldUnion DEF Level
<1>2. CASE x \notin Fields
  <2>1. \A p \in LiveCalls(so, e) : ~Halted(g)
    BY DEF LiveCalls, Halted
  <2>2. g \subseteq e
    OBVIOUS
  <2>3. Fitting(so, e)
    BY <1>2 DEF Level, CallLevel
  <2>4. Fitting(so, g)
    BY <2>3 DEF Fitting, Called, Halted, Calls
  <2>5. Grows(e, g)
    BY DEF Grows, Halted
  <2> QED
    BY <1>2, <2>1, <2>2, <2>4, <2>5, CallUnion DEF Level
<1> QED
  BY <1>1, <1>2

LEMMA PopBranch ==
  ASSUME NEW so, NEW x, NEW w, NEW e, NEW c, NEW g, NEW F \in SUBSET Effect, NEW P \in SUBSET Effect,
         Level(so, x, w, e, c, Chain(F, P)), Level(so, x, w, e, g, F), g \subseteq e \cup {"halt"}
  PROVE  Level(so, x, w, e, g \cup c, Chain(F, P))
<1>0. Chain(F, P) \in SUBSET Effect
  BY ChainTyped
<1>1. CASE x \in Fields
  <2>1. ASSUME NEW p \in LiveSets(so, x, e), NEW q \in Chain(F, P), Then(p, q).out = "on" PROVE ~Halted(g)
    <3>1. PICK h \in F, q1 \in P : q = Then(h, q1)
      BY InChain
    <3>2. p \in Effect /\ p.out = "on"
      BY DEF LiveSets, Live
    <3>3. Then(p, h) \in Effect /\ Then(p, q) = Then(Then(p, h), q1)
      BY <3>1, <3>2, ThenThen, ThenFields
    <3>4. Then(p, h).out = "on"
      BY <2>1, <3>3, ThenFields
    <3>5. Then(p, h) \in LiveSets(so, x, g)
      BY <1>1, <3>4 DEF Level, FieldLevel, Moves
    <3> QED
      BY <3>5 DEF LiveSets, Halted
  <2>2. Looped(w) /\ ~Halted(e) => g \subseteq e
    BY <1>1 DEF Level, FieldLevel
  <2>3. FieldLevel(so, x, w, e, c, Chain(F, P))
    BY <1>1 DEF Level
  <2>4. FieldLevel(so, x, w, e, g \cup c, Chain(F, P))
    BY <1>0, <1>1, <2>1, <2>2, <2>3, FieldUnion
  <2> QED
    BY <1>1, <2>4 DEF Level
<1>2. CASE x \notin Fields
  <2>1. ASSUME NEW p \in LiveCalls(so, e), NEW q \in Chain(F, P), Then(p, q).out = "on" PROVE ~Halted(g)
    <3>1. PICK h \in F, q1 \in P : q = Then(h, q1)
      BY InChain
    <3>2. p \in Effect /\ p.out = "on"
      BY DEF LiveCalls, Live
    <3>3. Then(p, h) \in Effect /\ Then(p, q) = Then(Then(p, h), q1)
      BY <3>1, <3>2, ThenThen, ThenFields
    <3>4. Then(p, h).out = "on"
      BY <2>1, <3>3, ThenFields
    <3>5. Then(p, h) \in LiveCalls(so, g)
      BY <1>2, <3>4 DEF Level, CallLevel, Moves
    <3> QED
      BY <3>5 DEF LiveCalls, Halted
  <2>2. Looped(w) /\ ~Halted(e) => g \subseteq e
    BY <1>2 DEF Level, CallLevel
  <2>3. CallLevel(so, w, e, c, Chain(F, P)) /\ Fitting(so, g) /\ Grows(e, g)
    BY <1>2 DEF Level, CallLevel
  <2>4. CallLevel(so, w, e, g \cup c, Chain(F, P))
    BY <1>0, <2>1, <2>2, <2>3, CallUnion
  <2> QED
    BY <1>2, <2>4 DEF Level
<1> QED
  BY <1>1, <1>2

LEMMA RepeatLevel ==
  ASSUME NEW so, NEW x, NEW w, NEW e, NEW c, NEW P \in SUBSET Effect, Level(so, x, w, e, c, P), Still(w)
  PROVE  Level(so, x, w, e, c, P \cup Chain(P, P))
<1>1. CASE x \in Fields
  BY <1>1, FieldRepeat DEF Level
<1>2. CASE x \notin Fields
  BY <1>2, CallRepeat DEF Level
<1> QED
  BY <1>1, <1>2

LEMMA LoopLevel ==
  ASSUME NEW so, NEW x, NEW w, NEW e, NEW c, NEW P \in SUBSET Effect,
         Level(so, x, w, e, c, P), Looped(w), ~Quiet(w)
  PROVE  Level(so, x, w, e, e \cup c, {Skip} \cup P \cup Chain(P, P))
<1>1. CASE x \in Fields
  BY <1>1, FieldLoop DEF Level
<1>2. CASE x \notin Fields
  BY <1>2, CallLoop DEF Level
<1> QED
  BY <1>1, <1>2

LEMMA LabelLevel ==
  ASSUME NEW so, NEW x, NEW w, NEW e, NEW c, NEW F \in SUBSET Effect, NEW Q \in SUBSET Effect,
         Level(so, x, w, e, c, Chain(F, Q)), NEW q0 \in Q, q0.out = "on", ~Quiet(w)
  PROVE  Level(so, x, w, e, c \cup {"label"}, Chain(F, AtLabel(Q)))
<1>1. CASE x \in Fields
  BY <1>1, FieldLabel DEF Level
<1>2. CASE x \notin Fields
  BY <1>2, CallLabel DEF Level
<1> QED
  BY <1>1, <1>2

-----------------------------------------------------------------------------
(* The frames                                                              *)

Effects == (SUBSET Effect) \ {{}}

FrameSet ==
    [kind : Kinds, cs : SUBSET Flags, fi : [Fields -> SUBSET Flags],
     cs1 : SUBSET Flags, fi1 : [Fields -> SUBSET Flags],
     before : Effects, first : Effects, second : Effects]

KindsTo(s, k) == {s[j].kind : j \in 1..k}
Around(s) == KindsTo(s, Len(s))

\* The flags that the part of a frame starts with, and what runs before it.
Start(x, fr) == Seen(x, fr.cs, fr.fi) \cup {l \in {"label"} : fr.kind = "label"}
EntryTo(x, s, k) == IF k = 0 THEN {} ELSE Start(x, s[k])
LeadTo(s, k) == IF k = 0 THEN {Skip} ELSE s[k].first
Entry(x, s) == EntryTo(x, s, Len(s))
Lead(s) == LeadTo(s, Len(s))

\* Only an operand or a part of ?: is in an expression; only conditions are first.
ShapedFrame(so, w, fr) ==
    /\ fr.kind \notin {"then", "else"} => fr.first = {Skip}
    /\ fr.kind \in {"then", "else"} => \A q \in fr.first : QuietEffect(q)
    /\ fr.kind \notin {"left", "right", "operand"} => w \cap Expressions = {}
    /\ fr.kind = "operand" => Has(so, "&&")

Shaped(so, s) == \A k \in 1..Len(s) : ShapedFrame(so, KindsTo(s, k - 1), s[k])

\* From the beginning of a frame to the frame inside it.
BelowFrame(so, x, w, e, first, fr) == Level(so, x, w, e, Start(x, fr), Chain(first, fr.before))
Below(so, x, s) ==
    \A k \in 1..Len(s) : BelowFrame(so, x, KindsTo(s, k - 1), EntryTo(x, s, k - 1), LeadTo(s, k - 1), s[k])

\* The parts of a frame that are finished.
PartsOf(so, x, w, fr) ==
    LET e == Seen(x, fr.cs, fr.fi)  e1 == Seen(x, fr.cs1, fr.fi1)
    IN  /\ fr.kind = "declared" => e1 = e
        /\ fr.kind = "then" => Level(so, x, w, e, e1, fr.first) /\ e1 \subseteq e \cup {"halt"}
        /\ fr.kind \in {"else", "right"} => Level(so, x, w, e, e1, fr.second)
Parts(so, x, s) == \A k \in 1..Len(s) : PartsOf(so, x, KindsTo(s, k), s[k])

\* The flags c fit what P does in the innermost frame, and so on outwards.
Tracks(so, x, s, c, P) ==
    /\ Below(so, x, s) /\ Parts(so, x, s)
    /\ Level(so, x, Around(s), Entry(x, s), c, Chain(Lead(s), P))

LEMMA FrameTyped ==
  ASSUME NEW fr \in FrameSet
  PROVE  /\ fr.kind \in Kinds /\ fr.cs \subseteq Flags /\ fr.cs1 \subseteq Flags
         /\ fr.fi \in [Fields -> SUBSET Flags] /\ fr.fi1 \in [Fields -> SUBSET Flags]
         /\ fr.before \in SUBSET Effect /\ fr.first \in SUBSET Effect /\ fr.second \in SUBSET Effect
         /\ fr.before # {} /\ fr.first # {} /\ fr.second # {}
  BY DEF FrameSet, Effects

\* t is s with the frame fr on it.
Extends(t, s, fr) ==
    /\ t \in Seq(FrameSet) /\ Len(t) = Len(s) + 1 /\ t[Len(t)] = fr /\ t # <<>>
    /\ Len(s) \in Nat /\ \A k \in 1..Len(s) : t[k] = s[k]
    /\ \A k \in 0..Len(s) : KindsTo(t, k) = KindsTo(s, k)
    /\ \A k \in 0..Len(s) : LeadTo(t, k) = LeadTo(s, k)
    /\ \A x : \A k \in 0..Len(s) : EntryTo(x, t, k) = EntryTo(x, s, k)
    /\ Around(t) = Around(s) \cup {fr.kind} /\ Lead(t) = fr.first
    /\ \A x : Entry(x, t) = Start(x, fr)

LEMMA Appended ==
  ASSUME NEW s \in Seq(FrameSet), NEW fr \in FrameSet
  PROVE  Extends(Append(s, fr), s, fr)
<1> DEFINE t == Append(s, fr)
<1>1. /\ t \in Seq(FrameSet) /\ Len(t) = Len(s) + 1 /\ t[Len(t)] = fr /\ t # <<>> /\ Len(s) \in Nat
      /\ \A k \in 1..Len(s) : t[k] = s[k]
  OBVIOUS
<1> HIDE DEF t
<1>2. ASSUME NEW k \in 0..Len(s)
      PROVE  /\ KindsTo(t, k) = KindsTo(s, k) /\ LeadTo(t, k) = LeadTo(s, k)
             /\ \A x : EntryTo(x, t, k) = EntryTo(x, s, k)
  <2>1. \A j \in 1..k : t[j] = s[j]
    BY <1>1
  <2>2. KindsTo(t, k) = KindsTo(s, k)
    BY <2>1 DEF KindsTo
  <2>3. k # 0 => t[k] = s[k]
    BY <1>1
  <2> QED
    BY <2>2, <2>3 DEF LeadTo, EntryTo
<1>3. Around(t) = Around(s) \cup {fr.kind}
  <2>1. \A j \in 1..Len(t) : j \in 1..Len(s) \/ j = Len(t)
    BY <1>1
  <2>2. \A j \in 1..Len(s) : j \in 1..Len(t)
    BY <1>1
  <2>3. Len(t) \in 1..Len(t)
    BY <1>1
  <2> QED
    BY <1>1, <2>1, <2>2, <2>3 DEF Around, KindsTo
<1>4. Len(t) # 0
  BY <1>1
<1>5. Lead(t) = fr.first /\ \A x : Entry(x, t) = Start(x, fr)
  BY <1>1, <1>4 DEF Lead, LeadTo, Entry, EntryTo
<1>6. Extends(t, s, fr)
  BY <1>1, <1>2, <1>3, <1>5 DEF Extends
<1> QED
  BY <1>6 DEF t

\* A stack with a frame is what is below the frame and the frame.
LEMMA Splits ==
  ASSUME NEW s \in Seq(FrameSet), s # <<>>
  PROVE  /\ SubSeq(s, 1, Len(s) - 1) \in Seq(FrameSet) /\ s[Len(s)] \in FrameSet
         /\ s = Append(SubSeq(s, 1, Len(s) - 1), s[Len(s)])
  OBVIOUS

LEMMA ShapedTop ==
  ASSUME NEW so, NEW s \in Seq(FrameSet), NEW fr \in FrameSet
  PROVE  Shaped(so, Append(s, fr)) <=> Shaped(so, s) /\ ShapedFrame(so, Around(s), fr)
<1> DEFINE t == Append(s, fr)
<1>0. t = Append(s, fr) /\ Extends(t, s, fr)
  BY Appended
<1> HIDE DEF t
<1>1. /\ Len(t) = Len(s) + 1 /\ t[Len(t)] = fr /\ Len(s) \in Nat
      /\ \A k \in 1..Len(s) : t[k] = s[k]
      /\ \A k \in 0..Len(s) : KindsTo(t, k) = KindsTo(s, k)
  BY <1>0 DEF Extends
<1>2. /\ \A k \in 1..Len(t) : k \in 1..Len(s) \/ k = Len(t)
      /\ \A k \in 1..Len(s) : k \in 1..Len(t) /\ k - 1 \in 0..Len(s)
      /\ Len(t) \in 1..Len(t) /\ Len(t) - 1 = Len(s) /\ Len(s) \in 0..Len(s)
  BY <1>1
<1>3. \A k \in 1..Len(s) : ShapedFrame(so, KindsTo(t, k - 1), t[k]) <=> ShapedFrame(so, KindsTo(s, k - 1), s[k])
  BY <1>1, <1>2
<1>4. ShapedFrame(so, KindsTo(t, Len(t) - 1), t[Len(t)]) <=> ShapedFrame(so, Around(s), fr)
  BY <1>1, <1>2 DEF Around
<1>5. Shaped(so, t) <=> Shaped(so, s) /\ ShapedFrame(so, Around(s), fr)
  BY <1>2, <1>3, <1>4 DEF Shaped
<1> QED
  BY <1>0, <1>5

LEMMA TracksTop ==
  ASSUME NEW so, NEW x, NEW s \in Seq(FrameSet), NEW fr \in FrameSet, NEW c, NEW P
  PROVE  Tracks(so, x, Append(s, fr), c, P) <=>
           /\ Below(so, x, s) /\ Parts(so, x, s)
           /\ Level(so, x, Around(s), Entry(x, s), Start(x, fr), Chain(Lead(s), fr.before))
           /\ PartsOf(so, x, Around(s) \cup {fr.kind}, fr)
           /\ Level(so, x, Around(s) \cup {fr.kind}, Start(x, fr), c, Chain(fr.first, P))
<1> DEFINE t == Append(s, fr)
<1>0. t = Append(s, fr) /\ Extends(t, s, fr)
  BY Appended
<1> HIDE DEF t
<1>1. /\ Len(t) = Len(s) + 1 /\ t[Len(t)] = fr /\ Len(s) \in Nat
      /\ \A k \in 1..Len(s) : t[k] = s[k]
      /\ \A k \in 0..Len(s) : KindsTo(t, k) = KindsTo(s, k)
      /\ \A k \in 0..Len(s) : LeadTo(t, k) = LeadTo(s, k)
      /\ \A y : \A k \in 0..Len(s) : EntryTo(y, t, k) = EntryTo(y, s, k)
      /\ Around(t) = Around(s) \cup {fr.kind} /\ Lead(t) = fr.first
      /\ \A y : Entry(y, t) = Start(y, fr)
  BY <1>0 DEF Extends
<1>2. /\ \A k \in 1..Len(t) : k \in 1..Len(s) \/ k = Len(t)
      /\ \A k \in 1..Len(s) : k \in 1..Len(t) /\ k - 1 \in 0..Len(s) /\ k \in 0..Len(s)
      /\ Len(t) \in 1..Len(t) /\ Len(t) - 1 = Len(s) /\ Len(s) \in 0..Len(s)
  BY <1>1
<1>3. \A k \in 1..Len(s) :
         BelowFrame(so, x, KindsTo(t, k - 1), EntryTo(x, t, k - 1), LeadTo(t, k - 1), t[k])
         <=> BelowFrame(so, x, KindsTo(s, k - 1), EntryTo(x, s, k - 1), LeadTo(s, k - 1), s[k])
  BY <1>1, <1>2
<1>4. BelowFrame(so, x, KindsTo(t, Len(t) - 1), EntryTo(x, t, Len(t) - 1), LeadTo(t, Len(t) - 1), t[Len(t)])
         <=> Level(so, x, Around(s), Entry(x, s), Start(x, fr), Chain(Lead(s), fr.before))
  BY <1>1, <1>2 DEF Around, Entry, Lead, BelowFrame
<1>5. Below(so, x, t) <=> /\ Below(so, x, s)
                          /\ Level(so, x, Around(s), Entry(x, s), Start(x, fr), Chain(Lead(s), fr.before))
  BY <1>2, <1>3, <1>4 DEF Below
<1>6. \A k \in 1..Len(s) : PartsOf(so, x, KindsTo(t, k), t[k]) <=> PartsOf(so, x, KindsTo(s, k), s[k])
  BY <1>1, <1>2
<1>7. PartsOf(so, x, KindsTo(t, Len(t)), t[Len(t)]) <=> PartsOf(so, x, Around(s) \cup {fr.kind}, fr)
  BY <1>1 DEF Around
<1>8. Parts(so, x, t) <=> Parts(so, x, s) /\ PartsOf(so, x, Around(s) \cup {fr.kind}, fr)
  BY <1>2, <1>6, <1>7 DEF Parts
<1>9. Tracks(so, x, t, c, P) <=>
           /\ Below(so, x, s) /\ Parts(so, x, s)
           /\ Level(so, x, Around(s), Entry(x, s), Start(x, fr), Chain(Lead(s), fr.before))
           /\ PartsOf(so, x, Around(s) \cup {fr.kind}, fr)
           /\ Level(so, x, Around(s) \cup {fr.kind}, Start(x, fr), c, Chain(fr.first, P))
  BY <1>1, <1>5, <1>8 DEF Tracks
<1> QED
  BY <1>0, <1>9

LEMMA LeadTyped ==
  ASSUME NEW s \in Seq(FrameSet)
  PROVE  Lead(s) \in SUBSET Effect /\ Lead(s) # {}
<1>1. CASE Len(s) = 0
  BY <1>1, SkipLive DEF Lead, LeadTo
<1>2. CASE Len(s) # 0
  <2>1. s[Len(s)] \in FrameSet
    BY <1>2
  <2> QED
    BY <1>2, <2>1, FrameTyped DEF Lead, LeadTo
<1> QED
  BY <1>1, <1>2

\* One more construct runs in the innermost frame.
LEMMA TracksOn ==
  ASSUME NEW so, NEW x, NEW s \in Seq(FrameSet), NEW b, NEW c, NEW P \in SUBSET Effect, NEW Q \in SUBSET Effect,
         Tracks(so, x, s, b, P), Level(so, x, Around(s), b, c, Q)
  PROVE  Tracks(so, x, s, c, Chain(P, Q))
<1>1. Lead(s) \in SUBSET Effect /\ Chain(Lead(s), P) \in SUBSET Effect
  BY LeadTyped, ChainTyped
<1>2. Level(so, x, Around(s), Entry(x, s), b, Chain(Lead(s), P))
  BY DEF Tracks
<1>3. Level(so, x, Around(s), Entry(x, s), c, Chain(Chain(Lead(s), P), Q))
  BY <1>1, <1>2, Compose
<1>4. Chain(Chain(Lead(s), P), Q) = Chain(Lead(s), Chain(P, Q))
  BY <1>1, ChainChain
<1> QED
  BY <1>3, <1>4 DEF Tracks

\* A frame without finished parts is pushed.
LEMMA TracksPush ==
  ASSUME NEW so, NEW x, NEW s \in Seq(FrameSet), NEW fr \in FrameSet, NEW c, NEW P,
         Tracks(so, x, s, c, P), Level(so, x, Around(s), Entry(x, s), Start(x, fr), Chain(Lead(s), fr.before)),
         fr.kind \notin {"then", "else", "right"}, Seen(x, fr.cs1, fr.fi1) = Seen(x, fr.cs, fr.fi),
         fr.first = {Skip}
  PROVE  Tracks(so, x, Append(s, fr), Start(x, fr), {Skip})
<1>1. Below(so, x, s) /\ Parts(so, x, s)
  BY DEF Tracks
<1>2. PartsOf(so, x, Around(s) \cup {fr.kind}, fr)
  BY DEF PartsOf
<1>3. Fits(so, x, Start(x, fr))
  <2> DEFINE w == Around(s)  e == Entry(x, s)  P0 == Chain(Lead(s), fr.before)
  <2>1. Level(so, x, w, e, Start(x, fr), P0)
    OBVIOUS
  <2> HIDE DEF w, e, P0
  <2> QED
    BY <2>1, LevelFits
<1>4. Chain(fr.first, {Skip}) = {Skip}
  <2>1. {Skip} \in SUBSET Effect
    BY SkipLive
  <2> QED
    BY <2>1, ChainSkip
<1>5. Level(so, x, Around(s) \cup {fr.kind}, Start(x, fr), Start(x, fr), Chain(fr.first, {Skip}))
  BY <1>3, <1>4, Stay
<1> QED
  BY <1>1, <1>2, <1>5, TracksTop

\* The frame is finished; all of it does Q.
LEMMA TracksPop ==
  ASSUME NEW so, NEW x, NEW s \in Seq(FrameSet), NEW fr \in FrameSet, NEW b, NEW P, NEW c, NEW Q \in SUBSET Effect,
         Tracks(so, x, Append(s, fr), b, P),
         Level(so, x, Around(s) \cup {fr.kind}, Start(x, fr), c, Q)
  PROVE  Tracks(so, x, s, c, Chain(fr.before, Q))
<1>1. /\ Below(so, x, s) /\ Parts(so, x, s)
      /\ Level(so, x, Around(s), Entry(x, s), Start(x, fr), Chain(Lead(s), fr.before))
  BY TracksTop
<1>2. Weaker(Around(s), Around(s) \cup {fr.kind})
  BY DEF Weaker, Looped, Still, Quiet
<1>3. Level(so, x, Around(s), Start(x, fr), c, Q)
  BY <1>2, Weaken
<1>4. fr.before \in SUBSET Effect /\ Lead(s) \in SUBSET Effect /\ Chain(Lead(s), fr.before) \in SUBSET Effect
  BY FrameTyped, LeadTyped, ChainTyped
<1>5. Level(so, x, Around(s), Entry(x, s), c, Chain(Chain(Lead(s), fr.before), Q))
  BY <1>1, <1>3, <1>4, Compose
<1>6. Chain(Chain(Lead(s), fr.before), Q) = Chain(Lead(s), Chain(fr.before, Q))
  BY <1>4, ChainChain
<1> QED
  BY <1>1, <1>5, <1>6 DEF Tracks

\* The innermost frame goes on with its next part.
LEMMA TracksTurn ==
  ASSUME NEW so, NEW x, NEW s \in Seq(FrameSet), NEW fr \in FrameSet, NEW b, NEW P, NEW g \in FrameSet,
         NEW c, NEW Q,
         Tracks(so, x, Append(s, fr), b, P),
         fr.kind # "label", g.kind # "label", g.cs = fr.cs, g.fi = fr.fi, g.before = fr.before,
         PartsOf(so, x, Around(s) \cup {g.kind}, g),
         Level(so, x, Around(s) \cup {g.kind}, Seen(x, fr.cs, fr.fi), c, Chain(g.first, Q))
  PROVE  Tracks(so, x, Append(s, g), c, Q)
<1>1. /\ Below(so, x, s) /\ Parts(so, x, s)
      /\ Level(so, x, Around(s), Entry(x, s), Start(x, fr), Chain(Lead(s), fr.before))
  BY TracksTop
<1>2. Start(x, fr) = Seen(x, fr.cs, fr.fi) /\ Start(x, g) = Seen(x, fr.cs, fr.fi)
  BY DEF Start
<1> QED
  BY <1>1, <1>2, TracksTop

-----------------------------------------------------------------------------
(* Types                                                                   *)

LoopsOf(s) == {i \in 1..Len(s) : s[i].kind \in Loops}

Typed ==
    /\ callSuper \subseteq Flags
    /\ fieldinit \in [Fields -> SUBSET Flags]
    /\ ctorinit \subseteq Fields
    /\ stack \in Seq(FrameSet)
    /\ noctor = Cardinality(LoopsOf(stack))
    /\ paths \in Effects
    /\ sort \in Sorts /\ done \in BOOLEAN

LEMMA LoopsTop ==
  ASSUME NEW s \in Seq(FrameSet), NEW fr \in FrameSet
  PROVE  /\ IsFiniteSet(LoopsOf(s)) /\ Cardinality(LoopsOf(s)) \in Nat
         /\ fr.kind \in Loops => Cardinality(LoopsOf(Append(s, fr))) = Cardinality(LoopsOf(s)) + 1
         /\ fr.kind \notin Loops => Cardinality(LoopsOf(Append(s, fr))) = Cardinality(LoopsOf(s))
<1> DEFINE t == Append(s, fr)
<1>0. t = Append(s, fr) /\ Extends(t, s, fr)
  BY Appended
<1> HIDE DEF t
<1>1. /\ Len(t) = Len(s) + 1 /\ t[Len(t)] = fr /\ Len(s) \in Nat
      /\ \A k \in 1..Len(s) : t[k] = s[k]
  BY <1>0 DEF Extends
<1>2. IsFiniteSet(LoopsOf(s))
  <2>1. IsFiniteSet(1..Len(s))
    BY <1>1, FS_Interval
  <2>2. LoopsOf(s) \subseteq 1..Len(s)
    BY DEF LoopsOf
  <2> QED
    BY <2>1, <2>2, FS_Subset
<1>3. Cardinality(LoopsOf(s)) \in Nat
  BY <1>2, FS_CardinalityType
<1>4. CASE fr.kind \in Loops
  <2>1. LoopsOf(t) = LoopsOf(s) \cup {Len(t)}
    BY <1>1, <1>4 DEF LoopsOf
  <2>2. Len(t) \notin LoopsOf(s)
    BY <1>1 DEF LoopsOf
  <2> QED
    BY <1>0, <1>2, <1>3, <1>4, <2>1, <2>2, FS_AddElement
<1>5. CASE fr.kind \notin Loops
  <2>1. LoopsOf(t) = LoopsOf(s)
    BY <1>1, <1>5 DEF LoopsOf
  <2> QED
    BY <1>0, <1>2, <1>3, <1>5, <2>1
<1> QED
  BY <1>4, <1>5

LEMMA EffectsTyped ==
  ASSUME NEW P \in Effects, NEW Q \in Effects
  PROVE  /\ P \in SUBSET Effect /\ P # {} /\ Chain(P, Q) \in Effects /\ P \cup Q \in Effects
         /\ AtLabel(P) \in Effects /\ {Skip} \in Effects
<1>1. P \in SUBSET Effect /\ P # {} /\ Q \in SUBSET Effect /\ Q # {}
  BY DEF Effects
<1>2. Chain(P, Q) \in SUBSET Effect /\ Chain(P, Q) # {}
  BY <1>1, ChainTyped
<1>3. AtLabel(P) \in SUBSET Effect /\ AtLabel(P) # {}
  BY <1>1, AtLabelTyped
<1> QED
  BY <1>1, <1>2, <1>3, SkipLive DEF Effects

LEMMA RunsTyped ==
  ASSUME NEW P \in Effects, NEW kind \in {"loop", "switch", "until"}
  PROVE  Runs(kind, P) \in Effects
<1>1. Chain(P, P) \in Effects /\ {Skip} \in Effects
  BY EffectsTyped
<1>2. P \in SUBSET Effect /\ P # {} /\ Chain(P, P) \in SUBSET Effect /\ {Skip} \in SUBSET Effect
  BY <1>1 DEF Effects
<1>3. CASE kind = "loop"
  <2>1. Runs(kind, P) = {Skip} \cup P \cup Chain(P, P)
    BY <1>3 DEF Runs
  <2> QED
    BY <1>2, <2>1 DEF Effects
<1>4. CASE kind = "switch"
  <2>1. Runs(kind, P) = {Skip} \cup P
    BY <1>4 DEF Runs
  <2> QED
    BY <1>2, <2>1 DEF Effects
<1>5. CASE kind = "until"
  <2>1. Runs(kind, P) = P \cup Chain(P, P)
    BY <1>5 DEF Runs
  <2> QED
    BY <1>2, <2>1 DEF Effects
<1> QED
  BY <1>3, <1>4, <1>5

\* What one construct does.
CallEffect(c) == [Skip EXCEPT !.calls = 1, !.sets = [f \in Fields |-> IF c = "this" THEN 1 ELSE 0]]
SetEffect(f) == [Skip EXCEPT !.sets[f] = 1]
LeaveEffect(way) == [Skip EXCEPT !.out = way]
SuperEffect == [Skip EXCEPT !.calls = 1]

LEMMA CallEffectFields ==
  ASSUME NEW c
  PROVE  /\ CallEffect(c) \in Effect /\ CallEffect(c).calls = 1
         /\ CallEffect(c).out = "on" /\ CallEffect(c).again = FALSE
         /\ c # "this" => \A f \in Fields : CallEffect(c).sets[f] = 0
<1> DEFINE h == [f \in Fields |-> IF c = "this" THEN 1 ELSE 0]
<1>1. CallEffect(c) = [Skip EXCEPT !.calls = 1, !.sets = h]
  BY DEF CallEffect
<1>2. h \in [Fields -> 0..2] /\ (c # "this" => \A f \in Fields : h[f] = 0) /\ 1 \in 0..2
  OBVIOUS
<1> HIDE DEF h
<1>3. "on" \in Ways
  BY DEF Ways
<1>4. CallEffect(c) \in Effect /\ CallEffect(c).calls = 1 /\ CallEffect(c).sets = h
      /\ CallEffect(c).out = Skip.out /\ CallEffect(c).again = Skip.again
  BY <1>1, <1>2, <1>3, SkipLive DEF Effect
<1> QED
  BY <1>2, <1>4, SkipFields

LEMMA SetEffectFields ==
  ASSUME NEW f \in Fields
  PROVE  /\ SetEffect(f) \in Effect /\ SetEffect(f).calls = 0
         /\ SetEffect(f).out = "on" /\ SetEffect(f).again = FALSE
         /\ SetEffect(f).sets[f] = 1 /\ \A g \in Fields : g # f => SetEffect(f).sets[g] = 0
<1> DEFINE h == [Skip.sets EXCEPT ![f] = 1]
<1>1. SetEffect(f) = [Skip EXCEPT !.sets = h]
  BY DEF SetEffect
<1>2. Skip.sets \in [Fields -> 0..2] /\ \A g \in Fields : Skip.sets[g] = 0
  BY SkipLive, SkipFields DEF Effect
<1>3. h \in [Fields -> 0..2] /\ h[f] = 1 /\ \A g \in Fields : g # f => h[g] = 0
  BY <1>2
<1> HIDE DEF h
<1>4. "on" \in Ways /\ 1 \in 0..2
  BY DEF Ways
<1>5. SetEffect(f) \in Effect /\ SetEffect(f).calls = Skip.calls /\ SetEffect(f).sets = h
      /\ SetEffect(f).out = Skip.out /\ SetEffect(f).again = Skip.again
  BY <1>1, <1>3, <1>4, SkipLive DEF Effect
<1> QED
  BY <1>3, <1>5, SkipFields

LEMMA LeaveEffectFields ==
  ASSUME NEW way \in Ways
  PROVE  /\ LeaveEffect(way) \in Effect /\ LeaveEffect(way).calls = 0
         /\ LeaveEffect(way).out = way /\ LeaveEffect(way).again = FALSE
         /\ \A g \in Fields : LeaveEffect(way).sets[g] = 0
<1>1. Skip.sets \in [Fields -> 0..2] /\ 1 \in 0..2
  BY SkipLive DEF Effect
<1>2. LeaveEffect(way) \in Effect /\ LeaveEffect(way).calls = Skip.calls /\ LeaveEffect(way).sets = Skip.sets
      /\ LeaveEffect(way).out = way /\ LeaveEffect(way).again = Skip.again
  BY <1>1, SkipLive DEF LeaveEffect, Effect
<1> QED
  BY <1>2, SkipFields

LEMMA SuperEffectFields ==
  /\ SuperEffect \in Effect /\ SuperEffect.calls = 1
  /\ SuperEffect.out = "on" /\ SuperEffect.again = FALSE
  /\ \A g \in Fields : SuperEffect.sets[g] = 0
<1>1. Skip.sets \in [Fields -> 0..2] /\ 1 \in 0..2 /\ "on" \in Ways
  BY SkipLive DEF Effect, Ways
<1>2. SuperEffect \in Effect /\ SuperEffect.calls = 1 /\ SuperEffect.sets = Skip.sets
      /\ SuperEffect.out = Skip.out /\ SuperEffect.again = Skip.again
  BY <1>1, SkipLive DEF SuperEffect, Effect
<1> QED
  BY <1>2, SkipFields

LEMMA MergedTyped ==
  ASSUME NEW a \in SUBSET Flags, NEW b \in SUBSET Flags
  PROVE  MergedCalls(b, a).cs \subseteq Flags /\ MergedField(b, a).fi \subseteq Flags
<1>1. MergedField(b, a).fi \subseteq Flags
  <2>1. MergedField(b, a).fi \in {a, b, {"halt"}, a \cup b}
    BY FieldCases
  <2> QED
    BY <2>1 DEF Flags
<1>2. MergedCalls(b, a).cs \in {b, {"halt"}, b \cup Kept(a), a \cup Kept(b), BothGoOn(b, a).cs}
  BY DEF MergedCalls
<1>3. BothGoOn(b, a).cs \subseteq Flags
  BY DEF BothGoOn, Kept
<1> QED
  BY <1>1, <1>2, <1>3 DEF Kept, Flags

\* The frame of a construct that begins here.
LEMMA NewFrame ==
  ASSUME Typed, NEW kind \in Kinds
  PROVE  /\ Frame(kind) \in FrameSet /\ Frame(kind).kind = kind
         /\ Frame(kind).cs = callSuper /\ Frame(kind).fi = fieldinit
         /\ Frame(kind).cs1 = callSuper /\ Frame(kind).fi1 = fieldinit
         /\ Frame(kind).before = paths /\ Frame(kind).first = {Skip} /\ Frame(kind).second = {Skip}
<1>1. {Skip} \in Effects
  BY EffectsTyped DEF Typed
<1> QED
  BY <1>1 DEF Frame, FrameSet, Typed

\* A stack that is not empty.
LEMMA TopTyped ==
  ASSUME Typed, stack # <<>>
  PROVE  Outer \in Seq(FrameSet) /\ Top \in FrameSet /\ stack = Append(Outer, Top)
  BY Splits DEF Typed, Outer, Top

\* The three ways a step changes the stack.
Pushes(fr) == fr \in FrameSet /\ stack' = Append(stack, fr)
Turns(fr) == stack # <<>> /\ fr \in FrameSet /\ stack' = Append(Outer, fr)
Pops == stack # <<>> /\ stack' = Outer

\* Loops that are open after such a step.
LEMMA LoopsAfter ==
  ASSUME Typed
  PROVE  /\ noctor \in Nat
         /\ \A fr : Pushes(fr) =>
              /\ stack' \in Seq(FrameSet)
              /\ Cardinality(LoopsOf(stack')) = IF fr.kind \in Loops THEN noctor + 1 ELSE noctor
         /\ \A fr : Turns(fr) =>
              /\ stack' \in Seq(FrameSet)
              /\ (Top.kind \in Loops <=> fr.kind \in Loops) => Cardinality(LoopsOf(stack')) = noctor
              /\ Top.kind \in Loops /\ fr.kind \notin Loops => Cardinality(LoopsOf(stack')) = noctor - 1
         /\ Pops =>
              /\ stack' \in Seq(FrameSet)
              /\ Cardinality(LoopsOf(stack')) = IF Top.kind \in Loops THEN noctor - 1 ELSE noctor
<1>1. stack \in Seq(FrameSet) /\ noctor = Cardinality(LoopsOf(stack))
  BY DEF Typed
<1>2. noctor \in Nat
  <2>1. IsFiniteSet(LoopsOf(stack))
    <3>1. IsFiniteSet(1..Len(stack))
      BY <1>1, FS_Interval
    <3>2. LoopsOf(stack) \subseteq 1..Len(stack)
      BY DEF LoopsOf
    <3> QED
      BY <3>1, <3>2, FS_Subset
  <2> QED
    BY <1>1, <2>1, FS_CardinalityType
<1>3. ASSUME NEW fr, Pushes(fr)
      PROVE  /\ stack' \in Seq(FrameSet)
             /\ Cardinality(LoopsOf(stack')) = IF fr.kind \in Loops THEN noctor + 1 ELSE noctor
  <2>1. fr \in FrameSet /\ stack' = Append(stack, fr)
    BY <1>3 DEF Pushes
  <2>2. stack' \in Seq(FrameSet)
    BY <1>1, <2>1
  <2> QED
    BY <1>1, <2>1, <2>2, LoopsTop
<1>4. ASSUME stack # <<>>
      PROVE  /\ Outer \in Seq(FrameSet)
             /\ Cardinality(LoopsOf(Outer)) = IF Top.kind \in Loops THEN noctor - 1 ELSE noctor
  <2>1. Outer \in Seq(FrameSet) /\ Top \in FrameSet /\ stack = Append(Outer, Top)
    BY <1>4, TopTyped
  <2>2. /\ Cardinality(LoopsOf(Outer)) \in Nat
        /\ Top.kind \in Loops => Cardinality(LoopsOf(Append(Outer, Top))) = Cardinality(LoopsOf(Outer)) + 1
        /\ Top.kind \notin Loops => Cardinality(LoopsOf(Append(Outer, Top))) = Cardinality(LoopsOf(Outer))
    BY <2>1, LoopsTop
  <2>3. noctor = Cardinality(LoopsOf(Append(Outer, Top)))
    BY <1>1, <2>1
  <2> QED
    BY <1>2, <2>1, <2>2, <2>3
<1>5. ASSUME NEW fr, Turns(fr)
      PROVE  /\ stack' \in Seq(FrameSet)
             /\ Cardinality(LoopsOf(stack')) =
                  IF fr.kind \in Loops THEN Cardinality(LoopsOf(Outer)) + 1 ELSE Cardinality(LoopsOf(Outer))
  <2>1. fr \in FrameSet /\ stack' = Append(Outer, fr) /\ Outer \in Seq(FrameSet)
    BY <1>4, <1>5 DEF Turns
  <2>2. stack' \in Seq(FrameSet)
    BY <2>1
  <2> QED
    BY <2>1, <2>2, LoopsTop
<1>6. ASSUME NEW fr, Turns(fr)
      PROVE  /\ stack' \in Seq(FrameSet)
             /\ (Top.kind \in Loops <=> fr.kind \in Loops) => Cardinality(LoopsOf(stack')) = noctor
             /\ Top.kind \in Loops /\ fr.kind \notin Loops => Cardinality(LoopsOf(stack')) = noctor - 1
  <2>1. stack # <<>>
    BY <1>6 DEF Turns
  <2> QED
    BY <1>2, <1>4, <1>5, <1>6, <2>1
<1>7. ASSUME Pops
      PROVE  /\ stack' \in Seq(FrameSet)
             /\ Cardinality(LoopsOf(stack')) = IF Top.kind \in Loops THEN noctor - 1 ELSE noctor
  BY <1>4, <1>7 DEF Pops
<1> QED
  BY <1>2, <1>3, <1>6, <1>7

LEMMA FieldsTyped ==
  ASSUME NEW fi \in [Fields -> SUBSET Flags], NEW gi \in [Fields -> SUBSET Flags], NEW flag \in Flags
  PROVE  /\ MarkFields(fi, flag) \in [Fields -> SUBSET Flags]
         /\ PoppedFields(fi, gi) \in [Fields -> SUBSET Flags]
         /\ MergedFields(fi, gi) \in [Fields -> SUBSET Flags]
<1>1. \A f \in Fields : MergedField(fi[f], gi[f]).fi \subseteq Flags
  BY MergedTyped
<1> QED
  BY <1>1 DEF MarkFields, PoppedFields, MergedFields

LEMMA ChainOne ==
  ASSUME NEW P \in Effects, NEW q \in Effect
  PROVE  Chain(P, {q}) \in Effects
<1>1. {q} \in Effects
  BY DEF Effects
<1> QED
  BY <1>1, EffectsTyped

LEMMA AllFlags ==
  /\ "this" \in Flags /\ "super" \in Flags /\ "label" \in Flags /\ "return" \in Flags
  /\ "any" \in Flags /\ "halt" \in Flags /\ Calls \subseteq Flags /\ Ways = {"on", "return", "stopped", "goto"}
  BY DEF Flags, Calls, Ways

\* The frame of the part that follows.
ThenOf(fr) == [fr EXCEPT !.kind = "then", !.first = paths, !.cs1 = callSuper, !.fi1 = fieldinit]
ThenDeclared(fr) == [fr EXCEPT !.kind = "then", !.first = paths]
ElseOf(fr) == [fr EXCEPT !.kind = "else", !.cs1 = Popped(fr.cs1, callSuper),
                         !.fi1 = PoppedFields(fr.fi1, fieldinit), !.second = Chain(fr.first, paths)]
RightOf(fr) == [fr EXCEPT !.kind = "right", !.second = paths, !.cs1 = callSuper, !.fi1 = fieldinit]
UntilOf(fr) == [fr EXCEPT !.kind = "until"]

LEMMA TurnedFrames ==
  ASSUME Typed, NEW fr \in FrameSet
  PROVE  /\ ThenOf(fr) \in FrameSet /\ ThenDeclared(fr) \in FrameSet /\ ElseOf(fr) \in FrameSet
         /\ RightOf(fr) \in FrameSet /\ UntilOf(fr) \in FrameSet
<1>1. /\ callSuper \in SUBSET Flags /\ fieldinit \in [Fields -> SUBSET Flags] /\ paths \in Effects
      /\ "then" \in Kinds /\ "else" \in Kinds /\ "right" \in Kinds /\ "until" \in Kinds
  BY DEF Typed, Kinds, Expressions, Loops
<1>2. fr.cs1 \in SUBSET Flags /\ fr.fi1 \in [Fields -> SUBSET Flags] /\ fr.first \in Effects
  BY DEF FrameSet
<1>3. Popped(fr.cs1, callSuper) \in SUBSET Flags
  BY <1>1, <1>2 DEF Popped
<1>4. PoppedFields(fr.fi1, fieldinit) \in [Fields -> SUBSET Flags]
  BY <1>1, <1>2, FieldsTyped, AllFlags
<1>5. Chain(fr.first, paths) \in Effects
  BY <1>1, <1>2, EffectsTyped
<1>6. ThenOf(fr) \in FrameSet
  BY <1>1 DEF FrameSet, ThenOf
<1>7. ThenDeclared(fr) \in FrameSet
  BY <1>1 DEF FrameSet, ThenDeclared
<1>8. ElseOf(fr) \in FrameSet
  BY <1>1, <1>3, <1>4, <1>5 DEF FrameSet, ElseOf
<1>9. RightOf(fr) \in FrameSet
  BY <1>1 DEF FrameSet, RightOf
<1>10. UntilOf(fr) \in FrameSet
  BY <1>1 DEF FrameSet, UntilOf
<1> QED
  BY <1>6, <1>7, <1>8, <1>9, <1>10

LEMMA TurnedFields ==
  ASSUME NEW fr \in FrameSet
  PROVE  /\ LET g == ThenOf(fr)
            IN  /\ g.kind = "then" /\ g.cs = fr.cs /\ g.fi = fr.fi /\ g.before = fr.before
                /\ g.first = paths /\ g.cs1 = callSuper /\ g.fi1 = fieldinit /\ g.second = fr.second
         /\ LET g == ThenDeclared(fr)
            IN  /\ g.kind = "then" /\ g.cs = fr.cs /\ g.fi = fr.fi /\ g.before = fr.before
                /\ g.first = paths /\ g.cs1 = fr.cs1 /\ g.fi1 = fr.fi1 /\ g.second = fr.second
         /\ LET g == ElseOf(fr)
            IN  /\ g.kind = "else" /\ g.cs = fr.cs /\ g.fi = fr.fi /\ g.before = fr.before
                /\ g.first = fr.first /\ g.cs1 = Popped(fr.cs1, callSuper)
                /\ g.fi1 = PoppedFields(fr.fi1, fieldinit) /\ g.second = Chain(fr.first, paths)
         /\ LET g == RightOf(fr)
            IN  /\ g.kind = "right" /\ g.cs = fr.cs /\ g.fi = fr.fi /\ g.before = fr.before
                /\ g.first = fr.first /\ g.second = paths /\ g.cs1 = callSuper /\ g.fi1 = fieldinit
         /\ LET g == UntilOf(fr)
            IN  /\ g.kind = "until" /\ g.cs = fr.cs /\ g.fi = fr.fi /\ g.before = fr.before
                /\ g.first = fr.first /\ g.second = fr.second
<1>1. LET g == ThenOf(fr)
      IN  /\ g.kind = "then" /\ g.cs = fr.cs /\ g.fi = fr.fi /\ g.before = fr.before
          /\ g.first = paths /\ g.cs1 = callSuper /\ g.fi1 = fieldinit /\ g.second = fr.second
  BY DEF FrameSet, ThenOf
<1>2. LET g == ThenDeclared(fr)
      IN  /\ g.kind = "then" /\ g.cs = fr.cs /\ g.fi = fr.fi /\ g.before = fr.before
          /\ g.first = paths /\ g.cs1 = fr.cs1 /\ g.fi1 = fr.fi1 /\ g.second = fr.second
  BY DEF FrameSet, ThenDeclared
<1>3. LET g == ElseOf(fr)
      IN  /\ g.kind = "else" /\ g.cs = fr.cs /\ g.fi = fr.fi /\ g.before = fr.before
          /\ g.first = fr.first /\ g.cs1 = Popped(fr.cs1, callSuper)
          /\ g.fi1 = PoppedFields(fr.fi1, fieldinit) /\ g.second = Chain(fr.first, paths)
  BY DEF FrameSet, ElseOf
<1>4. LET g == RightOf(fr)
      IN  /\ g.kind = "right" /\ g.cs = fr.cs /\ g.fi = fr.fi /\ g.before = fr.before
          /\ g.first = fr.first /\ g.second = paths /\ g.cs1 = callSuper /\ g.fi1 = fieldinit
  BY DEF FrameSet, RightOf
<1>5. LET g == UntilOf(fr)
      IN  /\ g.kind = "until" /\ g.cs = fr.cs /\ g.fi = fr.fi /\ g.before = fr.before
          /\ g.first = fr.first /\ g.second = fr.second
  BY DEF FrameSet, UntilOf
<1> QED
  BY <1>1, <1>2, <1>3, <1>4, <1>5

\* What the steps do that begin the next part.
LEMMA TurnSteps ==
  /\ BeginThen =>
       /\ stack # <<>> /\ UNCHANGED <<done, sort, ctorinit, errors, noctor>> /\ ~done /\ paths' = {Skip}
       /\ \/ /\ Top.kind = "condition" /\ stack' = Append(Outer, ThenOf(Top))
             /\ callSuper' = Top.cs /\ fieldinit' = Top.fi
          \/ /\ Top.kind = "declared" /\ stack' = Append(Outer, ThenDeclared(Top))
             /\ callSuper' = callSuper /\ fieldinit' = fieldinit
  /\ BeginElse =>
       /\ stack # <<>> /\ UNCHANGED <<done, sort, ctorinit, errors, noctor>> /\ ~done /\ paths' = {Skip}
       /\ Top.kind = "then" /\ stack' = Append(Outer, ElseOf(Top))
       /\ callSuper' = Top.cs /\ fieldinit' = Top.fi
  /\ BeginRight =>
       /\ stack # <<>> /\ UNCHANGED <<done, sort, ctorinit, errors, noctor>> /\ ~done /\ paths' = {Skip}
       /\ Top.kind = "left" /\ stack' = Append(Outer, RightOf(Top))
       /\ callSuper' = Top.cs /\ fieldinit' = Top.fi
  /\ BeginUntil =>
       /\ stack # <<>> /\ UNCHANGED <<done, sort, ctorinit, errors, paths>> /\ ~done /\ noctor' = noctor - 1
       /\ Top.kind = "do" /\ stack' = Append(Outer, UntilOf(Top))
       /\ callSuper' = Popped(Top.cs, callSuper) /\ fieldinit' = PoppedFields(Top.fi, fieldinit)
<1>1. ASSUME BeginThen
      PROVE  /\ stack # <<>> /\ UNCHANGED <<done, sort, ctorinit, errors, noctor>> /\ ~done /\ paths' = {Skip}
             /\ \/ /\ Top.kind = "condition" /\ stack' = Append(Outer, ThenOf(Top))
                   /\ callSuper' = Top.cs /\ fieldinit' = Top.fi
                \/ /\ Top.kind = "declared" /\ stack' = Append(Outer, ThenDeclared(Top))
                   /\ callSuper' = callSuper /\ fieldinit' = fieldinit
  BY <1>1 DEF BeginThen, Inside, Continue, Unchecked, ThenOf, ThenDeclared
<1>2. ASSUME BeginElse
      PROVE  /\ stack # <<>> /\ UNCHANGED <<done, sort, ctorinit, errors, noctor>> /\ ~done /\ paths' = {Skip}
             /\ Top.kind = "then" /\ stack' = Append(Outer, ElseOf(Top))
             /\ callSuper' = Top.cs /\ fieldinit' = Top.fi
  BY <1>2 DEF BeginElse, Inside, Continue, Unchecked, ElseOf
<1>3. ASSUME BeginRight
      PROVE  /\ stack # <<>> /\ UNCHANGED <<done, sort, ctorinit, errors, noctor>> /\ ~done /\ paths' = {Skip}
             /\ Top.kind = "left" /\ stack' = Append(Outer, RightOf(Top))
             /\ callSuper' = Top.cs /\ fieldinit' = Top.fi
  BY <1>3 DEF BeginRight, Inside, Continue, Unchecked, RightOf
<1>4. ASSUME BeginUntil
      PROVE  /\ stack # <<>> /\ UNCHANGED <<done, sort, ctorinit, errors, paths>> /\ ~done /\ noctor' = noctor - 1
             /\ Top.kind = "do" /\ stack' = Append(Outer, UntilOf(Top))
             /\ callSuper' = Popped(Top.cs, callSuper) /\ fieldinit' = PoppedFields(Top.fi, fieldinit)
  BY <1>4 DEF BeginUntil, Inside, Continue, Unchecked, UntilOf, PopScope
<1> QED
  BY <1>1, <1>2, <1>3, <1>4

LEMMA TypedInit == Init => Typed
<1> SUFFICES ASSUME Init PROVE Typed
  OBVIOUS
<1>1. LoopsOf(stack) = {}
  BY DEF Init, LoopsOf
<1>2. Cardinality(LoopsOf(stack)) = 0
  BY <1>1, FS_EmptySet
<1>3. {Skip} \in Effects
  BY SkipLive DEF Effects
<1> QED
  <2>1. stack \in Seq(FrameSet) /\ callSuper \subseteq Flags /\ ctorinit \subseteq Fields
    BY DEF Init
  <2>2. fieldinit \in [Fields -> SUBSET Flags]
    BY DEF Init
  <2>3. noctor = 0 /\ paths = {Skip} /\ sort \in Sorts /\ done \in BOOLEAN
    BY DEF Init
  <2> QED
    BY <1>2, <1>3, <2>1, <2>2, <2>3 DEF Typed

\* A construct without parts.
LEMMA TypedSimple ==
  ASSUME Typed,
         \/ \E c \in Calls : Call(c)
         \/ \E f \in Fields : Assign(f)
         \/ Return \/ Halt \/ Throw \/ Goto
  PROVE  Typed'
<1>1. /\ callSuper \in SUBSET Flags /\ fieldinit \in [Fields -> SUBSET Flags] /\ ctorinit \in SUBSET Fields
      /\ paths \in Effects /\ sort \in Sorts /\ done \in BOOLEAN
      /\ stack \in Seq(FrameSet) /\ noctor = Cardinality(LoopsOf(stack))
  BY DEF Typed
<1>2. ASSUME NEW c \in Calls, Call(c) PROVE Typed'
  <2>5. CallEffect(c) \in Effect
    BY CallEffectFields
  <2>6. paths' = Chain(paths, {CallEffect(c)})
    BY <1>2 DEF Call, CallEffect
  <2>1. CallEffect(c) \in Effect /\ paths' = Chain(paths, {CallEffect(c)})
    BY <2>5, <2>6
  <2>2. paths' \in Effects
    BY <1>1, <2>1, ChainOne
  <2>3. fieldinit' \in [Fields -> SUBSET Flags]
    BY <1>1, <1>2, AllFlags, FieldsTyped DEF Call
  <2>4. callSuper' \in SUBSET Flags /\ ctorinit' = ctorinit
    BY <1>1, <1>2, AllFlags DEF Call
  <2> QED
    BY <1>1, <1>2, <2>2, <2>3, <2>4 DEF Call, Construct, Typed
<1>3. ASSUME NEW f \in Fields, Assign(f) PROVE Typed'
  <2>1. SetEffect(f) \in Effect /\ paths' = Chain(paths, {SetEffect(f)})
    BY <1>3, SetEffectFields DEF Assign, SetEffect
  <2>2. paths' \in Effects
    BY <1>1, <2>1, ChainOne
  <2>3. fieldinit' \in [Fields -> SUBSET Flags]
    BY <1>1, <1>3, AllFlags DEF Assign
  <2> QED
    BY <1>1, <1>3, <2>2, <2>3 DEF Assign, Construct, Typed
<1>4. CASE Return
  <2>1. LeaveEffect("return") \in Effect /\ paths' = Chain(paths, {LeaveEffect("return")})
    BY <1>4, LeaveEffectFields, AllFlags DEF Return, Leave, LeaveEffect
  <2>2. paths' \in Effects
    BY <1>1, <2>1, ChainOne
  <2>3. fieldinit' \in [Fields -> SUBSET Flags] /\ callSuper' \in SUBSET Flags
    BY <1>1, <1>4, AllFlags, FieldsTyped DEF Return
  <2> QED
    BY <1>1, <1>4, <2>2, <2>3 DEF Return, Construct, Typed
<1>5. CASE Halt
  <2>1. LeaveEffect("stopped") \in Effect /\ paths' = Chain(paths, {LeaveEffect("stopped")})
    BY <1>5, LeaveEffectFields, AllFlags DEF Halt, Leave, LeaveEffect
  <2>2. paths' \in Effects
    BY <1>1, <2>1, ChainOne
  <2>3. fieldinit' \in [Fields -> SUBSET Flags] /\ callSuper' \in SUBSET Flags
    BY <1>1, <1>5, AllFlags, FieldsTyped DEF Halt
  <2> QED
    BY <1>1, <1>5, <2>2, <2>3 DEF Halt, Construct, Typed
<1>6. CASE Throw \/ Goto
  <2>1. /\ LeaveEffect("stopped") \in Effect /\ LeaveEffect("goto") \in Effect
        /\ paths' \in {Chain(paths, {LeaveEffect("stopped")}), Chain(paths, {LeaveEffect("goto")})}
    BY <1>6, LeaveEffectFields, AllFlags DEF Throw, Goto, Leave, LeaveEffect
  <2>2. paths' \in Effects
    BY <1>1, <2>1, ChainOne
  <2>3. UNCHANGED <<callSuper, fieldinit, noctor, ctorinit, stack, sort, done>>
    BY <1>6 DEF Throw, Goto, Construct
  <2> QED
    BY <1>1, <2>2, <2>3 DEF Typed
<1> QED
  BY <1>2, <1>3, <1>4, <1>5, <1>6

\* A construct with parts begins.
Begins ==
    \/ \E kind \in {"if", "if declared"} : BeginIf(kind)
    \/ BeginLeft \/ BeginOperand \/ BeginBlock \/ BeginLabel
    \/ \E kind \in Loops : BeginLoop(kind)

LabelFrame == [Frame("label") EXCEPT !.before = AtLabel(paths)]

LEMMA LabelFrameTyped ==
  ASSUME Typed
  PROVE  /\ LabelFrame \in FrameSet /\ LabelFrame.kind = "label"
         /\ LabelFrame.cs = callSuper /\ LabelFrame.fi = fieldinit
         /\ LabelFrame.cs1 = callSuper /\ LabelFrame.fi1 = fieldinit
         /\ LabelFrame.before = AtLabel(paths) /\ LabelFrame.first = {Skip} /\ LabelFrame.second = {Skip}
<1>1. "label" \in Kinds
  BY DEF Kinds
<1>2. AtLabel(paths) \in Effects
  BY EffectsTyped DEF Typed
<1> DEFINE fr == Frame("label")
<1>3. /\ fr \in FrameSet /\ fr.kind = "label" /\ fr.cs = callSuper /\ fr.fi = fieldinit
      /\ fr.cs1 = callSuper /\ fr.fi1 = fieldinit /\ fr.first = {Skip} /\ fr.second = {Skip}
  BY <1>1, NewFrame
<1>4. LabelFrame = [fr EXCEPT !.before = AtLabel(paths)]
  BY DEF LabelFrame
<1> HIDE DEF fr
<1> QED
  BY <1>2, <1>3, <1>4 DEF FrameSet

\* The frame that is pushed.
Begun(fr) ==
    \/ \E kind \in Kinds : fr = Frame(kind) /\ kind \notin {"then", "else", "right", "label", "until"}
    \/ fr = LabelFrame

LEMMA BeginsPush ==
  ASSUME Typed, Begins
  PROVE  /\ ~done /\ done' = done /\ sort' = sort /\ errors' = errors /\ ctorinit' = ctorinit /\ paths' = {Skip}
         /\ DeadCode \/ FallsThrough
         /\ \E fr : /\ Begun(fr) /\ Pushes(fr)
                    /\ fr.kind \notin {"left", "operand"} => ~InExpression
                    /\ fr.kind = "operand" => "&&" \in sort.language
                    /\ fr.kind \in Loops \cup {"label"} => fr.kind \in sort.language
                    /\ noctor' = (IF fr.kind \in Loops THEN noctor + 1 ELSE noctor)
                    /\ fr.kind # "label" => callSuper' = callSuper /\ fieldinit' = fieldinit
                    /\ fr.kind = "label" => /\ callSuper' = callSuper \cup {"label"}
                                            /\ fieldinit' = MarkFields(fieldinit, "label")
<1>0. /\ {"condition", "declared", "left", "operand", "block"} \subseteq Kinds /\ Loops \subseteq Kinds
      /\ {"condition", "declared", "left", "operand", "block", "label"} \cap Loops = {}
      /\ Loops = {"loop", "switch", "do"}
  BY DEF Kinds, Expressions, Loops
<1>1. ASSUME NEW kind \in Kinds PROVE Frame(kind) \in FrameSet /\ Frame(kind).kind = kind
  BY NewFrame
<1>2. CASE \E kind \in {"if", "if declared"} : BeginIf(kind)
  <2>1. PICK kind \in {"if", "if declared"} : BeginIf(kind)
    BY <1>2
  <2> DEFINE k == IF kind = "if" THEN "condition" ELSE "declared"
  <2>2. k \in {"condition", "declared"} /\ stack' = Append(stack, Frame(k))
    BY <2>1 DEF BeginIf, Enter
  <2> HIDE DEF k
  <2>3. Begun(Frame(k)) /\ Pushes(Frame(k)) /\ Frame(k).kind = k
    BY <1>0, <1>1, <2>2 DEF Begun, Pushes
  <2> QED
    BY <1>0, <2>1, <2>2, <2>3 DEF BeginIf, Construct, Enter, Unchecked
<1>3. CASE BeginLeft
  <2>1. Begun(Frame("left")) /\ Pushes(Frame("left")) /\ Frame("left").kind = "left"
    BY <1>0, <1>1, <1>3 DEF Begun, Pushes, BeginLeft, Enter
  <2> QED
    BY <1>0, <1>3, <2>1 DEF BeginLeft, Construct, Enter, Unchecked
<1>4. CASE BeginOperand
  <2>1. Begun(Frame("operand")) /\ Pushes(Frame("operand")) /\ Frame("operand").kind = "operand"
    BY <1>0, <1>1, <1>4 DEF Begun, Pushes, BeginOperand, Enter
  <2> QED
    BY <1>0, <1>4, <2>1 DEF BeginOperand, Construct, Enter, Unchecked
<1>5. CASE BeginBlock
  <2>1. Begun(Frame("block")) /\ Pushes(Frame("block")) /\ Frame("block").kind = "block"
    BY <1>0, <1>1, <1>5 DEF Begun, Pushes, BeginBlock, Enter
  <2> QED
    BY <1>0, <1>5, <2>1 DEF BeginBlock, Construct, Enter, Unchecked
<1>6. CASE BeginLabel
  <2>1. Begun(LabelFrame) /\ Pushes(LabelFrame) /\ LabelFrame.kind = "label"
    BY <1>6, LabelFrameTyped DEF Begun, Pushes, BeginLabel, Enter, LabelFrame
  <2> QED
    BY <1>0, <1>6, <2>1 DEF BeginLabel, Construct, Enter, Unchecked
<1>7. CASE \E kind \in Loops : BeginLoop(kind)
  <2>1. PICK kind \in Loops : BeginLoop(kind)
    BY <1>7
  <2>2. Begun(Frame(kind)) /\ Pushes(Frame(kind)) /\ Frame(kind).kind = kind
    BY <1>0, <1>1, <2>1 DEF Begun, Pushes, BeginLoop, Enter
  <2> QED
    BY <1>0, <2>1, <2>2 DEF BeginLoop, Construct, Enter, Unchecked
<1> QED
  BY <1>2, <1>3, <1>4, <1>5, <1>6, <1>7 DEF Begins

LEMMA TypedBegin ==
  ASSUME Typed, Begins
  PROVE  Typed'
<1>1. /\ callSuper \in SUBSET Flags /\ fieldinit \in [Fields -> SUBSET Flags] /\ ctorinit \in SUBSET Fields
      /\ paths \in Effects /\ sort \in Sorts /\ done \in BOOLEAN
  BY DEF Typed
<1>2. done' = done /\ sort' = sort /\ ctorinit' = ctorinit /\ paths' = {Skip}
  BY BeginsPush
<1>3. PICK fr : /\ Pushes(fr)
                /\ noctor' = (IF fr.kind \in Loops THEN noctor + 1 ELSE noctor)
                /\ fr.kind # "label" => callSuper' = callSuper /\ fieldinit' = fieldinit
                /\ fr.kind = "label" => /\ callSuper' = callSuper \cup {"label"}
                                        /\ fieldinit' = MarkFields(fieldinit, "label")
  BY BeginsPush
<1>4. stack' \in Seq(FrameSet) /\ noctor' = Cardinality(LoopsOf(stack'))
  BY <1>3, LoopsAfter
<1>5. callSuper' \in SUBSET Flags /\ fieldinit' \in [Fields -> SUBSET Flags]
  BY <1>1, <1>3, FieldsTyped, AllFlags
<1>6. paths' \in Effects
  BY <1>1, <1>2, EffectsTyped
<1>7. Cardinality(LoopsOf(stack')) = Cardinality(LoopsOf(stack))'
  BY DEF LoopsOf
<1> QED
  BY <1>1, <1>2, <1>4, <1>5, <1>6, <1>7 DEF Typed

\* The next part of a construct begins.
LEMMA TypedTurn ==
  ASSUME Typed, BeginThen \/ BeginElse \/ BeginRight \/ BeginUntil
  PROVE  Typed'
<1>1. /\ callSuper \in SUBSET Flags /\ fieldinit \in [Fields -> SUBSET Flags] /\ ctorinit \in SUBSET Fields
      /\ paths \in Effects /\ sort \in Sorts /\ done \in BOOLEAN
  BY DEF Typed
<1>2. stack # <<>> /\ done' = done /\ sort' = sort /\ ctorinit' = ctorinit
  BY TurnSteps
<1>3. Top \in FrameSet
  BY <1>2, TopTyped
<1>4. /\ Top.cs \in SUBSET Flags /\ Top.fi \in [Fields -> SUBSET Flags] /\ {Skip} \in Effects
  BY <1>1, <1>3, FrameTyped, EffectsTyped
<1>5. /\ {"condition", "declared", "then", "else", "left", "right", "until"} \cap Loops = {}
      /\ "do" \in Loops
  BY DEF Loops
<1>6. /\ ThenOf(Top) \in FrameSet /\ ThenDeclared(Top) \in FrameSet /\ ElseOf(Top) \in FrameSet
      /\ RightOf(Top) \in FrameSet /\ UntilOf(Top) \in FrameSet
  BY <1>3, TurnedFrames
<1>7. /\ ThenOf(Top).kind = "then" /\ ThenDeclared(Top).kind = "then" /\ ElseOf(Top).kind = "else"
      /\ RightOf(Top).kind = "right" /\ UntilOf(Top).kind = "until"
  BY <1>3, TurnedFields
<1>10. callSuper' \in SUBSET Flags /\ fieldinit' \in [Fields -> SUBSET Flags] /\ paths' \in Effects
  <2>1. CASE BeginThen
    BY <1>1, <1>4, <2>1, TurnSteps
  <2>2. CASE BeginElse
    BY <1>1, <1>4, <2>2, TurnSteps
  <2>3. CASE BeginRight
    BY <1>1, <1>4, <2>3, TurnSteps
  <2>4. CASE BeginUntil
    <3>1. Popped(Top.cs, callSuper) \in SUBSET Flags
      BY <1>1, <1>4 DEF Popped
    <3>2. PoppedFields(Top.fi, fieldinit) \in [Fields -> SUBSET Flags]
      BY <1>1, <1>4, FieldsTyped, AllFlags
    <3> QED
      BY <1>1, <2>4, <3>1, <3>2, TurnSteps
  <2> QED
    BY <2>1, <2>2, <2>3, <2>4
<1>11. stack' \in Seq(FrameSet) /\ noctor' = Cardinality(LoopsOf(stack'))
  <2>1. CASE BeginThen
    <3>1. Top.kind \notin Loops /\ noctor' = noctor /\ (Turns(ThenOf(Top)) \/ Turns(ThenDeclared(Top)))
      BY <1>2, <1>5, <1>6, <2>1, TurnSteps DEF Turns
    <3> QED
      BY <1>5, <1>7, <3>1, LoopsAfter
  <2>2. CASE BeginElse
    <3>1. Top.kind \notin Loops /\ noctor' = noctor /\ Turns(ElseOf(Top))
      BY <1>2, <1>5, <1>6, <2>2, TurnSteps DEF Turns
    <3> QED
      BY <1>5, <1>7, <3>1, LoopsAfter
  <2>3. CASE BeginRight
    <3>1. Top.kind \notin Loops /\ noctor' = noctor /\ Turns(RightOf(Top))
      BY <1>2, <1>5, <1>6, <2>3, TurnSteps DEF Turns
    <3> QED
      BY <1>5, <1>7, <3>1, LoopsAfter
  <2>4. CASE BeginUntil
    <3>1. Top.kind \in Loops /\ noctor' = noctor - 1 /\ Turns(UntilOf(Top))
      BY <1>2, <1>5, <1>6, <2>4, TurnSteps DEF Turns
    <3> QED
      BY <1>5, <1>7, <3>1, LoopsAfter
  <2> QED
    BY <2>1, <2>2, <2>3, <2>4
<1>12. Cardinality(LoopsOf(stack')) = Cardinality(LoopsOf(stack))'
  BY DEF LoopsOf
<1> QED
  BY <1>1, <1>2, <1>10, <1>11, <1>12 DEF Typed

\* A construct ends.
Ends == EndIf \/ EndConditional \/ EndLogical \/ EndBlock \/ EndLoop \/ EndDo

LEMMA TypedEnd ==
  ASSUME Typed, Ends
  PROVE  Typed'
<1>1. /\ callSuper \in SUBSET Flags /\ fieldinit \in [Fields -> SUBSET Flags] /\ ctorinit \in SUBSET Fields
      /\ paths \in Effects /\ sort \in Sorts /\ done \in BOOLEAN
  BY DEF Typed
<1>2. stack # <<>> /\ stack' = Outer /\ UNCHANGED <<done, sort, ctorinit>>
  BY DEF Ends, EndIf, EndConditional, EndLogical, EndBlock, EndLoop, EndDo, Inside, Continue, Unchecked
<1>3. Top \in FrameSet
  BY <1>2, TopTyped
<1>4. /\ Top.cs \in SUBSET Flags /\ Top.fi \in [Fields -> SUBSET Flags] /\ Top.cs1 \in SUBSET Flags
      /\ Top.fi1 \in [Fields -> SUBSET Flags]
      /\ Top.before \in Effects /\ Top.first \in Effects /\ Top.second \in Effects /\ {Skip} \in Effects
  BY <1>1, <1>3, EffectsTyped DEF FrameSet
<1>5. noctor' = (IF Top.kind \in Loops THEN noctor - 1 ELSE noctor)
  BY DEF Ends, EndIf, EndConditional, EndLogical, EndBlock, EndLoop, EndDo, Inside, Unchecked, Loops
<1>6. stack' \in Seq(FrameSet) /\ noctor' = Cardinality(LoopsOf(stack'))
  BY <1>2, <1>5, LoopsAfter DEF Pops
<1>7. paths' \in Effects
  <2>1. CASE EndIf
    <3>1. Chain(Top.first, paths) \in Effects
      BY <1>1, <1>4, EffectsTyped
    <3>2. Top.second \cup Chain(Top.first, paths) \in Effects
      BY <1>4, <3>1, EffectsTyped
    <3>3. Chain(Top.before, Top.second \cup Chain(Top.first, paths)) \in Effects
      BY <1>4, <3>2, EffectsTyped
    <3> QED
      BY <2>1, <3>3 DEF EndIf
  <2>2. CASE EndConditional
    <3>2. Top.second \cup paths \in Effects
      BY <1>1, <1>4, EffectsTyped
    <3>3. Chain(Top.before, Top.second \cup paths) \in Effects
      BY <1>4, <3>2, EffectsTyped
    <3> QED
      BY <2>2, <3>3 DEF EndConditional
  <2>3. CASE EndLogical
    <3>2. {Skip} \cup paths \in Effects
      BY <1>1, <1>4, EffectsTyped
    <3>3. Chain(Top.before, {Skip} \cup paths) \in Effects
      BY <1>4, <3>2, EffectsTyped
    <3> QED
      BY <2>3, <3>3 DEF EndLogical
  <2>4. CASE EndBlock
    <3>1. Chain(Top.before, paths) \in Effects
      BY <1>1, <1>4, EffectsTyped
    <3> QED
      BY <2>4, <3>1 DEF EndBlock
  <2>5. CASE EndLoop \/ EndDo
    <3>1. Top.kind \in {"loop", "switch", "until"} /\ paths' = Chain(Top.before, Runs(Top.kind, paths))
      BY <2>5 DEF EndLoop, EndDo, Inside
    <3>2. Runs(Top.kind, paths) \in Effects
      BY <1>1, <3>1, RunsTyped
    <3> QED
      BY <1>4, <3>1, <3>2, EffectsTyped
  <2> QED
    BY <2>1, <2>2, <2>3, <2>4, <2>5 DEF Ends
<1>8. callSuper' \in SUBSET Flags /\ fieldinit' \in [Fields -> SUBSET Flags]
  <2>1. CASE EndIf
    <3>1. /\ Popped(Top.cs, callSuper) \in SUBSET Flags
          /\ PoppedFields(Top.fi, fieldinit) \in [Fields -> SUBSET Flags]
      BY <1>1, <1>4, FieldsTyped, AllFlags DEF Popped
    <3>2. /\ MergedCalls(Popped(Top.cs, callSuper), Top.cs1).cs \in SUBSET Flags
          /\ MergedFields(PoppedFields(Top.fi, fieldinit), Top.fi1) \in [Fields -> SUBSET Flags]
      BY <1>4, <3>1, FieldsTyped, MergedTyped, AllFlags
    <3> QED
      BY <2>1, <3>2 DEF EndIf, Merge
  <2>2. CASE EndConditional
    <3>2. /\ MergedCalls(callSuper, Top.cs1).cs \in SUBSET Flags
          /\ MergedFields(fieldinit, Top.fi1) \in [Fields -> SUBSET Flags]
      BY <1>1, <1>4, FieldsTyped, MergedTyped, AllFlags
    <3> QED
      BY <2>2, <3>2 DEF EndConditional, Merge
  <2>3. CASE EndLogical
    <3>1. MergedCalls(callSuper, Top.cs).cs \in SUBSET Flags
      BY <1>1, <1>4, MergedTyped
    <3> QED
      BY <1>1, <2>3, <3>1 DEF EndLogical
  <2>4. CASE EndBlock \/ EndLoop
    <3>1. callSuper' = Popped(Top.cs, callSuper) /\ fieldinit' = PoppedFields(Top.fi, fieldinit)
      BY <2>4 DEF EndBlock, EndLoop, PopScope
    <3> QED
      BY <1>1, <1>4, <3>1, FieldsTyped, AllFlags DEF Popped
  <2>5. CASE EndDo
    BY <1>1, <2>5 DEF EndDo
  <2> QED
    BY <2>1, <2>2, <2>3, <2>4, <2>5 DEF Ends
<1>9. Cardinality(LoopsOf(stack')) = Cardinality(LoopsOf(stack))'
  BY DEF LoopsOf
<1> QED
  BY <1>1, <1>2, <1>6, <1>7, <1>8, <1>9 DEF Typed

LEMMA TypedFinish ==
  ASSUME Typed, Finish
  PROVE  Typed'
<1>1. /\ callSuper \in SUBSET Flags /\ fieldinit \in [Fields -> SUBSET Flags] /\ ctorinit \in SUBSET Fields
      /\ paths \in Effects /\ sort \in Sorts /\ stack \in Seq(FrameSet) /\ noctor = Cardinality(LoopsOf(stack))
  BY DEF Typed
<1>2. callSuper' \in SUBSET Flags
  BY <1>1, AllFlags DEF Finish
<1>3. paths' \in Effects
  <2>1. {SuperEffect} \in Effects
    BY SuperEffectFields DEF Effects
  <2>2. Chain({SuperEffect}, paths) \in Effects
    BY <1>1, <2>1, EffectsTyped
  <2> QED
    BY <1>1, <2>2 DEF Finish, SuperEffect
<1>4. UNCHANGED <<fieldinit, noctor, ctorinit, stack, sort>> /\ done' \in BOOLEAN
  BY DEF Finish
<1> QED
  BY <1>1, <1>2, <1>3, <1>4 DEF Typed

LEMMA NextCases ==
  Next => \/ \E c \in Calls : Call(c)
          \/ \E f \in Fields : Assign(f)
          \/ Return \/ Halt \/ Throw \/ Goto
          \/ Begins \/ BeginThen \/ BeginElse \/ BeginRight \/ BeginUntil
          \/ Ends \/ Finish
  BY DEF Next, Begins, Ends

LEMMA TypedNext ==
  ASSUME Typed, [Next]_vars
  PROVE  Typed'
<1>1. CASE UNCHANGED vars
  <2>1. UNCHANGED <<callSuper, fieldinit, noctor, ctorinit, stack, paths, sort, done>>
    BY <1>1 DEF vars
  <2> QED
    BY <2>1 DEF Typed
<1>2. CASE Next
  BY <1>2, NextCases, TypedSimple, TypedBegin, TypedTurn, TypedEnd, TypedFinish
<1> QED
  BY <1>1, <1>2

\* A constructor is analysed with flags, effects and frames of their types, and
\* noctor counts the loops and switches that are open (for each ++ there is the --).
THEOREM FlowTyped == Spec => []TypeOK
<1>1. Init => Typed
  BY TypedInit
<1>2. Typed /\ [Next]_vars => Typed'
  BY TypedNext
<1>3. Typed => TypeOK
  <2> SUFFICES ASSUME Typed PROVE TypeOK
    OBVIOUS
  <2>1. paths # {} /\ \A p \in paths : p \in Effect
    BY DEF Typed, Effects
  <2>2. DOMAIN stack = 1..Len(stack) /\ \A i \in DOMAIN stack : stack[i] \in FrameSet
    BY DEF Typed
  <2>3. \A i \in DOMAIN stack : stack[i].kind \in Kinds
    BY <2>2, FrameTyped
  <2>4. noctor = Cardinality({i \in DOMAIN stack : stack[i].kind \in Loops})
    BY <2>2 DEF Typed, LoopsOf
  <2> QED
    BY <2>1, <2>3, <2>4 DEF Typed, TypeOK
<1> QED
  BY <1>1, <1>2, <1>3, PTL DEF Spec

-----------------------------------------------------------------------------
(* The flags say what the paths do                                         *)

\* The constructors that the theorems are about: their conditions neither call a
\* constructor nor set a field, they leave no loop or switch by a return or an
\* assert(0), and there is a path to all that they are made of.
Settled == EmptyConditions /\ ~ExitsInLoops /\ ~DeadCode

Now(x) == Seen(x, callSuper, fieldinit)

Tracked == \A x \in Watched(sort) : Tracks(sort, x, stack, Now(x), paths)

LEMMA WatchedField ==
  ASSUME Typed, NEW x \in Watched(sort), x \in Fields
  PROVE  ~Has(sort, "this") /\ ~Has(sort, "&&") /\ x \in sort.mustInit \cup sort.unassignable
  BY CallingIsNoField DEF Watched

LEMMA AroundTop ==
  ASSUME NEW s \in Seq(FrameSet)
  PROVE  \A y : y \in Around(s) <=> \E i \in DOMAIN s : s[i].kind = y
<1>1. DOMAIN s = 1..Len(s)
  OBVIOUS
<1> QED
  BY <1>1 DEF Around, KindsTo

\* What the place of a construct says of the kinds of the frames around.
LEMMA Where ==
  ASSUME Settled, Typed, Shaped(sort, stack)
  PROVE  /\ ~InExpression => /\ Around(stack) \cap Expressions = {}
                             /\ ~Quiet(Around(stack)) /\ "until" \notin Around(stack)
         /\ Effective => ~Quiet(Around(stack)) /\ "until" \notin Around(stack)
         /\ noctor = 0 => ~Looped(Around(stack))
         /\ Exitable => ~Looped(Around(stack))
<1>0. stack \in Seq(FrameSet)
  BY DEF Typed
<1>1. ASSUME ~InExpression PROVE Around(stack) \cap Expressions = {}
  <2>1. CASE stack = <<>>
    <3>1. Len(stack) = 0
      BY <2>1
    <3> QED
      BY <3>1 DEF Around, KindsTo
  <2>2. CASE stack # <<>>
    <3>1. Top.kind \notin Expressions
      BY <1>1, <2>2 DEF InExpression
    <3>2. Outer \in Seq(FrameSet) /\ Top \in FrameSet /\ stack = Append(Outer, Top)
      BY <2>2, TopTyped
    <3>3. ShapedFrame(sort, Around(Outer), Top)
      BY <3>2, ShapedTop
    <3>4. Extends(stack, Outer, Top)
      BY <3>2, Appended
    <3>5. Around(stack) = Around(Outer) \cup {Top.kind}
      BY <3>4 DEF Extends
    <3>6. Around(Outer) \cap Expressions = {}
      BY <3>1, <3>3 DEF ShapedFrame, Expressions
    <3> QED
      BY <3>1, <3>5, <3>6
  <2> QED
    BY <2>1, <2>2
<1>2. Around(stack) \cap Expressions = {} => ~Quiet(Around(stack)) /\ "until" \notin Around(stack)
  BY DEF Quiet, Expressions
<1>3. ASSUME Effective PROVE ~Quiet(Around(stack)) /\ "until" \notin Around(stack)
  <2>1. \A i \in DOMAIN stack : stack[i].kind \notin {"condition", "declared", "until"}
    BY <1>3 DEF Effective, Settled
  <2> QED
    BY <1>0, <2>1, AroundTop DEF Quiet
<1>4. ASSUME noctor = 0 PROVE ~Looped(Around(stack))
  <2>1. Cardinality(LoopsOf(stack)) = 0
    BY <1>4 DEF Typed
  <2>2. IsFiniteSet(LoopsOf(stack))
    <3>1. Len(stack) \in Nat
      BY <1>0
    <3>2. IsFiniteSet(1..Len(stack))
      BY <3>1, FS_Interval
    <3>3. LoopsOf(stack) \subseteq 1..Len(stack)
      BY DEF LoopsOf
    <3> QED
      BY <3>2, <3>3, FS_Subset
  <2>3. LoopsOf(stack) = {}
    BY <2>1, <2>2, FS_EmptySet
  <2> QED
    BY <2>3 DEF LoopsOf, Looped, Around, KindsTo
<1>5. Exitable => noctor = 0
  BY LoopsAfter DEF Exitable, Settled
<1> QED
  BY <1>1, <1>2, <1>3, <1>4, <1>5

LEMMA NowFits ==
  ASSUME NEW x, Tracks(sort, x, stack, Now(x), paths), x \notin Fields
  PROVE  Fitting(sort, callSuper) /\ Now(x) = callSuper
<1> DEFINE w == Around(stack)  e == Entry(x, stack)  P == Chain(Lead(stack), paths)  c == Now(x)
<1>1. Level(sort, x, w, e, c, P)
  BY DEF Tracks
<1>2. c = callSuper
  BY DEF Now, Seen
<1> HIDE DEF w, e, P, c
<1>3. Fits(sort, x, c)
  BY <1>1, LevelFits
<1> QED
  BY <1>2, <1>3 DEF Fits, c

\* One construct that does q keeps the flags and the paths together.
LEMMA StepKeeps ==
  ASSUME Typed, NEW x, NEW q \in Effect, Tracks(sort, x, stack, Now(x), paths),
         Level(sort, x, Around(stack), Now(x), Now(x)', {q}), paths' = Chain(paths, {q}),
         stack' = stack, sort' = sort
  PROVE  Tracks(sort, x, stack, Now(x), paths)'
<1>1. {q} \in SUBSET Effect /\ paths \in SUBSET Effect /\ stack \in Seq(FrameSet)
  BY DEF Typed, Effects
<1> DEFINE c == Now(x)  d == Now(x)'
<1>2. Tracks(sort, x, stack, d, Chain(paths, {q}))
  <2>1. Tracks(sort, x, stack, c, paths) /\ Level(sort, x, Around(stack), c, d, {q})
    OBVIOUS
  <2> HIDE DEF c, d
  <2> QED
    BY <1>1, <2>1, TracksOn
<1> QED
  BY <1>2 DEF Tracks, Below, Parts, Around, Entry, Lead

LEMMA WhenNot ==
  \A error : \A condition \in BOOLEAN : When(condition, error) = {} => ~condition
  BY DEF When

LEMMA CallKeeps ==
  ASSUME Settled, Typed, Shaped(sort, stack), NEW c \in Calls, Call(c), errors' = {},
         NEW x \in Watched(sort), Tracks(sort, x, stack, Now(x), paths)
  PROVE  Tracks(sort, x, stack, Now(x), paths)'
<1> DEFINE q == CallEffect(c)  w == Around(stack)
<1>1. /\ q \in Effect /\ q.calls = 1 /\ q.out = "on" /\ ~q.again
      /\ c # "this" => \A f \in Fields : q.sets[f] = 0
  BY CallEffectFields
<1>2. paths' = Chain(paths, {q}) /\ stack' = stack /\ sort' = sort /\ Has(sort, c)
  BY DEF Call, CallEffect, Construct, Has
<1>3. ~Quiet(w) /\ "until" \notin w
  BY Where DEF Call
<1> HIDE DEF q
<1>4. Level(sort, x, w, Now(x), Now(x)', {q})
  <2>1. CASE x \in Fields
    <3>1. c # "this"
      BY <1>2, <2>1, WatchedField
    <3>2. fieldinit' = fieldinit
      BY <3>1 DEF Call
    <3>3. FieldLevel(sort, x, w, fieldinit[x], fieldinit[x], {q})
      BY <1>1, <1>3, <2>1, <3>1, FieldNeutral
    <3> QED
      BY <2>1, <3>2, <3>3 DEF Level, Now, Seen
  <2>2. CASE x \notin Fields
    <3>1. Fitting(sort, callSuper)
      BY <2>2, NowFits
    <3>2. CASE Halted(callSuper)
      <4>1. callSuper' = callSuper
        BY <3>2 DEF Call
      <4>2. CallLevel(sort, w, callSuper, callSuper, {q})
        BY <1>1, <1>3, <3>1, <3>2, CallDead
      <4> QED
        BY <2>2, <4>1, <4>2 DEF Level, Now, Seen
    <3>3. CASE ~Halted(callSuper)
      <4>1. CallErrors = {} /\ callSuper' = callSuper \cup {"any", c}
        BY <3>3 DEF Call
      <4>0. noctor \in Nat
        BY LoopsAfter
      <4>2. noctor = 0 /\ "label" \notin callSuper /\ ~Called(callSuper)
            /\ ("return" \in callSuper => "any" \in callSuper)
        <5>1. /\ When(noctor > 0 \/ "label" \in callSuper, "call in loop or after label") = {}
              /\ When(Called(callSuper), "multiple constructor calls") = {}
              /\ When("return" \in callSuper /\ "any" \notin callSuper, "return skips constructor") = {}
          BY <4>1 DEF CallErrors
        <5>2. ~(noctor > 0 \/ "label" \in callSuper) /\ ~Called(callSuper)
              /\ ~("return" \in callSuper /\ "any" \notin callSuper)
          BY <5>1, WhenNot
        <5> QED
          BY <4>0, <5>2
      <4>3. ~Looped(w)
        BY <4>2, Where
      <4>4. ~Still(w)
        BY <1>3, <4>3 DEF Still, Looped
      <4>5. CallLevel(sort, w, callSuper, callSuper \cup {"any", c}, {q})
        BY <1>1, <1>2, <1>3, <3>1, <3>3, <4>2, <4>4, CallCounted
      <4> QED
        BY <2>2, <4>1, <4>5 DEF Level, Now, Seen
    <3> QED
      BY <3>2, <3>3
  <2> QED
    BY <2>1, <2>2
<1> QED
  BY <1>1, <1>2, <1>4, StepKeeps

LEMMA AssignKeeps ==
  ASSUME Settled, Typed, Shaped(sort, stack), NEW f \in Fields, Assign(f), errors' = {},
         NEW x \in Watched(sort), Tracks(sort, x, stack, Now(x), paths)
  PROVE  Tracks(sort, x, stack, Now(x), paths)'
<1> DEFINE q == SetEffect(f)  w == Around(stack)
<1>1. /\ q \in Effect /\ q.calls = 0 /\ q.out = "on" /\ ~q.again
      /\ q.sets[f] = 1 /\ \A g \in Fields : g # f => q.sets[g] = 0
  BY SetEffectFields
<1>2. /\ paths' = Chain(paths, {q}) /\ stack' = stack /\ sort' = sort /\ AssignErrors(f) = {}
      /\ fieldinit' = [fieldinit EXCEPT ![f] = @ \cup {"this"}] /\ callSuper' = callSuper
  BY DEF Assign, SetEffect, Construct
<1>3. ~Quiet(w) /\ "until" \notin w
  BY Where DEF Assign
<1> HIDE DEF q
<1>4. Level(sort, x, w, Now(x), Now(x)', {q})
  <2>1. CASE x \in Fields /\ x # f
    <3>1. fieldinit'[x] = fieldinit[x]
      BY <1>2, <2>1 DEF Typed
    <3>2. FieldLevel(sort, x, w, fieldinit[x], fieldinit[x], {q})
      BY <1>1, <1>3, <2>1, FieldNeutral
    <3> QED
      BY <2>1, <3>1, <3>2 DEF Level, Now, Seen
  <2>2. CASE x \in Fields /\ x = f
    <3> DEFINE c == fieldinit[f]
    <3>1. fieldinit'[f] = c \cup {"this"}
      BY <1>2 DEF Typed
    <3>2. f \in sort.mustInit \cup sort.unassignable
      BY <2>2, WatchedField
    <3>3. /\ "this" \in c => f \notin sort.unassignable
          /\ "this" \notin c => noctor = 0 /\ "label" \notin c
      <4>1. noctor \in Nat
        BY LoopsAfter
      <4>2. CASE "this" \in c
        <5>1. When(f \in Unassignable, "field initialized multiple times") = {}
          BY <1>2, <4>2 DEF AssignErrors
        <5> QED
          BY <4>2, <5>1, WhenNot DEF Unassignable
      <4>3. CASE "this" \notin c
        <5>1. When((noctor > 0 \/ "label" \in fieldinit[f]) /\ f \in Unassignable \cup MustInit,
                   "field in loop or after label") = {}
          BY <1>2, <4>3 DEF AssignErrors
        <5>2. ~((noctor > 0 \/ "label" \in fieldinit[f]) /\ f \in Unassignable \cup MustInit)
          BY <5>1, WhenNot
        <5>3. ~(noctor > 0 \/ "label" \in c)
          BY <3>2, <5>2 DEF Unassignable, MustInit
        <5> QED
          BY <4>1, <4>3, <5>3
      <4> QED
        BY <4>2, <4>3
    <3>4. "this" \notin c => ~Looped(w) /\ ~Still(w)
      BY <1>3, <3>3, Where DEF Looped, Still
    <3>5. FieldLevel(sort, f, w, c, c \cup {"this"}, {q})
      BY <1>1, <1>3, <3>3, <3>4, FieldSet
    <3> QED
      BY <2>2, <3>1, <3>5 DEF Level, Now, Seen
  <2>3. CASE x \notin Fields
    <3>1. Fitting(sort, callSuper)
      BY <2>3, NowFits
    <3>2. CallLevel(sort, w, callSuper, callSuper, {q})
      BY <1>1, <1>3, <3>1, CallNeutral
    <3> QED
      BY <1>2, <2>3, <3>2 DEF Level, Now, Seen
  <2> QED
    BY <2>1, <2>2, <2>3
<1> QED
  BY <1>1, <1>2, <1>4, StepKeeps

LEMMA ReturnKeeps ==
  ASSUME Settled, Typed, Shaped(sort, stack), Return, errors' = {},
         NEW x \in Watched(sort), Tracks(sort, x, stack, Now(x), paths)
  PROVE  Tracks(sort, x, stack, Now(x), paths)'
<1> DEFINE q == LeaveEffect("return")  w == Around(stack)
<1>1. /\ q \in Effect /\ q.calls = 0 /\ q.out = "return" /\ ~q.again /\ \A g \in Fields : q.sets[g] = 0
  BY LeaveEffectFields, AllFlags
<1>2. /\ paths' = Chain(paths, {q}) /\ stack' = stack /\ sort' = sort /\ Has(sort, "return")
      /\ callSuper' = callSuper \cup {"return"} /\ fieldinit' = MarkFields(fieldinit, "return")
  BY DEF Return, LeaveEffect, Leave, Construct, Has
<1>3. ~Quiet(w) /\ ~Looped(w)
  BY Where DEF Return
<1>4. ReturnErrors(callSuper) = {} /\ \A f \in sort.mustInit : "this" \in fieldinit[f]
  BY DEF Return, When, MustInit
<1> HIDE DEF q
<1>5. Level(sort, x, w, Now(x), Now(x)', {q})
  <2>1. CASE x \in Fields
    <3>1. fieldinit'[x] = fieldinit[x] \cup {"return"}
      BY <1>2, <2>1 DEF MarkFields
    <3>2. FieldLevel(sort, x, w, fieldinit[x], fieldinit[x] \cup {"return"}, {q})
      BY <1>1, <1>3, <1>4, <2>1, FieldReturn
    <3> QED
      BY <2>1, <3>1, <3>2 DEF Level, Now, Seen
  <2>2. CASE x \notin Fields
    <3>1. Fitting(sort, callSuper)
      BY <2>2, NowFits
    <3>2. CallLevel(sort, w, callSuper, callSuper \cup {"return"}, {q})
      BY <1>1, <1>2, <1>3, <1>4, <3>1, CallReturn
    <3> QED
      BY <1>2, <2>2, <3>2 DEF Level, Now, Seen
  <2> QED
    BY <2>1, <2>2
<1> QED
  BY <1>1, <1>2, <1>5, StepKeeps

LEMMA HaltKeeps ==
  ASSUME Settled, Typed, Shaped(sort, stack), Halt, errors' = {},
         NEW x \in Watched(sort), Tracks(sort, x, stack, Now(x), paths)
  PROVE  Tracks(sort, x, stack, Now(x), paths)'
<1> DEFINE q == LeaveEffect("stopped")  w == Around(stack)
<1>1. /\ q \in Effect /\ q.calls = 0 /\ q.out = "stopped" /\ ~q.again /\ \A g \in Fields : q.sets[g] = 0
  BY LeaveEffectFields, AllFlags
<1>2. /\ paths' = Chain(paths, {q}) /\ stack' = stack /\ sort' = sort /\ Has(sort, "halt")
      /\ callSuper' = callSuper \cup {"halt"} /\ fieldinit' = MarkFields(fieldinit, "halt")
  BY DEF Halt, LeaveEffect, Leave, Construct, Has
<1>3. ~Looped(w)
  BY Where DEF Halt
<1> HIDE DEF q
<1>4. QuietEffect(q)
  BY <1>1 DEF QuietEffect
<1>5. Level(sort, x, w, Now(x), Now(x)', {q})
  <2>1. CASE x \in Fields
    <3>1. fieldinit'[x] = fieldinit[x] \cup {"halt"}
      BY <1>2, <2>1 DEF MarkFields
    <3>2. FieldLevel(sort, x, w, fieldinit[x], fieldinit[x] \cup {"halt"}, {q})
      BY <1>1, <1>3, <1>4, <2>1, FieldHalt
    <3> QED
      BY <2>1, <3>1, <3>2 DEF Level, Now, Seen
  <2>2. CASE x \notin Fields
    <3>1. Fitting(sort, callSuper)
      BY <2>2, NowFits
    <3>2. CallLevel(sort, w, callSuper, callSuper \cup {"halt"}, {q})
      BY <1>1, <1>2, <1>3, <1>4, <3>1, CallHalt
    <3> QED
      BY <1>2, <2>2, <3>2 DEF Level, Now, Seen
  <2> QED
    BY <2>1, <2>2
<1> QED
  BY <1>1, <1>2, <1>5, StepKeeps

LEMMA LeaveKeeps ==
  ASSUME Settled, Typed, Shaped(sort, stack), Throw \/ Goto,
         NEW x \in Watched(sort), Tracks(sort, x, stack, Now(x), paths)
  PROVE  Tracks(sort, x, stack, Now(x), paths)'
<1> DEFINE way == IF Throw THEN "stopped" ELSE "goto"
           q == LeaveEffect(way)  w == Around(stack)
<1>0. way \in {"stopped", "goto"} /\ (way = "goto" => Has(sort, "goto"))
  BY DEF Goto, Construct, Has
<1>1. /\ q \in Effect /\ q.calls = 0 /\ q.out = way /\ ~q.again /\ \A g \in Fields : q.sets[g] = 0
  BY <1>0, LeaveEffectFields, AllFlags
<1>2. /\ paths' = Chain(paths, {q}) /\ stack' = stack /\ sort' = sort
      /\ callSuper' = callSuper /\ fieldinit' = fieldinit
  BY DEF Throw, Goto, LeaveEffect, Leave, Construct
<1>3. ~Quiet(w)
  BY Where DEF Throw, Goto
<1> HIDE DEF q, way
<1>5. Level(sort, x, w, Now(x), Now(x)', {q})
  <2>1. CASE x \in Fields
    <3>2. FieldLevel(sort, x, w, fieldinit[x], fieldinit[x], {q})
      BY <1>0, <1>1, <1>3, <2>1, FieldNeutral
    <3> QED
      BY <1>2, <2>1, <3>2 DEF Level, Now, Seen
  <2>2. CASE x \notin Fields
    <3>1. Fitting(sort, callSuper)
      BY <2>2, NowFits
    <3>2. CallLevel(sort, w, callSuper, callSuper, {q})
      BY <1>0, <1>1, <1>3, <3>1, CallNeutral
    <3> QED
      BY <1>2, <2>2, <3>2 DEF Level, Now, Seen
  <2> QED
    BY <2>1, <2>2
<1> QED
  BY <1>1, <1>2, <1>5, StepKeeps

LEMMA Primed ==
  ASSUME Shaped(sort', stack'), \A x \in Watched(sort') : Tracks(sort', x, stack', Now(x)', paths')
  PROVE  Shaped(sort, stack)' /\ Tracked'
<1>1. Shaped(sort, stack)'
  BY DEF Shaped, ShapedFrame, KindsTo
<1>2. ASSUME NEW x \in Watched(sort') PROVE Tracks(sort, x, stack, Now(x), paths)'
  <2>1. Tracks(sort', x, stack', Now(x)', paths')
    OBVIOUS
  <2> QED
    BY <2>1 DEF Tracks, Below, Parts, Around, Entry, Lead
<1>3. Tracked'
  BY <1>2 DEF Tracked, Watched
<1> QED
  BY <1>1, <1>3

LEMMA BeginKeeps ==
  ASSUME Settled, Typed, Shaped(sort, stack), Tracked, Begins
  PROVE  Shaped(sort, stack)' /\ Tracked'
<1>1. sort' = sort /\ paths' = {Skip} /\ FallsThrough
  BY BeginsPush DEF Settled
<1>2. PICK fr : /\ Begun(fr) /\ Pushes(fr)
                /\ fr.kind \notin {"left", "operand"} => ~InExpression
                /\ fr.kind = "operand" => "&&" \in sort.language
                /\ fr.kind # "label" => callSuper' = callSuper /\ fieldinit' = fieldinit
                /\ fr.kind = "label" => /\ callSuper' = callSuper \cup {"label"}
                                        /\ fieldinit' = MarkFields(fieldinit, "label")
  BY BeginsPush
<1>3. stack \in Seq(FrameSet) /\ fr \in FrameSet /\ stack' = Append(stack, fr) /\ paths \in SUBSET Effect
  BY <1>2 DEF Typed, Pushes, Effects
<1>4. /\ fr.cs = callSuper /\ fr.fi = fieldinit /\ fr.cs1 = callSuper /\ fr.fi1 = fieldinit
      /\ fr.first = {Skip} /\ fr.kind \notin {"then", "else", "right", "until"}
      /\ fr.kind # "label" => fr.before = paths
      /\ fr.kind = "label" => fr.before = AtLabel(paths)
  <2>1. CASE fr = LabelFrame
    BY <2>1, LabelFrameTyped
  <2>2. ASSUME NEW kind \in Kinds, fr = Frame(kind), kind \notin {"then", "else", "right", "label", "until"}
        PROVE  <1>4
    BY <2>2, NewFrame
  <2> QED
    BY <1>2, <2>1, <2>2 DEF Begun
<1>5. ShapedFrame(sort, Around(stack), fr)
  <2>1. fr.kind \notin {"left", "right", "operand"} => Around(stack) \cap Expressions = {}
    BY <1>2, Where
  <2> QED
    BY <1>2, <1>4, <2>1 DEF ShapedFrame, Has
<1>6. Shaped(sort', stack')
  BY <1>1, <1>3, <1>5, ShapedTop
<1>7. ASSUME NEW x \in Watched(sort') PROVE Tracks(sort', x, stack', Now(x)', paths')
  <2>1. Tracks(sort, x, stack, Now(x), paths)
    BY <1>1 DEF Tracked
  <2>2. Seen(x, fr.cs, fr.fi) = Now(x) /\ Seen(x, fr.cs1, fr.fi1) = Now(x)
    BY <1>4 DEF Now
  <2>3. Now(x)' = Start(x, fr)
    <3>1. CASE fr.kind # "label"
      <4>1. Now(x)' = Now(x)
        BY <1>2, <3>1 DEF Now, Seen
      <4> QED
        BY <2>2, <3>1, <4>1 DEF Start
    <3>2. CASE fr.kind = "label"
      <4>1. Now(x)' = Now(x) \cup {"label"}
        BY <1>2, <3>2 DEF Now, Seen, MarkFields
      <4> QED
        BY <2>2, <3>2, <4>1 DEF Start
    <3> QED
      BY <3>1, <3>2
  <2>4. Level(sort, x, Around(stack), Entry(x, stack), Start(x, fr), Chain(Lead(stack), fr.before))
    <3> DEFINE w == Around(stack)  e == Entry(x, stack)  F == Lead(stack)  c == Now(x)
    <3>1. Level(sort, x, w, e, c, Chain(F, paths))
      BY <2>1 DEF Tracks
    <3>2. CASE fr.kind # "label"
      <4>1. Start(x, fr) = c
        BY <2>2, <3>2 DEF Start
      <4> QED
        BY <1>4, <3>1, <3>2, <4>1
    <3>3. CASE fr.kind = "label"
      <4>1. Start(x, fr) = c \cup {"label"}
        BY <2>2, <3>3 DEF Start
      <4>2. PICK q0 \in paths : q0.out = "on"
        BY <1>1 DEF FallsThrough
      <4>3. ~Quiet(w)
        BY <1>2, <3>3, Where
      <4>4. F \in SUBSET Effect
        BY <1>3, LeadTyped
      <4> HIDE DEF w, e, F, c
      <4>5. Level(sort, x, w, e, c \cup {"label"}, Chain(F, AtLabel(paths)))
        BY <1>3, <3>1, <4>2, <4>3, <4>4, LabelLevel
      <4> QED
        BY <1>4, <3>3, <4>1, <4>5 DEF w, e, F
    <3> QED
      BY <3>2, <3>3
  <2>5. Tracks(sort, x, Append(stack, fr), Start(x, fr), {Skip})
    <3> DEFINE c == Now(x)
    <3>1. Tracks(sort, x, stack, c, paths) /\ Seen(x, fr.cs1, fr.fi1) = Seen(x, fr.cs, fr.fi)
      BY <2>1, <2>2
    <3> HIDE DEF c
    <3> QED
      BY <1>3, <1>4, <2>4, <3>1, TracksPush
  <2> QED
    BY <1>1, <1>3, <2>3, <2>5
<1> QED
  BY <1>6, <1>7, Primed

LEMMA LevelQuiet ==
  ASSUME NEW so, NEW x, NEW w, NEW e, NEW c, NEW P, Level(so, x, w, e, c, P), Quiet(w)
  PROVE  c \subseteq e \cup {"halt"} /\ \A q \in P : QuietEffect(q)
  BY DEF Level, FieldLevel, CallLevel

LEMMA SeenPopped ==
  ASSUME NEW x, NEW cs, NEW ds, NEW fi, NEW gi
  PROVE  Seen(x, Popped(cs, ds), PoppedFields(fi, gi)) = Seen(x, cs, fi) \cup Seen(x, ds, gi)
  BY DEF Seen, Popped, PoppedFields

LEMMA SameKinds ==
  ASSUME NEW w, NEW j, NEW k,
         \/ j = "then" /\ k \in {"condition", "declared"}
         \/ j = "else" /\ k = "then"
         \/ j = "right" /\ k = "left"
         \/ j = "until" /\ k = "do"
  PROVE  Weaker(w \cup {j}, w \cup {k})
  BY DEF Weaker, Looped, Still, Quiet, Loops

\* What is known of the frame whose part is being analysed.
LEMMA TopTracks ==
  ASSUME Typed, stack # <<>>, Shaped(sort, stack), Tracked
  PROVE  /\ Outer \in Seq(FrameSet) /\ Top \in FrameSet /\ stack = Append(Outer, Top)
         /\ paths \in SUBSET Effect /\ Top.first \in SUBSET Effect
         /\ Shaped(sort, Outer) /\ ShapedFrame(sort, Around(Outer), Top)
         /\ Calling \in Watched(sort)
         /\ \A x \in Watched(sort) :
              /\ Tracks(sort, x, Append(Outer, Top), Now(x), paths)
              /\ PartsOf(sort, x, Around(Outer) \cup {Top.kind}, Top)
              /\ Level(sort, x, Around(Outer) \cup {Top.kind}, Start(x, Top), Now(x), Chain(Top.first, paths))
              /\ Fits(sort, x, Start(x, Top)) /\ Fits(sort, x, Now(x))
              /\ Top.kind # "label" => Start(x, Top) = Seen(x, Top.cs, Top.fi)
<1>1. Outer \in Seq(FrameSet) /\ Top \in FrameSet /\ stack = Append(Outer, Top)
  BY TopTyped
<1>2. paths \in SUBSET Effect /\ Top.first \in SUBSET Effect
  BY <1>1, FrameTyped DEF Typed, Effects
<1>3. Shaped(sort, Append(Outer, Top))
  BY <1>1
<1>4. Shaped(sort, Outer) /\ ShapedFrame(sort, Around(Outer), Top)
  BY <1>1, <1>3, ShapedTop
<1>5. ASSUME NEW x \in Watched(sort)
      PROVE  /\ Tracks(sort, x, Append(Outer, Top), Now(x), paths)
             /\ PartsOf(sort, x, Around(Outer) \cup {Top.kind}, Top)
             /\ Level(sort, x, Around(Outer) \cup {Top.kind}, Start(x, Top), Now(x), Chain(Top.first, paths))
             /\ Fits(sort, x, Start(x, Top)) /\ Fits(sort, x, Now(x))
             /\ Top.kind # "label" => Start(x, Top) = Seen(x, Top.cs, Top.fi)
  <2> DEFINE s == Outer  fr == Top  c == Now(x)  w == Around(s) \cup {fr.kind}  P == Chain(fr.first, paths)
  <2>1. Tracks(sort, x, Append(s, fr), c, paths) /\ s \in Seq(FrameSet) /\ fr \in FrameSet
    BY <1>1 DEF Tracked
  <2> HIDE DEF s, fr, c
  <2>2. PartsOf(sort, x, w, fr) /\ Level(sort, x, w, Start(x, fr), c, P)
    BY <2>1, TracksTop
  <2> HIDE DEF w, P
  <2>3. Fits(sort, x, Start(x, fr)) /\ Fits(sort, x, c)
    BY <2>2, LevelFits
  <2>4. fr.kind # "label" => Start(x, fr) = Seen(x, fr.cs, fr.fi)
    BY DEF Start
  <2> QED
    BY <2>1, <2>2, <2>3, <2>4 DEF s, fr, c, w, P
<1>6. Calling \in Watched(sort)
  BY DEF Watched
<1> QED
  BY <1>1, <1>2, <1>4, <1>5, <1>6

\* The frame goes on as g.
LEMMA TurnedTracks ==
  ASSUME Typed, stack # <<>>, Shaped(sort, stack), Tracked, sort' = sort, NEW g \in FrameSet, stack' = Append(Outer, g),
         ShapedFrame(sort, Around(Outer), g), Top.kind # "label", g.kind # "label",
         g.cs = Top.cs, g.fi = Top.fi, g.before = Top.before,
         \A x \in Watched(sort) :
           /\ PartsOf(sort, x, Around(Outer) \cup {g.kind}, g)
           /\ Level(sort, x, Around(Outer) \cup {g.kind}, Seen(x, Top.cs, Top.fi), Now(x)', Chain(g.first, paths'))
  PROVE  Shaped(sort, stack)' /\ Tracked'
<1>1. Outer \in Seq(FrameSet) /\ Top \in FrameSet /\ Shaped(sort, Outer)
  BY TopTracks
<1>2. Shaped(sort', stack')
  BY <1>1, ShapedTop
<1>3. ASSUME NEW x \in Watched(sort') PROVE Tracks(sort', x, stack', Now(x)', paths')
  <2> DEFINE s == Outer  fr == Top  b == Now(x)  c == Now(x)'  Q == paths'
  <2>1. /\ Tracks(sort, x, Append(s, fr), b, paths) /\ s \in Seq(FrameSet) /\ fr \in FrameSet
        /\ PartsOf(sort, x, Around(s) \cup {g.kind}, g)
        /\ Level(sort, x, Around(s) \cup {g.kind}, Seen(x, fr.cs, fr.fi), c, Chain(g.first, Q))
    BY <1>1, TopTracks
  <2>2. /\ fr.kind # "label" /\ g.kind # "label" /\ g.cs = fr.cs /\ g.fi = fr.fi /\ g.before = fr.before
        /\ stack' = Append(s, g) /\ sort' = sort
    OBVIOUS
  <2> HIDE DEF s, fr, b, c, Q
  <2>3. Tracks(sort, x, Append(s, g), c, Q)
    BY <2>1, <2>2, TracksTurn
  <2> QED
    BY <2>2, <2>3 DEF c, Q
<1> QED
  BY <1>2, <1>3, Primed

LEMMA ThenKeeps ==
  ASSUME Typed, Shaped(sort, stack), Tracked, BeginThen
  PROVE  Shaped(sort, stack)' /\ Tracked'
<1>1. stack # <<>> /\ sort' = sort /\ paths' = {Skip} /\ Top.kind \in {"condition", "declared"}
  BY TurnSteps
<1>2. Top.first = {Skip} /\ Around(Outer) \cap Expressions = {}
  BY <1>1, TopTracks DEF ShapedFrame
<1>3. paths \in SUBSET Effect /\ Chain({Skip}, paths) = paths /\ Chain(paths, {Skip}) = paths
  BY <1>1, TopTracks, ChainSkip
<1>4. Quiet(Around(Outer) \cup {Top.kind})
  BY <1>1 DEF Quiet
<1>5. ASSUME NEW x \in Watched(sort)
      PROVE  LET e == Seen(x, Top.cs, Top.fi)  w == Around(Outer) \cup {"then"}
             IN  /\ Level(sort, x, w, e, Now(x), paths) /\ Now(x) \subseteq e \cup {"halt"}
                 /\ Level(sort, x, w, e, e, paths)
                 /\ \A q \in paths : QuietEffect(q)
  <2> DEFINE e == Seen(x, Top.cs, Top.fi)  w == Around(Outer) \cup {"then"}  v == Around(Outer) \cup {Top.kind}  c == Now(x)
  <2>1. Level(sort, x, v, e, c, paths) /\ Fits(sort, x, e) /\ Quiet(v)
    BY <1>1, <1>2, <1>3, <1>4, TopTracks
  <2>2. Weaker(w, v)
    BY <1>1, SameKinds
  <2> HIDE DEF e, w, v, c
  <2>3. c \subseteq e \cup {"halt"} /\ \A q \in paths : QuietEffect(q)
    BY <2>1, LevelQuiet
  <2>4. Level(sort, x, w, e, c, paths)
    BY <2>1, <2>2, Weaken
  <2>5. Level(sort, x, w, e, e, paths)
    BY <1>3, <2>1, <2>3, QuietLevel
  <2> QED
    BY <2>3, <2>4, <2>5 DEF e, w, c
<1>6. \A q \in paths : QuietEffect(q)
  BY <1>1, <1>5, TopTracks
<1>7. CASE Top.kind = "condition"
  <2> DEFINE g == ThenOf(Top)
  <2>1. /\ g \in FrameSet /\ g.kind = "then" /\ g.cs = Top.cs /\ g.fi = Top.fi /\ g.before = Top.before
        /\ g.first = paths /\ g.cs1 = callSuper /\ g.fi1 = fieldinit
    BY <1>1, TopTracks, TurnedFrames, TurnedFields
  <2>2. stack' = Append(Outer, g) /\ callSuper' = Top.cs /\ fieldinit' = Top.fi
    BY <1>7, TurnSteps
  <2> HIDE DEF g
  <2>3. ShapedFrame(sort, Around(Outer), g)
    BY <1>2, <1>6, <2>1 DEF ShapedFrame
  <2>4. ASSUME NEW x \in Watched(sort)
        PROVE  /\ PartsOf(sort, x, Around(Outer) \cup {g.kind}, g)
               /\ Level(sort, x, Around(Outer) \cup {g.kind}, Seen(x, Top.cs, Top.fi), Now(x)', Chain(g.first, paths'))
    <3>1. Now(x)' = Seen(x, Top.cs, Top.fi)
      BY <2>2 DEF Now, Seen
    <3>2. Seen(x, g.cs1, g.fi1) = Now(x) /\ Seen(x, g.cs, g.fi) = Seen(x, Top.cs, Top.fi)
      BY <2>1 DEF Now
    <3>3. PartsOf(sort, x, Around(Outer) \cup {g.kind}, g)
      BY <1>5, <2>1, <3>2 DEF PartsOf
    <3> QED
      BY <1>1, <1>3, <1>5, <2>1, <3>1, <3>3
  <2> QED
    BY <1>1, <2>1, <2>2, <2>3, <2>4, TurnedTracks
<1>8. CASE Top.kind = "declared"
  <2> DEFINE g == ThenDeclared(Top)
  <2>1. /\ g \in FrameSet /\ g.kind = "then" /\ g.cs = Top.cs /\ g.fi = Top.fi /\ g.before = Top.before
        /\ g.first = paths /\ g.cs1 = Top.cs1 /\ g.fi1 = Top.fi1
    BY <1>1, TopTracks, TurnedFrames, TurnedFields
  <2>2. stack' = Append(Outer, g) /\ callSuper' = callSuper /\ fieldinit' = fieldinit
    BY <1>8, TurnSteps
  <2> HIDE DEF g
  <2>3. ShapedFrame(sort, Around(Outer), g)
    BY <1>2, <1>6, <2>1 DEF ShapedFrame
  <2>4. ASSUME NEW x \in Watched(sort)
        PROVE  /\ PartsOf(sort, x, Around(Outer) \cup {g.kind}, g)
               /\ Level(sort, x, Around(Outer) \cup {g.kind}, Seen(x, Top.cs, Top.fi), Now(x)', Chain(g.first, paths'))
    <3>1. Now(x)' = Now(x)
      BY <2>2 DEF Now, Seen
    <3>2. Seen(x, Top.cs1, Top.fi1) = Seen(x, Top.cs, Top.fi)
      BY <1>1, <1>8, TopTracks DEF PartsOf
    <3>3. PartsOf(sort, x, Around(Outer) \cup {g.kind}, g)
      BY <1>5, <2>1, <3>2 DEF PartsOf
    <3> QED
      BY <1>1, <1>3, <1>5, <2>1, <3>1, <3>3
  <2> QED
    BY <1>1, <1>8, <2>1, <2>2, <2>3, <2>4, TurnedTracks
<1> QED
  BY <1>1, <1>7, <1>8

LEMMA ElseKeeps ==
  ASSUME Typed, Shaped(sort, stack), Tracked, BeginElse
  PROVE  Shaped(sort, stack)' /\ Tracked'
<1> DEFINE g == ElseOf(Top)
<1>1. /\ stack # <<>> /\ sort' = sort /\ paths' = {Skip} /\ Top.kind = "then"
      /\ stack' = Append(Outer, g) /\ callSuper' = Top.cs /\ fieldinit' = Top.fi
  BY TurnSteps
<1>2. Top.first \in SUBSET Effect /\ (\A q \in Top.first : QuietEffect(q)) /\ Around(Outer) \cap Expressions = {}
  BY <1>1, TopTracks DEF ShapedFrame
<1>3. paths \in SUBSET Effect /\ Chain(Top.first, {Skip}) = Top.first
  BY <1>1, <1>2, TopTracks, ChainSkip
<1>4. /\ g \in FrameSet /\ g.kind = "else" /\ g.cs = Top.cs /\ g.fi = Top.fi /\ g.before = Top.before
      /\ g.first = Top.first /\ g.cs1 = Popped(Top.cs1, callSuper)
      /\ g.fi1 = PoppedFields(Top.fi1, fieldinit) /\ g.second = Chain(Top.first, paths)
  BY <1>1, TopTracks, TurnedFrames, TurnedFields
<1> HIDE DEF g
<1>5. ShapedFrame(sort, Around(Outer), g)
  BY <1>2, <1>4 DEF ShapedFrame
<1>6. ASSUME NEW x \in Watched(sort)
      PROVE  /\ PartsOf(sort, x, Around(Outer) \cup {g.kind}, g)
             /\ Level(sort, x, Around(Outer) \cup {g.kind}, Seen(x, Top.cs, Top.fi), Now(x)', Chain(g.first, paths'))
  <2> DEFINE e == Seen(x, Top.cs, Top.fi)  e1 == Seen(x, Top.cs1, Top.fi1)  c == Now(x)  F == Top.first
             v == Around(Outer) \cup {"then"}  w == Around(Outer) \cup {"else"}
  <2>1. Now(x)' = e
    BY <1>1 DEF Now, Seen
  <2>2. Seen(x, g.cs1, g.fi1) = e1 \cup c /\ Seen(x, g.cs, g.fi) = e
    BY <1>4, SeenPopped DEF Now
  <2>3. /\ Level(sort, x, v, e, c, Chain(F, paths)) /\ Fits(sort, x, e)
        /\ Level(sort, x, v, e, e1, F) /\ e1 \subseteq e \cup {"halt"}
    BY <1>1, TopTracks DEF PartsOf
  <2>4. Weaker(w, v)
    BY SameKinds
  <2>5. F \in SUBSET Effect /\ (\A q \in F : QuietEffect(q))
    BY <1>2
  <2>6. w = Around(Outer) \cup {g.kind} /\ g.second = Chain(F, paths) /\ Chain(g.first, paths') = F /\ g.kind = "else"
    BY <1>1, <1>3, <1>4
  <2> HIDE DEF e, e1, c, F, v, w
  <2>7. Level(sort, x, v, e, e1 \cup c, Chain(F, paths))
    BY <1>3, <2>3, <2>5, PopBranch
  <2> DEFINE d == e1 \cup c  P == Chain(F, paths)
  <2>8. Level(sort, x, w, e, d, P)
    <3>1. Level(sort, x, v, e, d, P)
      BY <2>7
    <3> HIDE DEF d, P
    <3> QED
      BY <2>4, <3>1, Weaken
  <2>9. Level(sort, x, w, e, e, F)
    BY <2>3, <2>5, QuietLevel
  <2>10. PartsOf(sort, x, w, g)
    BY <2>2, <2>6, <2>8 DEF PartsOf
  <2> QED
    BY <2>1, <2>6, <2>9, <2>10 DEF e
<1> QED
  BY <1>1, <1>4, <1>5, <1>6, TurnedTracks

LEMMA RightKeeps ==
  ASSUME Typed, Shaped(sort, stack), Tracked, BeginRight
  PROVE  Shaped(sort, stack)' /\ Tracked'
<1> DEFINE g == RightOf(Top)
<1>1. /\ stack # <<>> /\ sort' = sort /\ paths' = {Skip} /\ Top.kind = "left"
      /\ stack' = Append(Outer, g) /\ callSuper' = Top.cs /\ fieldinit' = Top.fi
  BY TurnSteps
<1>2. Top.first = {Skip}
  BY <1>1, TopTracks DEF ShapedFrame
<1>3. paths \in SUBSET Effect /\ Chain({Skip}, paths) = paths /\ Chain({Skip}, {Skip}) = {Skip}
  <2>1. {Skip} \in SUBSET Effect
    BY SkipLive
  <2> QED
    BY <1>1, <2>1, TopTracks, ChainSkip
<1>4. /\ g \in FrameSet /\ g.kind = "right" /\ g.cs = Top.cs /\ g.fi = Top.fi /\ g.before = Top.before
      /\ g.first = Top.first /\ g.second = paths /\ g.cs1 = callSuper /\ g.fi1 = fieldinit
  BY <1>1, TopTracks, TurnedFrames, TurnedFields
<1> HIDE DEF g
<1>5. ShapedFrame(sort, Around(Outer), g)
  BY <1>2, <1>4 DEF ShapedFrame
<1>6. ASSUME NEW x \in Watched(sort)
      PROVE  /\ PartsOf(sort, x, Around(Outer) \cup {g.kind}, g)
             /\ Level(sort, x, Around(Outer) \cup {g.kind}, Seen(x, Top.cs, Top.fi), Now(x)', Chain(g.first, paths'))
  <2> DEFINE e == Seen(x, Top.cs, Top.fi)  c == Now(x)
             v == Around(Outer) \cup {"left"}  w == Around(Outer) \cup {"right"}
  <2>1. Now(x)' = e
    BY <1>1 DEF Now, Seen
  <2>2. Seen(x, g.cs1, g.fi1) = c /\ Seen(x, g.cs, g.fi) = e
    BY <1>4 DEF Now
  <2>3. Level(sort, x, v, e, c, paths) /\ Fits(sort, x, e)
    BY <1>1, <1>2, <1>3, TopTracks
  <2>4. Weaker(w, v)
    BY SameKinds
  <2>5. w = Around(Outer) \cup {g.kind} /\ g.second = paths /\ Chain(g.first, paths') = {Skip} /\ g.kind = "right"
    BY <1>1, <1>2, <1>3, <1>4
  <2> HIDE DEF e, c, v, w
  <2>6. Level(sort, x, w, e, c, paths)
    BY <2>3, <2>4, Weaken
  <2>7. Level(sort, x, w, e, e, {Skip})
    BY <2>3, Stay
  <2>8. PartsOf(sort, x, w, g)
    BY <2>2, <2>5, <2>6 DEF PartsOf
  <2> QED
    BY <2>1, <2>5, <2>7, <2>8 DEF e
<1> QED
  BY <1>1, <1>4, <1>5, <1>6, TurnedTracks

LEMMA UntilKeeps ==
  ASSUME Typed, Shaped(sort, stack), Tracked, BeginUntil
  PROVE  Shaped(sort, stack)' /\ Tracked'
<1> DEFINE g == UntilOf(Top)
<1>1. /\ stack # <<>> /\ sort' = sort /\ paths' = paths /\ Top.kind = "do" /\ stack' = Append(Outer, g)
      /\ callSuper' = Popped(Top.cs, callSuper) /\ fieldinit' = PoppedFields(Top.fi, fieldinit)
  BY TurnSteps
<1>2. Top.first = {Skip} /\ Around(Outer) \cap Expressions = {}
  BY <1>1, TopTracks DEF ShapedFrame
<1>3. paths \in SUBSET Effect /\ Chain({Skip}, paths) = paths
  BY <1>1, TopTracks, ChainSkip
<1>4. /\ g \in FrameSet /\ g.kind = "until" /\ g.cs = Top.cs /\ g.fi = Top.fi /\ g.before = Top.before
      /\ g.first = Top.first
  BY <1>1, TopTracks, TurnedFrames, TurnedFields
<1> HIDE DEF g
<1>5. ShapedFrame(sort, Around(Outer), g)
  BY <1>2, <1>4 DEF ShapedFrame
<1>6. ASSUME NEW x \in Watched(sort)
      PROVE  /\ PartsOf(sort, x, Around(Outer) \cup {g.kind}, g)
             /\ Level(sort, x, Around(Outer) \cup {g.kind}, Seen(x, Top.cs, Top.fi), Now(x)', Chain(g.first, paths'))
  <2> DEFINE e == Seen(x, Top.cs, Top.fi)  c == Now(x)
             v == Around(Outer) \cup {"do"}  w == Around(Outer) \cup {"until"}
  <2>1. Now(x)' = e \cup c
    <3>1. Now(x)' = Seen(x, callSuper', fieldinit')
      BY DEF Now, Seen
    <3> QED
      BY <1>1, <3>1, SeenPopped DEF Now
  <2>3. Level(sort, x, v, e, c, paths)
    BY <1>1, <1>2, <1>3, TopTracks
  <2>4. Weaker(w, v)
    BY SameKinds
  <2>5. w = Around(Outer) \cup {g.kind} /\ Chain(g.first, paths') = paths /\ g.kind = "until"
    BY <1>1, <1>2, <1>3, <1>4
  <2> HIDE DEF e, c, v, w
  <2>6. Level(sort, x, v, e, e \cup c, paths)
    BY <1>3, <2>3, PopLevel
  <2> DEFINE d == e \cup c
  <2>7. Level(sort, x, w, e, d, paths)
    <3>1. Level(sort, x, v, e, d, paths)
      BY <2>6
    <3> HIDE DEF d
    <3> QED
      BY <2>4, <3>1, Weaken
  <2>8. PartsOf(sort, x, w, g)
    BY <2>5 DEF PartsOf
  <2> QED
    BY <2>1, <2>5, <2>7, <2>8 DEF e
<1> QED
  BY <1>1, <1>4, <1>5, <1>6, TurnedTracks

\* The frame is finished.
LEMMA PoppedTracks ==
  ASSUME Typed, stack # <<>>, Shaped(sort, stack), Tracked, sort' = sort, stack' = Outer,
         NEW Q \in SUBSET Effect, paths' = Chain(Top.before, Q),
         \A x \in Watched(sort) :
           Level(sort, x, Around(Outer) \cup {Top.kind}, Start(x, Top), Now(x)', Q)
  PROVE  Shaped(sort, stack)' /\ Tracked'
<1>1. Shaped(sort', stack')
  BY TopTracks
<1>2. ASSUME NEW x \in Watched(sort') PROVE Tracks(sort', x, stack', Now(x)', paths')
  <2> DEFINE s == Outer  fr == Top  b == Now(x)  c == Now(x)'
  <2>1. /\ Tracks(sort, x, Append(s, fr), b, paths) /\ s \in Seq(FrameSet) /\ fr \in FrameSet
        /\ Level(sort, x, Around(s) \cup {fr.kind}, Start(x, fr), c, Q)
    BY TopTracks
  <2>2. stack' = s /\ sort' = sort /\ paths' = Chain(fr.before, Q)
    OBVIOUS
  <2> HIDE DEF s, fr, b, c
  <2>3. Tracks(sort, x, s, c, Chain(fr.before, Q))
    BY <2>1, TracksPop
  <2> QED
    BY <2>2, <2>3 DEF c
<1> QED
  BY <1>1, <1>2, Primed

LEMMA MergeSeen ==
  ASSUME Typed, NEW cs, NEW fi, Merge(cs, fi), errors' = {}, NEW x
  PROVE  LET a == Seen(x, Top.cs1, Top.fi1)  b == Seen(x, cs, fi)  m == Now(x)'
         IN  /\ x \notin Fields => MergedCalls(b, a).ok /\ m = MergedCalls(b, a).cs
             /\ x \in Fields => (x \in sort.mustInit => MergedField(b, a).ok) /\ m = MergedField(b, a).fi
<1>1. /\ callSuper' = MergedCalls(cs, Top.cs1).cs /\ fieldinit' = MergedFields(fi, Top.fi1)
      /\ When(~MergedCalls(cs, Top.cs1).ok, "one path skips constructor") = {}
      /\ When(SkippedFields(fi, Top.fi1) # {}, "one path skips field") = {}
  BY DEF Merge
<1>2. MergedCalls(cs, Top.cs1).ok
  BY <1>1 DEF When
<1>3. SkippedFields(fi, Top.fi1) = {}
  BY <1>1 DEF When
<1>4. CASE x \in Fields
  <2>1. Now(x)' = MergedField(fi[x], Top.fi1[x]).fi
    BY <1>1, <1>4 DEF Now, Seen, MergedFields
  <2>2. x \in sort.mustInit => MergedField(fi[x], Top.fi1[x]).ok
    BY <1>3 DEF SkippedFields, MustInit
  <2> QED
    BY <1>4, <2>1, <2>2 DEF Seen
<1>5. CASE x \notin Fields
  BY <1>1, <1>2, <1>5 DEF Now, Seen
<1> QED
  BY <1>4, <1>5

LEMMA EndIfKeeps ==
  ASSUME Typed, Shaped(sort, stack), Tracked, EndIf, errors' = {}
  PROVE  Shaped(sort, stack)' /\ Tracked'
<1> DEFINE Q == Top.second \cup Chain(Top.first, paths)
           cs == Popped(Top.cs, callSuper)  fi == PoppedFields(Top.fi, fieldinit)
<1>1. /\ stack # <<>> /\ Top.kind = "else" /\ sort' = sort /\ stack' = Outer
      /\ paths' = Chain(Top.before, Q) /\ Merge(cs, fi)
  BY DEF EndIf, Inside, Continue
<1>2. Top.second \in SUBSET Effect /\ Top.first \in SUBSET Effect /\ paths \in SUBSET Effect
  BY <1>1, TopTracks, FrameTyped
<1>3. Q \in SUBSET Effect
  BY <1>2, ChainTyped
<1>4. ASSUME NEW x \in Watched(sort)
      PROVE  Level(sort, x, Around(Outer) \cup {Top.kind}, Start(x, Top), Now(x)', Q)
  <2> DEFINE e == Start(x, Top)  c == Now(x)  w == Around(Outer) \cup {Top.kind}
             a == Seen(x, Top.cs1, Top.fi1)  b == Seen(x, cs, fi)  m == Now(x)'
             P == Chain(Top.first, paths)  S == Top.second
  <2>1. Level(sort, x, w, e, c, P) /\ Level(sort, x, w, e, a, S)
    BY <1>1, TopTracks DEF PartsOf
  <2>2. b = e \cup c
    BY <1>1, SeenPopped, TopTracks DEF Now
  <2>3. /\ x \notin Fields => MergedCalls(b, a).ok /\ m = MergedCalls(b, a).cs
        /\ x \in Fields => (x \in sort.mustInit => MergedField(b, a).ok) /\ m = MergedField(b, a).fi
    BY <1>1, MergeSeen
  <2>4. P \in SUBSET Effect
    BY <1>2, ChainTyped
  <2>5. Q = P \cup S
    OBVIOUS
  <2> HIDE DEF e, c, w, a, b, m, P, S, Q
  <2>6. Level(sort, x, w, e, b, P)
    BY <2>1, <2>2, <2>4, PopLevel
  <2>7. Level(sort, x, w, e, m, P \cup S)
    BY <2>1, <2>3, <2>6, MergeLevel
  <2> QED
    BY <2>5, <2>7 DEF e, w, m
<1> HIDE DEF Q
<1> QED
  BY <1>1, <1>3, <1>4, PoppedTracks

LEMMA EndConditionalKeeps ==
  ASSUME Typed, Shaped(sort, stack), Tracked, EndConditional, errors' = {}
  PROVE  Shaped(sort, stack)' /\ Tracked'
<1> DEFINE Q == Top.second \cup paths
<1>1. /\ stack # <<>> /\ Top.kind = "right" /\ sort' = sort /\ stack' = Outer
      /\ paths' = Chain(Top.before, Q) /\ Merge(callSuper, fieldinit)
  BY DEF EndConditional, Inside, Continue
<1>2. /\ Top.second \in SUBSET Effect /\ paths \in SUBSET Effect /\ Top.first = {Skip}
  BY <1>1, TopTracks, FrameTyped DEF ShapedFrame
<1>3. Q \in SUBSET Effect /\ Chain(Top.first, paths) = paths
  BY <1>2, ChainSkip
<1>4. ASSUME NEW x \in Watched(sort)
      PROVE  Level(sort, x, Around(Outer) \cup {Top.kind}, Start(x, Top), Now(x)', Q)
  <2> DEFINE e == Start(x, Top)  w == Around(Outer) \cup {Top.kind}
             a == Seen(x, Top.cs1, Top.fi1)  b == Now(x)  m == Now(x)'  S == Top.second
  <2>1. Level(sort, x, w, e, b, paths) /\ Level(sort, x, w, e, a, S)
    BY <1>1, <1>3, TopTracks DEF PartsOf
  <2>2. /\ x \notin Fields => MergedCalls(b, a).ok /\ m = MergedCalls(b, a).cs
        /\ x \in Fields => (x \in sort.mustInit => MergedField(b, a).ok) /\ m = MergedField(b, a).fi
    BY <1>1, MergeSeen DEF Now
  <2>3. Q = paths \cup S
    OBVIOUS
  <2> HIDE DEF e, w, a, b, m, S, Q
  <2>4. Level(sort, x, w, e, m, paths \cup S)
    BY <2>1, <2>2, MergeLevel
  <2> QED
    BY <2>3, <2>4 DEF e, w, m
<1> HIDE DEF Q
<1> QED
  BY <1>1, <1>3, <1>4, PoppedTracks

LEMMA EndLogicalKeeps ==
  ASSUME Typed, Shaped(sort, stack), Tracked, EndLogical, errors' = {}
  PROVE  Shaped(sort, stack)' /\ Tracked'
<1> DEFINE Q == {Skip} \cup paths
<1>1. /\ stack # <<>> /\ Top.kind = "operand" /\ sort' = sort /\ stack' = Outer
      /\ paths' = Chain(Top.before, Q) /\ callSuper' = MergedCalls(callSuper, Top.cs).cs
      /\ When(~MergedCalls(callSuper, Top.cs).ok, "one path skips constructor") = {}
  BY DEF EndLogical, Inside, Continue
<1>2. paths \in SUBSET Effect /\ Top.first = {Skip} /\ Has(sort, "&&")
  BY <1>1, TopTracks DEF ShapedFrame
<1>3. Q \in SUBSET Effect /\ Chain(Top.first, paths) = paths
  BY <1>2, ChainSkip, SkipLive
<1>4. ASSUME NEW x \in Watched(sort)
      PROVE  Level(sort, x, Around(Outer) \cup {Top.kind}, Start(x, Top), Now(x)', Q)
  <2> DEFINE e == Start(x, Top)  w == Around(Outer) \cup {Top.kind}  b == Now(x)  m == Now(x)'
  <2>0. x \notin Fields
    BY <1>2, WatchedField
  <2>1. Level(sort, x, w, e, b, paths) /\ Fits(sort, x, e)
    BY <1>1, <1>3, TopTracks
  <2>2. e = Top.cs /\ b = callSuper /\ m = callSuper'
    BY <1>1, <2>0, TopTracks DEF Now, Seen
  <2>3. MergedCalls(b, e).ok /\ m = MergedCalls(b, e).cs
    BY <1>1, <2>2 DEF When
  <2>4. Q = paths \cup {Skip}
    OBVIOUS
  <2> HIDE DEF e, w, b, m, Q
  <2>5. Level(sort, x, w, e, e, {Skip})
    BY <2>1, Stay
  <2>6. Level(sort, x, w, e, m, paths \cup {Skip})
    BY <2>0, <2>1, <2>3, <2>5, MergeLevel
  <2> QED
    BY <2>4, <2>6 DEF e, w, m
<1> HIDE DEF Q
<1> QED
  BY <1>1, <1>3, <1>4, PoppedTracks

\* What pop() does to the flags that are seen.
LEMMA PopSeen ==
  ASSUME PopScope, NEW x
  PROVE  Now(x)' = Seen(x, Top.cs, Top.fi) \cup Now(x)
<1>1. Now(x)' = Seen(x, callSuper', fieldinit')
  BY DEF Now, Seen
<1> QED
  BY <1>1, SeenPopped DEF Now, PopScope

LEMMA EndBlockKeeps ==
  ASSUME Typed, Shaped(sort, stack), Tracked, EndBlock
  PROVE  Shaped(sort, stack)' /\ Tracked'
<1>1. /\ stack # <<>> /\ Top.kind \in {"block", "label"} /\ sort' = sort /\ stack' = Outer
      /\ paths' = Chain(Top.before, paths) /\ PopScope
  BY DEF EndBlock, Inside, Continue
<1>2. /\ paths \in SUBSET Effect /\ Top.first = {Skip}
  BY <1>1, TopTracks DEF ShapedFrame
<1>3. Chain(Top.first, paths) = paths
  BY <1>2, ChainSkip
<1>4. ASSUME NEW x \in Watched(sort)
      PROVE  Level(sort, x, Around(Outer) \cup {Top.kind}, Start(x, Top), Now(x)', paths)
  <2> DEFINE e == Start(x, Top)  w == Around(Outer) \cup {Top.kind}  c == Now(x)  m == Now(x)'
             g == Seen(x, Top.cs, Top.fi)
  <2>1. Level(sort, x, w, e, c, paths)
    BY <1>1, <1>3, TopTracks
  <2>2. m = g \cup c
    BY <1>1, PopSeen
  <2>3. e = g \/ e = g \cup {"label"}
    BY DEF Start
  <2> HIDE DEF e, w, c, m, g
  <2>4. Level(sort, x, w, e, g \cup c, paths)
    BY <1>2, <2>1, <2>3, PopLevel
  <2> QED
    BY <2>2, <2>4 DEF e, w, m
<1> QED
  BY <1>1, <1>2, <1>4, PoppedTracks

LEMMA EndLoopKeeps ==
  ASSUME Typed, Shaped(sort, stack), Tracked, EndLoop
  PROVE  Shaped(sort, stack)' /\ Tracked'
<1> DEFINE Q == Runs(Top.kind, paths)
<1>1. /\ stack # <<>> /\ Top.kind \in {"loop", "switch"} /\ sort' = sort /\ stack' = Outer
      /\ paths' = Chain(Top.before, Q) /\ PopScope
  BY DEF EndLoop, Inside, Continue
<1>2. /\ paths \in SUBSET Effect /\ Top.first = {Skip} /\ Around(Outer) \cap Expressions = {}
  BY <1>1, TopTracks DEF ShapedFrame
<1>3. Chain(Top.first, paths) = paths
  BY <1>2, ChainSkip
<1>4. /\ Q \subseteq {Skip} \cup paths \cup Chain(paths, paths)
      /\ {Skip} \cup paths \cup Chain(paths, paths) \in SUBSET Effect
  <2>1. Q \subseteq {Skip} \cup paths \cup Chain(paths, paths)
    BY <1>1 DEF Runs
  <2>2. Skip \in Effect /\ Chain(paths, paths) \in SUBSET Effect
    BY <1>2, SkipLive, ChainTyped
  <2> QED
    BY <1>2, <2>1, <2>2
<1>5. LET w == Around(Outer) \cup {Top.kind} IN Looped(w) /\ ~Quiet(w)
  BY <1>1, <1>2 DEF Looped, Quiet, Loops, Expressions
<1>6. ASSUME NEW x \in Watched(sort)
      PROVE  Level(sort, x, Around(Outer) \cup {Top.kind}, Start(x, Top), Now(x)', Q)
  <2> DEFINE e == Start(x, Top)  w == Around(Outer) \cup {Top.kind}  c == Now(x)  m == Now(x)'
             R == {Skip} \cup paths \cup Chain(paths, paths)
  <2>1. Level(sort, x, w, e, c, paths) /\ Looped(w) /\ ~Quiet(w)
    BY <1>1, <1>3, <1>5, TopTracks
  <2>2. m = e \cup c
    BY <1>1, PopSeen, TopTracks
  <2>3. Q \subseteq R
    BY <1>4
  <2>4. Weaker(w, w)
    BY DEF Weaker
  <2> HIDE DEF e, w, c, m, Q
  <2>5. Level(sort, x, w, e, e \cup c, R)
    BY <1>2, <2>1, LoopLevel
  <2> HIDE DEF R
  <2>6. Level(sort, x, w, e, m, Q)
    BY <2>2, <2>3, <2>4, <2>5, Weaken
  <2> QED
    BY <2>6 DEF e, w, m
<1>7. Q \in SUBSET Effect
  BY <1>4
<1> HIDE DEF Q
<1> QED
  BY <1>1, <1>7, <1>6, PoppedTracks

LEMMA EndDoKeeps ==
  ASSUME Typed, Shaped(sort, stack), Tracked, EndDo
  PROVE  Shaped(sort, stack)' /\ Tracked'
<1> DEFINE Q == paths \cup Chain(paths, paths)
<1>1. /\ stack # <<>> /\ Top.kind = "until" /\ sort' = sort /\ stack' = Outer
      /\ paths' = Chain(Top.before, Runs("until", paths)) /\ callSuper' = callSuper /\ fieldinit' = fieldinit
  BY DEF EndDo, Inside, Continue
<1>2. /\ paths \in SUBSET Effect /\ Top.first = {Skip}
  BY <1>1, TopTracks DEF ShapedFrame
<1>3. Chain(Top.first, paths) = paths /\ Runs("until", paths) = Q
  <2>1. Runs("until", paths) = Q
    BY DEF Runs
  <2> QED
    BY <1>2, <2>1, ChainSkip
<1>4. Q \in SUBSET Effect
  BY <1>2, ChainTyped
<1>5. Still(Around(Outer) \cup {Top.kind})
  BY <1>1 DEF Still
<1>6. ASSUME NEW x \in Watched(sort)
      PROVE  Level(sort, x, Around(Outer) \cup {Top.kind}, Start(x, Top), Now(x)', Q)
  <2> DEFINE e == Start(x, Top)  w == Around(Outer) \cup {Top.kind}  c == Now(x)
  <2>1. Level(sort, x, w, e, c, paths) /\ Still(w)
    BY <1>1, <1>3, <1>5, TopTracks
  <2>2. Now(x)' = c
    BY <1>1 DEF Now, Seen
  <2> HIDE DEF e, w, c
  <2>3. Level(sort, x, w, e, c, Q)
    BY <1>2, <2>1, RepeatLevel
  <2> QED
    BY <2>2, <2>3 DEF e, w
<1>7. paths' = Chain(Top.before, Q)
  BY <1>1, <1>3
<1> HIDE DEF Q
<1> QED
  BY <1>1, <1>4, <1>6, <1>7, PoppedTracks

-----------------------------------------------------------------------------
(* The whole constructor                                                   *)

\* What holds of the flags as long as nothing has been reported.
Good == ~done /\ errors = {} => Shaped(sort, stack) /\ Tracked

LEMMA GoodInit == Init => Good
<1> SUFFICES ASSUME Init PROVE Shaped(sort, stack) /\ Tracked
  BY DEF Good
<1>1. stack = <<>> /\ Len(stack) = 0 /\ 1..Len(stack) = {} /\ stack \in Seq(FrameSet)
  BY DEF Init
<1>2. Shaped(sort, stack)
  BY <1>1 DEF Shaped
<1>3. ASSUME NEW x \in Watched(sort) PROVE Tracks(sort, x, stack, Now(x), paths)
  <2>1. Around(stack) = {} /\ Lead(stack) = {Skip} /\ Entry(x, stack) = {}
    BY <1>1 DEF Around, KindsTo, Lead, LeadTo, Entry, EntryTo
  <2>2. Now(x) = {} /\ paths = {Skip}
    BY DEF Init, Now, Seen
  <2>3. Fits(sort, x, {})
    BY DEF Fits, Fitting, Called, Halted
  <2>4. Chain({Skip}, {Skip}) = {Skip}
    <3>1. {Skip} \in SUBSET Effect
      BY SkipLive
    <3> QED
      BY <3>1, ChainSkip
  <2>5. Level(sort, x, Around(stack), {}, {}, {Skip})
    BY <2>3, Stay
  <2>6. Below(sort, x, stack) /\ Parts(sort, x, stack)
    BY <1>1 DEF Below, Parts
  <2>7. Level(sort, x, Around(stack), Entry(x, stack), Now(x), Chain(Lead(stack), paths))
    BY <2>1, <2>2, <2>4, <2>5
  <2> QED
    BY <2>6, <2>7 DEF Tracks
<1> QED
  BY <1>2, <1>3 DEF Tracked

\* Once the constructor is finished nothing happens.
LEMMA NotDone ==
  ASSUME Next
  PROVE  ~done
  BY DEF Next, Call, Assign, Return, Halt, Throw, Goto, Construct, BeginIf, BeginThen, BeginElse, EndIf,
         BeginLeft, BeginRight, EndConditional, BeginOperand, EndLogical, BeginBlock, BeginLabel, EndBlock,
         BeginLoop, EndLoop, BeginUntil, EndDo, Continue, Finish

\* No error is forgotten.
LEMMA ErrorsStay ==
  ASSUME Next
  PROVE  errors \subseteq errors'
<1>1. ASSUME \/ \E c \in Calls : Call(c)
             \/ \E f \in Fields : Assign(f)
             \/ Return \/ Halt \/ Throw \/ Goto
      PROVE  errors \subseteq errors'
  BY <1>1 DEF Call, Assign, Return, Halt, Throw, Goto
<1>2. ASSUME \/ \E kind \in {"if", "if declared"} : BeginIf(kind)
             \/ BeginThen \/ BeginElse \/ BeginLeft \/ BeginRight \/ BeginOperand
             \/ BeginBlock \/ BeginLabel \/ EndBlock
             \/ \E kind \in Loops : BeginLoop(kind)
             \/ EndLoop \/ BeginUntil \/ EndDo
      PROVE  errors \subseteq errors'
  BY <1>2 DEF BeginIf, BeginThen, BeginElse, BeginLeft, BeginRight, BeginOperand, BeginBlock, BeginLabel,
              EndBlock, BeginLoop, EndLoop, BeginUntil, EndDo, Unchecked
<1>3. ASSUME EndIf \/ EndConditional \/ EndLogical \/ Finish
      PROVE  errors \subseteq errors'
  <2>1. CASE EndIf
    BY <2>1 DEF EndIf, Merge
  <2>2. CASE EndConditional
    BY <2>2 DEF EndConditional, Merge
  <2>3. CASE EndLogical
    BY <2>3 DEF EndLogical
  <2>4. CASE Finish
    BY <2>4 DEF Finish
  <2> QED
    BY <1>3, <2>1, <2>2, <2>3, <2>4
<1> QED
  BY <1>1, <1>2, <1>3 DEF Next

\* A construct without parts.
LEMMA SimpleKeeps ==
  ASSUME Settled, Typed, Shaped(sort, stack), Tracked, errors' = {},
         \/ \E c \in Calls : Call(c)
         \/ \E f \in Fields : Assign(f)
         \/ Return \/ Halt \/ Throw \/ Goto
  PROVE  Shaped(sort, stack)' /\ Tracked'
<1>1. stack' = stack /\ sort' = sort
  BY DEF Call, Assign, Return, Halt, Throw, Goto, Construct
<1>2. Shaped(sort, stack)'
  BY <1>1 DEF Shaped, ShapedFrame, KindsTo
<1>3. ASSUME NEW x \in Watched(sort) PROVE Tracks(sort, x, stack, Now(x), paths)'
  <2>1. Tracks(sort, x, stack, Now(x), paths)
    BY DEF Tracked
  <2>2. ASSUME NEW c \in Calls, Call(c) PROVE Tracks(sort, x, stack, Now(x), paths)'
    BY <2>1, <2>2, CallKeeps
  <2>3. ASSUME NEW f \in Fields, Assign(f) PROVE Tracks(sort, x, stack, Now(x), paths)'
    BY <2>1, <2>3, AssignKeeps
  <2>4. CASE Return
    BY <2>1, <2>4, ReturnKeeps
  <2>5. CASE Halt
    BY <2>1, <2>5, HaltKeeps
  <2>6. CASE Throw \/ Goto
    BY <2>1, <2>6, LeaveKeeps
  <2> QED
    BY <2>2, <2>3, <2>4, <2>5, <2>6
<1>4. Tracked'
  BY <1>1, <1>3 DEF Tracked, Watched
<1> QED
  BY <1>2, <1>4

LEMMA GoodNext ==
  ASSUME Settled, Typed, Good, [Next]_vars
  PROVE  Good'
<1>1. CASE UNCHANGED vars
  <2>1. /\ stack' = stack /\ sort' = sort /\ paths' = paths /\ done' = done /\ errors' = errors
        /\ callSuper' = callSuper /\ fieldinit' = fieldinit /\ ctorinit' = ctorinit /\ noctor' = noctor
    BY <1>1 DEF vars
  <2>2. Shaped(sort, stack) => Shaped(sort, stack)'
    BY <2>1 DEF Shaped, ShapedFrame, KindsTo, Parts, Around
  <2>3. Tracked => Tracked'
    BY <2>1 DEF Tracked, Tracks, Below, Parts, Around, Entry, Lead, Now
  <2> QED
    BY <2>1, <2>2, <2>3 DEF Good
<1>2. CASE Next
  <2>1. ~done /\ errors \subseteq errors'
    BY <1>2, NotDone, ErrorsStay
  <2>2. SUFFICES ASSUME ~done', errors' = {} PROVE Shaped(sort, stack)' /\ Tracked'
    BY DEF Good
  <2>3. Shaped(sort, stack) /\ Tracked
    BY <2>1, <2>2 DEF Good
  <2>4. CASE \/ \E c \in Calls : Call(c)
             \/ \E f \in Fields : Assign(f)
             \/ Return \/ Halt \/ Throw \/ Goto
    BY <2>2, <2>3, <2>4, SimpleKeeps
  <2>5. CASE Begins
    BY <2>3, <2>5, BeginKeeps
  <2>6. CASE BeginThen \/ BeginElse \/ BeginRight \/ BeginUntil
    BY <2>3, <2>6, ThenKeeps, ElseKeeps, RightKeeps, UntilKeeps
  <2>7. CASE Ends
    BY <2>2, <2>3, <2>7, EndIfKeeps, EndConditionalKeeps, EndLogicalKeeps, EndBlockKeeps, EndLoopKeeps, EndDoKeeps
       DEF Ends
  <2>8. CASE Finish
    BY <2>2, <2>8 DEF Finish
  <2> QED
    BY <1>2, <2>4, <2>5, <2>6, <2>7, <2>8, NextCases
<1> QED
  BY <1>1, <1>2

\* What is left of the invariant when no frame is open.
LEMMA AtEnd ==
  ASSUME Typed, Tracked, stack = <<>>, NEW x \in Watched(sort)
  PROVE  Level(sort, x, {}, {}, Now(x), paths)
<1>1. Level(sort, x, Around(stack), Entry(x, stack), Now(x), Chain(Lead(stack), paths))
  BY DEF Tracked, Tracks
<1>2. Len(stack) = 0
  OBVIOUS
<1>3. Around(stack) = {} /\ Lead(stack) = {Skip} /\ Entry(x, stack) = {}
  BY <1>2 DEF Around, KindsTo, Lead, LeadTo, Entry, EntryTo
<1>4. Chain({Skip}, paths) = paths
  BY ChainSkip DEF Typed, Effects
<1> QED
  BY <1>1, <1>3, <1>4

LEMMA CallsAtEnd ==
  ASSUME Typed, Tracked, stack = <<>>
  PROVE  /\ Fitting(sort, callSuper)
         /\ \A p \in paths : /\ p \in Effect
                             /\ p.out = "on" => p \in LiveCalls(sort, callSuper)
                             /\ p.out # "on" => p \in GoneCalls(sort, callSuper)
<1>1. Level(sort, Calling, {}, {}, Now(Calling), paths)
  BY AtEnd DEF Watched
<1>2. CallLevel(sort, {}, {}, callSuper, paths)
  BY <1>1, CallingIsNoField DEF Level, Now, Seen
<1>3. Fitting(sort, callSuper) /\ Moves(LiveCalls(sort, {}), paths, LiveCalls(sort, callSuper), GoneCalls(sort, callSuper))
  BY <1>2 DEF CallLevel
<1>4. Skip \in LiveCalls(sort, {})
  BY SkipLive, SkipFields DEF LiveCalls, Called
<1>5. ASSUME NEW p \in paths
      PROVE  /\ p \in Effect
             /\ p.out = "on" => p \in LiveCalls(sort, callSuper)
             /\ p.out # "on" => p \in GoneCalls(sort, callSuper)
  <2>1. p \in Effect /\ Then(Skip, p) = p
    BY ThenSkip DEF Typed, Effects
  <2> QED
    BY <1>3, <1>4, <2>1 DEF Moves
<1> QED
  BY <1>3, <1>5

LEMMA SetsAtEnd ==
  ASSUME Typed, Tracked, stack = <<>>, NEW f \in Fields, f \in Watched(sort)
  PROVE  \A p \in paths : /\ p \in Effect
                          /\ p.out = "on" => p \in LiveSets(sort, f, fieldinit[f])
                          /\ p.out # "on" => p \in GoneSets(sort, f)
<1>1. Level(sort, f, {}, {}, Now(f), paths)
  BY AtEnd
<1>2. FieldLevel(sort, f, {}, {}, fieldinit[f], paths)
  BY <1>1 DEF Level, Now, Seen
<1>3. Moves(LiveSets(sort, f, {}), paths, LiveSets(sort, f, fieldinit[f]), GoneSets(sort, f))
  BY <1>2 DEF FieldLevel
<1>4. Skip \in LiveSets(sort, f, {})
  BY SkipLive, SkipFields DEF LiveSets
<1>5. ASSUME NEW p \in paths
      PROVE  /\ p \in Effect
             /\ p.out = "on" => p \in LiveSets(sort, f, fieldinit[f])
             /\ p.out # "on" => p \in GoneSets(sort, f)
  <2>1. p \in Effect /\ Then(Skip, p) = p
    BY ThenSkip DEF Typed, Effects
  <2> QED
    BY <1>3, <1>4, <2>1 DEF Moves
<1> QED
  BY <1>5

\* The paths when super() has been inserted before the body.
LEMMA AfterSuper ==
  ASSUME NEW P \in SUBSET Effect, NEW r \in Chain({SuperEffect}, P)
  PROVE  \E p \in P : /\ r.out = p.out /\ r.calls = Cut(1 + p.calls)
                      /\ \A f \in Fields : r.sets[f] = p.sets[f]
<1>1. PICK p \in P : r = Then(SuperEffect, p)
  BY InChain
<1>2. p \in Effect /\ SuperEffect \in Effect /\ Twice(SuperEffect) = 1
  BY SuperEffectFields DEF Twice
<1>3. /\ r.out = p.out /\ r.calls = Cut(SuperEffect.calls + Twice(SuperEffect) * p.calls)
      /\ \A f \in Fields : r.sets[f] = Cut(SuperEffect.sets[f] + Twice(SuperEffect) * p.sets[f])
  BY <1>1, <1>2, SuperEffectFields, ThenFields
<1>4. p.calls \in 0..2 /\ \A f \in Fields : p.sets[f] \in 0..2
  BY <1>2, EffectTyped
<1>5. r.calls = Cut(1 + p.calls)
  BY <1>2, <1>3, <1>4, SuperEffectFields
<1>6. ASSUME NEW f \in Fields PROVE r.sets[f] = p.sets[f]
  <2>1. SuperEffect.sets[f] = 0 /\ p.sets[f] \in 0..2
    BY <1>4, SuperEffectFields
  <2>2. r.sets[f] = Cut(0 + 1 * p.sets[f])
    BY <1>2, <1>3, <2>1
  <2> QED
    BY <2>1, <2>2 DEF Cut
<1> QED
  BY <1>3, <1>5, <1>6

LEMMA FinishConstructs ==
  ASSUME Typed, Tracked, Finish, errors' = {}
  PROVE  ConstructedOnce'
<1>1. stack = <<>> /\ sort' = sort
  BY DEF Finish
<1> DEFINE c == callSuper
<1>2. Fitting(sort, c) /\ \A p \in paths : /\ p \in Effect
                                           /\ p.out = "on" => p \in LiveCalls(sort, c)
                                           /\ p.out # "on" => p \in GoneCalls(sort, c)
  BY <1>1, CallsAtEnd
<1>3. \A p \in paths : p.calls \in 0..2 /\ p.calls <= 1
  BY <1>2, EffectTyped DEF LiveCalls, GoneCalls
<1>4. paths' = IF ImplicitSuper THEN Chain({SuperEffect}, paths) ELSE paths
  BY DEF Finish, SuperEffect
<1>5. paths \in SUBSET Effect
  BY DEF Typed, Effects
<1>6. ASSUME Without({"halt"}) \/ Without({"return", "goto"}), NEW r \in paths', Completes(r)
      PROVE  r.calls <= 1
  <2>1. CASE ~ImplicitSuper
    BY <1>3, <1>4, <1>6, <2>1
  <2>2. CASE ImplicitSuper
    <3>1. "any" \notin c /\ ~Called(c)
      BY <1>2, <2>2 DEF ImplicitSuper, Fitting
    <3>2. PICK p \in paths : r.out = p.out /\ r.calls = Cut(1 + p.calls)
      BY <1>4, <1>5, <1>6, <2>2, AfterSuper
    <3>3. p.calls # 1
      <4>1. CASE p.out = "on"
        <5>1. p \in LiveCalls(sort, c)
          BY <1>2, <4>1
        <5> QED
          BY <1>6, <3>1, <5>1 DEF LiveCalls, Has, Without
      <4>2. CASE p.out = "return"
        <5>1. p \in GoneCalls(sort, c)
          BY <1>2, <4>2
        <5> QED
          BY <1>6, <3>1, <4>2, <5>1 DEF GoneCalls, Has, Without
      <4> QED
        BY <1>6, <3>2, <4>1, <4>2 DEF Completes
    <3>4. p.calls = 0
      BY <1>3, <3>3
    <3> QED
      BY <3>2, <3>4 DEF Cut
  <2> QED
    BY <2>1, <2>2
<1>7. ASSUME HasBase, Without({"goto", "halt"}), NEW r \in paths', Completes(r)
      PROVE  r.calls >= 1
  <2>1. CASE ImplicitSuper
    <3>1. PICK p \in paths : r.calls = Cut(1 + p.calls)
      BY <1>4, <1>5, <1>7, <2>1, AfterSuper
    <3>2. p.calls \in 0..2
      BY <1>3
    <3> QED
      BY <3>1, <3>2 DEF Cut
  <2>2. CASE ~ImplicitSuper
    <3>1. "any" \in c /\ r \in paths
      BY <1>4, <1>7, <2>2 DEF ImplicitSuper
    <3>2. ~Has(sort, "goto") /\ ~Has(sort, "halt")
      BY <1>7 DEF Has, Without
    <3>3. CASE r.out = "on"
      <4>1. ReturnErrors(c) = {}
        BY <2>2, <3>1, <3>3 DEF Finish, FallsThrough
      <4>2. Called(c)
        BY <3>1, <4>1 DEF ReturnErrors, When
      <4>3. r \in LiveCalls(sort, c)
        BY <1>2, <3>1, <3>3
      <4>4. r.calls = 1
        BY <3>2, <4>2, <4>3 DEF LiveCalls
      <4> QED
        BY <4>4
    <3>4. CASE r.out = "return"
      <4>1. r \in GoneCalls(sort, c)
        BY <1>2, <3>1, <3>4
      <4>2. r.calls # 0
        BY <3>1, <3>2, <3>4, <4>1 DEF GoneCalls
      <4> QED
        BY <1>3, <3>1, <4>2
    <3> QED
      BY <1>7, <3>3, <3>4 DEF Completes
  <2> QED
    BY <2>1, <2>2
<1> QED
  BY <1>1, <1>6, <1>7 DEF ConstructedOnce, ConstructedAtMostOnce, ConstructedAtLeastOnce, Without

LEMMA FinishInitializes ==
  ASSUME Typed, Tracked, Finish, errors' = {}
  PROVE  InitializedOnce'
<1>1. stack = <<>> /\ sort' = sort
  BY DEF Finish
<1>2. sort.mustInit \subseteq Fields /\ sort.unassignable \subseteq Fields
  BY SortAssumption DEF Typed, IsSort
<1>3. ASSUME NEW r \in paths', Without({"this", "&&"})
      PROVE  \E p \in paths : r.out = p.out /\ \A f \in Fields : r.sets[f] = p.sets[f]
  <2>1. paths' = IF ImplicitSuper THEN Chain({SuperEffect}, paths) ELSE paths
    BY DEF Finish, SuperEffect
  <2>2. paths \in SUBSET Effect
    BY DEF Typed, Effects
  <2> QED
    BY <1>3, <2>1, <2>2, AfterSuper
<1>4. ASSUME Without({"this", "&&"}), NEW f \in MustInit \cup Unassignable
      PROVE  f \in Fields /\ f \in Watched(sort)
  BY <1>2, <1>4 DEF MustInit, Unassignable, Watched, Has, Without
<1>5. ASSUME Without({"this", "&&", "goto"}), NEW r \in paths', NEW f \in MustInit, Completes(r)
      PROVE  r.sets[f] >= 1
  <2>0. Without({"this", "&&"}) /\ ~Has(sort, "goto") /\ ~Has(sort, "this")
    BY <1>5 DEF Without, Has
  <2>1. f \in Fields /\ f \in Watched(sort) /\ f \in sort.mustInit
    BY <1>4, <2>0 DEF MustInit
  <2>2. PICK p \in paths : r.out = p.out /\ r.sets[f] = p.sets[f]
    BY <1>3, <1>5, <2>0, <2>1
  <2>3. /\ p.out = "on" => p \in LiveSets(sort, f, fieldinit[f])
        /\ p.out # "on" => p \in GoneSets(sort, f)
    BY <1>1, <2>1, SetsAtEnd
  <2>4. CASE p.out = "on"
    <3>1. "this" \notin callSuper
      BY <1>1, <2>0, CallsAtEnd DEF Fitting
    <3>2. UninitializedFields = {}
      BY <3>1 DEF Finish, When
    <3>3. "this" \in fieldinit[f]
      BY <1>5, <3>2 DEF UninitializedFields
    <3> QED
      BY <2>0, <2>1, <2>2, <2>3, <2>4, <3>3 DEF LiveSets
  <2>5. CASE p.out = "return"
    BY <2>0, <2>1, <2>2, <2>3, <2>5 DEF GoneSets
  <2> QED
    BY <1>5, <2>2, <2>4, <2>5 DEF Completes
<1>6. ASSUME Without({"this", "&&"}), NEW r \in paths', NEW f \in Unassignable
      PROVE  r.sets[f] <= 1
  <2>1. f \in Fields /\ f \in Watched(sort) /\ f \in sort.unassignable
    BY <1>4, <1>6 DEF Unassignable
  <2>2. PICK p \in paths : r.out = p.out /\ r.sets[f] = p.sets[f]
    BY <1>3, <1>6, <2>1
  <2>3. /\ p.out = "on" => p \in LiveSets(sort, f, fieldinit[f])
        /\ p.out # "on" => p \in GoneSets(sort, f)
    BY <1>1, <2>1, SetsAtEnd
  <2> QED
    BY <2>1, <2>2, <2>3 DEF LiveSets, GoneSets
<1> QED
  BY <1>1, <1>5, <1>6 DEF InitializedOnce, FieldsInitialized, InitializedAtMostOnce, Without, MustInit, Unassignable

\* The invariant: the flags are right as long as nothing is reported, and at the
\* end the paths are.
Judged == Good /\ (done => ConstructedOnce /\ InitializedOnce)

LEMMA JudgedNext ==
  ASSUME Settled, Typed, Judged, [Next]_vars
  PROVE  Judged'
<1>1. Good'
  BY GoodNext DEF Judged
<1>2. CASE UNCHANGED vars
  <2>1. (done => ConstructedOnce /\ InitializedOnce)'
    BY <1>2 DEF vars, Judged, ConstructedOnce, ConstructedAtMostOnce, ConstructedAtLeastOnce, InitializedOnce,
                FieldsInitialized, InitializedAtMostOnce, Accepted, Without, MustInit, Unassignable
  <2> QED
    BY <1>1, <2>1 DEF Judged
<1>3. CASE Next
  <2>1. ~done /\ errors \subseteq errors'
    BY <1>3, NotDone, ErrorsStay
  <2>2. ASSUME done' PROVE ConstructedOnce' /\ InitializedOnce'
    <3>1. CASE errors' # {}
      BY <3>1 DEF ConstructedOnce, ConstructedAtMostOnce, ConstructedAtLeastOnce, InitializedOnce,
                  FieldsInitialized, InitializedAtMostOnce, Accepted
    <3>2. CASE errors' = {}
      <4>1. Tracked
        BY <2>1, <3>2 DEF Judged, Good
      <4>2. Finish
        BY <1>3, <2>1, <2>2 DEF Next, Call, Assign, Return, Halt, Throw, Goto, Construct, BeginIf, BeginThen,
             BeginElse, EndIf, BeginLeft, BeginRight, EndConditional, BeginOperand, EndLogical, BeginBlock,
             BeginLabel, EndBlock, BeginLoop, EndLoop, BeginUntil, EndDo, Continue
      <4> QED
        BY <3>2, <4>1, <4>2, FinishConstructs, FinishInitializes
    <3> QED
      BY <3>1, <3>2
  <2> QED
    BY <1>1, <2>2 DEF Judged
<1> QED
  BY <1>2, <1>3

\* In every constructor that the analysis accepts, whatever it is made of, the
\* paths agree with the flags.
THEOREM FlowJudged ==
  ASSUME Settled
  PROVE  Spec => [](Typed /\ Judged)
<1>1. Init => Typed /\ Judged
  BY TypedInit, GoodInit DEF Init, Judged
<1>2. Typed /\ Judged /\ [Next]_vars => Typed' /\ Judged'
  BY TypedNext, JudgedNext
<1> QED
  BY <1>1, <1>2, PTL DEF Spec

\* No path of an accepted constructor calls a constructor twice, and none that
\* completes leaves the base class unconstructed (mergeCallSuper(), dscope.cpp).
THEOREM BasesConstructedOnce ==
  ASSUME Settled
  PROVE  Spec => []ConstructedOnce
<1>1. Typed /\ Judged => ConstructedOnce
  <2> SUFFICES ASSUME Typed, Judged PROVE ConstructedOnce
    OBVIOUS
  <2>1. CASE done
    BY <2>1 DEF Judged
  <2>2. CASE ~done
    BY <2>2 DEF ConstructedOnce, ConstructedAtMostOnce, ConstructedAtLeastOnce, Accepted
  <2> QED
    BY <2>1, <2>2
<1>2. Spec => [](Typed /\ Judged)
  BY FlowJudged
<1> QED
  BY <1>1, <1>2, PTL

\* Every path of an accepted constructor that completes has initialised the
\* fields that need it, and none a const field twice (mergeFieldInit()).
THEOREM FieldsInitializedOnce ==
  ASSUME Settled
  PROVE  Spec => []InitializedOnce
<1>1. Typed /\ Judged => InitializedOnce
  <2> SUFFICES ASSUME Typed, Judged PROVE InitializedOnce
    OBVIOUS
  <2>1. CASE done
    BY <2>1 DEF Judged
  <2>2. CASE ~done
    BY <2>2 DEF InitializedOnce, FieldsInitialized, InitializedAtMostOnce, Accepted
  <2> QED
    BY <2>1, <2>2
<1>2. Spec => [](Typed /\ Judged)
  BY FlowJudged
<1> QED
  BY <1>1, <1>2, PTL

-----------------------------------------------------------------------------
(***************************************************************************)
(* What is reported is true.  The sets LiveCalls and LiveSets bound the    *)
(* paths from above; for a report to be justified there must be paths that *)
(* do what the flags say.  Where something is reported, or would be at the *)
(* end whatever follows, the paths to that place are `doomed': they have   *)
(* already, or will have, a path that is wrong.                            *)
(***************************************************************************)
\* How the paths of N end.
GoesOn(N) == \E p \in N : p.out = "on"
AllOn(N) == \A p \in N : p.out = "on"
Mild(N) == \A p \in N : p.out \in {"on", "return"}

\* Constructors that leave by a return only; where what is in a loop may run again.
Straight(so) == ~Has(so, "throw") /\ ~Has(so, "halt") /\ ~Has(so, "goto")
Direct(so) == Straight(so) /\ ~Has(so, "switch")

\* A path of N is wrong already: it calls twice, or has returned without a call
\* that others make, or has got here without one that others have made.
DoomedCalls(N) ==
    \/ \E p \in N : p.calls > 1
    \/ \E p, q \in N : p.out = "return" /\ p.calls = 0 /\ q.calls > 0
    \/ \E p, q \in N : p.out = "on" /\ p.calls = 0 /\ q.out = "on" /\ q.calls > 0

\* What the flags c claim is done by some path of N, and what they miss is missed.
GoodCalls(c, N) ==
    /\ "any" \in c <=> \E p \in N : p.calls > 0
    /\ \A p \in N : p.out = "on" => (p.calls > 0 <=> Called(c))
    /\ "return" \notin c => GoesOn(N)
    /\ "return" \in c /\ "any" \notin c => \E p \in N : p.out = "return" /\ p.calls = 0
    /\ "return" \in c /\ "any" \in c => Called(c) /\ ~GoesOn(N)

\* The same of the field f.
DoomedSets(so, f, N) ==
    \/ \E p \in N : p.sets[f] > 1
    \/ /\ f \in so.mustInit
       /\ \/ \E p \in N : p.out = "return" /\ p.sets[f] = 0
          \/ \E p, q \in N : p.out = "on" /\ p.sets[f] = 0 /\ q.out = "on" /\ q.sets[f] > 0
          \/ \E p \in N : p.out = "on" /\ p.again /\ p.sets[f] = 0

GoodSets(so, f, c, N) ==
    /\ "return" \in c <=> ~GoesOn(N)
    /\ "this" \in c /\ GoesOn(N) => \E p \in N : p.out = "on" /\ p.sets[f] > 0
    /\ "label" \in c /\ GoesOn(N) => \E p \in N : p.out = "on" /\ p.again
    /\ f \in so.mustInit /\ "this" \notin c =>
          \E p \in N : p.sets[f] = 0 /\ p.out = IF GoesOn(N) THEN "on" ELSE "return"

\* For a field that nothing has been assigned to, this() must have been called.
GoodNever(c, cs, N) ==
    /\ "this" \in c => "this" \in cs
    /\ "return" \in cs => "this" \in cs /\ ~GoesOn(N)

\* The flags fit the paths N from the beginning, as far as calls or a field x are
\* concerned, unless one of the paths is wrong already.
Fair(so, x, set, cs, fi, N) ==
    /\ "halt" \notin cs /\ (Called(cs) => "any" \in cs)
    /\ x \notin Fields => DoomedCalls(N) \/ GoodCalls(cs, N)
    /\ x \in Fields => /\ "halt" \notin fi[x]
                       /\ \/ DoomedSets(so, x, N)
                          \/ /\ GoodSets(so, x, fi[x], N)
                             /\ x \in so.mustInit \ set => GoodNever(fi[x], cs, N)

Doomed(so, x, N) == IF x \in Fields THEN DoomedSets(so, x, N) ELSE DoomedCalls(N)

-----------------------------------------------------------------------------
(* Paths that follow each other                                            *)

LEMMA ThenCounts ==
  ASSUME NEW p \in Effect, NEW q \in Effect
  PROVE  /\ p.out # "on" => Then(p, q) = p
         /\ p.out = "on" =>
              /\ Then(p, q).out = q.out /\ Then(p, q).again = (p.again \/ q.again)
              /\ Then(p, q).calls > 0 <=> p.calls > 0 \/ q.calls > 0
              /\ Then(p, q).calls > 1 <=> \/ p.calls > 1 \/ q.calls > 1
                                          \/ ((p.calls > 0 \/ p.again) /\ q.calls > 0)
              /\ \A f \in Fields :
                   /\ Then(p, q).sets[f] > 0 <=> p.sets[f] > 0 \/ q.sets[f] > 0
                   /\ Then(p, q).sets[f] > 1 <=> \/ p.sets[f] > 1 \/ q.sets[f] > 1
                                                 \/ ((p.sets[f] > 0 \/ p.again) /\ q.sets[f] > 0)
<1>1. ASSUME NEW a \in 0..2, NEW b \in 0..2
      PROVE  LET t == Cut(a + Twice(p) * b)
             IN  /\ t > 0 <=> a > 0 \/ b > 0
                 /\ t > 1 <=> a > 1 \/ b > 1 \/ ((a > 0 \/ p.again) /\ b > 0)
  <2>1. CASE p.again
    <3>1. Twice(p) = 2
      BY <2>1 DEF Twice
    <3> QED
      BY <2>1, <3>1 DEF Cut
  <2>2. CASE ~p.again
    <3>1. Twice(p) = 1
      BY <2>2 DEF Twice
    <3> QED
      BY <2>2, <3>1 DEF Cut
  <2> QED
    BY <2>1, <2>2
<1>2. /\ p.calls \in 0..2 /\ q.calls \in 0..2
      /\ \A f \in Fields : p.sets[f] \in 0..2 /\ q.sets[f] \in 0..2
  BY EffectTyped
<1>3. CASE p.out = "on"
  <2>1. /\ Then(p, q).out = q.out /\ Then(p, q).again = (p.again \/ q.again)
        /\ Then(p, q).calls = Cut(p.calls + Twice(p) * q.calls)
        /\ \A f \in Fields : Then(p, q).sets[f] = Cut(p.sets[f] + Twice(p) * q.sets[f])
    BY <1>3, ThenFields
  <2>2. /\ Then(p, q).calls > 0 <=> p.calls > 0 \/ q.calls > 0
        /\ Then(p, q).calls > 1 <=> \/ p.calls > 1 \/ q.calls > 1
                                    \/ ((p.calls > 0 \/ p.again) /\ q.calls > 0)
    BY <1>1, <1>2, <2>1
  <2>3. ASSUME NEW f \in Fields
        PROVE /\ Then(p, q).sets[f] > 0 <=> p.sets[f] > 0 \/ q.sets[f] > 0
              /\ Then(p, q).sets[f] > 1 <=> \/ p.sets[f] > 1 \/ q.sets[f] > 1
                                            \/ ((p.sets[f] > 0 \/ p.again) /\ q.sets[f] > 0)
    BY <1>1, <1>2, <2>1
  <2> QED
    BY <1>3, <2>1, <2>2, <2>3
<1>4. CASE p.out # "on"
  BY <1>4, ThenFields
<1> QED
  BY <1>3, <1>4

\* No count is negative.
LEMMA Counted ==
  ASSUME NEW p \in Effect
  PROVE  /\ p.calls = 0 <=> ~(p.calls > 0)
         /\ p.calls > 1 => p.calls > 0
         /\ \A f \in Fields : /\ p.sets[f] = 0 <=> ~(p.sets[f] > 0)
                              /\ p.sets[f] > 1 => p.sets[f] > 0
         /\ p.again \in BOOLEAN
<1>1. p.calls \in 0..2 /\ p.again \in BOOLEAN /\ \A f \in Fields : p.sets[f] \in 0..2
  BY EffectTyped
<1> QED
  BY <1>1

LEMMA ChainOn ==
  ASSUME NEW A \in SUBSET Effect, NEW P \in SUBSET Effect
  PROVE  /\ GoesOn(Chain(A, P)) <=> GoesOn(A) /\ GoesOn(P)
         /\ Mild(A) /\ Mild(P) => Mild(Chain(A, P))
         /\ AllOn(A) /\ AllOn(P) => AllOn(Chain(A, P))
<1>1. \A p \in A, q \in P : Then(p, q).out = IF p.out = "on" THEN q.out ELSE p.out
  BY ThenCounts
<1>2. \A r : r \in Chain(A, P) <=> \E p \in A, q \in P : r = Then(p, q)
  BY InChain
<1> QED
  BY <1>1, <1>2 DEF GoesOn, Mild, AllOn

\* What is doomed stays so, whatever follows and whatever else there is.
LEMMA DoomedStays ==
  ASSUME NEW so, NEW x, NEW A \in SUBSET Effect, NEW P \in SUBSET Effect, P # {}, Mild(P), Doomed(so, x, A)
  PROVE  Doomed(so, x, Chain(A, P))
<1>1. PICK r \in P : r \in Effect /\ r.out \in {"on", "return"}
  BY DEF Mild
<1>2. \A p \in A : Then(p, r) \in Chain(A, P)
  BY <1>1, InChain
<1>3. \A p \in A : p \in Effect /\ Then(p, r) \in Effect
  BY <1>1, ThenFields
<1>4. CASE x \notin Fields
  <2>0. DoomedCalls(A)
    BY <1>4 DEF Doomed
  <2>1. ASSUME NEW p \in A, p.calls > 1 PROVE Then(p, r).calls > 1
    BY <1>1, <1>3, <2>1, ThenCounts
  <2>2. ASSUME NEW p \in A, NEW q \in A, p.out = "return", p.calls = 0, q.calls > 0
        PROVE  Then(p, r).out = "return" /\ Then(p, r).calls = 0 /\ Then(q, r).calls > 0
    BY <1>1, <1>3, <2>2, ThenCounts
  <2>3. ASSUME NEW p \in A, NEW q \in A, p.out = "on", p.calls = 0, q.out = "on", q.calls > 0
        PROVE  \/ Then(q, r).calls > 1
               \/ Then(p, r).calls = 0 /\ Then(q, r).calls > 0 /\ Then(p, r).out = r.out /\ Then(q, r).out = r.out
    BY <1>1, <1>3, <2>3, ThenCounts, Counted
  <2>4. DoomedCalls(Chain(A, P))
    <3>1. CASE \E p \in A : p.calls > 1
      BY <1>2, <2>1, <3>1 DEF DoomedCalls
    <3>2. CASE \E p, q \in A : p.out = "return" /\ p.calls = 0 /\ q.calls > 0
      BY <1>2, <2>2, <3>2 DEF DoomedCalls
    <3>3. CASE \E p, q \in A : p.out = "on" /\ p.calls = 0 /\ q.out = "on" /\ q.calls > 0
      <4>1. PICK p \in A, q \in A : p.out = "on" /\ p.calls = 0 /\ q.out = "on" /\ q.calls > 0
        BY <3>3
      <4> QED
        BY <1>1, <1>2, <2>3, <4>1 DEF DoomedCalls
    <3> QED
      BY <2>0, <3>1, <3>2, <3>3 DEF DoomedCalls
  <2> QED
    BY <1>4, <2>4 DEF Doomed
<1>5. CASE x \in Fields
  <2>0. DoomedSets(so, x, A)
    BY <1>5 DEF Doomed
  <2>1. ASSUME NEW p \in A, p.sets[x] > 1 PROVE Then(p, r).sets[x] > 1
    BY <1>1, <1>3, <1>5, <2>1, ThenCounts
  <2>2. ASSUME NEW p \in A, p.out = "return", p.sets[x] = 0
        PROVE  Then(p, r).out = "return" /\ Then(p, r).sets[x] = 0
    BY <1>1, <1>3, <2>2, ThenCounts
  <2>3. ASSUME NEW p \in A, NEW q \in A, p.out = "on", p.sets[x] = 0, q.out = "on", q.sets[x] > 0
        PROVE  \/ Then(q, r).sets[x] > 1
               \/ /\ Then(p, r).sets[x] = 0 /\ Then(q, r).sets[x] > 0
                  /\ Then(p, r).out = r.out /\ Then(q, r).out = r.out
    BY <1>1, <1>3, <1>5, <2>3, ThenCounts, Counted
  <2>4. ASSUME NEW p \in A, p.out = "on", p.again, p.sets[x] = 0
        PROVE  \/ Then(p, r).sets[x] > 1
               \/ Then(p, r).sets[x] = 0 /\ Then(p, r).again /\ Then(p, r).out = r.out
    BY <1>1, <1>3, <1>5, <2>4, ThenCounts, Counted
  <2>5. DoomedSets(so, x, Chain(A, P))
    <3>1. CASE \E p \in A : p.sets[x] > 1
      BY <1>2, <2>1, <3>1 DEF DoomedSets
    <3>2. CASE x \in so.mustInit /\ \E p \in A : p.out = "return" /\ p.sets[x] = 0
      BY <1>2, <2>2, <3>2 DEF DoomedSets
    <3>3. CASE x \in so.mustInit /\ \E p, q \in A : p.out = "on" /\ p.sets[x] = 0 /\ q.out = "on" /\ q.sets[x] > 0
      <4>1. PICK p \in A, q \in A : p.out = "on" /\ p.sets[x] = 0 /\ q.out = "on" /\ q.sets[x] > 0
        BY <3>3
      <4> QED
        BY <1>1, <1>2, <2>3, <3>3, <4>1 DEF DoomedSets
    <3>4. CASE x \in so.mustInit /\ \E p \in A : p.out = "on" /\ p.again /\ p.sets[x] = 0
      <4>1. PICK p \in A : p.out = "on" /\ p.again /\ p.sets[x] = 0
        BY <3>4
      <4> QED
        BY <1>1, <1>2, <2>4, <3>4, <4>1 DEF DoomedSets
    <3> QED
      BY <2>0, <3>1, <3>2, <3>3, <3>4 DEF DoomedSets
  <2> QED
    BY <1>5, <2>5 DEF Doomed
<1> QED
  BY <1>4, <1>5

LEMMA DoomedMore ==
  ASSUME NEW so, NEW x, NEW A, NEW B, A \subseteq B, Doomed(so, x, A)
  PROVE  Doomed(so, x, B)
<1>1. CASE x \notin Fields
  BY <1>1 DEF Doomed, DoomedCalls
<1>2. CASE x \in Fields
  BY <1>2 DEF Doomed, DoomedSets
<1> QED
  BY <1>1, <1>2

\* Doomed or not, what Fair says.
LEMMA FairCases ==
  ASSUME NEW so, NEW x, NEW set, NEW cs, NEW fi, NEW N
  PROVE  Fair(so, x, set, cs, fi, N) <=>
           /\ "halt" \notin cs /\ (Called(cs) => "any" \in cs)
           /\ x \in Fields => "halt" \notin fi[x]
           /\ \/ Doomed(so, x, N)
              \/ x \notin Fields /\ GoodCalls(cs, N)
              \/ /\ x \in Fields /\ GoodSets(so, x, fi[x], N)
                 /\ x \in so.mustInit \ set => GoodNever(fi[x], cs, N)
  BY DEF Fair, Doomed

\* What there is on a path before P there is after P.
LEMMA ChainHas ==
  ASSUME NEW A \in SUBSET Effect, NEW P \in SUBSET Effect, P # {}
  PROVE  LET N == Chain(A, P)
         IN  /\ (\E p \in A : p.calls > 0) => \E r \in N : r.calls > 0
             /\ (\E p \in A : p.out = "return" /\ p.calls = 0) => \E r \in N : r.out = "return" /\ r.calls = 0
             /\ \A r \in N : r.out = "on" => \E p \in A : p.out = "on" /\ (p.calls > 0 => r.calls > 0)
             /\ GoesOn(N) =>
                  /\ (\E p \in A : p.out = "on" /\ p.again) => \E r \in N : r.out = "on" /\ r.again
                  /\ \A f \in Fields : (\E p \in A : p.out = "on" /\ p.sets[f] > 0) =>
                                         \E r \in N : r.out = "on" /\ r.sets[f] > 0
<1> DEFINE N == Chain(A, P)
<1>1. \A r : r \in N <=> \E p \in A, q \in P : r = Then(p, q)
  BY InChain
<1>2. PICK q0 \in P : q0 \in Effect
  OBVIOUS
<1>3. GoesOn(N) => \E q \in P : q.out = "on"
  BY ChainOn DEF GoesOn
<1> HIDE DEF N
<1>4. (\E p \in A : p.calls > 0) => \E r \in N : r.calls > 0
  BY <1>1, <1>2, ThenCounts
<1>5. (\E p \in A : p.out = "return" /\ p.calls = 0) => \E r \in N : r.out = "return" /\ r.calls = 0
  BY <1>1, <1>2, ThenCounts
<1>6. ASSUME NEW r \in N, r.out = "on" PROVE \E p \in A : p.out = "on" /\ (p.calls > 0 => r.calls > 0)
  <2>1. PICK p \in A, q \in P : r = Then(p, q)
    BY <1>1
  <2> QED
    BY <1>6, <2>1, ThenCounts
<1>7. ASSUME GoesOn(N), NEW p \in A, p.out = "on", p.again PROVE \E r \in N : r.out = "on" /\ r.again
  <2>1. PICK q \in P : q.out = "on"
    BY <1>3, <1>7
  <2>2. Then(p, q).out = q.out /\ Then(p, q).again = (p.again \/ q.again)
    BY <1>7, ThenCounts
  <2>3. Then(p, q).again
    BY <1>7, <2>2
  <2> QED
    BY <1>1, <2>1, <2>2, <2>3
<1>8. ASSUME GoesOn(N), NEW f \in Fields, NEW p \in A, p.out = "on", p.sets[f] > 0
      PROVE  \E r \in N : r.out = "on" /\ r.sets[f] > 0
  <2>1. PICK q \in P : q.out = "on"
    BY <1>3, <1>8
  <2> QED
    BY <1>1, <1>8, <2>1, ThenCounts
<1> QED
  BY <1>4, <1>5, <1>6, <1>7, <1>8 DEF N

\* The flags of the enclosing scope are added at the end of a scope.
LEMMA GoodCallsPop ==
  ASSUME NEW e, NEW c, NEW A \in SUBSET Effect, NEW P \in SUBSET Effect, P # {}, GoesOn(A),
         Called(e) => "any" \in e, Called(c) => "any" \in c,
         GoodCalls(e, A), GoodCalls(c, Chain(A, P))
  PROVE  DoomedCalls(Chain(A, P)) \/ GoodCalls(e \cup c, Chain(A, P))
<1> DEFINE N == Chain(A, P)
<1>1. /\ (\E p \in A : p.calls > 0) => \E r \in N : r.calls > 0
      /\ (\E p \in A : p.out = "return" /\ p.calls = 0) => \E r \in N : r.out = "return" /\ r.calls = 0
      /\ \A r \in N : r.out = "on" => \E p \in A : p.out = "on" /\ (p.calls > 0 => r.calls > 0)
  <2> HIDE DEF N
  <2>1. N = Chain(A, P)
    BY DEF N
  <2>2. (\E p \in A : p.calls > 0) => \E r \in N : r.calls > 0
    BY <2>1, ChainHas
  <2>3. ASSUME NEW p \in A, p.out = "return", p.calls = 0
        PROVE  \E r \in N : r.out = "return" /\ r.calls = 0
    <3>1. PICK q \in P : TRUE
      OBVIOUS
    <3>2. Then(p, q) = p
      BY <2>3, ThenFields
    <3>3. p \in N
      BY <2>1, <3>2, InChain
    <3> QED
      BY <2>3, <3>3
  <2>4. \A r \in N : r.out = "on" => \E p \in A : p.out = "on" /\ (p.calls > 0 => r.calls > 0)
    BY <2>1, ChainHas
  <2> QED
    BY <2>2, <2>3, <2>4
<1>2. GoodCalls(c, N)
  OBVIOUS
<1> HIDE DEF N
<1> SUFFICES ASSUME ~DoomedCalls(N) PROVE GoodCalls(e \cup c, N)
  BY DEF N
<1>3. Called(e \cup c) <=> Called(e) \/ Called(c)
  BY DEF Called
<1>4. \A y : y \in e \cup c <=> y \in e \/ y \in c
  OBVIOUS
<1>5. "any" \in e \cup c <=> \E p \in N : p.calls > 0
  BY <1>1, <1>2, <1>4 DEF GoodCalls
<1>6. \A p \in N : p.out = "on" => (p.calls > 0 <=> Called(e \cup c))
  BY <1>1, <1>2, <1>3 DEF GoodCalls
<1>7. "return" \in e => "any" \notin e /\ \E r \in N : r.out = "return" /\ r.calls = 0
  BY <1>1 DEF GoodCalls
<1>8. ~("return" \in e /\ "any" \in c)
  BY <1>2, <1>7 DEF GoodCalls, DoomedCalls
<1>9. "any" \in e => "any" \in c
  BY <1>1, <1>2 DEF GoodCalls
<1>10. "return" \in e \cup c /\ "any" \in e \cup c => Called(e \cup c) /\ ~GoesOn(N)
  BY <1>2, <1>3, <1>4, <1>7, <1>8, <1>9 DEF GoodCalls
<1>11. "return" \in e \cup c /\ "any" \notin e \cup c => \E p \in N : p.out = "return" /\ p.calls = 0
  BY <1>2, <1>4, <1>7 DEF GoodCalls
<1>12. "return" \notin e \cup c => GoesOn(N)
  BY <1>2, <1>4 DEF GoodCalls
<1> QED
  BY <1>5, <1>6, <1>10, <1>11, <1>12 DEF GoodCalls

LEMMA GoodSetsPop ==
  ASSUME NEW so, NEW f \in Fields, NEW e, NEW c, NEW A \in SUBSET Effect, NEW P \in SUBSET Effect, P # {}, GoesOn(A),
         GoodSets(so, f, e, A), GoodSets(so, f, c, Chain(A, P))
  PROVE  GoodSets(so, f, e \cup c, Chain(A, P))
<1> DEFINE N == Chain(A, P)
<1>1. GoesOn(N) =>
        /\ (\E p \in A : p.out = "on" /\ p.again) => \E r \in N : r.out = "on" /\ r.again
        /\ (\E p \in A : p.out = "on" /\ p.sets[f] > 0) => \E r \in N : r.out = "on" /\ r.sets[f] > 0
  BY ChainHas
<1>2. GoodSets(so, f, c, N)
  OBVIOUS
<1> HIDE DEF N
<1>3. "return" \notin e
  BY DEF GoodSets
<1>4. \A y : y \in e \cup c <=> y \in e \/ y \in c
  OBVIOUS
<1>5. "return" \in e \cup c <=> ~GoesOn(N)
  BY <1>2, <1>3 DEF GoodSets
<1>6. "this" \in e \cup c /\ GoesOn(N) => \E p \in N : p.out = "on" /\ p.sets[f] > 0
  BY <1>1, <1>2, <1>4 DEF GoodSets
<1>7. "label" \in e \cup c /\ GoesOn(N) => \E p \in N : p.out = "on" /\ p.again
  BY <1>1, <1>2, <1>4 DEF GoodSets
<1>8. f \in so.mustInit /\ "this" \notin e \cup c =>
        \E p \in N : p.sets[f] = 0 /\ p.out = IF GoesOn(N) THEN "on" ELSE "return"
  BY <1>2, <1>4 DEF GoodSets
<1>9. GoodSets(so, f, e \cup c, N)
  BY <1>5, <1>6, <1>7, <1>8 DEF GoodSets
<1> QED
  BY <1>9 DEF N

LEMMA FairPop ==
  ASSUME NEW so, NEW x, NEW set, NEW es, NEW ei, NEW cs, NEW ci,
         NEW A \in SUBSET Effect, NEW P \in SUBSET Effect, P # {}, Mild(P), GoesOn(A),
         Fair(so, x, set, es, ei, A), Fair(so, x, set, cs, ci, Chain(A, P))
  PROVE  Fair(so, x, set, Popped(es, cs), PoppedFields(ei, ci), Chain(A, P))
<1> DEFINE N == Chain(A, P)  us == Popped(es, cs)  ui == PoppedFields(ei, ci)
<1>1. us = es \cup cs /\ (x \in Fields => ui[x] = ei[x] \cup ci[x])
  BY DEF Popped, PoppedFields
<1>2. "halt" \notin us /\ (Called(us) => "any" \in us) /\ (x \in Fields => "halt" \notin ui[x])
  BY <1>1 DEF Fair, Called
<1>3. /\ Called(es) => "any" \in es
      /\ Called(cs) => "any" \in cs
  BY DEF Fair
<1>4. CASE Doomed(so, x, A)
  <2>1. Doomed(so, x, N)
    BY <1>4, DoomedStays
  <2> QED
    BY <1>2, <2>1, FairCases
<1>5. CASE Doomed(so, x, N)
  BY <1>2, <1>5, FairCases
<1>6. CASE ~Doomed(so, x, A) /\ ~Doomed(so, x, N) /\ x \notin Fields
  <2>1. GoodCalls(es, A) /\ GoodCalls(cs, N)
    BY <1>6, FairCases
  <2>2. DoomedCalls(N) \/ GoodCalls(us, N)
    BY <1>1, <1>3, <2>1, GoodCallsPop
  <2> QED
    BY <1>2, <1>6, <2>2, FairCases DEF Doomed
<1>7. CASE ~Doomed(so, x, A) /\ ~Doomed(so, x, N) /\ x \in Fields
  <2>1. GoodSets(so, x, ei[x], A) /\ GoodSets(so, x, ci[x], N)
    BY <1>7, FairCases
  <2>2. GoodSets(so, x, ui[x], N)
    BY <1>1, <1>7, <2>1, GoodSetsPop
  <2>3. ASSUME x \in so.mustInit \ set PROVE GoodNever(ui[x], us, N)
    <3>1. GoodNever(ei[x], es, A) /\ GoodNever(ci[x], cs, N)
      BY <1>7, <2>3, FairCases
    <3>2. "return" \notin es
      BY <3>1 DEF GoodNever
    <3> HIDE DEF N, us, ui
    <3> QED
      BY <1>1, <1>7, <3>1, <3>2 DEF GoodNever
  <2> QED
    BY <1>2, <1>7, <2>2, <2>3, FairCases
<1> QED
  BY <1>4, <1>5, <1>6, <1>7

LEMMA GoesOnUnion ==
  ASSUME NEW A, NEW B
  PROVE  /\ GoesOn(A \cup B) <=> GoesOn(A) \/ GoesOn(B)
         /\ Mild(A \cup B) <=> Mild(A) /\ Mild(B)
         /\ AllOn(A \cup B) <=> AllOn(A) /\ AllOn(B)
  BY DEF GoesOn, Mild, AllOn

\* The cases of mergeCallSuper() without assert(0).
LEMMA MergedCases ==
  ASSUME NEW a, NEW b, "halt" \notin a, "halt" \notin b
  PROVE  LET m == MergedCalls(b, a)
         IN  \/ a = b /\ m.cs = b /\ m.ok
             \/ (Skips(a, b) \/ Skips(b, a)) /\ m.cs = b /\ ~m.ok
             \/ Returned(a) /\ Called(a) /\ ~Skips(b, a) /\ m.cs = b \cup Kept(a) /\ m.ok
             \/ Returned(b) /\ Called(b) /\ ~Skips(a, b) /\ m.cs = a \cup Kept(b) /\ m.ok
             \/ /\ ~Skips(a, b) /\ ~Skips(b, a)
                /\ ~(Returned(a) /\ Called(a)) /\ ~(Returned(b) /\ Called(b))
                /\ m.ok <=> (Called(a) <=> Called(b))
                /\ \A y : y \in m.cs <=> (y \in b \cup Kept(a) \/ (y = "return" /\ m.ok /\ "return" \in a /\ "any" \notin a))
<1>1. ~Halted(a) /\ ~Halted(b)
  BY DEF Halted
<1>2. CASE a = b
  BY <1>2 DEF MergedCalls
<1>3. CASE a # b /\ (Skips(a, b) \/ Skips(b, a))
  BY <1>1, <1>3 DEF MergedCalls
<1>4. CASE a # b /\ ~(Skips(a, b) \/ Skips(b, a)) /\ Returned(a) /\ Called(a)
  BY <1>1, <1>4 DEF MergedCalls
<1>5. CASE a # b /\ ~(Skips(a, b) \/ Skips(b, a)) /\ ~(Returned(a) /\ Called(a)) /\ Returned(b) /\ Called(b)
  BY <1>1, <1>5 DEF MergedCalls
<1>6. CASE a # b /\ ~(Skips(a, b) \/ Skips(b, a)) /\ ~(Returned(a) /\ Called(a)) /\ ~(Returned(b) /\ Called(b))
  <2>1. MergedCalls(b, a) = BothGoOn(b, a)
    BY <1>1, <1>6 DEF MergedCalls
  <2> DEFINE ok == Called(a) = Called(b)
             r == {z \in {"return"} : ok /\ z \in a /\ "any" \notin a}
  <2>2. BothGoOn(b, a) = [cs |-> b \cup Kept(a) \cup r, ok |-> ok]
    BY DEF BothGoOn
  <2>3. BothGoOn(b, a).cs = b \cup Kept(a) \cup r /\ BothGoOn(b, a).ok = ok
    BY <2>2
  <2>4. \A y : y \in r <=> y = "return" /\ ok /\ "return" \in a /\ "any" \notin a
    OBVIOUS
  <2>5. ok <=> (Called(a) <=> Called(b))
    BY DEF Called
  <2> HIDE DEF ok, r
  <2> QED
    BY <1>6, <2>1, <2>3, <2>4, <2>5
<1> QED
  BY <1>2, <1>3, <1>4, <1>5, <1>6

\* Which flags the merged ones are.
LEMMA MergedHas ==
  ASSUME NEW a, NEW b
  PROVE  /\ "any" \in b \cup Kept(a) <=> "any" \in a \/ "any" \in b
         /\ "return" \in b \cup Kept(a) <=> "return" \in b
         /\ "halt" \in b \cup Kept(a) <=> "halt" \in b
         /\ "this" \in b \cup Kept(a) <=> "this" \in b
         /\ Called(b \cup Kept(a)) <=> Called(b)
<1> DEFINE u == b \cup Kept(a)
<1>1. \A y : y \in u <=> y \in b \/ (y \in a /\ y \in {"any", "label"})
  BY DEF Kept
<1>2. Called(u) <=> "this" \in u \/ "super" \in u
  BY DEF Called, Calls
<1>3. Called(b) <=> "this" \in b \/ "super" \in b
  BY DEF Called, Calls
<1> QED
  BY <1>1, <1>2, <1>3

LEMMA MergedFit ==
  ASSUME NEW a, NEW b, "halt" \notin a, "halt" \notin b, Called(a) => "any" \in a, Called(b) => "any" \in b
  PROVE  LET u == MergedCalls(b, a).cs IN "halt" \notin u /\ (Called(u) => "any" \in u)
<1> DEFINE m == MergedCalls(b, a)
<1>1. CASE m.cs = b
  BY <1>1
<1>2. CASE m.cs = b \cup Kept(a)
  BY <1>2, MergedHas
<1>3. CASE m.cs = a \cup Kept(b)
  BY <1>3, MergedHas
<1>4. CASE \A y : y \in m.cs <=> (y \in b \cup Kept(a) \/ (y = "return" /\ m.ok /\ "return" \in a /\ "any" \notin a))
  <2> DEFINE v == b \cup Kept(a)
  <2> HIDE DEF m
  <2>1. \A y : y \in m.cs <=> y \in v \/ (y = "return" /\ m.ok /\ "return" \in a /\ "any" \notin a)
    BY <1>4
  <2>3. v = b \cup Kept(a)
    OBVIOUS
  <2> HIDE DEF v
  <2>2. Called(m.cs) <=> Called(v)
    BY <2>1 DEF Called, Calls
  <2>4. (Called(v) => "any" \in v) /\ "halt" \notin v
    BY <2>3, MergedHas
  <2> QED
    BY <2>1, <2>2, <2>4 DEF m
<1>5. LET m0 == MergedCalls(b, a)
      IN  \/ m0.cs = b \/ m0.cs = b \cup Kept(a) \/ m0.cs = a \cup Kept(b)
          \/ \A y : y \in m0.cs <=> (y \in b \cup Kept(a) \/ (y = "return" /\ m0.ok /\ "return" \in a /\ "any" \notin a))
  BY MergedCases
<1> HIDE DEF m
<1> QED
  BY <1>1, <1>2, <1>3, <1>4, <1>5 DEF m

\* mergeCallSuper() complains only of what is wrong.
LEMMA GoodCallsMerge ==
  ASSUME NEW a, NEW b, NEW A \in SUBSET Effect, NEW B \in SUBSET Effect,
         "halt" \notin a, "halt" \notin b, Called(a) => "any" \in a, Called(b) => "any" \in b,
         GoodCalls(a, A), GoodCalls(b, B), ~DoomedCalls(A \cup B)
  PROVE  MergedCalls(b, a).ok /\ GoodCalls(MergedCalls(b, a).cs, A \cup B)
<1> DEFINE N == A \cup B  m == MergedCalls(b, a)  u == m.cs
<1>0. \A p \in N : (p.calls = 0 <=> ~(p.calls > 0))
  BY Counted
<1>1. GoesOn(N) <=> GoesOn(A) \/ GoesOn(B)
  BY GoesOnUnion
<1>2. /\ \A p \in N : p \in A \/ p \in B
      /\ \A p \in A : p \in N
      /\ \A p \in B : p \in N
  OBVIOUS
<1>3. /\ "return" \in a /\ "any" \notin a => "any" \notin b
      /\ "return" \in b /\ "any" \notin b => "any" \notin a
  BY <1>2 DEF GoodCalls, DoomedCalls
<1>4. ~Skips(a, b) /\ ~Skips(b, a)
  BY <1>3 DEF Skips, Returned
<1> HIDE DEF N, m
<1>5. CASE a = b /\ u = b /\ m.ok
  <2>1. GoodCalls(u, N)
    BY <1>1, <1>2, <1>5 DEF GoodCalls
  <2> QED
    BY <1>5, <2>1 DEF N, m
<1>6. CASE Returned(a) /\ Called(a) /\ ~Skips(b, a) /\ u = b \cup Kept(a) /\ m.ok
  <2>1. /\ "any" \in u <=> "any" \in a \/ "any" \in b
        /\ "return" \in u <=> "return" \in b
        /\ Called(u) <=> Called(b)
    BY <1>6, MergedHas
  <2>2. "return" \in a /\ "any" \in a /\ ~GoesOn(A)
    BY <1>6 DEF Returned, GoodCalls
  <2>3. \A p \in A : p.out # "on"
    BY <2>2 DEF GoesOn
  <2>4. "return" \in b => "any" \in b
    BY <1>3, <2>2
  <2>5. GoodCalls(u, N)
    BY <1>1, <1>2, <2>1, <2>2, <2>3, <2>4 DEF GoodCalls
  <2> QED
    BY <1>6, <2>5 DEF N, m
<1>7. CASE Returned(b) /\ Called(b) /\ ~Skips(a, b) /\ u = a \cup Kept(b) /\ m.ok
  <2>1. /\ "any" \in u <=> "any" \in a \/ "any" \in b
        /\ "return" \in u <=> "return" \in a
        /\ Called(u) <=> Called(a)
    BY <1>7, MergedHas
  <2>2. "return" \in b /\ "any" \in b /\ ~GoesOn(B)
    BY <1>7 DEF Returned, GoodCalls
  <2>3. \A p \in B : p.out # "on"
    BY <2>2 DEF GoesOn
  <2>4. "return" \in a => "any" \in a
    BY <1>3, <2>2
  <2>5. GoodCalls(u, N)
    BY <1>1, <1>2, <2>1, <2>2, <2>3, <2>4 DEF GoodCalls
  <2> QED
    BY <1>7, <2>5 DEF N, m
<1>8. CASE /\ ~(Returned(a) /\ Called(a)) /\ ~(Returned(b) /\ Called(b))
           /\ m.ok <=> (Called(a) <=> Called(b))
           /\ \A y : y \in u <=> (y \in b \cup Kept(a) \/ (y = "return" /\ m.ok /\ "return" \in a /\ "any" \notin a))
  <2> DEFINE v == b \cup Kept(a)
  <2>1. /\ "any" \in v <=> "any" \in a \/ "any" \in b
        /\ "return" \in v <=> "return" \in b
        /\ Called(v) <=> Called(b)
    BY MergedHas
  <2>2. \A y : y \in u <=> y \in v \/ (y = "return" /\ m.ok /\ "return" \in a /\ "any" \notin a)
    BY <1>8
  <2> HIDE DEF v
  <2>3. /\ "any" \in u <=> "any" \in v
        /\ "return" \in u <=> "return" \in v \/ (m.ok /\ "return" \in a /\ "any" \notin a)
        /\ "this" \in u <=> "this" \in v
        /\ "super" \in u <=> "super" \in v
    BY <2>2
  <2>4. Called(u) <=> Called(b)
    BY <2>1, <2>3 DEF Called, Calls
  <2>5. /\ "return" \in a => "any" \notin a
        /\ "return" \in b => "any" \notin b
    BY <1>8 DEF GoodCalls, Returned
  <2>6. Called(a) <=> Called(b)
    <3>1. CASE Called(a) /\ ~Called(b)
      <4>1. "return" \notin a /\ "return" \notin b
        BY <1>3, <2>5, <3>1
      <4>2. (\E p \in A : p.out = "on" /\ p.calls > 0) /\ (\E p \in B : p.out = "on" /\ p.calls = 0)
        BY <1>0, <1>2, <3>1, <4>1 DEF GoodCalls, GoesOn
      <4> QED
        BY <1>2, <4>2 DEF DoomedCalls, N
    <3>2. CASE Called(b) /\ ~Called(a)
      <4>1. "return" \notin a /\ "return" \notin b
        BY <1>3, <2>5, <3>2
      <4>2. (\E p \in B : p.out = "on" /\ p.calls > 0) /\ (\E p \in A : p.out = "on" /\ p.calls = 0)
        BY <1>0, <1>2, <3>2, <4>1 DEF GoodCalls, GoesOn
      <4> QED
        BY <1>2, <4>2 DEF DoomedCalls, N
    <3>3. Called(a) \in BOOLEAN /\ Called(b) \in BOOLEAN
      BY DEF Called
    <3> QED
      BY <3>1, <3>2, <3>3
  <2>7. m.ok
    BY <1>8, <2>6
  <2>8. "return" \in u <=> "return" \in b \/ "return" \in a
    BY <2>1, <2>3, <2>5, <2>7
  <2>9. "any" \in u <=> \E p \in N : p.calls > 0
    BY <1>2, <2>1, <2>3 DEF GoodCalls
  <2>10. \A p \in N : p.out = "on" => (p.calls > 0 <=> Called(u))
    BY <1>2, <2>4, <2>6 DEF GoodCalls
  <2>11. "return" \notin u => GoesOn(N)
    BY <1>1, <2>8 DEF GoodCalls
  <2>12. "return" \in u /\ "any" \notin u => \E p \in N : p.out = "return" /\ p.calls = 0
    BY <1>2, <2>1, <2>3, <2>8 DEF GoodCalls
  <2>13. ~("return" \in u /\ "any" \in u)
    BY <1>3, <2>1, <2>3, <2>5, <2>8
  <2> QED
    BY <2>7, <2>9, <2>10, <2>11, <2>12, <2>13 DEF GoodCalls, N, m
<1> QED
  BY <1>4, <1>5, <1>6, <1>7, <1>8, MergedCases DEF m

\* The cases of mergeFieldInit() without assert(0).
LEMMA MergedFieldCases ==
  ASSUME NEW a, NEW b, "halt" \notin a, "halt" \notin b
  PROVE  LET m == MergedField(b, a)
         IN  \/ a = b /\ m.fi = b /\ m.ok
             \/ "return" \in a /\ m.fi = b /\ (m.ok <=> "this" \in a)
             \/ "return" \notin a /\ "return" \in b /\ m.fi = a /\ (m.ok <=> "this" \in b)
             \/ "return" \notin a /\ "return" \notin b /\ m.fi = a \cup b /\ (m.ok <=> ("this" \in a <=> "this" \in b))
<1>1. ~Halted(a) /\ ~Halted(b)
  BY DEF Halted
<1>2. \A c : Returned(c) <=> "return" \in c
  BY DEF Returned
<1>3. CASE a = b
  BY <1>3 DEF MergedField
<1>4. CASE a # b /\ "return" \in a
  BY <1>1, <1>2, <1>4 DEF MergedField
<1>5. CASE a # b /\ "return" \notin a /\ "return" \in b
  BY <1>1, <1>2, <1>5 DEF MergedField
<1>6. CASE a # b /\ "return" \notin a /\ "return" \notin b
  <2> DEFINE ok == ("this" \in b) = ("this" \in a)
  <2>1. MergedField(b, a) = [fi |-> b \cup a, ok |-> ok]
    BY <1>1, <1>2, <1>6 DEF MergedField
  <2>2. MergedField(b, a).fi = a \cup b /\ MergedField(b, a).ok = ok
    BY <2>1
  <2>3. ok <=> ("this" \in a <=> "this" \in b)
    OBVIOUS
  <2> HIDE DEF ok
  <2> QED
    BY <1>6, <2>2, <2>3
<1> QED
  BY <1>3, <1>4, <1>5, <1>6

\* mergeFieldInit() complains only of what is wrong.
LEMMA GoodSetsMerge ==
  ASSUME NEW so, NEW f \in Fields, NEW a, NEW b, NEW A \in SUBSET Effect, NEW B \in SUBSET Effect,
         "halt" \notin a, "halt" \notin b, GoodSets(so, f, a, A), GoodSets(so, f, b, B)
  PROVE  LET m == MergedField(b, a)
         IN  /\ "halt" \notin m.fi
             /\ GoodSets(so, f, m.fi, A \cup B)
             /\ f \in so.mustInit /\ ~DoomedSets(so, f, A \cup B) =>
                  m.ok /\ ("this" \in m.fi => "this" \in a /\ "this" \in b)
<1> DEFINE N == A \cup B  m == MergedField(b, a)
<1>1. GoesOn(N) <=> GoesOn(A) \/ GoesOn(B)
  BY GoesOnUnion
<1>2. /\ \A p \in A : p \in N
      /\ \A p \in B : p \in N
  OBVIOUS
<1> HIDE DEF N, m
<1>3. ASSUME f \in so.mustInit, ~DoomedSets(so, f, N)
      PROVE  /\ "return" \in a => "this" \in a
             /\ "return" \in b => "this" \in b
             /\ "return" \notin a /\ "return" \notin b => (("this" \in a) <=> ("this" \in b))
  BY <1>2, <1>3 DEF GoodSets, DoomedSets
<1>4. CASE a = b /\ m.fi = b /\ m.ok
  <2>1. GoodSets(so, f, m.fi, N)
    BY <1>1, <1>2, <1>4 DEF GoodSets
  <2> QED
    BY <1>4, <2>1 DEF m, N
<1>5. CASE "return" \in a /\ m.fi = b /\ (m.ok <=> "this" \in a)
  <2>1. ~GoesOn(A) /\ (GoesOn(N) <=> GoesOn(B))
    BY <1>1, <1>5 DEF GoodSets
  <2>2. GoodSets(so, f, m.fi, N)
    BY <1>2, <1>5, <2>1 DEF GoodSets
  <2> QED
    BY <1>3, <1>5, <2>2 DEF m, N
<1>6. CASE "return" \notin a /\ "return" \in b /\ m.fi = a /\ (m.ok <=> "this" \in b)
  <2>1. ~GoesOn(B) /\ (GoesOn(N) <=> GoesOn(A))
    BY <1>1, <1>6 DEF GoodSets
  <2>2. GoodSets(so, f, m.fi, N)
    BY <1>2, <1>6, <2>1 DEF GoodSets
  <2> QED
    BY <1>3, <1>6, <2>2 DEF m, N
<1>7. CASE "return" \notin a /\ "return" \notin b /\ m.fi = a \cup b /\ (m.ok <=> ("this" \in a <=> "this" \in b))
  <2>1. GoesOn(A) /\ GoesOn(B) /\ GoesOn(N)
    BY <1>1, <1>7 DEF GoodSets
  <2>2. \A y : y \in m.fi <=> y \in a \/ y \in b
    BY <1>7
  <2>3. "return" \in m.fi <=> ~GoesOn(N)
    BY <1>7, <2>1, <2>2
  <2>4. "this" \in m.fi => \E p \in N : p.out = "on" /\ p.sets[f] > 0
    BY <1>2, <2>1, <2>2 DEF GoodSets
  <2>5. "label" \in m.fi => \E p \in N : p.out = "on" /\ p.again
    BY <1>2, <2>1, <2>2 DEF GoodSets
  <2>6. f \in so.mustInit /\ "this" \notin m.fi => \E p \in N : p.sets[f] = 0 /\ p.out = "on"
    BY <1>2, <2>1, <2>2 DEF GoodSets
  <2>7. GoodSets(so, f, m.fi, N)
    BY <2>1, <2>3, <2>4, <2>5, <2>6 DEF GoodSets
  <2>8. f \in so.mustInit /\ ~DoomedSets(so, f, N) => m.ok /\ ("this" \in m.fi => "this" \in a /\ "this" \in b)
    BY <1>3, <1>7, <2>2
  <2> QED
    BY <1>7, <2>2, <2>7, <2>8 DEF m, N
<1> QED
  BY <1>4, <1>5, <1>6, <1>7, MergedFieldCases DEF m

\* A field that nothing is assigned to on either branch.
LEMMA GoodNeverMerge ==
  ASSUME NEW fa, NEW fb, NEW a, NEW b, NEW A, NEW B, NEW f,
         "halt" \notin a, "halt" \notin b, Called(a) => "any" \in a, Called(b) => "any" \in b,
         GoodNever(fa, a, A), GoodNever(fb, b, B), "this" \in f => "this" \in fa /\ "this" \in fb
  PROVE  GoodNever(f, MergedCalls(b, a).cs, A \cup B)
<1> DEFINE m == MergedCalls(b, a)  u == m.cs
<1>1. GoesOn(A \cup B) <=> GoesOn(A) \/ GoesOn(B)
  BY GoesOnUnion
<1>2. /\ "this" \in a => Called(a)
      /\ "this" \in b => Called(b)
  BY DEF Called, Calls
<1>3. ~Skips(a, b) /\ ~Skips(b, a)
  BY <1>2 DEF Skips, Returned, GoodNever
<1> HIDE DEF m
<1>4. CASE a = b /\ u = b
  BY <1>1, <1>4 DEF GoodNever, m
<1>5. CASE Returned(a) /\ Called(a) /\ u = b \cup Kept(a)
  <2>1. ("this" \in u <=> "this" \in b) /\ ("return" \in u <=> "return" \in b)
    BY <1>5, MergedHas
  <2>2. "return" \in a
    BY <1>5 DEF Returned
  <2> QED
    BY <1>1, <2>1, <2>2 DEF GoodNever, m
<1>6. CASE Returned(b) /\ Called(b) /\ u = a \cup Kept(b)
  <2>1. ("this" \in u <=> "this" \in a) /\ ("return" \in u <=> "return" \in a)
    BY <1>6, MergedHas
  <2>2. "return" \in b
    BY <1>6 DEF Returned
  <2> QED
    BY <1>1, <2>1, <2>2 DEF GoodNever, m
<1>7. CASE /\ ~(Returned(a) /\ Called(a)) /\ ~(Returned(b) /\ Called(b))
           /\ \A y : y \in u <=> (y \in b \cup Kept(a) \/ (y = "return" /\ m.ok /\ "return" \in a /\ "any" \notin a))
  <2>1. "return" \notin a /\ "return" \notin b
    BY <1>2, <1>7 DEF Returned, GoodNever
  <2>2. "return" \notin u /\ ("this" \in b => "this" \in u)
    BY <1>7, <2>1 DEF Kept
  <2> QED
    BY <2>2 DEF GoodNever, m
<1> QED
  BY <1>3, <1>4, <1>5, <1>6, <1>7, MergedCases DEF m

\* mergeCallSuper() and mergeFieldInit(): the flags still fit, and if they complain
\* the paths are doomed.
LEMMA FairMerge ==
  ASSUME NEW so, NEW x, NEW set, NEW a, NEW fa, NEW b, NEW fb,
         NEW A \in SUBSET Effect, NEW B \in SUBSET Effect,
         Fair(so, x, set, a, fa, A), Fair(so, x, set, b, fb, B)
  PROVE  /\ Fair(so, x, set, MergedCalls(b, a).cs, MergedFields(fb, fa), A \cup B)
         /\ x \notin Fields /\ ~MergedCalls(b, a).ok => Doomed(so, x, A \cup B)
         /\ x \in Fields /\ x \in so.mustInit /\ ~MergedField(fb[x], fa[x]).ok => Doomed(so, x, A \cup B)
<1> DEFINE N == A \cup B  u == MergedCalls(b, a).cs  ui == MergedFields(fb, fa)
<1>1. /\ "halt" \notin a /\ (Called(a) => "any" \in a) /\ (x \in Fields => "halt" \notin fa[x])
      /\ "halt" \notin b /\ (Called(b) => "any" \in b) /\ (x \in Fields => "halt" \notin fb[x])
  BY DEF Fair
<1>2. "halt" \notin u /\ (Called(u) => "any" \in u)
  BY <1>1, MergedFit
<1>3. x \in Fields => ui[x] = MergedField(fb[x], fa[x]).fi
  BY DEF MergedFields
<1>4. x \in Fields => "halt" \notin ui[x]
  <2>1. CASE x \in Fields
    <3>1. LET m == MergedField(fb[x], fa[x]) IN m.fi = fb[x] \/ m.fi = fa[x] \/ m.fi = fa[x] \cup fb[x]
      BY <1>1, <2>1, MergedFieldCases
    <3> QED
      BY <1>1, <1>3, <2>1, <3>1
  <2> QED
    BY <2>1
<1>5. CASE Doomed(so, x, N)
  <2>1. Fair(so, x, set, u, ui, N)
    BY <1>2, <1>4, <1>5, FairCases
  <2> QED
    BY <1>5, <2>1
<1>6. ASSUME ~Doomed(so, x, N) PROVE ~Doomed(so, x, A) /\ ~Doomed(so, x, B)
  BY <1>6, DoomedMore
<1>7. CASE ~Doomed(so, x, N) /\ x \notin Fields
  <2>1. GoodCalls(a, A) /\ GoodCalls(b, B) /\ ~DoomedCalls(N)
    BY <1>6, <1>7, FairCases DEF Doomed
  <2>2. MergedCalls(b, a).ok /\ GoodCalls(u, N)
    BY <1>1, <2>1, GoodCallsMerge
  <2>3. Fair(so, x, set, u, ui, N)
    BY <1>2, <1>7, <2>2, FairCases
  <2> QED
    BY <1>7, <2>2, <2>3
<1>8. CASE ~Doomed(so, x, N) /\ x \in Fields
  <2>1. GoodSets(so, x, fa[x], A) /\ GoodSets(so, x, fb[x], B) /\ ~DoomedSets(so, x, N)
    BY <1>6, <1>8, FairCases DEF Doomed
  <2>2. LET m == MergedField(fb[x], fa[x])
        IN  /\ GoodSets(so, x, m.fi, N)
            /\ x \in so.mustInit => m.ok /\ ("this" \in m.fi => "this" \in fa[x] /\ "this" \in fb[x])
    BY <1>1, <1>8, <2>1, GoodSetsMerge
  <2>3. ASSUME x \in so.mustInit \ set PROVE GoodNever(ui[x], u, N)
    <3>1. GoodNever(fa[x], a, A) /\ GoodNever(fb[x], b, B)
      BY <1>6, <1>8, <2>3, FairCases
    <3>2. "this" \in ui[x] => "this" \in fa[x] /\ "this" \in fb[x]
      BY <1>3, <1>8, <2>2, <2>3
    <3> HIDE DEF ui
    <3> QED
      BY <1>1, <3>1, <3>2, GoodNeverMerge
  <2>4. GoodSets(so, x, ui[x], N)
    BY <1>3, <1>8, <2>2
  <2>5. Fair(so, x, set, u, ui, N)
    BY <1>2, <1>4, <1>8, <2>3, <2>4, FairCases
  <2> QED
    BY <1>8, <2>2, <2>5
<1> QED
  BY <1>5, <1>7, <1>8

\* A part that is run more often does not change what the flags of a field say.
LEMMA FairMore ==
  ASSUME NEW so, NEW x \in Fields, NEW set, NEW cs, NEW fi, NEW N, NEW M, N \subseteq M, GoesOn(N),
         Fair(so, x, set, cs, fi, N)
  PROVE  Fair(so, x, set, cs, fi, M)
<1>1. GoesOn(M)
  BY DEF GoesOn
<1>2. CASE Doomed(so, x, N)
  <2>1. Doomed(so, x, M)
    BY <1>2, DoomedMore
  <2> QED
    BY <2>1, FairCases
<1>3. CASE ~Doomed(so, x, N)
  <2>1. GoodSets(so, x, fi[x], N) /\ (x \in so.mustInit \ set => GoodNever(fi[x], cs, N))
    BY <1>3, FairCases
  <2>2. GoodSets(so, x, fi[x], M)
    BY <1>1, <2>1 DEF GoodSets
  <2>3. x \in so.mustInit \ set => GoodNever(fi[x], cs, M)
    BY <2>1 DEF GoodNever
  <2> QED
    BY <2>2, <2>3, FairCases
<1> QED
  BY <1>2, <1>3

\* A scope may forget that it has seen a label.
LEMMA FairSame ==
  ASSUME NEW so, NEW x, NEW set, NEW cs, NEW fi, NEW es, NEW ei, NEW N, Fair(so, x, set, es, ei, N),
         \A y \in {"this", "super", "any", "return", "halt"} : y \in cs <=> y \in es,
         x \in Fields => /\ \A y \in {"this", "return", "halt"} : y \in fi[x] <=> y \in ei[x]
                         /\ "label" \in fi[x] => "label" \in ei[x]
  PROVE  Fair(so, x, set, cs, fi, N)
<1>1. Called(cs) <=> Called(es)
  BY DEF Called, Calls
<1>2. GoodCalls(es, N) => GoodCalls(cs, N)
  BY <1>1 DEF GoodCalls
<1>3. x \in Fields /\ GoodSets(so, x, ei[x], N) => GoodSets(so, x, fi[x], N)
  BY DEF GoodSets
<1>4. x \in Fields /\ GoodNever(ei[x], es, N) => GoodNever(fi[x], cs, N)
  BY DEF GoodNever
<1>5. /\ "halt" \notin es /\ (Called(es) => "any" \in es)
      /\ x \in Fields => "halt" \notin ei[x]
      /\ \/ Doomed(so, x, N)
         \/ x \notin Fields /\ GoodCalls(es, N)
         \/ /\ x \in Fields /\ GoodSets(so, x, ei[x], N)
            /\ x \in so.mustInit \ set => GoodNever(ei[x], es, N)
  BY FairCases
<1>6. "halt" \notin cs /\ (Called(cs) => "any" \in cs) /\ (x \in Fields => "halt" \notin fi[x])
  BY <1>1, <1>5
<1> QED
  BY <1>2, <1>3, <1>4, <1>5, <1>6, FairCases

\* The more fields have been assigned to, the less is asked.
LEMMA FairSet ==
  ASSUME NEW so, NEW x, NEW set, NEW more, set \subseteq more, NEW cs, NEW fi, NEW N, Fair(so, x, set, cs, fi, N)
  PROVE  Fair(so, x, more, cs, fi, N)
  BY DEF Fair

\* && and ||: the flags of the fields are those of the second operand.
LEMMA FairLogical ==
  ASSUME NEW so, NEW x, NEW set, NEW a, NEW fa, NEW b, NEW fb,
         NEW A \in SUBSET Effect, NEW B \in SUBSET Effect,
         Fair(so, x, set, a, fa, A), Fair(so, x, set, b, fb, B), GoesOn(A), GoesOn(B)
  PROVE  /\ Fair(so, x, set, MergedCalls(b, a).cs, fb, A \cup B)
         /\ x \notin Fields /\ ~MergedCalls(b, a).ok => Doomed(so, x, A \cup B)
<1> DEFINE N == A \cup B  m == MergedCalls(b, a)  u == m.cs
<1>1. /\ "halt" \notin a /\ (Called(a) => "any" \in a)
      /\ "halt" \notin b /\ (Called(b) => "any" \in b) /\ (x \in Fields => "halt" \notin fb[x])
  BY DEF Fair
<1>2. "halt" \notin u /\ (Called(u) => "any" \in u)
  BY <1>1, MergedFit
<1>3. CASE x \notin Fields
  <2>1. Fair(so, x, set, u, MergedFields(fb, fa), N) /\ (~m.ok => Doomed(so, x, N))
    BY <1>3, FairMerge
  <2>2. Fair(so, x, set, u, fb, N)
    BY <1>3, <2>1 DEF Fair
  <2> QED
    BY <2>1, <2>2
<1>4. CASE x \in Fields /\ Doomed(so, x, N)
  <2>1. Fair(so, x, set, u, fb, N)
    BY <1>1, <1>2, <1>4, FairCases
  <2> QED
    BY <1>4, <2>1
<1>5. CASE x \in Fields /\ ~Doomed(so, x, N)
  <2>1. ~Doomed(so, x, A) /\ ~Doomed(so, x, B)
    BY <1>5, DoomedMore
  <2>2. Fair(so, x, set, b, fb, N)
    BY <1>5, FairMore
  <2>3. GoodSets(so, x, fb[x], N)
    BY <1>5, <2>2, FairCases
  <2>4. ASSUME x \in so.mustInit \ set PROVE GoodNever(fb[x], u, N)
    <3>1. GoodNever(fa[x], a, A) /\ GoodNever(fb[x], b, B)
      BY <1>5, <2>1, <2>4, FairCases
    <3>2. "return" \notin a /\ "return" \notin b
      BY <3>1 DEF GoodNever
    <3>3. ~Skips(a, b) /\ ~Skips(b, a) /\ ~Returned(a) /\ ~Returned(b)
      BY <3>2 DEF Skips, Returned
    <3>4. \/ u = b
          \/ \A y : y \in u <=> (y \in b \cup Kept(a) \/ (y = "return" /\ m.ok /\ "return" \in a /\ "any" \notin a))
      <4>1. LET m0 == MergedCalls(b, a)
            IN  \/ m0.cs = b
                \/ \A y : y \in m0.cs <=> (y \in b \cup Kept(a) \/ (y = "return" /\ m0.ok /\ "return" \in a /\ "any" \notin a))
        BY <1>1, <3>3, MergedCases
      <4> QED
        BY <4>1
    <3>5. "return" \in b \cup Kept(a) <=> "return" \in b
      BY MergedHas
    <3> HIDE DEF m, N
    <3>6. "return" \notin u /\ ("this" \in b => "this" \in u)
      BY <3>2, <3>4, <3>5
    <3> QED
      BY <3>1, <3>6 DEF GoodNever
  <2>5. Fair(so, x, set, u, fb, N)
    BY <1>1, <1>2, <1>5, <2>3, <2>4, FairCases
  <2> QED
    BY <1>5, <2>5
<1> QED
  BY <1>3, <1>4, <1>5

LEMMA ChainWith ==
  ASSUME NEW N \in SUBSET Effect, NEW q \in Effect, q.out \in {"on", "return"}
  PROVE  /\ Chain(N, {q}) \in SUBSET Effect
         /\ \A r : r \in Chain(N, {q}) <=> \E p \in N : r = Then(p, q)
         /\ \A so, x : Doomed(so, x, N) => Doomed(so, x, Chain(N, {q}))
         /\ GoesOn(Chain(N, {q})) <=> GoesOn(N) /\ q.out = "on"
         /\ Mild(N) => Mild(Chain(N, {q}))
<1>1. {q} \in SUBSET Effect /\ {q} # {} /\ Mild({q}) /\ (GoesOn({q}) <=> q.out = "on")
  BY DEF Mild, GoesOn
<1>2. \A r : r \in Chain(N, {q}) <=> \E p \in N : r = Then(p, q)
  BY InChain
<1>3. ASSUME NEW so, NEW x, Doomed(so, x, N) PROVE Doomed(so, x, Chain(N, {q}))
  BY <1>1, <1>3, DoomedStays
<1>4. Chain(N, {q}) \in SUBSET Effect
  BY <1>1, ChainTyped
<1> QED
  BY <1>1, <1>2, <1>3, <1>4, ChainOn

LEMMA CallEffectSets ==
  ASSUME NEW f \in Fields
  PROVE  CallEffect("this").sets[f] = 1
<1> DEFINE h == [g \in Fields |-> IF "this" = "this" THEN 1 ELSE 0]
<1>1. CallEffect("this") = [Skip EXCEPT !.calls = 1, !.sets = h]
  BY DEF CallEffect
<1>2. h[f] = 1
  OBVIOUS
<1> HIDE DEF h
<1> QED
  BY <1>1, <1>2, SkipLive DEF Effect

LEMMA AgainStays ==
  ASSUME NEW p \in Effect, NEW q \in Effect, p.again
  PROVE  Then(p, q).again
<1>1. CASE p.out = "on"
  <2>1. Then(p, q).again = (p.again \/ q.again)
    BY <1>1, ThenFields
  <2> QED
    BY <2>1
<1>2. CASE p.out # "on"
  <2>1. Then(p, q) = p
    BY <1>2, ThenFields
  <2> QED
    BY <2>1
<1> QED
  BY <1>1, <1>2

\* A field whose assignments a step does not change.
LEMMA GoodSetsStep ==
  ASSUME NEW so, NEW f \in Fields, NEW c, NEW N \in SUBSET Effect, NEW q \in Effect,
         q.out = "on", q.sets[f] = 0, GoodSets(so, f, c, N)
  PROVE  GoodSets(so, f, c, Chain(N, {q}))
<1> DEFINE M == Chain(N, {q})
<1>1. (\A r : r \in M <=> \E p \in N : r = Then(p, q)) /\ (GoesOn(M) <=> GoesOn(N))
  BY ChainWith
<1> HIDE DEF M
<1>2. \A p \in N : /\ Then(p, q).out = p.out /\ (p.again => Then(p, q).again)
                   /\ Then(p, q).sets[f] > 0 <=> p.sets[f] > 0
                   /\ Then(p, q).sets[f] = 0 <=> p.sets[f] = 0
  <2> SUFFICES ASSUME NEW p \in N
               PROVE  /\ Then(p, q).out = p.out /\ (p.again => Then(p, q).again)
                      /\ Then(p, q).sets[f] > 0 <=> p.sets[f] > 0
                      /\ Then(p, q).sets[f] = 0 <=> p.sets[f] = 0
    OBVIOUS
  <2>1. Then(p, q).out = p.out /\ (Then(p, q).sets[f] > 0 <=> p.sets[f] > 0)
    BY ThenCounts
  <2>2. Then(p, q) \in Effect
    BY ThenFields
  <2>3. (Then(p, q).sets[f] = 0 <=> ~(Then(p, q).sets[f] > 0)) /\ (p.sets[f] = 0 <=> ~(p.sets[f] > 0))
    BY <2>2, Counted
  <2> QED
    BY <2>1, <2>3, AgainStays
<1>3. "this" \in c /\ GoesOn(M) => \E r \in M : r.out = "on" /\ r.sets[f] > 0
  BY <1>1, <1>2 DEF GoodSets
<1>4. "label" \in c /\ GoesOn(M) => \E r \in M : r.out = "on" /\ r.again
  BY <1>1, <1>2 DEF GoodSets
<1>5. f \in so.mustInit /\ "this" \notin c =>
        \E r \in M : r.sets[f] = 0 /\ r.out = IF GoesOn(M) THEN "on" ELSE "return"
  BY <1>1, <1>2 DEF GoodSets
<1>6. GoodSets(so, f, c, M)
  BY <1>1, <1>3, <1>4, <1>5 DEF GoodSets
<1> QED
  BY <1>6 DEF M

\* A field that is initialised in a step.
LEMMA GoodSetsSet ==
  ASSUME NEW so, NEW f \in Fields, NEW c, NEW N \in SUBSET Effect, NEW q \in Effect, GoesOn(N),
         q.out = "on", q.sets[f] = 1, GoodSets(so, f, c, N)
  PROVE  /\ GoodSets(so, f, c \cup {"this"}, Chain(N, {q}))
         /\ "this" \in c \/ "label" \in c => DoomedSets(so, f, Chain(N, {q}))
<1> DEFINE M == Chain(N, {q})  d == c \cup {"this"}
<1>1. (\A r : r \in M <=> \E p \in N : r = Then(p, q)) /\ GoesOn(M)
  BY ChainWith
<1> HIDE DEF M
<1>2. \A p \in N : p.out = "on" =>
        /\ Then(p, q).out = "on" /\ (p.again => Then(p, q).again) /\ Then(p, q).sets[f] > 0
        /\ p.sets[f] > 0 \/ p.again => Then(p, q).sets[f] > 1
  BY ThenCounts, AgainStays
<1>3. PICK p0 \in N : p0.out = "on"
  BY DEF GoesOn
<1>4. "return" \notin d /\ "this" \in d /\ ("label" \in d <=> "label" \in c)
  BY DEF GoodSets
<1>5. \E r \in M : r.out = "on" /\ r.sets[f] > 0
  BY <1>1, <1>2, <1>3
<1>6. "label" \in c => \E r \in M : r.out = "on" /\ r.again
  BY <1>1, <1>2 DEF GoodSets
<1> HIDE DEF d
<1>7. GoodSets(so, f, d, M)
  BY <1>1, <1>4, <1>5, <1>6 DEF GoodSets
<1>8. "this" \in c \/ "label" \in c => \E p \in N : p.out = "on" /\ (p.sets[f] > 0 \/ p.again)
  BY DEF GoodSets
<1>9. "this" \in c \/ "label" \in c => DoomedSets(so, f, M)
  BY <1>1, <1>2, <1>8 DEF DoomedSets
<1> QED
  BY <1>7, <1>9 DEF M, d

\* visit(CallExp): a call.
LEMMA FairCall ==
  ASSUME NEW so, NEW x, NEW set, NEW cs, NEW fi, NEW N \in SUBSET Effect, GoesOn(N), NEW c \in Calls,
         Fair(so, x, set, cs, fi, N)
  PROVE  LET M == Chain(N, {CallEffect(c)})
         IN  /\ Fair(so, x, set, cs \cup {"any", c}, IF c = "this" THEN MarkFields(fi, "this") ELSE fi, M)
             /\ x \notin Fields /\ (Called(cs) \/ ("return" \in cs /\ "any" \notin cs)) => Doomed(so, x, M)
<1> DEFINE q == CallEffect(c)  M == Chain(N, {q})  u == cs \cup {"any", c}
           ui == IF c = "this" THEN MarkFields(fi, "this") ELSE fi
<1>1. /\ q \in Effect /\ q.calls = 1 /\ q.out = "on" /\ q.again = FALSE
      /\ c # "this" => \A f \in Fields : q.sets[f] = 0
      /\ c = "this" => \A f \in Fields : q.sets[f] = 1
  BY CallEffectFields, CallEffectSets
<1>2. /\ \A r : r \in M <=> \E p \in N : r = Then(p, q)
      /\ Doomed(so, x, N) => Doomed(so, x, M)
      /\ GoesOn(M)
  BY <1>1, ChainWith
<1>3. /\ "any" \in u /\ Called(u) /\ c \in {"this", "super"} /\ (\A y \in cs : y \in u)
      /\ "return" \in u <=> "return" \in cs
      /\ "halt" \in u <=> "halt" \in cs
      /\ c = "this" => "this" \in u
  BY DEF Called, Calls
<1>4. x \in Fields => ui[x] = IF c = "this" THEN fi[x] \cup {"this"} ELSE fi[x]
  BY DEF MarkFields
<1> HIDE DEF M, q, u, ui
<1>5. /\ "halt" \notin cs /\ (x \in Fields => "halt" \notin fi[x])
  BY DEF Fair
<1>6. "halt" \notin u /\ (Called(u) => "any" \in u) /\ (x \in Fields => "halt" \notin ui[x])
  BY <1>3, <1>4, <1>5
<1>7. CASE Doomed(so, x, N) \/ Doomed(so, x, M)
  <2>1. Doomed(so, x, M)
    BY <1>2, <1>7
  <2>2. Fair(so, x, set, u, ui, M)
    BY <1>6, <2>1, FairCases
  <2> QED
    BY <2>1, <2>2 DEF M, q, u, ui
<1>8. CASE ~Doomed(so, x, N) /\ ~Doomed(so, x, M) /\ x \notin Fields
  <2>1. GoodCalls(cs, N) /\ ~DoomedCalls(M)
    BY <1>8, FairCases DEF Doomed
  <2>2. \A p \in N : /\ p.out = "on" => /\ Then(p, q).out = "on" /\ Then(p, q).calls > 0
                                        /\ p.calls > 0 => Then(p, q).calls > 1
                     /\ p.out # "on" => Then(p, q) = p
    BY <1>1, ThenCounts
  <2>3. PICK p0 \in N : p0.out = "on"
    BY DEF GoesOn
  <2>4. ~Called(cs)
    <3>1. CASE Called(cs)
      <4>1. p0.calls > 0
        BY <2>1, <2>3, <3>1 DEF GoodCalls
      <4>2. Then(p0, q) \in M /\ Then(p0, q).calls > 1
        BY <1>2, <2>2, <2>3, <4>1
      <4> QED
        BY <2>1, <4>2 DEF DoomedCalls
    <3> QED
      BY <3>1
  <2>5. "return" \notin cs
    <3>1. CASE "return" \in cs
      <4>1. "any" \notin cs
        BY <2>1, <3>1 DEF GoodCalls
      <4>2. PICK p \in N : p.out = "return" /\ p.calls = 0
        BY <2>1, <3>1, <4>1 DEF GoodCalls
      <4>3. Then(p, q) = p
        BY <2>2, <4>2
      <4>4. p \in M /\ Then(p0, q) \in M /\ Then(p0, q).calls > 0
        BY <1>2, <2>2, <2>3, <4>2, <4>3
      <4> QED
        BY <2>1, <4>2, <4>4 DEF DoomedCalls
    <3> QED
      BY <3>1
  <2>6. \E r \in M : r.calls > 0
    BY <1>2, <2>2, <2>3
  <2>7. \A r \in M : r.out = "on" => r.calls > 0
    BY <1>2, <2>2
  <2>8. GoodCalls(u, M)
    BY <1>2, <1>3, <2>5, <2>6, <2>7 DEF GoodCalls
  <2>9. Fair(so, x, set, u, ui, M)
    BY <1>6, <1>8, <2>8, FairCases
  <2> QED
    BY <2>4, <2>5, <2>9 DEF M, q, u, ui
<1>9. CASE ~Doomed(so, x, N) /\ ~Doomed(so, x, M) /\ x \in Fields
  <2>1. GoodSets(so, x, fi[x], N)
    BY <1>9, FairCases
  <2>2. GoodSets(so, x, ui[x], M)
    <3>1. CASE c = "this"
      <4>1. GoodSets(so, x, fi[x] \cup {"this"}, M)
        BY <1>1, <1>9, <2>1, <3>1, GoodSetsSet DEF M
      <4> QED
        BY <1>4, <1>9, <3>1, <4>1
    <3>2. CASE c # "this"
      <4>1. GoodSets(so, x, fi[x], M)
        BY <1>1, <1>9, <2>1, <3>2, GoodSetsStep DEF M
      <4> QED
        BY <1>4, <1>9, <3>2, <4>1
    <3> QED
      BY <3>1, <3>2
  <2>3. ASSUME x \in so.mustInit \ set PROVE GoodNever(ui[x], u, M)
    <3>1. GoodNever(fi[x], cs, N)
      BY <1>9, <2>3, FairCases
    <3>2. "return" \notin u
      BY <1>3, <3>1 DEF GoodNever
    <3>3. "this" \in ui[x] => "this" \in u
      BY <1>3, <1>4, <1>9, <3>1 DEF GoodNever
    <3> QED
      BY <3>2, <3>3 DEF GoodNever
  <2>4. Fair(so, x, set, u, ui, M)
    BY <1>6, <1>9, <2>2, <2>3, FairCases
  <2> QED
    BY <1>9, <2>4 DEF M, q, u, ui
<1> QED
  BY <1>7, <1>8, <1>9

\* A step that calls nothing and goes on.
LEMMA GoodCallsStep ==
  ASSUME NEW c, NEW N \in SUBSET Effect, NEW q \in Effect, q.out = "on", q.calls = 0, GoodCalls(c, N)
  PROVE  GoodCalls(c, Chain(N, {q}))
<1> DEFINE M == Chain(N, {q})
<1>1. (\A r : r \in M <=> \E p \in N : r = Then(p, q)) /\ (GoesOn(M) <=> GoesOn(N))
  BY ChainWith
<1> HIDE DEF M
<1>2. \A p \in N : Then(p, q).out = p.out /\ (Then(p, q).calls > 0 <=> p.calls > 0)
  BY ThenCounts
<1>3. \A p \in N : p.calls = 0 => Then(p, q).calls = 0
  <2> SUFFICES ASSUME NEW p \in N, p.calls = 0 PROVE Then(p, q).calls = 0
    OBVIOUS
  <2>1. Then(p, q) \in Effect /\ ~(p.calls > 0)
    BY ThenFields, Counted
  <2> QED
    BY <1>2, <2>1, Counted
<1>4. "any" \in c <=> \E r \in M : r.calls > 0
  BY <1>1, <1>2 DEF GoodCalls
<1>5. \A r \in M : r.out = "on" => (r.calls > 0 <=> Called(c))
  BY <1>1, <1>2 DEF GoodCalls
<1>6. "return" \in c /\ "any" \notin c => \E r \in M : r.out = "return" /\ r.calls = 0
  BY <1>1, <1>2, <1>3 DEF GoodCalls
<1>7. GoodCalls(c, M)
  BY <1>1, <1>4, <1>5, <1>6 DEF GoodCalls
<1> QED
  BY <1>7 DEF M

\* modifyFieldVar(): an assignment.
LEMMA FairAssign ==
  ASSUME NEW so, NEW x, NEW set, NEW cs, NEW fi \in [Fields -> SUBSET Flags], NEW N \in SUBSET Effect, GoesOn(N),
         NEW f \in Fields, Fair(so, x, set, cs, fi, N)
  PROVE  LET M == Chain(N, {SetEffect(f)})
         IN  /\ Fair(so, x, set \cup {f}, cs, [fi EXCEPT ![f] = @ \cup {"this"}], M)
             /\ x = f /\ ("this" \in fi[f] \/ "label" \in fi[f]) => Doomed(so, x, M)
<1> DEFINE q == SetEffect(f)  M == Chain(N, {q})  ui == [fi EXCEPT ![f] = @ \cup {"this"}]  more == set \cup {f}
<1>1. /\ q \in Effect /\ q.calls = 0 /\ q.out = "on"
      /\ q.sets[f] = 1 /\ \A g \in Fields : g # f => q.sets[g] = 0
  BY SetEffectFields
<1>2. (Doomed(so, x, N) => Doomed(so, x, M)) /\ GoesOn(M)
  BY <1>1, ChainWith
<1>3. x \in Fields => ui[x] = IF x = f THEN fi[x] \cup {"this"} ELSE fi[x]
  OBVIOUS
<1>4. /\ x \in so.mustInit \ more => x \in so.mustInit \ set
      /\ x = f => x \notin so.mustInit \ more
  OBVIOUS
<1> HIDE DEF M, q, ui, more
<1>5. "halt" \notin cs /\ (Called(cs) => "any" \in cs) /\ (x \in Fields => "halt" \notin ui[x])
  BY <1>3 DEF Fair
<1>6. CASE Doomed(so, x, N)
  <2>1. Fair(so, x, more, cs, ui, M)
    BY <1>2, <1>5, <1>6, FairCases
  <2> QED
    BY <1>2, <1>6, <2>1 DEF M, q, ui, more
<1>7. CASE ~Doomed(so, x, N) /\ x \notin Fields
  <2>1. GoodCalls(cs, N)
    BY <1>7, FairCases
  <2>2. GoodCalls(cs, M)
    BY <1>1, <2>1, GoodCallsStep DEF M
  <2>3. Fair(so, x, more, cs, ui, M)
    BY <1>5, <1>7, <2>2, FairCases
  <2> QED
    BY <1>7, <2>3 DEF M, q, ui, more
<1>8. CASE ~Doomed(so, x, N) /\ x \in Fields /\ x # f
  <2>1. GoodSets(so, x, fi[x], N)
    BY <1>8, FairCases
  <2>2. GoodSets(so, x, fi[x], M)
    BY <1>1, <1>8, <2>1, GoodSetsStep DEF M
  <2>3. ASSUME x \in so.mustInit \ more PROVE GoodNever(ui[x], cs, M)
    <3>1. GoodNever(fi[x], cs, N)
      BY <1>4, <1>8, <2>3, FairCases
    <3> QED
      BY <1>3, <1>8, <3>1 DEF GoodNever
  <2>4. Fair(so, x, more, cs, ui, M)
    BY <1>3, <1>5, <1>8, <2>2, <2>3, FairCases
  <2> QED
    BY <1>8, <2>4 DEF M, q, ui, more
<1>9. CASE ~Doomed(so, x, N) /\ x = f
  <2>1. GoodSets(so, f, fi[f], N)
    BY <1>9, FairCases
  <2>2. /\ GoodSets(so, f, fi[f] \cup {"this"}, M)
        /\ "this" \in fi[f] \/ "label" \in fi[f] => DoomedSets(so, f, M)
    BY <1>1, <2>1, GoodSetsSet DEF M
  <2>3. Fair(so, x, more, cs, ui, M)
    BY <1>3, <1>4, <1>5, <1>9, <2>2, FairCases
  <2>4. "this" \in fi[f] \/ "label" \in fi[f] => Doomed(so, x, M)
    BY <1>9, <2>2 DEF Doomed
  <2> QED
    BY <2>3, <2>4 DEF M, q, ui, more
<1> QED
  BY <1>6, <1>7, <1>8, <1>9

\* A return.
LEMMA FairReturn ==
  ASSUME NEW so, NEW x, NEW set, NEW cs, NEW fi, NEW N \in SUBSET Effect, GoesOn(N), Fair(so, x, set, cs, fi, N)
  PROVE  LET M == Chain(N, {LeaveEffect("return")})
         IN  /\ Fair(so, x, set, cs \cup {"return"}, MarkFields(fi, "return"), M)
             /\ x \notin Fields /\ "any" \in cs /\ ~Called(cs) => Doomed(so, x, M)
             /\ x \in Fields /\ x \in so.mustInit /\ "this" \notin fi[x] => Doomed(so, x, M)
<1> DEFINE q == LeaveEffect("return")  M == Chain(N, {q})  u == cs \cup {"return"}  ui == MarkFields(fi, "return")
<1>1. q \in Effect /\ q.calls = 0 /\ q.out = "return" /\ \A g \in Fields : q.sets[g] = 0
  BY LeaveEffectFields, AllFlags
<1>2. /\ \A r : r \in M <=> \E p \in N : r = Then(p, q)
      /\ Doomed(so, x, N) => Doomed(so, x, M)
      /\ ~GoesOn(M)
  BY <1>1, ChainWith
<1>3. /\ "return" \in u /\ (Called(u) <=> Called(cs))
      /\ \A y \in {"any", "this", "halt", "label"} : y \in u <=> y \in cs
  BY DEF Called, Calls
<1>4. x \in Fields => ui[x] = fi[x] \cup {"return"}
  BY DEF MarkFields
<1> HIDE DEF M, q, u, ui
<1>5. "halt" \notin u /\ (Called(u) => "any" \in u) /\ (x \in Fields => "halt" \notin ui[x])
  BY <1>3, <1>4 DEF Fair
<1>6. CASE Doomed(so, x, N) \/ Doomed(so, x, M)
  <2>1. Doomed(so, x, M)
    BY <1>2, <1>6
  <2>2. Fair(so, x, set, u, ui, M)
    BY <1>5, <2>1, FairCases
  <2> QED
    BY <2>1, <2>2 DEF M, q, u, ui
<1>7. PICK p0 \in N : p0.out = "on"
  BY DEF GoesOn
<1>8. CASE ~Doomed(so, x, N) /\ ~Doomed(so, x, M) /\ x \notin Fields
  <2>1. GoodCalls(cs, N) /\ ~DoomedCalls(M)
    BY <1>8, FairCases DEF Doomed
  <2>2. \A p \in N : /\ Then(p, q).calls > 0 <=> p.calls > 0
                     /\ p.out = "on" => Then(p, q).out = "return"
                     /\ Then(p, q).calls = 0 <=> ~(p.calls > 0)
    <3> SUFFICES ASSUME NEW p \in N
                 PROVE  /\ Then(p, q).calls > 0 <=> p.calls > 0
                        /\ p.out = "on" => Then(p, q).out = "return"
                        /\ Then(p, q).calls = 0 <=> ~(p.calls > 0)
      OBVIOUS
    <3>1. (Then(p, q).calls > 0 <=> p.calls > 0) /\ (p.out = "on" => Then(p, q).out = "return")
      BY <1>1, ThenCounts
    <3>2. Then(p, q).calls = 0 <=> ~(Then(p, q).calls > 0)
      BY <1>1, ThenFields, Counted
    <3> QED
      BY <3>1, <3>2
  <2>3. "any" \in u <=> \E r \in M : r.calls > 0
    BY <1>2, <1>3, <2>1, <2>2 DEF GoodCalls
  <2>4. "any" \notin u => \E r \in M : r.out = "return" /\ r.calls = 0
    BY <1>2, <1>3, <1>7, <2>1, <2>2 DEF GoodCalls
  <2>5. "any" \in u => Called(u)
    <3>1. CASE "any" \in u /\ ~Called(u)
      <4>1. Then(p0, q) \in M /\ Then(p0, q).out = "return" /\ Then(p0, q).calls = 0
        BY <1>2, <1>3, <1>7, <2>1, <2>2, <3>1 DEF GoodCalls
      <4> QED
        BY <2>1, <2>3, <3>1, <4>1 DEF DoomedCalls
    <3> QED
      BY <3>1
  <2>6. \A r \in M : r.out # "on"
    BY <1>2 DEF GoesOn
  <2>7. GoodCalls(u, M)
    BY <1>2, <1>3, <2>3, <2>4, <2>5, <2>6 DEF GoodCalls
  <2>8. Fair(so, x, set, u, ui, M)
    BY <1>5, <1>8, <2>7, FairCases
  <2> QED
    BY <1>3, <1>8, <2>5, <2>8 DEF M, q, u, ui
<1>9. CASE ~Doomed(so, x, N) /\ ~Doomed(so, x, M) /\ x \in Fields
  <2>1. GoodSets(so, x, fi[x], N) /\ ~DoomedSets(so, x, M)
    BY <1>9, FairCases DEF Doomed
  <2>2. \A p \in N : p.out = "on" /\ p.sets[x] = 0 => Then(p, q).out = "return" /\ Then(p, q).sets[x] = 0
    <3> SUFFICES ASSUME NEW p \in N, p.out = "on", p.sets[x] = 0
                 PROVE  Then(p, q).out = "return" /\ Then(p, q).sets[x] = 0
      OBVIOUS
    <3>1. Then(p, q).out = "return" /\ (Then(p, q).sets[x] > 0 <=> p.sets[x] > 0)
      BY <1>1, <1>9, ThenCounts
    <3>2. (Then(p, q).sets[x] = 0 <=> ~(Then(p, q).sets[x] > 0)) /\ ~(p.sets[x] > 0)
      BY <1>1, <1>9, ThenFields, Counted
    <3> QED
      BY <3>1, <3>2
  <2>3. x \in so.mustInit => "this" \in fi[x]
    <3>1. CASE x \in so.mustInit /\ "this" \notin fi[x]
      <4>1. PICK p \in N : p.out = "on" /\ p.sets[x] = 0
        BY <2>1, <3>1 DEF GoodSets
      <4>2. Then(p, q) \in M /\ Then(p, q).out = "return" /\ Then(p, q).sets[x] = 0
        BY <1>2, <2>2, <4>1
      <4> QED
        BY <2>1, <3>1, <4>2 DEF DoomedSets
    <3> QED
      BY <3>1
  <2>4. GoodSets(so, x, ui[x], M)
    <3>1. "return" \in ui[x] /\ ("this" \in fi[x] => "this" \in ui[x])
      BY <1>4, <1>9
    <3> QED
      BY <1>2, <2>3, <3>1 DEF GoodSets
  <2>5. ASSUME x \in so.mustInit \ set PROVE GoodNever(ui[x], u, M)
    <3>1. GoodNever(fi[x], cs, N)
      BY <1>9, <2>5, FairCases
    <3>2. "this" \in u
      BY <1>3, <2>3, <2>5, <3>1 DEF GoodNever
    <3> QED
      BY <1>2, <3>2 DEF GoodNever
  <2>6. Fair(so, x, set, u, ui, M)
    BY <1>5, <1>9, <2>4, <2>5, FairCases
  <2> QED
    BY <1>9, <2>3, <2>6 DEF M, q, u, ui
<1> QED
  BY <1>6, <1>8, <1>9

\* Behind a label every path may run again, and is what it was otherwise.
Alike(r, s) ==
    /\ s.calls = r.calls /\ s.out = r.out /\ (\A f \in Fields : s.sets[f] = r.sets[f])
    /\ r.again \/ r.out = "on" => s.again

LEMMA LabelChain ==
  ASSUME NEW A \in SUBSET Effect, NEW P \in SUBSET Effect, Mild(A), Mild(P)
  PROVE  /\ AtLabel(P) \in SUBSET Effect /\ Mild(AtLabel(P)) /\ (AllOn(P) => AllOn(AtLabel(P)))
         /\ GoesOn(AtLabel(P)) <=> GoesOn(P)
         /\ \A f \in Fields : (\E p \in P : p.sets[f] > 0) => \E r \in AtLabel(P) : r.sets[f] > 0
         /\ \A r \in Chain(A, P) : \E s \in Chain(A, AtLabel(P)) : Alike(r, s)
         /\ \A s \in Chain(A, AtLabel(P)) : \E r \in Chain(A, P) : Alike(r, s)
<1>1. \A r : r \in AtLabel(P) <=> \E q \in P : r = Labelled(q)
  BY InAtLabel
<1>2. AtLabel(P) \in SUBSET Effect
  BY AtLabelTyped
<1>3. \A q \in P : /\ Labelled(q) \in Effect /\ Labelled(q).out = q.out /\ Labelled(q).sets = q.sets
                   /\ q.out \in {"on", "return"}
  BY LabelledFields DEF Mild
<1>4. Mild(AtLabel(P)) /\ (AllOn(P) => AllOn(AtLabel(P))) /\ (GoesOn(AtLabel(P)) <=> GoesOn(P))
  BY <1>1, <1>3 DEF Mild, AllOn, GoesOn
<1>5. \A f \in Fields : (\E p \in P : p.sets[f] > 0) => \E r \in AtLabel(P) : r.sets[f] > 0
  BY <1>1, <1>3
<1>6. ASSUME NEW p \in A, NEW q \in P PROVE Alike(Then(p, q), Then(p, Labelled(q)))
  <2>1. CASE p.out # "on"
    <3>1. Then(p, q) = p /\ Then(p, Labelled(q)) = p
      BY <1>3, <2>1, ThenFields
    <3> QED
      BY <2>1, <3>1 DEF Alike
  <2>2. CASE p.out = "on" /\ q.out = "on"
    <3>1. Then(p, q).out = "on"
      BY <2>2, ThenFields
    <3>2. /\ Then(p, Labelled(q)).calls = Then(p, q).calls
          /\ \A f \in Fields : Then(p, Labelled(q)).sets[f] = Then(p, q).sets[f]
          /\ Then(p, Labelled(q)).out = "on" /\ Then(p, Labelled(q)).again = TRUE
      BY <2>2, ThenLabelled
    <3> QED
      BY <3>1, <3>2 DEF Alike
  <2>3. CASE p.out = "on" /\ q.out = "return"
    <3>1. Labelled(q) = q
      BY <2>3 DEF Labelled
    <3>2. Then(p, q).out = "return"
      BY <2>3, ThenFields
    <3> QED
      BY <3>1, <3>2 DEF Alike
  <2> QED
    BY <1>3, <2>1, <2>2, <2>3
<1>7. /\ \A r : r \in Chain(A, P) <=> \E p \in A, q \in P : r = Then(p, q)
      /\ \A s : s \in Chain(A, AtLabel(P)) <=> \E p \in A, q \in AtLabel(P) : s = Then(p, q)
  BY InChain
<1>8. \A r \in Chain(A, P) : \E s \in Chain(A, AtLabel(P)) : Alike(r, s)
  <2> SUFFICES ASSUME NEW r \in Chain(A, P) PROVE \E s \in Chain(A, AtLabel(P)) : Alike(r, s)
    OBVIOUS
  <2>1. PICK p \in A, q \in P : r = Then(p, q)
    BY <1>7
  <2>2. Then(p, Labelled(q)) \in Chain(A, AtLabel(P))
    BY <1>1, <1>7
  <2> QED
    BY <1>6, <2>1, <2>2
<1>9. \A s \in Chain(A, AtLabel(P)) : \E r \in Chain(A, P) : Alike(r, s)
  <2> SUFFICES ASSUME NEW s \in Chain(A, AtLabel(P)) PROVE \E r \in Chain(A, P) : Alike(r, s)
    OBVIOUS
  <2>1. PICK p \in A, q \in P : s = Then(p, Labelled(q))
    BY <1>1, <1>7
  <2>2. Then(p, q) \in Chain(A, P)
    BY <1>7
  <2> QED
    BY <1>6, <2>1, <2>2
<1> QED
  BY <1>2, <1>4, <1>5, <1>8, <1>9

\* A label.
LEMMA FairLabel ==
  ASSUME NEW so, NEW x, NEW set, NEW cs, NEW fi, NEW A \in SUBSET Effect, NEW P \in SUBSET Effect,
         Mild(A), Mild(P), GoesOn(A), GoesOn(P), Fair(so, x, set, cs, fi, Chain(A, P))
  PROVE  /\ Fair(so, x, set, cs \cup {"label"}, MarkFields(fi, "label"), Chain(A, AtLabel(P)))
         /\ Doomed(so, x, Chain(A, P)) => Doomed(so, x, Chain(A, AtLabel(P)))
<1> DEFINE N == Chain(A, P)  M == Chain(A, AtLabel(P))  u == cs \cup {"label"}  ui == MarkFields(fi, "label")
<1>1. /\ \A r \in N : \E s \in M : Alike(r, s)
      /\ \A s \in M : \E r \in N : Alike(r, s)
  BY LabelChain
<1>2. GoesOn(N)
  BY ChainOn
<1>3. /\ Called(u) <=> Called(cs)
      /\ \A y \in {"any", "this", "halt", "return"} : y \in u <=> y \in cs
  BY DEF Called, Calls
<1>4. x \in Fields => ui[x] = fi[x] \cup {"label"}
  BY DEF MarkFields
<1>5. "halt" \notin u /\ (Called(u) => "any" \in u) /\ (x \in Fields => "halt" \notin ui[x])
  BY <1>3, <1>4 DEF Fair
<1> HIDE DEF N, M, u, ui
<1>6. GoesOn(M)
  BY <1>1, <1>2 DEF GoesOn, Alike
<1>7. ASSUME Doomed(so, x, N) PROVE Doomed(so, x, M)
  <2>1. CASE x \notin Fields
    <3>1. DoomedCalls(N)
      BY <1>7, <2>1 DEF Doomed
    <3>2. DoomedCalls(M)
      <4>1. CASE \E p \in N : p.calls > 1
        BY <1>1, <4>1 DEF DoomedCalls, Alike
      <4>2. CASE \E p, q \in N : p.out = "return" /\ p.calls = 0 /\ q.calls > 0
        BY <1>1, <4>2 DEF DoomedCalls, Alike
      <4>3. CASE \E p, q \in N : p.out = "on" /\ p.calls = 0 /\ q.out = "on" /\ q.calls > 0
        BY <1>1, <4>3 DEF DoomedCalls, Alike
      <4> QED
        BY <3>1, <4>1, <4>2, <4>3 DEF DoomedCalls
    <3> QED
      BY <2>1, <3>2 DEF Doomed
  <2>2. CASE x \in Fields
    <3>1. DoomedSets(so, x, N)
      BY <1>7, <2>2 DEF Doomed
    <3>2. DoomedSets(so, x, M)
      <4>1. CASE \E p \in N : p.sets[x] > 1
        BY <1>1, <2>2, <4>1 DEF DoomedSets, Alike
      <4>2. CASE x \in so.mustInit /\ \E p \in N : p.out = "return" /\ p.sets[x] = 0
        BY <1>1, <2>2, <4>2 DEF DoomedSets, Alike
      <4>3. CASE x \in so.mustInit /\ \E p, q \in N : p.out = "on" /\ p.sets[x] = 0 /\ q.out = "on" /\ q.sets[x] > 0
        BY <1>1, <2>2, <4>3 DEF DoomedSets, Alike
      <4>4. CASE x \in so.mustInit /\ \E p \in N : p.out = "on" /\ p.again /\ p.sets[x] = 0
        BY <1>1, <2>2, <4>4 DEF DoomedSets, Alike
      <4> QED
        BY <3>1, <4>1, <4>2, <4>3, <4>4 DEF DoomedSets
    <3> QED
      BY <2>2, <3>2 DEF Doomed
  <2> QED
    BY <2>1, <2>2
<1>8. Fair(so, x, set, u, ui, M)
  <2>1. CASE Doomed(so, x, N)
    BY <1>5, <1>7, <2>1, FairCases
  <2>2. CASE ~Doomed(so, x, N) /\ x \notin Fields
    <3>1. GoodCalls(cs, N)
      BY <2>2, FairCases DEF N
    <3>2. GoodCalls(u, M)
      <4>1. "any" \in u <=> \E p \in M : p.calls > 0
        BY <1>1, <1>3, <3>1 DEF GoodCalls, Alike
      <4>2. \A p \in M : p.out = "on" => (p.calls > 0 <=> Called(u))
        BY <1>1, <1>3, <3>1 DEF GoodCalls, Alike
      <4>3. "return" \in u /\ "any" \notin u => \E p \in M : p.out = "return" /\ p.calls = 0
        BY <1>1, <1>3, <3>1 DEF GoodCalls, Alike
      <4>4. ~("return" \in u /\ "any" \in u)
        BY <1>2, <1>3, <3>1 DEF GoodCalls
      <4> QED
        BY <1>6, <4>1, <4>2, <4>3, <4>4 DEF GoodCalls
    <3> QED
      BY <1>5, <2>2, <3>2, FairCases
  <2>3. CASE ~Doomed(so, x, N) /\ x \in Fields
    <3>1. GoodSets(so, x, fi[x], N)
      BY <2>3, FairCases DEF N
    <3>2. GoodSets(so, x, ui[x], M)
      <4>1. "return" \notin ui[x] /\ ("this" \in ui[x] <=> "this" \in fi[x])
        BY <1>2, <1>4, <2>3, <3>1 DEF GoodSets
      <4>2. "this" \in ui[x] => \E p \in M : p.out = "on" /\ p.sets[x] > 0
        BY <1>1, <1>2, <2>3, <3>1, <4>1 DEF GoodSets, Alike
      <4>3. \E p \in M : p.out = "on" /\ p.again
        BY <1>1, <1>2 DEF GoesOn, Alike
      <4>4. x \in so.mustInit /\ "this" \notin ui[x] => \E p \in M : p.sets[x] = 0 /\ p.out = "on"
        BY <1>1, <1>2, <2>3, <3>1, <4>1 DEF GoodSets, Alike
      <4> QED
        BY <1>6, <4>1, <4>2, <4>3, <4>4 DEF GoodSets
    <3>3. ASSUME x \in so.mustInit \ set PROVE GoodNever(ui[x], u, M)
      <4>1. GoodNever(fi[x], cs, N)
        BY <2>3, <3>3, FairCases DEF N
      <4>2. "return" \notin u /\ ("this" \in ui[x] => "this" \in u)
        BY <1>2, <1>3, <1>4, <2>3, <4>1 DEF GoodNever
      <4> QED
        BY <4>2 DEF GoodNever
    <3> QED
      BY <1>5, <2>3, <3>2, <3>3, FairCases
  <2> QED
    BY <2>1, <2>2, <2>3
<1> QED
  BY <1>7, <1>8 DEF N, M, u, ui

-----------------------------------------------------------------------------
(* The paths to the frames                                                 *)

\* The calls can be judged in any of these constructors, the fields without switch.
Judgeable(so) ==
    {x \in {Calling} : Straight(so)} \cup {f \in so.mustInit \cup so.unassignable : Direct(so)}

\* Nothing returns out of a loop or an expression.
Sheltered(w) == w \cap (Loops \cup Expressions) # {}

\* What frames and paths look like in constructors that leave by a return only.
PlainFrame(so, w, fr) ==
    /\ fr.first = {Skip}
    /\ Mild(fr.before) /\ Mild(fr.second) /\ GoesOn(fr.before)
    /\ Sheltered(w) => AllOn(fr.before)
    /\ Sheltered(w \cup {fr.kind}) => AllOn(fr.second)
    /\ Quiet(w) => fr.before = {Skip}
    /\ Quiet(w \cup {fr.kind}) => fr.second = {Skip}
    /\ fr.kind \notin {"left", "right", "operand"} => w \cap Expressions = {}
    /\ fr.kind \in Loops \cup {"label"} => Has(so, fr.kind)
    /\ fr.kind = "until" => Has(so, "do")
    /\ fr.kind = "operand" => Has(so, "&&")

PlainStack(so, s) == \A k \in 1..Len(s) : PlainFrame(so, KindsTo(s, k - 1), s[k])

PlainPart(w, P) == Mild(P) /\ (Sheltered(w) => AllOn(P)) /\ (Quiet(w) => P = {Skip})

\* The flags that a frame starts with.
StartCs(fr) == fr.cs \cup {l \in {"label"} : fr.kind = "label"}
StartFi(fr) == [f \in Fields |-> fr.fi[f] \cup {l \in {"label"} : fr.kind = "label"}]

\* W are the paths from the beginning of the constructor to the beginning of each frame.
BackTo(W, k) == IF k = 0 THEN {Skip} ELSE W[k]
Back(W) == BackTo(W, Len(W))
Unfolds(s, W) ==
    /\ W \in Seq(SUBSET Effect) /\ Len(W) = Len(s)
    /\ \A k \in 1..Len(s) : /\ W[k] = Chain(BackTo(W, k - 1), s[k].before)
                            /\ GoesOn(W[k]) /\ Mild(W[k])

\* The flags that are kept in a frame fit the paths to where they were right.
HeldFrame(so, x, set, fr, N) ==
    /\ Fair(so, x, set, StartCs(fr), StartFi(fr), N)
    /\ fr.kind \in {"declared", "then"} => Fair(so, x, set, fr.cs1, fr.fi1, N)
    /\ fr.kind \in {"else", "right"} => Fair(so, x, set, fr.cs1, fr.fi1, Chain(N, fr.second))

HeldStack(so, x, set, s, W) == \A k \in 1..Len(s) : HeldFrame(so, x, set, s[k], W[k])

\* The first branch of a frame is doomed.
OwesFrame(so, x, fr, N) == fr.kind \in {"else", "right"} /\ Doomed(so, x, Chain(N, fr.second))
Owed(so, x, s, W) == \E k \in 1..Len(s) : OwesFrame(so, x, s[k], W[k])

\* f is set somewhere in the body of a loop that is not finished.
Sets(f, P) == \E p \in P : p.sets[f] > 0
Repeats == {"loop", "do", "until"}
Part(fr) == IF fr.kind \in {"else", "right"} THEN fr.second ELSE {}
Pending(f, s, P) ==
    \E k \in 1..Len(s) :
        /\ s[k].kind \in Repeats
        /\ Sets(f, P) \/ \E j \in 1..Len(s) : j > k /\ Sets(f, s[j].before \cup Part(s[j]))

\* Something is wrong with x, or will be when the frames end.
Blame(so, x, s, W, P) ==
    \/ Doomed(so, x, Chain(Back(W), P))
    \/ Owed(so, x, s, W)
    \/ x \in Fields /\ Pending(x, s, P)

LEMMA BackTyped ==
  ASSUME NEW s \in Seq(FrameSet), NEW W, Unfolds(s, W)
  PROVE  Back(W) \in SUBSET Effect /\ GoesOn(Back(W)) /\ Mild(Back(W))
<1>1. W \in Seq(SUBSET Effect) /\ Len(W) = Len(s) /\ Len(s) \in Nat
  BY DEF Unfolds
<1>2. CASE Len(W) = 0
  <2>1. Back(W) = {Skip}
    BY <1>2 DEF Back, BackTo
  <2> QED
    BY <2>1, SkipLive, SkipFields DEF GoesOn, Mild
<1>3. CASE Len(W) # 0
  <2>1. Len(W) \in 1..Len(s) /\ Back(W) = W[Len(W)]
    BY <1>1, <1>3 DEF Back, BackTo
  <2>2. W[Len(W)] \in SUBSET Effect
    BY <1>1, <2>1
  <2> QED
    BY <2>1, <2>2 DEF Unfolds
<1> QED
  BY <1>2, <1>3

\* A frame on top of a stack.
LEMMA PlainTop ==
  ASSUME NEW so, NEW s \in Seq(FrameSet), NEW fr \in FrameSet
  PROVE  PlainStack(so, Append(s, fr)) <=> PlainStack(so, s) /\ PlainFrame(so, Around(s), fr)
<1> DEFINE t == Append(s, fr)
<1>0. t = Append(s, fr) /\ Extends(t, s, fr)
  BY Appended
<1> HIDE DEF t
<1>1. /\ Len(t) = Len(s) + 1 /\ t[Len(t)] = fr /\ Len(s) \in Nat
      /\ \A k \in 1..Len(s) : t[k] = s[k]
      /\ \A k \in 0..Len(s) : KindsTo(t, k) = KindsTo(s, k)
  BY <1>0 DEF Extends
<1>2. /\ \A k \in 1..Len(t) : k \in 1..Len(s) \/ k = Len(t)
      /\ \A k \in 1..Len(s) : k \in 1..Len(t) /\ k - 1 \in 0..Len(s)
      /\ Len(t) \in 1..Len(t) /\ Len(t) - 1 = Len(s) /\ Len(s) \in 0..Len(s)
  BY <1>1
<1>3. \A k \in 1..Len(s) : PlainFrame(so, KindsTo(t, k - 1), t[k]) <=> PlainFrame(so, KindsTo(s, k - 1), s[k])
  BY <1>1, <1>2
<1>4. PlainFrame(so, KindsTo(t, Len(t) - 1), t[Len(t)]) <=> PlainFrame(so, Around(s), fr)
  BY <1>1, <1>2 DEF Around
<1>5. PlainStack(so, t) <=> PlainStack(so, s) /\ PlainFrame(so, Around(s), fr)
  BY <1>2, <1>3, <1>4 DEF PlainStack
<1> QED
  BY <1>0, <1>5

LEMMA HeldTop ==
  ASSUME NEW so, NEW x, NEW set, NEW s \in Seq(FrameSet), NEW fr \in FrameSet,
         NEW V \in Seq(SUBSET Effect), NEW N \in SUBSET Effect, Len(V) = Len(s)
  PROVE  /\ HeldStack(so, x, set, Append(s, fr), Append(V, N)) <=>
              HeldStack(so, x, set, s, V) /\ HeldFrame(so, x, set, fr, N)
         /\ Owed(so, x, Append(s, fr), Append(V, N)) <=> Owed(so, x, s, V) \/ OwesFrame(so, x, fr, N)
<1> DEFINE t == Append(s, fr)  W == Append(V, N)
<1>0. t = Append(s, fr) /\ Extends(t, s, fr) /\ W = Append(V, N)
  BY Appended
<1>1. W[Len(s) + 1] = N /\ \A k \in 1..Len(s) : W[k] = V[k]
  OBVIOUS
<1> HIDE DEF t, W
<1>2. /\ Len(t) = Len(s) + 1 /\ t[Len(t)] = fr /\ Len(s) \in Nat
      /\ \A k \in 1..Len(s) : t[k] = s[k]
  BY <1>0 DEF Extends
<1>3. /\ \A k \in 1..Len(t) : k \in 1..Len(s) \/ k = Len(t)
      /\ \A k \in 1..Len(s) : k \in 1..Len(t)
      /\ Len(t) \in 1..Len(t) /\ W[Len(t)] = N
  BY <1>1, <1>2
<1>4. HeldStack(so, x, set, t, W) <=> HeldStack(so, x, set, s, V) /\ HeldFrame(so, x, set, fr, N)
  BY <1>1, <1>2, <1>3 DEF HeldStack
<1>5. Owed(so, x, t, W) <=> Owed(so, x, s, V) \/ OwesFrame(so, x, fr, N)
  BY <1>1, <1>2, <1>3 DEF Owed
<1> QED
  BY <1>0, <1>4, <1>5

LEMMA UnfoldsTop ==
  ASSUME NEW s \in Seq(FrameSet), NEW fr \in FrameSet
  PROVE  /\ \A V, N : Unfolds(s, V) /\ N = Chain(Back(V), fr.before) /\ GoesOn(fr.before) /\ Mild(fr.before) =>
              /\ Unfolds(Append(s, fr), Append(V, N)) /\ Back(Append(V, N)) = N
              /\ N \in SUBSET Effect /\ GoesOn(N) /\ Mild(N)
         /\ \A W : Unfolds(Append(s, fr), W) =>
              \E V, N : /\ Unfolds(s, V) /\ N = Chain(Back(V), fr.before) /\ N \in SUBSET Effect
                        /\ W = Append(V, N) /\ Back(W) = N /\ GoesOn(N) /\ Mild(N)
<1> DEFINE t == Append(s, fr)
<1>0. t = Append(s, fr) /\ Extends(t, s, fr)
  BY Appended
<1> HIDE DEF t
<1>1. /\ Len(t) = Len(s) + 1 /\ t[Len(t)] = fr /\ Len(s) \in Nat
      /\ \A k \in 1..Len(s) : t[k] = s[k]
  BY <1>0 DEF Extends
<1>2. /\ \A k \in 1..Len(t) : k \in 1..Len(s) \/ k = Len(t)
      /\ \A k \in 1..Len(s) : k \in 1..Len(t) /\ k - 1 \in 0..Len(s)
      /\ Len(t) \in 1..Len(t) /\ Len(t) - 1 = Len(s)
  BY <1>1
<1>3. ASSUME NEW V, NEW N, Unfolds(s, V), N = Chain(Back(V), fr.before), GoesOn(fr.before), Mild(fr.before)
      PROVE  /\ Unfolds(t, Append(V, N)) /\ Back(Append(V, N)) = N
             /\ N \in SUBSET Effect /\ GoesOn(N) /\ Mild(N)
  <2>1. V \in Seq(SUBSET Effect) /\ Len(V) = Len(s)
    BY <1>3 DEF Unfolds
  <2>2. N \in SUBSET Effect /\ GoesOn(N) /\ Mild(N)
    <3>1. Back(V) \in SUBSET Effect /\ GoesOn(Back(V)) /\ Mild(Back(V)) /\ fr.before \in SUBSET Effect
      BY <1>3, BackTyped, FrameTyped
    <3> QED
      BY <1>3, <3>1, ChainOn, ChainTyped
  <2> DEFINE W == Append(V, N)
  <2>3. /\ W \in Seq(SUBSET Effect) /\ Len(W) = Len(t) /\ W[Len(t)] = N
        /\ \A k \in 1..Len(s) : W[k] = V[k]
    BY <1>1, <2>1, <2>2
  <2> HIDE DEF W
  <2>4. \A k \in 0..Len(s) : BackTo(W, k) = BackTo(V, k)
    BY <1>1, <2>3 DEF BackTo
  <2>5. Len(t) # 0 /\ Len(s) \in 0..Len(s)
    BY <1>1
  <2>6. Back(W) = N /\ BackTo(W, Len(t) - 1) = Back(V)
    BY <1>2, <2>1, <2>3, <2>4, <2>5 DEF Back, BackTo
  <2>7. ASSUME NEW k \in 1..Len(t)
        PROVE  W[k] = Chain(BackTo(W, k - 1), t[k].before) /\ GoesOn(W[k]) /\ Mild(W[k])
    <3>1. CASE k \in 1..Len(s)
      <4>1. V[k] = Chain(BackTo(V, k - 1), s[k].before) /\ GoesOn(V[k]) /\ Mild(V[k])
        BY <1>3, <3>1 DEF Unfolds
      <4>2. W[k] = V[k] /\ t[k] = s[k] /\ BackTo(W, k - 1) = BackTo(V, k - 1)
        BY <1>1, <1>2, <2>3, <2>4, <3>1
      <4> QED
        BY <4>1, <4>2
    <3>2. CASE k = Len(t)
      BY <1>1, <1>3, <2>2, <2>3, <2>6, <3>2
    <3> QED
      BY <1>2, <3>1, <3>2
  <2>8. Unfolds(t, W)
    BY <2>3, <2>7 DEF Unfolds
  <2> QED
    BY <2>2, <2>6, <2>8 DEF W
<1>4. ASSUME NEW W, Unfolds(t, W)
      PROVE  \E V, N : /\ Unfolds(s, V) /\ N = Chain(Back(V), fr.before) /\ N \in SUBSET Effect
                       /\ W = Append(V, N) /\ Back(W) = N /\ GoesOn(N) /\ Mild(N)
  <2>1. W \in Seq(SUBSET Effect) /\ Len(W) = Len(s) + 1
    BY <1>1, <1>4 DEF Unfolds
  <2> DEFINE V == SubSeq(W, 1, Len(s))  N == W[Len(t)]
  <2>2. /\ V \in Seq(SUBSET Effect) /\ Len(V) = Len(s) /\ N \in SUBSET Effect /\ W = Append(V, N)
        /\ \A k \in 1..Len(s) : V[k] = W[k]
    BY <1>1, <2>1
  <2>3. N = W[Len(t)]
    OBVIOUS
  <2> HIDE DEF V, N
  <2>4. \A k \in 0..Len(s) : BackTo(W, k) = BackTo(V, k)
    BY <1>1, <2>2 DEF BackTo
  <2>5. Len(t) # 0 /\ Len(s) \in 0..Len(s) /\ Len(W) = Len(t)
    BY <1>1, <2>1
  <2>6. Back(W) = N /\ BackTo(W, Len(t) - 1) = Back(V)
    BY <1>2, <2>2, <2>3, <2>4, <2>5 DEF Back, BackTo
  <2>7. N = Chain(Back(V), fr.before) /\ GoesOn(N) /\ Mild(N)
    BY <1>1, <1>2, <1>4, <2>3, <2>6 DEF Unfolds
  <2>8. ASSUME NEW k \in 1..Len(s)
        PROVE  V[k] = Chain(BackTo(V, k - 1), s[k].before) /\ GoesOn(V[k]) /\ Mild(V[k])
    <3>1. W[k] = Chain(BackTo(W, k - 1), t[k].before) /\ GoesOn(W[k]) /\ Mild(W[k])
      BY <1>2, <1>4 DEF Unfolds
    <3>2. W[k] = V[k] /\ t[k] = s[k] /\ BackTo(W, k - 1) = BackTo(V, k - 1)
      BY <1>1, <1>2, <2>2, <2>4
    <3> QED
      BY <3>1, <3>2
  <2>9. Unfolds(s, V)
    BY <2>2, <2>8 DEF Unfolds
  <2> QED
    BY <2>2, <2>6, <2>7, <2>9
<1> QED
  BY <1>0, <1>3, <1>4

LEMMA PendingMore ==
  ASSUME NEW f, NEW s, NEW P, NEW Q, Sets(f, P) => Sets(f, Q), Pending(f, s, P)
  PROVE  Pending(f, s, Q)
  BY DEF Pending

LEMMA PendingTop ==
  ASSUME NEW f, NEW s \in Seq(FrameSet), NEW fr \in FrameSet, NEW P
  PROVE  Pending(f, Append(s, fr), P) <=>
           \/ fr.kind \in Repeats /\ Sets(f, P)
           \/ Pending(f, s, P \cup (fr.before \cup Part(fr)))
<1> DEFINE t == Append(s, fr)
<1>0. t = Append(s, fr) /\ Extends(t, s, fr)
  BY Appended
<1> HIDE DEF t
<1>1. /\ Len(t) = Len(s) + 1 /\ t[Len(t)] = fr /\ Len(s) \in Nat
      /\ \A k \in 1..Len(s) : t[k] = s[k]
  BY <1>0 DEF Extends
<1>2. /\ \A k \in 1..Len(t) : k \in 1..Len(s) \/ k = Len(t)
      /\ \A k \in 1..Len(s) : k \in 1..Len(t) /\ Len(t) > k
      /\ Len(t) \in 1..Len(t) /\ \A k \in 1..Len(t) : ~(k > Len(t))
  BY <1>1
<1> DEFINE Q == P \cup (fr.before \cup Part(fr))  C(r) == r.before \cup Part(r)
<1>3. Sets(f, Q) <=> Sets(f, P) \/ Sets(f, C(fr))
  BY DEF Sets
<1> HIDE DEF Q
<1>4. ASSUME Pending(f, t, P) PROVE (fr.kind \in Repeats /\ Sets(f, P)) \/ Pending(f, s, Q)
  <2>1. PICK k \in 1..Len(t) :
            /\ t[k].kind \in Repeats
            /\ Sets(f, P) \/ \E j \in 1..Len(t) : j > k /\ Sets(f, C(t[j]))
    BY <1>4 DEF Pending
  <2> HIDE DEF C
  <2>2. CASE k = Len(t)
    BY <1>1, <1>2, <2>1, <2>2
  <2>3. CASE k \in 1..Len(s)
    <3>1. Sets(f, Q) \/ \E j \in 1..Len(s) : j > k /\ Sets(f, C(s[j]))
      BY <1>1, <1>2, <1>3, <2>1
    <3> QED
      BY <1>1, <2>1, <2>3, <3>1 DEF Pending, C
  <2> QED
    BY <1>2, <2>2, <2>3
<1>5. ASSUME fr.kind \in Repeats, Sets(f, P) PROVE Pending(f, t, P)
  BY <1>1, <1>2, <1>5 DEF Pending
<1>6. ASSUME Pending(f, s, Q) PROVE Pending(f, t, P)
  <2>1. PICK k \in 1..Len(s) :
            /\ s[k].kind \in Repeats
            /\ Sets(f, Q) \/ \E j \in 1..Len(s) : j > k /\ Sets(f, C(s[j]))
    BY <1>6 DEF Pending
  <2> HIDE DEF C
  <2>2. Sets(f, P) \/ \E j \in 1..Len(t) : j > k /\ Sets(f, C(t[j]))
    BY <1>1, <1>2, <1>3, <2>1
  <2> QED
    BY <1>1, <1>2, <2>1, <2>2 DEF Pending, C
<1> QED
  BY <1>0, <1>4, <1>5, <1>6 DEF Q

\* The flags cs and fi fit the paths to where they are, and so do those that are kept.
Judge(so, x, set, s, W, cs, fi, P) ==
    HeldStack(so, x, set, s, W) /\ Fair(so, x, set, cs, fi, Chain(Back(W), P))

LEMMA StartsPlain ==
  ASSUME NEW fr \in FrameSet
  PROVE  /\ fr.kind # "label" => StartCs(fr) = fr.cs /\ StartFi(fr) = fr.fi
         /\ fr.kind = "label" => StartCs(fr) = fr.cs \cup {"label"} /\ StartFi(fr) = MarkFields(fr.fi, "label")
<1>1. fr.fi \in [Fields -> SUBSET Flags]
  BY FrameTyped
<1>2. CASE fr.kind # "label"
  <2>1. StartCs(fr) = fr.cs /\ \A f \in Fields : StartFi(fr)[f] = fr.fi[f]
    BY <1>2 DEF StartCs, StartFi
  <2>2. StartFi(fr) = fr.fi
    BY <1>1, <1>2, <2>1 DEF StartFi
  <2> QED
    BY <1>2, <2>1, <2>2
<1>3. CASE fr.kind = "label"
  <2>1. {l \in {"label"} : fr.kind = "label"} = {"label"}
    BY <1>3
  <2> QED
    BY <1>3, <2>1 DEF StartCs, StartFi, MarkFields
<1> QED
  BY <1>2, <1>3

LEMMA SetsUnion ==
  ASSUME NEW f, NEW P, NEW Q
  PROVE  Sets(f, P \cup Q) <=> Sets(f, P) \/ Sets(f, Q)
  BY DEF Sets

\* What runs first and what runs then both show, if one can come from one to the other.
LEMMA SetsChain ==
  ASSUME NEW f \in Fields, NEW A \in SUBSET Effect, NEW P \in SUBSET Effect, P # {}, GoesOn(A)
  PROVE  Sets(f, Chain(A, P)) <=> Sets(f, A) \/ Sets(f, P)
<1>1. \A r : r \in Chain(A, P) <=> \E p \in A, q \in P : r = Then(p, q)
  BY InChain
<1>2. PICK p0 \in A : p0.out = "on"
  BY DEF GoesOn
<1>3. PICK q0 \in P : TRUE
  OBVIOUS
<1>4. ASSUME NEW p \in A, NEW q \in P
      PROVE  /\ p.sets[f] > 0 => Then(p, q).sets[f] > 0
             /\ p.out = "on" /\ q.sets[f] > 0 => Then(p, q).sets[f] > 0
             /\ Then(p, q).sets[f] > 0 => p.sets[f] > 0 \/ q.sets[f] > 0
  BY ThenCounts
<1>5. ASSUME Sets(f, A) PROVE Sets(f, Chain(A, P))
  BY <1>1, <1>3, <1>4, <1>5 DEF Sets
<1>6. ASSUME Sets(f, P) PROVE Sets(f, Chain(A, P))
  BY <1>1, <1>2, <1>4, <1>6 DEF Sets
<1>7. ASSUME Sets(f, Chain(A, P)) PROVE Sets(f, A) \/ Sets(f, P)
  BY <1>1, <1>4, <1>7 DEF Sets
<1> QED
  BY <1>5, <1>6, <1>7

\* A construct begins.
LEMMA JudgePush ==
  ASSUME NEW so, NEW x, NEW set, NEW s \in Seq(FrameSet), NEW V, Unfolds(s, V), NEW fr \in FrameSet,
         NEW cs, NEW fi, NEW P \in SUBSET Effect, Mild(P), GoesOn(P),
         NEW cs2, NEW fi2, NEW N, N = Chain(Back(V), fr.before), GoesOn(fr.before), Mild(fr.before),
         Judge(so, x, set, s, V, cs, fi, P),
         fr.cs = cs, fr.fi = fi, fr.cs1 = cs, fr.fi1 = fi, fr.kind \notin {"then", "else", "right"},
         fr.kind # "label" => fr.before = P /\ cs2 = cs /\ fi2 = fi,
         fr.kind = "label" => fr.before = AtLabel(P) /\ cs2 = cs \cup {"label"} /\ fi2 = MarkFields(fi, "label")
  PROVE  /\ Judge(so, x, set, Append(s, fr), Append(V, N), cs2, fi2, {Skip})
         /\ Blame(so, x, s, V, P) => Blame(so, x, Append(s, fr), Append(V, N), {Skip})
<1> DEFINE t == Append(s, fr)  W == Append(V, N)
<1>1. /\ Unfolds(t, W) /\ Back(W) = N /\ N \in SUBSET Effect /\ GoesOn(N) /\ Mild(N)
      /\ V \in Seq(SUBSET Effect) /\ Len(V) = Len(s)
  BY UnfoldsTop DEF Unfolds
<1>2. Back(V) \in SUBSET Effect /\ GoesOn(Back(V)) /\ Mild(Back(V))
  BY BackTyped
<1>3. Chain(Back(W), {Skip}) = N
  BY <1>1, ChainSkip
<1>4. Fair(so, x, set, cs, fi, Chain(Back(V), P)) /\ HeldStack(so, x, set, s, V)
  BY DEF Judge
<1>5. Fair(so, x, set, cs2, fi2, N) /\ (Doomed(so, x, Chain(Back(V), P)) => Doomed(so, x, N))
  <2>1. CASE fr.kind # "label"
    BY <1>4, <2>1
  <2>2. CASE fr.kind = "label"
    BY <1>2, <1>4, <2>2, FairLabel
  <2> QED
    BY <2>1, <2>2
<1>6. StartCs(fr) = cs2 /\ StartFi(fr) = fi2
  BY StartsPlain
<1>7. HeldFrame(so, x, set, fr, N)
  <2>1. fr.kind = "declared" => Fair(so, x, set, fr.cs1, fr.fi1, N)
    BY <1>5
  <2> QED
    BY <1>5, <1>6, <2>1 DEF HeldFrame
<1>8. HeldStack(so, x, set, t, W) /\ (Owed(so, x, s, V) => Owed(so, x, t, W))
  BY <1>1, <1>4, <1>7, HeldTop
<1>9. Judge(so, x, set, t, W, cs2, fi2, {Skip})
  BY <1>3, <1>5, <1>8 DEF Judge
<1>10. x \in Fields /\ Pending(x, s, P) => Pending(x, t, {Skip})
  <2> SUFFICES ASSUME x \in Fields, Pending(x, s, P) PROVE Pending(x, t, {Skip})
    OBVIOUS
  <2>1. Sets(x, P) => Sets(x, fr.before)
    <3>1. CASE fr.kind # "label"
      BY <3>1
    <3>2. CASE fr.kind = "label"
      BY <1>2, <3>2, LabelChain DEF Sets
    <3> QED
      BY <3>1, <3>2
  <2>2. Sets(x, P) => Sets(x, {Skip} \cup (fr.before \cup Part(fr)))
    BY <2>1, SetsUnion
  <2>3. Pending(x, s, {Skip} \cup (fr.before \cup Part(fr)))
    BY <2>2, PendingMore
  <2> QED
    BY <2>3, PendingTop
<1> HIDE DEF t, W
<1>11. Blame(so, x, s, V, P) => Blame(so, x, t, W, {Skip})
  BY <1>3, <1>5, <1>8, <1>10 DEF Blame
<1> QED
  BY <1>9, <1>11 DEF t, W

\* The frame fr goes on as g.
LEMMA JudgeTurn ==
  ASSUME NEW so, NEW x, NEW set, NEW s \in Seq(FrameSet), NEW V, Unfolds(s, V), NEW N \in SUBSET Effect,
         NEW fr \in FrameSet, NEW g \in FrameSet, g.before = fr.before, GoesOn(N), Mild(N),
         NEW cs, NEW fi, NEW P, NEW cs2, NEW fi2, NEW Q,
         Unfolds(Append(s, fr), Append(V, N)), Back(Append(V, N)) = N,
         Judge(so, x, set, Append(s, fr), Append(V, N), cs, fi, P),
         HeldFrame(so, x, set, g, N), Fair(so, x, set, cs2, fi2, Chain(N, Q)),
         OwesFrame(so, x, fr, N) \/ Doomed(so, x, Chain(N, P)) => OwesFrame(so, x, g, N) \/ Doomed(so, x, Chain(N, Q)),
         fr.kind \in Repeats => g.kind \in Repeats /\ Q = P,
         P \cup Part(fr) \subseteq Q \cup Part(g)
  PROVE  /\ Judge(so, x, set, Append(s, g), Append(V, N), cs2, fi2, Q)
         /\ Blame(so, x, Append(s, fr), Append(V, N), P) => Blame(so, x, Append(s, g), Append(V, N), Q)
<1> DEFINE W == Append(V, N)
<1>1. V \in Seq(SUBSET Effect) /\ Len(V) = Len(s)
  BY DEF Unfolds
<1>2. HeldStack(so, x, set, Append(s, fr), W)
  BY DEF Judge
<1>3. HeldStack(so, x, set, Append(s, g), W)
  BY <1>1, <1>2, HeldTop
<1>4. Judge(so, x, set, Append(s, g), W, cs2, fi2, Q)
  BY <1>3 DEF Judge
<1>5. ASSUME Owed(so, x, Append(s, fr), W) \/ Doomed(so, x, Chain(N, P))
      PROVE  Owed(so, x, Append(s, g), W) \/ Doomed(so, x, Chain(N, Q))
  <2>1. /\ Owed(so, x, Append(s, fr), W) <=> Owed(so, x, s, V) \/ OwesFrame(so, x, fr, N)
        /\ Owed(so, x, Append(s, g), W) <=> Owed(so, x, s, V) \/ OwesFrame(so, x, g, N)
    BY <1>1, HeldTop
  <2> QED
    BY <1>5, <2>1
<1>6. ASSUME Pending(x, Append(s, fr), P) PROVE Pending(x, Append(s, g), Q)
  <2>1. (fr.kind \in Repeats /\ Sets(x, P)) \/ Pending(x, s, P \cup (fr.before \cup Part(fr)))
    BY <1>6, PendingTop
  <2>2. CASE fr.kind \in Repeats /\ Sets(x, P)
    BY <2>2, PendingTop
  <2>3. CASE Pending(x, s, P \cup (fr.before \cup Part(fr)))
    <3>1. P \cup (fr.before \cup Part(fr)) \subseteq Q \cup (g.before \cup Part(g))
      OBVIOUS
    <3>2. Sets(x, P \cup (fr.before \cup Part(fr))) => Sets(x, Q \cup (g.before \cup Part(g)))
      BY <3>1 DEF Sets
    <3>3. Pending(x, s, Q \cup (g.before \cup Part(g)))
      BY <2>3, <3>2, PendingMore
    <3> QED
      BY <3>3, PendingTop
  <2> QED
    BY <2>1, <2>2, <2>3
<1> HIDE DEF W
<1>7. Back(W) = N
  BY DEF W
<1>8. Blame(so, x, Append(s, fr), W, P) => Blame(so, x, Append(s, g), W, Q)
  BY <1>5, <1>6, <1>7 DEF Blame
<1> QED
  BY <1>4, <1>8 DEF W

\* The frame is finished; all of it does Q.
LEMMA JudgePop ==
  ASSUME NEW so, NEW x, NEW set, NEW s \in Seq(FrameSet), NEW V, Unfolds(s, V), NEW fr \in FrameSet, NEW N,
         N = Chain(Back(V), fr.before), GoesOn(fr.before), GoesOn(N),
         Unfolds(Append(s, fr), Append(V, N)), Back(Append(V, N)) = N,
         NEW cs, NEW fi, NEW P \in SUBSET Effect, P # {}, NEW cs2, NEW fi2, NEW Q \in SUBSET Effect,
         Judge(so, x, set, Append(s, fr), Append(V, N), cs, fi, P),
         Fair(so, x, set, cs2, fi2, Chain(N, Q)), P \subseteq Q, Part(fr) \subseteq Q,
         fr.kind \in Repeats => AllOn(P) /\ Chain(P, P) \subseteq Q
  PROVE  /\ Judge(so, x, set, s, V, cs2, fi2, Chain(fr.before, Q))
         /\ Blame(so, x, Append(s, fr), Append(V, N), P) => Blame(so, x, s, V, Chain(fr.before, Q))
<1> DEFINE W == Append(V, N)
<1>1. /\ V \in Seq(SUBSET Effect) /\ Len(V) = Len(s) /\ Back(V) \in SUBSET Effect
      /\ fr.before \in SUBSET Effect /\ fr.second \in SUBSET Effect
  BY BackTyped, FrameTyped DEF Unfolds
<1>2. N \in SUBSET Effect
  BY <1>1, ChainTyped
<1>3. Chain(Back(V), Chain(fr.before, Q)) = Chain(N, Q)
  BY <1>1, ChainChain
<1>4. HeldStack(so, x, set, s, V)
  BY <1>1, <1>2, HeldTop DEF Judge
<1>5. Judge(so, x, set, s, V, cs2, fi2, Chain(fr.before, Q))
  BY <1>3, <1>4 DEF Judge
<1>6. \A R : R \subseteq Q /\ Doomed(so, x, Chain(N, R)) => Doomed(so, x, Chain(N, Q))
  <2> SUFFICES ASSUME NEW R, R \subseteq Q, Doomed(so, x, Chain(N, R)) PROVE Doomed(so, x, Chain(N, Q))
    OBVIOUS
  <2>1. Chain(N, R) \subseteq Chain(N, Q)
    BY InChain
  <2> QED
    BY <2>1, DoomedMore
<1>7. ASSUME Owed(so, x, Append(s, fr), W) PROVE Owed(so, x, s, V) \/ Doomed(so, x, Chain(N, Q))
  <2>1. Owed(so, x, s, V) \/ OwesFrame(so, x, fr, N)
    BY <1>1, <1>2, <1>7, HeldTop
  <2>2. OwesFrame(so, x, fr, N) => Doomed(so, x, Chain(N, Q))
    BY <1>6 DEF OwesFrame, Part
  <2> QED
    BY <2>1, <2>2
<1>8. ASSUME x \in Fields, Pending(x, Append(s, fr), P)
      PROVE  Pending(x, s, Chain(fr.before, Q)) \/ Doomed(so, x, Chain(N, Q))
  <2>1. (fr.kind \in Repeats /\ Sets(x, P)) \/ Pending(x, s, P \cup (fr.before \cup Part(fr)))
    BY <1>8, PendingTop
  <2>2. CASE fr.kind \in Repeats /\ Sets(x, P)
    <3>1. PICK p \in P : p.sets[x] > 0 /\ p.out = "on" /\ p \in Effect
      BY <2>2 DEF Sets, AllOn
    <3>2. Then(p, p).sets[x] > 1 /\ Then(p, p) \in Q /\ Then(p, p) \in Effect
      <4>1. Then(p, p) \in Chain(P, P)
        BY <3>1, InChain
      <4> QED
        BY <1>8, <2>2, <3>1, <4>1, ThenCounts
    <3>3. PICK r \in N : r.out = "on" /\ r \in Effect
      BY <1>2 DEF GoesOn
    <3>4. Then(r, Then(p, p)).sets[x] > 1 /\ Then(r, Then(p, p)) \in Chain(N, Q)
      <4>1. Then(r, Then(p, p)) \in Chain(N, Q)
        BY <3>2, <3>3, InChain
      <4> DEFINE q == Then(p, p)
      <4>2. q \in Effect /\ q.sets[x] > 1
        BY <3>2
      <4> HIDE DEF q
      <4>3. Then(r, q).sets[x] > 1
        BY <1>8, <3>3, <4>2, ThenCounts
      <4> QED
        BY <4>1, <4>3 DEF q
    <3>5. DoomedSets(so, x, Chain(N, Q))
      BY <3>4 DEF DoomedSets
    <3> QED
      BY <1>8, <3>5 DEF Doomed
  <2>3. CASE Pending(x, s, P \cup (fr.before \cup Part(fr)))
    <3>1. Sets(x, P \cup (fr.before \cup Part(fr))) => Sets(x, fr.before) \/ Sets(x, Q)
      BY DEF Sets
    <3>2. Sets(x, fr.before) \/ Sets(x, Q) => Sets(x, Chain(fr.before, Q))
      BY <1>1, <1>8, SetsChain
    <3> QED
      BY <2>3, <3>1, <3>2, PendingMore
  <2> QED
    BY <2>1, <2>2, <2>3
<1>9. Doomed(so, x, Chain(N, P)) => Doomed(so, x, Chain(N, Q))
  BY <1>6
<1> HIDE DEF W
<1>10. Back(W) = N
  BY DEF W
<1>11. Blame(so, x, Append(s, fr), W, P) => Blame(so, x, s, V, Chain(fr.before, Q))
  BY <1>3, <1>7, <1>8, <1>9, <1>10 DEF Blame
<1> QED
  BY <1>5, <1>11 DEF W

-----------------------------------------------------------------------------
(* What is reported is true                                                *)

\* W are the paths to the frames.
Just(so, set, er, s, W, cs, fi, P) ==
    /\ Unfolds(s, W) /\ PlainStack(so, s) /\ PlainPart(Around(s), P)
    /\ \A x \in Judgeable(so) : Judge(so, x, set, s, W, cs, fi, P)
    /\ er \cap CallComplaints # {} /\ Straight(so) => Blame(so, Calling, s, W, P)
    /\ er \cap FieldComplaints # {} /\ Direct(so) => \E x \in Judgeable(so) \ {Calling} : Blame(so, x, s, W, P)

JustNow(W) == Just(sort, ctorinit, errors, stack, W, callSuper, fieldinit, paths)
JustNext(W) == Just(sort', ctorinit', errors', stack', W, callSuper', fieldinit', paths')

\* The errors d are reported rightly.
Proper(so, d, s, W, P) ==
    /\ d \cap CallComplaints # {} /\ Straight(so) => Blame(so, Calling, s, W, P)
    /\ d \cap FieldComplaints # {} /\ Direct(so) => \E x \in Judgeable(so) \ {Calling} : Blame(so, x, s, W, P)

LEMMA JudgeableIs ==
  ASSUME NEW so
  PROVE  /\ Straight(so) => Calling \in Judgeable(so)
         /\ Direct(so) => \A f \in so.mustInit \cup so.unassignable : f \in Judgeable(so)
         /\ so.mustInit \cup so.unassignable \subseteq Fields =>
               \A x \in Judgeable(so) : \/ x \notin Fields /\ x = Calling /\ Straight(so)
                                        \/ x \in Fields /\ x # Calling /\ x \in so.mustInit \cup so.unassignable
<1>1. \A x : x \in Judgeable(so) <=> \/ x = Calling /\ Straight(so)
                                     \/ x \in so.mustInit \cup so.unassignable /\ Direct(so)
  BY DEF Judgeable
<1> QED
  BY <1>1, CallingIsNoField

\* A step to the frames t: the flags fit the paths again, and what is wrong stays so.
Leads(so, set, s, W, P, t, X, cs, fi, Q) ==
    /\ Unfolds(t, X) /\ PlainStack(so, t) /\ PlainPart(Around(t), Q)
    /\ \A x \in Judgeable(so) : /\ Judge(so, x, set, t, X, cs, fi, Q)
                                /\ Blame(so, x, s, W, P) => Blame(so, x, t, X, Q)

LEMMA JustStep ==
  ASSUME NEW so, so.mustInit \cup so.unassignable \subseteq Fields,
         NEW set, NEW er, NEW s, NEW W, NEW cs, NEW fi, NEW P, Just(so, set, er, s, W, cs, fi, P),
         NEW set2, NEW er2, NEW t, NEW X, NEW cs2, NEW fi2, NEW Q, NEW d,
         Leads(so, set2, s, W, P, t, X, cs2, fi2, Q), er2 \subseteq er \cup d, Proper(so, d, t, X, Q)
  PROVE  Just(so, set2, er2, t, X, cs2, fi2, Q)
<1>1. er2 \cap CallComplaints # {} /\ Straight(so) => Blame(so, Calling, t, X, Q)
  <2> SUFFICES ASSUME er2 \cap CallComplaints # {}, Straight(so) PROVE Blame(so, Calling, t, X, Q)
    OBVIOUS
  <2>1. CASE er \cap CallComplaints # {}
    <3>1. Blame(so, Calling, s, W, P)
      BY <2>1 DEF Just
    <3> QED
      BY <3>1, JudgeableIs DEF Leads
  <2>2. CASE d \cap CallComplaints # {}
    BY <2>2 DEF Proper
  <2> QED
    BY <2>1, <2>2
<1>2. er2 \cap FieldComplaints # {} /\ Direct(so) => \E x \in Judgeable(so) \ {Calling} : Blame(so, x, t, X, Q)
  <2> SUFFICES ASSUME er2 \cap FieldComplaints # {}, Direct(so) PROVE \E x \in Judgeable(so) \ {Calling} : Blame(so, x, t, X, Q)
    OBVIOUS
  <2>1. CASE er \cap FieldComplaints # {}
    <3>1. PICK x \in Judgeable(so) \ {Calling} : Blame(so, x, s, W, P)
      BY <2>1 DEF Just
    <3> QED
      BY <3>1 DEF Leads
  <2>2. CASE d \cap FieldComplaints # {}
    BY <2>2 DEF Proper
  <2> QED
    BY <2>1, <2>2
<1> QED
  BY <1>1, <1>2 DEF Just, Leads

\* What a sort is made of.
LEMMA SortFields ==
  ASSUME Typed
  PROVE  sort.mustInit \subseteq Fields /\ sort.unassignable \subseteq Fields
         /\ sort.mustInit \cup sort.unassignable \subseteq Fields
  BY SortAssumption DEF Typed, IsSort

LEMMA PlainShaped ==
  ASSUME NEW so, NEW s, PlainStack(so, s)
  PROVE  Shaped(so, s)
<1>1. QuietEffect(Skip)
  BY SkipFields DEF QuietEffect
<1>2. \A w, fr : PlainFrame(so, w, fr) => ShapedFrame(so, w, fr)
  BY <1>1 DEF PlainFrame, ShapedFrame
<1> QED
  BY <1>2 DEF PlainStack, Shaped

\* What a frame does that ends, all its parts together.
LEMMA PlainPop ==
  ASSUME NEW so, NEW w, NEW fr \in FrameSet, PlainFrame(so, w, fr), NEW P \in SUBSET Effect,
         PlainPart(w \cup {fr.kind}, P), NEW Q \in SUBSET Effect, Q # {},
         Q \subseteq ({Skip} \cup P) \cup (Part(fr) \cup Chain(P, P))
  PROVE  PlainPart(w, Chain(fr.before, Q))
<1>1. fr.before \in SUBSET Effect /\ fr.second \in SUBSET Effect /\ Mild(fr.before) /\ Mild(fr.second) /\ Mild(P)
  BY FrameTyped DEF PlainFrame, PlainPart
<1>2. Mild(Q)
  <2>1. Mild(Chain(P, P)) /\ Mild({Skip})
    BY <1>1, ChainOn, SkipFields DEF Mild
  <2> QED
    BY <1>1, <2>1 DEF Mild, Part
<1>3. Mild(Chain(fr.before, Q))
  BY <1>1, <1>2, ChainOn
<1>4. ASSUME Sheltered(w) PROVE AllOn(Chain(fr.before, Q))
  <2>1. Sheltered(w \cup {fr.kind})
    BY <1>4 DEF Sheltered
  <2>2. AllOn(P) /\ AllOn(fr.second) /\ AllOn(fr.before)
    BY <1>4, <2>1 DEF PlainFrame, PlainPart
  <2>3. AllOn(Chain(P, P)) /\ AllOn({Skip})
    BY <2>2, ChainOn, SkipFields DEF AllOn
  <2>4. AllOn(Q)
    BY <2>2, <2>3 DEF AllOn, Part
  <2> QED
    BY <1>1, <2>2, <2>4, ChainOn
<1>5. ASSUME Quiet(w) PROVE Chain(fr.before, Q) = {Skip}
  <2>1. Quiet(w \cup {fr.kind})
    BY <1>5 DEF Quiet
  <2>2. P = {Skip} /\ fr.second = {Skip} /\ fr.before = {Skip}
    BY <1>5, <2>1 DEF PlainFrame, PlainPart
  <2>3. Chain({Skip}, {Skip}) = {Skip}
    BY SkipLive, ChainSkip
  <2>4. Q = {Skip}
    BY <2>2, <2>3 DEF Part
  <2> QED
    BY <2>2, <2>3, <2>4
<1> QED
  BY <1>3, <1>4, <1>5 DEF PlainPart

LEMMA HeldMore ==
  ASSUME NEW so, NEW x, NEW set, NEW more, set \subseteq more, NEW s, NEW W, HeldStack(so, x, set, s, W)
  PROVE  HeldStack(so, x, more, s, W)
<1>1. \A fr, N : HeldFrame(so, x, set, fr, N) => HeldFrame(so, x, more, fr, N)
  BY FairSet DEF HeldFrame
<1> QED
  BY <1>1 DEF HeldStack

\* One construct that does q.
LEMMA JustMoves ==
  ASSUME Typed, NEW W, JustNow(W), NEW q \in Effect, q.out \in {"on", "return"}, paths' = Chain(paths, {q}),
         stack' = stack, sort' = sort, ctorinit \subseteq ctorinit', FallsThrough,
         ~Quiet(Around(stack)), q.out = "return" => ~Sheltered(Around(stack)),
         \A x \in Judgeable(sort) :
            Fair(sort, x, ctorinit', callSuper', fieldinit', Chain(Chain(Back(W), paths), {q})),
         NEW d, errors' \subseteq errors \cup d, Proper(sort, d, stack, W, paths')
  PROVE  JustNext(W)
<1>1. /\ Unfolds(stack, W) /\ PlainStack(sort, stack) /\ PlainPart(Around(stack), paths)
      /\ stack \in Seq(FrameSet) /\ paths \in SUBSET Effect /\ paths # {} /\ {q} \in SUBSET Effect
  BY DEF JustNow, Just, Typed, Effects
<1>2. Back(W) \in SUBSET Effect /\ GoesOn(Back(W)) /\ Mild(Back(W))
  BY <1>1, BackTyped
<1>3. Chain(Back(W), Chain(paths, {q})) = Chain(Chain(Back(W), paths), {q})
  BY <1>1, <1>2, ChainChain
<1>4. Chain(Back(W), paths) \in SUBSET Effect
  BY <1>1, <1>2, ChainTyped
<1>5. PlainPart(Around(stack), paths')
  <2>1. Mild(paths) /\ (Sheltered(Around(stack)) => AllOn(paths))
    BY <1>1 DEF PlainPart
  <2>2. Mild({q}) /\ (q.out = "on" => AllOn({q}))
    BY DEF Mild, AllOn
  <2> QED
    BY <1>1, <2>1, <2>2, ChainOn DEF PlainPart
<1>6. ASSUME NEW x \in Judgeable(sort)
      PROVE  /\ Judge(sort, x, ctorinit', stack, W, callSuper', fieldinit', paths')
             /\ Blame(sort, x, stack, W, paths) => Blame(sort, x, stack, W, paths')
  <2>1. Judge(sort, x, ctorinit, stack, W, callSuper, fieldinit, paths)
    BY DEF JustNow, Just
  <2>2. HeldStack(sort, x, ctorinit', stack, W)
    BY <2>1, HeldMore DEF Judge
  <2>3. Judge(sort, x, ctorinit', stack, W, callSuper', fieldinit', paths')
    BY <1>3, <2>2 DEF Judge
  <2>4. Doomed(sort, x, Chain(Back(W), paths)) => Doomed(sort, x, Chain(Back(W), paths'))
    BY <1>3, <1>4, ChainWith
  <2>5. x \in Fields /\ Pending(x, stack, paths) => Pending(x, stack, paths')
    <3> SUFFICES ASSUME x \in Fields, Pending(x, stack, paths) PROVE Pending(x, stack, paths')
      OBVIOUS
    <3>1. GoesOn(paths)
      BY DEF FallsThrough, GoesOn
    <3>2. Sets(x, paths) => Sets(x, paths')
      BY <1>1, <3>1, SetsChain
    <3> QED
      BY <3>2, PendingMore
  <2> QED
    BY <2>3, <2>4, <2>5 DEF Blame
<1>7. Just(sort, ctorinit, errors, stack, W, callSuper, fieldinit, paths)
  BY DEF JustNow
<1>8. Leads(sort, ctorinit', stack, W, paths, stack, W, callSuper', fieldinit', paths')
  BY <1>1, <1>5, <1>6 DEF Leads
<1>9. sort.mustInit \cup sort.unassignable \subseteq Fields
  BY SortFields
<1>10. Just(sort, ctorinit', errors', stack, W, callSuper', fieldinit', paths')
  BY <1>7, <1>8, <1>9, JustStep
<1> QED
  BY <1>10 DEF JustNext

\* The paths to here.
LEMMA Here ==
  ASSUME Typed, NEW W, JustNow(W), FallsThrough
  PROVE  /\ Chain(Back(W), paths) \in SUBSET Effect /\ GoesOn(Chain(Back(W), paths))
         /\ \A x \in Judgeable(sort) : Fair(sort, x, ctorinit, callSuper, fieldinit, Chain(Back(W), paths))
         /\ \A q \in Effect : Chain(Back(W), Chain(paths, {q})) = Chain(Chain(Back(W), paths), {q})
         /\ Shaped(sort, stack)
<1>1. Unfolds(stack, W) /\ stack \in Seq(FrameSet) /\ paths \in SUBSET Effect
  BY DEF JustNow, Just, Typed, Effects
<1>2. Back(W) \in SUBSET Effect /\ GoesOn(Back(W))
  BY <1>1, BackTyped
<1>3. GoesOn(paths)
  BY DEF FallsThrough, GoesOn
<1>4. \A x \in Judgeable(sort) : Fair(sort, x, ctorinit, callSuper, fieldinit, Chain(Back(W), paths))
  BY DEF JustNow, Just, Judge
<1>5. \A q \in Effect : {q} \in SUBSET Effect
  OBVIOUS
<1>6. \A q \in Effect : Chain(Back(W), Chain(paths, {q})) = Chain(Chain(Back(W), paths), {q})
  BY <1>1, <1>2, <1>5, ChainChain
<1>7. Shaped(sort, stack)
  BY PlainShaped DEF JustNow, Just
<1>8. Chain(Back(W), paths) \in SUBSET Effect /\ GoesOn(Chain(Back(W), paths))
  BY <1>1, <1>2, <1>3, ChainTyped, ChainOn
<1> QED
  BY <1>4, <1>6, <1>7, <1>8

LEMMA JustCall ==
  ASSUME Settled, Typed, NEW W, JustNow(W), NEW c \in Calls, Call(c)
  PROVE  JustNext(W)
<1> DEFINE q == CallEffect(c)  N == Chain(Back(W), paths)
<1>1. /\ q \in Effect /\ q.calls = 1 /\ q.out = "on" /\ ~q.again
  BY CallEffectFields
<1>2. /\ paths' = Chain(paths, {q}) /\ stack' = stack /\ sort' = sort /\ ctorinit' = ctorinit /\ FallsThrough
      /\ fieldinit' = (IF c = "this" THEN MarkFields(fieldinit, "this") ELSE fieldinit)
      /\ ~Halted(callSuper) => callSuper' = callSuper \cup {"any", c}
      /\ errors' \subseteq errors \cup CallErrors
  BY DEF Call, CallEffect, Construct, Settled
<1>3. /\ N \in SUBSET Effect /\ GoesOn(N) /\ Shaped(sort, stack)
      /\ \A x \in Judgeable(sort) : Fair(sort, x, ctorinit, callSuper, fieldinit, N)
      /\ Chain(Back(W), paths') = Chain(N, {q})
  BY <1>1, <1>2, Here
<1>4. ~Quiet(Around(stack))
  BY <1>3, Where DEF Call
<1> HIDE DEF N
<1>5. ASSUME NEW x \in Judgeable(sort)
      PROVE  /\ Fair(sort, x, ctorinit', callSuper', fieldinit', Chain(N, {q}))
             /\ x \notin Fields /\ (Called(callSuper) \/ ("return" \in callSuper /\ "any" \notin callSuper))
                  => Doomed(sort, x, Chain(N, {q}))
  <2>1. Fair(sort, x, ctorinit, callSuper, fieldinit, N)
    BY <1>3
  <2>2. callSuper' = callSuper \cup {"any", c}
    BY <1>2, <2>1 DEF Fair, Halted
  <2> QED
    BY <1>2, <1>3, <2>1, <2>2, FairCall
<1>6. Proper(sort, CallErrors, stack, W, paths')
  <2>1. CallErrors \cap FieldComplaints = {}
    BY DEF CallErrors, When, FieldComplaints
  <2>2. ASSUME CallErrors \cap CallComplaints # {}, Straight(sort) PROVE Blame(sort, Calling, stack, W, paths')
    <3>1. Called(callSuper) \/ ("return" \in callSuper /\ "any" \notin callSuper)
      BY <2>2 DEF CallErrors, When, CallComplaints
    <3>2. Calling \in Judgeable(sort) /\ Calling \notin Fields
      BY <2>2, JudgeableIs, CallingIsNoField
    <3> QED
      BY <1>3, <1>5, <3>1, <3>2 DEF Blame
  <2> QED
    BY <2>1, <2>2 DEF Proper
<1> HIDE DEF q
<1> QED
  BY <1>1, <1>2, <1>4, <1>5, <1>6, JustMoves DEF N

LEMMA JustReturn ==
  ASSUME Settled, Typed, NEW W, JustNow(W), Return
  PROVE  JustNext(W)
<1> DEFINE q == LeaveEffect("return")  N == Chain(Back(W), paths)
<1>1. /\ q \in Effect /\ q.calls = 0 /\ q.out = "return"
  BY LeaveEffectFields, AllFlags
<1> DEFINE d == ReturnErrors(callSuper) \cup When(\E f \in MustInit : "this" \notin fieldinit[f], "return skips field")
<1>2. /\ paths' = Chain(paths, {q}) /\ stack' = stack /\ sort' = sort /\ ctorinit' = ctorinit /\ FallsThrough
      /\ fieldinit' = MarkFields(fieldinit, "return") /\ callSuper' = callSuper \cup {"return"}
      /\ errors' \subseteq errors \cup d
  BY DEF Return, Leave, LeaveEffect, Construct, Settled
<1>3. /\ N \in SUBSET Effect /\ GoesOn(N) /\ Shaped(sort, stack)
      /\ \A x \in Judgeable(sort) : Fair(sort, x, ctorinit, callSuper, fieldinit, N)
      /\ Chain(Back(W), paths') = Chain(N, {q})
  BY <1>1, <1>2, Here
<1>4. ~Quiet(Around(stack)) /\ ~Sheltered(Around(stack))
  <2>1. Around(stack) \cap Expressions = {} /\ ~Looped(Around(stack)) /\ ~Quiet(Around(stack))
    BY <1>3, Where DEF Return
  <2> QED
    BY <2>1 DEF Sheltered, Looped
<1> HIDE DEF N
<1>5. ASSUME NEW x \in Judgeable(sort)
      PROVE  /\ Fair(sort, x, ctorinit', callSuper', fieldinit', Chain(N, {q}))
             /\ x \notin Fields /\ "any" \in callSuper /\ ~Called(callSuper) => Doomed(sort, x, Chain(N, {q}))
             /\ x \in Fields /\ x \in sort.mustInit /\ "this" \notin fieldinit[x] => Doomed(sort, x, Chain(N, {q}))
  BY <1>2, <1>3, FairReturn
<1>6. Proper(sort, d, stack, W, paths')
  <2>1. ASSUME d \cap CallComplaints # {}, Straight(sort) PROVE Blame(sort, Calling, stack, W, paths')
    <3>1. "any" \in callSuper /\ ~Called(callSuper)
      BY <2>1 DEF ReturnErrors, When, CallComplaints
    <3>2. Calling \in Judgeable(sort) /\ Calling \notin Fields
      BY <2>1, JudgeableIs, CallingIsNoField
    <3> QED
      BY <1>3, <1>5, <3>1, <3>2 DEF Blame
  <2>2. ASSUME d \cap FieldComplaints # {}, Direct(sort)
        PROVE  \E x \in Judgeable(sort) \ {Calling} : Blame(sort, x, stack, W, paths')
    <3>1. PICK f \in MustInit : "this" \notin fieldinit[f]
      BY <2>2 DEF ReturnErrors, When, FieldComplaints
    <3>2. f \in Judgeable(sort) /\ f \in Fields /\ f # Calling /\ f \in sort.mustInit
      BY <2>2, <3>1, SortFields, JudgeableIs, CallingIsNoField DEF MustInit
    <3> QED
      BY <1>3, <1>5, <3>1, <3>2 DEF Blame
  <2> QED
    BY <2>1, <2>2 DEF Proper
<1> HIDE DEF q, d
<1> QED
  BY <1>1, <1>2, <1>4, <1>5, <1>6, JustMoves DEF N

LEMMA JustAssign ==
  ASSUME Settled, Typed, NEW W, JustNow(W), NEW f \in Fields, Assign(f)
  PROVE  JustNext(W)
<1> DEFINE q == SetEffect(f)  N == Chain(Back(W), paths)  d == AssignErrors(f)
<1>1. /\ q \in Effect /\ q.out = "on" /\ q.sets[f] = 1
  BY SetEffectFields
<1>2. /\ paths' = Chain(paths, {q}) /\ stack' = stack /\ sort' = sort /\ ctorinit' = ctorinit \cup {f} /\ FallsThrough
      /\ fieldinit' = [fieldinit EXCEPT ![f] = @ \cup {"this"}] /\ callSuper' = callSuper
      /\ errors' = errors \cup d
  BY DEF Assign, SetEffect, Construct, Settled
<1>3. /\ N \in SUBSET Effect /\ GoesOn(N) /\ Shaped(sort, stack)
      /\ \A x \in Judgeable(sort) : Fair(sort, x, ctorinit, callSuper, fieldinit, N)
      /\ Chain(Back(W), paths') = Chain(N, {q})
  BY <1>1, <1>2, Here
<1>4. ~Quiet(Around(stack)) /\ fieldinit \in [Fields -> SUBSET Flags]
  BY <1>3, Where DEF Assign, Typed
<1> HIDE DEF N
<1>5. ASSUME NEW x \in Judgeable(sort)
      PROVE  /\ Fair(sort, x, ctorinit', callSuper', fieldinit', Chain(N, {q}))
             /\ x = f /\ ("this" \in fieldinit[f] \/ "label" \in fieldinit[f]) => Doomed(sort, x, Chain(N, {q}))
  BY <1>2, <1>3, <1>4, FairAssign
<1>6. Proper(sort, d, stack, W, paths')
  <2>1. d \cap CallComplaints = {}
    BY DEF AssignErrors, When, CallComplaints
  <2>2. ASSUME d \cap FieldComplaints # {}, Direct(sort)
        PROVE  \E x \in Judgeable(sort) \ {Calling} : Blame(sort, x, stack, W, paths')
    <3>1. /\ f \in Unassignable \cup MustInit
          /\ "this" \in fieldinit[f] \/ "label" \in fieldinit[f] \/ noctor > 0
      BY <2>2 DEF AssignErrors, When, FieldComplaints
    <3>2. f \in Judgeable(sort) /\ f # Calling
      BY <2>2, <3>1, JudgeableIs, CallingIsNoField DEF MustInit, Unassignable
    <3>3. CASE "this" \in fieldinit[f] \/ "label" \in fieldinit[f]
      BY <1>3, <1>5, <3>2, <3>3 DEF Blame
    <3>4. CASE noctor > 0
      <4>1. noctor = Cardinality(LoopsOf(stack)) /\ stack \in Seq(FrameSet) /\ paths \in SUBSET Effect
        BY DEF Typed, Effects
      <4>2. LoopsOf(stack) # {}
        <5>1. Cardinality({}) = 0
          BY FS_EmptySet
        <5>2. ~(0 > 0)
          OBVIOUS
        <5>3. CASE LoopsOf(stack) = {}
          <6>1. noctor = 0
            BY <4>1, <5>1, <5>3
          <6> QED
            BY <3>4, <5>2, <6>1
        <5> QED
          BY <5>3
      <4>3. PICK k \in 1..Len(stack) : stack[k].kind \in Loops
        BY <4>2 DEF LoopsOf
      <4>4. Has(sort, stack[k].kind)
        BY <4>3 DEF JustNow, Just, PlainStack, PlainFrame
      <4>5. stack[k].kind \in Repeats
        BY <2>2, <4>3, <4>4 DEF Direct, Loops, Repeats
      <4>6. Sets(f, paths')
        <5>1. GoesOn(paths)
          BY <1>2 DEF FallsThrough, GoesOn
        <5> DEFINE P == {q}
        <5>2. P \in SUBSET Effect /\ P # {} /\ Sets(f, P) /\ paths' = Chain(paths, P)
          BY <1>1, <1>2 DEF Sets
        <5> HIDE DEF P
        <5>3. Sets(f, Chain(paths, P))
          BY <4>1, <5>1, <5>2, SetsChain
        <5> QED
          BY <5>2, <5>3
      <4>7. Pending(f, stack, paths')
        BY <4>5, <4>6 DEF Pending
      <4> QED
        BY <3>2, <4>7 DEF Blame
    <3> QED
      BY <3>1, <3>3, <3>4
  <2> QED
    BY <2>1, <2>2 DEF Proper
<1> HIDE DEF q, d
<1> QED
  BY <1>1, <1>2, <1>4, <1>5, <1>6, JustMoves DEF N

\* What is known where no error is reported: the step leads on.
LEMMA JustLeads ==
  ASSUME Typed, NEW W, JustNow(W), sort' = sort, NEW X, NEW d,
         Leads(sort, ctorinit', stack, W, paths, stack', X, callSuper', fieldinit', paths'),
         errors' \subseteq errors \cup d, Proper(sort, d, stack', X, paths')
  PROVE  JustNext(X)
<1>1. Just(sort, ctorinit, errors, stack, W, callSuper, fieldinit, paths)
  BY DEF JustNow
<1>2. sort.mustInit \cup sort.unassignable \subseteq Fields
  BY SortFields
<1>3. Just(sort, ctorinit', errors', stack', X, callSuper', fieldinit', paths')
  BY <1>1, <1>2, JustStep
<1> QED
  BY <1>3 DEF JustNext

LEMMA NoErrors ==
  ASSUME NEW so, NEW s, NEW W, NEW P
  PROVE  Proper(so, {}, s, W, P)
  BY DEF Proper

LEMMA JustBegin ==
  ASSUME Settled, Typed, NEW W, JustNow(W), Begins
  PROVE  \E X : JustNext(X)
<1>1. sort' = sort /\ paths' = {Skip} /\ FallsThrough /\ errors' = errors /\ ctorinit' = ctorinit
  BY BeginsPush DEF Settled
<1>2. PICK fr : /\ Begun(fr) /\ Pushes(fr)
                /\ fr.kind \notin {"left", "operand"} => ~InExpression
                /\ fr.kind = "operand" => "&&" \in sort.language
                /\ fr.kind \in Loops \cup {"label"} => fr.kind \in sort.language
                /\ fr.kind # "label" => callSuper' = callSuper /\ fieldinit' = fieldinit
                /\ fr.kind = "label" => /\ callSuper' = callSuper \cup {"label"}
                                        /\ fieldinit' = MarkFields(fieldinit, "label")
  BY BeginsPush
<1>3. /\ stack \in Seq(FrameSet) /\ fr \in FrameSet /\ stack' = Append(stack, fr) /\ paths \in SUBSET Effect
      /\ GoesOn(paths)
  BY <1>1, <1>2 DEF Typed, Pushes, Effects, FallsThrough, GoesOn
<1>4. /\ fr.cs = callSuper /\ fr.fi = fieldinit /\ fr.cs1 = callSuper /\ fr.fi1 = fieldinit
      /\ fr.first = {Skip} /\ fr.second = {Skip} /\ fr.kind \notin {"then", "else", "right", "until"}
      /\ fr.kind # "label" => fr.before = paths
      /\ fr.kind = "label" => fr.before = AtLabel(paths)
  <2>1. CASE fr = LabelFrame
    BY <2>1, LabelFrameTyped
  <2>2. ASSUME NEW kind \in Kinds, fr = Frame(kind), kind \notin {"then", "else", "right", "label", "until"}
        PROVE  <1>4
    BY <2>2, NewFrame
  <2> QED
    BY <1>2, <2>1, <2>2 DEF Begun
<1>5. Unfolds(stack, W) /\ PlainStack(sort, stack) /\ PlainPart(Around(stack), paths) /\ Shaped(sort, stack)
  BY PlainShaped DEF JustNow, Just
<1>6. Mild(paths) /\ (Sheltered(Around(stack)) => AllOn(paths)) /\ (Quiet(Around(stack)) => paths = {Skip})
  BY <1>5 DEF PlainPart
<1>7. /\ fr.kind \notin {"left", "operand"} => Around(stack) \cap Expressions = {} /\ ~Quiet(Around(stack))
  BY <1>2, <1>5, Where
<1>8. /\ Mild(fr.before) /\ GoesOn(fr.before) /\ (Sheltered(Around(stack)) => AllOn(fr.before))
      /\ Quiet(Around(stack)) => fr.before = {Skip}
  <2>1. CASE fr.kind # "label"
    BY <1>3, <1>4, <1>6, <2>1
  <2>2. CASE fr.kind = "label"
    <3>1. /\ Mild(AtLabel(paths)) /\ (AllOn(paths) => AllOn(AtLabel(paths)))
          /\ GoesOn(AtLabel(paths)) <=> GoesOn(paths)
      BY <1>3, <1>6, LabelChain
    <3> QED
      BY <1>3, <1>4, <1>6, <1>7, <2>2, <3>1
  <2> QED
    BY <2>1, <2>2
<1>9. Mild({Skip}) /\ AllOn({Skip})
  BY SkipFields DEF Mild, AllOn
<1>10. PlainFrame(sort, Around(stack), fr)
  BY <1>2, <1>4, <1>7, <1>8, <1>9 DEF PlainFrame, Has
<1> DEFINE N == Chain(Back(W), fr.before)  X == Append(W, N)
<1>11. Unfolds(stack', X)
  BY <1>3, <1>5, <1>8, UnfoldsTop
<1>12. PlainStack(sort, stack')
  BY <1>3, <1>5, <1>10, PlainTop
<1>13. PlainPart(Around(stack'), paths')
  BY <1>1, <1>9 DEF PlainPart
<1>14. N = Chain(Back(W), fr.before) /\ X = Append(W, N)
  OBVIOUS
<1> HIDE DEF N, X
<1>15. ASSUME NEW x \in Judgeable(sort)
       PROVE  /\ Judge(sort, x, ctorinit', stack', X, callSuper', fieldinit', paths')
              /\ Blame(sort, x, stack, W, paths) => Blame(sort, x, stack', X, paths')
  <2>1. Judge(sort, x, ctorinit, stack, W, callSuper, fieldinit, paths)
    BY DEF JustNow, Just
  <2>2. /\ Judge(sort, x, ctorinit, Append(stack, fr), Append(W, N), callSuper', fieldinit', {Skip})
        /\ Blame(sort, x, stack, W, paths) => Blame(sort, x, Append(stack, fr), Append(W, N), {Skip})
    <3> DEFINE s == stack  cs == callSuper  fi == fieldinit  P == paths  cs2 == callSuper'  fi2 == fieldinit'
    <3>1. /\ s \in Seq(FrameSet) /\ Unfolds(s, W) /\ fr \in FrameSet /\ P \in SUBSET Effect /\ Mild(P) /\ GoesOn(P)
          /\ N = Chain(Back(W), fr.before) /\ GoesOn(fr.before) /\ Mild(fr.before)
          /\ Judge(sort, x, ctorinit, s, W, cs, fi, P)
          /\ fr.cs = cs /\ fr.fi = fi /\ fr.cs1 = cs /\ fr.fi1 = fi /\ fr.kind \notin {"then", "else", "right"}
          /\ fr.kind # "label" => fr.before = P /\ cs2 = cs /\ fi2 = fi
          /\ fr.kind = "label" => fr.before = AtLabel(P) /\ cs2 = cs \cup {"label"} /\ fi2 = MarkFields(fi, "label")
      <4>1. /\ s \in Seq(FrameSet) /\ Unfolds(s, W) /\ fr \in FrameSet
            /\ P \in SUBSET Effect /\ Mild(P) /\ GoesOn(P)
        BY <1>3, <1>5, <1>6
      <4>2. N = Chain(Back(W), fr.before) /\ GoesOn(fr.before) /\ Mild(fr.before)
        BY <1>8, <1>14
      <4>3. /\ Judge(sort, x, ctorinit, s, W, cs, fi, P)
            /\ fr.cs = cs /\ fr.fi = fi /\ fr.cs1 = cs /\ fr.fi1 = fi /\ fr.kind \notin {"then", "else", "right"}
        BY <1>4, <2>1
      <4>4. /\ fr.kind # "label" => fr.before = P /\ cs2 = cs /\ fi2 = fi
            /\ fr.kind = "label" => fr.before = AtLabel(P) /\ cs2 = cs \cup {"label"} /\ fi2 = MarkFields(fi, "label")
        BY <1>2, <1>4
      <4> HIDE DEF s, cs, fi, P, cs2, fi2
      <4> QED
        BY <4>1, <4>2, <4>3, <4>4
    <3> HIDE DEF s, cs, fi, P, cs2, fi2
    <3>2. /\ Judge(sort, x, ctorinit, Append(s, fr), Append(W, N), cs2, fi2, {Skip})
          /\ Blame(sort, x, s, W, P) => Blame(sort, x, Append(s, fr), Append(W, N), {Skip})
      BY <3>1, JudgePush
    <3> QED
      BY <3>2 DEF s, cs, fi, P, cs2, fi2
  <2> QED
    BY <1>1, <1>3, <1>14, <2>2
<1>16. Leads(sort, ctorinit', stack, W, paths, stack', X, callSuper', fieldinit', paths')
  BY <1>11, <1>12, <1>13, <1>15 DEF Leads
<1> QED
  BY <1>1, <1>16, NoErrors, JustLeads

\* The paths V to the frames below the last one, and N to that.
Topmost(W, V, N) ==
    /\ Outer \in Seq(FrameSet) /\ Top \in FrameSet /\ stack = Append(Outer, Top)
    /\ paths \in SUBSET Effect /\ paths # {}
    /\ Unfolds(Outer, V) /\ N = Chain(Back(V), Top.before) /\ N \in SUBSET Effect
    /\ W = Append(V, N) /\ Back(W) = N /\ GoesOn(N) /\ Mild(N) /\ Unfolds(stack, W)
    /\ PlainStack(sort, Outer) /\ PlainFrame(sort, Around(Outer), Top)
    /\ PlainPart(Around(Outer) \cup {Top.kind}, paths)
    /\ \A x \in Judgeable(sort) :
          /\ Judge(sort, x, ctorinit, stack, W, callSuper, fieldinit, paths)
          /\ HeldFrame(sort, x, ctorinit, Top, N)
          /\ Fair(sort, x, ctorinit, callSuper, fieldinit, Chain(N, paths))

LEMMA JustTop ==
  ASSUME Typed, NEW W, JustNow(W), stack # <<>>
  PROVE  \E V, N : Topmost(W, V, N)
<1>1. Outer \in Seq(FrameSet) /\ Top \in FrameSet /\ stack = Append(Outer, Top)
  BY TopTyped
<1>2. paths \in SUBSET Effect /\ paths # {}
  BY DEF Typed, Effects
<1>3. Unfolds(stack, W) /\ PlainStack(sort, stack) /\ PlainPart(Around(stack), paths)
  BY DEF JustNow, Just
<1>4. PICK V, N : /\ Unfolds(Outer, V) /\ N = Chain(Back(V), Top.before) /\ N \in SUBSET Effect
                  /\ W = Append(V, N) /\ Back(W) = N /\ GoesOn(N) /\ Mild(N)
  <2> DEFINE s == Outer  fr == Top
  <2>1. s \in Seq(FrameSet) /\ fr \in FrameSet /\ Unfolds(Append(s, fr), W)
    BY <1>1, <1>3
  <2> HIDE DEF s, fr
  <2>2. \E V, N : /\ Unfolds(s, V) /\ N = Chain(Back(V), fr.before) /\ N \in SUBSET Effect
                  /\ W = Append(V, N) /\ Back(W) = N /\ GoesOn(N) /\ Mild(N)
    BY <2>1, UnfoldsTop
  <2> QED
    BY <2>2 DEF s, fr
<1>5. Around(stack) = Around(Outer) \cup {Top.kind}
  <2>1. Extends(stack, Outer, Top)
    BY <1>1, Appended
  <2> QED
    BY <2>1 DEF Extends
<1>6. PlainStack(sort, Outer) /\ PlainFrame(sort, Around(Outer), Top)
  <2> DEFINE s == Outer  fr == Top
  <2>1. s \in Seq(FrameSet) /\ fr \in FrameSet /\ PlainStack(sort, Append(s, fr))
    BY <1>1, <1>3
  <2> HIDE DEF s, fr
  <2>2. PlainStack(sort, s) /\ PlainFrame(sort, Around(s), fr)
    BY <2>1, PlainTop
  <2> QED
    BY <2>2 DEF s, fr
<1>7. ASSUME NEW x \in Judgeable(sort)
      PROVE  /\ Judge(sort, x, ctorinit, stack, W, callSuper, fieldinit, paths)
             /\ HeldFrame(sort, x, ctorinit, Top, N)
             /\ Fair(sort, x, ctorinit, callSuper, fieldinit, Chain(N, paths))
  <2>1. Judge(sort, x, ctorinit, stack, W, callSuper, fieldinit, paths)
    BY DEF JustNow, Just
  <2> DEFINE s == Outer  fr == Top
  <2>2. s \in Seq(FrameSet) /\ fr \in FrameSet /\ HeldStack(sort, x, ctorinit, Append(s, fr), Append(V, N))
        /\ V \in Seq(SUBSET Effect) /\ Len(V) = Len(s) /\ N \in SUBSET Effect
    BY <1>1, <1>4, <2>1 DEF Judge, Unfolds
  <2> HIDE DEF s, fr
  <2>3. HeldFrame(sort, x, ctorinit, fr, N)
    BY <2>2, HeldTop
  <2> QED
    BY <1>4, <2>1, <2>3 DEF s, fr, Judge
<1>8. PlainPart(Around(Outer) \cup {Top.kind}, paths)
  BY <1>3, <1>5
<1>9. Topmost(W, V, N)
  BY <1>1, <1>2, <1>3, <1>4, <1>6, <1>7, <1>8 DEF Topmost
<1> QED
  BY <1>9

\* The last frame goes on as g.
LEMMA JustTurns ==
  ASSUME Typed, NEW W, JustNow(W), NEW V, NEW N, Topmost(W, V, N), sort' = sort, errors' = errors, ctorinit' = ctorinit,
         NEW g \in FrameSet, stack' = Append(Outer, g), g.before = Top.before,
         PlainFrame(sort, Around(Outer), g), PlainPart(Around(Outer) \cup {g.kind}, paths'),
         \A x \in Judgeable(sort) :
            /\ HeldFrame(sort, x, ctorinit, g, N)
            /\ Fair(sort, x, ctorinit, callSuper', fieldinit', Chain(N, paths'))
            /\ OwesFrame(sort, x, Top, N) \/ Doomed(sort, x, Chain(N, paths)) =>
                 OwesFrame(sort, x, g, N) \/ Doomed(sort, x, Chain(N, paths')),
         Top.kind \in Repeats => g.kind \in Repeats /\ paths' = paths,
         paths \cup Part(Top) \subseteq paths' \cup Part(g)
  PROVE  JustNext(W)
<1>1. /\ Outer \in Seq(FrameSet) /\ Top \in FrameSet /\ stack = Append(Outer, Top)
      /\ Unfolds(Outer, V) /\ N = Chain(Back(V), Top.before) /\ N \in SUBSET Effect
      /\ W = Append(V, N) /\ Back(W) = N /\ GoesOn(N) /\ Mild(N) /\ Unfolds(stack, W)
      /\ PlainStack(sort, Outer)
      /\ \A x \in Judgeable(sort) : Judge(sort, x, ctorinit, stack, W, callSuper, fieldinit, paths)
  BY DEF Topmost
<1>2. Unfolds(stack', W)
  <2>1. GoesOn(g.before) /\ Mild(g.before)
    BY DEF PlainFrame
  <2> DEFINE s == Outer
  <2>2. s \in Seq(FrameSet) /\ Unfolds(s, V) /\ N = Chain(Back(V), g.before)
    BY <1>1
  <2> HIDE DEF s
  <2>3. Unfolds(Append(s, g), Append(V, N))
    BY <2>1, <2>2, UnfoldsTop
  <2> QED
    BY <1>1, <2>3 DEF s
<1>3. PlainStack(sort, stack') /\ PlainPart(Around(stack'), paths')
  <2>1. Extends(stack', Outer, g)
    BY <1>1, Appended
  <2> QED
    BY <1>1, <2>1, PlainTop DEF Extends
<1>4. ASSUME NEW x \in Judgeable(sort)
      PROVE  /\ Judge(sort, x, ctorinit', stack', W, callSuper', fieldinit', paths')
             /\ Blame(sort, x, stack, W, paths) => Blame(sort, x, stack', W, paths')
  <2> DEFINE s == Outer  fr == Top  cs == callSuper  fi == fieldinit  P == paths
             cs2 == callSuper'  fi2 == fieldinit'  Q == paths'
  <2>1. /\ s \in Seq(FrameSet) /\ Unfolds(s, V) /\ N \in SUBSET Effect /\ fr \in FrameSet /\ g.before = fr.before
        /\ GoesOn(N) /\ Mild(N)
        /\ Unfolds(Append(s, fr), Append(V, N)) /\ Back(Append(V, N)) = N
        /\ Judge(sort, x, ctorinit, Append(s, fr), Append(V, N), cs, fi, P)
        /\ HeldFrame(sort, x, ctorinit, g, N) /\ Fair(sort, x, ctorinit, cs2, fi2, Chain(N, Q))
        /\ OwesFrame(sort, x, fr, N) \/ Doomed(sort, x, Chain(N, P)) =>
             OwesFrame(sort, x, g, N) \/ Doomed(sort, x, Chain(N, Q))
        /\ fr.kind \in Repeats => g.kind \in Repeats /\ Q = P
        /\ P \cup Part(fr) \subseteq Q \cup Part(g)
    BY <1>1
  <2>2. stack = Append(s, fr) /\ stack' = Append(s, g) /\ W = Append(V, N) /\ ctorinit' = ctorinit
    BY <1>1
  <2> HIDE DEF s, fr, cs, fi, P, cs2, fi2, Q
  <2>3. /\ Judge(sort, x, ctorinit, Append(s, g), Append(V, N), cs2, fi2, Q)
        /\ Blame(sort, x, Append(s, fr), Append(V, N), P) => Blame(sort, x, Append(s, g), Append(V, N), Q)
    BY <2>1, JudgeTurn
  <2> QED
    BY <2>2, <2>3 DEF P, cs2, fi2, Q
<1>5. Leads(sort, ctorinit', stack, W, paths, stack', W, callSuper', fieldinit', paths')
  BY <1>2, <1>3, <1>4 DEF Leads
<1> QED
  BY <1>5, NoErrors, JustLeads

\* The last frame ends; all of it does Q.
LEMMA JustPops ==
  ASSUME Typed, NEW W, JustNow(W), NEW V, NEW N, Topmost(W, V, N), sort' = sort, ctorinit' = ctorinit,
         stack' = Outer, NEW Q \in SUBSET Effect, paths' = Chain(Top.before, Q),
         paths \subseteq Q, Part(Top) \subseteq Q, Q \subseteq ({Skip} \cup paths) \cup (Part(Top) \cup Chain(paths, paths)),
         Top.kind \in Repeats => Chain(paths, paths) \subseteq Q,
         \A x \in Judgeable(sort) : Fair(sort, x, ctorinit, callSuper', fieldinit', Chain(N, Q)),
         NEW d, errors' \subseteq errors \cup d,
         d \cap CallComplaints # {} /\ Straight(sort) => Doomed(sort, Calling, Chain(N, Q)),
         d \cap FieldComplaints # {} /\ Direct(sort) => \E x \in Judgeable(sort) \ {Calling} : Doomed(sort, x, Chain(N, Q))
  PROVE  JustNext(V)
<1>1. /\ Outer \in Seq(FrameSet) /\ Top \in FrameSet /\ stack = Append(Outer, Top)
      /\ paths \in SUBSET Effect /\ paths # {}
      /\ Unfolds(Outer, V) /\ N = Chain(Back(V), Top.before)
      /\ W = Append(V, N) /\ Back(W) = N /\ GoesOn(N) /\ Unfolds(stack, W)
      /\ PlainStack(sort, Outer) /\ PlainFrame(sort, Around(Outer), Top)
      /\ PlainPart(Around(Outer) \cup {Top.kind}, paths)
      /\ \A x \in Judgeable(sort) : Judge(sort, x, ctorinit, stack, W, callSuper, fieldinit, paths)
  BY DEF Topmost
<1>2. Unfolds(stack', V) /\ PlainStack(sort, stack') /\ PlainPart(Around(stack'), paths')
  <2>1. Q # {}
    BY <1>1
  <2>2. PlainPart(Around(Outer), Chain(Top.before, Q))
    BY <1>1, <2>1, PlainPop
  <2> QED
    BY <1>1, <2>2
<1>3. Top.kind \in Repeats => AllOn(paths)
  BY <1>1 DEF PlainPart, Sheltered, Repeats, Loops, Expressions
<1>4. GoesOn(Top.before)
  BY <1>1 DEF PlainFrame
<1>5. ASSUME NEW x \in Judgeable(sort)
      PROVE  /\ Judge(sort, x, ctorinit', stack', V, callSuper', fieldinit', paths')
             /\ Blame(sort, x, stack, W, paths) => Blame(sort, x, stack', V, paths')
  <2> DEFINE s == Outer  fr == Top  cs == callSuper  fi == fieldinit  P == paths  cs2 == callSuper'  fi2 == fieldinit'
  <2>1. /\ s \in Seq(FrameSet) /\ Unfolds(s, V) /\ fr \in FrameSet /\ N = Chain(Back(V), fr.before)
        /\ GoesOn(fr.before) /\ GoesOn(N)
        /\ Unfolds(Append(s, fr), Append(V, N)) /\ Back(Append(V, N)) = N
        /\ P \in SUBSET Effect /\ P # {}
        /\ Judge(sort, x, ctorinit, Append(s, fr), Append(V, N), cs, fi, P)
        /\ Fair(sort, x, ctorinit, cs2, fi2, Chain(N, Q)) /\ P \subseteq Q /\ Part(fr) \subseteq Q
        /\ fr.kind \in Repeats => AllOn(P) /\ Chain(P, P) \subseteq Q
    BY <1>1, <1>3, <1>4
  <2>2. stack = Append(s, fr) /\ stack' = s /\ W = Append(V, N) /\ ctorinit' = ctorinit /\ paths' = Chain(fr.before, Q)
    BY <1>1
  <2> HIDE DEF s, fr, cs, fi, P, cs2, fi2
  <2>3. /\ Judge(sort, x, ctorinit, s, V, cs2, fi2, Chain(fr.before, Q))
        /\ Blame(sort, x, Append(s, fr), Append(V, N), P) => Blame(sort, x, s, V, Chain(fr.before, Q))
    BY <2>1, JudgePop
  <2> QED
    BY <2>2, <2>3 DEF P, cs2, fi2
<1>6. Chain(Back(V), paths') = Chain(N, Q)
  <2>1. Back(V) \in SUBSET Effect /\ Top.before \in SUBSET Effect
    BY <1>1, BackTyped, FrameTyped
  <2> QED
    BY <1>1, <2>1, ChainChain
<1>7. Proper(sort, d, stack', V, paths')
  BY <1>6 DEF Proper, Blame
<1>8. Leads(sort, ctorinit', stack, W, paths, stack', V, callSuper', fieldinit', paths')
  BY <1>2, <1>5 DEF Leads
<1> QED
  BY <1>7, <1>8, JustLeads

\* The flags to start the next part with are those to start this one with.
LEMMA SameStart ==
  ASSUME NEW fr \in FrameSet, NEW g \in FrameSet, g.cs = fr.cs, g.fi = fr.fi, fr.kind # "label", g.kind # "label",
         NEW so, NEW x, NEW set, NEW N, HeldFrame(so, x, set, fr, N)
  PROVE  Fair(so, x, set, fr.cs, fr.fi, N) /\ Fair(so, x, set, StartCs(g), StartFi(g), N)
<1>1. StartCs(fr) = fr.cs /\ StartFi(fr) = fr.fi /\ StartCs(g) = fr.cs /\ StartFi(g) = fr.fi
  BY StartsPlain
<1> QED
  BY <1>1 DEF HeldFrame

LEMMA JustThen ==
  ASSUME Typed, NEW W, JustNow(W), BeginThen
  PROVE  JustNext(W)
<1>1. /\ stack # <<>> /\ sort' = sort /\ ctorinit' = ctorinit /\ errors' = errors /\ paths' = {Skip}
      /\ Top.kind \in {"condition", "declared"}
  BY TurnSteps
<1>2. PICK V, N : Topmost(W, V, N)
  BY <1>1, JustTop
<1>3. /\ Top \in FrameSet /\ N \in SUBSET Effect /\ PlainFrame(sort, Around(Outer), Top)
      /\ PlainPart(Around(Outer) \cup {Top.kind}, paths)
      /\ \A x \in Judgeable(sort) : /\ HeldFrame(sort, x, ctorinit, Top, N)
                                    /\ Fair(sort, x, ctorinit, callSuper, fieldinit, Chain(N, paths))
  BY <1>2 DEF Topmost
<1>4. PICK g : /\ g \in FrameSet /\ stack' = Append(Outer, g)
               /\ g.kind = "then" /\ g.cs = Top.cs /\ g.fi = Top.fi /\ g.before = Top.before
               /\ g.second = Top.second /\ g.first = paths
               /\ \/ /\ Top.kind = "condition" /\ g.cs1 = callSuper /\ g.fi1 = fieldinit
                     /\ callSuper' = Top.cs /\ fieldinit' = Top.fi
                  \/ /\ Top.kind = "declared" /\ g.cs1 = Top.cs1 /\ g.fi1 = Top.fi1
                     /\ callSuper' = callSuper /\ fieldinit' = fieldinit
  <2> DEFINE fr == Top  a == ThenOf(fr)  b == ThenDeclared(fr)
  <2>0. /\ a \in FrameSet /\ a.kind = "then" /\ a.cs = fr.cs /\ a.fi = fr.fi /\ a.before = fr.before
        /\ a.second = fr.second /\ a.first = paths /\ a.cs1 = callSuper /\ a.fi1 = fieldinit
        /\ b \in FrameSet /\ b.kind = "then" /\ b.cs = fr.cs /\ b.fi = fr.fi /\ b.before = fr.before
        /\ b.second = fr.second /\ b.first = paths /\ b.cs1 = fr.cs1 /\ b.fi1 = fr.fi1
    <3>1. fr \in FrameSet
      BY <1>3
    <3> HIDE DEF fr
    <3> QED
      BY <3>1, TurnedFrames, TurnedFields
  <2>1. \/ /\ fr.kind = "condition" /\ stack' = Append(Outer, a) /\ callSuper' = fr.cs /\ fieldinit' = fr.fi
        \/ /\ fr.kind = "declared" /\ stack' = Append(Outer, b) /\ callSuper' = callSuper /\ fieldinit' = fieldinit
    BY TurnSteps
  <2> HIDE DEF fr, a, b
  <2>2. \E g : /\ g \in FrameSet /\ stack' = Append(Outer, g)
               /\ g.kind = "then" /\ g.cs = fr.cs /\ g.fi = fr.fi /\ g.before = fr.before
               /\ g.second = fr.second /\ g.first = paths
               /\ \/ /\ fr.kind = "condition" /\ g.cs1 = callSuper /\ g.fi1 = fieldinit
                     /\ callSuper' = fr.cs /\ fieldinit' = fr.fi
                  \/ /\ fr.kind = "declared" /\ g.cs1 = fr.cs1 /\ g.fi1 = fr.fi1
                     /\ callSuper' = callSuper /\ fieldinit' = fieldinit
    <3>1. CASE fr.kind = "condition" /\ stack' = Append(Outer, a) /\ callSuper' = fr.cs /\ fieldinit' = fr.fi
      <4> WITNESS a
      <4> QED
        BY <2>0, <3>1
    <3>2. CASE fr.kind = "declared" /\ stack' = Append(Outer, b) /\ callSuper' = callSuper /\ fieldinit' = fieldinit
      <4> WITNESS b
      <4> QED
        BY <2>0, <3>2
    <3> QED
      BY <2>1, <3>1, <3>2
  <2> QED
    BY <2>2 DEF fr
<1>5. paths = {Skip}
  BY <1>1, <1>3 DEF PlainPart, Quiet
<1>6. Chain(N, paths) = N /\ paths' = paths
  BY <1>1, <1>3, <1>5, ChainSkip
<1>7. PlainFrame(sort, Around(Outer), g)
  BY <1>1, <1>3, <1>4, <1>5 DEF PlainFrame, Sheltered, Quiet, Loops, Expressions
<1>8. PlainPart(Around(Outer) \cup {g.kind}, paths')
  BY <1>1, <1>5, SkipFields DEF PlainPart, Mild, AllOn
<1>9. ASSUME NEW x \in Judgeable(sort)
      PROVE  /\ HeldFrame(sort, x, ctorinit, g, N)
             /\ Fair(sort, x, ctorinit, callSuper', fieldinit', Chain(N, paths'))
             /\ OwesFrame(sort, x, Top, N) \/ Doomed(sort, x, Chain(N, paths)) =>
                  OwesFrame(sort, x, g, N) \/ Doomed(sort, x, Chain(N, paths'))
  <2>1. Fair(sort, x, ctorinit, Top.cs, Top.fi, N) /\ Fair(sort, x, ctorinit, StartCs(g), StartFi(g), N)
    <3> DEFINE fr == Top
    <3>1. fr \in FrameSet /\ g.cs = fr.cs /\ g.fi = fr.fi /\ fr.kind # "label" /\ g.kind # "label"
          /\ HeldFrame(sort, x, ctorinit, fr, N)
      BY <1>1, <1>3, <1>4
    <3> HIDE DEF fr
    <3>2. Fair(sort, x, ctorinit, fr.cs, fr.fi, N) /\ Fair(sort, x, ctorinit, StartCs(g), StartFi(g), N)
      BY <1>4, <3>1, SameStart
    <3> QED
      BY <3>2 DEF fr
  <2>2. Fair(sort, x, ctorinit, callSuper, fieldinit, N)
    BY <1>3, <1>6
  <2>3. Fair(sort, x, ctorinit, g.cs1, g.fi1, N) /\ Fair(sort, x, ctorinit, callSuper', fieldinit', N)
    <3>1. CASE Top.kind = "condition"
      BY <1>4, <2>1, <2>2, <3>1
    <3>2. CASE Top.kind = "declared"
      <4>1. Fair(sort, x, ctorinit, Top.cs1, Top.fi1, N)
        BY <1>3, <3>2 DEF HeldFrame
      <4> QED
        BY <1>4, <2>2, <3>2, <4>1
    <3> QED
      BY <1>1, <3>1, <3>2
  <2>4. HeldFrame(sort, x, ctorinit, g, N)
    BY <1>4, <2>1, <2>3 DEF HeldFrame
  <2>5. ~OwesFrame(sort, x, Top, N)
    BY <1>1 DEF OwesFrame
  <2> QED
    BY <1>6, <2>3, <2>4, <2>5
<1>10. Top.kind \notin Repeats /\ Part(Top) = {}
  BY <1>1 DEF Repeats, Part
<1> QED
  BY <1>1, <1>2, <1>4, <1>6, <1>7, <1>8, <1>9, <1>10, JustTurns

LEMMA JustElse ==
  ASSUME Typed, NEW W, JustNow(W), BeginElse
  PROVE  JustNext(W)
<1>1. /\ stack # <<>> /\ sort' = sort /\ ctorinit' = ctorinit /\ errors' = errors /\ paths' = {Skip}
      /\ Top.kind = "then" /\ stack' = Append(Outer, ElseOf(Top)) /\ callSuper' = Top.cs /\ fieldinit' = Top.fi
  BY TurnSteps
<1>2. PICK V, N : Topmost(W, V, N)
  BY <1>1, JustTop
<1>3. /\ Top \in FrameSet /\ N \in SUBSET Effect /\ GoesOn(N) /\ PlainFrame(sort, Around(Outer), Top)
      /\ PlainPart(Around(Outer) \cup {Top.kind}, paths) /\ paths \in SUBSET Effect /\ paths # {}
      /\ \A x \in Judgeable(sort) : /\ HeldFrame(sort, x, ctorinit, Top, N)
                                    /\ Fair(sort, x, ctorinit, callSuper, fieldinit, Chain(N, paths))
  BY <1>2 DEF Topmost
<1> DEFINE g == ElseOf(Top)
<1>4. /\ g \in FrameSet /\ stack' = Append(Outer, g)
      /\ g.kind = "else" /\ g.cs = Top.cs /\ g.fi = Top.fi /\ g.before = Top.before /\ g.first = Top.first
      /\ g.cs1 = Popped(Top.cs1, callSuper) /\ g.fi1 = PoppedFields(Top.fi1, fieldinit)
      /\ g.second = Chain(Top.first, paths)
  BY <1>1, <1>3, TurnedFrames, TurnedFields
<1> HIDE DEF g
<1>5. g.second = paths
  BY <1>3, <1>4, ChainSkip DEF PlainFrame
<1>6. Chain(N, paths') = N
  BY <1>1, <1>3, ChainSkip
<1>7. PlainFrame(sort, Around(Outer), g)
  BY <1>1, <1>3, <1>4, <1>5 DEF PlainFrame, PlainPart, Sheltered, Quiet, Loops, Expressions
<1>8. PlainPart(Around(Outer) \cup {g.kind}, paths')
  BY <1>1, SkipFields DEF PlainPart, Mild, AllOn
<1>9. ASSUME NEW x \in Judgeable(sort)
      PROVE  /\ HeldFrame(sort, x, ctorinit, g, N)
             /\ Fair(sort, x, ctorinit, callSuper', fieldinit', Chain(N, paths'))
             /\ OwesFrame(sort, x, Top, N) \/ Doomed(sort, x, Chain(N, paths)) =>
                  OwesFrame(sort, x, g, N) \/ Doomed(sort, x, Chain(N, paths'))
  <2>1. Fair(sort, x, ctorinit, Top.cs, Top.fi, N) /\ Fair(sort, x, ctorinit, StartCs(g), StartFi(g), N)
    <3> DEFINE fr == Top
    <3>1. fr \in FrameSet /\ g.cs = fr.cs /\ g.fi = fr.fi /\ fr.kind # "label" /\ g.kind # "label"
          /\ HeldFrame(sort, x, ctorinit, fr, N)
      BY <1>1, <1>3, <1>4
    <3> HIDE DEF fr
    <3>2. Fair(sort, x, ctorinit, fr.cs, fr.fi, N) /\ Fair(sort, x, ctorinit, StartCs(g), StartFi(g), N)
      BY <1>4, <3>1, SameStart
    <3> QED
      BY <3>2 DEF fr
  <2>2. Fair(sort, x, ctorinit, callSuper, fieldinit, Chain(N, paths))
        /\ Fair(sort, x, ctorinit, Top.cs1, Top.fi1, N)
    BY <1>1, <1>3 DEF HeldFrame
  <2>3. Mild(paths)
    BY <1>3 DEF PlainPart
  <2>4. Fair(sort, x, ctorinit, g.cs1, g.fi1, Chain(N, g.second))
    BY <1>3, <1>4, <1>5, <2>2, <2>3, FairPop
  <2>5. HeldFrame(sort, x, ctorinit, g, N)
    BY <1>4, <2>1, <2>4 DEF HeldFrame
  <2>6. ~OwesFrame(sort, x, Top, N)
    BY <1>1 DEF OwesFrame
  <2>7. Doomed(sort, x, Chain(N, paths)) => OwesFrame(sort, x, g, N)
    BY <1>4, <1>5 DEF OwesFrame
  <2> QED
    BY <1>1, <1>6, <2>1, <2>5, <2>6, <2>7
<1>10. Top.kind \notin Repeats /\ Part(Top) = {} /\ Part(g) = paths
  BY <1>1, <1>4, <1>5 DEF Repeats, Part
<1> QED
  BY <1>1, <1>2, <1>4, <1>7, <1>8, <1>9, <1>10, JustTurns

LEMMA JustRight ==
  ASSUME Typed, NEW W, JustNow(W), BeginRight
  PROVE  JustNext(W)
<1>1. /\ stack # <<>> /\ sort' = sort /\ ctorinit' = ctorinit /\ errors' = errors /\ paths' = {Skip}
      /\ Top.kind = "left" /\ stack' = Append(Outer, RightOf(Top)) /\ callSuper' = Top.cs /\ fieldinit' = Top.fi
  BY TurnSteps
<1>2. PICK V, N : Topmost(W, V, N)
  BY <1>1, JustTop
<1>3. /\ Top \in FrameSet /\ N \in SUBSET Effect /\ PlainFrame(sort, Around(Outer), Top)
      /\ PlainPart(Around(Outer) \cup {Top.kind}, paths)
      /\ \A x \in Judgeable(sort) : /\ HeldFrame(sort, x, ctorinit, Top, N)
                                    /\ Fair(sort, x, ctorinit, callSuper, fieldinit, Chain(N, paths))
  BY <1>2 DEF Topmost
<1> DEFINE g == RightOf(Top)
<1>4. /\ g \in FrameSet /\ stack' = Append(Outer, g)
      /\ g.kind = "right" /\ g.cs = Top.cs /\ g.fi = Top.fi /\ g.before = Top.before /\ g.first = Top.first
      /\ g.cs1 = callSuper /\ g.fi1 = fieldinit /\ g.second = paths
  BY <1>1, <1>3, TurnedFrames, TurnedFields
<1> HIDE DEF g
<1>6. Chain(N, paths') = N
  BY <1>1, <1>3, ChainSkip
<1>7. PlainFrame(sort, Around(Outer), g)
  BY <1>1, <1>3, <1>4 DEF PlainFrame, PlainPart, Sheltered, Quiet, Loops, Expressions
<1>8. PlainPart(Around(Outer) \cup {g.kind}, paths')
  BY <1>1, SkipFields DEF PlainPart, Mild, AllOn
<1>9. ASSUME NEW x \in Judgeable(sort)
      PROVE  /\ HeldFrame(sort, x, ctorinit, g, N)
             /\ Fair(sort, x, ctorinit, callSuper', fieldinit', Chain(N, paths'))
             /\ OwesFrame(sort, x, Top, N) \/ Doomed(sort, x, Chain(N, paths)) =>
                  OwesFrame(sort, x, g, N) \/ Doomed(sort, x, Chain(N, paths'))
  <2>1. Fair(sort, x, ctorinit, Top.cs, Top.fi, N) /\ Fair(sort, x, ctorinit, StartCs(g), StartFi(g), N)
    <3> DEFINE fr == Top
    <3>1. fr \in FrameSet /\ g.cs = fr.cs /\ g.fi = fr.fi /\ fr.kind # "label" /\ g.kind # "label"
          /\ HeldFrame(sort, x, ctorinit, fr, N)
      BY <1>1, <1>3, <1>4
    <3> HIDE DEF fr
    <3>2. Fair(sort, x, ctorinit, fr.cs, fr.fi, N) /\ Fair(sort, x, ctorinit, StartCs(g), StartFi(g), N)
      BY <1>4, <3>1, SameStart
    <3> QED
      BY <3>2 DEF fr
  <2>2. Fair(sort, x, ctorinit, callSuper, fieldinit, Chain(N, paths))
    BY <1>3
  <2>5. HeldFrame(sort, x, ctorinit, g, N)
    BY <1>4, <2>1, <2>2 DEF HeldFrame
  <2>6. ~OwesFrame(sort, x, Top, N)
    BY <1>1 DEF OwesFrame
  <2>7. Doomed(sort, x, Chain(N, paths)) => OwesFrame(sort, x, g, N)
    BY <1>4 DEF OwesFrame
  <2> QED
    BY <1>1, <1>6, <2>1, <2>5, <2>6, <2>7
<1>10. Top.kind \notin Repeats /\ Part(Top) = {} /\ Part(g) = paths
  BY <1>1, <1>4 DEF Repeats, Part
<1> QED
  BY <1>1, <1>2, <1>4, <1>7, <1>8, <1>9, <1>10, JustTurns

LEMMA JustUntil ==
  ASSUME Typed, NEW W, JustNow(W), BeginUntil
  PROVE  JustNext(W)
<1>1. /\ stack # <<>> /\ sort' = sort /\ ctorinit' = ctorinit /\ errors' = errors /\ paths' = paths
      /\ Top.kind = "do" /\ stack' = Append(Outer, UntilOf(Top))
      /\ callSuper' = Popped(Top.cs, callSuper) /\ fieldinit' = PoppedFields(Top.fi, fieldinit)
  BY TurnSteps
<1>2. PICK V, N : Topmost(W, V, N)
  BY <1>1, JustTop
<1>3. /\ Top \in FrameSet /\ N \in SUBSET Effect /\ GoesOn(N) /\ PlainFrame(sort, Around(Outer), Top)
      /\ PlainPart(Around(Outer) \cup {Top.kind}, paths) /\ paths \in SUBSET Effect /\ paths # {}
      /\ \A x \in Judgeable(sort) : /\ HeldFrame(sort, x, ctorinit, Top, N)
                                    /\ Fair(sort, x, ctorinit, callSuper, fieldinit, Chain(N, paths))
  BY <1>2 DEF Topmost
<1> DEFINE g == UntilOf(Top)
<1>4. /\ g \in FrameSet /\ stack' = Append(Outer, g)
      /\ g.kind = "until" /\ g.cs = Top.cs /\ g.fi = Top.fi /\ g.before = Top.before /\ g.first = Top.first
      /\ g.second = Top.second
  BY <1>1, <1>3, TurnedFrames, TurnedFields
<1> HIDE DEF g
<1>7. PlainFrame(sort, Around(Outer), g)
  BY <1>1, <1>3, <1>4 DEF PlainFrame, Sheltered, Quiet, Loops, Expressions
<1>8. PlainPart(Around(Outer) \cup {g.kind}, paths')
  BY <1>1, <1>3, <1>4 DEF PlainPart, Sheltered, Quiet, Loops, Expressions
<1>9. ASSUME NEW x \in Judgeable(sort)
      PROVE  /\ HeldFrame(sort, x, ctorinit, g, N)
             /\ Fair(sort, x, ctorinit, callSuper', fieldinit', Chain(N, paths'))
             /\ OwesFrame(sort, x, Top, N) \/ Doomed(sort, x, Chain(N, paths)) =>
                  OwesFrame(sort, x, g, N) \/ Doomed(sort, x, Chain(N, paths'))
  <2>1. Fair(sort, x, ctorinit, Top.cs, Top.fi, N) /\ Fair(sort, x, ctorinit, StartCs(g), StartFi(g), N)
    <3> DEFINE fr == Top
    <3>1. fr \in FrameSet /\ g.cs = fr.cs /\ g.fi = fr.fi /\ fr.kind # "label" /\ g.kind # "label"
          /\ HeldFrame(sort, x, ctorinit, fr, N)
      BY <1>1, <1>3, <1>4
    <3> HIDE DEF fr
    <3>2. Fair(sort, x, ctorinit, fr.cs, fr.fi, N) /\ Fair(sort, x, ctorinit, StartCs(g), StartFi(g), N)
      BY <1>4, <3>1, SameStart
    <3> QED
      BY <3>2 DEF fr
  <2>2. Fair(sort, x, ctorinit, callSuper, fieldinit, Chain(N, paths)) /\ Mild(paths)
    BY <1>3 DEF PlainPart
  <2>3. Fair(sort, x, ctorinit, Popped(Top.cs, callSuper), PoppedFields(Top.fi, fieldinit), Chain(N, paths))
    BY <1>3, <2>1, <2>2, FairPop
  <2>5. HeldFrame(sort, x, ctorinit, g, N)
    BY <1>4, <2>1 DEF HeldFrame
  <2>6. ~OwesFrame(sort, x, Top, N)
    BY <1>1 DEF OwesFrame
  <2> QED
    BY <1>1, <2>3, <2>5, <2>6
<1>10. g.kind \in Repeats /\ Part(Top) = {}
  BY <1>1, <1>4 DEF Repeats, Part
<1> QED
  BY <1>1, <1>2, <1>4, <1>7, <1>8, <1>9, <1>10, JustTurns

LEMMA ChainUnion ==
  ASSUME NEW N \in SUBSET Effect, NEW A \in SUBSET Effect, NEW B \in SUBSET Effect
  PROVE  Chain(N, A \cup B) = Chain(N, A) \cup Chain(N, B)
<1>1. \A r : r \in Chain(N, A \cup B) <=> r \in Chain(N, A) \/ r \in Chain(N, B)
  BY InChain
<1> QED
  BY <1>1

\* mergeCallSuper() and mergeFieldInit() at the end of a construct.
LEMMA JustMerges ==
  ASSUME Typed, NEW W, JustNow(W), NEW V, NEW N, Topmost(W, V, N), sort' = sort, ctorinit' = ctorinit,
         stack' = Outer, Top.kind \in {"else", "right"}, paths' = Chain(Top.before, Top.second \cup paths),
         NEW cs, NEW fi, Merge(cs, fi),
         \A x \in Judgeable(sort) : Fair(sort, x, ctorinit, cs, fi, Chain(N, paths))
  PROVE  JustNext(V)
<1>1. /\ Top \in FrameSet /\ N \in SUBSET Effect /\ paths \in SUBSET Effect
      /\ \A x \in Judgeable(sort) : HeldFrame(sort, x, ctorinit, Top, N)
  BY DEF Topmost
<1>2. Top.second \in SUBSET Effect
  <2> DEFINE fr == Top
  <2>1. fr \in FrameSet
    BY <1>1
  <2> HIDE DEF fr
  <2>2. fr.second \in SUBSET Effect
    BY <2>1, FrameTyped
  <2> QED
    BY <2>2 DEF fr
<1> DEFINE Q == Top.second \cup paths  d == When(~MergedCalls(cs, Top.cs1).ok, "one path skips constructor")
                                              \cup When(SkippedFields(fi, Top.fi1) # {}, "one path skips field")
           A == Chain(N, Top.second)  B == Chain(N, paths)
<1>3. Q \in SUBSET Effect /\ Chain(N, Q) = A \cup B
  BY <1>1, <1>2, ChainUnion
<1>4. A \in SUBSET Effect /\ B \in SUBSET Effect
  BY <1>1, <1>2, ChainTyped
<1> DEFINE a == Top.cs1  fa == Top.fi1
<1>5. /\ callSuper' = MergedCalls(cs, a).cs /\ fieldinit' = MergedFields(fi, fa) /\ errors' \subseteq errors \cup d
  BY DEF Merge
<1>6. /\ d \cap CallComplaints # {} => ~MergedCalls(cs, a).ok
      /\ d \cap FieldComplaints # {} => SkippedFields(fi, fa) # {}
  BY DEF When, CallComplaints, FieldComplaints
<1>7. ASSUME NEW x \in Judgeable(sort)
      PROVE  /\ Fair(sort, x, ctorinit, callSuper', fieldinit', A \cup B)
             /\ x \notin Fields /\ ~MergedCalls(cs, a).ok => Doomed(sort, x, A \cup B)
             /\ x \in Fields /\ x \in sort.mustInit /\ ~MergedField(fi[x], fa[x]).ok => Doomed(sort, x, A \cup B)
  <2>1. Fair(sort, x, ctorinit, a, fa, A) /\ Fair(sort, x, ctorinit, cs, fi, B)
    BY <1>1 DEF HeldFrame
  <2> HIDE DEF a, fa, A, B
  <2>2. /\ Fair(sort, x, ctorinit, MergedCalls(cs, a).cs, MergedFields(fi, fa), A \cup B)
        /\ x \notin Fields /\ ~MergedCalls(cs, a).ok => Doomed(sort, x, A \cup B)
        /\ x \in Fields /\ x \in sort.mustInit /\ ~MergedField(fi[x], fa[x]).ok => Doomed(sort, x, A \cup B)
    BY <1>4, <2>1, FairMerge
  <2> QED
    BY <1>5, <2>2
<1> HIDE DEF A, B, a, fa, d
<1>8. d \cap CallComplaints # {} /\ Straight(sort) => Doomed(sort, Calling, Chain(N, Q))
  BY <1>3, <1>6, <1>7, JudgeableIs, CallingIsNoField
<1>9. d \cap FieldComplaints # {} /\ Direct(sort) => \E x \in Judgeable(sort) \ {Calling} : Doomed(sort, x, Chain(N, Q))
  <2> SUFFICES ASSUME d \cap FieldComplaints # {}, Direct(sort) PROVE \E x \in Judgeable(sort) \ {Calling} : Doomed(sort, x, Chain(N, Q))
    OBVIOUS
  <2>1. PICK f \in MustInit : ~MergedField(fi[f], fa[f]).ok
    BY <1>6 DEF SkippedFields
  <2>2. f \in Judgeable(sort) /\ f \in Fields /\ f # Calling /\ f \in sort.mustInit
    BY <2>1, SortFields, JudgeableIs, CallingIsNoField DEF MustInit
  <2>3. Doomed(sort, f, Chain(N, Q))
    BY <1>3, <1>7, <2>1, <2>2
  <2> QED
    BY <2>2, <2>3
<1>10. paths \subseteq Q /\ Part(Top) \subseteq Q /\ Q \subseteq ({Skip} \cup paths) \cup (Part(Top) \cup Chain(paths, paths))
       /\ Top.kind \notin Repeats
  BY DEF Part, Repeats
<1>11. paths' = Chain(Top.before, Q) /\ \A x \in Judgeable(sort) : Fair(sort, x, ctorinit, callSuper', fieldinit', Chain(N, Q))
  BY <1>3, <1>7
<1> HIDE DEF Q
<1> QED
  BY <1>3, <1>5, <1>8, <1>9, <1>10, <1>11, JustPops

LEMMA JustIf ==
  ASSUME Typed, NEW W, JustNow(W), EndIf
  PROVE  \E V : JustNext(V)
<1> DEFINE cs == Popped(Top.cs, callSuper)  fi == PoppedFields(Top.fi, fieldinit)
<1>1. /\ stack # <<>> /\ Top.kind = "else" /\ sort' = sort /\ ctorinit' = ctorinit /\ stack' = Outer
      /\ paths' = Chain(Top.before, Top.second \cup Chain(Top.first, paths)) /\ Merge(cs, fi)
  BY DEF EndIf, Inside, Continue
<1>2. PICK V, N : Topmost(W, V, N)
  BY <1>1, JustTop
<1>3. /\ Top \in FrameSet /\ N \in SUBSET Effect /\ GoesOn(N) /\ paths \in SUBSET Effect /\ paths # {}
      /\ PlainFrame(sort, Around(Outer), Top) /\ PlainPart(Around(Outer) \cup {Top.kind}, paths)
      /\ \A x \in Judgeable(sort) : /\ HeldFrame(sort, x, ctorinit, Top, N)
                                    /\ Fair(sort, x, ctorinit, callSuper, fieldinit, Chain(N, paths))
  BY <1>2 DEF Topmost
<1>4. Chain(Top.first, paths) = paths
  BY <1>3, ChainSkip DEF PlainFrame
<1>5. ASSUME NEW x \in Judgeable(sort) PROVE Fair(sort, x, ctorinit, cs, fi, Chain(N, paths))
  <2> DEFINE fr == Top
  <2>1. fr \in FrameSet /\ fr.kind # "label" /\ HeldFrame(sort, x, ctorinit, fr, N)
        /\ Fair(sort, x, ctorinit, callSuper, fieldinit, Chain(N, paths)) /\ Mild(paths)
    BY <1>1, <1>3 DEF PlainPart
  <2>2. fr = Top
    OBVIOUS
  <2> HIDE DEF fr
  <2>3. Fair(sort, x, ctorinit, fr.cs, fr.fi, N)
    BY <2>1, SameStart
  <2>4. Fair(sort, x, ctorinit, Popped(fr.cs, callSuper), PoppedFields(fr.fi, fieldinit), Chain(N, paths))
    BY <1>3, <2>1, <2>3, FairPop
  <2> QED
    BY <2>2, <2>4
<1> HIDE DEF cs, fi
<1> QED
  BY <1>1, <1>2, <1>4, <1>5, JustMerges

LEMMA JustConditional ==
  ASSUME Typed, NEW W, JustNow(W), EndConditional
  PROVE  \E V : JustNext(V)
<1>1. /\ stack # <<>> /\ Top.kind = "right" /\ sort' = sort /\ ctorinit' = ctorinit /\ stack' = Outer
      /\ paths' = Chain(Top.before, Top.second \cup paths) /\ Merge(callSuper, fieldinit)
  BY DEF EndConditional, Inside, Continue
<1>2. PICK V, N : Topmost(W, V, N)
  BY <1>1, JustTop
<1>3. \A x \in Judgeable(sort) : Fair(sort, x, ctorinit, callSuper, fieldinit, Chain(N, paths))
  BY <1>2 DEF Topmost
<1> QED
  BY <1>1, <1>2, <1>3, JustMerges

\* The end of a scope: what has been seen in it has been seen outside.
LEMMA FairScope ==
  ASSUME NEW so, NEW x, NEW set, NEW fr \in FrameSet, NEW N \in SUBSET Effect, GoesOn(N), HeldFrame(so, x, set, fr, N),
         NEW P \in SUBSET Effect, P # {}, Mild(P), NEW cs, NEW fi, Fair(so, x, set, cs, fi, Chain(N, P))
  PROVE  Fair(so, x, set, Popped(fr.cs, cs), PoppedFields(fr.fi, fi), Chain(N, P))
<1>1. Fair(so, x, set, StartCs(fr), StartFi(fr), N)
  BY DEF HeldFrame
<1> DEFINE ec == StartCs(fr)  ei == StartFi(fr)
<1>2. Fair(so, x, set, Popped(ec, cs), PoppedFields(ei, fi), Chain(N, P))
  <2> HIDE DEF ec, ei
  <2>1. Fair(so, x, set, ec, ei, N)
    BY <1>1 DEF ec, ei
  <2> QED
    BY <2>1, FairPop
<1>3. \A y \in {"this", "super", "any", "return", "halt"} : y \in Popped(fr.cs, cs) <=> y \in Popped(ec, cs)
  BY DEF Popped, StartCs
<1>4. ASSUME x \in Fields
      PROVE  /\ \A y \in {"this", "return", "halt"} : y \in PoppedFields(fr.fi, fi)[x] <=> y \in PoppedFields(ei, fi)[x]
             /\ "label" \in PoppedFields(fr.fi, fi)[x] => "label" \in PoppedFields(ei, fi)[x]
  <2>1. PoppedFields(fr.fi, fi)[x] = fr.fi[x] \cup fi[x] /\ PoppedFields(ei, fi)[x] = ei[x] \cup fi[x]
    BY <1>4 DEF PoppedFields
  <2>2. ei[x] = fr.fi[x] \cup {l \in {"label"} : fr.kind = "label"}
    BY <1>4 DEF StartFi
  <2> QED
    BY <2>1, <2>2
<1> HIDE DEF ec, ei
<1> QED
  BY <1>2, <1>3, <1>4, FairSame

\* && and ||.
LEMMA JustLogical ==
  ASSUME Typed, NEW W, JustNow(W), EndLogical
  PROVE  \E V : JustNext(V)
<1> DEFINE a == Top.cs  fa == Top.fi  d == When(~MergedCalls(callSuper, a).ok, "one path skips constructor")
           Q == {Skip} \cup paths
<1>1. /\ stack # <<>> /\ Top.kind = "operand" /\ sort' = sort /\ ctorinit' = ctorinit /\ stack' = Outer
      /\ paths' = Chain(Top.before, Q) /\ callSuper' = MergedCalls(callSuper, a).cs /\ fieldinit' = fieldinit
      /\ errors' \subseteq errors \cup d
  BY DEF EndLogical, Inside, Continue
<1>2. PICK V, N : Topmost(W, V, N)
  BY <1>1, JustTop
<1>3. /\ Top \in FrameSet /\ N \in SUBSET Effect /\ GoesOn(N) /\ paths \in SUBSET Effect /\ paths # {}
      /\ PlainPart(Around(Outer) \cup {Top.kind}, paths)
      /\ \A x \in Judgeable(sort) : /\ HeldFrame(sort, x, ctorinit, Top, N)
                                    /\ Fair(sort, x, ctorinit, callSuper, fieldinit, Chain(N, paths))
  BY <1>2 DEF Topmost
<1> DEFINE B == Chain(N, paths)
<1>4. Q \in SUBSET Effect /\ Chain(N, Q) = N \cup B /\ B \in SUBSET Effect /\ GoesOn(B)
  <2>1. {Skip} \in SUBSET Effect /\ Chain(N, {Skip}) = N
    BY <1>3, SkipLive, ChainSkip
  <2>2. AllOn(paths)
    BY <1>1, <1>3 DEF PlainPart, Sheltered, Expressions
  <2>3. GoesOn(paths)
    BY <1>3, <2>2 DEF AllOn, GoesOn
  <2> QED
    BY <1>3, <2>1, <2>3, ChainUnion, ChainTyped, ChainOn
<1>5. d \cap FieldComplaints = {} /\ (d \cap CallComplaints # {} => ~MergedCalls(callSuper, a).ok)
  BY DEF When, CallComplaints, FieldComplaints
<1>6. ASSUME NEW x \in Judgeable(sort)
      PROVE  /\ Fair(sort, x, ctorinit, callSuper', fieldinit', N \cup B)
             /\ x \notin Fields /\ ~MergedCalls(callSuper, a).ok => Doomed(sort, x, N \cup B)
  <2> DEFINE fr == Top
  <2>1. fr \in FrameSet /\ fr.kind # "label" /\ HeldFrame(sort, x, ctorinit, fr, N)
        /\ Fair(sort, x, ctorinit, callSuper, fieldinit, B)
    BY <1>1, <1>3
  <2>2. fr = Top
    OBVIOUS
  <2> HIDE DEF fr
  <2>3. Fair(sort, x, ctorinit, fr.cs, fr.fi, N)
    BY <2>1, SameStart
  <2>4. Fair(sort, x, ctorinit, a, fa, N)
    BY <2>2, <2>3
  <2> HIDE DEF a, fa, B
  <2>5. /\ Fair(sort, x, ctorinit, MergedCalls(callSuper, a).cs, fieldinit, N \cup B)
        /\ x \notin Fields /\ ~MergedCalls(callSuper, a).ok => Doomed(sort, x, N \cup B)
    BY <1>3, <1>4, <2>1, <2>4, FairLogical
  <2> QED
    BY <1>1, <2>5
<1> HIDE DEF a, fa, B, d
<1>7. d \cap CallComplaints # {} /\ Straight(sort) => Doomed(sort, Calling, Chain(N, Q))
  BY <1>4, <1>5, <1>6, JudgeableIs, CallingIsNoField
<1>8. d \cap FieldComplaints # {} /\ Direct(sort) => \E x \in Judgeable(sort) \ {Calling} : Doomed(sort, x, Chain(N, Q))
  BY <1>5
<1>9. paths \subseteq Q /\ Part(Top) \subseteq Q /\ Q \subseteq ({Skip} \cup paths) \cup (Part(Top) \cup Chain(paths, paths))
      /\ Top.kind \notin Repeats
  BY <1>1 DEF Part, Repeats
<1>10. \A x \in Judgeable(sort) : Fair(sort, x, ctorinit, callSuper', fieldinit', Chain(N, Q))
  BY <1>4, <1>6
<1> HIDE DEF Q
<1> QED
  BY <1>1, <1>2, <1>4, <1>7, <1>8, <1>9, <1>10, JustPops

\* Something runs more often than once, or not at all: if it calls a constructor
\* some path is wrong, and if it does not it changes nothing.
LEMMA FairRepeat ==
  ASSUME NEW so, NEW x, x \notin Fields, NEW set, NEW cs, NEW fi, NEW N \in SUBSET Effect, GoesOn(N),
         NEW P \in SUBSET Effect, P # {}, AllOn(P), Fair(so, x, set, cs, fi, Chain(N, P)),
         NEW Q \in SUBSET Effect, P \subseteq Q, Q \subseteq ({Skip} \cup P) \cup Chain(P, P),
         Skip \in Q \/ Chain(P, P) \subseteq Q
  PROVE  Fair(so, x, set, cs, fi, Chain(N, Q))
<1> DEFINE L == Chain(N, P)  M == Chain(N, Q)
<1>1. /\ \A r : r \in L <=> \E p \in N, q \in P : r = Then(p, q)
      /\ \A r : r \in M <=> \E p \in N, q \in Q : r = Then(p, q)
      /\ \A r : r \in Chain(P, P) <=> \E p \in P, q \in P : r = Then(p, q)
  BY InChain
<1>2. L \subseteq M
  BY <1>1
<1>3. Skip \in Effect /\ Skip.calls = 0 /\ Skip.out = "on"
  BY SkipFields, SkipLive
<1> HIDE DEF L, M
<1>4. Fair(so, x, set, cs, fi, L)
  BY DEF L
<1>5. PICK p0 \in N : p0.out = "on"
  BY DEF GoesOn
<1>6. CASE Doomed(so, x, L)
  <2>1. Doomed(so, x, M)
    BY <1>2, <1>6, DoomedMore
  <2> QED
    BY <1>4, <2>1, FairCases DEF M
<1>7. CASE ~Doomed(so, x, L) /\ \E q \in P : q.calls > 0
  <2>1. PICK q \in P : q.calls > 0 /\ q.out = "on"
    BY <1>7 DEF AllOn
  <2> DEFINE r == Then(p0, q)
  <2>2. r \in M /\ r.out = "on" /\ r.calls > 0 /\ (p0.calls > 0 => r.calls > 1)
    BY <1>1, <1>5, <2>1, ThenCounts
  <2> HIDE DEF r
  <2>5. DoomedCalls(M)
    <3>1. CASE Skip \in Q /\ p0.calls > 0
      BY <2>2, <3>1 DEF DoomedCalls
    <3>2. CASE Skip \in Q /\ ~(p0.calls > 0)
      <4>1. Then(p0, Skip) = p0 /\ p0.calls = 0
        BY <3>2, ThenSkip, Counted
      <4>2. p0 \in M
        BY <1>1, <3>2, <4>1
      <4> QED
        BY <1>5, <2>2, <4>1, <4>2 DEF DoomedCalls
    <3>3. CASE Chain(P, P) \subseteq Q
      <4> DEFINE t == Then(q, q)
      <4>1. t \in Q /\ t.calls > 1
        BY <1>1, <2>1, <3>3, ThenCounts
      <4>2. t \in Effect
        BY <4>1
      <4> HIDE DEF t
      <4>3. Then(p0, t) \in M
        BY <1>1, <4>1
      <4>4. Then(p0, t).calls > 1
        BY <1>5, <4>1, <4>2, ThenCounts
      <4> QED
        BY <4>3, <4>4 DEF DoomedCalls
    <3> QED
      BY <3>1, <3>2, <3>3
  <2>6. Doomed(so, x, M)
    BY <2>5 DEF Doomed
  <2> QED
    BY <1>4, <2>6, FairCases DEF M
<1>8. CASE ~Doomed(so, x, L) /\ \A q \in P : ~(q.calls > 0)
  <2>1. \A q \in P : q.out = "on" /\ ~(q.calls > 0)
    BY <1>8 DEF AllOn
  <2>2. \A q \in Q : q.out = "on" /\ ~(q.calls > 0)
    <3>1. \A r \in Chain(P, P) : r.out = "on" /\ ~(r.calls > 0)
      <4>1. \A p, q \in P : Then(p, q).out = "on" /\ ~(Then(p, q).calls > 0)
        BY <2>1, ThenCounts
      <4> QED
        BY <1>1, <4>1
    <3>2. Skip.out = "on" /\ ~(Skip.calls > 0)
      BY <1>3
    <3> QED
      BY <2>1, <3>1, <3>2
  <2>3. \A p \in N, q \in Q : Then(p, q).out = p.out /\ (Then(p, q).calls > 0 <=> p.calls > 0)
    BY <2>2, ThenCounts
  <2>4. PICK q0 \in P : q0 \in Q
    OBVIOUS
  <2>5. \A r \in M : \E s \in L : s.out = r.out /\ (s.calls > 0 <=> r.calls > 0)
    <3> SUFFICES ASSUME NEW r \in M PROVE \E s \in L : s.out = r.out /\ (s.calls > 0 <=> r.calls > 0)
      OBVIOUS
    <3>1. PICK p \in N, q \in Q : r = Then(p, q)
      BY <1>1
    <3>2. Then(p, q0) \in L
      BY <1>1
    <3>3. Then(p, q0).out = r.out /\ (Then(p, q0).calls > 0 <=> r.calls > 0)
      BY <2>3, <2>4, <3>1
    <3> QED
      BY <3>2, <3>3
  <2>6. GoodCalls(cs, L)
    BY <1>4, <1>8, FairCases
  <2>7. GoesOn(M) <=> GoesOn(L)
    BY <1>2, <2>5 DEF GoesOn
  <2>8. \A r \in M : r.out = "on" => (r.calls > 0 <=> Called(cs))
    BY <2>5, <2>6 DEF GoodCalls
  <2>9. "any" \in cs <=> \E r \in M : r.calls > 0
    BY <1>2, <2>5, <2>6 DEF GoodCalls
  <2>10. "return" \in cs /\ "any" \notin cs => \E r \in M : r.out = "return" /\ r.calls = 0
    BY <1>2, <2>6 DEF GoodCalls
  <2>11. GoodCalls(cs, M)
    BY <2>6, <2>7, <2>8, <2>9, <2>10 DEF GoodCalls
  <2> QED
    BY <1>4, <2>11, FairCases DEF M
<1> QED
  BY <1>6, <1>7, <1>8

\* A scope that is run as often as Q says.
LEMMA JustScope ==
  ASSUME Typed, NEW W, JustNow(W), stack # <<>>, sort' = sort, ctorinit' = ctorinit, errors' = errors, stack' = Outer,
         Top.kind \in {"block", "label", "loop", "switch", "until"},
         NEW Q, paths' = Chain(Top.before, Q),
         Top.kind \in {"block", "label"} => Q = paths,
         Top.kind = "loop" => Q = ({Skip} \cup paths) \cup Chain(paths, paths),
         Top.kind = "until" => Q = paths \cup Chain(paths, paths),
         Top.kind = "switch" => Q = {Skip} \cup paths,
         \/ callSuper' = Popped(Top.cs, callSuper) /\ fieldinit' = PoppedFields(Top.fi, fieldinit)
         \/ callSuper' = callSuper /\ fieldinit' = fieldinit
  PROVE  \E V : JustNext(V)
<1>2. PICK V, N : Topmost(W, V, N)
  BY JustTop
<1>3. /\ Top \in FrameSet /\ N \in SUBSET Effect /\ GoesOn(N) /\ paths \in SUBSET Effect /\ paths # {}
      /\ PlainFrame(sort, Around(Outer), Top) /\ PlainPart(Around(Outer) \cup {Top.kind}, paths)
      /\ \A x \in Judgeable(sort) : /\ HeldFrame(sort, x, ctorinit, Top, N)
                                    /\ Fair(sort, x, ctorinit, callSuper, fieldinit, Chain(N, paths))
  BY <1>2 DEF Topmost
<1>4. Chain(paths, paths) \in SUBSET Effect /\ {Skip} \in SUBSET Effect
  BY <1>3, SkipLive, ChainTyped
<1>5. Q \in SUBSET Effect /\ paths \subseteq Q
  BY <1>4, <1>3
<1>6. /\ Part(Top) = {} /\ Q \subseteq ({Skip} \cup paths) \cup (Part(Top) \cup Chain(paths, paths))
      /\ Top.kind \in Repeats => Chain(paths, paths) \subseteq Q
  BY DEF Part, Repeats
<1>7. ASSUME NEW x \in Judgeable(sort)
      PROVE  Fair(sort, x, ctorinit, callSuper', fieldinit', Chain(N, Q))
  <2>1. Fair(sort, x, ctorinit, callSuper', fieldinit', Chain(N, paths))
    <3>1. CASE callSuper' = callSuper /\ fieldinit' = fieldinit
      BY <1>3, <3>1
    <3>2. CASE callSuper' = Popped(Top.cs, callSuper) /\ fieldinit' = PoppedFields(Top.fi, fieldinit)
      <4> DEFINE fr == Top
      <4>1. fr \in FrameSet /\ HeldFrame(sort, x, ctorinit, fr, N) /\ Mild(paths)
            /\ Fair(sort, x, ctorinit, callSuper, fieldinit, Chain(N, paths))
        BY <1>3 DEF PlainPart
      <4>2. fr = Top
        OBVIOUS
      <4> HIDE DEF fr
      <4>3. Fair(sort, x, ctorinit, Popped(fr.cs, callSuper), PoppedFields(fr.fi, fieldinit), Chain(N, paths))
        BY <1>3, <4>1, FairScope
      <4> QED
        BY <3>2, <4>2, <4>3
    <3> QED
      BY <3>1, <3>2
  <2>2. CASE Top.kind \in {"block", "label"}
    BY <2>1, <2>2
  <2>3. CASE Top.kind \in {"loop", "switch", "until"}
    <3>1. AllOn(paths)
      BY <1>3, <2>3 DEF PlainPart, Sheltered, Loops, Expressions
    <3>2. Skip \in Q \/ Chain(paths, paths) \subseteq Q
      BY <2>3
    <3>3. GoesOn(Chain(N, paths))
      <4>1. GoesOn(paths)
        BY <1>3, <3>1 DEF AllOn, GoesOn
      <4> QED
        BY <1>3, <4>1, ChainOn
    <3>4. Chain(N, paths) \subseteq Chain(N, Q)
      BY <1>5, InChain
    <3> DEFINE c == callSuper'  f == fieldinit'  M == Chain(N, Q)  L == Chain(N, paths)
    <3>5. Fair(sort, x, ctorinit, c, f, L) /\ L \subseteq M /\ GoesOn(L)
      BY <2>1, <3>3, <3>4
    <3>7. M = Chain(N, Q) /\ L = Chain(N, paths)
      OBVIOUS
    <3> HIDE DEF c, f, M, L
    <3>6. Fair(sort, x, ctorinit, c, f, M)
      <4>1. CASE x \in Fields
        BY <3>5, <4>1, FairMore
      <4>2. CASE x \notin Fields
        BY <1>3, <1>5, <1>6, <3>1, <3>2, <3>5, <3>7, <4>2, FairRepeat
      <4> QED
        BY <4>1, <4>2
    <3> QED
      BY <3>6 DEF c, f, M
  <2> QED
    BY <2>2, <2>3
<1>8. paths \subseteq Q /\ Part(Top) \subseteq Q
  BY <1>5, <1>6
<1>9. errors' \subseteq errors \cup {} /\ {} \cap CallComplaints = {} /\ {} \cap FieldComplaints = {}
  OBVIOUS
<1> QED
  BY <1>2, <1>5, <1>6, <1>7, <1>8, <1>9, JustPops

LEMMA JustBlock ==
  ASSUME Typed, NEW W, JustNow(W), EndBlock
  PROVE  \E V : JustNext(V)
<1>1. /\ stack # <<>> /\ Top.kind \in {"block", "label"} /\ sort' = sort /\ ctorinit' = ctorinit /\ errors' = errors
      /\ stack' = Outer /\ paths' = Chain(Top.before, paths)
      /\ callSuper' = Popped(Top.cs, callSuper) /\ fieldinit' = PoppedFields(Top.fi, fieldinit)
  BY DEF EndBlock, Inside, Continue, Unchecked, PopScope
<1>2. Top.kind \notin {"loop", "switch", "until"} /\ Top.kind \in {"block", "label", "loop", "switch", "until"}
  BY <1>1
<1> QED
  BY <1>1, <1>2, JustScope

LEMMA JustLoop ==
  ASSUME Typed, NEW W, JustNow(W), EndLoop
  PROVE  \E V : JustNext(V)
<1>1. /\ stack # <<>> /\ Top.kind \in {"loop", "switch"} /\ sort' = sort /\ ctorinit' = ctorinit /\ errors' = errors
      /\ stack' = Outer /\ paths' = Chain(Top.before, Runs(Top.kind, paths))
      /\ callSuper' = Popped(Top.cs, callSuper) /\ fieldinit' = PoppedFields(Top.fi, fieldinit)
  BY DEF EndLoop, Inside, Continue, Unchecked, PopScope
<1> DEFINE Q == IF Top.kind = "loop" THEN ({Skip} \cup paths) \cup Chain(paths, paths) ELSE {Skip} \cup paths
<1>2. Runs(Top.kind, paths) = Q
  BY <1>1 DEF Runs
<1>3. /\ Top.kind \in {"block", "label", "loop", "switch", "until"} /\ Top.kind \notin {"block", "label", "until"}
      /\ paths' = Chain(Top.before, Q)
      /\ Top.kind = "loop" => Q = ({Skip} \cup paths) \cup Chain(paths, paths)
      /\ Top.kind = "switch" => Q = {Skip} \cup paths
  BY <1>1, <1>2
<1> HIDE DEF Q
<1> QED
  BY <1>1, <1>3, JustScope

LEMMA JustDo ==
  ASSUME Typed, NEW W, JustNow(W), EndDo
  PROVE  \E V : JustNext(V)
<1>1. /\ stack # <<>> /\ Top.kind = "until" /\ sort' = sort /\ ctorinit' = ctorinit /\ errors' = errors
      /\ stack' = Outer /\ paths' = Chain(Top.before, Runs(Top.kind, paths))
      /\ callSuper' = callSuper /\ fieldinit' = fieldinit
  BY DEF EndDo, Inside, Continue, Unchecked
<1> DEFINE Q == paths \cup Chain(paths, paths)
<1>2. Runs("until", paths) = Q
  BY DEF Runs
<1>3. Top.kind \in {"block", "label", "loop", "switch", "until"} /\ Top.kind \notin {"block", "label", "loop", "switch"}
      /\ paths' = Chain(Top.before, Q)
  BY <1>1, <1>2
<1> QED
  BY <1>1, <1>3, JustScope

\* As long as the constructor is analysed, what is reported is true.
Fairly == Straight(sort) /\ ~done => \E W : JustNow(W)

LEMMA JustPrimed ==
  ASSUME NEW W, JustNext(W)
  PROVE  JustNow(W)'
<1>1. Just(sort', ctorinit', errors', stack', W, callSuper', fieldinit', paths')
  BY DEF JustNext
<1> QED
  BY <1>1 DEF JustNow, Just

LEMMA FairlyInit == Init => Fairly
<1> SUFFICES ASSUME Init PROVE \E W : JustNow(W)
  BY DEF Fairly
<1> DEFINE W == <<>>
<1>1. /\ stack = <<>> /\ Len(stack) = 0 /\ W \in Seq(SUBSET Effect) /\ Len(W) = 0 /\ 1..Len(stack) = {}
      /\ paths = {Skip} /\ callSuper = {} /\ fieldinit = [f \in Fields |-> {}] /\ errors = {} /\ ctorinit = {}
  BY DEF Init
<1> HIDE DEF W
<1>2. Unfolds(stack, W) /\ PlainStack(sort, stack) /\ Around(stack) = {} /\ Back(W) = {Skip}
  BY <1>1 DEF Unfolds, PlainStack, Around, KindsTo, Back, BackTo
<1>3. PlainPart({}, {Skip})
  BY SkipFields DEF PlainPart, Mild, Sheltered
<1>4. {Skip} \in SUBSET Effect /\ Chain({Skip}, {Skip}) = {Skip}
  <2>1. {Skip} \in SUBSET Effect
    BY SkipLive
  <2> QED
    BY <2>1, ChainSkip
<1>5. ASSUME NEW x \in Judgeable(sort) PROVE Judge(sort, x, ctorinit, stack, W, callSuper, fieldinit, paths)
  <2>1. GoesOn({Skip}) /\ Skip.out = "on" /\ Skip.calls = 0 /\ ~Skip.again /\ \A f \in Fields : Skip.sets[f] = 0
    BY SkipFields DEF GoesOn
  <2>2. GoodCalls({}, {Skip})
    BY <2>1 DEF GoodCalls, Called
  <2>3. ASSUME x \in Fields
        PROVE  fieldinit[x] = {} /\ GoodSets(sort, x, {}, {Skip}) /\ GoodNever({}, {}, {Skip})
    BY <1>1, <2>1, <2>3 DEF GoodSets, GoodNever
  <2>4. Fair(sort, x, ctorinit, {}, fieldinit, {Skip})
    BY <2>2, <2>3 DEF Fair, Called
  <2>5. HeldStack(sort, x, ctorinit, stack, W)
    BY <1>1 DEF HeldStack
  <2> QED
    BY <1>1, <1>2, <1>4, <2>4, <2>5 DEF Judge
<1>6. errors \cap CallComplaints = {} /\ errors \cap FieldComplaints = {}
  BY <1>1
<1>7. Just(sort, ctorinit, errors, stack, W, callSuper, fieldinit, paths)
  BY <1>1, <1>2, <1>3, <1>5, <1>6 DEF Just
<1> QED
  BY <1>7 DEF JustNow

LEMMA FairlyNext ==
  ASSUME Settled, Typed, Fairly, [Next]_vars
  PROVE  Fairly'
<1>1. CASE UNCHANGED vars
  BY <1>1 DEF vars, Fairly, JustNow, Just
<1>2. CASE Next
  <2>1. ~done
    BY <1>2, NotDone
  <2>2. sort' = sort
    BY <1>2 DEF Next, Call, Assign, Return, Halt, Throw, Goto, Construct, BeginIf, BeginThen, BeginElse, EndIf,
         BeginLeft, BeginRight, EndConditional, BeginOperand, EndLogical, BeginBlock, BeginLabel, EndBlock,
         BeginLoop, EndLoop, BeginUntil, EndDo, Continue, Finish
  <2>3. ASSUME Straight(sort), ~done' PROVE \E V : JustNext(V)
    <3>1. PICK W : JustNow(W)
      BY <2>1, <2>3 DEF Fairly
    <3>2. CASE (\E c \in Calls : Call(c)) \/ (\E f \in Fields : Assign(f)) \/ Return
      BY <2>3, <3>1, <3>2, JustCall, JustAssign, JustReturn
    <3>3. CASE Halt \/ Throw \/ Goto
      BY <2>3, <3>3 DEF Halt, Throw, Goto, Construct, Straight, Has
    <3>4. CASE Begins
      BY <3>1, <3>4, JustBegin
    <3>5. CASE BeginThen \/ BeginElse \/ BeginRight \/ BeginUntil
      BY <3>1, <3>5, JustThen, JustElse, JustRight, JustUntil
    <3>6. CASE Ends
      BY <2>3, <3>1, <3>6, JustIf, JustConditional, JustLogical, JustBlock, JustLoop, JustDo DEF Ends
    <3>7. CASE Finish
      BY <2>3, <3>7 DEF Finish
    <3> QED
      BY <1>2, <3>2, <3>3, <3>4, <3>5, <3>6, <3>7, NextCases
  <2>4. SUFFICES ASSUME Straight(sort)', ~done' PROVE \E W : JustNow(W)'
    BY DEF Fairly
  <2>5. Straight(sort)
    BY <2>2, <2>4 DEF Straight, Has
  <2>6. PICK V : JustNext(V)
    BY <2>3, <2>4, <2>5
  <2>7. JustNow(V)'
    BY <2>6, JustPrimed
  <2> QED
    BY <2>7
<1> QED
  BY <1>1, <1>2

\* At the end, what has been reported shows on the paths of the body.
LEMMA BlamedAtEnd ==
  ASSUME Typed, NEW W, JustNow(W), stack = <<>>
  PROVE  /\ Mild(paths) /\ \A x \in Judgeable(sort) : Fair(sort, x, ctorinit, callSuper, fieldinit, paths)
         /\ errors \cap CallComplaints # {} /\ Straight(sort) => Doomed(sort, Calling, paths)
         /\ errors \cap FieldComplaints # {} /\ Direct(sort) => \E x \in Judgeable(sort) \ {Calling} : Doomed(sort, x, paths)
<1>1. Len(stack) = 0 /\ 1..Len(stack) = {} /\ paths \in SUBSET Effect
  BY DEF Typed, Effects
<1>2. /\ Unfolds(stack, W) /\ PlainPart(Around(stack), paths)
      /\ \A x \in Judgeable(sort) : Judge(sort, x, ctorinit, stack, W, callSuper, fieldinit, paths)
      /\ errors \cap CallComplaints # {} /\ Straight(sort) => Blame(sort, Calling, stack, W, paths)
      /\ errors \cap FieldComplaints # {} /\ Direct(sort) => \E x \in Judgeable(sort) \ {Calling} : Blame(sort, x, stack, W, paths)
  BY DEF JustNow, Just
<1>3. Back(W) = {Skip} /\ Chain(Back(W), paths) = paths
  <2>1. Len(W) = 0
    BY <1>1, <1>2 DEF Unfolds
  <2>2. Back(W) = {Skip}
    BY <2>1 DEF Back, BackTo
  <2> QED
    BY <1>1, <2>2, ChainSkip
<1>4. \A x : Blame(sort, x, stack, W, paths) => Doomed(sort, x, paths)
  BY <1>1, <1>3 DEF Blame, Owed, Pending
<1> QED
  BY <1>2, <1>3, <1>4 DEF Judge, PlainPart

\* What super() does before the body does not change what the body does to the
\* fields, and there is one call more.
LEMMA BehindSuper ==
  ASSUME NEW p \in Effect
  PROVE  LET r == Then(SuperEffect, p)
         IN  /\ r \in Effect /\ r.out = p.out /\ (p.calls > 0 => r.calls > 1)
             /\ \A f \in Fields : /\ r.sets[f] > 1 <=> p.sets[f] > 1
                                  /\ r.sets[f] = 0 <=> p.sets[f] = 0
<1> DEFINE q == SuperEffect  r == Then(q, p)
<1>1. q \in Effect /\ q.out = "on" /\ q.calls > 0 /\ ~q.again /\ \A f \in Fields : ~(q.sets[f] > 0)
  BY SuperEffectFields
<1> HIDE DEF q
<1>2. \A f \in Fields : ~(q.sets[f] > 1)
  BY <1>1, Counted
<1>3. r \in Effect
  BY <1>1, ThenFields
<1>4. /\ r.out = p.out
      /\ r.calls > 1 <=> \/ q.calls > 1 \/ p.calls > 1 \/ ((q.calls > 0 \/ q.again) /\ p.calls > 0)
      /\ \A f \in Fields :
           /\ r.sets[f] > 0 <=> q.sets[f] > 0 \/ p.sets[f] > 0
           /\ r.sets[f] > 1 <=> \/ q.sets[f] > 1 \/ p.sets[f] > 1 \/ ((q.sets[f] > 0 \/ q.again) /\ p.sets[f] > 0)
  BY <1>1, ThenCounts
<1> HIDE DEF r
<1>5. \A f \in Fields : /\ r.sets[f] > 1 <=> p.sets[f] > 1
                        /\ r.sets[f] = 0 <=> p.sets[f] = 0
  BY <1>1, <1>2, <1>3, <1>4, Counted
<1>6. r \in Effect /\ r.out = p.out /\ (p.calls > 0 => r.calls > 1)
  BY <1>1, <1>3, <1>4
<1> QED
  BY <1>5, <1>6 DEF q, r

LEMMA FinishRejectsCalls ==
  ASSUME Typed, Fairly, Finish
  PROVE  CallRejectionsJustified'
<1>1. /\ stack = <<>> /\ sort' = sort /\ ~done
      /\ paths' = IF ImplicitSuper THEN Chain({SuperEffect}, paths) ELSE paths
      /\ paths \in SUBSET Effect
  BY DEF Finish, SuperEffect, Typed, Effects
<1>2. SUFFICES ASSUME errors' \cap CallComplaints # {}, Straight(sort)
               PROVE  \/ \E p \in paths' : p.calls > 1
                      \/ \E p, q \in paths' : Completes(p) /\ p.calls = 0 /\ q.calls > 0
  BY <1>1 DEF CallRejectionsJustified, Without, Straight, Has
<1>3. PICK W : JustNow(W)
  BY <1>1, <1>2 DEF Fairly
<1>4. /\ errors \cap CallComplaints # {} => DoomedCalls(paths)
      /\ DoomedCalls(paths) \/ GoodCalls(callSuper, paths)
  BY <1>1, <1>2, <1>3, BlamedAtEnd, JudgeableIs, CallingIsNoField DEF Doomed, Fair
<1>5. DoomedCalls(paths) \/ (~ImplicitSuper /\ FallsThrough /\ "any" \in callSuper /\ ~Called(callSuper))
  <2>1. CASE errors \cap CallComplaints # {}
    BY <1>4, <2>1
  <2>2. CASE errors \cap CallComplaints = {}
    <3> DEFINE cs == IF ImplicitSuper THEN {"any", "super"} ELSE callSuper
    <3>1. errors' = (errors \cup When("this" \notin callSuper /\ UninitializedFields # {}, "field skipped"))
                       \cup (IF FallsThrough THEN ReturnErrors(cs) ELSE {})
      BY DEF Finish
    <3>2. FallsThrough /\ "any" \in cs /\ ~Called(cs)
      BY <1>2, <2>2, <3>1 DEF ReturnErrors, When, CallComplaints
    <3>3. ~ImplicitSuper
      BY <3>2 DEF Called, Calls
    <3> QED
      BY <3>2, <3>3
  <2> QED
    BY <2>1, <2>2
<1>6. CASE DoomedCalls(paths)
  <2>1. CASE ~ImplicitSuper
    BY <1>1, <1>6, <2>1 DEF DoomedCalls, Completes
  <2>2. CASE ImplicitSuper
    <3>1. PICK p \in paths : p.calls > 0
      BY <1>1, <1>6, Counted DEF DoomedCalls
    <3>2. Then(SuperEffect, p) \in paths'
      BY <1>1, <2>2, <3>1, InChain
    <3>3. Then(SuperEffect, p).calls > 1
      BY <1>1, <3>1, BehindSuper
    <3> QED
      BY <3>2, <3>3
  <2> QED
    BY <2>1, <2>2
<1>7. CASE ~DoomedCalls(paths)
  <2>1. GoodCalls(callSuper, paths) /\ ~ImplicitSuper /\ FallsThrough /\ "any" \in callSuper /\ ~Called(callSuper)
    BY <1>4, <1>5, <1>7
  <2>2. PICK q \in paths : q.calls > 0
    BY <2>1 DEF GoodCalls
  <2>3. PICK p \in paths : p.out = "on"
    BY <2>1 DEF FallsThrough
  <2>4. ~(p.calls > 0) /\ p \in Effect
    BY <1>1, <2>1, <2>3 DEF GoodCalls
  <2>5. p.calls = 0 /\ Completes(p) /\ p \in paths' /\ q \in paths'
    BY <1>1, <2>1, <2>3, <2>4, Counted DEF Completes
  <2> QED
    BY <2>2, <2>5
<1> QED
  BY <1>6, <1>7

LEMMA FinishRejectsFields ==
  ASSUME Typed, Fairly, Finish
  PROVE  FieldRejectionsJustified'
<1>1. /\ stack = <<>> /\ sort' = sort /\ ~done
      /\ paths' = IF ImplicitSuper THEN Chain({SuperEffect}, paths) ELSE paths
      /\ paths \in SUBSET Effect
  BY DEF Finish, SuperEffect, Typed, Effects
<1>2. SUFFICES ASSUME errors' \cap FieldComplaints # {}, Direct(sort)
               PROVE  \/ \E p \in paths', f \in sort.unassignable : p.sets[f] > 1
                      \/ \E p \in paths', f \in sort.mustInit : Completes(p) /\ p.sets[f] # 1
  BY <1>1 DEF FieldRejectionsJustified, Without, Direct, Straight, Has, MustInit, Unassignable
<1>3. PICK W : JustNow(W)
  BY <1>1, <1>2 DEF Fairly, Direct
<1>4. /\ Mild(paths) /\ \A x \in Judgeable(sort) : Fair(sort, x, ctorinit, callSuper, fieldinit, paths)
      /\ errors \cap FieldComplaints # {} => \E x \in Judgeable(sort) \ {Calling} : Doomed(sort, x, paths)
  BY <1>1, <1>2, <1>3, BlamedAtEnd
\* A path of the body that is wrong.
<1> DEFINE Wrong(p, f) == \/ f \in sort.unassignable /\ p.sets[f] > 1
                          \/ f \in sort.mustInit /\ (p.sets[f] > 1 \/ p.sets[f] = 0)
<1>5. \E p \in paths, f \in Fields : Wrong(p, f)
  <2>1. ASSUME NEW f \in Fields, f \in sort.mustInit \cup sort.unassignable, DoomedSets(sort, f, paths)
        PROVE  \E p \in paths : Wrong(p, f)
    BY <2>1 DEF DoomedSets
  <2>2. CASE errors \cap FieldComplaints # {}
    <3>1. PICK x \in Judgeable(sort) \ {Calling} : Doomed(sort, x, paths)
      BY <1>4, <2>2
    <3>2. x \in Fields /\ x \in sort.mustInit \cup sort.unassignable
      BY <3>1, SortFields, JudgeableIs
    <3> QED
      BY <2>1, <3>1, <3>2 DEF Doomed
  <2>3. CASE errors \cap FieldComplaints = {}
    <3>1. "this" \notin callSuper /\ UninitializedFields # {}
      BY <1>2, <2>3 DEF Finish, When, FieldComplaints, ReturnErrors
    <3>2. PICK f \in sort.mustInit : f \notin ctorinit \/ "this" \notin fieldinit[f]
      BY <3>1 DEF UninitializedFields, MustInit
    <3>3. f \in Judgeable(sort) /\ f \in Fields
      BY <1>2, <3>2, SortFields, JudgeableIs
    <3>4. DoomedSets(sort, f, paths) \/ (/\ GoodSets(sort, f, fieldinit[f], paths)
                                         /\ f \in sort.mustInit \ ctorinit => GoodNever(fieldinit[f], callSuper, paths))
      BY <1>4, <3>3 DEF Fair
    <3>5. CASE GoodSets(sort, f, fieldinit[f], paths) /\ (f \in sort.mustInit \ ctorinit => GoodNever(fieldinit[f], callSuper, paths))
      <4>1. "this" \notin fieldinit[f]
        BY <3>1, <3>2, <3>5 DEF GoodNever
      <4> QED
        BY <3>2, <3>3, <3>5, <4>1 DEF GoodSets
    <3> QED
      BY <2>1, <3>2, <3>3, <3>4, <3>5
  <2> QED
    BY <2>2, <2>3
<1>6. PICK p \in paths, f \in Fields : \/ f \in sort.unassignable /\ p.sets[f] > 1
                                       \/ f \in sort.mustInit /\ (p.sets[f] > 1 \/ p.sets[f] = 0)
  BY <1>5
<1>7. p \in Effect /\ Completes(p)
  BY <1>1, <1>4 DEF Mild, Completes
<1>8. PICK r \in paths' : r \in Effect /\ r.out = p.out /\ (r.sets[f] > 1 <=> p.sets[f] > 1) /\ (r.sets[f] = 0 <=> p.sets[f] = 0)
  <2>1. CASE ImplicitSuper
    <3>1. Then(SuperEffect, p) \in paths'
      BY <1>1, <2>1, InChain
    <3> QED
      BY <1>7, <3>1, BehindSuper
  <2>2. CASE ~ImplicitSuper
    BY <1>1, <1>7, <2>2
  <2> QED
    BY <2>1, <2>2
<1>9. Completes(r)
  BY <1>7, <1>8 DEF Completes
<1>10. r.sets[f] > 1 \/ r.sets[f] = 0 => r.sets[f] # 1
  OBVIOUS
<1> QED
  BY <1>6, <1>8, <1>9, <1>10

\* The invariant: what is reported is true, and at the end it shows.
Rejected == Fairly /\ (done => CallRejectionsJustified /\ FieldRejectionsJustified)

LEMMA RejectedNext ==
  ASSUME Settled, Typed, Rejected, [Next]_vars
  PROVE  Rejected'
<1>1. Fairly'
  BY FairlyNext DEF Rejected
<1>2. CASE UNCHANGED vars
  <2>1. (done => CallRejectionsJustified /\ FieldRejectionsJustified)'
    BY <1>2 DEF vars, Rejected, CallRejectionsJustified, FieldRejectionsJustified, Without, MustInit, Unassignable
  <2> QED
    BY <1>1, <2>1 DEF Rejected
<1>3. CASE Next
  <2>1. ~done
    BY <1>3, NotDone
  <2>2. ASSUME done' PROVE CallRejectionsJustified' /\ FieldRejectionsJustified'
    <3>1. Finish
      BY <1>3, <2>1, <2>2 DEF Next, Call, Assign, Return, Halt, Throw, Goto, Construct, BeginIf, BeginThen,
           BeginElse, EndIf, BeginLeft, BeginRight, EndConditional, BeginOperand, EndLogical, BeginBlock,
           BeginLabel, EndBlock, BeginLoop, EndLoop, BeginUntil, EndDo, Continue
    <3> QED
      BY <3>1, FinishRejectsCalls, FinishRejectsFields DEF Rejected
  <2> QED
    BY <1>1, <2>2 DEF Rejected
<1> QED
  BY <1>2, <1>3

\* In every constructor without exceptions, whatever it is made of, what has been
\* reported is true of the paths so far.
THEOREM FlowRejected ==
  ASSUME Settled
  PROVE  Spec => [](Typed /\ Rejected)
<1>1. Init => Typed /\ Rejected
  BY TypedInit, FairlyInit DEF Init, Rejected
<1>2. Typed /\ Rejected /\ [Next]_vars => Typed' /\ Rejected'
  BY TypedNext, RejectedNext
<1> QED
  BY <1>1, <1>2, PTL DEF Spec

\* A constructor is rejected for its calls only if it is wrong: some path calls
\* twice, or one completes without a call where another calls (mergeCallSuper()).
THEOREM CallsRejectedRightly ==
  ASSUME Settled
  PROVE  Spec => []CallRejectionsJustified
<1>1. Typed /\ Rejected => CallRejectionsJustified
  BY DEF Rejected, CallRejectionsJustified
<1>2. Spec => [](Typed /\ Rejected)
  BY FlowRejected
<1> QED
  BY <1>1, <1>2, PTL

\* A constructor is rejected for its fields only if some path initialises one that
\* is const twice, or completes without one that needs it (mergeFieldInit()).
THEOREM FieldsRejectedRightly ==
  ASSUME Settled
  PROVE  Spec => []FieldRejectionsJustified
<1>1. Typed /\ Rejected => FieldRejectionsJustified
  BY DEF Rejected, FieldRejectionsJustified
<1>2. Spec => [](Typed /\ Rejected)
  BY FlowRejected
<1> QED
  BY <1>1, <1>2, PTL

=============================================================================
