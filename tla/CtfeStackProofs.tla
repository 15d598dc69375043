--------------------------- MODULE CtfeStackProofs ---------------------------
(***************************************************************************)
(* Proofs about the stack of the compile-time interpreter.                 *)
(*                                                                         *)
(* The invariant speaks of every activation k and not of the current one   *)
(* only: its part of the stack (Base(k), Limit(k)], and the addresses that *)
(* the variables have in it, which for a suspended one are those saved at  *)
(* the beginning of the next.                                              *)
(*                                                                         *)
(* FramesOK speaks of addresses, and CellsOK, which rests on it, of values:*)
(* a suspended activation keeps its entries as they are, so that a ref     *)
(* parameter may go by the address of a variable far below.                *)
(***************************************************************************)
EXTENDS CtfeStack, SequenceTheorems, WellFoundedInduction, TLAPS

Base(k) == IF k = Depth THEN framepointer ELSE frames[k]
Limit(k) == IF k = Depth THEN Len(vars) ELSE Base(k + 1)
Adr(k) == IF k = Depth THEN address ELSE before[k + 1]

NoParam == {v \in Vars : \A f \in Functions : v \notin ParamsOf(f)}
Trusted == IF odd THEN NoParam ELSE Vars

Absent(vs, lo, hi, v) == \A i \in lo + 1 .. hi : vs[i] # v

\* The entries from lo + 1 to hi of the stack vs, ids are those of an activation of f
\* that began with the addresses bef and has come to adr; good are the variables that
\* this is claimed of, and op the statements that it has opened.
FrameOK(vs, ids, good, lo, hi, adr, bef, f, op) ==
    /\ lo \in Nat /\ hi \in Nat /\ lo <= hi
    /\ \A i \in lo + 1 .. hi : FunctionOf[vs[i]] = f
    /\ \A i \in lo + 1 .. hi : vs[i] \in good => ids[i] = bef[vs[i]]
    /\ \A v \in good : bef[v] <= lo /\ adr[v] <= hi
    /\ \A v \in good : Absent(vs, lo, hi, v) => adr[v] = bef[v]
    /\ \A v \in good \ ParamsOf(f) : adr[v] <= lo => adr[v] = bef[v]
    /\ \A v \in good \ ParamsOf(f) : adr[v] > lo => vs[adr[v]] = v
    /\ \A j \in DOMAIN op : op[j] \in Scoped /\ FunctionOf[op[j]] = f /\ adr[op[j]] > lo
    /\ \A i, j \in DOMAIN op : op[i] = op[j] => i = j

TodoOK ==
    /\ \A j \in DOMAIN todo : todo[j].v \in ParamsOf(fd)
    /\ \A j \in DOMAIN todo : todo[j].e \in Vars <=> todo[j].v \in RefParams
    /\ \A i, j \in DOMAIN todo : todo[i].v = todo[j].v => i = j
    /\ pushed => todo # <<>>
    /\ ~odd /\ pushed => /\ framepointer < address[todo[1].v] /\ address[todo[1].v] <= Len(vars)
                         /\ vars[address[todo[1].v]] = todo[1].v
    /\ ~odd => \A j \in DOMAIN todo :
        /\ (j = 1 /\ pushed) \/ Absent(vars, framepointer, Len(vars), todo[j].v)
        /\ todo[j].e \in Vars /\ FunctionOf[todo[j].e] = fd => todo[j].e \notin ParamsOf(fd)

FramesOK ==
    /\ Len(frames) = Depth - 1 /\ Len(before) = Depth
    /\ Len(opened) = Depth /\ Len(cells) = Depth /\ Depth <= MaxCalls
    /\ \A j, k \in 1..Depth : j <= k => Base(j) <= Base(k)
    /\ \A k \in 1..Depth : FrameOK(vars, savedId, Trusted, Base(k), Limit(k), Adr(k),
                                   before[k], fds[k], opened[k])

StackInv == TypeOK /\ FramesOK /\ TodoOK

-----------------------------------------------------------------------------
(* One frame                                                               *)

\* The last of the entries of a variable is one of them.
LEMMA LatestIn ==
    ASSUME NEW n \in Nat, NEW S, S \subseteq 1..n, S # {}
    PROVE  Latest(S) \in S
<1> DEFINE T == {n - j : j \in S}
<1>1. T \subseteq Nat /\ T # {}
  <2>1. \A j \in S : j \in Nat /\ n - j \in Nat
    OBVIOUS
  <2>2. T # {}
    BY Zenon
  <2> QED BY <2>1, <2>2
<1> HIDE DEF T
<1>2. PICK m \in T : \A y \in T : ~(<<y, m>> \in OpToRel(<, Nat))
  BY <1>1, NatLessThanWellFounded, WFMin
<1>3. \A y \in T : m <= y
  <2>1. SUFFICES ASSUME NEW y \in T, y < m PROVE FALSE
    BY <1>1
  <2>2. y \in Nat /\ m \in Nat
    BY <1>1
  <2>3. <<y, m>> \in OpToRel(<, Nat)
    BY <2>1, <2>2 DEF OpToRel
  <2> QED BY <2>3, <1>2
<1>4. PICK j \in S : m = n - j
  BY DEF T
<1>5. \A k \in S : k <= j
  BY <1>3, <1>4 DEF T
<1> QED BY <1>5 DEF Latest

\* What popAll() gives a variable back is its address at the beginning of the frame.
LEMMA FrameRestores ==
    ASSUME NEW vs \in Seq(Vars), NEW ids, NEW good \in SUBSET Vars, NEW lo, NEW adr, NEW bef,
           NEW f, NEW op, FrameOK(vs, ids, good, lo, Len(vs), adr, bef, f, op),
           NEW v \in good
    PROVE  LET E == {j \in lo + 1 .. Len(vs) : vs[j] = v} IN
           (IF E = {} THEN adr[v] ELSE ids[Latest(E)]) = bef[v]
<1> DEFINE E == {j \in lo + 1 .. Len(vs) : vs[j] = v}
<1>1. CASE E = {}
  <2>1. Absent(vs, lo, Len(vs), v)
    BY <1>1 DEF Absent
  <2> QED BY <1>1, <2>1 DEF FrameOK
<1>2. CASE E # {}
  <2>1. lo \in Nat /\ Len(vs) \in Nat
    BY DEF FrameOK
  <2>2. E \subseteq 1..Len(vs)
    BY <2>1
  <2>3. Latest(E) \in E
    BY <1>2, <2>1, <2>2, LatestIn
  <2> HIDE DEF E
  <2>4. Latest(E) \in lo + 1 .. Len(vs) /\ vs[Latest(E)] = v
    BY <2>3 DEF E
  <2>5. ids[Latest(E)] = bef[v]
    BY <2>4 DEF FrameOK
  <2> QED BY <1>2, <2>5 DEF E
<1> QED BY <1>1, <1>2

\* A frame is not disturbed by what happens above it, nor by a change of the
\* addresses that are not claimed to be right.
LEMMA FrameSame ==
    ASSUME NEW vs, NEW ids, NEW good, NEW lo, NEW hi, NEW adr, NEW bef, NEW f, NEW op,
           FrameOK(vs, ids, good, lo, hi, adr, bef, f, op),
           NEW vs2, NEW ids2, NEW good2, NEW adr2,
           \A i \in 1..hi : vs2[i] = vs[i] /\ ids2[i] = ids[i],
           good2 \subseteq good, Scoped \subseteq good2,
           \A v \in good2 : adr2[v] = adr[v] /\ adr[v] \in Nat
    PROVE  FrameOK(vs2, ids2, good2, lo, hi, adr2, bef, f, op)
<1>1. lo \in Nat /\ hi \in Nat /\ lo <= hi
  BY DEF FrameOK
<1>2. \A i \in lo + 1 .. hi : i \in 1..hi
  BY <1>1
<1>3. \A v : Absent(vs2, lo, hi, v) => Absent(vs, lo, hi, v)
  BY <1>2 DEF Absent
<1>4. \A i \in lo + 1 .. hi : FunctionOf[vs2[i]] = f /\ (vs2[i] \in good2 => ids2[i] = bef[vs2[i]])
  BY <1>2 DEF FrameOK
<1>5. \A v \in good2 : /\ bef[v] <= lo /\ adr2[v] <= hi
                       /\ Absent(vs2, lo, hi, v) => adr2[v] = bef[v]
  BY <1>3 DEF FrameOK
<1>6. \A v \in good2 \ ParamsOf(f) : /\ adr2[v] <= lo => adr2[v] = bef[v]
                                     /\ adr2[v] > lo => vs2[adr2[v]] = v
  <2>1. \A v \in good2 \ ParamsOf(f) : adr[v] > lo => adr[v] \in 1..hi
    BY <1>1 DEF FrameOK
  <2> QED BY <2>1 DEF FrameOK
<1>7. \A j \in DOMAIN op : op[j] \in Scoped /\ FunctionOf[op[j]] = f /\ adr2[op[j]] > lo
  BY DEF FrameOK
<1>8. \A i, j \in DOMAIN op : op[i] = op[j] => i = j
  BY DEF FrameOK
<1> QED BY <1>1, <1>4, <1>5, <1>6, <1>7, <1>8 DEF FrameOK

LEMMA FrameBegins ==
    ASSUME NEW vs, NEW ids, NEW good, NEW n \in Nat, NEW adr, NEW f,
           \A v \in good : adr[v] \in Nat /\ adr[v] <= n
    PROVE  FrameOK(vs, ids, good, n, n, adr, adr, f, <<>>)
<1>1. \A i \in n + 1 .. n : FALSE
  OBVIOUS
<1>2. \A v \in good : ~(adr[v] > n)
  OBVIOUS
<1> QED BY <1>1, <1>2 DEF FrameOK

\* push() of a variable that is not in the frame yet.
LEMMA FramePushes ==
    ASSUME NEW vs \in Seq(Vars), NEW ids \in Seq(Nat), Len(ids) = Len(vs),
           NEW good \in SUBSET Vars, NEW lo \in Nat, NEW adr \in [Vars -> Nat], NEW bef, NEW f, NEW op,
           FrameOK(vs, ids, good, lo, Len(vs), adr, bef, f, op), Scoped \subseteq good,
           NEW v \in Vars, FunctionOf[v] = f, ~(adr[v] > lo), v \in good => adr[v] = bef[v]
    PROVE  FrameOK(Append(vs, v), Append(ids, adr[v]), good, lo, Len(vs) + 1,
                   [adr EXCEPT ![v] = Len(vs) + 1], bef, f, op)
<1> DEFINE n == Len(vs)
           vs2 == Append(vs, v)
           ids2 == Append(ids, adr[v])
           adr2 == [adr EXCEPT ![v] = n + 1]
<1>1. /\ n \in Nat /\ vs2[n + 1] = v /\ ids2[n + 1] = adr[v]
      /\ \A i \in 1..n : vs2[i] = vs[i] /\ ids2[i] = ids[i]
  OBVIOUS
<1>2. adr2[v] = n + 1 /\ \A u \in Vars \ {v} : adr2[u] = adr[u]
  OBVIOUS
<1> HIDE DEF vs2, ids2, adr2, n
<1>3. FrameOK(vs, ids, good, lo, n, adr, bef, f, op)
  BY DEF n
<1>4. lo \in Nat /\ n \in Nat /\ lo <= n /\ n + 1 \in Nat /\ lo <= n + 1
  BY <1>1, <1>3 DEF FrameOK
<1>5. \A i \in lo + 1 .. n + 1 : i = n + 1 \/ (i \in lo + 1 .. n /\ i \in 1..n)
  BY <1>4
<1>6. \A i \in lo + 1 .. n + 1 : FunctionOf[vs2[i]] = f /\ (vs2[i] \in good => ids2[i] = bef[vs2[i]])
  <2> SUFFICES ASSUME NEW i \in lo + 1 .. n + 1
               PROVE  FunctionOf[vs2[i]] = f /\ (vs2[i] \in good => ids2[i] = bef[vs2[i]])
    OBVIOUS
  <2>1. CASE i = n + 1
    BY <2>1, <1>1
  <2>2. CASE i # n + 1
    <3>1. i \in lo + 1 .. n /\ i \in 1..n
      BY <2>2, <1>5
    <3>2. vs2[i] = vs[i] /\ ids2[i] = ids[i]
      BY <3>1, <1>1
    <3>3. FunctionOf[vs[i]] = f /\ (vs[i] \in good => ids[i] = bef[vs[i]])
      BY <3>1, <1>3 DEF FrameOK
    <3> QED BY <3>2, <3>3
  <2> QED BY <2>1, <2>2
<1>7. \A u \in good : bef[u] <= lo /\ adr2[u] <= n + 1
  <2>1. \A u \in good : u \in Vars /\ adr[u] \in Nat /\ bef[u] <= lo /\ adr[u] <= n
    BY <1>3 DEF FrameOK
  <2> QED BY <1>2, <1>4, <2>1
<1>8. \A u \in good : Absent(vs2, lo, n + 1, u) => adr2[u] = bef[u]
  <2> SUFFICES ASSUME NEW u \in good, Absent(vs2, lo, n + 1, u)
               PROVE  adr2[u] = bef[u]
    OBVIOUS
  <2>1. u # v
    <3>1. n + 1 \in lo + 1 .. n + 1
      BY <1>4
    <3> QED BY <3>1, <1>1 DEF Absent
  <2>2. Absent(vs, lo, n, u)
    <3>1. \A i \in lo + 1 .. n : i \in lo + 1 .. n + 1 /\ i \in 1..n
      BY <1>4
    <3> QED BY <3>1, <1>1 DEF Absent
  <2>3. adr[u] = bef[u]
    BY <1>3, <2>2 DEF FrameOK
  <2> QED BY <2>1, <2>3, <1>2
<1>9. \A u \in good \ ParamsOf(f) : /\ adr2[u] <= lo => adr2[u] = bef[u]
                                    /\ adr2[u] > lo => vs2[adr2[u]] = u
  <2> SUFFICES ASSUME NEW u \in good \ ParamsOf(f)
               PROVE  /\ adr2[u] <= lo => adr2[u] = bef[u]
                      /\ adr2[u] > lo => vs2[adr2[u]] = u
    OBVIOUS
  <2>1. CASE u = v
    <3>1. adr2[u] = n + 1 /\ ~(n + 1 <= lo)
      BY <2>1, <1>2, <1>4
    <3> QED BY <3>1, <2>1, <1>1
  <2>2. CASE u # v
    <3>1. adr2[u] = adr[u] /\ adr[u] \in Nat /\ adr[u] <= n
      BY <2>2, <1>2, <1>3 DEF FrameOK
    <3>2. adr[u] > lo => adr[u] \in 1..n
      BY <3>1, <1>4
    <3> QED BY <3>1, <3>2, <1>1, <1>3 DEF FrameOK
  <2> QED BY <2>1, <2>2
<1>10. \A j \in DOMAIN op : op[j] \in Scoped /\ FunctionOf[op[j]] = f /\ adr2[op[j]] > lo
  <2> SUFFICES ASSUME NEW j \in DOMAIN op
               PROVE  adr2[op[j]] > lo
    BY <1>3 DEF FrameOK
  <2>1. adr[op[j]] > lo /\ op[j] \in Vars
    BY <1>3 DEF FrameOK
  <2>2. op[j] # v
    BY <2>1
  <2> QED BY <2>1, <2>2, <1>2
<1>11. \A i, j \in DOMAIN op : op[i] = op[j] => i = j
  BY <1>3 DEF FrameOK
<1>12. FrameOK(vs2, ids2, good, lo, n + 1, adr2, bef, f, op)
  BY <1>4, <1>6, <1>7, <1>8, <1>9, <1>10, <1>11 DEF FrameOK
<1> QED BY <1>12 DEF vs2, ids2, adr2, n

\* A ref parameter takes over the address of a variable.
LEMMA FrameBinds ==
    ASSUME NEW vs, NEW ids, NEW good, NEW lo, NEW hi, NEW adr \in [Vars -> Nat], NEW bef, NEW f, NEW op,
           FrameOK(vs, ids, good, lo, hi, adr, bef, f, op), good \in SUBSET Vars, Scoped \subseteq Vars,
           NEW v \in ParamsOf(f), v \notin Scoped,
           NEW a \in Nat, v \in good => a <= hi /\ ~Absent(vs, lo, hi, v)
    PROVE  FrameOK(vs, ids, good, lo, hi, [adr EXCEPT ![v] = a], bef, f, op)
<1> DEFINE adr2 == [adr EXCEPT ![v] = a]
<1>1. (v \in Vars => adr2[v] = a) /\ \A u \in Vars \ {v} : adr2[u] = adr[u]
  OBVIOUS
<1> HIDE DEF adr2
<1>2. lo \in Nat /\ hi \in Nat /\ lo <= hi
  BY DEF FrameOK
<1>3. \A i \in lo + 1 .. hi : FunctionOf[vs[i]] = f /\ (vs[i] \in good => ids[i] = bef[vs[i]])
  BY DEF FrameOK
<1>4. \A u \in good : bef[u] <= lo /\ adr2[u] <= hi
  BY <1>1 DEF FrameOK
<1>5. \A u \in good : Absent(vs, lo, hi, u) => adr2[u] = bef[u]
  BY <1>1 DEF FrameOK
<1>6. \A u \in good \ ParamsOf(f) : /\ adr2[u] <= lo => adr2[u] = bef[u]
                                    /\ adr2[u] > lo => vs[adr2[u]] = u
  <2>1. \A u \in good \ ParamsOf(f) : adr2[u] = adr[u]
    BY <1>1
  <2> QED BY <2>1 DEF FrameOK
<1>7. \A j \in DOMAIN op : op[j] \in Scoped /\ FunctionOf[op[j]] = f /\ adr2[op[j]] > lo
  BY <1>1 DEF FrameOK
<1>8. \A i, j \in DOMAIN op : op[i] = op[j] => i = j
  BY DEF FrameOK
<1>9. FrameOK(vs, ids, good, lo, hi, adr2, bef, f, op)
  BY <1>2, <1>3, <1>4, <1>5, <1>6, <1>7, <1>8 DEF FrameOK
<1> QED BY <1>9 DEF adr2

\* A statement is opened with its variable on the stack.
LEMMA FrameOpens ==
    ASSUME NEW vs, NEW ids, NEW good, NEW lo, NEW hi, NEW adr, NEW bef, NEW f, NEW op \in Seq(Vars),
           FrameOK(vs, ids, good, lo, hi, adr, bef, f, op),
           NEW v \in Scoped, v \in Vars, FunctionOf[v] = f, adr[v] > lo,
           \A j \in DOMAIN op : op[j] # v
    PROVE  FrameOK(vs, ids, good, lo, hi, adr, bef, f, Append(op, v))
<1> DEFINE op2 == Append(op, v)
<1>1. DOMAIN op = 1..Len(op) /\ DOMAIN op2 = 1 .. Len(op) + 1 /\ Len(op) \in Nat
  OBVIOUS
<1>2. op2[Len(op) + 1] = v /\ \A j \in DOMAIN op : op2[j] = op[j]
  OBVIOUS
<1> HIDE DEF op2
<1>3. \A j \in DOMAIN op2 : j = Len(op) + 1 \/ j \in DOMAIN op
  BY <1>1
<1>4. \A j \in DOMAIN op2 : op2[j] \in Scoped /\ FunctionOf[op2[j]] = f /\ adr[op2[j]] > lo
  BY <1>2, <1>3 DEF FrameOK
<1>5. \A i, j \in DOMAIN op2 : op2[i] = op2[j] => i = j
  BY <1>2, <1>3 DEF FrameOK
<1>6. FrameOK(vs, ids, good, lo, hi, adr, bef, f, op2)
  BY <1>4, <1>5 DEF FrameOK
<1> QED BY <1>6 DEF op2

\* pop() of the variable of the statement that was opened last: it finds the entry of
\* this variable, gives it the address it had before the frame, and leaves the entry.
LEMMA FrameCloses ==
    ASSUME NEW vs \in Seq(Vars), NEW ids, NEW good, NEW lo, NEW adr \in [Vars -> Nat], NEW bef, NEW f,
           NEW op \in Seq(Vars), op # <<>>,
           FrameOK(vs, ids, good, lo, Len(vs), adr, bef, f, op), good \in SUBSET Vars,
           Scoped \subseteq good \ ParamsOf(f), \A v \in good : bef[v] \in Nat
    PROVE  LET v == op[Len(op)] IN
           /\ v \in Scoped /\ lo < adr[v] /\ adr[v] <= Len(vs)
           /\ ids[adr[v]] = bef[v] /\ bef[v] # Len(vs)
           /\ FrameOK(vs, ids, good, lo, Len(vs), [adr EXCEPT ![v] = bef[v]], bef, f, Front(op))
<1> DEFINE v == op[Len(op)]
           adr2 == [adr EXCEPT ![v] = bef[v]]
           n == Len(vs)
<1>0. Len(op) \in Nat \ {0} /\ DOMAIN op = 1..Len(op)
  OBVIOUS
<1>1. /\ Len(op) \in DOMAIN op
      /\ Front(op) \in Seq(Vars) /\ DOMAIN Front(op) = 1 .. Len(op) - 1
      /\ \A j \in 1 .. Len(op) - 1 : Front(op)[j] = op[j]
  BY DEF Front
<1>2. v \in Vars /\ adr2[v] = bef[v] /\ \A u \in Vars \ {v} : adr2[u] = adr[u]
  BY <1>1
<1>3. lo \in Nat /\ n \in Nat /\ lo <= n
  BY DEF FrameOK
<1>4. v \in Scoped /\ FunctionOf[v] = f /\ adr[v] > lo /\ v \in good /\ v \notin ParamsOf(f)
  BY <1>0, <1>1 DEF FrameOK
<1> HIDE DEF adr2, v
<1>5. adr[v] <= n /\ bef[v] <= lo /\ vs[adr[v]] = v /\ adr[v] \in Nat /\ bef[v] \in Nat
  BY <1>4, <1>2 DEF FrameOK
<1>6. adr[v] \in lo + 1 .. n
  BY <1>3, <1>4, <1>5
<1>7. ids[adr[v]] = bef[v] /\ bef[v] # n
  BY <1>3, <1>4, <1>5, <1>6 DEF FrameOK
<1>8. \A i \in lo + 1 .. n : FunctionOf[vs[i]] = f /\ (vs[i] \in good => ids[i] = bef[vs[i]])
  BY DEF FrameOK
<1>9. \A u \in good : bef[u] <= lo /\ adr2[u] <= n
  <2> SUFFICES ASSUME NEW u \in good
               PROVE  bef[u] <= lo /\ adr2[u] <= n
    OBVIOUS
  <2>1. bef[u] <= lo /\ adr[u] <= n
    BY DEF FrameOK
  <2>2. CASE u = v
    BY <2>1, <2>2, <1>2, <1>3, <1>5
  <2>3. CASE u # v
    BY <2>1, <2>3, <1>2
  <2> QED BY <2>2, <2>3
<1>10. \A u \in good : Absent(vs, lo, n, u) => adr2[u] = bef[u]
  BY <1>2 DEF FrameOK
<1>11. \A u \in good \ ParamsOf(f) : /\ adr2[u] <= lo => adr2[u] = bef[u]
                                     /\ adr2[u] > lo => vs[adr2[u]] = u
  <2> SUFFICES ASSUME NEW u \in good \ ParamsOf(f)
               PROVE  /\ adr2[u] <= lo => adr2[u] = bef[u]
                      /\ adr2[u] > lo => vs[adr2[u]] = u
    OBVIOUS
  <2>1. CASE u = v
    BY <2>1, <1>2, <1>3, <1>5
  <2>2. CASE u # v
    BY <2>2, <1>2 DEF FrameOK
  <2> QED BY <2>1, <2>2
<1>12. \A j \in DOMAIN Front(op) :
            Front(op)[j] \in Scoped /\ FunctionOf[Front(op)[j]] = f /\ adr2[Front(op)[j]] > lo
  <2> SUFFICES ASSUME NEW j \in 1 .. Len(op) - 1
               PROVE  op[j] \in Scoped /\ FunctionOf[op[j]] = f /\ adr2[op[j]] > lo
    BY <1>1
  <2>1. j \in DOMAIN op /\ Len(op) \in DOMAIN op /\ j # Len(op)
    <3>1. \A m \in Nat : \A i \in 1 .. m - 1 : i \in 1..m /\ i # m
      OBVIOUS
    <3>2. j \in 1..Len(op) /\ j # Len(op)
      BY <3>1, <1>0, Zenon
    <3> QED BY <3>2, <1>0, <1>1, Zenon
  <2>2. op[j] # v /\ op[j] \in Vars
    <3>1. op[j] = op[Len(op)] => j = Len(op)
      BY <2>1 DEF FrameOK
    <3>2. op[j] \in Vars
      BY <2>1
    <3> QED BY <3>1, <3>2, <2>1 DEF v
  <2>3. op[j] \in Scoped /\ FunctionOf[op[j]] = f /\ adr[op[j]] > lo
    BY <2>1 DEF FrameOK
  <2>4. adr2[op[j]] = adr[op[j]]
    BY <2>2, <1>2
  <2> QED BY <2>3, <2>4
<1>13. \A i, j \in DOMAIN Front(op) : Front(op)[i] = Front(op)[j] => i = j
  <2> SUFFICES ASSUME NEW i \in 1 .. Len(op) - 1, NEW j \in 1 .. Len(op) - 1, op[i] = op[j]
               PROVE  i = j
    BY <1>1
  <2>1. i \in DOMAIN op /\ j \in DOMAIN op
    BY <1>0
  <2> QED BY <2>1 DEF FrameOK
<1> HIDE DEF n
<1>14. FrameOK(vs, ids, good, lo, n, adr2, bef, f, Front(op))
  BY <1>3, <1>8, <1>9, <1>10, <1>11, <1>12, <1>13 DEF FrameOK
<1> QED BY <1>3, <1>4, <1>5, <1>7, <1>14 DEF adr2, v, n

-----------------------------------------------------------------------------
(* Helpers                                                                 *)

LEMMA SeqExcept ==
    ASSUME NEW S, NEW s \in Seq(S), NEW a, NEW e \in S
    PROVE  LET t == [s EXCEPT ![a] = e] IN
           /\ t \in Seq(S) /\ Len(t) = Len(s)
           /\ \A i \in 1..Len(s) : t[i] = IF i = a THEN e ELSE s[i]
<1>1. CASE a \in 1..Len(s)
  BY <1>1, ExceptSeq
<1>2. CASE a \notin 1..Len(s)
  <2>1. DOMAIN s = 1..Len(s) /\ s = [i \in DOMAIN s |-> s[i]]
    OBVIOUS
  <2>2. [s EXCEPT ![a] = e] = [i \in DOMAIN s |-> s[i]]
    BY <1>2, <2>1
  <2> QED BY <1>2, <2>1, <2>2
<1> QED BY <1>1, <1>2

LEMMA FcnExcept ==
    ASSUME NEW S, NEW T, NEW f \in [S -> T], NEW a \in S, NEW e \in T
    PROVE  LET g == [f EXCEPT ![a] = e] IN
           g \in [S -> T] /\ g[a] = e /\ \A x \in S \ {a} : g[x] = f[x]
OBVIOUS

LEMMA SeqAppend ==
    ASSUME NEW S, NEW s \in Seq(S), NEW e \in S
    PROVE  /\ Append(s, e) \in Seq(S) /\ Len(Append(s, e)) = Len(s) + 1
           /\ \A i \in 1..Len(s) : Append(s, e)[i] = s[i]
           /\ Append(s, e)[Len(s) + 1] = e
OBVIOUS

LEMMA Appended ==
    ASSUME NEW S, NEW s \in Seq(S), NEW e \in S, NEW n, Len(s) = n, NEW t, t = Append(s, e)
    PROVE  /\ t \in Seq(S) /\ Len(t) = n + 1 /\ t[n + 1] = e
           /\ \A i \in 1..n : t[i] = s[i]
BY SeqAppend

LEMMA SeqPrefix ==
    ASSUME NEW S, NEW s \in Seq(S), NEW n \in 0..Len(s)
    PROVE  /\ SubSeq(s, 1, n) \in Seq(S) /\ Len(SubSeq(s, 1, n)) = n
           /\ \A i \in 1..n : SubSeq(s, 1, n)[i] = s[i]
OBVIOUS

LEMMA SeqFront ==
    ASSUME NEW S, NEW s \in Seq(S), NEW n \in Nat, Len(s) = n + 1
    PROVE  Front(s) \in Seq(S) /\ Len(Front(s)) = n /\ \A i \in 1..n : Front(s)[i] = s[i]
<1>1. n \in 0..Len(s) /\ Front(s) = SubSeq(s, 1, n)
  BY DEF Front
<1> QED BY <1>1, SeqPrefix

LEMMA SeqTail ==
    ASSUME NEW S, NEW s \in Seq(S), s # <<>>
    PROVE  /\ Tail(s) \in Seq(S) /\ Len(Tail(s)) = Len(s) - 1
           /\ DOMAIN Tail(s) = 1 .. Len(s) - 1
           /\ \A i \in DOMAIN Tail(s) : i + 1 \in DOMAIN s /\ Tail(s)[i] = s[i + 1]
           /\ Head(s) = s[1] /\ 1 \in DOMAIN s
OBVIOUS

LEMMA Parameters ==
    /\ NoParam \subseteq Vars /\ Scoped \subseteq NoParam
    /\ Trusted \subseteq Vars /\ Scoped \subseteq Trusted /\ NoParam \subseteq Trusted
    /\ \A f \in Functions : ParamsOf(f) \subseteq Vars \ Scoped
    /\ \A f \in Functions : \A v \in ParamsOf(f) : FunctionOf[v] = f
    /\ \A v \in Vars : v \notin ParamsOf(FunctionOf[v]) => v \in NoParam
    /\ \A v \in RefParams : v \in ParamsOf(FunctionOf[v]) /\ FunctionOf[v] \in Functions
<1>1. \A f \in Functions : \A v \in ParamsOf(f) : v \in Vars \ Scoped /\ FunctionOf[v] = f
  BY ProgramAssumption DEF Owned
<1>2. NoParam \subseteq Vars /\ Scoped \subseteq NoParam
  BY <1>1, ProgramAssumption DEF NoParam
<1>3. Trusted \subseteq Vars /\ Scoped \subseteq Trusted /\ NoParam \subseteq Trusted
  BY <1>2 DEF Trusted
<1>4. \A v \in Vars : v \notin ParamsOf(FunctionOf[v]) => v \in NoParam
  BY <1>1 DEF NoParam
<1>5. \A v \in RefParams : v \in ParamsOf(FunctionOf[v]) /\ FunctionOf[v] \in Functions
  BY <1>1, ProgramAssumption
<1> QED BY <1>1, <1>2, <1>3, <1>4, <1>5

LEMMA DepthType ==
    ASSUME TypeOK
    PROVE  Depth \in Nat \ {0} /\ Depth \in 1..Depth /\ fd \in Functions
<1>1. fds \in Seq(Functions) /\ fds # <<>>
  BY DEF TypeOK
<1>2. Len(fds) \in Nat \ {0} /\ Len(fds) \in 1..Len(fds) /\ fds[Len(fds)] \in Functions
  BY <1>1
<1> QED BY <1>2 DEF Depth, fd

\* An action of the current activation leaves the frames below it alone.
LEMMA SameDepth ==
    ASSUME TypeOK, UNCHANGED <<frame, fds, before>>
    PROVE  /\ Depth' = Depth /\ fd' = fd
           /\ \A k \in 1..Depth : Base(k)' = Base(k)
           /\ \A k \in 1 .. Depth - 1 : Limit(k)' = Limit(k) /\ Adr(k)' = Adr(k)
           /\ Limit(Depth) = Len(vars) /\ Limit(Depth)' = Len(vars)'
           /\ Adr(Depth) = address /\ Adr(Depth)' = address' /\ Base(Depth) = framepointer
<1>1. Depth' = Depth /\ fd' = fd
  BY DEF Depth, fd, frame
<1>2. \A k \in 1..Depth : Base(k)' = Base(k)
  BY <1>1 DEF Base, frame
<1>3. \A k \in 1 .. Depth - 1 : k # Depth /\ k + 1 \in 1..Depth
  BY DepthType
<1>4. \A k \in 1 .. Depth - 1 : Limit(k)' = Limit(k) /\ Adr(k)' = Adr(k)
  BY <1>1, <1>2, <1>3 DEF Limit, Adr
<1>5. /\ Limit(Depth) = Len(vars) /\ Limit(Depth)' = Len(vars)'
      /\ Adr(Depth) = address /\ Adr(Depth)' = address' /\ Base(Depth) = framepointer
  BY <1>1 DEF Limit, Adr, Base
<1> QED BY <1>1, <1>2, <1>4, <1>5

LEMMA BelowTop ==
    ASSUME TypeOK, FramesOK
    PROVE  /\ \A k \in 1..Depth : Base(k) \in Nat /\ Limit(k) \in Nat
                                  /\ Base(k) <= framepointer /\ Base(k) <= Limit(k)
           /\ \A k \in 1 .. Depth - 1 : Limit(k) = Base(k + 1) /\ Limit(k) <= framepointer
           /\ framepointer <= Len(vars) /\ framepointer \in Nat /\ Len(vars) \in Nat
<1>1. \A k \in 1..Depth : Base(k) \in Nat /\ Limit(k) \in Nat /\ Base(k) <= Limit(k)
  BY DEF FramesOK, FrameOK
<1>2. Base(Depth) = framepointer /\ Limit(Depth) = Len(vars) /\ Depth \in 1..Depth /\ Depth \in Nat
  BY DepthType DEF Base, Limit
<1>3. \A k \in 1..Depth : Base(k) <= framepointer
  <2>1. \A k \in 1..Depth : k <= Depth
    BY <1>2
  <2> QED BY <1>2, <2>1 DEF FramesOK
<1>4. \A k \in 1 .. Depth - 1 : Limit(k) = Base(k + 1) /\ k + 1 \in 1..Depth
  BY <1>2 DEF Limit
<1> QED BY <1>1, <1>2, <1>3, <1>4

LEMMA TopFrame ==
    ASSUME TypeOK, FramesOK
    PROVE  FrameOK(vars, savedId, Trusted, framepointer, Len(vars), address, before[Depth], fd,
                   opened[Depth])
<1>1. FrameOK(vars, savedId, Trusted, Base(Depth), Limit(Depth), Adr(Depth), before[Depth],
              fds[Depth], opened[Depth])
  BY DepthType DEF FramesOK
<1> QED BY <1>1 DEF Base, Limit, Adr, fd

LEMMA TopChanges ==
    ASSUME TypeOK, FramesOK, UNCHANGED <<frame, fds, before, odd>>, TypeOK',
           \A i \in 1..framepointer : vars'[i] = vars[i] /\ savedId'[i] = savedId[i],
           Len(opened') = Depth, Len(cells') = Depth,
           \A k \in 1 .. Depth - 1 : opened'[k] = opened[k],
           FrameOK(vars', savedId', Trusted, framepointer, Len(vars'), address', before[Depth], fd,
                   opened'[Depth])
    PROVE  FramesOK'
<1>1. /\ Depth' = Depth /\ fd' = fd
      /\ \A k \in 1..Depth : Base(k)' = Base(k)
      /\ \A k \in 1 .. Depth - 1 : Limit(k)' = Limit(k) /\ Adr(k)' = Adr(k)
      /\ Limit(Depth)' = Len(vars)' /\ Adr(Depth)' = address' /\ Base(Depth) = framepointer
  BY SameDepth
<1>2. Trusted' = Trusted
  BY DEF Trusted
<1>3. /\ Len(frames)' = Depth' - 1 /\ Len(before)' = Depth'
      /\ Len(opened)' = Depth' /\ Len(cells)' = Depth' /\ Depth' <= MaxCalls
  BY <1>1 DEF FramesOK, frame
<1>4. \A j, k \in 1..Depth' : j <= k => Base(j)' <= Base(k)'
  BY <1>1 DEF FramesOK
<1>5. \A k \in 1..Depth' : FrameOK(vars', savedId', Trusted', Base(k)', Limit(k)', Adr(k)',
                                   before[k]', fds[k]', opened[k]')
  <2> SUFFICES ASSUME NEW k \in 1..Depth
               PROVE  FrameOK(vars', savedId', Trusted, Base(k), Limit(k)', Adr(k)',
                              before[k], fds[k], opened'[k])
    BY <1>1, <1>2
  <2>1. CASE k = Depth
    BY <2>1, <1>1 DEF fd
  <2>2. CASE k # Depth
    <3>1. k \in 1 .. Depth - 1
      BY <2>2, DepthType
    <3>2. Limit(k) <= framepointer /\ Limit(k) \in Nat /\ framepointer \in Nat
      BY <3>1, BelowTop
    <3>3. \A i \in 1..Limit(k) : vars'[i] = vars[i] /\ savedId'[i] = savedId[i]
      BY <3>2
    <3>4. Adr(k) \in [Vars -> Nat]
      <4>1. k + 1 \in 1..Depth
        BY <3>1, DepthType
      <4>2. before \in Seq([Vars -> Nat]) /\ Len(before) = Depth
        BY DEF TypeOK, FramesOK
      <4> QED BY <2>2, <4>1, <4>2 DEF Adr
    <3>5. \A v \in Trusted : Adr(k)[v] \in Nat
      BY <3>4, Parameters
    <3>6. FrameOK(vars, savedId, Trusted, Base(k), Limit(k), Adr(k), before[k], fds[k], opened[k])
      BY DEF FramesOK
    <3>7. FrameOK(vars', savedId', Trusted, Base(k), Limit(k), Adr(k), before[k], fds[k], opened[k])
      BY <3>3, <3>5, <3>6, Parameters, FrameSame
    <3> QED BY <3>7, <3>1, <1>1
  <2> QED BY <2>1, <2>2
<1> QED BY <1>3, <1>4, <1>5 DEF FramesOK

-----------------------------------------------------------------------------
(* push()                                                                  *)

LEMMA PushTypes ==
    ASSUME TypeOK, NEW v \in Vars, NEW e \in Entry, Push(v, e)
    PROVE  /\ values' \in Seq(Entry) /\ vars' \in Seq(Vars) /\ savedId' \in Seq(Nat)
           /\ Len(vars') = Len(values') /\ Len(savedId') = Len(values')
           /\ Pushed(v) \in [Vars -> Nat]
<1>1. /\ values \in Seq(Entry) /\ vars \in Seq(Vars) /\ savedId \in Seq(Nat)
      /\ Len(vars) = Len(values) /\ Len(savedId) = Len(values) /\ address \in [Vars -> Nat]
      /\ Len(vars) \in Nat /\ address[v] \in Nat
  BY DEF TypeOK
<1>2. CASE InFrame(v)
  <2>1. values' = [values EXCEPT ![address[v]] = e] /\ vars' = vars /\ savedId' = savedId
    BY <1>2 DEF Push
  <2>2. Pushed(v) = address
    BY <1>2 DEF Pushed
  <2> QED BY <1>1, <2>1, <2>2, SeqExcept
<1>3. CASE ~InFrame(v)
  <2>1. /\ values' = Append(values, e) /\ vars' = Append(vars, v)
        /\ savedId' = Append(savedId, address[v])
    BY <1>3 DEF Push
  <2>2. Pushed(v) = [address EXCEPT ![v] = Len(vars) + 1]
    BY <1>3 DEF Pushed
  <2>3. Pushed(v) \in [Vars -> Nat]
    BY <1>1, <2>2
  <2> QED BY <1>1, <2>1, <2>3, SeqAppend
<1> QED BY <1>2, <1>3

\* A variable that is pushed is in the frame afterwards, and the frame is as it should be.
LEMMA PushFrame ==
    ASSUME TypeOK, FramesOK, NEW v \in Vars, NEW e \in Entry, FunctionOf[v] = fd, Push(v, e),
           v \in Trusted /\ v \in ParamsOf(fd) => Absent(vars, framepointer, Len(vars), v)
    PROVE  /\ FrameOK(vars', savedId', Trusted, framepointer, Len(vars'), Pushed(v), before[Depth],
                      fd, opened[Depth])
           /\ \A i \in 1..Len(vars) : vars'[i] = vars[i] /\ savedId'[i] = savedId[i]
           /\ Len(vars) <= Len(vars') /\ Len(vars) \in Nat /\ Len(vars') \in Nat
           /\ \A i \in Len(vars) + 1 .. Len(vars') : vars'[i] = v
           /\ \A u \in Vars \ {v} : Pushed(v)[u] = address[u]
           /\ v \in Trusted => /\ framepointer < Pushed(v)[v] /\ Pushed(v)[v] <= Len(vars')
                               /\ vars'[Pushed(v)[v]] = v
<1>1. /\ vars \in Seq(Vars) /\ savedId \in Seq(Nat) /\ Len(savedId) = Len(vars)
      /\ address \in [Vars -> Nat] /\ Len(vars) \in Nat /\ address[v] \in Nat
      /\ framepointer \in Nat
  BY DEF TypeOK
<1>2. FrameOK(vars, savedId, Trusted, framepointer, Len(vars), address, before[Depth], fd, opened[Depth])
  BY TopFrame
<1>3. framepointer <= Len(vars)
  BY BelowTop
<1>4. CASE InFrame(v)
  <2>1. vars' = vars /\ savedId' = savedId /\ Pushed(v) = address /\ address[v] > framepointer
    BY <1>4 DEF Push, Pushed, InFrame
  <2>2. ASSUME v \in Trusted
        PROVE  address[v] <= Len(vars) /\ vars[address[v]] = v
    <3>1. v \notin ParamsOf(fd)
      <4>1. SUFFICES ASSUME v \in ParamsOf(fd) PROVE FALSE
        OBVIOUS
      <4>2. address[v] = before[Depth][v] /\ before[Depth][v] <= framepointer
        BY <1>2, <2>2, <4>1 DEF FrameOK
      <4> QED BY <4>2, <2>1, <1>1
    <3> QED BY <3>1, <2>2, <2>1, <1>2 DEF FrameOK
  <2>3. \A i \in Len(vars) + 1 .. Len(vars') : FALSE
    BY <1>1, <2>1
  <2> QED BY <1>1, <1>2, <2>1, <2>2, <2>3
<1>5. CASE ~InFrame(v)
  <2>1. /\ vars' = Append(vars, v) /\ savedId' = Append(savedId, address[v])
        /\ Pushed(v) = [address EXCEPT ![v] = Len(vars) + 1] /\ ~(address[v] > framepointer)
    BY <1>5 DEF Push, Pushed, InFrame
  <2>2. /\ Len(vars') = Len(vars) + 1 /\ vars'[Len(vars) + 1] = v
        /\ \A i \in 1..Len(vars) : vars'[i] = vars[i] /\ savedId'[i] = savedId[i]
    BY <1>1, <2>1, SeqAppend
  <2>3. v \in Trusted => address[v] = before[Depth][v]
    <3> SUFFICES ASSUME v \in Trusted
                 PROVE  address[v] = before[Depth][v]
      OBVIOUS
    <3>1. CASE v \in ParamsOf(fd)
      BY <3>1, <1>2 DEF FrameOK
    <3>2. CASE v \notin ParamsOf(fd)
      <4>1. address[v] <= framepointer
        BY <1>1, <2>1
      <4> QED BY <4>1, <3>2, <1>2 DEF FrameOK
    <3> QED BY <3>1, <3>2
  <2>4. FrameOK(vars', savedId', Trusted, framepointer, Len(vars) + 1, Pushed(v), before[Depth],
                fd, opened[Depth])
    <3>1. Trusted \in SUBSET Vars /\ Scoped \subseteq Trusted
      BY Parameters
    <3>2. FrameOK(Append(vars, v), Append(savedId, address[v]), Trusted, framepointer, Len(vars) + 1,
                  [address EXCEPT ![v] = Len(vars) + 1], before[Depth], fd, opened[Depth])
      BY <1>1, <1>2, <2>1, <2>3, <3>1, FramePushes
    <3> QED BY <3>2, <2>1
  <2>5. Pushed(v)[v] = Len(vars) + 1 /\ \A u \in Vars \ {v} : Pushed(v)[u] = address[u]
    BY <1>1, <2>1
  <2>6. \A i \in Len(vars) + 1 .. Len(vars) + 1 : i = Len(vars) + 1
    BY <1>1
  <2>7. Len(vars) <= Len(vars) + 1 /\ framepointer < Len(vars) + 1 /\ Len(vars) + 1 \in Nat
        /\ Len(vars) + 1 <= Len(vars) + 1
    BY <1>1, <1>3
  <2> QED BY <1>1, <2>2, <2>4, <2>5, <2>6, <2>7
<1> QED BY <1>4, <1>5

-----------------------------------------------------------------------------
(* The actions of the current activation                                   *)

LEMMA CellTypes ==
    ASSUME TypeOK, FramesOK
    PROVE  /\ cells \in Seq([Vars -> Cells \cup {Nil}]) /\ Len(cells) = Depth
           /\ cells[Depth] \in [Vars -> Cells \cup {Nil}]
           /\ \A v \in Vars : <<Depth, v>> \in Cells
           /\ store \in [Cells -> Data \cup {Nil}]
           /\ opened \in Seq(Seq(Vars)) /\ Len(opened) = Depth /\ opened[Depth] \in Seq(Vars)
<1>1. /\ cells \in Seq([Vars -> Cells \cup {Nil}]) /\ Len(cells) = Depth
      /\ store \in [Cells -> Data \cup {Nil}]
      /\ opened \in Seq(Seq(Vars)) /\ Len(opened) = Depth
      /\ Depth \in Nat \ {0} /\ Depth <= MaxCalls /\ Depth \in 1..Depth
  BY DepthType DEF TypeOK, FramesOK
<1>2. cells[Depth] \in [Vars -> Cells \cup {Nil}] /\ opened[Depth] \in Seq(Vars)
  BY <1>1, ElementOfSeq
<1>3. \A v \in Vars : <<Depth, v>> \in Cells
  BY <1>1, ProgramAssumption DEF Cells
<1> QED BY <1>1, <1>2, <1>3

LEMMA NewCellTypes ==
    ASSUME TypeOK, FramesOK, NEW v \in Vars, NEW e \in Data \cup {Nil}, NewCell(v, e)
    PROVE  /\ cells' \in Seq([Vars -> Cells \cup {Nil}]) /\ Len(cells') = Depth
           /\ \A k \in 1 .. Depth - 1 : cells'[k] = cells[k]
           /\ cells'[Depth][v] = <<Depth, v>>
           /\ \A u \in Vars \ {v} : cells'[Depth][u] = cells[Depth][u]
           /\ store' \in [Cells -> Data \cup {Nil}]
           /\ store'[<<Depth, v>>] = e
           /\ \A c \in Cells \ {<<Depth, v>>} : store'[c] = store[c]
<1> DEFINE top == [cells[Depth] EXCEPT ![v] = <<Depth, v>>]
<1>1. /\ cells \in Seq([Vars -> Cells \cup {Nil}]) /\ Len(cells) = Depth
      /\ cells[Depth] \in [Vars -> Cells \cup {Nil}] /\ <<Depth, v>> \in Cells
      /\ store \in [Cells -> Data \cup {Nil}]
  BY CellTypes
<1>2. top \in [Vars -> Cells \cup {Nil}] /\ top[v] = <<Depth, v>>
      /\ \A u \in Vars \ {v} : top[u] = cells[Depth][u]
  BY <1>1
<1>3. cells' = [cells EXCEPT ![Depth] = top] /\ store' = [store EXCEPT ![<<Depth, v>>] = e]
  BY DEF NewCell
<1> HIDE DEF top
<1>4. Depth \in 1..Depth /\ \A k \in 1 .. Depth - 1 : k # Depth /\ k \in 1..Depth
  BY DepthType
<1>5. /\ cells' \in Seq([Vars -> Cells \cup {Nil}]) /\ Len(cells') = Depth
      /\ \A k \in 1..Depth : cells'[k] = IF k = Depth THEN top ELSE cells[k]
  <2> DEFINE S == [Vars -> Cells \cup {Nil}]
  <2>1. cells \in Seq(S) /\ Len(cells) = Depth /\ top \in S
    BY <1>1, <1>2
  <2> HIDE DEF S
  <2>2. /\ [cells EXCEPT ![Depth] = top] \in Seq(S) /\ Len([cells EXCEPT ![Depth] = top]) = Len(cells)
        /\ \A k \in 1..Len(cells) : [cells EXCEPT ![Depth] = top][k] = IF k = Depth THEN top ELSE cells[k]
    BY <2>1, SeqExcept
  <2> QED BY <2>1, <2>2, <1>3 DEF S
<1>6. /\ store' \in [Cells -> Data \cup {Nil}] /\ store'[<<Depth, v>>] = e
      /\ \A c \in Cells \ {<<Depth, v>>} : store'[c] = store[c]
  <2>1. PICK c0 \in Cells : c0 = <<Depth, v>>
    BY <1>1, Zenon
  <2>2. store' = [store EXCEPT ![c0] = e]
    BY <1>3, <2>1, Zenon
  <2>3. store' \in [Cells -> Data \cup {Nil}] /\ store'[c0] = e
        /\ \A c \in Cells \ {c0} : store'[c] = store[c]
    BY <1>1, <2>2, FcnExcept
  <2> QED BY <2>1, <2>3, Zenon
<1> QED BY <1>2, <1>4, <1>5, <1>6

\* Nothing is passed any more.
LEMMA Passed ==
    ASSUME TodoOK, todo = <<>>, todo' = <<>>, UNCHANGED pushed
    PROVE  TodoOK'
<1>1. \A j \in DOMAIN todo' : FALSE
  OBVIOUS
<1>2. ~pushed'
  BY DEF TodoOK
<1> QED BY <1>1, <1>2 DEF TodoOK

LEMMA DeclareStack ==
    ASSUME StackInv, NEW v \in Locals(fd), Declare(v)
    PROVE  StackInv'
<1>1. /\ TypeOK /\ FramesOK /\ TodoOK /\ todo = <<>>
      /\ v \in Vars /\ FunctionOf[v] = fd /\ v \notin ParamsOf(fd)
  BY DEF StackInv, Declare, Ready, Locals, Owned
<1>2. /\ Push(v, Nil) /\ address' = Pushed(v) /\ NewCell(v, Nil) /\ Nil \in Entry
      /\ UNCHANGED <<frame, call, fds, opened, before>>
  BY DEF Declare, Entry
<1>3. TypeOK'
  <2>1. /\ values' \in Seq(Entry) /\ vars' \in Seq(Vars) /\ savedId' \in Seq(Nat)
        /\ Len(vars') = Len(values') /\ Len(savedId') = Len(values') /\ address' \in [Vars -> Nat]
    BY <1>1, <1>2, PushTypes
  <2>2. cells' \in Seq([Vars -> Cells \cup {Nil}]) /\ store' \in [Cells -> Data \cup {Nil}]
    BY <1>1, <1>2, NewCellTypes
  <2> QED BY <1>1, <1>2, <2>1, <2>2 DEF TypeOK, frame, call
<1>4. FramesOK'
  <2>1. /\ FrameOK(vars', savedId', Trusted, framepointer, Len(vars'), address', before[Depth],
                   fd, opened[Depth])
        /\ \A i \in 1..Len(vars) : vars'[i] = vars[i] /\ savedId'[i] = savedId[i]
    BY <1>1, <1>2, PushFrame
  <2>2. \A i \in 1..framepointer : vars'[i] = vars[i] /\ savedId'[i] = savedId[i]
    BY <1>1, <2>1, BelowTop
  <2>3. Len(cells') = Depth /\ Len(opened') = Depth
    BY <1>1, <1>2, NewCellTypes DEF FramesOK
  <2>4. UNCHANGED <<frame, fds, before, odd>> /\ opened' = opened
    BY <1>2 DEF call
  <2> QED BY <1>1, <1>3, <2>1, <2>2, <2>3, <2>4, TopChanges
<1>5. TodoOK'
  BY <1>1, <1>2, Passed DEF call
<1> QED BY <1>3, <1>4, <1>5 DEF StackInv

LEMMA ScopeBeginStack ==
    ASSUME StackInv, NEW v \in Owned(fd) \cap Scoped, NEW d \in Data, ScopeBegin(v, d)
    PROVE  StackInv'
<1>1. /\ TypeOK /\ FramesOK /\ TodoOK /\ todo = <<>>
      /\ v \in Vars /\ FunctionOf[v] = fd /\ v \in Scoped /\ v \in Trusted
  BY Parameters DEF StackInv, ScopeBegin, Ready, Owned
<1>2. /\ Push(v, d) /\ address' = Pushed(v) /\ NewCell(v, d) /\ d \in Entry /\ d \in Data \cup {Nil}
      /\ \A j \in DOMAIN opened[Depth] : opened[Depth][j] # v
      /\ opened' = [opened EXCEPT ![Depth] = Append(opened[Depth], v)]
      /\ UNCHANGED <<frame, call, fds, before>>
  BY DEF ScopeBegin, Entry
<1>3. v \notin ParamsOf(fd)
  BY <1>1, Parameters, DepthType
<1>4. /\ opened' \in Seq(Seq(Vars)) /\ Len(opened') = Depth
      /\ opened'[Depth] = Append(opened[Depth], v) /\ opened[Depth] \in Seq(Vars)
      /\ \A k \in 1 .. Depth - 1 : opened'[k] = opened[k]
  <2>1. opened \in Seq(Seq(Vars)) /\ Len(opened) = Depth /\ opened[Depth] \in Seq(Vars)
    BY <1>1, CellTypes
  <2>2. Append(opened[Depth], v) \in Seq(Vars)
    BY <1>1, <2>1
  <2>3. /\ opened' \in Seq(Seq(Vars)) /\ Len(opened') = Depth
        /\ \A k \in 1..Depth : opened'[k] = IF k = Depth THEN Append(opened[Depth], v) ELSE opened[k]
    BY <1>2, <2>1, <2>2, SeqExcept
  <2>4. Depth \in 1..Depth /\ \A k \in 1 .. Depth - 1 : k # Depth /\ k \in 1..Depth
    BY <1>1, DepthType
  <2> QED BY <2>1, <2>3, <2>4
<1>5. TypeOK'
  <2>1. /\ values' \in Seq(Entry) /\ vars' \in Seq(Vars) /\ savedId' \in Seq(Nat)
        /\ Len(vars') = Len(values') /\ Len(savedId') = Len(values') /\ address' \in [Vars -> Nat]
    BY <1>1, <1>2, PushTypes
  <2>2. cells' \in Seq([Vars -> Cells \cup {Nil}]) /\ store' \in [Cells -> Data \cup {Nil}]
    BY <1>1, <1>2, NewCellTypes
  <2> QED BY <1>1, <1>2, <1>4, <2>1, <2>2 DEF TypeOK, frame, call
<1>6. FramesOK'
  <2>1. /\ FrameOK(vars', savedId', Trusted, framepointer, Len(vars'), address', before[Depth],
                   fd, opened[Depth])
        /\ \A i \in 1..Len(vars) : vars'[i] = vars[i] /\ savedId'[i] = savedId[i]
        /\ framepointer < address'[v]
    BY <1>1, <1>2, <1>3, PushFrame
  <2>2. FrameOK(vars', savedId', Trusted, framepointer, Len(vars'), address', before[Depth],
                fd, opened'[Depth])
    <3>1. framepointer \in Nat /\ address'[v] \in Nat /\ address'[v] > framepointer
      BY <1>1, <1>5, <2>1 DEF TypeOK
    <3> QED BY <1>1, <1>2, <1>4, <2>1, <3>1, FrameOpens
  <2>3. \A i \in 1..framepointer : vars'[i] = vars[i] /\ savedId'[i] = savedId[i]
    BY <1>1, <2>1, BelowTop
  <2>4. Len(cells') = Depth
    BY <1>1, <1>2, NewCellTypes
  <2>5. UNCHANGED <<frame, fds, before, odd>>
    BY <1>2 DEF call
  <2> QED BY <1>1, <1>4, <1>5, <2>2, <2>3, <2>4, <2>5, TopChanges
<1>7. TodoOK'
  BY <1>1, <1>2, Passed DEF call
<1> QED BY <1>5, <1>6, <1>7 DEF StackInv

LEMMA AssignStack ==
    ASSUME StackInv, NEW v \in Owned(fd) \ Scoped, NEW d \in Data, Assign(v, d)
    PROVE  StackInv'
<1>1. TypeOK /\ FramesOK /\ TodoOK /\ v \in Vars /\ d \in Entry /\ todo = <<>>
  BY DEF StackInv, Owned, Entry, Assign, Ready
<1>2. /\ values' = [values EXCEPT ![address[Lvalue(v)]] = d]
      /\ store' = [store EXCEPT ![cells[Depth][v]] = d]
      /\ cells[Depth][v] # Nil
      /\ UNCHANGED <<vars, savedId, address, frame, call, fds, opened, cells, before>>
  BY DEF Assign, SetValue, Declared
<1>3. TypeOK'
  <2>1. values' \in Seq(Entry) /\ Len(values') = Len(values)
    <3>1. values \in Seq(Entry)
      BY <1>1 DEF TypeOK
    <3>2. \A a : [values EXCEPT ![a] = d] \in Seq(Entry) /\ Len([values EXCEPT ![a] = d]) = Len(values)
      BY <1>1, <3>1, SeqExcept
    <3> QED BY <1>2, <3>2, Zenon
  <2>2. store' \in [Cells -> Data \cup {Nil}]
    <3>1. cells[Depth][v] \in Cells /\ store \in [Cells -> Data \cup {Nil}]
      BY <1>1, <1>2, CellTypes
    <3> QED BY <3>1, <1>2, FcnExcept
  <2> QED BY <1>1, <1>2, <2>1, <2>2 DEF TypeOK, frame, call
<1>4. FramesOK'
  <2>1. FrameOK(vars', savedId', Trusted, framepointer, Len(vars'), address', before[Depth],
                fd, opened'[Depth])
    BY <1>1, <1>2, TopFrame
  <2>2. Len(opened') = Depth /\ Len(cells') = Depth
    BY <1>1, <1>2 DEF FramesOK
  <2>3. UNCHANGED <<frame, fds, before, odd>>
    BY <1>2 DEF call
  <2> QED BY <1>1, <1>2, <1>3, <2>1, <2>2, <2>3, TopChanges
<1>5. TodoOK'
  BY <1>1, <1>2, Passed DEF call
<1> QED BY <1>3, <1>4, <1>5 DEF StackInv

LEMMA ScopeEndStack ==
    ASSUME StackInv, ScopeEnd
    PROVE  /\ StackInv'
           /\ UNCHANGED <<values, vars, savedId>>
           /\ LET v == opened[Depth][Len(opened[Depth])] IN
              v \in Scoped /\ address' = [address EXCEPT ![v] = before[Depth][v]]
<1> DEFINE op == opened[Depth]
           v == op[Len(op)]
<1>1. /\ TypeOK /\ FramesOK /\ TodoOK /\ todo = <<>> /\ op # <<>>
      /\ Pop(v)
      /\ opened' = [opened EXCEPT ![Depth] = Front(op)]
      /\ cells' = [cells EXCEPT ![Depth] = [cells[Depth] EXCEPT ![v] = Nil]]
      /\ store' = [store EXCEPT ![<<Depth, v>>] = Nil]
      /\ UNCHANGED <<frame, call, fds, before>>
  BY DEF StackInv, ScopeEnd, Ready
<1>2. /\ vars \in Seq(Vars) /\ address \in [Vars -> Nat] /\ Len(values) = Len(vars)
      /\ op \in Seq(Vars) /\ before[Depth] \in [Vars -> Nat]
      /\ Trusted \in SUBSET Vars /\ Scoped \subseteq Trusted \ ParamsOf(fd)
      /\ \A u \in Trusted : before[Depth][u] \in Nat
  <2>1. before \in Seq([Vars -> Nat]) /\ Len(before) = Depth /\ Depth \in 1..Depth
    BY <1>1, DepthType DEF TypeOK, FramesOK
  <2>2. before[Depth] \in [Vars -> Nat]
    BY <2>1
  <2>3. Trusted \in SUBSET Vars /\ Scoped \subseteq Trusted \ ParamsOf(fd)
    BY <1>1, Parameters, DepthType
  <2> QED BY <1>1, <2>2, <2>3, CellTypes DEF TypeOK
<1>3. FrameOK(vars, savedId, Trusted, framepointer, Len(vars), address, before[Depth], fd, op)
  BY <1>1, TopFrame
<1>4. /\ v \in Scoped /\ framepointer < address[v] /\ address[v] <= Len(vars)
      /\ savedId[address[v]] = before[Depth][v] /\ before[Depth][v] # Len(vars)
      /\ FrameOK(vars, savedId, Trusted, framepointer, Len(vars),
                 [address EXCEPT ![v] = before[Depth][v]], before[Depth], fd, Front(op))
  BY <1>1, <1>2, <1>3, FrameCloses
<1> HIDE DEF v, op
<1>5. address' = [address EXCEPT ![v] = before[Depth][v]] /\ UNCHANGED <<values, vars, savedId>>
  BY <1>1, <1>2, <1>4 DEF Pop
<1>6. v \in Vars /\ op \in Seq(Vars) /\ Front(op) \in Seq(Vars)
  <2>1. v \in Vars
    BY <1>2, <1>4
  <2>2. Len(op) - 1 \in 0..Len(op)
    BY <1>1, <1>2
  <2> QED BY <1>2, <2>1, <2>2, SeqPrefix DEF Front
<1>7. /\ opened' \in Seq(Seq(Vars)) /\ Len(opened') = Depth /\ opened'[Depth] = Front(op)
      /\ \A k \in 1 .. Depth - 1 : opened'[k] = opened[k]
  <2>1. opened \in Seq(Seq(Vars)) /\ Len(opened) = Depth
    BY <1>1, CellTypes
  <2>2. /\ opened' \in Seq(Seq(Vars)) /\ Len(opened') = Depth
        /\ \A k \in 1..Depth : opened'[k] = IF k = Depth THEN Front(op) ELSE opened[k]
    BY <1>1, <1>6, <2>1, SeqExcept
  <2>3. Depth \in 1..Depth /\ \A k \in 1 .. Depth - 1 : k # Depth /\ k \in 1..Depth
    BY <1>1, DepthType
  <2> QED BY <2>2, <2>3
<1>8. TypeOK'
  <2>1. cells' \in Seq([Vars -> Cells \cup {Nil}]) /\ Len(cells') = Depth
    <3> DEFINE S == [Vars -> Cells \cup {Nil}]
               top == [cells[Depth] EXCEPT ![v] = Nil]
    <3>1. cells \in Seq(S) /\ Len(cells) = Depth /\ top \in S
      BY <1>1, <1>6, CellTypes
    <3> HIDE DEF S, top
    <3>2. [cells EXCEPT ![Depth] = top] \in Seq(S) /\ Len([cells EXCEPT ![Depth] = top]) = Len(cells)
      BY <3>1, SeqExcept
    <3> QED BY <3>1, <3>2, <1>1 DEF S, top
  <2>2. store' \in [Cells -> Data \cup {Nil}]
    <3>1. store \in [Cells -> Data \cup {Nil}]
      BY <1>1, CellTypes
    <3> QED BY <3>1, <1>1
  <2>3. address' \in [Vars -> Nat]
    BY <1>2, <1>5
  <2> QED BY <1>1, <1>5, <1>7, <2>1, <2>2, <2>3 DEF TypeOK, frame, call
<1>9. FramesOK'
  <2>1. FrameOK(vars', savedId', Trusted, framepointer, Len(vars'), address', before[Depth],
                fd, opened'[Depth])
    BY <1>4, <1>5, <1>7
  <2>2. Len(cells') = Depth
    <3>1. cells \in Seq([Vars -> Cells \cup {Nil}]) /\ Len(cells) = Depth
      BY <1>1, CellTypes
    <3> QED BY <3>1, <1>1
  <2>3. UNCHANGED <<frame, fds, before, odd>>
    BY <1>1 DEF call
  <2> QED BY <1>1, <1>5, <1>7, <1>8, <2>1, <2>2, <2>3, TopChanges
<1>10. TodoOK'
  BY <1>1, Passed DEF call
<1> QED BY <1>4, <1>5, <1>8, <1>9, <1>10 DEF StackInv, v, op

-----------------------------------------------------------------------------
(* The actions that pass the parameters                                    *)

LEMMA AbsentStays ==
    ASSUME NEW vs, NEW vs2, NEW lo \in Nat, NEW n \in Nat, NEW n2 \in Nat, NEW v, NEW u,
           \A i \in 1..n : vs2[i] = vs[i], \A i \in n + 1 .. n2 : vs2[i] = v,
           u # v, Absent(vs, lo, n, u)
    PROVE  Absent(vs2, lo, n2, u)
<1>1. \A i \in lo + 1 .. n2 : (i \in lo + 1 .. n /\ i \in 1..n) \/ i \in n + 1 .. n2
  OBVIOUS
<1> QED BY <1>1 DEF Absent

LEMMA NextParameter ==
    ASSUME TypeOK, TodoOK, todo # <<>>, todo' = Tail(todo), pushed' = FALSE,
           UNCHANGED <<frame, fds, odd>>,
           ~odd => \A u \in ParamsOf(fd) \ {todo[1].v} :
                Absent(vars, framepointer, Len(vars), u)
                => Absent(vars', framepointer, Len(vars'), u)
    PROVE  TodoOK'
<1>1. /\ DOMAIN todo' = 1 .. Len(todo) - 1 /\ DOMAIN todo = 1..Len(todo) /\ Len(todo) \in Nat
      /\ \A j \in DOMAIN todo' : j + 1 \in DOMAIN todo /\ todo'[j] = todo[j + 1]
      /\ 1 \in DOMAIN todo
  <2>1. todo \in Seq([v : Vars, e : Data \cup Vars])
    BY DEF TypeOK
  <2>2. DOMAIN todo = 1..Len(todo) /\ Len(todo) \in Nat
    BY <2>1
  <2> QED BY <2>1, <2>2, SeqTail
<1>2. fd' = fd /\ framepointer' = framepointer
  BY DEF fd, Depth, frame
<1>3. \A j \in DOMAIN todo' : /\ todo'[j].v \in ParamsOf(fd)
                              /\ todo'[j].e \in Vars <=> todo'[j].v \in RefParams
  BY <1>1 DEF TodoOK
<1>4. \A i, j \in DOMAIN todo' : todo'[i].v = todo'[j].v => i = j
  <2> SUFFICES ASSUME NEW i \in DOMAIN todo', NEW j \in DOMAIN todo', todo'[i].v = todo'[j].v
               PROVE  i = j
    OBVIOUS
  <2>1. i + 1 = j + 1
    BY <1>1 DEF TodoOK
  <2> QED BY <2>1, <1>1
<1>5. ASSUME ~odd, NEW j \in DOMAIN todo'
      PROVE  /\ Absent(vars', framepointer, Len(vars'), todo'[j].v)
             /\ todo'[j].e \in Vars /\ FunctionOf[todo'[j].e] = fd => todo'[j].e \notin ParamsOf(fd)
  <2>1. j + 1 \in DOMAIN todo /\ todo'[j] = todo[j + 1] /\ j + 1 # 1 /\ 1 \in DOMAIN todo
    BY <1>1
  <2>2. todo[j + 1].v # todo[1].v /\ todo[j + 1].v \in ParamsOf(fd)
    BY <2>1 DEF TodoOK
  <2>3. Absent(vars, framepointer, Len(vars), todo[j + 1].v)
    BY <1>5, <2>1 DEF TodoOK
  <2>4. Absent(vars', framepointer, Len(vars'), todo[j + 1].v)
    BY <1>5, <2>2, <2>3
  <2>5. todo[j + 1].e \in Vars /\ FunctionOf[todo[j + 1].e] = fd => todo[j + 1].e \notin ParamsOf(fd)
    BY <1>5, <2>1 DEF TodoOK
  <2> QED BY <2>1, <2>4, <2>5
<1> QED BY <1>2, <1>3, <1>4, <1>5 DEF TodoOK

LEMMA FirstParameter ==
    ASSUME StackInv, todo # <<>>
    PROVE  /\ Head(todo) = todo[1] /\ 1 \in DOMAIN todo
           /\ todo[1].v \in Vars /\ todo[1].v \in ParamsOf(fd) /\ todo[1].v \notin Scoped
           /\ FunctionOf[todo[1].v] = fd
           /\ todo[1].e \in Data \cup Vars /\ Tail(todo) \in Seq([v : Vars, e : Data \cup Vars])
<1>1. todo \in Seq([v : Vars, e : Data \cup Vars])
  BY DEF StackInv, TypeOK
<1>2. /\ Head(todo) = todo[1] /\ 1 \in DOMAIN todo
      /\ Tail(todo) \in Seq([v : Vars, e : Data \cup Vars])
  BY <1>1, SeqTail
<1>3. todo[1] \in [v : Vars, e : Data \cup Vars]
  <2> DEFINE S == [v : Vars, e : Data \cup Vars]
  <2>1. todo \in Seq(S)
    BY <1>1
  <2> HIDE DEF S
  <2>2. Head(todo) \in S
    BY <2>1, HeadTailProperties
  <2> QED BY <2>2, <1>2 DEF S
<1>4. todo[1].v \in ParamsOf(fd) /\ fd \in Functions
  BY <1>2, DepthType DEF StackInv, TodoOK
<1> QED BY <1>2, <1>3, <1>4, Parameters

LEMMA PushParamStack ==
    ASSUME StackInv, PushParam
    PROVE  StackInv'
<1> DEFINE v == todo[1].v
<1>1. TypeOK /\ FramesOK /\ TodoOK /\ todo # <<>> /\ ~pushed /\ Nil \in Entry
  BY DEF StackInv, PushParam, Entry
<1>2. v \in Vars /\ v \in ParamsOf(fd) /\ FunctionOf[v] = fd /\ Head(todo) = todo[1] /\ 1 \in DOMAIN todo
  BY <1>1, FirstParameter
<1>3. /\ Push(v, Nil) /\ address' = Pushed(v) /\ pushed' = TRUE
      /\ UNCHANGED <<frame, todo, failed, odd, language>>
  BY <1>2 DEF PushParam
<1>4. v \in Trusted /\ v \in ParamsOf(fd) => Absent(vars, framepointer, Len(vars), v)
  <2>1. v \in Trusted /\ v \in ParamsOf(fd) => ~odd
    BY <1>1, DepthType DEF Trusted, NoParam
  <2> QED BY <2>1, <1>1, <1>2 DEF TodoOK
<1>5. /\ FrameOK(vars', savedId', Trusted, framepointer, Len(vars'), address', before[Depth],
                 fd, opened[Depth])
      /\ \A i \in 1..Len(vars) : vars'[i] = vars[i] /\ savedId'[i] = savedId[i]
      /\ Len(vars) \in Nat /\ Len(vars') \in Nat
      /\ \A i \in Len(vars) + 1 .. Len(vars') : vars'[i] = v
      /\ v \in Trusted => /\ framepointer < address'[v] /\ address'[v] <= Len(vars')
                          /\ vars'[address'[v]] = v
  BY <1>1, <1>2, <1>3, <1>4, PushFrame
<1> HIDE DEF v
<1>6. TypeOK'
  <2>1. /\ values' \in Seq(Entry) /\ vars' \in Seq(Vars) /\ savedId' \in Seq(Nat)
        /\ Len(vars') = Len(values') /\ Len(savedId') = Len(values') /\ address' \in [Vars -> Nat]
    BY <1>1, <1>2, <1>3, PushTypes
  <2> QED BY <1>1, <1>3, <2>1 DEF TypeOK, frame, language
<1>7. FramesOK'
  <2>1. \A i \in 1..framepointer : vars'[i] = vars[i] /\ savedId'[i] = savedId[i]
    BY <1>1, <1>5, BelowTop
  <2>2. Len(cells') = Depth /\ Len(opened') = Depth /\ opened' = opened
    BY <1>1, <1>3 DEF FramesOK, language
  <2>3. UNCHANGED <<frame, fds, before, odd>>
    BY <1>3 DEF language
  <2> QED BY <1>1, <1>5, <1>6, <2>1, <2>2, <2>3, TopChanges
<1>8. TodoOK'
  <2>1. fd' = fd /\ framepointer' = framepointer /\ todo' = todo /\ odd' = odd
    BY <1>3 DEF fd, Depth, frame, language
  <2>2. ASSUME ~odd
        PROVE  /\ framepointer < address'[todo[1].v] /\ address'[todo[1].v] <= Len(vars')
               /\ vars'[address'[todo[1].v]] = todo[1].v
    BY <1>2, <1>5, <2>2 DEF Trusted, v
  <2>3. ASSUME ~odd, NEW j \in DOMAIN todo, j # 1
        PROVE  Absent(vars', framepointer, Len(vars'), todo[j].v)
    <3>1. todo[j].v # v
      BY <1>1, <1>2, <2>3 DEF TodoOK, v
    <3>2. Absent(vars, framepointer, Len(vars), todo[j].v)
      BY <1>1, <2>3 DEF TodoOK
    <3>3. framepointer \in Nat
      BY <1>1, BelowTop
    <3>4. \A u : u # v /\ Absent(vars, framepointer, Len(vars), u)
                => Absent(vars', framepointer, Len(vars'), u)
      BY <1>5, <3>3, AbsentStays
    <3> QED BY <3>1, <3>2, <3>4, Zenon
  <2>4. ASSUME ~odd, NEW j \in DOMAIN todo
        PROVE  todo[j].e \in Vars /\ FunctionOf[todo[j].e] = fd => todo[j].e \notin ParamsOf(fd)
    BY <1>1, <2>4 DEF TodoOK
  <2>5. /\ \A j \in DOMAIN todo : todo[j].v \in ParamsOf(fd)
        /\ \A j \in DOMAIN todo : todo[j].e \in Vars <=> todo[j].v \in RefParams
        /\ \A i, j \in DOMAIN todo : todo[i].v = todo[j].v => i = j
    BY <1>1 DEF TodoOK
  <2> QED BY <1>1, <1>3, <2>1, <2>2, <2>3, <2>4, <2>5 DEF TodoOK
<1> QED BY <1>6, <1>7, <1>8 DEF StackInv

LEMMA SetParamStack ==
    ASSUME StackInv, SetParam
    PROVE  StackInv'
<1>1. TypeOK /\ FramesOK /\ TodoOK /\ todo # <<>>
  BY DEF StackInv, SetParam
<1>2. /\ Head(todo) = todo[1] /\ todo[1].e \in Entry
      /\ Tail(todo) \in Seq([v : Vars, e : Data \cup Vars])
  BY <1>1, FirstParameter DEF Entry
<1>3. /\ values' = [values EXCEPT ![address[todo[1].v]] = todo[1].e]
      /\ todo' = Tail(todo) /\ pushed' = FALSE
      /\ UNCHANGED <<vars, savedId, address, frame, failed, odd, language>>
  BY <1>2 DEF SetParam, SetValue
<1>4. TypeOK'
  <2>1. values' \in Seq(Entry) /\ Len(values') = Len(values)
    <3>1. values \in Seq(Entry)
      BY <1>1 DEF TypeOK
    <3>2. PICK e \in Entry : e = todo[1].e
      BY <1>2, Zenon
    <3> DEFINE a == address[todo[1].v]
    <3>3. values' = [values EXCEPT ![a] = e]
      BY <1>3, <3>2, Zenon DEF a
    <3> HIDE DEF a
    <3>4. [values EXCEPT ![a] = e] \in Seq(Entry) /\ Len([values EXCEPT ![a] = e]) = Len(values)
      BY <3>1, SeqExcept
    <3> QED BY <3>3, <3>4, Zenon
  <2> QED BY <1>1, <1>2, <1>3, <2>1 DEF TypeOK, frame, language
<1>5. FramesOK'
  <2>1. FrameOK(vars', savedId', Trusted, framepointer, Len(vars'), address', before[Depth],
                fd, opened'[Depth])
    BY <1>1, <1>3, TopFrame DEF language
  <2>2. Len(opened') = Depth /\ Len(cells') = Depth /\ opened' = opened
    BY <1>1, <1>3 DEF FramesOK, language
  <2>3. UNCHANGED <<frame, fds, before, odd>>
    BY <1>3 DEF language
  <2> QED BY <1>1, <1>3, <1>4, <2>1, <2>2, <2>3, TopChanges
<1>6. TodoOK'
  BY <1>1, <1>3, NextParameter DEF language
<1> QED BY <1>4, <1>5, <1>6 DEF StackInv

LEMMA BindParamStack ==
    ASSUME StackInv, BindParam
    PROVE  StackInv'
<1> DEFINE v == todo[1].v
           vx == todo[1].e
<1>1. TypeOK /\ FramesOK /\ TodoOK /\ todo # <<>> /\ pushed /\ Nil \in Entry
  BY DEF StackInv, BindParam, Entry
<1>2. /\ v \in Vars /\ v \in ParamsOf(fd) /\ v \notin Scoped /\ Head(todo) = todo[1]
      /\ 1 \in DOMAIN todo /\ Tail(todo) \in Seq([v : Vars, e : Data \cup Vars])
  BY <1>1, FirstParameter
<1>3. /\ Recursive(v, vx)
      /\ Push(vx, Nil) /\ address' = [Pushed(vx) EXCEPT ![v] = address[vx]]
      /\ failed' = (address[vx] = 0 \/ values'[address[vx]] = Nil)
      /\ todo' = Tail(todo) /\ pushed' = FALSE
      /\ UNCHANGED <<frame, odd, language>>
  BY <1>2 DEF BindParam
<1>4. vx \in Vars /\ FunctionOf[vx] = fd
  BY <1>1, <1>2, <1>3 DEF Recursive, TodoOK
<1>5. v \in Trusted => ~odd
  BY <1>1, <1>2, DepthType DEF Trusted, NoParam
<1>6. ~odd => vx \notin ParamsOf(fd)
  BY <1>1, <1>2, <1>4 DEF TodoOK
<1>7. ~(vx \in Trusted /\ vx \in ParamsOf(fd))
  BY <1>1, <1>6, DepthType DEF Trusted, NoParam
<1>8. /\ FrameOK(vars', savedId', Trusted, framepointer, Len(vars'), Pushed(vx), before[Depth],
                 fd, opened[Depth])
      /\ \A i \in 1..Len(vars) : vars'[i] = vars[i] /\ savedId'[i] = savedId[i]
      /\ Len(vars) \in Nat /\ Len(vars') \in Nat /\ Len(vars) <= Len(vars')
      /\ \A i \in Len(vars) + 1 .. Len(vars') : vars'[i] = vx
  BY <1>1, <1>3, <1>4, <1>7, PushFrame
<1>9. /\ values' \in Seq(Entry) /\ vars' \in Seq(Vars) /\ savedId' \in Seq(Nat)
      /\ Len(vars') = Len(values') /\ Len(savedId') = Len(values') /\ Pushed(vx) \in [Vars -> Nat]
  BY <1>1, <1>3, <1>4, PushTypes
<1>10. address[vx] \in Nat /\ framepointer \in Nat /\ address \in [Vars -> Nat]
  BY <1>1, <1>4 DEF TypeOK
<1>11. v \in Trusted => address[vx] <= Len(vars') /\ ~Absent(vars', framepointer, Len(vars'), v)
  <2> SUFFICES ASSUME ~odd
               PROVE  address[vx] <= Len(vars') /\ ~Absent(vars', framepointer, Len(vars'), v)
    BY <1>5
  <2>1. address[vx] <= Len(vars)
    <3>1. vx \in Trusted
      BY <1>4 DEF Trusted
    <3> QED BY <1>1, <3>1, TopFrame DEF FrameOK
  <2>2. framepointer < address[v] /\ address[v] <= Len(vars) /\ vars[address[v]] = v /\ address[v] \in Nat
    BY <1>1, <1>2, <1>10 DEF TodoOK
  <2>3. address[v] \in 1..Len(vars) /\ address[v] \in framepointer + 1 .. Len(vars')
    BY <2>2, <1>8, <1>10
  <2>4. vars'[address[v]] = v
    BY <2>2, <2>3, <1>8
  <2> QED BY <2>1, <2>3, <2>4, <1>8, <1>10 DEF Absent
<1> HIDE DEF v, vx
<1>12. TypeOK'
  <2>1. address' \in [Vars -> Nat]
    BY <1>2, <1>3, <1>9, <1>10
  <2>2. failed' \in BOOLEAN
    BY <1>3
  <2> QED BY <1>1, <1>2, <1>3, <1>9, <2>1, <2>2 DEF TypeOK, frame, language
<1>13. FramesOK'
  <2>1. FrameOK(vars', savedId', Trusted, framepointer, Len(vars'), address', before[Depth],
                fd, opened[Depth])
    <3>1. Trusted \in SUBSET Vars /\ Scoped \subseteq Vars
      BY Parameters
    <3> QED BY <1>2, <1>3, <1>8, <1>9, <1>10, <1>11, <3>1, FrameBinds
  <2>2. \A i \in 1..framepointer : vars'[i] = vars[i] /\ savedId'[i] = savedId[i]
    BY <1>1, <1>8, BelowTop
  <2>3. Len(cells') = Depth /\ Len(opened') = Depth /\ opened' = opened
    BY <1>1, <1>3 DEF FramesOK, language
  <2>4. UNCHANGED <<frame, fds, before, odd>>
    BY <1>3 DEF language
  <2> QED BY <1>1, <1>12, <2>1, <2>2, <2>3, <2>4, TopChanges
<1>14. TodoOK'
  <2>1. ASSUME ~odd, NEW u \in ParamsOf(fd) \ {v}, Absent(vars, framepointer, Len(vars), u)
        PROVE  Absent(vars', framepointer, Len(vars'), u)
    <3>1. u # vx
      BY <1>6, <2>1
    <3> QED BY <3>1, <1>8, <1>10, <2>1, AbsentStays
  <2>2. UNCHANGED <<frame, fds, odd>>
    BY <1>3 DEF language
  <2> QED BY <1>1, <1>3, <2>1, <2>2, NextParameter DEF v
<1> QED BY <1>12, <1>13, <1>14 DEF StackInv

-----------------------------------------------------------------------------
(* Calls and their ends                                                    *)

LEMMA LvalueType ==
    ASSUME NEW v \in Vars, Ends(v)
    PROVE  Lvalue(v) \in Vars
<1>1. Nest(v) \subseteq Vars
  BY DEF Nest
<1>2. CASE Refers(v)
  <2>1. PICK w \in Nest(v) : ~Refers(w)
    BY DEF Ends
  <2>2. (CHOOSE u \in Nest(v) : ~Refers(u)) \in Nest(v)
    BY <2>1
  <2> QED BY <1>1, <1>2, <2>2 DEF Lvalue
<1>3. CASE ~Refers(v)
  BY <1>3 DEF Lvalue
<1> QED BY <1>2, <1>3

LEMMA ArgumentTypes ==
    ASSUME TypeOK, NEW f \in Functions, NEW args \in Arguments(f)
    PROVE  /\ DOMAIN args = DOMAIN Params[f] /\ DOMAIN args = 1..Len(Params[f])
           /\ Len(Params[f]) \in Nat
           /\ \A j \in DOMAIN args : /\ Params[f][j] \in Vars /\ Params[f][j] \in ParamsOf(f)
                                     /\ args[j] \in Data \cup Passable
                                     /\ args[j] \in Vars <=> Params[f][j] \in RefParams
                                     /\ args[j] \notin Vars => args[j] \in Data
                                     /\ Earg(args[j]) \in Data \cup Vars
                                     /\ Earg(args[j]) \in Vars <=> args[j] \in Vars
           /\ \A i, j \in DOMAIN args : Params[f][i] = Params[f][j] => i = j
<1>1. /\ args \in [DOMAIN Params[f] -> Data \cup Passable]
      /\ \A j \in DOMAIN args : args[j] \in Vars <=> Params[f][j] \in RefParams
  BY DEF Arguments
<1>2. Params[f] \in Seq(Vars) /\ DOMAIN Params[f] = 1..Len(Params[f]) /\ Len(Params[f]) \in Nat
  BY ProgramAssumption
<1>3. \A i, j \in DOMAIN Params[f] : Params[f][i] = Params[f][j] => i = j
  BY ProgramAssumption
<1>4. ASSUME NEW j \in DOMAIN args
      PROVE  /\ Params[f][j] \in Vars /\ Params[f][j] \in ParamsOf(f)
             /\ args[j] \in Data \cup Passable
             /\ args[j] \notin Vars => args[j] \in Data
             /\ Earg(args[j]) \in Data \cup Vars
             /\ Earg(args[j]) \in Vars <=> args[j] \in Vars
  <2>1. j \in DOMAIN Params[f] /\ args[j] \in Data \cup Passable
    BY <1>1
  <2>2. Params[f][j] \in Vars
    BY <1>2, <2>1
  <2>3. Passable \subseteq Vars
    BY DEF Passable, Owned
  <2>4. CASE args[j] \in Vars
    <3>1. args[j] \in Passable
      BY <2>1, <2>4, ValueAssumption
    <3>2. Lvalue(args[j]) \in Vars
      BY <3>1, <2>3, LvalueType DEF Passable
    <3> QED BY <2>1, <2>2, <2>4, <3>2 DEF Earg, ParamsOf
  <2>5. CASE args[j] \notin Vars
    BY <2>1, <2>2, <2>3, <2>5 DEF Earg, ParamsOf
  <2> QED BY <2>4, <2>5
<1> QED BY <1>1, <1>2, <1>3, <1>4

LEMMA CallTypes ==
    ASSUME StackInv, NEW f \in Functions, NEW args \in Arguments(f), Call(f, args)
    PROVE  /\ TypeOK'
           /\ Depth' = Depth + 1 /\ Depth + 1 <= MaxCalls /\ fds'[Depth + 1] = f /\ fd' = f
           /\ \A k \in 1..Depth : /\ fds'[k] = fds[k] /\ opened'[k] = opened[k]
                                  /\ cells'[k] = cells[k] /\ before'[k] = before[k]
           /\ opened'[Depth + 1] = <<>> /\ before'[Depth + 1] = address
           /\ Len(frames') = Depth /\ Len(before') = Depth + 1 /\ Len(opened') = Depth + 1
           /\ Len(cells') = Depth + 1
           /\ \A k \in 1 .. Depth - 1 : frames'[k] = frames[k]
           /\ frames'[Depth] = framepointer /\ framepointer' = Len(vars)
           /\ cells'[Depth + 1] = [v \in Vars |->
                IF \E j \in DOMAIN args : Params[f][j] = v
                THEN LET arg == args[CHOOSE j \in DOMAIN args : Params[f][j] = v] IN
                     IF arg \in Vars THEN cells[Depth][arg] ELSE <<Depth + 1, v>>
                ELSE Nil]
<1> DEFINE top == [v \in Vars |->
                IF \E j \in DOMAIN args : Params[f][j] = v
                THEN LET arg == args[CHOOSE j \in DOMAIN args : Params[f][j] = v] IN
                     IF arg \in Vars THEN cells[Depth][arg] ELSE <<Depth + 1, v>>
                ELSE Nil]
<1>1. /\ TypeOK /\ FramesOK /\ Depth \in Nat \ {0} /\ Len(fds) = Depth /\ Depth < MaxCalls
      /\ Depth + 1 \in 1..MaxCalls /\ f \in Functions
  <2>1. TypeOK /\ FramesOK /\ Depth < MaxCalls
    BY DEF StackInv, Call
  <2> QED BY <2>1, DepthType, ProgramAssumption DEF Depth
<1>2. /\ frames' = Append(frames, framepointer) /\ framepointer' = Len(values)
      /\ todo' = [j \in DOMAIN args |-> [v |-> Params[f][j], e |-> Earg(args[j])]]
      /\ odd' = (odd \/ OwnParameter(f, args))
      /\ fds' = Append(fds, f) /\ opened' = Append(opened, <<>>) /\ cells' = Append(cells, top)
      /\ before' = Append(before, address)
      /\ UNCHANGED <<stack, pushed, failed>>
  BY DEF Call
<1>3. top \in [Vars -> Cells \cup {Nil}]
  <2> SUFFICES ASSUME NEW v \in Vars, NEW j \in DOMAIN args, Params[f][j] = v
               PROVE  LET arg == args[CHOOSE i \in DOMAIN args : Params[f][i] = v] IN
                      (IF arg \in Vars THEN cells[Depth][arg] ELSE <<Depth + 1, v>>)
                      \in Cells \cup {Nil}
    OBVIOUS
  <2>1. cells[Depth] \in [Vars -> Cells \cup {Nil}]
    BY <1>1, CellTypes
  <2>2. <<Depth + 1, v>> \in Cells
    BY <1>1 DEF Cells
  <2> QED BY <2>1, <2>2
<1>4. /\ fds' \in Seq(Functions) /\ fds' # <<>> /\ Len(fds') = Depth + 1
      /\ fds'[Depth + 1] = f /\ \A k \in 1..Depth : fds'[k] = fds[k]
  <2>1. fds \in Seq(Functions) /\ Len(fds) = Depth /\ fds' = Append(fds, f)
    BY <1>1, <1>2 DEF TypeOK
  <2>2. /\ fds' \in Seq(Functions) /\ Len(fds') = Depth + 1 /\ fds'[Depth + 1] = f
        /\ \A k \in 1..Depth : fds'[k] = fds[k]
    BY <2>1, Appended
  <2>3. Depth + 1 # 0
    BY <1>1
  <2>4. fds' # <<>>
    BY <2>2, <2>3
  <2> QED BY <2>2, <2>4
<1>5. Depth' = Depth + 1 /\ fd' = f
  BY <1>4 DEF Depth, fd
<1>6. /\ opened' \in Seq(Seq(Vars)) /\ Len(opened') = Depth + 1 /\ opened'[Depth + 1] = <<>>
      /\ \A k \in 1..Depth : opened'[k] = opened[k]
  <2>1. opened \in Seq(Seq(Vars)) /\ Len(opened) = Depth /\ <<>> \in Seq(Vars)
    BY <1>1, CellTypes
  <2>2. PICK none \in Seq(Vars) : none = <<>>
    BY <2>1
  <2>3. opened' = Append(opened, none)
    BY <1>2, <2>2
  <2>4. /\ opened' \in Seq(Seq(Vars)) /\ Len(opened') = Depth + 1 /\ opened'[Depth + 1] = none
        /\ \A k \in 1..Depth : opened'[k] = opened[k]
    BY <2>1, <2>3, Appended
  <2> QED BY <2>2, <2>4
<1>7. /\ before' \in Seq([Vars -> Nat]) /\ Len(before') = Depth + 1 /\ before'[Depth + 1] = address
      /\ \A k \in 1..Depth : before'[k] = before[k]
  <2> DEFINE S == [Vars -> Nat]
  <2>1. before \in Seq(S) /\ Len(before) = Depth /\ address \in S
    BY <1>1 DEF TypeOK, FramesOK
  <2> HIDE DEF S
  <2>2. before' \in Seq(S) /\ Len(before') = Depth + 1 /\ before'[Depth + 1] = address
        /\ \A k \in 1..Depth : before'[k] = before[k]
    BY <1>2, <2>1, SeqAppend
  <2> QED BY <2>2 DEF S
<1>8. /\ cells' \in Seq([Vars -> Cells \cup {Nil}]) /\ Len(cells') = Depth + 1
      /\ cells'[Depth + 1] = top /\ \A k \in 1..Depth : cells'[k] = cells[k]
  <2> DEFINE S == [Vars -> Cells \cup {Nil}]
  <2> HIDE DEF top
  <2>1. cells \in Seq(S) /\ Len(cells) = Depth /\ top \in S
    BY <1>1, <1>3, CellTypes
  <2> HIDE DEF S
  <2>2. cells' \in Seq(S) /\ Len(cells') = Depth + 1 /\ cells'[Depth + 1] = top
        /\ \A k \in 1..Depth : cells'[k] = cells[k]
    BY <1>2, <2>1, SeqAppend
  <2> QED BY <2>2 DEF S
<1>9. /\ frames' \in Seq(Nat) /\ Len(frames') = Depth /\ frames'[Depth] = framepointer
      /\ \A k \in 1 .. Depth - 1 : frames'[k] = frames[k]
  <2>1. frames \in Seq(Nat) /\ Len(frames) = Depth - 1 /\ framepointer \in Nat
    BY <1>1 DEF TypeOK, FramesOK
  <2>2. frames' = Append(frames, framepointer)
    BY <1>2
  <2>3. /\ frames' \in Seq(Nat) /\ Len(frames') = Depth - 1 + 1
        /\ frames'[Depth - 1 + 1] = framepointer
        /\ \A k \in 1 .. Depth - 1 : frames'[k] = frames[k]
    BY <2>1, <2>2, Appended
  <2>4. Depth - 1 + 1 = Depth
    BY <1>1
  <2> QED BY <2>3, <2>4
<1>10. framepointer' = Len(vars) /\ framepointer' \in Nat
  BY <1>1, <1>2 DEF TypeOK
<1>11. todo' \in Seq([v : Vars, e : Data \cup Vars])
  <2>1. \A j \in DOMAIN args : [v |-> Params[f][j], e |-> Earg(args[j])] \in [v : Vars, e : Data \cup Vars]
    BY <1>1, ArgumentTypes
  <2>2. DOMAIN args = 1..Len(Params[f]) /\ Len(Params[f]) \in Nat
    BY <1>1, ArgumentTypes
  <2> DEFINE S == [v : Vars, e : Data \cup Vars]
             t == [j \in DOMAIN args |-> [v |-> Params[f][j], e |-> Earg(args[j])]]
  <2>3. \A j \in DOMAIN args : [v |-> Params[f][j], e |-> Earg(args[j])] \in S
    BY <2>1
  <2>4. PICK n \in Nat : DOMAIN args = 1..n
    BY <2>2
  <2> HIDE DEF S
  <2>5. t \in [1..n -> S]
    BY <2>3, <2>4
  <2>6. t \in Seq(S)
    BY <2>5
  <2> QED BY <1>2, <2>6 DEF S
<1>12. store' \in [Cells -> Data \cup {Nil}]
  <2>1. store' = [c \in Cells |->
            IF c[1] = Depth + 1 /\ \E j \in DOMAIN args : Params[f][j] = c[2] /\ args[j] \in Data
            THEN args[CHOOSE j \in DOMAIN args : Params[f][j] = c[2]]
            ELSE store[c]]
    BY DEF Call
  <2>2. ASSUME NEW c \in Cells, NEW j \in DOMAIN args, Params[f][j] = c[2], args[j] \in Data
        PROVE  args[CHOOSE i \in DOMAIN args : Params[f][i] = c[2]] \in Data
    <3>1. \A i \in DOMAIN args : Params[f][i] = c[2] => i = j
      BY <1>1, <2>2, ArgumentTypes
    <3>2. (CHOOSE i \in DOMAIN args : Params[f][i] = c[2]) = j
      BY <2>2, <3>1
    <3> QED BY <2>2, <3>2
  <2>3. store \in [Cells -> Data \cup {Nil}]
    BY <1>1, CellTypes
  <2> QED BY <2>1, <2>2, <2>3
<1>13. odd' \in BOOLEAN /\ pushed' = pushed /\ failed' = failed
  BY <1>1, <1>2 DEF TypeOK
<1> HIDE DEF top
<1>14. TypeOK'
  BY <1>1, <1>2, <1>4, <1>6, <1>7, <1>8, <1>9, <1>10, <1>11, <1>12, <1>13 DEF TypeOK, stack
<1>15. cells'[Depth + 1] = [v \in Vars |->
                IF \E j \in DOMAIN args : Params[f][j] = v
                THEN LET arg == args[CHOOSE j \in DOMAIN args : Params[f][j] = v] IN
                     IF arg \in Vars THEN cells[Depth][arg] ELSE <<Depth + 1, v>>
                ELSE Nil]
  BY <1>8 DEF top
<1>16. Depth + 1 <= MaxCalls
  BY <1>1
<1> QED BY <1>4, <1>5, <1>6, <1>7, <1>8, <1>9, <1>10, <1>14, <1>15, <1>16, Zenon

LEMMA CallStack ==
    ASSUME StackInv, NEW f \in Functions, NEW args \in Arguments(f), Call(f, args)
    PROVE  StackInv'
<1>1. /\ TypeOK /\ FramesOK /\ TodoOK /\ todo = <<>> /\ Depth \in Nat \ {0}
      /\ todo' = [j \in DOMAIN args |-> [v |-> Params[f][j], e |-> Earg(args[j])]]
      /\ odd' = (odd \/ OwnParameter(f, args))
      /\ UNCHANGED <<values, vars, savedId, address, pushed>>
  BY DepthType DEF StackInv, Call, Ready, stack
<1>2. /\ TypeOK'
      /\ Depth' = Depth + 1 /\ Depth + 1 <= MaxCalls /\ fds'[Depth + 1] = f /\ fd' = f
      /\ \A k \in 1..Depth : fds'[k] = fds[k] /\ opened'[k] = opened[k] /\ before'[k] = before[k]
      /\ opened'[Depth + 1] = <<>> /\ before'[Depth + 1] = address
      /\ Len(frames') = Depth /\ Len(before') = Depth + 1 /\ Len(opened') = Depth + 1
      /\ Len(cells') = Depth + 1
      /\ \A k \in 1 .. Depth - 1 : frames'[k] = frames[k]
      /\ frames'[Depth] = framepointer /\ framepointer' = Len(vars)
  BY CallTypes
<1>3. \A k \in 1..Depth : /\ k # Depth + 1 /\ k \in 1 .. Depth + 1
                          /\ k # Depth => k \in 1 .. Depth - 1 /\ k + 1 \in 1..Depth /\ k + 1 # Depth + 1
  <2>1. \A n \in Nat : \A k \in 1..n : /\ k # n + 1 /\ k \in 1 .. n + 1
                                       /\ k # n => k \in 1 .. n - 1 /\ k + 1 \in 1..n /\ k + 1 # n + 1
    OBVIOUS
  <2>2. Depth \in Nat
    BY <1>1
  <2> QED BY <2>1, <2>2, Zenon
<1>4. \A k : k = Depth + 1 => Base(k)' = Len(vars) /\ Limit(k)' = Len(vars) /\ Adr(k)' = address
  BY <1>1, <1>2 DEF Base, Limit, Adr
<1>5. \A k \in 1..Depth : Base(k)' = Base(k)
  BY <1>2, <1>3 DEF Base
<1>6. \A k \in 1..Depth : Limit(k)' = Limit(k) /\ Adr(k)' = Adr(k)
  <2> SUFFICES ASSUME NEW k \in 1..Depth
               PROVE  Limit(k)' = Limit(k) /\ Adr(k)' = Adr(k)
    OBVIOUS
  <2>1. CASE k = Depth
    <3>1. Limit(k)' = Len(vars) /\ Adr(k)' = address
      BY <2>1, <1>1, <1>2, <1>3 DEF Limit, Adr, Base
    <3> QED BY <3>1, <2>1 DEF Limit, Adr
  <2>2. CASE k # Depth
    <3>1. k + 1 \in 1..Depth /\ k # Depth' /\ k + 1 # Depth'
          /\ (k + 1 = Depth \/ k + 1 \in 1 .. Depth - 1)
      BY <2>2, <1>2, <1>3
    <3>2. Limit(k)' = Limit(k)
      BY <2>2, <3>1, <1>2 DEF Limit, Base
    <3>3. Adr(k)' = Adr(k)
      BY <2>2, <3>1, <1>2 DEF Adr
    <3> QED BY <3>2, <3>3
  <2> QED BY <2>1, <2>2
<1>7. Trusted' \subseteq Trusted /\ Scoped \subseteq Trusted' /\ Trusted' \subseteq Vars
  <2>1. Trusted' = IF odd' THEN NoParam ELSE Vars
    BY DEF Trusted
  <2> QED BY <2>1, <1>1, Parameters DEF Trusted
<1>8. FramesOK'
  <2>1. /\ Len(frames)' = Depth' - 1 /\ Len(before)' = Depth'
        /\ Len(opened)' = Depth' /\ Len(cells)' = Depth' /\ Depth' <= MaxCalls
    BY <1>1, <1>2
  <2>2. \A k \in 1 .. Depth + 1 : k \in 1..Depth \/ k = Depth + 1
    BY <1>1
  <2>3. \A j, k \in 1..Depth' : j <= k => Base(j)' <= Base(k)'
    <3> SUFFICES ASSUME NEW j \in 1 .. Depth + 1, NEW k \in 1 .. Depth + 1, j <= k
                 PROVE  Base(j)' <= Base(k)'
      BY <1>2
    <3>1. CASE j \in 1..Depth /\ k \in 1..Depth
      BY <3>1, <1>5, <1>1 DEF FramesOK
    <3>2. CASE j \in 1..Depth /\ k = Depth + 1
      <4>1. Base(j) \in Nat /\ Base(j) <= framepointer /\ framepointer <= Len(vars)
            /\ framepointer \in Nat /\ Len(vars) \in Nat
        BY <3>2, <1>1, BelowTop
      <4>2. Base(j)' = Base(j) /\ Base(k)' = Len(vars)
        BY <3>2, <1>4, <1>5
      <4>3. \A a, b, c \in Nat : a <= b /\ b <= c => a <= c
        OBVIOUS
      <4>4. Base(j) <= Len(vars)
        BY <4>1, <4>3
      <4> QED BY <4>2, <4>4
    <3>3. CASE j = Depth + 1
      <4>1. k = Depth + 1
        BY <3>3, <1>1
      <4>2. Len(vars) \in Nat /\ Base(j)' = Len(vars) /\ Base(k)' = Len(vars)
        BY <3>3, <4>1, <1>1, <1>4, BelowTop
      <4> QED BY <4>2
    <3> QED BY <2>2, <3>1, <3>2, <3>3
  <2>4. \A k \in 1..Depth' : FrameOK(vars', savedId', Trusted', Base(k)', Limit(k)', Adr(k)',
                                     before[k]', fds[k]', opened[k]')
    <3> SUFFICES ASSUME NEW k \in 1 .. Depth + 1
                 PROVE  FrameOK(vars, savedId, Trusted', Base(k)', Limit(k)', Adr(k)',
                                before'[k], fds'[k], opened'[k])
      BY <1>1, <1>2
    <3>1. CASE k \in 1..Depth
      <4>1. FrameOK(vars, savedId, Trusted, Base(k), Limit(k), Adr(k), before[k], fds[k], opened[k])
        BY <3>1, <1>1 DEF FramesOK
      <4>2. \A v \in Trusted' : Adr(k)[v] \in Nat
        <5>1. Adr(k) \in [Vars -> Nat]
          <6>1. before \in Seq([Vars -> Nat]) /\ Len(before) = Depth /\ address \in [Vars -> Nat]
            BY <1>1 DEF TypeOK, FramesOK
          <6>2. \A i \in 1..Depth : before[i] \in [Vars -> Nat]
            <7> DEFINE S == [Vars -> Nat]
            <7>1. before \in Seq(S) /\ Len(before) = Depth
              BY <6>1
            <7> HIDE DEF S
            <7>2. \A i \in 1..Depth : before[i] \in S
              BY <7>1
            <7> QED BY <7>2 DEF S
          <6>3. CASE k = Depth
            BY <6>3, <6>1 DEF Adr
          <6>4. CASE k # Depth
            <7>0. k + 1 \in 1..Depth
              <8>1. k \in 1..Depth
                BY <3>1
              <8>2. k # Depth
                BY <6>4
              <8> QED BY <8>1, <8>2, <1>1
            <7>1. PICK m \in 1..Depth : m = k + 1
              BY <7>0, Zenon
            <7>2. Adr(k) = before[m]
              BY <6>4, <7>1 DEF Adr
            <7> QED BY <7>2, <6>2, Zenon
          <6> QED BY <6>3, <6>4
        <5> QED BY <5>1, <1>7
      <4>3. FrameOK(vars, savedId, Trusted', Base(k), Limit(k), Adr(k), before[k], fds[k], opened[k])
        BY <4>1, <4>2, <1>7, FrameSame
      <4> QED BY <4>3, <3>1, <1>2, <1>5, <1>6
    <3>2. CASE k = Depth + 1
      <4>1. FrameOK(vars, savedId, Trusted', Len(vars), Len(vars), address, address, f, <<>>)
        <5>1. Len(vars) \in Nat
          BY <1>1, BelowTop
        <5>2. \A v \in Trusted' : address[v] \in Nat /\ address[v] <= Len(vars)
          BY <1>1, <1>7, TopFrame DEF FrameOK, TypeOK
        <5> QED BY <5>1, <5>2, FrameBegins
      <4> QED BY <4>1, <3>2, <1>2, <1>4
    <3> QED BY <2>2, <3>1, <3>2
  <2> QED BY <2>1, <2>3, <2>4 DEF FramesOK
<1>9. TodoOK'
  <2>1. /\ DOMAIN todo' = DOMAIN args
        /\ \A j \in DOMAIN args : todo'[j].v = Params[f][j] /\ todo'[j].e = Earg(args[j])
    BY <1>1
  <2>2. ~pushed'
    BY <1>1 DEF TodoOK
  <2>3. /\ \A j \in DOMAIN args : Params[f][j] \in ParamsOf(f)
        /\ \A j \in DOMAIN args : Earg(args[j]) \in Vars <=> Params[f][j] \in RefParams
        /\ \A i, j \in DOMAIN args : Params[f][i] = Params[f][j] => i = j
    BY <1>1, ArgumentTypes
  <2>4. \A u : Absent(vars', framepointer', Len(vars'), u)
    <3>1. \A i \in Len(vars) + 1 .. Len(vars) : FALSE
      BY <1>1, BelowTop
    <3> QED BY <3>1, <1>1, <1>2 DEF Absent
  <2>5. ASSUME ~odd', NEW j \in DOMAIN args, Earg(args[j]) \in Vars, FunctionOf[Earg(args[j])] = f
        PROVE  Earg(args[j]) \notin ParamsOf(f)
    <3>1. ~OwnParameter(f, args)
      BY <2>5, <1>1
    <3>2. args[j] \in Vars /\ Earg(args[j]) = Lvalue(args[j])
      BY <2>5, <1>1, ArgumentTypes DEF Earg
    <3> QED BY <2>5, <3>1, <3>2 DEF OwnParameter
  <2> QED BY <1>2, <2>1, <2>2, <2>3, <2>4, <2>5 DEF TodoOK
<1> QED BY <1>2, <1>8, <1>9 DEF StackInv

LEMMA UnwoundRestores ==
    ASSUME TypeOK, FramesOK, NEW v \in Vars, v \in Trusted
    PROVE  Unwound[v] = before[Depth][v]
<1>1. Trusted \in SUBSET Vars /\ vars \in Seq(Vars)
  BY Parameters DEF TypeOK
<1>2. FrameOK(vars, savedId, Trusted, framepointer, Len(vars), address, before[Depth], fd, opened[Depth])
  BY TopFrame
<1>3. Unwound[v] = IF {j \in framepointer + 1 .. Len(vars) : vars[j] = v} = {} THEN address[v]
                   ELSE savedId[Latest({j \in framepointer + 1 .. Len(vars) : vars[j] = v})]
  BY DEF Unwound, Entries
<1>4. (IF {j \in framepointer + 1 .. Len(vars) : vars[j] = v} = {} THEN address[v]
       ELSE savedId[Latest({j \in framepointer + 1 .. Len(vars) : vars[j] = v})]) = before[Depth][v]
  BY <1>1, <1>2, FrameRestores
<1> QED BY <1>3, <1>4, Zenon

LEMMA EndFrameStack ==
    ASSUME StackInv, EndFrame
    PROVE  StackInv'
<1> DEFINE d == Depth - 1
<1>1. /\ TypeOK /\ FramesOK /\ TodoOK /\ todo = <<>> /\ Depth > 1
      /\ address' = Unwound
      /\ values' = SubSeq(values, 1, framepointer)
      /\ vars' = SubSeq(vars, 1, framepointer)
      /\ savedId' = SubSeq(savedId, 1, framepointer)
      /\ framepointer' = frames[Len(frames)]
      /\ frames' = Front(frames)
      /\ fds' = Front(fds) /\ opened' = Front(opened) /\ cells' = Front(cells)
      /\ before' = Front(before)
      /\ store' = [c \in Cells |-> IF c[1] = Depth THEN Nil ELSE store[c]]
      /\ UNCHANGED <<todo, pushed, failed, odd>>
  BY DEF StackInv, EndFrame, Ready, call
<1>2. /\ Depth \in Nat \ {0} /\ d \in Nat \ {0} /\ d + 1 = Depth /\ d # Depth
      /\ Len(fds) = d + 1 /\ Len(opened) = d + 1 /\ Len(cells) = d + 1 /\ Len(before) = d + 1
      /\ Len(frames) = d /\ d <= MaxCalls
  <2>1. Depth \in Nat \ {0}
    BY <1>1, DepthType
  <2>2. d \in Nat \ {0} /\ d + 1 = Depth /\ d # Depth
    BY <2>1, <1>1
  <2>3. Depth <= MaxCalls /\ MaxCalls \in Nat
    BY <1>1, ProgramAssumption DEF FramesOK
  <2> QED BY <1>1, <2>1, <2>2, <2>3 DEF FramesOK, Depth
<1>3. fds' \in Seq(Functions) /\ Len(fds') = d /\ \A k \in 1..d : fds'[k] = fds[k]
  <2>1. fds \in Seq(Functions)
    BY <1>1 DEF TypeOK
  <2> QED BY <2>1, <1>1, <1>2, SeqFront
<1>4. opened' \in Seq(Seq(Vars)) /\ Len(opened') = d /\ \A k \in 1..d : opened'[k] = opened[k]
  <2>1. opened \in Seq(Seq(Vars))
    BY <1>1 DEF TypeOK
  <2> QED BY <2>1, <1>1, <1>2, SeqFront
<1>5. /\ cells' \in Seq([Vars -> Cells \cup {Nil}]) /\ Len(cells') = d
      /\ \A k \in 1..d : cells'[k] = cells[k]
  <2> DEFINE S == [Vars -> Cells \cup {Nil}]
  <2>1. cells \in Seq(S)
    BY <1>1 DEF TypeOK
  <2> HIDE DEF S
  <2>2. cells' \in Seq(S) /\ Len(cells') = d /\ \A k \in 1..d : cells'[k] = cells[k]
    BY <2>1, <1>1, <1>2, SeqFront
  <2> QED BY <2>2 DEF S
<1>6. before' \in Seq([Vars -> Nat]) /\ Len(before') = d /\ \A k \in 1..d : before'[k] = before[k]
  <2> DEFINE S == [Vars -> Nat]
  <2>1. before \in Seq(S)
    BY <1>1 DEF TypeOK
  <2> HIDE DEF S
  <2>2. before' \in Seq(S) /\ Len(before') = d /\ \A k \in 1..d : before'[k] = before[k]
    BY <2>1, <1>1, <1>2, SeqFront
  <2> QED BY <2>2 DEF S
<1>7. /\ frames' \in Seq(Nat) /\ Len(frames') = d - 1 /\ framepointer' = frames[d] /\ frames[d] \in Nat
      /\ \A k \in 1 .. d - 1 : frames'[k] = frames[k]
  <2>1. frames \in Seq(Nat) /\ Len(frames) = d - 1 + 1 /\ d - 1 \in Nat /\ d \in 1..Len(frames)
    BY <1>1, <1>2 DEF TypeOK
  <2>2. frames' \in Seq(Nat) /\ Len(frames') = d - 1 /\ \A k \in 1 .. d - 1 : frames'[k] = frames[k]
    BY <2>1, <1>1, SeqFront
  <2> QED BY <2>1, <2>2, <1>1, <1>2
<1>8. framepointer \in Nat /\ framepointer \in 0..Len(vars) /\ Len(vars) \in Nat
  BY <1>1, BelowTop
<1>9. /\ values' \in Seq(Entry) /\ vars' \in Seq(Vars) /\ savedId' \in Seq(Nat)
      /\ Len(values') = framepointer /\ Len(vars') = framepointer /\ Len(savedId') = framepointer
      /\ \A i \in 1..framepointer : vars'[i] = vars[i] /\ savedId'[i] = savedId[i]
                                   /\ values'[i] = values[i]
  <2>1. /\ values \in Seq(Entry) /\ vars \in Seq(Vars) /\ savedId \in Seq(Nat)
        /\ Len(vars) = Len(values) /\ Len(savedId) = Len(values)
    BY <1>1 DEF TypeOK
  <2> QED BY <2>1, <1>1, <1>8, SeqPrefix
<1>10. FrameOK(vars, savedId, Trusted, framepointer, Len(vars), address, before[Depth], fd, opened[Depth])
  BY <1>1, TopFrame
<1>11. address' \in [Vars -> Nat]
  <2>1. savedId \in Seq(Nat) /\ Len(savedId) = Len(vars) /\ address \in [Vars -> Nat]
    BY <1>1 DEF TypeOK
  <2>2. ASSUME NEW v \in Vars, Entries(v) # {}
        PROVE  savedId[Latest(Entries(v))] \in Nat
    <3>1. Entries(v) \subseteq 1..Len(vars)
      BY <1>8 DEF Entries
    <3>2. Latest(Entries(v)) \in 1..Len(vars)
      BY <2>2, <3>1, <1>8, LatestIn
    <3> QED BY <3>2, <2>1
  <2> QED BY <2>1, <2>2, <1>1 DEF Unwound
<1>12. \A v \in Trusted : address'[v] = before[Depth][v]
  <2>1. \A v \in Trusted : v \in Vars
    BY Parameters
  <2> QED BY <2>1, <1>1, UnwoundRestores
<1>13. TypeOK'
  <2>1. store' \in [Cells -> Data \cup {Nil}]
    BY <1>1, CellTypes
  <2>2. fds' # <<>>
    BY <1>2, <1>3
  <2> QED BY <1>1, <1>3, <1>4, <1>5, <1>6, <1>7, <1>9, <1>11, <2>1, <2>2 DEF TypeOK
<1>14. Depth' = d /\ Trusted' = Trusted
  BY <1>1, <1>3 DEF Depth, Trusted
<1> HIDE DEF d
<1>15. \A k \in 1..d : /\ k \in 1 .. d + 1 /\ k # Depth /\ (k # d => k \in 1 .. d - 1)
                       /\ (k # d => k + 1 \in 1..d /\ k + 1 # Depth)
                       /\ (k # d => k + 1 = d \/ k + 1 \in 1 .. d - 1)
  <2>1. \A n \in Nat : \A k \in 1..n : /\ k \in 1 .. n + 1 /\ k # n + 1 /\ (k # n => k \in 1 .. n - 1)
                                       /\ (k # n => k + 1 \in 1..n /\ k + 1 # n + 1)
                                       /\ (k # n => k + 1 = n \/ k + 1 \in 1 .. n - 1)
    OBVIOUS
  <2> QED BY <2>1, <1>2, Zenon
<1>16. \A k \in 1..d : Base(k)' = Base(k)
  BY <1>7, <1>14, <1>15 DEF Base
<1>17. \A k \in 1..d : Limit(k)' = Limit(k)
  <2> SUFFICES ASSUME NEW k \in 1..d PROVE Limit(k)' = Limit(k)
    OBVIOUS
  <2>1. CASE k = d
    <3>1. Limit(k)' = framepointer
      BY <2>1, <1>9, <1>14 DEF Limit
    <3>2. Limit(k) = framepointer
      BY <2>1, <1>2, <1>15 DEF Limit, Base
    <3> QED BY <3>1, <3>2
  <2>2. CASE k # d
    BY <2>2, <1>7, <1>14, <1>15 DEF Limit, Base
  <2> QED BY <2>1, <2>2
<1>18. \A k \in 1..d : \A v \in Trusted : Adr(k)'[v] = Adr(k)[v]
  <2> SUFFICES ASSUME NEW k \in 1..d, NEW v \in Trusted PROVE Adr(k)'[v] = Adr(k)[v]
    OBVIOUS
  <2>1. CASE k = d
    <3>1. Adr(k)' = address'
      BY <2>1, <1>14 DEF Adr
    <3>2. Adr(k) = before[Depth]
      BY <2>1, <1>2, <1>15 DEF Adr
    <3> QED BY <3>1, <3>2, <1>12
  <2>2. CASE k # d
    <3>1. Adr(k)' = Adr(k)
      BY <2>2, <1>6, <1>14, <1>15 DEF Adr
    <3> QED BY <3>1
  <2> QED BY <2>1, <2>2
<1>19. FramesOK'
  <2>1. /\ Len(frames)' = Depth' - 1 /\ Len(before)' = Depth'
        /\ Len(opened)' = Depth' /\ Len(cells)' = Depth' /\ Depth' <= MaxCalls
    BY <1>2, <1>4, <1>5, <1>6, <1>7, <1>14
  <2>2. \A j, k \in 1..Depth' : j <= k => Base(j)' <= Base(k)'
    <3>1. \A j \in 1..d : j \in 1..Depth
      BY <1>2, <1>15
    <3> QED BY <3>1, <1>1, <1>14, <1>16 DEF FramesOK
  <2>3. \A k \in 1..Depth' : FrameOK(vars', savedId', Trusted', Base(k)', Limit(k)', Adr(k)',
                                     before[k]', fds[k]', opened[k]')
    <3> SUFFICES ASSUME NEW k \in 1..d
                 PROVE  FrameOK(vars', savedId', Trusted, Base(k), Limit(k), Adr(k)',
                                before[k], fds[k], opened[k])
      BY <1>3, <1>4, <1>6, <1>14, <1>16, <1>17
    <3>1. FrameOK(vars, savedId, Trusted, Base(k), Limit(k), Adr(k), before[k], fds[k], opened[k])
      BY <1>1, <1>2, <1>15 DEF FramesOK
    <3>2. Limit(k) \in Nat /\ Limit(k) <= framepointer
      <4>1. d = Depth - 1
        BY <1>2
      <4>2. k \in 1 .. Depth - 1 /\ k \in 1..Depth
        BY <4>1, <1>2, <1>15
      <4> QED BY <4>2, <1>1, BelowTop
    <3>3. \A i \in 1..Limit(k) : vars'[i] = vars[i] /\ savedId'[i] = savedId[i]
      BY <3>2, <1>8, <1>9
    <3>4. \A v \in Trusted : Adr(k)[v] \in Nat
      <4>1. Adr(k) = before[k + 1] /\ k + 1 \in 1..Len(before)
        BY <1>2, <1>15 DEF Adr
      <4>2. \A i \in 1..Len(before) : before[i] \in [Vars -> Nat]
        <5> DEFINE S == [Vars -> Nat]
        <5>1. before \in Seq(S)
          BY <1>1 DEF TypeOK
        <5> HIDE DEF S
        <5>2. \A i \in 1..Len(before) : before[i] \in S
          BY <5>1
        <5> QED BY <5>2 DEF S
      <4>3. PICK g \in [Vars -> Nat] : g = before[k + 1]
        BY <4>1, <4>2, Zenon
      <4> QED BY <4>1, <4>3, Parameters
    <3> QED BY <3>1, <3>3, <3>4, <1>18, Parameters, FrameSame
  <2> QED BY <2>1, <2>2, <2>3 DEF FramesOK
<1>20. TodoOK'
  BY <1>1, Passed
<1> QED BY <1>13, <1>19, <1>20 DEF StackInv

-----------------------------------------------------------------------------

LEMMA InitStack ==
    ASSUME Init
    PROVE  StackInv
<1>1. TypeOK
  <2>1. <<Global>> \in Seq(Functions) /\ <<Global>> # <<>>
    BY ProgramAssumption
  <2>2. address \in [Vars -> Nat] /\ cells[1] \in [Vars -> Cells \cup {Nil}]
    BY DEF Init
  <2>3. before \in Seq([Vars -> Nat]) /\ cells \in Seq([Vars -> Cells \cup {Nil}])
    <3>1. \A S : \A e \in S : <<e>> \in Seq(S)
      OBVIOUS
    <3>2. before = <<address>> /\ cells = <<[v \in Vars |-> Nil]>>
      BY DEF Init
    <3>3. [v \in Vars |-> Nil] \in [Vars -> Cells \cup {Nil}]
      OBVIOUS
    <3> QED BY <2>2, <3>1, <3>2, <3>3, Zenon
  <2>4. store \in [Cells -> Data \cup {Nil}]
    BY DEF Init
  <2>5. opened \in Seq(Seq(Vars))
    <3>1. \A S : \A e \in S : <<e>> \in Seq(S)
      OBVIOUS
    <3>2. <<>> \in Seq(Vars)
      OBVIOUS
    <3>3. PICK none : none = <<>>
      OBVIOUS
    <3>4. none \in Seq(Vars)
      BY <3>2, <3>3
    <3>5. opened = <<none>>
      BY <3>3, Zenon DEF Init
    <3>6. <<none>> \in Seq(Seq(Vars))
      BY <3>1, <3>4, Zenon
    <3> QED BY <3>5, <3>6, Zenon
  <2>6. /\ values \in Seq(Entry) /\ vars \in Seq(Vars) /\ savedId \in Seq(Nat)
        /\ Len(vars) = Len(values) /\ Len(savedId) = Len(values)
        /\ frames \in Seq(Nat) /\ framepointer \in Nat
    BY DEF Init
  <2>7. todo \in Seq([v : Vars, e : Data \cup Vars])
    BY DEF Init
  <2>8. pushed \in BOOLEAN /\ failed \in BOOLEAN /\ odd \in BOOLEAN /\ fds = <<Global>>
    BY DEF Init
  <2> QED BY <2>1, <2>2, <2>3, <2>4, <2>5, <2>6, <2>7, <2>8 DEF TypeOK
<1>2. /\ Depth = 1 /\ fds[1] = Global /\ Len(vars) = 0 /\ framepointer = 0
      /\ Len(before) = 1 /\ Len(opened) = 1 /\ Len(cells) = 1 /\ Len(frames) = 0
      /\ before[1] = address /\ opened[1] = <<>>
  BY DEF Init, Depth
<1>3. FramesOK
  <2>1. FrameOK(vars, savedId, Trusted, 0, 0, address, address, Global, <<>>)
    <3>1. \A v \in Trusted : address[v] = 0
      BY Parameters DEF Init
    <3> QED BY <3>1, FrameBegins
  <2>2. \A k \in 1..1 : k = 1
    OBVIOUS
  <2>3. Base(1) = 0 /\ Limit(1) = 0 /\ Adr(1) = address
    BY <1>2 DEF Base, Limit, Adr
  <2>4. 1 <= MaxCalls
    BY ProgramAssumption
  <2> QED BY <1>2, <2>1, <2>2, <2>3, <2>4 DEF FramesOK
<1>4. TodoOK
  BY DEF Init, TodoOK
<1> QED BY <1>1, <1>3, <1>4 DEF StackInv

LEMMA SameStack ==
    ASSUME StackInv, UNCHANGED state
    PROVE  StackInv'
<1>1. /\ UNCHANGED <<values, vars, savedId, address, frames, framepointer, todo, pushed, failed, odd,
                     fds, opened, cells, store, before>>
  BY DEF state, stack, frame, call, language
<1>2. TypeOK'
  BY <1>1 DEF StackInv, TypeOK
<1>3. FramesOK'
  BY <1>1 DEF StackInv, FramesOK, Base, Limit, Adr, Trusted, Depth
<1>4. TodoOK'
  BY <1>1 DEF StackInv, TodoOK, fd, Depth
<1> QED BY <1>2, <1>3, <1>4 DEF StackInv

LEMMA NextStack ==
    ASSUME StackInv, Next
    PROVE  StackInv'
<1>1. ASSUME NEW f \in Functions \ {Global}, NEW args \in Arguments(f), Call(f, args) PROVE StackInv'
  BY <1>1, CallStack
<1>2. CASE PushParam
  BY <1>2, PushParamStack
<1>3. CASE BindParam
  BY <1>3, BindParamStack
<1>4. CASE SetParam
  BY <1>4, SetParamStack
<1>5. CASE EndFrame
  BY <1>5, EndFrameStack
<1>6. ASSUME NEW v \in Locals(fd), Declare(v) PROVE StackInv'
  BY <1>6, DeclareStack
<1>7. ASSUME NEW v \in Owned(fd) \ Scoped, NEW e \in Data, Assign(v, e) PROVE StackInv'
  BY <1>7, AssignStack
<1>8. ASSUME NEW v \in Owned(fd) \cap Scoped, NEW e \in Data, ScopeBegin(v, e) PROVE StackInv'
  BY <1>8, ScopeBeginStack
<1>9. CASE ScopeEnd
  BY <1>9, ScopeEndStack
<1> QED BY <1>1, <1>2, <1>3, <1>4, <1>5, <1>6, <1>7, <1>8, <1>9 DEF Next

LEMMA StackInvariant == Spec => []StackInv
<1>1. Init => StackInv
  BY InitStack
<1>2. StackInv /\ [Next]_state => StackInv'
  BY NextStack, SameStack
<1> QED BY <1>1, <1>2, PTL DEF Spec

\* What the language keeps of a program and what the interpreter keeps of it
\* have the types that the code declares.
THEOREM TypeCorrect == Spec => []TypeOK
<1>1. StackInv => TypeOK
  BY DEF StackInv
<1> QED BY <1>1, StackInvariant, PTL

\* popAll() gives the variables back the addresses that they had when the call began,
\* whatever was called, declared, bound and popped since.
THEOREM RestoredAlways == Spec => []Restored
<1>1. StackInv => Restored
  <2> SUFFICES ASSUME StackInv, NEW v \in Vars, Sound(v)
               PROVE  Unwound[v] = before[Depth][v]
    BY DEF Restored
  <2>1. v \in Trusted
    BY DEF Sound, Trusted, NoParam
  <2> QED BY <2>1, UnwoundRestores DEF StackInv
<1> QED BY <1>1, StackInvariant, PTL

-----------------------------------------------------------------------------
(* What the variables hold                                                 *)

\* The address of a cell is that of the variable in the activation it was made for.
Target(c) == Adr(c[1])[c[2]]

\* The parameters that the current activation has not been passed yet.
Pending(k) == IF k = Depth THEN {todo[j].v : j \in DOMAIN todo} ELSE {}

\* A ref parameter names a cell of an activation below, every other variable its own.
NameOK(k, v, c) ==
    /\ FunctionOf[v] = fds[k]
    /\ v \notin RefParams => c = <<k, v>>
    /\ v \in RefParams => /\ c[1] \in 1 .. k - 1 /\ c[2] \in Vars \ RefParams
                          /\ cells[c[1]][c[2]] = c

\* The address of v in the activation k is that of an entry of this activation for v.
OwnEntry(k, v) == Base(k) < Adr(k)[v] /\ Adr(k)[v] <= Limit(k) /\ vars[Adr(k)[v]] = v

\* A ref parameter has the address of its cell, or an entry that holds a variable of
\* another function which has this address.
CellOK(k, v, c) ==
    /\ v \notin RefParams => OwnEntry(k, v) /\ values[Adr(k)[v]] = store[c]
    /\ v \in RefParams =>
        \/ Adr(k)[v] = Target(c)
        \/ /\ OwnEntry(k, v)
           /\ \E w \in Vars : /\ values[Adr(k)[v]] = w /\ FunctionOf[w] # fds[k]
                              /\ Adr(k)[w] = Target(c)

NamesOK ==
    \A k \in 1..Depth : \A v \in Vars : \A c \in Cells :
        cells[k][v] = c /\ c # Nil => NameOK(k, v, c)
CellsOK ==
    \A k \in 1..Depth : \A v \in Vars : \A c \in Cells :
        cells[k][v] = c /\ c # Nil /\ v \notin Pending(k) => CellOK(k, v, c)

\* What is passed next: a variable of the called function has no entry in this frame.
ArgOK(v, e) ==
    /\ e \notin Vars => store[<<Depth, v>>] = e
    /\ e \in Vars => \E c \in Cells : /\ cells[Depth][v] = c /\ c # Nil /\ store[c] # Nil
                                      /\ before[Depth][e] = Target(c)
    /\ e \in Vars /\ FunctionOf[e] = fd => Absent(vars, framepointer, Len(vars), e)
ArgsOK ==
    /\ \A j \in DOMAIN todo : \A v \in Vars : \A e \in Data \cup Vars :
        todo[j].v = v /\ todo[j].e = e => ArgOK(v, e)
    /\ \A i, j \in DOMAIN todo :
        todo[i].e = todo[j].e /\ todo[i].e \in Vars /\ FunctionOf[todo[i].e] = fd => i = j

ValueOK == ~failed /\ NamesOK /\ CellsOK /\ ArgsOK
ValueInv == ~odd => ValueOK

-----------------------------------------------------------------------------
(* Reading a variable                                                      *)

LEMMA AdrType ==
    ASSUME TypeOK, FramesOK, NEW k \in 1..Depth
    PROVE  /\ Adr(k) \in [Vars -> Nat] /\ cells[k] \in [Vars -> Cells \cup {Nil}]
           /\ \A v \in Vars : Adr(k)[v] \in Nat
<1>1. /\ address \in [Vars -> Nat] /\ before \in Seq([Vars -> Nat]) /\ Len(before) = Depth
      /\ cells \in Seq([Vars -> Cells \cup {Nil}]) /\ Len(cells) = Depth
      /\ Depth \in Nat
  BY DepthType DEF TypeOK, FramesOK
<1>2. cells[k] \in [Vars -> Cells \cup {Nil}]
  BY <1>1, ElementOfSeq
<1>3. Adr(k) \in [Vars -> Nat]
  <2>1. CASE k = Depth
    BY <2>1, <1>1 DEF Adr
  <2>2. CASE k # Depth
    <3>1. k + 1 \in 1..Len(before)
      BY <2>2, <1>1
    <3>2. before[k + 1] \in [Vars -> Nat]
      BY <3>1, <1>1, ElementOfSeq
    <3> QED BY <2>2, <3>2 DEF Adr
  <2> QED BY <2>1, <2>2
<1> QED BY <1>2, <1>3

LEMMA CellParts ==
    ASSUME NEW c \in Cells
    PROVE  c[1] \in 1..MaxCalls /\ c[2] \in Vars /\ c = <<c[1], c[2]>>
BY DEF Cells

\* The cell that a variable names has an entry, which holds what the cell does.
LEMMA TargetFacts ==
    ASSUME StackInv, ~odd, NamesOK, CellsOK, NEW k \in 1..Depth, NEW v \in Vars, NEW c \in Cells,
           cells[k][v] = c, c # Nil, v \in RefParams \/ v \notin Pending(k)
    PROVE  /\ c[1] \in 1..Depth /\ c[1] <= k /\ c[2] \in Vars \ RefParams
           /\ v \in RefParams => c[1] < k
           /\ OwnEntry(c[1], c[2]) /\ Target(c) \in Nat /\ Target(c) # 0
           /\ values[Target(c)] = store[c] /\ store[c] \in Data \cup {Nil} /\ store[c] \notin Vars
<1>1. TypeOK /\ FramesOK /\ Depth \in Nat
  BY DepthType DEF StackInv
<1>2. store[c] \in Data \cup {Nil} /\ store[c] \notin Vars
  BY <1>1, ValueAssumption DEF TypeOK
<1>3. NameOK(k, v, c)
  BY DEF NamesOK
<1>4. ASSUME NEW j \in 1..Depth, NEW u \in Vars \ RefParams, cells[j][u] = c, u \notin Pending(j),
             c = <<j, u>>
      PROVE  /\ OwnEntry(c[1], c[2]) /\ Target(c) \in Nat /\ Target(c) # 0
             /\ values[Target(c)] = store[c]
  <2>1. CellOK(j, u, c)
    BY <1>4 DEF CellsOK
  <2>2. OwnEntry(j, u) /\ values[Adr(j)[u]] = store[c]
    BY <2>1, <1>4 DEF CellOK
  <2>3. c[1] = j /\ c[2] = u /\ Target(c) = Adr(j)[u]
    BY <1>4 DEF Target
  <2>4. Adr(j)[u] \in Nat /\ Base(j) \in Nat
    BY <1>1, AdrType, BelowTop
  <2>5. Adr(j)[u] # 0
    BY <2>2, <2>4 DEF OwnEntry
  <2> QED BY <2>2, <2>3, <2>4, <2>5
<1>5. CASE v \notin RefParams
  <2>1. c = <<k, v>> /\ v \notin Pending(k)
    BY <1>3, <1>5 DEF NameOK
  <2>2. c[1] = k /\ c[2] = v /\ k <= k
    BY <2>1
  <2> QED BY <1>2, <1>4, <1>5, <2>1, <2>2
<1>6. CASE v \in RefParams
  <2>1. c[1] \in 1 .. k - 1 /\ c[2] \in Vars \ RefParams /\ cells[c[1]][c[2]] = c
    BY <1>3, <1>6 DEF NameOK
  <2>2. c[1] \in 1..Depth /\ c[1] < k /\ c[1] <= k /\ c[1] # Depth
    BY <1>1, <2>1
  <2>3. c[2] \notin Pending(c[1])
    BY <2>2 DEF Pending
  <2>4. c = <<c[1], c[2]>>
    BY CellParts
  <2> QED BY <1>2, <1>4, <2>1, <2>2, <2>3, <2>4
<1> QED BY <1>5, <1>6

\* What a variable stands for has the address of the variable's cell.
LEMMA LvalueOf ==
    ASSUME StackInv, ~odd, NamesOK, CellsOK, NEW v \in Vars, NEW c \in Cells,
           cells[Depth][v] = c, c # Nil, v \notin Pending(Depth)
    PROVE  /\ Ends(v) /\ address[Lvalue(v)] = Target(c) /\ Target(c) # 0
           /\ values[Target(c)] = store[c] /\ Read(v) = store[c]
<1>1. /\ Depth \in 1..Depth /\ Adr(Depth) = address
  BY DepthType DEF StackInv, Adr
<1>2. /\ Target(c) # 0 /\ values[Target(c)] = store[c] /\ store[c] \notin Vars
  BY <1>1, TargetFacts
<1>3. v \in Nest(v)
  BY DEF Nest
<1>4. ASSUME NEW w \in Vars, address[w] = Target(c)
      PROVE  ~Refers(w)
  BY <1>2, <1>4 DEF Refers
<1>5. CellOK(Depth, v, c) /\ NameOK(Depth, v, c)
  BY <1>1 DEF CellsOK, NamesOK
<1>6. ASSUME address[Lvalue(v)] = Target(c)
      PROVE  Read(v) = store[c]
  BY <1>2, <1>6 DEF Read
<1>7. CASE address[v] = Target(c)
  <2>1. ~Refers(v) /\ Lvalue(v) = v
    BY <1>4, <1>7 DEF Lvalue
  <2> QED BY <1>2, <1>3, <1>6, <1>7, <2>1 DEF Ends
<1>8. CASE \E w \in Vars : values[address[v]] = w /\ address[w] = Target(c)
  <2>1. PICK w \in Vars : values[address[v]] = w /\ address[w] = Target(c)
    BY <1>8
  <2>2. ~Refers(w) /\ Held(v) = w
    BY <1>4, <2>1 DEF Held
  <2>3. CASE Refers(v)
    <3>1. w \in Nest(v)
      BY <2>2, <2>3 DEF Nest
    <3>2. Nest(v) \subseteq {v, w}
      <4>1. {v, w} \in SUBSET Vars /\ v \in {v, w}
            /\ \A u \in {v, w} : Refers(u) => Held(u) \in {v, w}
        BY <2>2
      <4>2. \A u \in Nest(v) : u \in {v, w}
        BY <4>1 DEF Nest
      <4> QED BY <4>2
    <3>3. (CHOOSE u \in Nest(v) : ~Refers(u)) = w
      <4>1. \A u \in Nest(v) : ~Refers(u) => u = w
        BY <2>3, <3>2
      <4> QED BY <2>2, <3>1, <4>1
    <3>4. Lvalue(v) = w
      BY <2>3, <3>3 DEF Lvalue
    <3> QED BY <1>2, <1>6, <2>1, <2>2, <3>1, <3>4 DEF Ends
  <2>4. CASE ~Refers(v)
    <3>1. v \notin RefParams \/ address[v] = 0
      <4>1. w # Nil
        BY ValueAssumption
      <4> QED BY <2>1, <2>4, <4>1 DEF Refers, HasValue
    <3>2. address[v] # 0
      <4>1. CASE v \in RefParams
        <5>1. address[v] = Target(c) \/ OwnEntry(Depth, v)
          BY <1>1, <1>5, <4>1 DEF CellOK
        <5>2. CASE OwnEntry(Depth, v)
          <6>1. Base(Depth) \in Nat /\ address[v] \in Nat
            BY <1>1, BelowTop, AdrType DEF StackInv
          <6> QED BY <1>1, <5>2, <6>1 DEF OwnEntry
        <5> QED BY <5>1, <5>2, <1>2
      <4>2. CASE v \notin RefParams
        <5>1. c = <<Depth, v>>
          BY <1>5, <4>2 DEF NameOK
        <5>2. c[1] = Depth /\ c[2] = v
          BY <5>1
        <5> QED BY <5>2, <1>1, <1>2 DEF Target
      <4> QED BY <4>1, <4>2
    <3>3. v \notin RefParams
      BY <3>1, <3>2
    <3>4. values[address[v]] = store[c]
      BY <1>1, <1>5, <3>3 DEF CellOK
    <3> QED BY <1>2, <2>1, <3>4
  <2> QED BY <2>3, <2>4
<1>9. address[v] = Target(c) \/ \E w \in Vars : values[address[v]] = w /\ address[w] = Target(c)
  <2>1. CASE v \notin RefParams
    <3>1. c = <<Depth, v>>
      BY <1>5, <2>1 DEF NameOK
    <3>2. c[1] = Depth /\ c[2] = v
      BY <3>1
    <3> QED BY <3>2, <1>1 DEF Target
  <2>2. CASE v \in RefParams
    BY <1>1, <1>5, <2>2 DEF CellOK
  <2> QED BY <2>1, <2>2
<1> QED BY <1>7, <1>8, <1>9

-----------------------------------------------------------------------------
(* What an action leaves as it was                                         *)

LEMMA CellStays ==
    ASSUME NEW k, NEW v \in Vars, NEW c \in Cells, CellOK(k, v, c),
           Base(k)' = Base(k), fds'[k] = fds[k], Adr(k)'[v] = Adr(k)[v],
           OwnEntry(k, v) => /\ vars'[Adr(k)[v]] = vars[Adr(k)[v]]
                             /\ values'[Adr(k)[v]] = values[Adr(k)[v]]
                             /\ Adr(k)[v] <= Limit(k)',
           v \notin RefParams => store'[c] = store[c],
           v \in RefParams => /\ Target(c)' = Target(c)
                              /\ \A w \in Vars : FunctionOf[w] # fds[k] => Adr(k)'[w] = Adr(k)[w]
    PROVE  CellOK(k, v, c)'
<1>1. OwnEntry(k, v) => OwnEntry(k, v)'
  BY DEF OwnEntry
<1>2. CASE v \notin RefParams
  BY <1>1, <1>2 DEF CellOK, OwnEntry
<1>3. CASE v \in RefParams
  <2>1. CASE Adr(k)[v] = Target(c)
    <3>1. Adr(k)'[v] = Target(c)'
      BY <1>3, <2>1
    <3> QED BY <1>3, <3>1 DEF CellOK
  <2>2. ASSUME OwnEntry(k, v), NEW w \in Vars, values[Adr(k)[v]] = w, FunctionOf[w] # fds[k],
               Adr(k)[w] = Target(c)
        PROVE  CellOK(k, v, c)'
    <3>1. values'[Adr(k)'[v]] = w /\ FunctionOf[w] # fds'[k] /\ Adr(k)'[w] = Target(c)'
      BY <1>3, <2>2
    <3> QED BY <1>1, <1>3, <2>2, <3>1 DEF CellOK
  <2> QED BY <1>3, <2>1, <2>2 DEF CellOK
<1> QED BY <1>2, <1>3

\* An action of the current activation that leaves the entries and the cells of those
\* below alone: what remains to be shown is of the variables of the current one.
LEMMA TopCells ==
    ASSUME StackInv, ~odd, NamesOK, CellsOK, UNCHANGED <<frame, fds, before>>,
           \A i \in 1..framepointer : vars'[i] = vars[i] /\ values'[i] = values[i],
           \A k \in 1 .. Depth - 1 : cells'[k] = cells[k],
           \A c \in Cells : c[1] < Depth => store'[c] = store[c],
           \A u \in Vars : \A c \in Cells : cells'[Depth][u] = c /\ c # Nil =>
                /\ cells[Depth][u] = c \/ (u \notin RefParams /\ FunctionOf[u] = fd /\ c = <<Depth, u>>)
                /\ u \notin Pending(Depth)' => \A k : k = Depth => CellOK(k, u, c)'
    PROVE  NamesOK' /\ CellsOK'
<1>1. /\ TypeOK /\ FramesOK /\ Depth \in Nat /\ Depth \in 1..Depth /\ fd = fds[Depth]
  BY DepthType DEF StackInv, fd
<1>2. /\ Depth' = Depth /\ \A k \in 1..Depth : Base(k)' = Base(k)
      /\ \A k \in 1 .. Depth - 1 : Limit(k)' = Limit(k) /\ Adr(k)' = Adr(k)
  BY <1>1, SameDepth
<1>3. \A c \in Cells : c[1] \in 1 .. Depth - 1 => Target(c)' = Target(c)
  BY <1>2 DEF Target
<1>4. ASSUME NEW k \in 1..Depth, NEW v \in Vars, NEW c \in Cells, cells[k][v] = c, c # Nil
      PROVE  NameOK(k, v, c)'
  <2>1. NameOK(k, v, c)
    BY <1>4 DEF NamesOK
  <2>2. v \in RefParams => c[1] \in 1 .. Depth - 1
    BY <2>1, <1>1 DEF NameOK
  <2> QED BY <2>1, <2>2 DEF NameOK
<1>5. ASSUME NEW k \in 1 .. Depth - 1, NEW v \in Vars, NEW c \in Cells, cells[k][v] = c, c # Nil
      PROVE  CellOK(k, v, c)'
  <2>1. k \in 1..Depth /\ k # Depth /\ v \notin Pending(k)
    BY <1>1 DEF Pending
  <2>2. CellOK(k, v, c) /\ NameOK(k, v, c)
    BY <1>5, <2>1 DEF CellsOK, NamesOK
  <2>3. Limit(k) <= framepointer /\ framepointer \in Nat /\ Base(k) \in Nat /\ Limit(k) \in Nat
    BY <1>1, <2>1, BelowTop
  <2>4. Adr(k)[v] \in Nat
    BY <1>1, <2>1, AdrType
  <2>5. OwnEntry(k, v) => Adr(k)[v] \in 1..framepointer /\ Adr(k)[v] <= Limit(k)
    BY <2>3, <2>4 DEF OwnEntry
  <2>6. v \notin RefParams => store'[c] = store[c]
    <3>1. v \notin RefParams => c = <<k, v>> /\ c[1] = k
      BY <2>2 DEF NameOK
    <3>2. k < Depth
      BY <1>1
    <3> QED BY <3>1, <3>2
  <2>7. v \in RefParams => Target(c)' = Target(c)
    <3>1. v \in RefParams => c[1] \in 1 .. Depth - 1
      BY <2>1, <2>2, <1>1 DEF NameOK
    <3> QED BY <3>1, <1>3
  <2>8. Base(k)' = Base(k) /\ Limit(k)' = Limit(k) /\ Adr(k)' = Adr(k) /\ fds'[k] = fds[k]
    BY <1>2, <2>1
  <2> QED BY <2>2, <2>5, <2>6, <2>7, <2>8, CellStays
<1>6. \A k \in 1..Depth : k = Depth \/ k \in 1 .. Depth - 1
  BY <1>1
<1>7. NamesOK'
  <2> SUFFICES ASSUME NEW k \in 1..Depth, NEW v \in Vars, NEW c \in Cells, cells'[k][v] = c, c # Nil
               PROVE  NameOK(k, v, c)'
    BY <1>2 DEF NamesOK
  <2>1. CASE cells[k][v] = c
    BY <1>4, <2>1
  <2>2. CASE cells[k][v] # c
    <3>1. k = Depth
      BY <1>6, <2>2
    <3>2. v \notin RefParams /\ FunctionOf[v] = fd /\ c = <<Depth, v>>
      BY <2>2, <3>1
    <3> QED BY <3>1, <3>2, <1>1 DEF NameOK
  <2> QED BY <2>1, <2>2
<1>8. CellsOK'
  <2> SUFFICES ASSUME NEW k \in 1..Depth, NEW v \in Vars, NEW c \in Cells, cells'[k][v] = c, c # Nil,
                      v \notin Pending(k)'
               PROVE  CellOK(k, v, c)'
    BY <1>2 DEF CellsOK
  <2>1. CASE k = Depth
    <3>1. v \notin Pending(Depth)'
      BY <1>2, <2>1 DEF Pending
    <3> QED BY <2>1, <3>1
  <2>2. CASE k \in 1 .. Depth - 1
    BY <1>5, <2>2
  <2> QED BY <1>6, <2>1, <2>2
<1> QED BY <1>7, <1>8

\* Another variable of the current activation, when v is pushed.
LEMMA OtherCell ==
    ASSUME StackInv, ~odd, NamesOK, CellsOK, UNCHANGED <<frame, fds, before>>,
           NEW v \in Vars, FunctionOf[v] = fd,
           \A i \in 1..Len(vars) : vars'[i] = vars[i]
                                   /\ (i \notin 1..framepointer /\ vars[i] # v => values'[i] = values[i]),
           Len(vars) <= Len(vars'), Len(vars) \in Nat, Len(vars') \in Nat,
           NEW u \in Vars, u # v, NEW c \in Cells, cells[Depth][u] = c, c # Nil,
           u \notin Pending(Depth), address'[u] = address[u],
           \A w \in Vars : FunctionOf[w] # fd => address'[w] = address[w],
           c = <<Depth, u>> => store'[c] = store[c],
           NEW k, k = Depth
    PROVE  CellOK(k, u, c)'
<1>1. /\ TypeOK /\ FramesOK /\ Depth \in Nat /\ Depth \in 1..Depth /\ fd = fds[Depth]
  BY DepthType DEF StackInv, fd
<1>2. /\ Depth' = Depth /\ \A m \in 1..Depth : Base(m)' = Base(m)
      /\ \A m \in 1 .. Depth - 1 : Limit(m)' = Limit(m) /\ Adr(m)' = Adr(m)
      /\ Limit(Depth) = Len(vars) /\ Limit(Depth)' = Len(vars)'
      /\ Adr(Depth) = address /\ Adr(Depth)' = address' /\ Base(Depth) = framepointer
  BY <1>1, SameDepth
<1>3. CellOK(Depth, u, c) /\ NameOK(Depth, u, c)
  BY <1>1 DEF CellsOK, NamesOK
<1>4. address[u] \in Nat /\ framepointer \in Nat
  BY <1>1 DEF TypeOK
<1>5. OwnEntry(Depth, u) => /\ vars'[address[u]] = vars[address[u]]
                            /\ values'[address[u]] = values[address[u]]
                            /\ address[u] <= Len(vars')
  <2> SUFFICES ASSUME OwnEntry(Depth, u)
               PROVE  /\ vars'[address[u]] = vars[address[u]]
                      /\ values'[address[u]] = values[address[u]]
                      /\ address[u] <= Len(vars')
    OBVIOUS
  <2>1. framepointer < address[u] /\ address[u] <= Len(vars) /\ vars[address[u]] = u
    BY <1>2 DEF OwnEntry
  <2>2. address[u] \in 1..Len(vars) /\ address[u] \notin 1..framepointer /\ address[u] <= Len(vars')
    BY <2>1, <1>4
  <2> QED BY <2>1, <2>2
<1>6. u \notin RefParams => store'[c] = store[c]
  BY <1>3 DEF NameOK
<1>7. u \in RefParams => Target(c)' = Target(c)
  <2>1. u \in RefParams => c[1] \in 1 .. Depth - 1
    BY <1>3 DEF NameOK
  <2> QED BY <2>1, <1>2 DEF Target
<1>8. CellOK(k, u, c) /\ Adr(k) = address /\ fds[k] = fd
  BY <1>1, <1>2, <1>3
<1>9. Base(k)' = Base(k) /\ Adr(k)' = address' /\ Limit(k)' = Len(vars)'
  BY <1>1, <1>2
<1>10. OwnEntry(k, u) => OwnEntry(Depth, u)
  OBVIOUS
<1> QED BY <1>5, <1>6, <1>7, <1>8, <1>9, <1>10, CellStays

\* What push() does to a variable of the current activation.
LEMMA PushedValues ==
    ASSUME StackInv, ~odd, NEW v \in Vars, NEW e \in Entry, FunctionOf[v] = fd, Push(v, e),
           v \in ParamsOf(fd) => Absent(vars, framepointer, Len(vars), v)
    PROVE  /\ \A i \in 1..Len(vars) :
                /\ vars'[i] = vars[i]
                /\ i \in 1..framepointer \/ vars[i] # v => values'[i] = values[i]
           /\ Len(vars) <= Len(vars') /\ Len(vars) \in Nat /\ Len(vars') \in Nat
           /\ framepointer \in Nat /\ framepointer <= Len(vars)
           /\ \A i \in Len(vars) + 1 .. Len(vars') : vars'[i] = v
           /\ \A u \in Vars \ {v} : Pushed(v)[u] = address[u]
           /\ framepointer < Pushed(v)[v] /\ Pushed(v)[v] <= Len(vars')
           /\ vars'[Pushed(v)[v]] = v /\ values'[Pushed(v)[v]] = e
<1>1. /\ TypeOK /\ FramesOK /\ v \in Trusted
      /\ values \in Seq(Entry) /\ Len(values) = Len(vars) /\ address \in [Vars -> Nat]
      /\ address[v] \in Nat
  BY DEF StackInv, TypeOK, Trusted
<1>2. /\ \A i \in 1..Len(vars) : vars'[i] = vars[i]
      /\ Len(vars) <= Len(vars') /\ Len(vars) \in Nat /\ Len(vars') \in Nat
      /\ \A i \in Len(vars) + 1 .. Len(vars') : vars'[i] = v
      /\ \A u \in Vars \ {v} : Pushed(v)[u] = address[u]
      /\ framepointer < Pushed(v)[v] /\ Pushed(v)[v] <= Len(vars')
      /\ vars'[Pushed(v)[v]] = v
  BY <1>1, PushFrame
<1>3. framepointer \in Nat /\ framepointer <= Len(vars)
  BY <1>1, BelowTop
<1>4. /\ \A i \in 1..Len(vars) : i \in 1..framepointer \/ vars[i] # v => values'[i] = values[i]
      /\ values'[Pushed(v)[v]] = e
  <2>1. CASE InFrame(v)
    <3>1. values' = [values EXCEPT ![address[v]] = e] /\ Pushed(v) = address /\ vars' = vars
          /\ address[v] > framepointer
      BY <2>1 DEF Push, Pushed, InFrame
    <3>2. \A i \in 1..Len(vars) : values'[i] = IF i = address[v] THEN e ELSE values[i]
      BY <1>1, <3>1, SeqExcept
    <3>3. address[v] \in 1..Len(vars) /\ address[v] \notin 1..framepointer /\ vars[address[v]] = v
      BY <1>1, <1>2, <1>3, <3>1
    <3> QED BY <3>1, <3>2, <3>3
  <2>2. CASE ~InFrame(v)
    <3>1. values' = Append(values, e) /\ Pushed(v) = [address EXCEPT ![v] = Len(vars) + 1]
      BY <2>2 DEF Push, Pushed
    <3>2. Pushed(v)[v] = Len(vars) + 1
      BY <1>1, <3>1
    <3> QED BY <1>1, <3>1, <3>2, Appended
  <2> QED BY <2>1, <2>2
<1> QED BY <1>2, <1>3, <1>4

\* No parameter is being passed.
LEMMA NonePending ==
    ASSUME todo = <<>>
    PROVE  ArgsOK /\ \A k : Pending(k) = {}
<1>1. \A j \in DOMAIN todo : FALSE
  OBVIOUS
<1> QED BY <1>1 DEF ArgsOK, Pending

\* A variable that is declared, or a statement that is entered, has a cell and an entry
\* of its own.
LEMMA DeclaredValues ==
    ASSUME StackInv, StackInv', ~odd, ValueOK, todo = <<>>, UNCHANGED <<frame, call, fds, before>>,
           NEW v \in Vars, FunctionOf[v] = fd, v \notin ParamsOf(fd), NEW e \in Data \cup {Nil},
           Push(v, e), address' = Pushed(v), NewCell(v, e)
    PROVE  ValueOK'
<1>1. /\ TypeOK /\ FramesOK /\ Depth \in Nat /\ Depth \in 1..Depth /\ fd = fds[Depth]
      /\ e \in Entry /\ v \notin RefParams /\ NamesOK /\ CellsOK
  BY DepthType, Parameters DEF StackInv, fd, Entry, ValueOK
<1>2. /\ todo' = <<>> /\ ~failed'
  BY DEF call, ValueOK
<1>3. ArgsOK' /\ \A k : Pending(k)' = {}
  <2>1. \A j \in DOMAIN todo' : FALSE
    BY <1>2
  <2> QED BY <2>1 DEF ArgsOK, Pending
<1>4. /\ \A i \in 1..Len(vars) :
            /\ vars'[i] = vars[i]
            /\ i \in 1..framepointer \/ vars[i] # v => values'[i] = values[i]
      /\ Len(vars) <= Len(vars') /\ Len(vars) \in Nat /\ Len(vars') \in Nat
      /\ framepointer \in Nat /\ framepointer <= Len(vars)
      /\ \A u \in Vars \ {v} : address'[u] = address[u]
      /\ framepointer < address'[v] /\ address'[v] <= Len(vars')
      /\ vars'[address'[v]] = v /\ values'[address'[v]] = e
  BY <1>1, PushedValues
<1>5. /\ Depth' = Depth /\ \A k \in 1..Depth : Base(k)' = Base(k)
      /\ Limit(Depth)' = Len(vars)' /\ Adr(Depth)' = address' /\ Base(Depth) = framepointer
  BY <1>1, SameDepth
<1>6. /\ \A k \in 1 .. Depth - 1 : cells'[k] = cells[k]
      /\ cells'[Depth][v] = <<Depth, v>>
      /\ \A u \in Vars \ {v} : cells'[Depth][u] = cells[Depth][u]
      /\ store'[<<Depth, v>>] = e
      /\ \A c \in Cells \ {<<Depth, v>>} : store'[c] = store[c]
  BY <1>1, NewCellTypes
<1>7. \A c \in Cells : c[1] < Depth => store'[c] = store[c]
  <2> SUFFICES ASSUME NEW c \in Cells, c[1] < Depth PROVE store'[c] = store[c]
    OBVIOUS
  <2>1. c # <<Depth, v>>
    BY <1>1
  <2> QED BY <2>1, <1>6
<1>8. \A i \in 1..framepointer : vars'[i] = vars[i] /\ values'[i] = values[i]
  BY <1>4
<1>9. ASSUME NEW k, k = Depth, NEW c \in Cells, c = <<Depth, v>>
      PROVE  CellOK(k, v, c)'
  <2>1. Base(k)' = framepointer /\ Limit(k)' = Len(vars)' /\ Adr(k)' = address'
    BY <1>1, <1>5, <1>9
  <2>2. store'[c] = e
    BY <1>6, <1>9
  <2>3. OwnEntry(k, v)'
    BY <2>1, <1>4 DEF OwnEntry
  <2> QED BY <2>1, <2>2, <2>3, <1>1, <1>4 DEF CellOK
<1>10. ASSUME NEW u \in Vars, NEW c \in Cells, cells'[Depth][u] = c, c # Nil
       PROVE  /\ cells[Depth][u] = c \/ (u \notin RefParams /\ FunctionOf[u] = fd /\ c = <<Depth, u>>)
              /\ \A k : k = Depth => CellOK(k, u, c)'
  <2>1. CASE u = v
    BY <2>1, <1>1, <1>6, <1>9, <1>10
  <2>2. CASE u # v
    <3>1. cells[Depth][u] = c
      BY <2>2, <1>6, <1>10
    <3>2. c = <<Depth, u>> => store'[c] = store[c]
      <4>1. c = <<Depth, u>> => c # <<Depth, v>>
        BY <2>2
      <4> QED BY <4>1, <1>6, Zenon
    <3>3. u \notin Pending(Depth)
      BY NonePending
    <3>4. \A w \in Vars : FunctionOf[w] # fd => address'[w] = address[w]
      <4>1. \A w \in Vars : FunctionOf[w] # fd => w \in Vars \ {v}
        OBVIOUS
      <4> QED BY <4>1, <1>4
    <3>5. address'[u] = address[u]
      BY <1>4, <2>2
    <3>6. UNCHANGED <<frame, fds, before>>
      OBVIOUS
    <3>7. \A i \in 1..Len(vars) : vars'[i] = vars[i]
                                   /\ (i \notin 1..framepointer /\ vars[i] # v => values'[i] = values[i])
      BY <1>4
    <3>8. \A k : k = Depth => CellOK(k, u, c)'
      BY <1>1, <1>4, <1>10, <2>2, <3>1, <3>2, <3>3, <3>4, <3>5, <3>6, <3>7, OtherCell
    <3> QED BY <3>1, <3>8
  <2> QED BY <2>1, <2>2
<1>11. NamesOK' /\ CellsOK'
  BY <1>1, <1>6, <1>7, <1>8, <1>10, TopCells
<1> QED BY <1>2, <1>3, <1>11 DEF ValueOK

LEMMA DeclareValues ==
    ASSUME StackInv, StackInv', ~odd, ValueOK, NEW v \in Locals(fd), Declare(v)
    PROVE  ValueOK'
<1>1. /\ todo = <<>> /\ UNCHANGED <<frame, call, fds, before>>
      /\ v \in Vars /\ FunctionOf[v] = fd /\ v \notin ParamsOf(fd) /\ Nil \in Data \cup {Nil}
      /\ Push(v, Nil) /\ address' = Pushed(v) /\ NewCell(v, Nil)
  BY DEF Declare, Ready, Locals, Owned
<1> QED BY <1>1, DeclaredValues

LEMMA ScopeBeginValues ==
    ASSUME StackInv, StackInv', ~odd, ValueOK, NEW v \in Owned(fd) \cap Scoped, NEW e \in Data,
           ScopeBegin(v, e)
    PROVE  ValueOK'
<1>1. /\ todo = <<>> /\ UNCHANGED <<frame, call, fds, before>>
      /\ v \in Vars /\ FunctionOf[v] = fd /\ v \in Scoped /\ e \in Data \cup {Nil}
      /\ Push(v, e) /\ address' = Pushed(v) /\ NewCell(v, e)
  BY DEF ScopeBegin, Ready, Owned
<1>2. v \notin ParamsOf(fd)
  BY <1>1, Parameters, DepthType DEF StackInv
<1> QED BY <1>1, <1>2, DeclaredValues

\* The entries of two cells are different.
LEMMA Distinct ==
    ASSUME StackInv, ~odd, NEW j \in 1..Depth, NEW k \in 1..Depth, NEW u \in Vars, NEW v \in Vars,
           OwnEntry(j, u), OwnEntry(k, v), Adr(j)[u] = Adr(k)[v]
    PROVE  u = v /\ j = k
<1>1. TypeOK /\ FramesOK /\ Depth \in Nat
  BY DepthType DEF StackInv
<1>2. u = v
  BY DEF OwnEntry
<1>3. ASSUME NEW a \in 1..Depth, NEW b \in 1..Depth, a < b, OwnEntry(a, u), OwnEntry(b, v),
             Adr(a)[u] = Adr(b)[v]
      PROVE  FALSE
  <2>1. a \in 1 .. Depth - 1 /\ a + 1 \in 1..Depth /\ a + 1 <= b
    BY <1>1, <1>3
  <2>2. Limit(a) = Base(a + 1) /\ Base(a + 1) <= Base(b)
    BY <1>1, <2>1, BelowTop DEF FramesOK
  <2>3. Base(b) \in Nat /\ Limit(a) \in Nat /\ Adr(b)[v] \in Nat
    BY <1>1, <2>1, BelowTop, AdrType
  <2> QED BY <1>3, <2>2, <2>3 DEF OwnEntry
<1>4. ~(j < k) /\ ~(k < j)
  BY <1>2, <1>3
<1> QED BY <1>1, <1>2, <1>4

LEMMA AssignValues ==
    ASSUME StackInv, StackInv', ~odd, ValueOK, NEW v \in Owned(fd) \ Scoped, NEW e \in Data, Assign(v, e)
    PROVE  ValueOK'
<1>1. /\ TypeOK /\ FramesOK /\ Depth \in Nat /\ Depth \in 1..Depth /\ NamesOK /\ CellsOK
      /\ todo = <<>> /\ v \in Vars /\ cells[Depth][v] # Nil
      /\ values' = [values EXCEPT ![address[Lvalue(v)]] = e]
      /\ store' = [store EXCEPT ![cells[Depth][v]] = e]
      /\ UNCHANGED <<vars, savedId, address, frames, framepointer, todo, pushed, failed, odd, fds,
                     opened, cells, before>>
  BY DepthType DEF StackInv, ValueOK, Assign, Ready, Declared, Owned, SetValue, frame, call
<1>2. ~failed' /\ todo' = <<>>
  BY <1>1 DEF ValueOK
<1>3. ArgsOK' /\ \A k : Pending(k)' = {}
  <2>1. \A j \in DOMAIN todo' : FALSE
    BY <1>2
  <2> QED BY <2>1 DEF ArgsOK, Pending
<1>4. \A k : Pending(k) = {}
  BY <1>1, NonePending
<1>5. /\ Depth' = Depth /\ \A k : Base(k)' = Base(k) /\ Adr(k)' = Adr(k)
  BY <1>1 DEF Depth, Base, Adr
<1>6. \A k : Limit(k)' = Limit(k)
  BY <1>1, <1>5 DEF Limit
<1>7. PICK t \in Cells : t = cells[Depth][v] /\ t # Nil
  BY <1>1, AdrType
<1>8. /\ values' = [values EXCEPT ![Target(t)] = e] /\ store' = [store EXCEPT ![t] = e]
  <2>1. address[Lvalue(v)] = Target(t)
    BY <1>1, <1>4, <1>7, LvalueOf
  <2> QED BY <1>1, <1>7, <2>1
<1>9. /\ t[1] \in 1..Depth /\ t[2] \in Vars \ RefParams /\ OwnEntry(t[1], t[2])
  BY <1>1, <1>4, <1>7, TargetFacts
<1>10. store'[t] = e /\ \A c \in Cells \ {t} : store'[c] = store[c]
  BY <1>1, <1>8, FcnExcept DEF TypeOK
<1>11. \A i \in 1..Len(vars) : values'[i] = IF i = Target(t) THEN e ELSE values[i]
  <2>1. values \in Seq(Entry) /\ Len(values) = Len(vars) /\ e \in Entry
    BY <1>1 DEF TypeOK, Entry
  <2> DEFINE a == Target(t)
  <2>2. values' = [values EXCEPT ![a] = e]
    BY <1>8
  <2> HIDE DEF a
  <2>3. \A i \in 1..Len(values) : values'[i] = IF i = a THEN e ELSE values[i]
    BY <2>1, <2>2, SeqExcept
  <2> QED BY <2>1, <2>3 DEF a
<1>12. ASSUME NEW k \in 1..Depth, NEW u \in Vars, OwnEntry(k, u)
       PROVE  Adr(k)[u] \in 1..Len(vars)
  <2>1. Adr(k)[u] \in Nat /\ Base(k) \in Nat /\ Limit(k) \in Nat /\ framepointer \in Nat
        /\ Len(vars) \in Nat /\ framepointer <= Len(vars)
    BY <1>1, AdrType, BelowTop
  <2>2. Limit(k) <= Len(vars)
    <3>1. CASE k = Depth
      BY <3>1, <2>1 DEF Limit
    <3>2. CASE k # Depth
      <4>1. k \in 1 .. Depth - 1
        BY <3>2, <1>1
      <4>2. Limit(k) <= framepointer
        BY <4>1, <1>1, BelowTop
      <4> QED BY <4>2, <2>1
    <3> QED BY <3>1, <3>2
  <2> QED BY <2>1, <2>2, <1>12 DEF OwnEntry
<1>13. ASSUME NEW k \in 1..Depth, NEW u \in Vars, NEW c \in Cells, cells[k][u] = c, c # Nil
       PROVE  CellOK(k, u, c)'
  <2>1. CellOK(k, u, c) /\ NameOK(k, u, c)
    BY <1>1, <1>4, <1>13 DEF CellsOK, NamesOK
  <2>2. OwnEntry(k, u)' <=> OwnEntry(k, u)
    BY <1>1, <1>5, <1>6 DEF OwnEntry
  <2>3. Target(c)' = Target(c)
    BY <1>5 DEF Target
  <2>4. CASE u \notin RefParams
    <3>1. c = <<k, u>> /\ OwnEntry(k, u) /\ values[Adr(k)[u]] = store[c]
      BY <2>1, <2>4 DEF NameOK, CellOK
    <3>2. Adr(k)[u] \in 1..Len(vars)
      BY <1>12, <3>1
    <3>3. values'[Adr(k)[u]] = store'[c]
      <4>1. CASE c = t
        <5>1. c[1] = k /\ c[2] = u
          BY <3>1
        <5>2. Target(t) = Adr(k)[u]
          BY <4>1, <5>1 DEF Target
        <5> QED BY <4>1, <5>2, <3>2, <1>10, <1>11
      <4>2. CASE c # t
        <5>1. Adr(k)[u] # Target(t)
          <6>1. SUFFICES ASSUME Adr(k)[u] = Adr(t[1])[t[2]] PROVE FALSE
            BY DEF Target
          <6>2. t[1] = k /\ t[2] = u
            BY <6>1, <3>1, <1>9, Distinct
          <6>3. t = <<t[1], t[2]>>
            BY CellParts
          <6> QED BY <6>2, <6>3, <3>1, <4>2
        <5> QED BY <5>1, <4>2, <3>1, <3>2, <1>10, <1>11
      <4> QED BY <4>1, <4>2
    <3>4. Adr(k)'[u] = Adr(k)[u]
      BY <1>5
    <3> QED BY <2>2, <2>4, <3>1, <3>3, <3>4 DEF CellOK
  <2>5. CASE u \in RefParams
    <3>1. OwnEntry(k, u) => values'[Adr(k)[u]] = values[Adr(k)[u]]
      <4> SUFFICES ASSUME OwnEntry(k, u) PROVE values'[Adr(k)[u]] = values[Adr(k)[u]]
        OBVIOUS
      <4>1. Adr(k)[u] \in 1..Len(vars) /\ vars[Adr(k)[u]] = u
        BY <1>12 DEF OwnEntry
      <4>2. vars[Target(t)] = t[2]
        BY <1>9 DEF OwnEntry, Target
      <4>3. Adr(k)[u] # Target(t)
        BY <4>1, <4>2, <1>9, <2>5
      <4> QED BY <4>1, <4>3, <1>11
    <3>2. /\ Base(k)' = Base(k) /\ fds'[k] = fds[k] /\ Adr(k)' = Adr(k) /\ vars' = vars
          /\ Limit(k)' = Limit(k)
      BY <1>1, <1>5, <1>6
    <3>3. OwnEntry(k, u) => Adr(k)[u] <= Limit(k)'
      BY <3>2 DEF OwnEntry
    <3> QED BY <2>1, <2>3, <2>5, <3>1, <3>2, <3>3, CellStays
  <2> QED BY <2>4, <2>5
<1>14. NamesOK'
  <2>1. \A k, u, c : NameOK(k, u, c)' <=> NameOK(k, u, c)
    BY <1>1 DEF NameOK
  <2> QED BY <1>1, <1>5, <2>1 DEF NamesOK
<1>15. CellsOK'
  BY <1>1, <1>5, <1>13 DEF CellsOK
<1> QED BY <1>2, <1>3, <1>14, <1>15 DEF ValueOK

LEMMA ScopeEndValues ==
    ASSUME StackInv, StackInv', ~odd, ValueOK, ScopeEnd
    PROVE  ValueOK'
<1> DEFINE v == opened[Depth][Len(opened[Depth])]
<1>1. /\ TypeOK /\ FramesOK /\ Depth \in Nat /\ Depth \in 1..Depth /\ fd = fds[Depth]
      /\ NamesOK /\ CellsOK /\ todo = <<>> /\ opened[Depth] # <<>>
      /\ cells' = [cells EXCEPT ![Depth] = [cells[Depth] EXCEPT ![v] = Nil]]
      /\ store' = [store EXCEPT ![<<Depth, v>>] = Nil]
      /\ UNCHANGED <<frame, call, fds, before>>
  BY DepthType DEF StackInv, ValueOK, ScopeEnd, Ready, fd
<1>2. /\ UNCHANGED <<values, vars, savedId>> /\ v \in Scoped
      /\ address' = [address EXCEPT ![v] = before[Depth][v]]
  BY ScopeEndStack
<1>3. FunctionOf[v] = fd
  <2>1. opened[Depth] \in Seq(Vars)
    BY <1>1, CellTypes
  <2>2. Len(opened[Depth]) \in DOMAIN opened[Depth]
    BY <2>1, <1>1
  <2> QED BY <2>2, <1>1, TopFrame DEF FrameOK
<1>4. v \in Vars /\ address \in [Vars -> Nat]
  BY <1>1, <1>2, ProgramAssumption DEF TypeOK
<1> HIDE DEF v
<1>5. ~failed' /\ ArgsOK' /\ \A k : Pending(k)' = {} /\ Pending(k) = {}
  <2>1. todo' = <<>> /\ ~failed'
    BY <1>1 DEF call, ValueOK
  <2>2. \A j \in DOMAIN todo' : FALSE
    BY <2>1
  <2> QED BY <1>1, <2>1, <2>2, NonePending DEF ArgsOK, Pending
<1>6. /\ \A k \in 1 .. Depth - 1 : cells'[k] = cells[k]
      /\ cells'[Depth][v] = Nil
      /\ \A u \in Vars \ {v} : cells'[Depth][u] = cells[Depth][u]
  <2> DEFINE S == [Vars -> Cells \cup {Nil}]
             top == [cells[Depth] EXCEPT ![v] = Nil]
  <2>1. cells \in Seq(S) /\ Len(cells) = Depth /\ top \in S
        /\ top[v] = Nil /\ \A u \in Vars \ {v} : top[u] = cells[Depth][u]
    BY <1>1, <1>4, CellTypes
  <2>2. cells' = [cells EXCEPT ![Depth] = top]
    BY <1>1
  <2> HIDE DEF S, top
  <2>3. \A k \in 1..Depth : cells'[k] = IF k = Depth THEN top ELSE cells[k]
    BY <2>1, <2>2, SeqExcept
  <2>4. \A k \in 1 .. Depth - 1 : k \in 1..Depth /\ k # Depth
    BY <1>1
  <2> QED BY <1>1, <2>1, <2>3, <2>4
<1>7. \A c \in Cells \ {<<Depth, v>>} : store'[c] = store[c]
  <2>1. PICK t \in Cells : t = <<Depth, v>>
    BY <1>1, <1>4, CellTypes
  <2>2. store' = [store EXCEPT ![t] = Nil] /\ store \in [Cells -> Data \cup {Nil}]
    BY <2>1, <1>1, CellTypes
  <2>3. \A c \in Cells \ {t} : store'[c] = store[c]
    BY <2>2
  <2> QED BY <2>1, <2>3, Zenon
<1>8. \A c \in Cells : c[1] < Depth => store'[c] = store[c]
  <2> SUFFICES ASSUME NEW c \in Cells, c[1] < Depth PROVE store'[c] = store[c]
    OBVIOUS
  <2>1. c # <<Depth, v>>
    BY <1>1
  <2> QED BY <2>1, <1>7
<1>9. Len(vars) \in Nat /\ framepointer \in Nat /\ framepointer <= Len(vars)
  BY <1>1, BelowTop
<1>10. \A u \in Vars \ {v} : address'[u] = address[u]
  BY <1>2, <1>4
<1>11. ASSUME NEW u \in Vars, NEW c \in Cells, cells'[Depth][u] = c, c # Nil
       PROVE  cells[Depth][u] = c /\ \A k : k = Depth => CellOK(k, u, c)'
  <2>1. u # v /\ cells[Depth][u] = c
    BY <1>6, <1>11
  <2>2. c = <<Depth, u>> => store'[c] = store[c]
    <3>1. c = <<Depth, u>> => c # <<Depth, v>>
      BY <2>1
    <3> QED BY <3>1, <1>7, Zenon
  <2>3. \A w \in Vars : FunctionOf[w] # fd => address'[w] = address[w]
    <3>1. \A w \in Vars : FunctionOf[w] # fd => w \in Vars \ {v}
      BY <1>3
    <3> QED BY <3>1, <1>10
  <2>4. u \notin Pending(Depth) /\ address'[u] = address[u]
    BY <1>5, <1>10, <2>1
  <2>5. \A i \in 1..Len(vars) : vars'[i] = vars[i]
                                /\ (i \notin 1..framepointer /\ vars[i] # v => values'[i] = values[i])
    BY <1>2
  <2>6. Len(vars) <= Len(vars') /\ Len(vars') \in Nat
    BY <1>2, <1>9
  <2>7. \A k : k = Depth => CellOK(k, u, c)'
    BY <1>1, <1>3, <1>4, <1>9, <1>11, <2>1, <2>2, <2>3, <2>4, <2>5, <2>6, OtherCell
  <2> QED BY <2>1, <2>7
<1>12. \A i \in 1..framepointer : vars'[i] = vars[i] /\ values'[i] = values[i]
  BY <1>2
<1>13. NamesOK' /\ CellsOK'
  BY <1>1, <1>6, <1>8, <1>11, <1>12, TopCells
<1> QED BY <1>5, <1>13 DEF ValueOK

\* Nothing is forgotten of what is yet to be passed while the frame gets entries of v only.
LEMMA ArgStays ==
    ASSUME StackInv, ~odd, NamesOK, UNCHANGED <<frame, fds, cells, store, before>>,
           NEW u \in Vars, NEW e \in Data \cup Vars, ArgOK(u, e), e \in Vars <=> u \in RefParams,
           e \in Vars /\ FunctionOf[e] = fd => Absent(vars', framepointer, Len(vars'), e)
    PROVE  ArgOK(u, e)'
<1>1. /\ TypeOK /\ FramesOK /\ Depth \in Nat /\ Depth \in 1..Depth
  BY DepthType DEF StackInv
<1>2. /\ Depth' = Depth /\ fd' = fd /\ \A k \in 1 .. Depth - 1 : Adr(k)' = Adr(k)
  BY <1>1, SameDepth
<1>3. e \notin Vars => store'[<<Depth', u>>] = e
  BY <1>2 DEF ArgOK
<1>4. ASSUME e \in Vars
      PROVE  \E c \in Cells : /\ cells'[Depth'][u] = c /\ c # Nil /\ store'[c] # Nil
                              /\ before'[Depth'][e] = Target(c)'
  <2>1. PICK c \in Cells : /\ cells[Depth][u] = c /\ c # Nil /\ store[c] # Nil
                           /\ before[Depth][e] = Target(c)
    BY <1>4 DEF ArgOK
  <2>2. c[1] \in 1 .. Depth - 1
    BY <1>1, <1>4, <2>1 DEF NamesOK, NameOK
  <2>3. Target(c)' = Target(c)
    BY <1>2, <2>2 DEF Target
  <2> QED BY <1>2, <2>1, <2>3
<1>5. e \in Vars /\ FunctionOf[e] = fd' => Absent(vars', framepointer', Len(vars'), e)
  BY <1>2 DEF frame
<1> QED BY <1>3, <1>4, <1>5 DEF ArgOK

\* The first parameter has been passed, and the others are still to be passed.
LEMMA RestPending ==
    ASSUME StackInv, todo # <<>>, todo' = Tail(todo), UNCHANGED <<fds>>
    PROVE  /\ \A u : u \notin Pending(Depth)' => u = todo[1].v \/ u \notin Pending(Depth)
           /\ \A j \in DOMAIN todo' : j + 1 \in DOMAIN todo /\ j \in Nat /\ todo'[j] = todo[j + 1]
           /\ 1 \in DOMAIN todo
<1>1. /\ DOMAIN todo = 1..Len(todo) /\ Len(todo) \in Nat /\ DOMAIN todo' = 1 .. Len(todo) - 1
      /\ \A j \in DOMAIN todo' : j + 1 \in DOMAIN todo /\ todo'[j] = todo[j + 1]
      /\ 1 \in DOMAIN todo
  <2>1. todo \in Seq([v : Vars, e : Data \cup Vars])
    BY DEF StackInv, TypeOK
  <2>2. DOMAIN todo = 1..Len(todo) /\ Len(todo) \in Nat
    BY <2>1
  <2> QED BY <2>1, <2>2, SeqTail
<1>2. Depth' = Depth
  BY DEF Depth
<1>3. ASSUME NEW j \in DOMAIN todo, j # 1
      PROVE  \E i \in DOMAIN todo' : todo'[i] = todo[j]
  <2>1. j - 1 \in DOMAIN todo' /\ j - 1 + 1 = j
    BY <1>1, <1>3
  <2>2. todo'[j - 1] = todo[j - 1 + 1]
    BY <1>1, <2>1
  <2> QED BY <2>1, <2>2
<1>4. ASSUME NEW u, u \notin Pending(Depth)', u # todo[1].v
      PROVE  u \notin Pending(Depth)
  <2> SUFFICES ASSUME NEW j \in DOMAIN todo, u = todo[j].v PROVE FALSE
    BY DEF Pending
  <2>1. PICK i \in DOMAIN todo' : todo'[i] = todo[j]
    BY <1>3, <1>4
  <2>2. u \in {todo'[i2].v : i2 \in DOMAIN todo'}
    BY <2>1
  <2> QED BY <2>2, <1>2, <1>4 DEF Pending
<1> QED BY <1>1, <1>4

\* The arguments that are left are passed as they were to be.
LEMMA RestArgs ==
    ASSUME StackInv, ~odd, NamesOK, ArgsOK, todo # <<>>, todo' = Tail(todo),
           UNCHANGED <<frame, fds, cells, store, before>>,
           \A e \in Vars : FunctionOf[e] = fd /\ (\E j \in DOMAIN todo : j # 1 /\ todo[j].e = e)
                           /\ Absent(vars, framepointer, Len(vars), e)
                => Absent(vars', framepointer, Len(vars'), e)
    PROVE  ArgsOK'
<1>1. /\ \A j \in DOMAIN todo' : j + 1 \in DOMAIN todo /\ j \in Nat /\ todo'[j] = todo[j + 1]
      /\ 1 \in DOMAIN todo
  BY RestPending
<1>2. fd' = fd
  BY DEF fd, Depth
<1>3. ASSUME NEW j \in DOMAIN todo', NEW u \in Vars, NEW e \in Data \cup Vars,
             todo'[j].v = u, todo'[j].e = e
      PROVE  ArgOK(u, e)'
  <2>1. j + 1 \in DOMAIN todo /\ j + 1 # 1 /\ todo[j + 1].v = u /\ todo[j + 1].e = e
    BY <1>1, <1>3
  <2>2. ArgOK(u, e) /\ (e \in Vars <=> u \in RefParams)
    BY <2>1 DEF ArgsOK, StackInv, TodoOK
  <2>3. e \in Vars /\ FunctionOf[e] = fd => Absent(vars', framepointer, Len(vars'), e)
    BY <2>1, <2>2 DEF ArgOK
  <2> QED BY <2>2, <2>3, ArgStays
<1>4. ASSUME NEW i \in DOMAIN todo', NEW j \in DOMAIN todo', todo'[i].e = todo'[j].e,
             todo'[i].e \in Vars, FunctionOf[todo'[i].e] = fd
      PROVE  i = j
  <2>1. i + 1 = j + 1
    BY <1>1, <1>4 DEF ArgsOK
  <2> QED BY <2>1, <1>1
<1> QED BY <1>2, <1>3, <1>4 DEF ArgsOK

LEMMA PushParamValues ==
    ASSUME StackInv, StackInv', ~odd, ValueOK, PushParam
    PROVE  ValueOK'
<1> DEFINE v == todo[1].v
<1>1. /\ TypeOK /\ FramesOK /\ TodoOK /\ todo # <<>> /\ ~pushed /\ Nil \in Entry
      /\ Depth \in Nat /\ Depth \in 1..Depth /\ NamesOK /\ CellsOK /\ ArgsOK
  BY DepthType DEF StackInv, PushParam, Entry, ValueOK
<1>2. /\ v \in Vars /\ v \in ParamsOf(fd) /\ FunctionOf[v] = fd /\ Head(todo) = todo[1]
      /\ 1 \in DOMAIN todo
  BY <1>1, FirstParameter
<1>3. /\ Push(v, Nil) /\ address' = Pushed(v)
      /\ UNCHANGED <<frame, todo, failed, odd, fds, cells, store, before>>
  BY <1>2 DEF PushParam, language
<1>4. v \in Pending(Depth)
  BY <1>2 DEF Pending
<1>5. Absent(vars, framepointer, Len(vars), v)
  BY <1>1, <1>2 DEF TodoOK
<1> HIDE DEF v
<1>6. /\ \A i \in 1..Len(vars) :
            /\ vars'[i] = vars[i]
            /\ i \in 1..framepointer \/ vars[i] # v => values'[i] = values[i]
      /\ Len(vars) <= Len(vars') /\ Len(vars) \in Nat /\ Len(vars') \in Nat
      /\ framepointer \in Nat /\ framepointer <= Len(vars)
      /\ \A i \in Len(vars) + 1 .. Len(vars') : vars'[i] = v
      /\ \A u \in Vars \ {v} : address'[u] = address[u]
  BY <1>1, <1>2, <1>3, <1>5, PushedValues
<1>7. Pending(Depth)' = Pending(Depth)
  BY <1>3 DEF Pending, Depth
<1>8. ASSUME NEW u \in Vars, NEW c \in Cells, cells[Depth][u] = c, c # Nil, u \notin Pending(Depth)',
             NEW k, k = Depth
      PROVE  CellOK(k, u, c)'
  <2>1. u # v /\ u \notin Pending(Depth)
    BY <1>4, <1>7, <1>8
  <2>2. \A w \in Vars : FunctionOf[w] # fd => address'[w] = address[w]
    <3>1. \A w \in Vars : FunctionOf[w] # fd => w \in Vars \ {v}
      BY <1>2
    <3> QED BY <3>1, <1>6
  <2>3. \A i \in 1..Len(vars) : vars'[i] = vars[i]
                                /\ (i \notin 1..framepointer /\ vars[i] # v => values'[i] = values[i])
    BY <1>6
  <2>4. c = <<Depth, u>> => store'[c] = store[c]
    BY <1>3
  <2>5. UNCHANGED <<frame, fds, before>> /\ address'[u] = address[u]
    BY <1>3, <1>6, <2>1
  <2> QED BY <1>1, <1>2, <1>6, <1>8, <2>1, <2>2, <2>3, <2>4, <2>5, OtherCell
<1>9. NamesOK' /\ CellsOK'
  <2>1. \A i \in 1..framepointer : vars'[i] = vars[i] /\ values'[i] = values[i]
    BY <1>6
  <2>2. UNCHANGED <<frame, fds, before>> /\ cells' = cells /\ store' = store
    BY <1>3
  <2> QED BY <1>1, <1>8, <2>1, <2>2, TopCells
<1>10. ArgsOK'
  <2>1. fd' = fd
    BY <1>3 DEF fd, Depth
  <2>2. ASSUME NEW j \in DOMAIN todo, NEW u \in Vars, NEW e \in Data \cup Vars,
               todo[j].v = u, todo[j].e = e
        PROVE  ArgOK(u, e)'
    <3>1. ArgOK(u, e) /\ (e \in Vars <=> u \in RefParams)
      BY <1>1, <2>2 DEF ArgsOK, TodoOK
    <3>2. e \in Vars /\ FunctionOf[e] = fd => Absent(vars', framepointer, Len(vars'), e)
      <4> SUFFICES ASSUME e \in Vars, FunctionOf[e] = fd
                   PROVE  Absent(vars', framepointer, Len(vars'), e)
        OBVIOUS
      <4>1. e # v
        BY <1>1, <1>2, <2>2 DEF TodoOK
      <4>2. Absent(vars, framepointer, Len(vars), e)
        BY <3>1 DEF ArgOK
      <4> QED BY <4>1, <4>2, <1>6, AbsentStays
    <3>3. UNCHANGED <<frame, fds, cells, store, before>>
      BY <1>3
    <3> QED BY <1>1, <3>1, <3>2, <3>3, ArgStays
  <2>3. \A i, j \in DOMAIN todo :
            todo[i].e = todo[j].e /\ todo[i].e \in Vars /\ FunctionOf[todo[i].e] = fd => i = j
    BY <1>1 DEF ArgsOK
  <2>4. todo' = todo
    BY <1>3
  <2> QED BY <2>1, <2>2, <2>3, <2>4 DEF ArgsOK
<1>11. ~failed'
  BY <1>3 DEF ValueOK
<1> QED BY <1>9, <1>10, <1>11 DEF ValueOK

LEMMA SetParamValues ==
    ASSUME StackInv, StackInv', ~odd, ValueOK, SetParam
    PROVE  ValueOK'
<1>0. PICK v \in Vars, e \in Data \cup Vars : v = todo[1].v /\ e = todo[1].e
  BY FirstParameter DEF SetParam
<1>1. /\ TypeOK /\ FramesOK /\ TodoOK /\ todo # <<>> /\ pushed
      /\ Depth \in Nat /\ Depth \in 1..Depth /\ NamesOK /\ CellsOK /\ ArgsOK
  BY DepthType DEF StackInv, SetParam, ValueOK
<1>2. FunctionOf[v] = fd /\ Head(todo) = todo[1] /\ 1 \in DOMAIN todo
  BY <1>0, <1>1, FirstParameter
<1>3. /\ values' = [values EXCEPT ![address[v]] = e] /\ todo' = Tail(todo)
      /\ ~Recursive(v, e)
      /\ UNCHANGED <<vars, savedId, address, frame, failed, odd, fds, cells, store, before>>
  BY <1>0, <1>2 DEF SetParam, SetValue, language
<1>4. /\ framepointer < address[v] /\ address[v] <= Len(vars) /\ vars[address[v]] = v
      /\ ArgOK(v, e) /\ (e \in Vars <=> v \in RefParams)
  BY <1>0, <1>1, <1>2 DEF TodoOK, ArgsOK
<1>5. \A u : u \notin Pending(Depth)' => u = v \/ u \notin Pending(Depth)
  BY <1>0, <1>1, <1>3, RestPending
<1>6. /\ address \in [Vars -> Nat] /\ framepointer \in Nat /\ Len(vars) \in Nat
      /\ address[v] \in 1..Len(vars) /\ address[v] \notin 1..framepointer
      /\ framepointer <= Len(vars)
  <2>1. address \in [Vars -> Nat] /\ framepointer \in Nat /\ Len(vars) \in Nat /\ framepointer <= Len(vars)
    BY <1>1, BelowTop DEF TypeOK
  <2>2. address[v] \in Nat
    BY <1>2, <2>1
  <2> QED BY <1>4, <2>1, <2>2
<1>7. \A i \in 1..Len(vars) : values'[i] = IF i = address[v] THEN e ELSE values[i]
  <2>1. values \in Seq(Entry) /\ Len(values) = Len(vars) /\ e \in Entry
    BY <1>1, <1>2 DEF TypeOK, Entry
  <2> QED BY <2>1, <1>3, SeqExcept
<1>8. \A i \in 1..Len(vars) : vars'[i] = vars[i]
                              /\ (i \notin 1..framepointer /\ vars[i] # v => values'[i] = values[i])
  BY <1>3, <1>4, <1>7
<1>9. \A i \in 1..framepointer : vars'[i] = vars[i] /\ values'[i] = values[i]
  BY <1>3, <1>6, <1>7
<1>10. UNCHANGED <<frame, fds, before>> /\ cells' = cells /\ store' = store
  BY <1>3
<1>11. /\ Depth' = Depth /\ fd' = fd /\ \A k \in 1..Depth : Base(k)' = Base(k)
       /\ \A k \in 1 .. Depth - 1 : Adr(k)' = Adr(k)
       /\ Limit(Depth)' = Len(vars)' /\ Adr(Depth)' = address' /\ Base(Depth) = framepointer
  BY <1>1, <1>10, SameDepth
<1>12. ASSUME NEW c \in Cells, cells[Depth][v] = c, c # Nil, NEW k, k = Depth
       PROVE  CellOK(k, v, c)'
  <2>1. /\ Base(k)' = framepointer /\ Limit(k)' = Len(vars) /\ Adr(k)' = address
        /\ fds'[k] = fd
    BY <1>1, <1>3, <1>11, <1>12 DEF fd
  <2>2. OwnEntry(k, v)'
    BY <2>1, <1>3, <1>4 DEF OwnEntry
  <2>3. NameOK(Depth, v, c)
    BY <1>1, <1>2, <1>12 DEF NamesOK
  <2>4. CASE v \notin RefParams
    <3>1. store'[c] = e
      BY <2>3, <2>4, <1>3, <1>4 DEF NameOK, ArgOK
    <3>2. values'[address[v]] = e
      BY <1>6, <1>7
    <3> QED BY <2>1, <2>2, <2>4, <3>1, <3>2 DEF CellOK
  <2>5. CASE v \in RefParams
    <3>1. e \in Vars /\ FunctionOf[e] # fd
      BY <2>5, <1>3, <1>4 DEF Recursive
    <3>2. before[Depth][e] = Target(c)
      BY <3>1, <1>4, <1>12 DEF ArgOK
    <3>3. address[e] = before[Depth][e]
      <4>1. FrameOK(vars, savedId, Trusted, framepointer, Len(vars), address, before[Depth], fd,
                    opened[Depth])
        BY <1>1, TopFrame
      <4>2. Absent(vars, framepointer, Len(vars), e)
        BY <4>1, <3>1 DEF FrameOK, Absent
      <4>3. e \in Trusted
        BY <3>1 DEF Trusted
      <4> QED BY <4>1, <4>2, <4>3 DEF FrameOK
    <3>4. Target(c)' = Target(c)
      <4>1. c[1] \in 1 .. Depth - 1
        BY <2>3, <2>5 DEF NameOK
      <4> QED BY <4>1, <1>11 DEF Target
    <3>5. values'[address[v]] = e
      BY <1>6, <1>7
    <3>6. /\ values'[Adr(k)'[v]] = e /\ FunctionOf[e] # fds'[k] /\ Adr(k)'[e] = Target(c)'
      BY <2>1, <3>1, <3>2, <3>3, <3>4, <3>5
    <3> QED BY <2>2, <2>5, <3>1, <3>6 DEF CellOK
  <2> QED BY <2>4, <2>5
<1>13. ASSUME NEW u \in Vars, NEW c \in Cells, cells[Depth][u] = c, c # Nil, u \notin Pending(Depth)',
              NEW k, k = Depth
       PROVE  CellOK(k, u, c)'
  <2>1. CASE u = v
    BY <2>1, <1>12, <1>13
  <2>2. CASE u # v
    <3>1. u \notin Pending(Depth)
      BY <2>2, <1>5, <1>13
    <3>2. /\ Len(vars) <= Len(vars') /\ Len(vars') \in Nat /\ address' = address
          /\ UNCHANGED <<frame, fds, before>>
      BY <1>3, <1>6
    <3>3. c = <<Depth, u>> => store'[c] = store[c]
      BY <1>3
    <3> QED BY <1>1, <1>2, <1>6, <1>8, <1>13, <2>2, <3>1, <3>2, <3>3, OtherCell
  <2> QED BY <2>1, <2>2
<1>14. NamesOK' /\ CellsOK'
  BY <1>1, <1>9, <1>10, <1>13, TopCells
<1>15. ArgsOK'
  <2>1. UNCHANGED <<frame, fds, cells, store, before>> /\ vars' = vars
    BY <1>3
  <2> QED BY <1>1, <1>3, <2>1, RestArgs
<1>16. ~failed'
  BY <1>3 DEF ValueOK
<1> QED BY <1>14, <1>15, <1>16 DEF ValueOK

\* The parameter takes over the address that the variable had in the activation that the
\* cell was made for, and the variable has a value there.
LEMMA BindParamValues ==
    ASSUME StackInv, StackInv', ~odd, ValueOK, BindParam
    PROVE  ValueOK'
<1>0. PICK v \in Vars, vx \in Data \cup Vars : v = todo[1].v /\ vx = todo[1].e
  BY FirstParameter DEF BindParam
<1>1. /\ TypeOK /\ FramesOK /\ TodoOK /\ todo # <<>> /\ pushed /\ Nil \in Entry
      /\ Depth \in Nat /\ Depth \in 1..Depth /\ NamesOK /\ CellsOK /\ ArgsOK
  BY DepthType DEF StackInv, BindParam, ValueOK, Entry
<1>2. v \in ParamsOf(fd) /\ FunctionOf[v] = fd /\ Head(todo) = todo[1] /\ 1 \in DOMAIN todo
  BY <1>0, <1>1, FirstParameter
<1>3. /\ Recursive(v, vx) /\ Push(vx, Nil) /\ address' = [Pushed(vx) EXCEPT ![v] = address[vx]]
      /\ failed' = (address[vx] = 0 \/ values'[address[vx]] = Nil)
      /\ todo' = Tail(todo)
      /\ UNCHANGED <<frame, odd, fds, cells, store, before>>
  BY <1>0, <1>2 DEF BindParam, language
<1>4. /\ vx \in Vars /\ FunctionOf[vx] = fd /\ v \in RefParams /\ vx \notin ParamsOf(fd)
      /\ ArgOK(v, vx)
  BY <1>0, <1>1, <1>2, <1>3 DEF Recursive, TodoOK, ArgsOK
<1>5. \A u : u \notin Pending(Depth)' => u = v \/ u \notin Pending(Depth)
  BY <1>0, <1>1, <1>3, RestPending
<1>6. \A j \in DOMAIN todo : j # 1 => todo[j].e # vx
  BY <1>0, <1>1, <1>2, <1>4 DEF ArgsOK
<1>7. v # vx /\ vx \notin RefParams
  BY <1>2, <1>4, Parameters
<1>8. /\ \A i \in 1..Len(vars) :
            /\ vars'[i] = vars[i]
            /\ i \in 1..framepointer \/ vars[i] # vx => values'[i] = values[i]
      /\ Len(vars) <= Len(vars') /\ Len(vars) \in Nat /\ Len(vars') \in Nat
      /\ framepointer \in Nat /\ framepointer <= Len(vars)
      /\ \A i \in Len(vars) + 1 .. Len(vars') : vars'[i] = vx
      /\ \A u \in Vars \ {vx} : Pushed(vx)[u] = address[u]
  BY <1>1, <1>3, <1>4, PushedValues
<1>9. address'[v] = address[vx] /\ \A u \in Vars \ {v, vx} : address'[u] = address[u]
  <2>1. Pushed(vx) \in [Vars -> Nat]
    BY <1>1, <1>3, <1>4, PushTypes
  <2> QED BY <2>1, <1>2, <1>3, <1>8
<1>10. UNCHANGED <<frame, fds, before>> /\ cells' = cells /\ store' = store
  BY <1>3
<1>11. /\ Depth' = Depth /\ fd' = fd /\ \A k \in 1 .. Depth - 1 : Adr(k)' = Adr(k)
       /\ Adr(Depth)' = address' /\ Base(Depth) = framepointer /\ Limit(Depth) = Len(vars)
       /\ Adr(Depth) = address
  BY <1>1, <1>10, SameDepth
<1>12. Absent(vars, framepointer, Len(vars), vx)
  BY <1>4 DEF ArgOK
<1>13. PICK c \in Cells : /\ cells[Depth][v] = c /\ c # Nil /\ store[c] # Nil
                          /\ before[Depth][vx] = Target(c)
  BY <1>4 DEF ArgOK
<1>14. address[vx] = Target(c)
  <2>1. FrameOK(vars, savedId, Trusted, framepointer, Len(vars), address, before[Depth], fd,
                opened[Depth])
    BY <1>1, TopFrame
  <2>2. vx \in Trusted
    BY <1>4 DEF Trusted
  <2> QED BY <2>1, <2>2, <1>12, <1>13 DEF FrameOK
<1>15. /\ c[1] \in 1 .. Depth - 1 /\ c[2] \in Vars /\ OwnEntry(c[1], c[2]) /\ Target(c) # 0
       /\ Target(c) \in Nat /\ values[Target(c)] = store[c]
  <2>1. /\ c[1] \in 1..Depth /\ c[1] < Depth /\ c[2] \in Vars /\ OwnEntry(c[1], c[2])
        /\ Target(c) # 0 /\ Target(c) \in Nat /\ values[Target(c)] = store[c]
    BY <1>1, <1>2, <1>4, <1>13, TargetFacts
  <2> QED BY <1>1, <2>1
<1>16. ~failed'
  <2>1. Target(c) <= Limit(c[1]) /\ Limit(c[1]) <= framepointer /\ Limit(c[1]) \in Nat
    <3>1. c[1] \in 1..Depth
      BY <1>1, <1>15
    <3> QED BY <3>1, <1>1, <1>15, BelowTop DEF OwnEntry, Target
  <2>2. Target(c) \in 1..framepointer /\ Target(c) \in 1..Len(vars)
    BY <2>1, <1>8, <1>15
  <2>3. values'[Target(c)] = store[c]
    BY <2>2, <1>8, <1>15
  <2> QED BY <2>3, <1>3, <1>13, <1>14, <1>15
<1>17. ASSUME NEW u \in Vars, NEW c2 \in Cells, cells[Depth][u] = c2, c2 # Nil,
              u \notin Pending(Depth)', NEW k, k = Depth
       PROVE  CellOK(k, u, c2)'
  <2>1. CASE u = v
    <3>1. c2 = c
      BY <2>1, <1>13, <1>17
    <3>2. Target(c)' = Target(c)
      BY <1>11, <1>15 DEF Target
    <3>3. Adr(k)'[v] = Target(c)'
      BY <3>2, <1>9, <1>11, <1>14, <1>17
    <3> QED BY <2>1, <3>1, <3>3, <1>4 DEF CellOK
  <2>2. CASE u # v
    <3>1. u \notin Pending(Depth)
      BY <2>2, <1>5, <1>17
    <3>2. u # vx
      <4>1. SUFFICES ASSUME u = vx PROVE FALSE
        OBVIOUS
      <4>2. OwnEntry(Depth, vx)
        BY <4>1, <3>1, <1>1, <1>7, <1>17 DEF CellsOK, CellOK
      <4>3. address[vx] \in framepointer + 1 .. Len(vars) /\ vars[address[vx]] = vx
        <5>1. address[vx] \in Nat
          BY <1>14, <1>15
        <5> QED BY <5>1, <4>2, <1>8, <1>11 DEF OwnEntry
      <4> QED BY <4>3, <1>12 DEF Absent
    <3>3. \A w \in Vars : FunctionOf[w] # fd => address'[w] = address[w]
      <4>1. \A w \in Vars : FunctionOf[w] # fd => w \in Vars \ {v, vx}
        BY <1>2, <1>4
      <4> QED BY <4>1, <1>9
    <3>4. \A i \in 1..Len(vars) : vars'[i] = vars[i]
                                  /\ (i \notin 1..framepointer /\ vars[i] # vx => values'[i] = values[i])
      BY <1>8
    <3>5. (c2 = <<Depth, u>> => store'[c2] = store[c2]) /\ UNCHANGED <<frame, fds, before>>
      BY <1>3
    <3>6. address'[u] = address[u]
      BY <1>9, <2>2, <3>2
    <3> QED BY <1>1, <1>4, <1>8, <1>17, <2>2, <3>1, <3>2, <3>3, <3>4, <3>5, <3>6, OtherCell
  <2> QED BY <2>1, <2>2
<1>18. NamesOK' /\ CellsOK'
  <2>1. \A i \in 1..framepointer : vars'[i] = vars[i] /\ values'[i] = values[i]
    BY <1>8
  <2> QED BY <1>1, <1>10, <1>17, <2>1, TopCells
<1>19. ArgsOK'
  <2>1. ASSUME NEW e \in Vars, NEW j \in DOMAIN todo, j # 1, todo[j].e = e,
               Absent(vars, framepointer, Len(vars), e)
        PROVE  Absent(vars', framepointer, Len(vars'), e)
    <3>1. e # vx
      BY <1>6, <2>1
    <3>2. \A u : u # vx /\ Absent(vars, framepointer, Len(vars), u)
                => Absent(vars', framepointer, Len(vars'), u)
      BY <1>8, AbsentStays
    <3> QED BY <3>1, <3>2, <2>1, Zenon
  <2>2. UNCHANGED <<frame, fds, cells, store, before>>
    BY <1>3
  <2> QED BY <1>1, <1>3, <2>1, <2>2, RestArgs
<1> QED BY <1>16, <1>18, <1>19 DEF ValueOK

\* A call that passes no parameter of the called function by reference, and no local of
\* it twice.
LEMMA CallValues ==
    ASSUME StackInv, StackInv', ~odd', ValueOK, NEW f \in Functions, NEW args \in Arguments(f),
           Call(f, args)
    PROVE  ValueOK'
<1>1. /\ TypeOK /\ FramesOK /\ Depth \in Nat /\ Depth \in 1..Depth /\ NamesOK /\ CellsOK
      /\ todo = <<>> /\ ~odd /\ ~OwnParameter(f, args)
      /\ todo' = [j \in DOMAIN args |-> [v |-> Params[f][j], e |-> Earg(args[j])]]
      /\ UNCHANGED <<values, vars, savedId, address, pushed, failed>>
  BY DepthType DEF StackInv, ValueOK, Call, Ready, stack
<1>2. /\ Depth' = Depth + 1 /\ Depth + 1 <= MaxCalls /\ fd' = f /\ fds'[Depth + 1] = f
      /\ \A k \in 1..Depth : fds'[k] = fds[k] /\ cells'[k] = cells[k] /\ before'[k] = before[k]
      /\ before'[Depth + 1] = address
      /\ \A k \in 1 .. Depth - 1 : frames'[k] = frames[k]
      /\ frames'[Depth] = framepointer /\ framepointer' = Len(vars)
      /\ cells'[Depth + 1] = [v \in Vars |->
                IF \E j \in DOMAIN args : Params[f][j] = v
                THEN LET arg == args[CHOOSE j \in DOMAIN args : Params[f][j] = v] IN
                     IF arg \in Vars THEN cells[Depth][arg] ELSE <<Depth + 1, v>>
                ELSE Nil]
  BY CallTypes
<1>3. /\ DOMAIN args = 1..Len(Params[f]) /\ Len(Params[f]) \in Nat
      /\ \A j \in DOMAIN args : /\ Params[f][j] \in Vars /\ Params[f][j] \in ParamsOf(f)
                                /\ args[j] \in Data \cup Passable
                                /\ args[j] \in Vars <=> Params[f][j] \in RefParams
                                /\ args[j] \notin Vars => args[j] \in Data
                                /\ Earg(args[j]) \in Data \cup Vars
                                /\ Earg(args[j]) \in Vars <=> args[j] \in Vars
      /\ \A i, j \in DOMAIN args : Params[f][i] = Params[f][j] => i = j
  BY <1>1, ArgumentTypes
<1>4. \A k \in 1..Depth : /\ k # Depth + 1
                          /\ k # Depth => k \in 1 .. Depth - 1 /\ k + 1 \in 1..Depth /\ k + 1 # Depth + 1
  <2>1. \A n \in Nat : \A k \in 1..n : /\ k # n + 1
                                       /\ k # n => k \in 1 .. n - 1 /\ k + 1 \in 1..n /\ k + 1 # n + 1
    OBVIOUS
  <2>2. Depth \in Nat
    BY <1>1
  <2> QED BY <2>1, <2>2, Zenon
<1>5. \A k \in 1..Depth : Base(k)' = Base(k)
  BY <1>2, <1>4 DEF Base
<1>6. \A k \in 1..Depth : Limit(k)' = Limit(k) /\ Adr(k)' = Adr(k)
  <2> SUFFICES ASSUME NEW k \in 1..Depth PROVE Limit(k)' = Limit(k) /\ Adr(k)' = Adr(k)
    OBVIOUS
  <2>1. CASE k = Depth
    <3>1. Limit(k)' = Len(vars) /\ Adr(k)' = address
      BY <2>1, <1>1, <1>2, <1>4 DEF Limit, Adr, Base
    <3> QED BY <3>1, <2>1 DEF Limit, Adr
  <2>2. CASE k # Depth
    <3>1. k + 1 \in 1..Depth /\ k # Depth' /\ k + 1 # Depth'
      BY <2>2, <1>2, <1>4
    <3>2. Limit(k)' = Base(k + 1)' /\ Limit(k) = Base(k + 1)
      BY <2>2, <3>1 DEF Limit
    <3>3. Base(k + 1)' = Base(k + 1)
      BY <3>1, <1>5
    <3>4. Adr(k)' = Adr(k)
      BY <2>2, <3>1, <1>2 DEF Adr
    <3> QED BY <3>2, <3>3, <3>4
  <2> QED BY <2>1, <2>2
<1>7. \A c \in Cells : c[1] \in 1..Depth => store'[c] = store[c] /\ Target(c)' = Target(c)
  <2> SUFFICES ASSUME NEW c \in Cells, c[1] \in 1..Depth
               PROVE  store'[c] = store[c] /\ Target(c)' = Target(c)
    OBVIOUS
  <2>1. Target(c)' = Target(c)
    BY <1>6 DEF Target
  <2>2. c[1] # Depth + 1
    BY <1>4
  <2>3. store' = [b \in Cells |->
            IF b[1] = Depth + 1 /\ \E j \in DOMAIN args : Params[f][j] = b[2] /\ args[j] \in Data
            THEN args[CHOOSE j \in DOMAIN args : Params[f][j] = b[2]]
            ELSE store[b]]
    BY DEF Call
  <2> QED BY <2>1, <2>2, <2>3
<1>8. ASSUME NEW k \in 1..Depth, NEW v \in Vars, NEW c \in Cells, cells[k][v] = c, c # Nil
      PROVE  NameOK(k, v, c)' /\ CellOK(k, v, c)'
  <2>1. v \notin Pending(k)
    BY <1>1, NonePending
  <2>2. NameOK(k, v, c) /\ CellOK(k, v, c)
    BY <1>1, <1>8, <2>1 DEF NamesOK, CellsOK
  <2>3. c[1] \in 1..Depth
    BY <1>1, <1>8, <2>1, TargetFacts
  <2>4. NameOK(k, v, c)'
    BY <1>2, <2>2, <2>3 DEF NameOK
  <2>5. /\ Base(k)' = Base(k) /\ Limit(k)' = Limit(k) /\ Adr(k)' = Adr(k) /\ fds'[k] = fds[k]
        /\ store'[c] = store[c] /\ Target(c)' = Target(c) /\ vars' = vars /\ values' = values
    BY <1>1, <1>2, <1>5, <1>6, <1>7, <2>3
  <2>6. OwnEntry(k, v) => Adr(k)[v] <= Limit(k)'
    BY <2>5 DEF OwnEntry
  <2>7. CellOK(k, v, c)'
    BY <2>2, <2>5, <2>6, CellStays
  <2> QED BY <2>4, <2>7
<1>9. ASSUME NEW j \in DOMAIN args
      PROVE  /\ args[j] \in Vars => cells'[Depth + 1][Params[f][j]] = cells[Depth][args[j]]
             /\ args[j] \notin Vars => /\ cells'[Depth + 1][Params[f][j]] = <<Depth + 1, Params[f][j]>>
                                       /\ store'[<<Depth + 1, Params[f][j]>>] = args[j]
  <2>1. PICK p \in Vars : p = Params[f][j]
    BY <1>3
  <2>2. (CHOOSE i \in DOMAIN args : Params[f][i] = p) = j
    <3>1. \A i \in DOMAIN args : Params[f][i] = p => i = j
      BY <1>3, <2>1
    <3> QED BY <2>1, <3>1
  <2>3. \E i \in DOMAIN args : Params[f][i] = p
    BY <2>1
  <2>4. cells'[Depth + 1][p] = IF args[j] \in Vars THEN cells[Depth][args[j]] ELSE <<Depth + 1, p>>
    BY <1>2, <2>2, <2>3
  <2>5. ASSUME args[j] \notin Vars
        PROVE  store'[<<Depth + 1, p>>] = args[j]
    <3>1. Depth + 1 \in 1..MaxCalls
      BY <1>1, <1>2, ProgramAssumption
    <3>2. PICK c \in Cells : c = <<Depth + 1, p>>
      BY <3>1 DEF Cells
    <3>3. c[1] = Depth + 1 /\ c[2] = p
      BY <3>2
    <3>4. args[j] \in Data
      BY <1>3, <2>5
    <3>5. \E i \in DOMAIN args : Params[f][i] = c[2] /\ args[i] \in Data
      BY <2>1, <3>3, <3>4
    <3>6. store' = [b \in Cells |->
            IF b[1] = Depth + 1 /\ \E i \in DOMAIN args : Params[f][i] = b[2] /\ args[i] \in Data
            THEN args[CHOOSE i \in DOMAIN args : Params[f][i] = b[2]]
            ELSE store[b]]
      BY DEF Call
    <3>7. store'[c] = args[CHOOSE i \in DOMAIN args : Params[f][i] = c[2]]
      BY <3>3, <3>5, <3>6
    <3>8. store'[c] = args[j]
      BY <3>3, <3>7, <2>2
    <3> QED BY <3>2, <3>8
  <2> QED BY <2>1, <2>4, <2>5
\* The argument is a variable of the caller, which has a cell.
<1>10. ASSUME NEW j \in DOMAIN args, args[j] \in Vars
       PROVE  \E c \in Cells : /\ cells[Depth][args[j]] = c /\ c # Nil /\ store[c] # Nil
                               /\ c[1] \in 1..Depth /\ c[2] \in Vars \ RefParams
                               /\ cells[c[1]][c[2]] = c
                               /\ address[Earg(args[j])] = Target(c)
  <2>1. PICK a \in Passable : a = args[j]
    BY <1>3, <1>10, ValueAssumption
  <2>2. a \in Vars /\ cells[Depth][a] # Nil /\ Read(a) # Nil
    BY DEF Passable, Owned, Declared
  <2>3. PICK c \in Cells : c = cells[Depth][a] /\ c # Nil
    BY <1>1, <2>2, AdrType
  <2>4. a \notin Pending(Depth)
    BY <1>1, NonePending
  <2>5. address[Lvalue(a)] = Target(c) /\ Read(a) = store[c]
    BY <1>1, <2>2, <2>3, <2>4, LvalueOf
  <2>6. /\ c[1] \in 1..Depth /\ c[2] \in Vars \ RefParams
    BY <1>1, <2>2, <2>3, <2>4, TargetFacts
  <2>7. cells[c[1]][c[2]] = c
    <3>1. NameOK(Depth, a, c)
      BY <1>1, <2>2, <2>3 DEF NamesOK
    <3>2. CASE a \in RefParams
      BY <3>1, <3>2 DEF NameOK
    <3>3. CASE a \notin RefParams
      <4>1. c[1] = Depth /\ c[2] = a
        BY <3>1, <3>3 DEF NameOK
      <4> QED BY <4>1, <2>3
    <3> QED BY <3>2, <3>3
  <2>8. Earg(args[j]) = Lvalue(a)
    BY <2>1, <2>2 DEF Earg
  <2> QED BY <2>1, <2>2, <2>3, <2>5, <2>6, <2>7, <2>8
<1>11. ASSUME NEW k, k = Depth + 1, NEW v \in Vars, NEW c \in Cells, cells'[k][v] = c, c # Nil
       PROVE  NameOK(k, v, c)' /\ \E j \in DOMAIN args : Params[f][j] = v
  <2>1. \E j \in DOMAIN args : Params[f][j] = v
    BY <1>2, <1>11
  <2>2. PICK j \in DOMAIN args : Params[f][j] = v
    BY <2>1
  <2>3. FunctionOf[v] = fds'[k]
    BY <1>2, <1>3, <1>11, <2>2, Parameters
  <2>4. CASE args[j] \in Vars
    <3>1. cells[Depth][args[j]] = c
      BY <1>9, <1>11, <2>2, <2>4
    <3>2. c[1] \in 1..Depth /\ c[2] \in Vars \ RefParams /\ cells[c[1]][c[2]] = c
      BY <1>10, <2>4, <3>1
    <3>3. cells'[c[1]][c[2]] = c
      BY <1>2, <3>2
    <3>4. k - 1 = Depth
      BY <1>1, <1>11
    <3> QED BY <1>3, <2>1, <2>2, <2>3, <2>4, <3>2, <3>3, <3>4 DEF NameOK
  <2>5. CASE args[j] \notin Vars
    <3>1. c = <<k, v>>
      BY <1>9, <1>11, <2>2, <2>5
    <3> QED BY <1>3, <2>1, <2>2, <2>3, <2>5, <3>1 DEF NameOK
  <2> QED BY <2>4, <2>5
<1>12. \A k \in 1..Depth' : k \in 1..Depth \/ k = Depth + 1
  BY <1>1, <1>2
<1>13. NamesOK'
  <2> SUFFICES ASSUME NEW k \in 1..Depth', NEW v \in Vars, NEW c \in Cells, cells'[k][v] = c, c # Nil
               PROVE  NameOK(k, v, c)'
    BY DEF NamesOK
  <2>1. CASE k \in 1..Depth
    BY <2>1, <1>2, <1>8
  <2>2. CASE k = Depth + 1
    BY <2>2, <1>11
  <2> QED BY <1>12, <2>1, <2>2
<1>14. CellsOK'
  <2> SUFFICES ASSUME NEW k \in 1..Depth', NEW v \in Vars, NEW c \in Cells, cells'[k][v] = c, c # Nil,
                      v \notin Pending(k)'
               PROVE  CellOK(k, v, c)'
    BY DEF CellsOK
  <2>1. CASE k \in 1..Depth
    BY <2>1, <1>2, <1>8
  <2>2. CASE k = Depth + 1
    <3>1. PICK j \in DOMAIN args : Params[f][j] = v
      BY <2>2, <1>11
    <3>2. j \in DOMAIN todo' /\ todo'[j].v = v
      BY <1>1, <3>1
    <3>3. v \in Pending(k)'
      BY <2>2, <1>2, <3>2 DEF Pending
    <3> QED BY <3>3
  <2> QED BY <1>12, <2>1, <2>2
<1>15. ArgsOK'
  <2>1. ASSUME NEW j \in DOMAIN args, NEW v \in Vars, NEW e \in Data \cup Vars,
               Params[f][j] = v, Earg(args[j]) = e
        PROVE  ArgOK(v, e)'
    <3>1. e \in Vars <=> args[j] \in Vars
      BY <1>3, <2>1
    <3>2. e \notin Vars => store'[<<Depth', v>>] = e
      BY <1>2, <1>9, <2>1, <3>1 DEF Earg
    <3>3. ASSUME e \in Vars
          PROVE  \E c \in Cells : /\ cells'[Depth'][v] = c /\ c # Nil /\ store'[c] # Nil
                                  /\ before'[Depth'][e] = Target(c)'
      <4>1. PICK c \in Cells : /\ cells[Depth][args[j]] = c /\ c # Nil /\ store[c] # Nil
                               /\ c[1] \in 1..Depth /\ address[Earg(args[j])] = Target(c)
        BY <1>10, <3>1, <3>3
      <4>2. cells'[Depth'][v] = c
        BY <1>2, <1>9, <2>1, <3>1, <3>3, <4>1
      <4>3. before'[Depth'][e] = Target(c)' /\ store'[c] = store[c]
        BY <1>2, <1>7, <2>1, <4>1
      <4> QED BY <4>1, <4>2, <4>3
    <3>4. Absent(vars', framepointer', Len(vars'), e)
      <4>1. framepointer' = Len(vars') /\ Len(vars') \in Nat
        BY <1>1, <1>2 DEF TypeOK
      <4>2. \A n \in Nat : \A i \in n + 1 .. n : FALSE
        OBVIOUS
      <4> QED BY <4>1, <4>2 DEF Absent
    <3> QED BY <3>2, <3>3, <3>4 DEF ArgOK
  <2>2. \A j \in DOMAIN todo' : /\ j \in DOMAIN args /\ todo'[j].v = Params[f][j]
                               /\ todo'[j].e = Earg(args[j])
    BY <1>1
  <2>3. ASSUME NEW i \in DOMAIN todo', NEW j \in DOMAIN todo', todo'[i].e = todo'[j].e,
               todo'[i].e \in Vars, FunctionOf[todo'[i].e] = f
        PROVE  i = j
    <3>1. /\ i \in DOMAIN args /\ j \in DOMAIN args /\ Earg(args[i]) = Earg(args[j])
          /\ Earg(args[i]) \in Vars /\ FunctionOf[Earg(args[i])] = f
      BY <2>2, <2>3
    <3>2. args[i] \in Vars /\ args[j] \in Vars
      BY <1>3, <3>1
    <3>3. Lvalue(args[i]) = Lvalue(args[j]) /\ FunctionOf[Lvalue(args[i])] = f
      BY <3>1, <3>2 DEF Earg
    <3> QED BY <1>1, <3>1, <3>2, <3>3 DEF OwnParameter
  <2>4. \A j \in DOMAIN todo' : \A v \in Vars : \A e \in Data \cup Vars :
            todo'[j].v = v /\ todo'[j].e = e => ArgOK(v, e)'
    BY <2>1, <2>2
  <2> QED BY <1>2, <2>3, <2>4 DEF ArgsOK
<1>16. ~failed'
  BY <1>1 DEF ValueOK
<1> QED BY <1>13, <1>14, <1>15, <1>16 DEF ValueOK

-----------------------------------------------------------------------------

LEMMA EndFrameValues ==
    ASSUME StackInv, StackInv', ~odd, ValueOK, EndFrame
    PROVE  ValueOK'
<1>1. /\ TypeOK /\ FramesOK /\ NamesOK /\ CellsOK /\ todo = <<>> /\ Depth > 1
      /\ address' = Unwound
      /\ values' = SubSeq(values, 1, framepointer) /\ vars' = SubSeq(vars, 1, framepointer)
      /\ framepointer' = frames[Len(frames)] /\ frames' = Front(frames)
      /\ fds' = Front(fds) /\ cells' = Front(cells) /\ before' = Front(before)
      /\ store' = [c \in Cells |-> IF c[1] = Depth THEN Nil ELSE store[c]]
      /\ UNCHANGED <<todo, failed, odd>>
  BY DEF StackInv, ValueOK, EndFrame, Ready, call
<1>2. PICK d \in Nat \ {0} : d + 1 = Depth
  <2>1. Depth - 1 \in Nat \ {0} /\ Depth - 1 + 1 = Depth
    BY <1>1, DepthType
  <2> QED BY <2>1
<1>3. /\ Len(fds) = d + 1 /\ Len(cells) = d + 1 /\ Len(before) = d + 1 /\ Len(frames) = d
  BY <1>1, <1>2 DEF FramesOK, Depth
<1>4. Len(fds') = d /\ \A k \in 1..d : fds'[k] = fds[k]
  <2>1. fds \in Seq(Functions)
    BY <1>1 DEF TypeOK
  <2> QED BY <2>1, <1>1, <1>2, <1>3, SeqFront
<1>5. \A k \in 1..d : cells'[k] = cells[k]
  <2> DEFINE S == [Vars -> Cells \cup {Nil}]
  <2>1. cells \in Seq(S)
    BY <1>1 DEF TypeOK
  <2> HIDE DEF S
  <2> QED BY <2>1, <1>1, <1>2, <1>3, SeqFront
<1>6. \A k \in 1..d : before'[k] = before[k]
  <2> DEFINE S == [Vars -> Nat]
  <2>1. before \in Seq(S)
    BY <1>1 DEF TypeOK
  <2> HIDE DEF S
  <2> QED BY <2>1, <1>1, <1>2, <1>3, SeqFront
<1>7. framepointer' = frames[d] /\ \A k \in 1 .. d - 1 : frames'[k] = frames[k]
  <2>1. frames \in Seq(Nat) /\ Len(frames) = d - 1 + 1 /\ d - 1 \in Nat
    BY <1>1, <1>2, <1>3 DEF TypeOK
  <2> QED BY <2>1, <1>1, <1>3, SeqFront
<1>8. framepointer \in Nat /\ framepointer \in 0..Len(vars) /\ Len(vars) \in Nat
  BY <1>1, BelowTop
<1>9. /\ Len(vars') = framepointer
      /\ \A i \in 1..framepointer : vars'[i] = vars[i] /\ values'[i] = values[i]
  <2>1. values \in Seq(Entry) /\ vars \in Seq(Vars) /\ Len(vars) = Len(values)
    BY <1>1 DEF TypeOK
  <2> QED BY <2>1, <1>1, <1>8, SeqPrefix
<1>10. \A v \in Vars : address'[v] = before[Depth][v]
  <2>1. Trusted = Vars
    BY DEF Trusted
  <2> QED BY <2>1, <1>1, UnwoundRestores
<1>11. Depth' = d
  BY <1>4 DEF Depth
<1>12. \A k \in 1..d : /\ k \in 1 .. d + 1 /\ k # d + 1 /\ k \in Nat /\ k < d + 1
                       /\ (k # d => k \in 1 .. d - 1 /\ k + 1 \in 1..d /\ k + 1 # d + 1)
                       /\ (k # d => k + 1 = d \/ k + 1 \in 1 .. d - 1)
  BY <1>2
<1>13. \A k \in 1..d : k # Depth
  BY <1>2, <1>12
<1>14. \A k \in 1..d : Base(k)' = Base(k)
  BY <1>7, <1>11, <1>12, <1>13 DEF Base
<1>15. \A k \in 1..d : Limit(k)' = Limit(k)
  <2> SUFFICES ASSUME NEW k \in 1..d PROVE Limit(k)' = Limit(k)
    OBVIOUS
  <2>1. CASE k = d
    <3>1. Limit(k)' = framepointer
      BY <2>1, <1>9, <1>11 DEF Limit
    <3>2. Limit(k) = framepointer
      BY <2>1, <1>2, <1>13 DEF Limit, Base
    <3> QED BY <3>1, <3>2
  <2>2. CASE k # d
    <3>1. k + 1 \in 1..d /\ k # Depth
      BY <2>2, <1>12, <1>13
    <3>2. Limit(k)' = Base(k + 1)' /\ Limit(k) = Base(k + 1)
      BY <2>2, <3>1, <1>11 DEF Limit
    <3> QED BY <3>1, <3>2, <1>14
  <2> QED BY <2>1, <2>2
<1>16. \A k \in 1..d : \A v \in Vars : Adr(k)'[v] = Adr(k)[v]
  <2> SUFFICES ASSUME NEW k \in 1..d, NEW v \in Vars PROVE Adr(k)'[v] = Adr(k)[v]
    OBVIOUS
  <2>1. CASE k = d
    <3>1. Adr(k)' = address'
      BY <2>1, <1>11 DEF Adr
    <3>2. Adr(k) = before[Depth]
      BY <2>1, <1>2, <1>13 DEF Adr
    <3> QED BY <3>1, <3>2, <1>10
  <2>2. CASE k # d
    <3>1. k + 1 \in 1..d /\ k # Depth
      BY <2>2, <1>12, <1>13
    <3>2. Adr(k)' = Adr(k)
      BY <2>2, <3>1, <1>6, <1>11 DEF Adr
    <3> QED BY <3>2
  <2> QED BY <2>1, <2>2
<1>17. ASSUME NEW k \in 1..d, NEW v \in Vars, NEW c \in Cells, cells[k][v] = c, c # Nil
       PROVE  NameOK(k, v, c)' /\ CellOK(k, v, c)'
  <2>1. k \in 1..Depth /\ k # Depth /\ k \in Nat
    BY <1>2, <1>12, <1>13
  <2>2. v \notin Pending(k)
    BY <1>1, NonePending
  <2>3. NameOK(k, v, c) /\ CellOK(k, v, c)
    BY <2>1, <2>2, <1>1, <1>17 DEF NamesOK, CellsOK
  <2>4. c[1] \in 1..d /\ c[2] \in Vars
    <3>1. c[1] \in 1..Depth /\ c[1] <= k /\ c[2] \in Vars
      BY <2>1, <2>2, <1>1, <1>17, TargetFacts
    <3> QED BY <3>1, <1>2, <2>1
  <2>5. NameOK(k, v, c)'
    BY <2>3, <2>4, <1>4, <1>5 DEF NameOK
  <2>6. Target(c)' = Target(c)
    BY <2>4, <1>16 DEF Target
  <2>7. store'[c] = store[c]
    <3>1. c[1] # Depth
      BY <2>4, <1>13
    <3> QED BY <3>1, <1>1
  <2>8. /\ Base(k)' = Base(k) /\ Limit(k)' = Limit(k) /\ fds'[k] = fds[k]
        /\ \A w \in Vars : Adr(k)'[w] = Adr(k)[w]
    BY <1>4, <1>14, <1>15, <1>16
  <2>9. OwnEntry(k, v) => /\ vars'[Adr(k)[v]] = vars[Adr(k)[v]]
                          /\ values'[Adr(k)[v]] = values[Adr(k)[v]]
                          /\ Adr(k)[v] <= Limit(k)'
    <3> SUFFICES ASSUME OwnEntry(k, v)
                 PROVE  /\ vars'[Adr(k)[v]] = vars[Adr(k)[v]]
                        /\ values'[Adr(k)[v]] = values[Adr(k)[v]]
                        /\ Adr(k)[v] <= Limit(k)'
      OBVIOUS
    <3>1. k \in 1 .. Depth - 1
      BY <1>2, <2>1
    <3>2. /\ Adr(k)[v] \in Nat /\ Base(k) \in Nat /\ Limit(k) \in Nat /\ Limit(k) <= framepointer
      BY <1>1, <2>1, <3>1, AdrType, BelowTop
    <3>3. Adr(k)[v] \in 1..framepointer /\ Adr(k)[v] <= Limit(k)
      BY <3>2, <1>8 DEF OwnEntry
    <3> QED BY <3>3, <1>9, <2>8
  <2>10. CellOK(k, v, c)'
    BY <2>3, <2>6, <2>7, <2>8, <2>9, CellStays
  <2> QED BY <2>5, <2>10
<1>18. NamesOK' /\ CellsOK'
  BY <1>5, <1>11, <1>17 DEF NamesOK, CellsOK
<1>19. ArgsOK' /\ ~failed'
  <2>1. \A j \in DOMAIN todo' : FALSE
    BY <1>1
  <2> QED BY <2>1, <1>1 DEF ArgsOK, ValueOK
<1> QED BY <1>18, <1>19 DEF ValueOK

LEMMA InitValues ==
    ASSUME Init
    PROVE  ValueOK
<1>1. todo = <<>> /\ ~failed /\ Depth = 1 /\ \A v \in Vars : cells[1][v] = Nil
  BY DEF Init, Depth
<1>2. \A k \in 1..Depth : k = 1
  BY <1>1
<1>3. NamesOK /\ CellsOK
  BY <1>1, <1>2 DEF NamesOK, CellsOK
<1> QED BY <1>1, <1>3, NonePending DEF ValueOK

LEMMA SameValues ==
    ASSUME ValueOK, UNCHANGED state
    PROVE  ValueOK'
<1>1. /\ UNCHANGED <<values, vars, savedId, address, frames, framepointer, todo, pushed, failed, odd,
                     fds, opened, cells, store, before>>
  BY DEF state, stack, frame, call, language
<1>2. /\ Depth' = Depth /\ fd' = fd
      /\ \A k : Base(k)' = Base(k) /\ Adr(k)' = Adr(k) /\ Pending(k)' = Pending(k)
  BY <1>1 DEF Depth, fd, Base, Adr, Pending
<1>3. \A k : Limit(k)' = Limit(k)
  BY <1>1, <1>2 DEF Limit
<1>4. /\ \A k, v, c : NameOK(k, v, c)' <=> NameOK(k, v, c)
      /\ \A k, v : OwnEntry(k, v)' <=> OwnEntry(k, v)
      /\ \A c : Target(c)' = Target(c)
  BY <1>1, <1>2, <1>3 DEF NameOK, OwnEntry, Target
<1>5. \A k, v, c : CellOK(k, v, c)' <=> CellOK(k, v, c)
  BY <1>1, <1>2, <1>4 DEF CellOK
<1>6. \A v, e : ArgOK(v, e)' <=> ArgOK(v, e)
  BY <1>1, <1>2, <1>4 DEF ArgOK
<1> QED BY <1>1, <1>2, <1>4, <1>5, <1>6 DEF ValueOK, NamesOK, CellsOK, ArgsOK

LEMMA NextValues ==
    ASSUME StackInv, StackInv', ValueInv, Next
    PROVE  ValueInv'
<1> SUFFICES ASSUME ~odd' PROVE ValueOK'
  BY DEF ValueInv
<1>1. ASSUME NEW f \in Functions \ {Global}, NEW args \in Arguments(f), Call(f, args) PROVE ValueOK'
  <2>1. ~odd
    BY <1>1 DEF Call
  <2> QED BY <2>1, <1>1, CallValues DEF ValueInv
<1>2. CASE PushParam
  <2>1. ~odd
    BY <1>2 DEF PushParam
  <2> QED BY <2>1, <1>2, PushParamValues DEF ValueInv
<1>3. CASE BindParam
  <2>1. ~odd
    BY <1>3 DEF BindParam
  <2> QED BY <2>1, <1>3, BindParamValues DEF ValueInv
<1>4. CASE SetParam
  <2>1. ~odd
    BY <1>4 DEF SetParam
  <2> QED BY <2>1, <1>4, SetParamValues DEF ValueInv
<1>5. CASE EndFrame
  <2>1. ~odd
    BY <1>5 DEF EndFrame, call
  <2> QED BY <2>1, <1>5, EndFrameValues DEF ValueInv
<1>6. ASSUME NEW v \in Locals(fd), Declare(v) PROVE ValueOK'
  <2>1. ~odd
    BY <1>6 DEF Declare, call
  <2> QED BY <2>1, <1>6, DeclareValues DEF ValueInv
<1>7. ASSUME NEW v \in Owned(fd) \ Scoped, NEW e \in Data, Assign(v, e) PROVE ValueOK'
  <2>1. ~odd
    BY <1>7 DEF Assign, call
  <2> QED BY <2>1, <1>7, AssignValues DEF ValueInv
<1>8. ASSUME NEW v \in Owned(fd) \cap Scoped, NEW e \in Data, ScopeBegin(v, e) PROVE ValueOK'
  <2>1. ~odd
    BY <1>8 DEF ScopeBegin, call
  <2> QED BY <2>1, <1>8, ScopeBeginValues DEF ValueInv
<1>9. CASE ScopeEnd
  <2>1. ~odd
    BY <1>9 DEF ScopeEnd, call
  <2> QED BY <2>1, <1>9, ScopeEndValues DEF ValueInv
<1> QED BY <1>1, <1>2, <1>3, <1>4, <1>5, <1>6, <1>7, <1>8, <1>9 DEF Next

\* Each activation reads from its variables what was last assigned to them in it, and a
\* ref parameter what was last assigned to the variable that was passed, through whatever
\* chain of calls; the interpreter never follows references in a circle, and the
\* assertion of interpretFunction() on a recursive ref argument does not fail.
THEOREM OwnValuesAlways == Spec => []OwnValues
<1>1. Init => ValueInv
  BY InitValues DEF ValueInv
<1>2. StackInv /\ StackInv' /\ ValueInv /\ [Next]_state => ValueInv'
  <2> SUFFICES ASSUME StackInv, StackInv', ValueInv, [Next]_state PROVE ValueInv'
    OBVIOUS
  <2>1. CASE Next
    BY <2>1, NextValues
  <2>2. CASE UNCHANGED state
    <3>1. odd' = odd
      BY <2>2 DEF state, call
    <3> QED BY <2>2, <3>1, SameValues DEF ValueInv
  <2> QED BY <2>1, <2>2
<1>3. StackInv /\ ValueInv => OwnValues
  <2> SUFFICES ASSUME StackInv, ValueInv, ~odd PROVE OwnValues
    BY DEF OwnValues
  <2>1. ~failed /\ NamesOK /\ CellsOK
    BY DEF ValueInv, ValueOK
  <2>2. ASSUME Ready, NEW v \in Owned(fd), Declared(v)
        PROVE  Ends(v) /\ Read(v) = store[cells[Depth][v]]
    <3>1. v \in Vars /\ cells[Depth][v] # Nil /\ v \notin Pending(Depth) /\ Depth \in 1..Depth
      BY <2>2, NonePending, DepthType DEF Owned, Declared, Ready, StackInv
    <3>2. PICK c \in Cells : c = cells[Depth][v] /\ c # Nil
      BY <3>1, AdrType DEF StackInv
    <3> QED BY <2>1, <3>1, <3>2, LvalueOf
  <2> QED BY <2>1, <2>2 DEF OwnValues
<1> QED BY <1>1, <1>2, <1>3, StackInvariant, PTL DEF Spec
=============================================================================
