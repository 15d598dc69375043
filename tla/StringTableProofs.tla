------------------------- MODULE StringTableProofs -------------------------
(***************************************************************************)
(* Proofs about StringTable for all strings, hash functions, sizes of the  *)
(* strings and of the table: it is an intern table (InternTable), its      *)
(* entries are unique and its strings do not overlap.  That a search ends  *)
(* is left to the model checker.                                           *)
(*                                                                         *)
(* The lemmas are about a table tab of dim slots over the strings vals,    *)
(* hashed by hf: so they serve the table in use, the one that grow() fills *)
(* and the one it empties.                                                 *)
(***************************************************************************)
EXTENDS StringTable, Sequences, TLAPS

Sl(dim, h, j) == (h + (j * (j + 1)) \div 2) % dim

Occ(tab, i) == tab[i].vptr # None

Str(tab, vals, i) == vals[tab[i].vptr]

\* A search for s stops at slot i.
Hit(tab, vals, hf, i, s) ==
    \/ ~Occ(tab, i)
    \/ tab[i].hash = hf[s] /\ Str(tab, vals, i) = s

\* A search for s has gone past its first p slots.
Missed(tab, dim, vals, hf, s, p) ==
    \A k \in 0..p - 1 : ~Hit(tab, vals, hf, Sl(dim, hf[s], k), s)

Entries(tab, dim, vals, hf) ==
    /\ tab \in [0..dim - 1 -> Entry]
    /\ \A i \in 0..dim - 1 : Occ(tab, i) =>
          tab[i].vptr \in DOMAIN vals /\ tab[i].hash = hf[Str(tab, vals, i)]
    /\ \A i, k \in 0..dim - 1 :
          Occ(tab, i) /\ Occ(tab, k) /\ Str(tab, vals, i) = Str(tab, vals, k) => i = k

\* Every entry lies on the path of a search for its string, and nothing stops
\* the search before it.
Reach(tab, dim, vals, hf) ==
    \A i \in 0..dim - 1 : Occ(tab, i) =>
        \E j \in Nat :
            /\ Sl(dim, tab[i].hash, j) = i
            /\ Missed(tab, dim, vals, hf, Str(tab, vals, i), j)

\* The string is in no slot.
Absent(tab, dim, vals, s) ==
    \A i \in 0..dim - 1 : Occ(tab, i) => Str(tab, vals, i) # s

LEMMA SlotRange ==
    ASSUME NEW dim \in Nat \ {0}, NEW h \in Nat, NEW j \in Nat
    PROVE  Sl(dim, h, j) \in 0..dim - 1
<1> DEFINE q == j * (j + 1)
<1>1. q \in Nat
    BY SMT
<1> HIDE DEF q
<1>2. h + (q \div 2) \in Nat
    BY <1>1
<1> DEFINE r == h + (q \div 2)
<1>3. r \in Nat
    BY <1>2
<1> HIDE DEF r
<1>4. r % dim \in 0..dim - 1
    BY <1>3
<1> QED
    BY <1>4 DEF Sl, r, q

\* A search that ends at a free slot has shown that the string is not there.
LEMMA FreeSlotAbsent ==
    ASSUME NEW dim \in Nat \ {0}, NEW tab, NEW vals, NEW hf, NEW s, NEW p \in Nat,
           Entries(tab, dim, vals, hf), Reach(tab, dim, vals, hf),
           Missed(tab, dim, vals, hf, s, p),
           ~Occ(tab, Sl(dim, hf[s], p))
    PROVE  Absent(tab, dim, vals, s)
<1> SUFFICES ASSUME NEW i \in 0..dim - 1, Occ(tab, i), Str(tab, vals, i) = s
             PROVE  FALSE
    BY DEF Absent
<1>1. tab[i].hash = hf[s]
    BY DEF Entries
<1>2. PICK j \in Nat : Sl(dim, hf[s], j) = i /\ Missed(tab, dim, vals, hf, s, j)
    BY <1>1 DEF Reach
<1>3. Hit(tab, vals, hf, i, s)
    BY <1>1 DEF Hit
<1>4. ~(j < p)
    BY <1>2, <1>3 DEF Missed
<1>5. Hit(tab, vals, hf, Sl(dim, hf[s], p), s)
    BY DEF Hit
<1>6. ~(p < j)
    BY <1>2, <1>5 DEF Missed
<1> QED
    BY <1>2, <1>4, <1>6

\* A string that is not in the table is put where the search for it has ended.
LEMMA PutEntry ==
    ASSUME NEW dim \in Nat \ {0}, NEW tab, NEW vals, NEW hf, NEW s, NEW p \in Nat,
           NEW e \in Entry, NEW vals2,
           Entries(tab, dim, vals, hf), Reach(tab, dim, vals, hf),
           Missed(tab, dim, vals, hf, s, p), Absent(tab, dim, vals, s),
           hf[s] \in Nat,
           Hit(tab, vals, hf, Sl(dim, hf[s], p), s),
           \A v \in DOMAIN vals : v \in DOMAIN vals2 /\ vals2[v] = vals[v],
           e.vptr \in DOMAIN vals2, e.hash = hf[s], vals2[e.vptr] = s, e.vptr # None
    PROVE  LET tab2 == [tab EXCEPT ![Sl(dim, hf[s], p)] = e]
           IN  /\ Entries(tab2, dim, vals2, hf)
               /\ Reach(tab2, dim, vals2, hf)
               /\ ~Occ(tab, Sl(dim, hf[s], p))
               /\ Occ(tab2, Sl(dim, hf[s], p))
<1> DEFINE n == Sl(dim, hf[s], p)
           tab2 == [tab EXCEPT ![n] = e]
<1>1. n \in 0..dim - 1
    BY SlotRange
<1>2. ~Occ(tab, n)
    BY <1>1 DEF Hit, Absent
<1> HIDE DEF n
<1>3. tab \in [0..dim - 1 -> Entry]
    BY DEF Entries
<1>4. tab2 \in [0..dim - 1 -> Entry]
    BY <1>1, <1>3
<1>5. tab2[n] = e
    BY <1>1, <1>3
<1>6. \A i \in 0..dim - 1 : i # n => tab2[i] = tab[i]
    BY <1>1, <1>3
<1> HIDE DEF tab2
<1>7. Occ(tab2, n) /\ Str(tab2, vals2, n) = s /\ tab2[n].hash = hf[s]
    BY <1>5 DEF Occ, Str
<1>8. \A i \in 0..dim - 1 : Occ(tab, i) =>
          /\ i # n /\ tab2[i] = tab[i] /\ Occ(tab2, i)
          /\ Str(tab2, vals2, i) = Str(tab, vals, i)
    BY <1>2, <1>6 DEF Occ, Str, Entries
<1>9. \A i \in 0..dim - 1 : Occ(tab2, i) /\ i # n =>
          /\ Occ(tab, i) /\ tab2[i] = tab[i]
          /\ Str(tab2, vals2, i) = Str(tab, vals, i)
    BY <1>6, <1>8 DEF Occ
<1>10. Entries(tab2, dim, vals2, hf)
  <2>1. ASSUME NEW i \in 0..dim - 1, Occ(tab2, i)
        PROVE  tab2[i].vptr \in DOMAIN vals2 /\ tab2[i].hash = hf[Str(tab2, vals2, i)]
    <3>1. CASE i = n
        BY <3>1, <1>5, <1>7
    <3>2. CASE i # n
        BY <2>1, <3>2, <1>9 DEF Entries
    <3> QED
        BY <3>1, <3>2
  <2>2. ASSUME NEW i \in 0..dim - 1, NEW k \in 0..dim - 1, Occ(tab2, i), Occ(tab2, k),
               Str(tab2, vals2, i) = Str(tab2, vals2, k)
        PROVE  i = k
    <3>1. CASE i = n /\ k # n
        BY <2>2, <3>1, <1>7, <1>9 DEF Absent
    <3>2. CASE i # n /\ k = n
        BY <2>2, <3>2, <1>7, <1>9 DEF Absent
    <3>3. CASE i # n /\ k # n
        BY <2>2, <3>3, <1>9 DEF Entries
    <3> QED
        BY <3>1, <3>2, <3>3
  <2> QED
      BY <1>4, <2>1, <2>2 DEF Entries
<1>11. ASSUME NEW i \in 0..dim - 1, ~Hit(tab, vals, hf, i, s)
       PROVE  ~Hit(tab2, vals2, hf, i, s)
    BY <1>8, <1>11 DEF Hit
<1>12. ASSUME NEW i \in 0..dim - 1, NEW t, ~Hit(tab, vals, hf, i, t)
       PROVE  ~Hit(tab2, vals2, hf, i, t)
    BY <1>8, <1>12 DEF Hit
<1>13. ASSUME NEW t, NEW m \in Nat, hf[t] \in Nat, Missed(tab, dim, vals, hf, t, m)
       PROVE  Missed(tab2, dim, vals2, hf, t, m)
  <2> SUFFICES ASSUME NEW k \in 0..m - 1
               PROVE  ~Hit(tab2, vals2, hf, Sl(dim, hf[t], k), t)
      BY DEF Missed
  <2>1. k \in Nat
      OBVIOUS
  <2>2. Sl(dim, hf[t], k) \in 0..dim - 1
      BY <2>1, <1>13, SlotRange
  <2>3. ~Hit(tab, vals, hf, Sl(dim, hf[t], k), t)
      BY <1>13 DEF Missed
  <2> QED
      BY <2>2, <2>3, <1>12
<1>14. Reach(tab2, dim, vals2, hf)
  <2> SUFFICES ASSUME NEW i \in 0..dim - 1, Occ(tab2, i)
               PROVE  \E j \in Nat : /\ Sl(dim, tab2[i].hash, j) = i
                                     /\ Missed(tab2, dim, vals2, hf, Str(tab2, vals2, i), j)
      BY DEF Reach
  <2>1. CASE i = n
      BY <2>1, <1>7, <1>13 DEF n
  <2>2. CASE i # n
    <3>1. Occ(tab, i) /\ tab2[i] = tab[i] /\ Str(tab2, vals2, i) = Str(tab, vals, i)
        BY <2>2, <1>9
    <3>2. tab[i].hash = hf[Str(tab, vals, i)] /\ tab[i].hash \in Nat
        BY <3>1, <1>3 DEF Entries, Entry
    <3>3. PICK j \in Nat : /\ Sl(dim, tab[i].hash, j) = i
                           /\ Missed(tab, dim, vals, hf, Str(tab, vals, i), j)
        BY <3>1 DEF Reach
    <3> QED
        BY <3>1, <3>2, <3>3, <1>13
  <2> QED
      BY <2>1, <2>2
<1> QED
    BY <1>2, <1>7, <1>10, <1>14 DEF tab2, n

-----------------------------------------------------------------------------
(***************************************************************************)
(* The inductive invariant.                                                *)
(***************************************************************************)
ITypes ==
    /\ hash \in [Strings -> Nat]
    /\ tabledim \in Nat \ {0}
    /\ count \in Nat /\ npools \in Nat /\ nfill \in Nat
    /\ pc \in {"idle", "find", "grow", "again"}
    /\ (pc = "idle" => request = <<>>)
    /\ (pc # "idle" => request \in {"lookup", "update", "insert"} \X Strings)
    /\ (pc \in {"grow", "again"} => op # "lookup")
    /\ probe \in Nat /\ from \in Nat
    /\ answer \in Nat \X Nat

\* What is in the pools lies behind each other, up to the mark in the last one.
PoolsFilled(vals, np, nf) ==
    /\ \A v \in DOMAIN vals :
          /\ v \in Nat \X Nat /\ v # None /\ vals[v] \in Strings
          /\ v[1] <= np
          /\ (v[1] = np => v[2] + Bytes[vals[v]] <= nf)
          /\ (v[2] = 0 \/ v[2] + Bytes[vals[v]] <= PoolSize)
    /\ \A v, w \in DOMAIN vals :
          v # w /\ v[1] = w[1] => \/ v[2] + Bytes[vals[v]] <= w[2]
                                  \/ w[2] + Bytes[vals[w]] <= v[2]

ITable ==
    /\ Entries(table, tabledim, values, hash)
    /\ Reach(table, tabledim, values, hash)

ISearch ==
    /\ (pc \in {"find", "again"} =>
           Missed(table, tabledim, values, hash, str, probe))
    /\ (pc = "again" => Absent(table, tabledim, values, str))

\* The first n entries of the old table are the entries of the new one.
Copied(old, n, tab, dim) ==
    /\ \A i \in 0..dim - 1 : Occ(tab, i) => \E k \in 0..n - 1 : old[k] = tab[i]
    /\ \A k \in 0..n - 1 : Occ(old, k) => \E i \in 0..dim - 1 : tab[i] = old[k]

odim == tabledim \div 2

IGrow ==
    pc = "grow" =>
        /\ odim \in Nat \ {0}
        /\ from \in 0..odim
        /\ Entries(otab, odim, values, hash)
        /\ Absent(otab, odim, values, str)
        /\ Copied(otab, from, table, tabledim)
        /\ (from < odim /\ Occ(otab, from) =>
               Missed(table, tabledim, values, hash, Str(otab, values, from), probe))
        /\ (from < odim /\ ~Occ(otab, from) => probe = 0)

IInv == ITypes /\ PoolsFilled(values, npools, nfill) /\ ITable /\ ISearch /\ IGrow

LEMMA NoneMissed ==
    ASSUME NEW dim, NEW tab, NEW vals, NEW hf, NEW s
    PROVE  Missed(tab, dim, vals, hf, s, 0)
    BY DEF Missed

LEMMA OneMoreMissed ==
    ASSUME NEW dim, NEW tab, NEW vals, NEW hf, NEW s, NEW p \in Nat,
           Missed(tab, dim, vals, hf, s, p), ~Hit(tab, vals, hf, Sl(dim, hf[s], p), s)
    PROVE  Missed(tab, dim, vals, hf, s, p + 1)
<1> SUFFICES ASSUME NEW k \in 0..(p + 1) - 1
             PROVE  ~Hit(tab, vals, hf, Sl(dim, hf[s], k), s)
    BY DEF Missed
<1>1. CASE k = p
    BY <1>1
<1>2. CASE k # p
    BY <1>2 DEF Missed
<1> QED
    BY <1>1, <1>2

LEMMA EmptyTable ==
    ASSUME NEW dim \in Nat \ {0}, NEW vals, NEW hf
    PROVE  /\ Entries(NewTable(dim), dim, vals, hf)
           /\ Reach(NewTable(dim), dim, vals, hf)
           /\ \A i \in 0..dim - 1 : ~Occ(NewTable(dim), i)
<1>1. Empty \in Entry
    BY DEF Empty, Entry, None
<1>2. \A i \in 0..dim - 1 : NewTable(dim)[i] = Empty
    BY DEF NewTable
<1>3. \A i \in 0..dim - 1 : ~Occ(NewTable(dim), i)
    BY <1>2 DEF Occ, Empty
<1>4. NewTable(dim) \in [0..dim - 1 -> Entry]
    BY <1>1 DEF NewTable
<1> QED
    BY <1>3, <1>4 DEF Entries, Reach

LEMMA DimsPositive == \A dim \in Dims : dim \in Nat \ {0}
    BY SizesAssumption

\* The operators of StringTable in terms of those above.
LEMMA SearchOf ==
    ASSUME ITypes, pc # "idle"
    PROVE  /\ str \in Strings
           /\ op \in {"lookup", "update", "insert"}
           /\ hash[str] \in Nat
           /\ slot = Sl(tabledim, hash[str], probe)
           /\ slot \in 0..tabledim - 1
           /\ (Stops(table[slot], str) <=> Hit(table, values, hash, slot, str))
           /\ (Used(table[slot]) <=> Occ(table, slot))
<1>1. str \in Strings /\ op \in {"lookup", "update", "insert"}
    BY DEF ITypes, str, op
<1>2. hash[str] \in Nat
    BY <1>1 DEF ITypes
<1>3. slot = Sl(tabledim, hash[str], probe)
    BY DEF slot, Slot, Sl
<1>4. slot \in 0..tabledim - 1
    BY <1>2, <1>3, SlotRange DEF ITypes
<1>5. Used(table[slot]) <=> Occ(table, slot)
    BY DEF Used, Occ
<1>6. Stops(table[slot], str) <=> Hit(table, values, hash, slot, str)
    BY DEF Stops, Holds, Used, Hit, Occ, Str
<1> QED
    BY <1>1, <1>2, <1>3, <1>4, <1>5, <1>6

LEMMA MovedOf ==
    ASSUME ITypes, IGrow, pc = "grow", from \in DOMAIN otab, Used(moved)
    PROVE  /\ from \in 0..odim - 1
           /\ moved = otab[from] /\ moved \in Entry /\ Occ(otab, from)
           /\ values[moved.vptr] = Str(otab, values, from)
           /\ moved.hash = hash[Str(otab, values, from)]
           /\ hash[Str(otab, values, from)] \in Nat
           /\ newslot = Sl(tabledim, hash[Str(otab, values, from)], probe)
           /\ newslot \in 0..tabledim - 1
           /\ (StopsMoved <=> Hit(table, values, hash, newslot, Str(otab, values, from)))
<1>1. from \in 0..odim - 1
    BY DEF IGrow, Entries
<1>2. moved = otab[from] /\ Occ(otab, from) /\ moved \in Entry
    BY <1>1 DEF moved, Used, Occ, IGrow, Entries
<1>3. values[moved.vptr] = Str(otab, values, from)
    BY <1>2 DEF Str
<1>4. moved.hash = hash[Str(otab, values, from)]
    BY <1>1, <1>2 DEF IGrow, Entries
<1>5. moved.hash \in Nat
    BY <1>2 DEF Entry
<1>6. newslot = Sl(tabledim, hash[Str(otab, values, from)], probe)
    BY <1>4 DEF newslot, Slot, Sl
<1>7. newslot \in 0..tabledim - 1
    BY <1>4, <1>5, <1>6, SlotRange DEF ITypes
<1>8. StopsMoved <=> Hit(table, values, hash, newslot, Str(otab, values, from))
    BY <1>3 DEF StopsMoved, Stops, Holds, Used, Hit, Occ, Str
<1> QED
    BY <1>1, <1>2, <1>3, <1>4, <1>5, <1>6, <1>7, <1>8

LEMMA InitInv == Init => IInv
<1> SUFFICES ASSUME Init PROVE IInv
    OBVIOUS
<1>1. tabledim \in Nat \ {0}
    BY DimsPositive DEF Init
<1>2. ITypes
    BY <1>1, SizesAssumption DEF Init, ITypes, None
<1>3. PoolsFilled(values, npools, nfill)
    BY DEF Init, PoolsFilled
<1>4. ITable
    BY <1>1, EmptyTable DEF Init, ITable
<1>5. ISearch /\ IGrow
    BY DEF Init, ISearch, IGrow
<1> QED
    BY <1>2, <1>3, <1>4, <1>5 DEF IInv

-----------------------------------------------------------------------------
(***************************************************************************)
(* Every action keeps the invariant.                                       *)
(***************************************************************************)
LEMMA CallInv ==
    ASSUME IInv, NEW o \in {"lookup", "update", "insert"}, NEW s \in Strings, Call(o, s)
    PROVE  IInv'
<1>1. ITypes'
    BY DEF IInv, ITypes, Call, heap
<1>2. PoolsFilled(values, npools, nfill)' /\ ITable'
    BY DEF IInv, ITable, Call, heap
<1>3. ISearch' /\ IGrow'
    BY NoneMissed DEF ISearch, IGrow, Call, heap
<1> QED
    BY <1>1, <1>2, <1>3 DEF IInv

LEMMA ProbeInv == IInv /\ Probe => IInv'
<1> SUFFICES ASSUME IInv, Probe PROVE IInv'
    OBVIOUS
<1> USE DEF heap
<1>1. ITypes'
    BY DEF op, IInv, ITypes, Probe
<1>2. PoolsFilled(values, npools, nfill)' /\ ITable' /\ IGrow'
    BY DEF IInv, ITable, IGrow, Probe
<1>3. Missed(table, tabledim, values, hash, str, probe)
    BY DEF IInv, ISearch, Probe
<1>4. ~Hit(table, values, hash, Sl(tabledim, hash[str], probe), str)
    BY SearchOf DEF IInv, Probe
<1>5. Missed(table, tabledim, values, hash, str, probe + 1)
    BY <1>3, <1>4, OneMoreMissed DEF IInv, ITypes
<1>6. ISearch'
    BY <1>5 DEF IInv, ISearch, Probe, str
<1> QED
    BY <1>1, <1>2, <1>6 DEF IInv

LEMMA FoundInv == IInv /\ Found => IInv'
<1> SUFFICES ASSUME IInv, Found PROVE IInv'
    OBVIOUS
<1> USE DEF heap
<1>1. slot \in 0..tabledim - 1
    BY SearchOf DEF IInv, Found
<1>2. table[slot].vptr \in Nat \X Nat
    BY <1>1 DEF IInv, ITable, Entries, Entry
<1>3. ITypes'
    BY <1>2 DEF IInv, ITypes, Found, Return, None
<1>4. PoolsFilled(values, npools, nfill)' /\ ITable' /\ IGrow' /\ ISearch'
    BY DEF IInv, ITable, IGrow, ISearch, Found, Return
<1> QED
    BY <1>3, <1>4 DEF IInv

LEMMA NotFoundInv == IInv /\ NotFound => IInv'
<1> SUFFICES ASSUME IInv, NotFound PROVE IInv'
    OBVIOUS
<1> USE DEF heap
<1>1. ITypes'
    BY DEF IInv, ITypes, NotFound, Return, None
<1>2. PoolsFilled(values, npools, nfill)' /\ ITable' /\ IGrow' /\ ISearch'
    BY DEF IInv, ITable, IGrow, ISearch, NotFound, Return
<1> QED
    BY <1>1, <1>2 DEF IInv

\* The place that allocValue() finds is behind all others, and it is new.
LEMMA FreshOffset ==
    ASSUME NEW np \in Nat, NEW nf \in Nat, NEW vals, PoolsFilled(vals, np, nf),
           NEW s \in Strings, NEW vptr, NEW vals2, NEW room \in Nat,
           room >= Bytes[s],
           \/ vptr = <<np + 1, 0>>
           \/ np # 0 /\ nf + Bytes[s] <= PoolSize /\ vptr = <<np, nf>>,
           DOMAIN vals2 = DOMAIN vals \cup {vptr}, vals2[vptr] = s,
           \A v \in DOMAIN vals : v # vptr => vals2[v] = vals[v]
    PROVE  /\ vptr \in Nat \X Nat /\ vptr # None
           /\ vptr \notin DOMAIN vals
           /\ PoolsFilled(vals2, vptr[1], vptr[2] + room)
           /\ vals2[vptr] = s /\ vptr \in DOMAIN vals2
           /\ \A v \in DOMAIN vals : v \in DOMAIN vals2 /\ vals2[v] = vals[v]
<1>1. vptr \in Nat \X Nat /\ vptr # None
    BY DEF None
<1>2. Bytes[s] \in Nat \ {0} /\ \A v \in DOMAIN vals : Bytes[vals[v]] \in Nat \ {0}
    BY SizesAssumption DEF PoolsFilled
<1>3. ASSUME NEW v \in DOMAIN vals
      PROVE  /\ v \in Nat \X Nat /\ v[1] \in Nat /\ v[2] \in Nat
             /\ v[1] <= vptr[1]
             /\ (v[1] = vptr[1] => v[2] + Bytes[vals[v]] <= vptr[2])
    BY <1>2 DEF PoolsFilled
<1>4. vptr \notin DOMAIN vals
    BY <1>1, <1>2, <1>3
<1>5. vals2[vptr] = s /\ vptr \in DOMAIN vals2 /\ DOMAIN vals2 = DOMAIN vals \cup {vptr}
    OBVIOUS
<1>6. \A v \in DOMAIN vals : v \in DOMAIN vals2 /\ vals2[v] = vals[v]
    BY <1>4
<1>7. PoolsFilled(vals2, vptr[1], vptr[2] + room)
  <2>1. ASSUME NEW v \in DOMAIN vals2
        PROVE  /\ v \in Nat \X Nat /\ v # None /\ vals2[v] \in Strings
               /\ v[1] <= vptr[1]
               /\ (v[1] = vptr[1] => v[2] + Bytes[vals2[v]] <= vptr[2] + room)
               /\ (v[2] = 0 \/ v[2] + Bytes[vals2[v]] <= PoolSize)
    <3>1. CASE v = vptr
        BY <3>1, <1>1, <1>2, <1>5
    <3>2. CASE v # vptr
      <4>1. v \in DOMAIN vals /\ vals2[v] = vals[v]
          BY <3>2, <1>5, <1>6
      <4>2. /\ v \in Nat \X Nat /\ v # None /\ vals[v] \in Strings
            /\ (v[2] = 0 \/ v[2] + Bytes[vals[v]] <= PoolSize)
          BY <4>1 DEF PoolsFilled
      <4> QED
          BY <4>1, <4>2, <1>1, <1>2, <1>3
    <3> QED
        BY <3>1, <3>2
  <2>2. ASSUME NEW v \in DOMAIN vals2, NEW w \in DOMAIN vals2, v # w, v[1] = w[1]
        PROVE  \/ v[2] + Bytes[vals2[v]] <= w[2]
               \/ w[2] + Bytes[vals2[w]] <= v[2]
    <3>1. CASE v = vptr
        BY <2>2, <3>1, <1>3, <1>5, <1>6
    <3>2. CASE w = vptr
        BY <2>2, <3>2, <1>3, <1>5, <1>6
    <3>3. CASE v # vptr /\ w # vptr
        BY <2>2, <3>3, <1>5, <1>6 DEF PoolsFilled
    <3> QED
        BY <3>1, <3>2, <3>3
  <2> QED
      BY <2>1, <2>2 DEF PoolsFilled
<1> QED
    BY <1>1, <1>4, <1>5, <1>6, <1>7

\* What the state is when a string has been stored at slot.
LEMMA PlaceFacts ==
    ASSUME IInv, Place
    PROVE  /\ Absent(table, tabledim, values, str)
           /\ ~Occ(table, slot) /\ slot \in 0..tabledim - 1
           /\ str \in Strings /\ op # "lookup"
           /\ answer' \in Nat \X Nat /\ answer' # None /\ answer' \notin DOMAIN values
           /\ PoolsFilled(values', npools', nfill')
           /\ Entries(table', tabledim, values', hash)
           /\ Reach(table', tabledim, values', hash)
           /\ npools' \in Nat /\ nfill' \in Nat
           /\ table' = [table EXCEPT ![slot] = [hash |-> hash[str], vptr |-> answer']]
           /\ values'[answer'] = str
           /\ \A v \in DOMAIN values : values'[v] = values[v]
           /\ request' = <<>> /\ pc' = "idle" /\ pc \in {"find", "again"}
<1> DEFINE vptr == Offset(Bytes[str])
           e == [hash |-> hash[str], vptr |-> vptr]
<1>1. pc \in {"find", "again"} /\ pc # "idle" /\ Store
    BY DEF Place
<1>2. /\ str \in Strings /\ hash[str] \in Nat /\ slot = Sl(tabledim, hash[str], probe)
      /\ slot \in 0..tabledim - 1
    BY <1>1, SearchOf DEF IInv
<1>3. Hit(table, values, hash, slot, str)
    BY <1>1, SearchOf DEF IInv, Place, Hit
<1>4. Missed(table, tabledim, values, hash, str, probe)
    BY <1>1 DEF IInv, ISearch
<1>5. Absent(table, tabledim, values, str)
  <2>1. CASE pc = "again"
      BY <2>1 DEF IInv, ISearch
  <2>2. CASE pc = "find"
    <3>1. ~Occ(table, slot)
        BY <2>2, <1>1, SearchOf DEF IInv, Place
    <3> QED
        BY <3>1, <1>2, <1>4, FreeSlotAbsent DEF IInv, ITable, ITypes
  <2> QED
      BY <1>1, <2>1, <2>2
<1>6. Bytes[str] \in Nat \ {0} /\ PoolSize \in Nat
    BY <1>2, SizesAssumption
<1>7. Aligned(Bytes[str]) \in Nat /\ Aligned(Bytes[str]) >= Bytes[str]
    BY <1>6 DEF Aligned
<1>8. \/ vptr = <<npools + 1, 0>>
      \/ npools # 0 /\ nfill + Bytes[str] <= PoolSize /\ vptr = <<npools, nfill>>
    BY <1>6 DEF Offset, NewPool, IInv, ITypes
<1>9. /\ npools' = vptr[1] /\ nfill' = vptr[2] + Aligned(Bytes[str])
      /\ values' = [v \in DOMAIN values \cup {vptr} |-> IF v = vptr THEN str ELSE values[v]]
      /\ table' = [table EXCEPT ![slot] = e]
      /\ answer' = vptr /\ request' = <<>> /\ pc' = "idle"
    BY <1>1 DEF Store, Return
<1>10. npools \in Nat /\ nfill \in Nat /\ PoolsFilled(values, npools, nfill)
    BY DEF IInv, ITypes
<1> HIDE DEF vptr
<1>11. /\ vptr \in Nat \X Nat /\ vptr # None
       /\ vptr \notin DOMAIN values
       /\ PoolsFilled(values', vptr[1], vptr[2] + Aligned(Bytes[str]))
       /\ values'[vptr] = str /\ vptr \in DOMAIN values'
       /\ \A v \in DOMAIN values : v \in DOMAIN values' /\ values'[v] = values[v]
  <2> DEFINE room == Aligned(Bytes[str])
  <2>1. room \in Nat /\ room >= Bytes[str]
      BY <1>7
  <2>3. /\ DOMAIN values' = DOMAIN values \cup {vptr} /\ values'[vptr] = str
        /\ \A v \in DOMAIN values : v # vptr => values'[v] = values[v]
      BY <1>9
  <2> HIDE DEF room
  <2>2. /\ vptr \in Nat \X Nat /\ vptr # None
        /\ vptr \notin DOMAIN values
        /\ PoolsFilled(values', vptr[1], vptr[2] + room)
        /\ values'[vptr] = str /\ vptr \in DOMAIN values'
        /\ \A v \in DOMAIN values : v \in DOMAIN values' /\ values'[v] = values[v]
      BY <1>2, <1>8, <1>10, <2>1, <2>3, FreshOffset, SMTT(30)
  <2> QED
      BY <2>2 DEF room
<1>12. e \in Entry /\ e.vptr = vptr /\ e.hash = hash[str]
    BY <1>2, <1>11 DEF Entry
<1> HIDE DEF e
<1>13. /\ Entries([table EXCEPT ![slot] = e], tabledim, values', hash)
       /\ Reach([table EXCEPT ![slot] = e], tabledim, values', hash)
       /\ ~Occ(table, slot)
  <2>1. tabledim \in Nat \ {0} /\ probe \in Nat
      BY DEF IInv, ITypes
  <2>2. Entries(table, tabledim, values, hash) /\ Reach(table, tabledim, values, hash)
      BY DEF IInv, ITable
  <2> QED
      BY <1>2, <1>3, <1>4, <1>5, <1>11, <1>12, <2>1, <2>2, PutEntry
<1>14. op # "lookup"
    BY <1>1 DEF IInv, ITypes, Place
<1> QED
    BY <1>1, <1>2, <1>5, <1>7, <1>9, <1>11, <1>13, <1>14 DEF e

LEMMA PlaceInv == IInv /\ Place => IInv'
<1> SUFFICES ASSUME IInv, Place PROVE IInv'
    OBVIOUS
<1> USE PlaceFacts
<1>1. hash' = hash /\ tabledim' = tabledim /\ otab' = otab /\ from' = from
    BY DEF Place
<1>2. probe' = 0 /\ count' \in Nat
    BY DEF Place, Store, Return, IInv, ITypes
<1>3. ITypes'
    BY <1>1, <1>2 DEF IInv, ITypes
<1>4. PoolsFilled(values, npools, nfill)' /\ ITable'
    BY <1>1 DEF ITable
<1>5. ISearch' /\ IGrow'
    BY DEF ISearch, IGrow
<1> QED
    BY <1>3, <1>4, <1>5 DEF IInv

LEMMA GrowInv == IInv /\ Grow => IInv'
<1> SUFFICES ASSUME IInv, Grow PROVE IInv'
    OBVIOUS
<1> USE DEF heap
<1>1. tabledim \in Nat \ {0} /\ count \in Nat
    BY DEF IInv, ITypes
<1>2. /\ tabledim' = 2 * tabledim /\ table' = NewTable(tabledim')
      /\ otab' = table /\ from' = 0 /\ probe' = 0 /\ pc' = "grow" /\ count' = count + 1
      /\ UNCHANGED <<hash, npools, nfill, values, request, answer>>
      /\ op # "lookup"
    BY DEF Grow
<1>3. tabledim' \in Nat \ {0} /\ odim' = tabledim
    BY <1>1, <1>2 DEF odim
<1>4. ITypes'
    BY <1>1, <1>2, <1>3 DEF IInv, ITypes, op, Grow
<1>5. ITable'
    BY <1>2, <1>3, EmptyTable DEF ITable
<1>6. ISearch'
    BY <1>2 DEF ISearch
<1>7. Absent(table, tabledim, values, str)
  <2>1. Missed(table, tabledim, values, hash, str, probe)
      BY DEF IInv, ISearch, Grow
  <2>2. ~Occ(table, Sl(tabledim, hash[str], probe))
      BY SearchOf DEF IInv, Grow
  <2> QED
      BY <2>1, <2>2, FreeSlotAbsent DEF IInv, ITable, ITypes
<1>8. Copied(otab, from, table, tabledim)'
    BY <1>2, <1>3, EmptyTable DEF Copied
<1>9. IGrow'
  <2>1. Entries(otab, odim, values, hash)' /\ Absent(otab, odim, values, str)'
      BY <1>2, <1>3, <1>7 DEF IInv, ITable, str
  <2>2. Missed(table, tabledim, values, hash, Str(otab, values, from), probe)'
      BY <1>2, NoneMissed
  <2> QED
      BY <1>1, <1>2, <1>3, <1>8, <2>1, <2>2 DEF IGrow
<1>10. PoolsFilled(values, npools, nfill)'
    BY <1>2 DEF IInv
<1> QED
    BY <1>4, <1>5, <1>6, <1>9, <1>10 DEF IInv

LEMMA SkipEmptyInv == IInv /\ SkipEmpty => IInv'
<1> SUFFICES ASSUME IInv, SkipEmpty PROVE IInv'
    OBVIOUS
<1> USE DEF heap
<1>1. /\ pc = "grow" /\ pc' = pc /\ from' = from + 1 /\ probe' = probe
      /\ UNCHANGED <<hash, tabledim, table, count, npools, nfill, values, request, otab, answer>>
    BY DEF SkipEmpty, More
<1>2. /\ odim \in Nat \ {0} /\ from \in 0..odim
      /\ Entries(otab, odim, values, hash) /\ Absent(otab, odim, values, str)
      /\ Copied(otab, from, table, tabledim)
      /\ (from < odim /\ ~Occ(otab, from) => probe = 0)
    BY <1>1 DEF IInv, IGrow
<1>3. from \in 0..odim - 1 /\ ~Occ(otab, from)
    BY <1>2 DEF SkipEmpty, More, moved, Used, Occ, Entries
<1>4. probe = 0
    BY <1>2, <1>3
<1>5. Copied(otab, from + 1, table, tabledim)
    BY <1>2, <1>3 DEF Copied
<1>6. ITypes'
    BY <1>1, <1>2 DEF IInv, ITypes, op
<1>7. PoolsFilled(values, npools, nfill)' /\ ITable' /\ ISearch'
    BY <1>1 DEF IInv, ITable, ISearch
<1>8. IGrow'
  <2>1. from' \in 0..odim' /\ odim' = odim
      BY <1>1, <1>2, <1>3 DEF odim
  <2>2. Missed(table, tabledim, values, hash, Str(otab, values, from), probe)'
      BY <1>1, <1>4, NoneMissed
  <2>3. Absent(otab, odim, values, str)' /\ Entries(otab, odim, values, hash)'
      BY <1>1, <1>2, <2>1 DEF str
  <2> QED
      BY <1>1, <1>2, <1>4, <1>5, <2>1, <2>2, <2>3 DEF IGrow
<1> QED
    BY <1>6, <1>7, <1>8 DEF IInv

LEMMA ProbeMovedInv == IInv /\ ProbeMoved => IInv'
<1> SUFFICES ASSUME IInv, ProbeMoved PROVE IInv'
    OBVIOUS
<1> USE DEF heap
<1>1. /\ pc = "grow" /\ from \in DOMAIN otab /\ Used(moved) /\ ~StopsMoved
      /\ pc' = pc /\ from' = from /\ probe' = probe + 1
      /\ UNCHANGED <<hash, tabledim, table, count, npools, nfill, values, request, otab, answer>>
    BY DEF ProbeMoved, More
<1>2. /\ odim \in Nat \ {0} /\ from \in 0..odim
      /\ Entries(otab, odim, values, hash) /\ Absent(otab, odim, values, str)
      /\ Copied(otab, from, table, tabledim)
      /\ (from < odim /\ Occ(otab, from) =>
             Missed(table, tabledim, values, hash, Str(otab, values, from), probe))
    BY <1>1 DEF IInv, IGrow
<1>3. /\ from \in 0..odim - 1 /\ Occ(otab, from)
      /\ ~Hit(table, values, hash, Sl(tabledim, hash[Str(otab, values, from)], probe),
              Str(otab, values, from))
    BY <1>1, MovedOf DEF IInv
<1>4. Missed(table, tabledim, values, hash, Str(otab, values, from), probe + 1)
    BY <1>2, <1>3, OneMoreMissed DEF IInv, ITypes
<1>5. ITypes'
    BY <1>1 DEF IInv, ITypes, op
<1>6. PoolsFilled(values, npools, nfill)' /\ ITable' /\ ISearch'
    BY <1>1 DEF IInv, ITable, ISearch
<1>7. IGrow'
  <2>1. odim' = odim
      BY <1>1 DEF odim
  <2>2. Missed(table, tabledim, values, hash, Str(otab, values, from), probe)'
      BY <1>1, <1>4
  <2>3. Absent(otab, odim, values, str)' /\ Entries(otab, odim, values, hash)'
      BY <1>1, <1>2, <2>1 DEF str
  <2>4. Occ(otab, from)'
      BY <1>1, <1>3 DEF Occ
  <2> QED
      BY <1>1, <1>2, <2>1, <2>2, <2>3, <2>4 DEF IGrow
<1> QED
    BY <1>5, <1>6, <1>7 DEF IInv

\* Moving one entry: it is not in the new table yet, so a free slot has been found.
LEMMA MoveFacts ==
    ASSUME IInv, Move
    PROVE  /\ Entries(table', tabledim, values, hash) /\ Reach(table', tabledim, values, hash)
           /\ Copied(otab, from + 1, table', tabledim)
           /\ from \in 0..odim - 1
<1> DEFINE s == Str(otab, values, from)
<1>1. /\ pc = "grow" /\ from \in DOMAIN otab /\ Used(moved) /\ StopsMoved
      /\ table' = [table EXCEPT ![newslot] = moved]
    BY DEF Move, More
<1>2. /\ from \in 0..odim - 1
      /\ moved = otab[from] /\ moved \in Entry /\ Occ(otab, from)
      /\ values[moved.vptr] = s
      /\ moved.hash = hash[s]
      /\ hash[s] \in Nat
      /\ newslot = Sl(tabledim, hash[s], probe)
      /\ newslot \in 0..tabledim - 1
      /\ Hit(table, values, hash, newslot, s)
    BY <1>1, MovedOf DEF IInv
<1>3. /\ odim \in Nat \ {0} /\ from \in 0..odim
      /\ Entries(otab, odim, values, hash)
      /\ Copied(otab, from, table, tabledim)
      /\ Missed(table, tabledim, values, hash, s, probe)
    BY <1>1, <1>2 DEF IInv, IGrow
<1>4. Absent(table, tabledim, values, s)
  <2> SUFFICES ASSUME NEW i \in 0..tabledim - 1, Occ(table, i), Str(table, values, i) = s
               PROVE  FALSE
      BY DEF Absent
  <2>1. PICK k \in 0..from - 1 : otab[k] = table[i]
      BY <1>3 DEF Copied
  <2>2. Occ(otab, k) /\ Str(otab, values, k) = s /\ k \in 0..odim - 1 /\ k # from
      BY <1>3, <2>1 DEF Occ, Str
  <2> QED
      BY <1>2, <1>3, <2>2 DEF Entries
<1>5. moved.vptr \in DOMAIN values /\ moved.vptr # None
    BY <1>2, <1>3 DEF Entries, Occ
<1> HIDE DEF s
<1>6. /\ Entries(table', tabledim, values, hash) /\ Reach(table', tabledim, values, hash)
      /\ ~Occ(table, newslot)
  <2>1. tabledim \in Nat \ {0} /\ probe \in Nat
      BY DEF IInv, ITypes
  <2>2. Entries(table, tabledim, values, hash) /\ Reach(table, tabledim, values, hash)
      BY DEF IInv, ITable
  <2> DEFINE n == Sl(tabledim, hash[s], probe)
  <2>3. /\ Entries([table EXCEPT ![n] = moved], tabledim, values, hash)
        /\ Reach([table EXCEPT ![n] = moved], tabledim, values, hash)
        /\ ~Occ(table, n)
    <3>1. Hit(table, values, hash, n, s)
        BY <1>2
    <3>2. \A v \in DOMAIN values : v \in DOMAIN values /\ values[v] = values[v]
        OBVIOUS
    <3> QED
        BY <1>2, <1>3, <1>4, <1>5, <2>1, <2>2, <3>1, <3>2, PutEntry, SMTT(60)
  <2> QED
      BY <1>1, <1>2, <2>3
<1>7. table'[newslot] = moved /\ \A i \in 0..tabledim - 1 : i # newslot => table'[i] = table[i]
    BY <1>1, <1>2 DEF IInv, ITable, Entries
<1>8. Copied(otab, from + 1, table', tabledim)
  <2>1. ASSUME NEW i \in 0..tabledim - 1, Occ(table', i)
        PROVE  \E k \in 0..(from + 1) - 1 : otab[k] = table'[i]
    <3>1. CASE i = newslot
        BY <3>1, <1>2, <1>7
    <3>2. CASE i # newslot
        BY <2>1, <3>2, <1>3, <1>7 DEF Copied, Occ
    <3> QED
        BY <3>1, <3>2
  <2>2. ASSUME NEW k \in 0..(from + 1) - 1, Occ(otab, k)
        PROVE  \E i \in 0..tabledim - 1 : table'[i] = otab[k]
    <3>1. CASE k = from
        BY <3>1, <1>2, <1>7
    <3>2. CASE k # from
      <4>1. PICK i \in 0..tabledim - 1 : table[i] = otab[k]
          BY <2>2, <3>2, <1>3 DEF Copied
      <4>2. i # newslot
          BY <2>2, <4>1, <1>6 DEF Occ
      <4> QED
          BY <4>1, <4>2, <1>7
    <3> QED
        BY <3>1, <3>2
  <2> QED
      BY <2>1, <2>2 DEF Copied
<1> QED
    BY <1>2, <1>6, <1>8

LEMMA MoveInv == IInv /\ Move => IInv'
<1> SUFFICES ASSUME IInv, Move PROVE IInv'
    OBVIOUS
<1> USE DEF heap
<1>1. /\ pc = "grow" /\ pc' = pc /\ from' = from + 1 /\ probe' = 0
      /\ UNCHANGED <<hash, tabledim, count, npools, nfill, values, request, otab, answer>>
    BY DEF Move, More
<1>2. /\ odim \in Nat \ {0}
      /\ Entries(otab, odim, values, hash) /\ Absent(otab, odim, values, str)
    BY <1>1 DEF IInv, IGrow
<1>3. ITypes'
    BY <1>1 DEF IInv, ITypes, op
<1>4. PoolsFilled(values, npools, nfill)' /\ ISearch'
    BY <1>1 DEF IInv, ISearch
<1>5. ITable'
    BY <1>1, MoveFacts DEF ITable
<1>6. IGrow'
  <2>1. odim' = odim
      BY <1>1 DEF odim
  <2>2. from' \in 0..odim /\ Copied(otab, from, table, tabledim)'
      BY <1>1, <1>2, MoveFacts
  <2>3. Missed(table, tabledim, values, hash, Str(otab, values, from), probe)'
      BY <1>1, NoneMissed
  <2>4. Absent(otab, odim, values, str)' /\ Entries(otab, odim, values, hash)'
      BY <1>1, <1>2, <2>1 DEF str
  <2> QED
      BY <1>1, <1>2, <2>1, <2>2, <2>3, <2>4 DEF IGrow
<1> QED
    BY <1>3, <1>4, <1>5, <1>6 DEF IInv

\* All entries have been moved.
LEMMA GrownFacts ==
    ASSUME IInv, Grown
    PROVE  /\ pc = "grow" /\ from = odim
           /\ Copied(otab, odim, table, tabledim)
           /\ Absent(table, tabledim, values, str)
<1>1. pc = "grow" /\ from \notin DOMAIN otab
    BY DEF Grown
<1>2. /\ odim \in Nat \ {0} /\ from \in 0..odim
      /\ Entries(otab, odim, values, hash) /\ Absent(otab, odim, values, str)
      /\ Copied(otab, from, table, tabledim)
    BY <1>1 DEF IInv, IGrow
<1>3. from = odim
    BY <1>1, <1>2 DEF Entries
<1>4. Absent(table, tabledim, values, str)
    BY <1>2, <1>3 DEF Absent, Copied, Occ, Str
<1> QED
    BY <1>1, <1>2, <1>3, <1>4

LEMMA GrownInv == IInv /\ Grown => IInv'
<1> SUFFICES ASSUME IInv, Grown PROVE IInv'
    OBVIOUS
<1> USE DEF heap
<1>1. /\ pc' = "again" /\ probe' = 0 /\ from' = 0 /\ pc = "grow"
      /\ UNCHANGED <<hash, tabledim, table, count, npools, nfill, values, request, answer>>
    BY DEF Grown
<1>2. ITypes'
    BY <1>1 DEF IInv, ITypes, op
<1>3. PoolsFilled(values, npools, nfill)' /\ ITable' /\ IGrow'
    BY <1>1 DEF IInv, ITable, IGrow
<1>4. ISearch'
    BY <1>1, NoneMissed, GrownFacts DEF ISearch, str
<1> QED
    BY <1>2, <1>3, <1>4 DEF IInv

LEMMA ResetInv == ASSUME IInv, NEW dim \in Dims, Reset(dim) PROVE IInv'
<1> USE DEF heap
<1>1. dim \in Nat \ {0}
    BY DimsPositive
<1>2. ITypes'
    BY <1>1 DEF IInv, ITypes, Reset
<1>3. PoolsFilled(values, npools, nfill)'
    BY DEF PoolsFilled, Reset
<1>4. ITable'
    BY <1>1, EmptyTable DEF ITable, Reset
<1>5. ISearch' /\ IGrow'
    BY DEF ISearch, IGrow, Reset
<1> QED
    BY <1>2, <1>3, <1>4, <1>5 DEF IInv

LEMMA StepInv == IInv /\ [Next]_vars => IInv'
<1> SUFFICES ASSUME IInv, [Next]_vars PROVE IInv'
    OBVIOUS
<1>1. CASE \E o \in {"lookup", "update", "insert"}, s \in Strings : Call(o, s)
    BY <1>1, CallInv
<1>2. CASE Work
    BY <1>2, ProbeInv, FoundInv, NotFoundInv, PlaceInv, GrowInv, SkipEmptyInv,
       ProbeMovedInv, MoveInv, GrownInv DEF Work
<1>3. CASE \E dim \in Dims : Reset(dim)
    BY <1>3, ResetInv
<1>4. CASE UNCHANGED vars
    BY <1>4 DEF IInv, ITypes, ITable, ISearch, IGrow, str, op, odim, vars, heap
<1> QED
    BY <1>1, <1>2, <1>3, <1>4 DEF Next

THEOREM Invariance == Spec => []IInv
    BY InitInv, StepInv, PTL DEF Spec

-----------------------------------------------------------------------------
(***************************************************************************)
(* The invariants that the model checker checks follow.                    *)
(***************************************************************************)
LEMMA CurrentEntries ==
    ASSUME IInv
    PROVE  \E dim \in Nat \ {0} : Entries(Current, dim, values, hash)
<1>1. CASE pc = "grow"
    BY <1>1 DEF IInv, IGrow, Current
<1>2. CASE pc # "grow"
    BY <1>2 DEF IInv, ITypes, ITable, Current
<1> QED
    BY <1>1, <1>2

\* At all times the table, the pools and the call being served have their types.
THEOREM TableTypes == Spec => []TypeOK
<1>1. IInv => TypeOK
  <2> SUFFICES ASSUME IInv PROVE TypeOK
      OBVIOUS
  <2>1. \A v \in DOMAIN values : v \in Nat \X Nat /\ v # None /\ values[v] \in Strings
      BY DEF IInv, PoolsFilled
  <2>2. table \in [0..tabledim - 1 -> Entry]
      BY DEF IInv, ITable, Entries
  <2>3. pc = "grow" => DOMAIN otab = 0..(tabledim \div 2) - 1 /\ otab \in [DOMAIN otab -> Entry]
      BY DEF IInv, IGrow, Entries, odim
  <2> QED
      BY <2>1, <2>2, <2>3 DEF IInv, ITypes, TypeOK
<1> QED
    BY <1>1, Invariance, PTL

\* No string has two entries, and every entry has the hash of its string, also
\* while the table is being replaced.
THEOREM EntriesUnique == Spec => []OneEntryEach
<1>1. IInv => OneEntryEach
  <2> SUFFICES ASSUME IInv PROVE OneEntryEach
      OBVIOUS
  <2>1. PICK dim \in Nat \ {0} : Entries(Current, dim, values, hash)
      BY CurrentEntries
  <2>2. Stored = {i \in 0..dim - 1 : Occ(Current, i)}
      BY <2>1 DEF Stored, Used, Occ, Entries
  <2> QED
      BY <2>1, <2>2 DEF OneEntryEach, Entries, Str
<1> QED
    BY <1>1, Invariance, PTL

\* Strings in the pools never overlap, so none overwrites another.
THEOREM StringsApart == Spec => []PoolsDisjoint
<1>1. IInv => PoolsDisjoint
    BY DEF IInv, PoolsFilled, PoolsDisjoint
<1> QED
    BY <1>1, Invariance, PTL

-----------------------------------------------------------------------------
(***************************************************************************)
(* The refinement: what the slots say is the dictionary of InternTable.    *)
(***************************************************************************)
Full(cur) == {i \in DOMAIN cur : cur[i].vptr # None}

DictOf(cur, vals) ==
    [s \in {vals[cur[i].vptr] : i \in Full(cur)} |->
        cur[CHOOSE i \in Full(cur) : vals[cur[i].vptr] = s].vptr]

LEMMA DictIs == dict = DictOf(Current, values) /\ dict' = DictOf(Current', values')
    BY DEF dict, DictOf, Stored, Used, Full

LEMMA DictEntries ==
    ASSUME NEW dim, NEW cur, NEW vals, NEW hf, Entries(cur, dim, vals, hf)
    PROVE  /\ \A i \in 0..dim - 1 : Occ(cur, i) =>
                 /\ Str(cur, vals, i) \in DOMAIN DictOf(cur, vals)
                 /\ DictOf(cur, vals)[Str(cur, vals, i)] = cur[i].vptr
           /\ \A s \in DOMAIN DictOf(cur, vals) :
                 \E i \in 0..dim - 1 : Occ(cur, i) /\ Str(cur, vals, i) = s
<1>1. Full(cur) = {i \in 0..dim - 1 : Occ(cur, i)}
    BY DEF Full, Occ, Entries
<1>2. DOMAIN DictOf(cur, vals) = {Str(cur, vals, i) : i \in Full(cur)}
    BY DEF DictOf, Str
<1>3. ASSUME NEW i \in 0..dim - 1, Occ(cur, i)
      PROVE  DictOf(cur, vals)[Str(cur, vals, i)] = cur[i].vptr
  <2> DEFINE c == CHOOSE k \in Full(cur) : vals[cur[k].vptr] = Str(cur, vals, i)
  <2>1. i \in Full(cur) /\ vals[cur[i].vptr] = Str(cur, vals, i)
      BY <1>1, <1>3 DEF Str
  <2>2. c \in Full(cur) /\ vals[cur[c].vptr] = Str(cur, vals, i)
      BY <2>1
  <2> HIDE DEF c
  <2>3. c = i
      BY <2>2, <1>1, <1>3 DEF Entries, Str
  <2>4. DictOf(cur, vals)[Str(cur, vals, i)] = cur[c].vptr
      BY <1>2, <2>1 DEF DictOf, c
  <2> QED
      BY <2>3, <2>4
<1> QED
    BY <1>1, <1>2, <1>3

\* Two tables with the same entries have the same dictionary.
LEMMA DictSame ==
    ASSUME NEW dim1, NEW dim2, NEW cur1, NEW cur2, NEW vals, NEW hf,
           Entries(cur1, dim1, vals, hf), Entries(cur2, dim2, vals, hf),
           \A i \in 0..dim2 - 1 : Occ(cur2, i) => \E k \in 0..dim1 - 1 : cur1[k] = cur2[i],
           \A k \in 0..dim1 - 1 : Occ(cur1, k) => \E i \in 0..dim2 - 1 : cur2[i] = cur1[k]
    PROVE  DictOf(cur1, vals) = DictOf(cur2, vals)
<1> DEFINE d1 == DictOf(cur1, vals)
           d2 == DictOf(cur2, vals)
<1>1. ASSUME NEW s \in DOMAIN d1 PROVE s \in DOMAIN d2 /\ d2[s] = d1[s]
  <2>1. PICK k \in 0..dim1 - 1 : Occ(cur1, k) /\ Str(cur1, vals, k) = s /\ d1[s] = cur1[k].vptr
      BY DictEntries
  <2>2. PICK i \in 0..dim2 - 1 : cur2[i] = cur1[k]
      BY <2>1
  <2>3. Occ(cur2, i) /\ Str(cur2, vals, i) = s
      BY <2>1, <2>2 DEF Occ, Str
  <2> QED
      BY <2>1, <2>2, <2>3, DictEntries
<1>2. ASSUME NEW s \in DOMAIN d2 PROVE s \in DOMAIN d1
  <2>1. PICK i \in 0..dim2 - 1 : Occ(cur2, i) /\ Str(cur2, vals, i) = s
      BY DictEntries
  <2>2. PICK k \in 0..dim1 - 1 : cur1[k] = cur2[i]
      BY <2>1
  <2>3. Occ(cur1, k) /\ Str(cur1, vals, k) = s
      BY <2>1, <2>2 DEF Occ, Str
  <2> QED
      BY <2>3, DictEntries
<1>3. DOMAIN d1 = DOMAIN d2
    BY <1>1, <1>2
<1>4. d1 = [s \in DOMAIN d1 |-> d1[s]] /\ d2 = [s \in DOMAIN d2 |-> d2[s]]
    BY DEF DictOf
<1> HIDE DEF d1, d2
<1>5. d1 = d2
    BY <1>1, <1>3, <1>4
<1> QED
    BY <1>5 DEF d1, d2

LEMMA EmptyDict ==
    ASSUME NEW dim, NEW vals
    PROVE  DictOf(NewTable(dim), vals) = [s \in {} |-> None]
<1>1. Full(NewTable(dim)) = {}
    BY DEF Full, NewTable, Empty
<1>2. {vals[NewTable(dim)[i].vptr] : i \in Full(NewTable(dim))} = {}
    BY <1>1
<1> QED
    BY <1>2 DEF DictOf

LEMMA InitRefines == Init => Interned!Init
<1> SUFFICES ASSUME Init PROVE Interned!Init
    OBVIOUS
<1>1. Current = NewTable(tabledim)
    BY DEF Init, Current
<1>2. dict = [s \in {} |-> None]
    BY <1>1, DictIs, EmptyDict
<1> QED
    BY <1>2 DEF Interned!Init, Init

\* A step that leaves the entries, the request and the answer alone.
LEMMA StutterRefines ==
    ASSUME UNCHANGED <<Current, values, request, answer>>
    PROVE  UNCHANGED Interned!vars
<1>1. dict' = dict
    BY DictIs
<1> QED
    BY <1>1 DEF Interned!vars

LEMMA Requested ==
    ASSUME ITypes, pc # "idle"
    PROVE  request # <<>>
<1>1. PICK o \in {"lookup", "update", "insert"}, s \in Strings : request = <<o, s>>
    BY DEF ITypes
<1>2. Len(<<o, s>>) = 2 /\ Len(<<>>) = 0
    OBVIOUS
<1> QED
    BY <1>1, <1>2

LEMMA CallRefines ==
    ASSUME IInv, NEW o \in {"lookup", "update", "insert"}, NEW s \in Strings, Call(o, s)
    PROVE  Interned!Next
<1>1. UNCHANGED <<Current, values, answer>> /\ request = <<>> /\ request' = <<o, s>>
    BY DEF IInv, ITypes, Call, Current, heap
<1>2. dict' = dict
    BY <1>1, DictIs
<1>3. Interned!Request(o, s)
    BY <1>1, <1>2 DEF Interned!Request
<1> QED
    BY <1>3 DEF Interned!Next, Interned!Operations

LEMMA FoundRefines ==
    ASSUME IInv, Found
    PROVE  Interned!Next
<1>1. /\ pc = "find" /\ request # <<>> /\ request' = <<>>
      /\ UNCHANGED <<Current, values>>
      /\ answer' = (IF op = "insert" THEN None ELSE table[slot].vptr)
    BY Requested DEF IInv, Found, Return, Current, heap
<1>2. dict' = dict
    BY <1>1, DictIs
<1>3. Occ(table, slot) /\ Str(table, values, slot) = str /\ slot \in 0..tabledim - 1
    BY <1>1, SearchOf DEF IInv, Found, Hit
<1>4. Entries(table, tabledim, values, hash) /\ Current = table
    BY <1>1 DEF IInv, ITable, Current
<1>5. str \in DOMAIN dict /\ dict[str] = table[slot].vptr
    BY <1>3, <1>4, DictEntries, DictIs
<1>6. Interned!Known
    BY <1>1, <1>2, <1>5 DEF Interned!Known, Interned!Respond, str, op
<1> QED
    BY <1>6 DEF Interned!Next

LEMMA NotFoundRefines ==
    ASSUME IInv, NotFound
    PROVE  Interned!Next
<1>1. /\ pc = "find" /\ op = "lookup" /\ request # <<>> /\ request' = <<>>
      /\ UNCHANGED <<Current, values>>
      /\ answer' = None
    BY Requested DEF IInv, NotFound, Return, Current, heap
<1>2. dict' = dict
    BY <1>1, DictIs
<1>3. Entries(table, tabledim, values, hash) /\ Current = table
    BY <1>1 DEF IInv, ITable, Current
<1>4. Absent(table, tabledim, values, str)
  <2>1. Missed(table, tabledim, values, hash, str, probe)
      BY <1>1 DEF IInv, ISearch
  <2>2. ~Occ(table, Sl(tabledim, hash[str], probe))
      BY <1>1, SearchOf DEF IInv, NotFound
  <2> QED
      BY <2>1, <2>2, FreeSlotAbsent DEF IInv, ITable, ITypes
<1>5. str \notin DOMAIN dict
    BY <1>3, <1>4, DictEntries, DictIs DEF Absent
<1>6. Interned!Unknown
    BY <1>1, <1>2, <1>5 DEF Interned!Unknown, Interned!Respond, str, op
<1> QED
    BY <1>6 DEF Interned!Next

LEMMA PlaceRefines ==
    ASSUME IInv, Place
    PROVE  Interned!Next
<1> USE PlaceFacts
<1>1. pc # "idle" /\ request # <<>> /\ Current = table /\ Current' = table'
    BY Requested DEF IInv, Current
<1>2. Entries(table, tabledim, values, hash)
    BY DEF IInv, ITable
<1>3. table'[slot] = [hash |-> hash[str], vptr |-> answer']
    BY <1>2 DEF Entries
<1>4. \A i \in 0..tabledim - 1 : i # slot => table'[i] = table[i]
    BY <1>2 DEF Entries
<1>5. Occ(table', slot) /\ Str(table', values', slot) = str
    BY <1>3 DEF Occ, Str
<1>6. \A i \in 0..tabledim - 1 : Occ(table, i) =>
          /\ i # slot /\ Occ(table', i) /\ table'[i] = table[i]
          /\ Str(table', values', i) = Str(table, values, i)
    BY <1>2, <1>4 DEF Entries, Occ, Str
<1>7. \A i \in 0..tabledim - 1 : Occ(table', i) /\ i # slot =>
          Occ(table, i) /\ Str(table', values', i) = Str(table, values, i)
    BY <1>4, <1>6 DEF Occ
<1>8. dict = DictOf(table, values) /\ dict' = DictOf(table', values')
    BY <1>1, DictIs
<1>9. str \notin DOMAIN dict
    BY <1>2, <1>8, DictEntries DEF Absent
<1>10. str \in DOMAIN dict' /\ dict'[str] = answer'
    BY <1>3, <1>5, <1>8, DictEntries
<1>11. ASSUME NEW s \in DOMAIN dict
       PROVE  s \in DOMAIN dict' /\ dict'[s] = dict[s] /\ dict[s] \in DOMAIN values
  <2>1. PICK i \in 0..tabledim - 1 : Occ(table, i) /\ Str(table, values, i) = s
      BY <1>2, <1>8, DictEntries
  <2>2. DictOf(table, values)[s] = table[i].vptr
      BY <2>1, <1>2, DictEntries
  <2>3. dict[s] = table[i].vptr /\ table[i].vptr \in DOMAIN values
      BY <2>1, <2>2, <1>2, <1>8 DEF Entries
  <2>4. /\ s \in DOMAIN DictOf(table', values')
        /\ DictOf(table', values')[s] = table'[i].vptr
      BY <2>1, <1>6, DictEntries
  <2> QED
      BY <2>1, <2>3, <2>4, <1>6, <1>8
<1>12. ASSUME NEW s \in DOMAIN dict' PROVE s \in DOMAIN dict \cup {str}
  <2>1. PICK i \in 0..tabledim - 1 : Occ(table', i) /\ Str(table', values', i) = s
      BY <1>8, DictEntries
  <2>2. CASE i = slot
      BY <2>1, <2>2, <1>5
  <2>3. CASE i # slot
      BY <2>1, <2>3, <1>2, <1>7, <1>8, DictEntries
  <2> QED
      BY <2>2, <2>3
<1>13. DOMAIN dict' = DOMAIN dict \cup {str}
    BY <1>10, <1>11, <1>12
<1>14. \A s \in DOMAIN dict : dict'[str] # dict[s]
    BY <1>10, <1>11
<1>15. Interned!Stored
    BY <1>1, <1>9, <1>10, <1>11, <1>13, <1>14
    DEF Interned!Stored, Interned!Respond, str, op
<1> QED
    BY <1>15 DEF Interned!Next

LEMMA GrownRefines ==
    ASSUME IInv, Grown
    PROVE  UNCHANGED Interned!vars
<1>1. /\ pc = "grow" /\ pc' = "again" /\ Current = otab /\ Current' = table
      /\ UNCHANGED <<values, request, answer>>
    BY DEF Grown, Current, heap
<1>2. Entries(otab, odim, values, hash) /\ Entries(table, tabledim, values, hash)
    BY <1>1 DEF IInv, IGrow, ITable
<1>3. Copied(otab, odim, table, tabledim)
    BY GrownFacts
<1>4. DictOf(otab, values) = DictOf(table, values)
    BY <1>2, <1>3, DictSame DEF Copied
<1>5. dict' = dict
    BY <1>1, <1>4, DictIs
<1> QED
    BY <1>1, <1>5 DEF Interned!vars

LEMMA ResetRefines ==
    ASSUME IInv, NEW dim \in Dims, Reset(dim)
    PROVE  Interned!Next
<1>1. /\ pc = "idle" /\ pc' = pc /\ Current' = NewTable(dim)
      /\ request = <<>> /\ UNCHANGED <<request, answer>>
    BY DEF IInv, ITypes, Reset, Current
<1>2. dict' = [s \in {} |-> None]
    BY <1>1, DictIs, EmptyDict
<1>3. Interned!Forget
    BY <1>1, <1>2 DEF Interned!Forget
<1> QED
    BY <1>3 DEF Interned!Next

LEMMA WorkRefines == IInv /\ Work => [Interned!Next]_(Interned!vars)
<1> SUFFICES ASSUME IInv, Work PROVE [Interned!Next]_(Interned!vars)
    OBVIOUS
<1> USE DEF heap
<1>1. CASE Probe
    BY <1>1, StutterRefines DEF Probe, Current
<1>2. CASE Found
    BY <1>2, FoundRefines
<1>3. CASE NotFound
    BY <1>3, NotFoundRefines
<1>4. CASE Place
    BY <1>4, PlaceRefines
<1>5. CASE Grow
    BY <1>5, StutterRefines DEF Grow, Current
<1>6. CASE SkipEmpty
    BY <1>6, StutterRefines DEF SkipEmpty, More, Current
<1>7. CASE ProbeMoved
    BY <1>7, StutterRefines DEF ProbeMoved, More, Current
<1>8. CASE Move
    BY <1>8, StutterRefines DEF Move, More, Current
<1>9. CASE Grown
    BY <1>9, GrownRefines
<1> QED
    BY <1>1, <1>2, <1>3, <1>4, <1>5, <1>6, <1>7, <1>8, <1>9 DEF Work

LEMMA StepRefines == IInv /\ [Next]_vars => [Interned!Next]_(Interned!vars)
<1> SUFFICES ASSUME IInv, [Next]_vars PROVE [Interned!Next]_(Interned!vars)
    OBVIOUS
<1>1. CASE \E o \in {"lookup", "update", "insert"}, s \in Strings : Call(o, s)
    BY <1>1, CallRefines
<1>2. CASE Work
    BY <1>2, WorkRefines
<1>3. CASE \E dim \in Dims : Reset(dim)
    BY <1>3, ResetRefines
<1>4. CASE UNCHANGED vars
    BY <1>4, StutterRefines DEF vars, heap, Current
<1> QED
    BY <1>1, <1>2, <1>3, <1>4 DEF Next

\* The hash table implements the intern table: for every hash function and
\* every sequence of calls a string keeps its handle for ever, across growth,
\* and no two strings ever share one.
THEOREM TableInterns == Spec => InternSpec
<1>1. Spec => Interned!Init /\ [][Interned!Next]_(Interned!vars)
    BY InitRefines, StepRefines, Invariance, PTL DEF Spec
<1> QED
    BY <1>1 DEF InternSpec, Interned!Spec
=============================================================================
