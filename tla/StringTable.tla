---------------------------- MODULE StringTable ----------------------------
(***************************************************************************)
(* root/stringtable.cpp: the hash table behind the identifiers and the     *)
(* types of the compiler.  A slot holds a hash and an offset into pools of *)
(* memory that never move; a search probes slot after slot; a table that   *)
(* becomes four fifths full is replaced by one of twice the size while a   *)
(* string is being stored.  Every probe is a step.                         *)
(***************************************************************************)
EXTENDS Integers, FiniteSets

CONSTANTS
    Strings,        \* the strings
    Hashes,         \* the values of the hash function
    Bytes,          \* what a string takes in a pool, StringValue included
    PoolSize,       \* POOL_SIZE
    Dims            \* the sizes that _init() chooses, powers of two from 32 in the code

ASSUME SizesAssumption ==
    /\ Hashes \subseteq Nat
    /\ Bytes \in [Strings -> Nat \ {0}]
    /\ PoolSize \in Nat \ {0}
    /\ Dims \subseteq Nat \ {0} /\ \A d \in Dims : \E k \in 0..d : d = 2^k

VARIABLES
    hash,           \* the hash function of this run
    tabledim,       \* slots of the table
    table,          \* the slots
    count,          \* strings stored, or being stored
    npools, nfill,  \* pools, and bytes used in the last one
    values,         \* what is in the pools: the string at each offset
    request,        \* the call being served: <<function, string>>
    pc,             \* where it is
    probe,          \* j, how often findSlot() has moved on
    otab, from,     \* the table that grow() replaces, and the next slot of it
    answer          \* what the last call has returned

vars == <<hash, tabledim, table, count, npools, nfill, values,
          request, pc, probe, otab, from, answer>>

heap == <<npools, nfill, values>>

\* An offset is a pool, counted from 1, and a place in it.
None == <<0, 0>>

Empty == [hash |-> 0, vptr |-> None]

Used(entry) == entry.vptr # None

NewTable(dim) == [i \in 0..dim - 1 |-> Empty]

\* The slot that findSlot() looks at after j moves: h and the j-th triangular
\* number, masked.
Slot(h, j) == (h + (j * (j + 1)) \div 2) % tabledim

\* The slot holds the string.
Holds(entry, s) == Used(entry) /\ values[entry.vptr] = s

\* findSlot() stops at the first slot that is free or has the hash and the string.
Stops(entry, s) == ~Used(entry) \/ (entry.hash = hash[s] /\ Holds(entry, s))

Init ==
    /\ hash \in [Strings -> Hashes]
    /\ tabledim \in Dims
    /\ table = NewTable(tabledim)
    /\ count = 0
    /\ npools = 0 /\ nfill = 0
    /\ values = [v \in {} |-> ""]
    /\ request = <<>>
    /\ pc = "idle"
    /\ probe = 0
    /\ otab = <<>> /\ from = 0
    /\ answer = None

-----------------------------------------------------------------------------
(***************************************************************************)
(* lookup(), update() and insert() begin with findSlot().                  *)
(***************************************************************************)
Call(op, s) ==
    /\ pc = "idle"
    /\ request' = <<op, s>>
    /\ pc' = "find"
    /\ probe' = 0
    /\ UNCHANGED <<hash, tabledim, table, count, heap, otab, from, answer>>

op == request[1]
str == request[2]
slot == Slot(hash[str], probe)

\* Fault: a search that has moved on goes back to where it began.
ProbeBack ==
    /\ pc \in {"find", "again"}
    /\ ~Stops(table[slot], str)
    /\ probe' = 1 - probe
    /\ UNCHANGED <<hash, tabledim, table, count, heap, request, pc, otab, from, answer>>

Probe ==
    /\ pc \in {"find", "again"}
    /\ ~Stops(table[slot], str)
    /\ probe' = probe + 1
    /\ UNCHANGED <<hash, tabledim, table, count, heap, request, pc, otab, from, answer>>

Return(vptr) ==
    /\ answer' = vptr
    /\ request' = <<>>
    /\ pc' = "idle"
    /\ probe' = 0

\* insert() returns nothing for a string that is there.
Found ==
    /\ pc = "find"
    /\ Stops(table[slot], str) /\ Used(table[slot])
    /\ Return(IF op = "insert" THEN None ELSE table[slot].vptr)
    /\ UNCHANGED <<hash, tabledim, table, count, heap, otab, from>>

NotFound ==
    /\ pc = "find" /\ op = "lookup"
    /\ ~Used(table[slot])
    /\ Return(None)
    /\ UNCHANGED <<hash, tabledim, table, count, heap, otab, from>>

TooFull(n) == 5 * n > 4 * tabledim

\* Fault: the terminating zero and the length are not counted.
TooShort(n) == npools = 0 \/ nfill + n - 8 > PoolSize

\* allocValue(): the pool that is being filled, or a new one.
NewPool(n) == npools = 0 \/ nfill + n > PoolSize
Offset(n) == IF NewPool(n) THEN <<npools + 1, 0>> ELSE <<npools, nfill>>

\* Rounded up to 8 bytes.
Aligned(n) == n + ((8 - (n % 8)) % 8)

\* Fault: the slot gets the offset but not the hash.
StoreOffset ==
    LET vptr == Offset(Bytes[str])
    IN  /\ npools' = vptr[1]
        /\ nfill' = vptr[2] + Aligned(Bytes[str])
        /\ values' = [v \in DOMAIN values \cup {vptr} |-> IF v = vptr THEN str ELSE values[v]]
        /\ table' = [table EXCEPT ![slot].vptr = vptr]
        /\ Return(vptr)

\* The slot gets the string, whatever has been found in it.
Store ==
    LET vptr == Offset(Bytes[str])
    IN  /\ npools' = vptr[1]
        /\ nfill' = vptr[2] + Aligned(Bytes[str])
        /\ values' = [v \in DOMAIN values \cup {vptr} |-> IF v = vptr THEN str ELSE values[v]]
        /\ table' = [table EXCEPT ![slot] = [hash |-> hash[str], vptr |-> vptr]]
        /\ Return(vptr)

\* Fault: after grow() the string goes to the first slot of its search.
PlaceAtOnce ==
    /\ \/ /\ pc = "find" /\ op # "lookup"
          /\ ~Used(table[slot])
          /\ ~TooFull(count + 1)
          /\ count' = count + 1
       \/ pc = "again" /\ UNCHANGED count
    /\ Store
    /\ UNCHANGED <<hash, tabledim, otab, from>>

Place ==
    /\ \/ /\ pc = "find" /\ op # "lookup"
          /\ ~Used(table[slot])
          /\ ~TooFull(count + 1)
          /\ count' = count + 1
       \/ /\ pc = "again"
          /\ Stops(table[slot], str)
          /\ UNCHANGED count
    /\ Store
    /\ UNCHANGED <<hash, tabledim, otab, from>>

-----------------------------------------------------------------------------
(***************************************************************************)
(* grow(): every entry of the old table finds its slot in the new one.     *)
(* Afterwards the string that is being stored looks for its slot again.    *)
(***************************************************************************)
Grow ==
    /\ pc = "find" /\ op # "lookup"
    /\ ~Used(table[slot])
    /\ TooFull(count + 1)
    /\ count' = count + 1
    /\ otab' = table /\ from' = 0
    /\ tabledim' = 2 * tabledim
    /\ table' = NewTable(2 * tabledim)
    /\ pc' = "grow"
    /\ probe' = 0
    /\ UNCHANGED <<hash, heap, request, answer>>

More == pc = "grow" /\ from \in DOMAIN otab
moved == otab[from]
newslot == Slot(moved.hash, probe)
StopsMoved == Stops(table[newslot], values[moved.vptr])

SkipEmpty ==
    /\ More /\ ~Used(moved)
    /\ from' = from + 1
    /\ UNCHANGED <<hash, tabledim, table, count, heap, request, pc, probe, otab, answer>>

ProbeMoved ==
    /\ More /\ Used(moved)
    /\ ~StopsMoved
    /\ probe' = probe + 1
    /\ UNCHANGED <<hash, tabledim, table, count, heap, request, pc, otab, from, answer>>

Move ==
    /\ More /\ Used(moved)
    /\ StopsMoved
    /\ table' = [table EXCEPT ![newslot] = moved]
    /\ from' = from + 1
    /\ probe' = 0
    /\ UNCHANGED <<hash, tabledim, count, heap, request, pc, otab, answer>>

Grown ==
    /\ pc = "grow" /\ from \notin DOMAIN otab
    /\ pc' = "again"
    /\ otab' = <<>> /\ from' = 0
    /\ probe' = 0
    /\ UNCHANGED <<hash, tabledim, table, count, heap, request, answer>>

\* reset(): the pools and the table are freed, and the table starts anew.
Reset(dim) ==
    /\ pc = "idle"
    /\ tabledim' = dim
    /\ table' = NewTable(dim)
    /\ count' = 0
    /\ npools' = 0 /\ nfill' = 0
    /\ values' = [v \in {} |-> ""]
    /\ UNCHANGED <<hash, request, pc, probe, otab, from, answer>>

Work == Probe \/ Found \/ NotFound \/ Place \/ Grow \/ SkipEmpty \/ ProbeMoved \/ Move \/ Grown

Next ==
    \/ \E o \in {"lookup", "update", "insert"}, s \in Strings : Call(o, s)
    \/ Work
    \/ \E dim \in Dims : Reset(dim)

Spec == Init /\ [][Next]_vars

\* The compiler has one thread: a call that has begun goes on.
FairSpec == Spec /\ WF_vars(Work)

-----------------------------------------------------------------------------
Entry == [hash : Nat, vptr : Nat \X Nat]

TypeOK ==
    /\ hash \in [Strings -> Nat]
    /\ tabledim \in Nat \ {0}
    /\ table \in [0..tabledim - 1 -> Entry]
    /\ count \in Nat /\ npools \in Nat /\ nfill \in Nat
    /\ \A v \in DOMAIN values : v \in Nat \X Nat /\ v # None /\ values[v] \in Strings
    /\ pc \in {"idle", "find", "grow", "again"}
    /\ pc = "idle" => request = <<>>
    /\ pc # "idle" => request \in {"lookup", "update", "insert"} \X Strings
    /\ probe \in Nat /\ from \in Nat
    /\ pc = "grow" => DOMAIN otab = 0..(tabledim \div 2) - 1 /\ otab \in [DOMAIN otab -> Entry]
    /\ answer \in Nat \X Nat

\* The entries that count: those of the old table until it has been moved.
Current == IF pc = "grow" THEN otab ELSE table
Stored == {i \in DOMAIN Current : Used(Current[i])}

\* Every entry has the hash of its string, and no string has two entries.
OneEntryEach ==
    /\ \A i \in Stored : Current[i].vptr \in DOMAIN values
    /\ \A i \in Stored : Current[i].hash = hash[values[Current[i].vptr]]
    /\ \A i, k \in Stored : values[Current[i].vptr] = values[Current[k].vptr] => i = k

\* The strings in the pools do not overlap, and none goes beyond its pool,
\* except for one that is larger than a pool and has one of its own.
PoolsDisjoint ==
    /\ \A v, w \in DOMAIN values :
          v # w /\ v[1] = w[1] => \/ v[2] + Bytes[values[v]] <= w[2]
                                  \/ w[2] + Bytes[values[w]] <= v[2]
    /\ \A v \in DOMAIN values : v[2] = 0 \/ v[2] + Bytes[values[v]] <= PoolSize

\* The table is what InternTable promises.
dict ==
    [s \in {values[Current[i].vptr] : i \in Stored} |->
        Current[CHOOSE i \in Stored : values[Current[i].vptr] = s].vptr]

Interned == INSTANCE InternTable
InternSpec == Interned!Spec

\* Every call returns.
EveryCallReturns == pc # "idle" ~> pc = "idle"
=============================================================================
