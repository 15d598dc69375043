------------------------------ MODULE IntRange ------------------------------
(***************************************************************************)
(* Value range propagation: intrange.cpp and getIntRange() of dcast.cpp.   *)
(* A range is kept for an integral expression; a range inside a narrower   *)
(* type makes an implicit conversion legal, and a range inside the bounds  *)
(* of an array drops the check of an index.  A state is an expression so   *)
(* far: its type, the range the compiler has for it, and the values it     *)
(* really can have.                                                        *)
(*                                                                         *)
(* SignExtendedNumber, a value of so many bits and a sign, is the integer  *)
(* it stands for; Val and Neg are its fields and Num puts one together.    *)
(***************************************************************************)
EXTENDS Integers, SequencesExt, FiniteSetsExt

CONSTANTS
    Machines,       \* the sizes of numbers and types to choose from, see IsMachine
    CountType       \* the type of the count of a shift

(***************************************************************************)
(* A machine has uinteger_t of `width' bits and integral types [bits,      *)
(* signed]; its expressions are made of the given operators, with          *)
(* maxSteps of them as a bound.                                            *)
(***************************************************************************)
IsMachine(m) ==
    /\ m.width \in Nat \ {0} /\ m.maxSteps \in Nat
    /\ m.types \cup {CountType} \subseteq [bits : 1..m.width, signed : BOOLEAN]
    /\ \A o \in m.operators : o \in STRING

ASSUME MachineAssumption == \A m \in Machines : IsMachine(m)

VARIABLES
    type,           \* of the expression
    range,          \* getIntRange() of it
    values,         \* what it can evaluate to
    steps,          \* operators applied
    machine         \* the machine it is compiled for

vars == <<type, range, values, steps, machine>>

Width == machine.width
Types == machine.types
Operators == machine.operators

M == 2^Width
UMax == M - 1

Val(x) == x % M
Neg(x) == x < 0
Num(value, negative) == IF negative THEN value - M ELSE value

NumMin == Num(0, TRUE)
NumMax == UMax

extreme(minimum) == IF minimum THEN NumMin ELSE NumMax

\* copySign() makes the absolute value of a number; it is 0 for the least one.
Abs(x) == IF Neg(x) THEN (-Val(x)) % M ELSE Val(x)
WithSign(v, negative) == IF negative THEN -v ELSE v

-----------------------------------------------------------------------------
(***************************************************************************)
(* SignExtendedNumber                                                      *)
(***************************************************************************)
NumCom(x) == IF Val(x) = UMax THEN 0 ELSE Num(UMax - Val(x), ~Neg(x))

NumNeg(x) ==
    IF Val(x) = 0 THEN IF Neg(x) THEN NumMax ELSE 0
    ELSE Num(M - Val(x), ~Neg(x))

NumAdd(x, y) ==
    LET sum == (Val(x) + Val(y)) % M
        carry == sum < Val(x) /\ sum < Val(y)
    IN  IF Neg(x) # Neg(y) THEN Num(sum, ~carry)
        ELSE IF Neg(x) THEN Num(IF carry THEN sum ELSE 0, TRUE)
        ELSE IF carry THEN NumMax ELSE sum

NumSub(x, y) ==
    IF y = NumMin THEN IF Neg(x) THEN Val(x) ELSE NumMax
    ELSE NumAdd(x, NumNeg(y))

\* One of the two is 0 or the least number.
MulZero(x, y) ==
    IF ~Neg(x) THEN x
    ELSE IF Neg(y) THEN NumMax
    ELSE IF Val(y) = 0 THEN y
    ELSE x

NumMul(x, y) ==
    LET negative == Neg(x) # Neg(y)
    IN  IF Val(x) = 0 THEN MulZero(x, y)
        ELSE IF Val(y) = 0 THEN MulZero(y, x)
        ELSE IF UMax \div Abs(x) < Abs(y) THEN extreme(negative)
        ELSE WithSign(Abs(x) * Abs(y), negative)

IsPowerOfTwo(v) == \E k \in 0..Width : v = 2^k

NumDiv(x, y) ==
    LET a == Abs(y)
        quotient == IF x # NumMin THEN Abs(x) \div a
                    ELSE IF IsPowerOfTwo(a) THEN M \div a
                    ELSE UMax \div a
    IN  IF y = NumMin THEN IF x = NumMin THEN 1 ELSE 0
        ELSE IF y = 0 THEN extreme(Neg(x))
        ELSE IF x = NumMin /\ a = 1 THEN extreme(~Neg(y))
        ELSE WithSign(quotient, Neg(x) # Neg(y))

Log2(v) == CHOOSE k \in 0..Width : 2^k <= v /\ v < 2^(k + 1)

NumShl(x, y) ==
    IF Val(x) = 0 THEN x
    ELSE IF Neg(y) THEN extreme(Neg(x))
    ELSE IF y > Width - 1 - Log2(Abs(x)) THEN extreme(Neg(x))
    ELSE Num((Val(x) * 2^y) % M, Neg(x))

NumShr(x, y) ==
    IF Neg(y) \/ y > Width - 1 THEN IF Neg(x) THEN -1 ELSE 0
    ELSE x \div 2^y

-----------------------------------------------------------------------------
(***************************************************************************)
(* IntRange                                                                *)
(***************************************************************************)
Interval(lower, upper) == [imin |-> lower, imax |-> upper]

widest == Interval(NumMin, NumMax)

contains(r, s) == r.imin <= s.imin /\ r.imax >= s.imax

SizeMask(t) == 2^t.bits - 1

FromType(t) ==
    IF t.signed THEN Interval(-(2^(t.bits - 1)), 2^(t.bits - 1) - 1)
    ELSE Interval(0, SizeMask(t))

fromNumbers(ns) == Interval(Min(ns), Max(ns))

\* The bits of the value above those of mask, and those below.
Chunk(x, mask) == Val(x) - (Val(x) % (mask + 1))
Masked(x, mask) == Val(x) % (mask + 1)

\* Fault: only the sign is compared, not the chunk.
castSameSign(r, mask) ==
    IF Neg(r.imin) = Neg(r.imax)
    THEN Interval(Masked(r.imin, mask), Masked(r.imax, mask))
    ELSE Interval(0, mask)

castUnsigned(r, mask) ==
    IF Chunk(r.imin, mask) = Chunk(r.imax, mask) /\ Neg(r.imin) = Neg(r.imax)
    THEN Interval(Masked(r.imin, mask), Masked(r.imax, mask))
    ELSE Interval(0, mask)

\* Chunks of a signed type begin in the middle of those of the unsigned one:
\* the value of the chunk, and its sign, -1 for the one that holds the greatest
\* number.
HalfChunk(x, mask) ==
    LET half == mask \div 2
        chunk == Chunk(x, half)
        sign == IF Neg(x) THEN 1 ELSE 0
        moved == (chunk + half + 1) % M
    IN  IF Masked(chunk, mask) = 0 THEN <<chunk, sign>>
        ELSE <<moved, IF moved = 0 THEN sign - 1 ELSE sign>>

SignExtend(v, half) == IF v > half THEN v - 2 * (half + 1) ELSE v

castSigned(r, mask) ==
    LET half == mask \div 2
    IN  IF HalfChunk(r.imin, mask) = HalfChunk(r.imax, mask)
        THEN Interval(SignExtend(Masked(r.imin, mask), half), SignExtend(Masked(r.imax, mask), half))
        ELSE Interval(-(half + 1), half)

Cast(r, t) == IF t.signed THEN castSigned(r, SizeMask(t)) ELSE castUnsigned(r, SizeMask(t))

absNeg(r) ==
    IF Neg(r.imax) THEN r
    ELSE IF ~Neg(r.imin) THEN Interval(NumNeg(r.imax), NumNeg(r.imin))
    ELSE Interval(Min({NumNeg(r.imax), r.imin}), 0)

unionWith(r, s) == Interval(Min({r.imin, s.imin}), Max({r.imax, s.imax}))

RangeNeg(r) == Interval(NumNeg(r.imax), NumNeg(r.imin))
RangeCom(r) == Interval(NumCom(r.imax), NumCom(r.imin))

RangeAdd(r, s) == Interval(NumAdd(r.imin, s.imin), NumAdd(r.imax, s.imax))
\* Fault: the bounds of the second operand are not exchanged.
RangeSubStraight(r, s) == Interval(NumSub(r.imin, s.imin), NumSub(r.imax, s.imax))

RangeSub(r, s) == Interval(NumSub(r.imin, s.imax), NumSub(r.imax, s.imin))

Corners(r, s) == {r.imin, r.imax} \X {s.imin, s.imax}

\* The results at the four corners.
RangeMul(r, s) == fromNumbers({NumMul(c[1], c[2]) : c \in Corners(r, s)})

\* A bound that is zero is moved by one, the sign staying what it was.
WithoutZero(s) ==
    IF Val(s.imax) = 0 THEN [s EXCEPT !.imax = Num(UMax, Neg(s.imax))]
    ELSE IF Val(s.imin) = 0 THEN [s EXCEPT !.imin = Num(1, Neg(s.imin))]
    ELSE s

RangeDiv(r, s) ==
    LET d == WithoutZero(s)
    IN  IF Val(s.imax) = 0 /\ Val(s.imin) = 0 THEN widest
        ELSE IF ~Neg(r.imin) /\ ~Neg(r.imax) /\ ~Neg(d.imin) /\ ~Neg(d.imax)
        THEN Interval(NumDiv(r.imin, d.imax), NumDiv(r.imax, d.imin))
        ELSE fromNumbers({NumDiv(c[1], c[2]) : c \in Corners(r, d)})

RangeMod(r, s) ==
    LET least == NumAdd(absNeg(s).imin, 1)
        greatest == NumNeg(least)
    IN  Interval(IF ~Neg(r.imin) THEN 0 ELSE Max({r.imin, least}),
              IF Neg(r.imax) THEN 0 ELSE Min({r.imax, greatest}))

ShiftCount(s) == IF Neg(s.imin) THEN Interval(0, Width) ELSE s

RangeShl(r, s) ==
    LET c == ShiftCount(s)
    IN  Interval(NumShl(r.imin, IF Neg(r.imin) THEN c.imax ELSE c.imin),
              NumShl(r.imax, IF Neg(r.imax) THEN c.imin ELSE c.imax))

RangeShr(r, s) ==
    LET c == ShiftCount(s)
    IN  Interval(NumShr(r.imin, IF Neg(r.imin) THEN c.imin ELSE c.imax),
              NumShr(r.imax, IF Neg(r.imax) THEN c.imax ELSE c.imin))

-----------------------------------------------------------------------------
(***************************************************************************)
(* The bounds of & and |, bit by bit from the most significant one.        *)
(***************************************************************************)
Bit(v, d) == (v \div d) % 2 = 1
BitMasks == [i \in 1..Width |-> 2^(Width - i)]

\* The lower bits of v set.
Filled(v, d) == v - (v % d) + d - 1

\* Fault: the least values are not reset when a bit is taken.
OrBitNoReset(s, d, lmax, rmax) ==
    IF s.done THEN s
    ELSE IF Bit(lmax, d) # Bit(rmax, d) \/ (Bit(s.l, d) /\ Bit(s.r, d))
    THEN [s EXCEPT !.x = @ + d]
    ELSE IF Bit(lmax, d) /\ Bit(rmax, d) THEN [s EXCEPT !.x = @ + 2 * d - 1, !.done = TRUE]
    ELSE s

\* One bit of maxOr(): s holds the result x, and the least values still open.
OrBit(s, d, lmax, rmax) ==
    IF s.done THEN s
    ELSE IF Bit(lmax, d) # Bit(rmax, d)
    THEN [s EXCEPT !.x = @ + d,
                   !.l = IF Bit(lmax, d) /\ ~Bit(@, d) THEN 0 ELSE @,
                   !.r = IF Bit(rmax, d) /\ ~Bit(@, d) THEN 0 ELSE @]
    ELSE IF Bit(s.l, d) /\ Bit(s.r, d) THEN [s EXCEPT !.x = @ + d]
    ELSE IF Bit(lmax, d) /\ Bit(rmax, d) THEN [s EXCEPT !.x = @ + 2 * d - 1, !.done = TRUE]
    ELSE s

maxOr(l, r) ==
    LET lmax == Val(l.imax)  rmax == Val(r.imax)
        differ == Neg(l.imax) # Neg(r.imax)
        reset == differ /\ Neg(l.imax)
        start == [x |-> 0, done |-> FALSE,
                  l |-> IF reset /\ ~Neg(l.imin) THEN 0 ELSE Val(l.imin),
                  r |-> IF reset /\ ~Neg(r.imin) THEN 0 ELSE Val(r.imin)]
        sign == differ \/ (Neg(l.imin) /\ Neg(r.imin))
    IN  IF ~sign /\ Neg(l.imax) /\ Neg(r.imax) THEN NumMax
        ELSE Num(FoldLeft(LAMBDA s, d : OrBit(s, d, lmax, rmax), start, BitMasks).x, sign)

AndBit(s, d) ==
    IF Bit(s.lmax, d) /\ Bit(s.rmax, d)
    THEN [s EXCEPT !.x = @ + d,
                   !.lmin = IF Bit(@, d) THEN @ ELSE 0,
                   !.rmin = IF Bit(@, d) THEN @ ELSE 0]
    ELSE IF ~Bit(s.lmin, d) /\ Bit(s.lmax, d) THEN [s EXCEPT !.lmax = Filled(@, d)]
    ELSE IF ~Bit(s.rmin, d) /\ Bit(s.rmax, d) THEN [s EXCEPT !.rmax = Filled(@, d)]
    ELSE s

maxAnd(l, r) ==
    LET start == [x |-> 0, lmin |-> Val(l.imin), lmax |-> Val(l.imax),
                           rmin |-> Val(r.imin), rmax |-> Val(r.imax)]
    IN  Num(FoldLeft(AndBit, start, BitMasks).x, Neg(l.imax) /\ Neg(r.imax))

minAnd(l, r) == NumCom(maxOr(RangeCom(l), RangeCom(r)))
minOr(l, r) == NumCom(maxAnd(RangeCom(l), RangeCom(r)))

Spans(r) == Neg(r.imin) # Neg(r.imax)

Negative(r) == Interval(r.imin, UMax)      \* SignExtendedNumber(-1) is positive
NonNegative(r) == Interval(0, r.imax)

RangeAnd(r, s) ==
    IF ~Spans(r) /\ ~Spans(s) THEN Interval(minAnd(r, s), maxAnd(r, s))
    ELSE IF Spans(r) /\ Spans(s)
    THEN Interval(minAnd(Interval(r.imin, -1), Interval(s.imin, -1)),
               IF Val(r.imax) > Val(s.imax) THEN r.imax ELSE s.imax)
    ELSE LET one == IF Spans(r) THEN s ELSE r
             both == IF Spans(r) THEN r ELSE s
         IN  Interval(Min({minAnd(one, Negative(both)), minAnd(one, NonNegative(both))}),
                   Max({maxAnd(one, Negative(both)), maxAnd(one, NonNegative(both))}))

RangeOr(r, s) ==
    IF ~Spans(r) /\ ~Spans(s) THEN Interval(minOr(r, s), maxOr(r, s))
    ELSE IF Spans(r) /\ Spans(s)
    THEN Interval(IF Val(r.imin) < Val(s.imin) THEN r.imin ELSE s.imin,
               maxOr(Interval(0, r.imax), Interval(0, s.imax)))
    ELSE LET one == IF Spans(r) THEN s ELSE r
             both == IF Spans(r) THEN r ELSE s
         IN  Interval(Min({minOr(one, Negative(both)), minOr(one, NonNegative(both))}),
                   Max({maxOr(one, Negative(both)), maxOr(one, NonNegative(both))}))

RangeXor(r, s) == RangeOr(RangeAnd(r, RangeCom(s)), RangeAnd(RangeCom(r), s))

-----------------------------------------------------------------------------
(***************************************************************************)
(* What the operators evaluate to.                                         *)
(***************************************************************************)
Numbers(r) == r.imin..r.imax

\* The number of type t that has the lower bits of x.
Wrap(t, x) ==
    LET v == x % 2^t.bits
    IN  IF t.signed /\ v >= 2^(t.bits - 1) THEN v - 2^t.bits ELSE v

AbsInt(x) == IF x < 0 THEN -x ELSE x
Quotient(x, y) == WithSign(AbsInt(x) \div AbsInt(y), Neg(x) # Neg(y))
Remainder(x, y) == x - y * Quotient(x, y)

\* A division by 0, and of the least number by -1, does not evaluate.
Divides(t, x, y) == y # 0 /\ ~(t.signed /\ x = FromType(t).imin /\ y = -1)

\* The bitwise operators, on the powers of two that a number is made of.
BitsOf(x) == {d \in {2^i : i \in 0..Width - 1} : Bit(Val(x), d)}
AndBits(x, y) == SumSet(BitsOf(x) \cap BitsOf(y))
OrBits(x, y) == SumSet(BitsOf(x) \cup BitsOf(y))
XorBits(x, y) == SumSet(SymDiff(BitsOf(x), BitsOf(y)))

-----------------------------------------------------------------------------
(***************************************************************************)
(* Expressions: a variable with a known range, and operators over it and   *)
(* a second operand of the same type.                                      *)
(***************************************************************************)
Ranges(t) == {Interval(lo, hi) : lo \in Numbers(FromType(t)), hi \in Numbers(FromType(t))}
Proper(r) == r.imin <= r.imax

Init ==
    /\ machine \in Machines
    /\ type \in Types
    /\ range \in {r \in Ranges(type) : Proper(r)}
    /\ values = Numbers(range)
    /\ steps = 0

Result(t, r, vs) ==
    /\ steps < machine.maxSteps
    /\ steps' = steps + 1
    /\ UNCHANGED machine
    /\ type' = t
    /\ range' = Cast(r, t)
    /\ values' = vs

Pairs(s) == values \X Numbers(s)

Add(s) == Result(type, RangeAdd(range, s), {Wrap(type, p[1] + p[2]) : p \in Pairs(s)})
Sub(s) == Result(type, RangeSub(range, s), {Wrap(type, p[1] - p[2]) : p \in Pairs(s)})
Mul(s) == Result(type, RangeMul(range, s), {Wrap(type, p[1] * p[2]) : p \in Pairs(s)})

Div(s) ==
    Result(type, RangeDiv(range, s),
           {Quotient(p[1], p[2]) : p \in {q \in Pairs(s) : Divides(type, q[1], q[2])}})

\* A divisor that may only be 0 tells nothing.
Mod(s) ==
    Result(type, IF Neg(absNeg(s).imin) THEN RangeMod(range, s) ELSE FromType(type),
           {Remainder(p[1], p[2]) : p \in {q \in Pairs(s) : Divides(type, q[1], q[2])}})

And(s) == Result(type, RangeAnd(range, s), {Wrap(type, AndBits(p[1], p[2])) : p \in Pairs(s)})
Or(s)  == Result(type, RangeOr(range, s),  {Wrap(type, OrBits(p[1], p[2])) : p \in Pairs(s)})
Xor(s) == Result(type, RangeXor(range, s), {Wrap(type, XorBits(p[1], p[2])) : p \in Pairs(s)})

\* The count has a type of its own; one that is too large does not evaluate.
Counts(s) == {p \in Pairs(s) : p[2] \in 0..type.bits - 1}

Shl(s) == Result(type, RangeShl(range, s), {Wrap(type, p[1] * 2^p[2]) : p \in Counts(s)})
Shr(s) == Result(type, RangeShr(range, s), {p[1] \div 2^p[2] : p \in Counts(s)})

Ushr(s) ==
    Result(type, RangeShr(castUnsigned(range, SizeMask(type)), s),
           {Wrap(type, (p[1] % 2^type.bits) \div 2^p[2]) : p \in Counts(s)})

Negate == Result(type, RangeNeg(range), {Wrap(type, -x) : x \in values})
Complement == Result(type, Interval(-1 - range.imax, -1 - range.imin), {Wrap(type, -1 - x) : x \in values})

Cond(s) == Result(type, unionWith(range, s), values \cup Numbers(s))

Convert(t) == Result(t, range, {Wrap(t, x) : x \in values})

Operands == {r \in Ranges(type) : Proper(r)}
ShiftCounts == {r \in Ranges(CountType) : Proper(r)}

Next ==
    \/ "+" \in Operators /\ \E s \in Operands : Add(s)
    \/ "-" \in Operators /\ \E s \in Operands : Sub(s)
    \/ "*" \in Operators /\ \E s \in Operands : Mul(s)
    \/ "/" \in Operators /\ \E s \in Operands : Div(s)
    \/ "%" \in Operators /\ \E s \in Operands : Mod(s)
    \/ "&" \in Operators /\ \E s \in Operands : And(s)
    \/ "|" \in Operators /\ \E s \in Operands : Or(s)
    \/ "^" \in Operators /\ \E s \in Operands : Xor(s)
    \/ "?:" \in Operators /\ \E s \in Operands : Cond(s)
    \/ "<<" \in Operators /\ \E s \in ShiftCounts : Shl(s)
    \/ ">>" \in Operators /\ \E s \in ShiftCounts : Shr(s)
    \/ ">>>" \in Operators /\ \E s \in ShiftCounts : Ushr(s)
    \/ "u-" \in Operators /\ Negate
    \/ "~" \in Operators /\ Complement
    \/ "cast" \in Operators /\ \E t \in Types : Convert(t)

Spec == Init /\ [][Next]_vars

-----------------------------------------------------------------------------
TypeOK ==
    /\ type \in Types
    /\ Proper(range) /\ contains(FromType(type), range)
    /\ values \subseteq Numbers(FromType(type))
    /\ steps \in 0..machine.maxSteps

\* Whatever the expression can evaluate to lies in its range: an implicit
\* narrowing loses nothing, and an index without a check is in bounds.
Sound == values \subseteq Numbers(range)

\* The bounds of a sum, a difference, a conjunction or a disjunction of unsigned
\* operands are no wider than they have to be: both are values that occur.
ExactOperators == {"+", "-", "&", "|"}
Exact ==
    steps <= 1 /\ Operators \subseteq ExactOperators /\ (\A t \in Types : ~t.signed) =>
        {range.imin, range.imax} \subseteq values
=============================================================================
