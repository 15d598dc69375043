------------------------------ MODULE CtfeStack ------------------------------
(***************************************************************************)
(* The stack of the compile-time interpreter.                              *)
(*                                                                         *)
(* A variable holds its own address, so a recursive call has to save the   *)
(* address of each variable that it declares anew and to restore it at the *)
(* end.  A ref parameter is bound to a variable by name, and where that    *)
(* name belongs to the called function itself, by address.                 *)
(*                                                                         *)
(* A behaviour is a sequence of calls, declarations, assignments and ends  *)
(* of calls.  Beside the stack it keeps what the language says of          *)
(* variables: each activation of a function has its own, and a ref         *)
(* parameter is the variable that was passed.                              *)
(*                                                                         *)
(* Addresses are counted from 1; 0 is the -1 of a variable that is not on  *)
(* the stack.                                                              *)
(***************************************************************************)
EXTENDS Naturals, Sequences, FiniteSets

CONSTANTS
    Vars,           \* variables
    Functions,      \* functions
    Global,         \* the function of what is evaluated outside of any function
    FunctionOf,     \* toParent2() of a variable
    Params,         \* FuncDeclaration::parameters of a function
    RefParams,      \* the parameters that are ref or out
    Scoped,         \* wthis of a with statement, lengthVar of an index or a slice
    Data,           \* values
    Nil,            \* no value, no cell
    MaxCalls,       \* bound: activations in progress
    MaxStack        \* bound: entries of the stack

Owned(f) == {v \in Vars : FunctionOf[v] = f}
ParamsOf(f) == {Params[f][j] : j \in DOMAIN Params[f]}
Locals(f) == (Owned(f) \ ParamsOf(f)) \ Scoped

ASSUME ProgramAssumption ==
    /\ Global \in Functions
    /\ FunctionOf \in [Vars -> Functions]
    /\ Params \in [Functions -> Seq(Vars)]
    /\ \A f \in Functions : ParamsOf(f) \subseteq Owned(f) \ Scoped
    /\ \A f \in Functions : \A j, k \in DOMAIN Params[f] :
        Params[f][j] = Params[f][k] => j = k
    /\ \A v \in RefParams : \E f \in Functions : v \in ParamsOf(f)
    /\ Scoped \subseteq Vars
    /\ MaxCalls \in Nat \ {0} /\ MaxStack \in Nat

ASSUME ValueAssumption ==
    Data \cap Vars = {} /\ Nil \notin Data /\ Nil \notin Vars

VARIABLES
    values, vars, savedId,      \* the stack: value, variable, its address before
    frames, framepointer,       \* the frames that are suspended, and the current one
    address,                    \* ctfeAdrOnStack of each variable
    todo,                       \* the parameters interpretFunction() has yet to pass
    pushed,                     \* the first of them is on the stack already
    failed,                     \* an assertion has failed
    odd,                        \* a ref argument was a parameter of the called function
                                \* or was passed twice, see OwnParameter
    fds,                        \* the function of each activation
    opened,                     \* and its with statements, indices and slices in progress
    cells,                      \* and the cell that each variable names in it
    store,                      \* the value of each cell
    before                      \* the addresses at the beginning of each activation

stack == <<values, vars, savedId, address>>
frame == <<frames, framepointer>>
call == <<todo, pushed, failed, odd>>
language == <<fds, opened, cells, store, before>>
state == <<stack, frame, call, language>>

Depth == Len(fds)
fd == fds[Depth]

-----------------------------------------------------------------------------
(* CtfeStack                                                               *)

\* Fault: a variable that is on the stack is reused, whatever its frame.
OnStack(v) == address[v] # 0

\* "Already exists in this frame, reuse it."
InFrame(v) == address[v] > framepointer

\* push(v), and setValue(v, e) where the caller does it at once.
Push(v, e) ==
    IF InFrame(v)
    THEN /\ values' = [values EXCEPT ![address[v]] = e]
         /\ UNCHANGED <<vars, savedId>>
    ELSE /\ values' = Append(values, e)
         /\ vars' = Append(vars, v)
         /\ savedId' = Append(savedId, address[v])
Pushed(v) == IF InFrame(v) THEN address ELSE [address EXCEPT ![v] = Len(vars) + 1]

SetValue(a, e) == values' = [values EXCEPT ![a] = e]

Front(s) == SubSeq(s, 1, Len(s) - 1)

\* Fault: the variable is no longer on the stack, whatever its address was before.
PopForgets(v) ==
    /\ address' = [address EXCEPT ![v] = 0]
    /\ UNCHANGED <<values, vars, savedId>>

Pop(v) ==
    LET old == savedId[address[v]] IN
    /\ address' = [address EXCEPT ![v] = old]
    /\ IF old = Len(values)
       THEN values' = Front(values) /\ vars' = Front(vars) /\ savedId' = Front(savedId)
       ELSE UNCHANGED <<values, vars, savedId>>

\* popAll(framepointer): the address of a variable becomes what was saved with it,
\* for the last of its entries if there are several.
Entries(v) == {j \in framepointer + 1 .. Len(vars) : vars[j] = v}
Latest(indices) == CHOOSE j \in indices : \A k \in indices : k <= j
Unwound ==
    [v \in Vars |-> IF Entries(v) = {} THEN address[v] ELSE savedId[Latest(Entries(v))]]

HasValue(v) == address[v] # 0 /\ values[address[v]] # Nil

\* What a variable stands for: a ref parameter may hold another variable.
\* "Strip off the nest of ref variables".
Refers(v) == v \in RefParams /\ HasValue(v) /\ values[address[v]] \in Vars
Held(v) == values[address[v]]
Nest(v) ==
    {w \in Vars : \A S \in SUBSET Vars :
        v \in S /\ (\A u \in S : Refers(u) => Held(u) \in S) => w \in S}
Lvalue(v) == IF Refers(v) THEN CHOOSE w \in Nest(v) : ~Refers(w) ELSE v

\* Where the nest has no end, the interpreter does not come back.
Ends(v) == \E w \in Nest(v) : ~Refers(w)

Read(v) == IF address[Lvalue(v)] = 0 THEN Nil ELSE values[address[Lvalue(v)]]

-----------------------------------------------------------------------------
(* What the language says                                                  *)

\* A cell is named by the activation and the variable that it was made for.
Cells == (1..MaxCalls) \X Vars

Declared(v) == cells[Depth][v] # Nil
NewCell(v, e) ==
    /\ cells' = [cells EXCEPT ![Depth] = [cells[Depth] EXCEPT ![v] = <<Depth, v>>]]
    /\ store' = [store EXCEPT ![<<Depth, v>>] = e]

Init ==
    /\ values = <<>> /\ vars = <<>> /\ savedId = <<>>
    /\ frames = <<>> /\ framepointer = 0
    /\ address = [v \in Vars |-> 0]
    /\ todo = <<>> /\ pushed = FALSE /\ failed = FALSE /\ odd = FALSE
    /\ fds = <<Global>>
    /\ opened = <<<<>>>>
    /\ cells = <<[v \in Vars |-> Nil]>>
    /\ store = [c \in Cells |-> Nil]
    /\ before = <<address>>

Ready == todo = <<>> /\ ~failed
Room == Len(values) < MaxStack

-----------------------------------------------------------------------------
(* Calls                                                                   *)

\* The arguments: a value, or a variable of the caller that has one.
Passable == {v \in Owned(fd) \ Scoped : Declared(v) /\ Ends(v) /\ Read(v) # Nil}
Arguments(f) ==
    {args \in [DOMAIN Params[f] -> Data \cup Passable] :
        \A j \in DOMAIN args : args[j] \in Vars <=> Params[f][j] \in RefParams}
Earg(arg) == IF arg \in Vars THEN Lvalue(arg) ELSE arg

OwnParameter(f, args) ==
    \E j \in DOMAIN args :
        /\ args[j] \in Vars
        /\ FunctionOf[Lvalue(args[j])] = f
        /\ \/ Lvalue(args[j]) \in ParamsOf(f)
           \/ \E k \in DOMAIN args \ {j} :
                args[k] \in Vars /\ Lvalue(args[k]) = Lvalue(args[j])

\* startFrame(): "this is the moment when the 'call' actually takes place".
Call(f, args) ==
    /\ Ready /\ Depth < MaxCalls
    /\ frames' = Append(frames, framepointer)
    /\ framepointer' = Len(values)
    /\ todo' = [j \in DOMAIN args |-> [v |-> Params[f][j], e |-> Earg(args[j])]]
    /\ odd' = (odd \/ OwnParameter(f, args))
    /\ fds' = Append(fds, f)
    /\ opened' = Append(opened, <<>>)
    /\ cells' = Append(cells, [v \in Vars |->
            IF \E j \in DOMAIN args : Params[f][j] = v
            THEN LET arg == args[CHOOSE j \in DOMAIN args : Params[f][j] = v] IN
                 IF arg \in Vars THEN cells[Depth][arg] ELSE <<Depth + 1, v>>
            ELSE Nil])
    /\ store' = [c \in Cells |->
            IF c[1] = Depth + 1 /\ \E j \in DOMAIN args : Params[f][j] = c[2] /\ args[j] \in Data
            THEN args[CHOOSE j \in DOMAIN args : Params[f][j] = c[2]]
            ELSE store[c]]
    /\ before' = Append(before, address)
    /\ UNCHANGED <<stack, pushed, failed>>

PushParam ==
    /\ todo # <<>> /\ ~pushed /\ ~failed /\ Room
    /\ Push(Head(todo).v, Nil) /\ address' = Pushed(Head(todo).v)
    /\ pushed' = TRUE
    /\ UNCHANGED <<frame, todo, failed, odd, language>>

\* The argument is a variable of the called function.
Recursive(v, e) == v \in RefParams /\ FunctionOf[e] = fd

\* "The old value of vx on the stack in fd(1) should be saved at the start of
\* fd(2, vx) call", and the parameter takes over its address.
BindParam ==
    LET v == Head(todo).v
        vx == Head(todo).e IN
    /\ todo # <<>> /\ pushed /\ ~failed /\ Room
    /\ Recursive(v, vx)
    /\ Push(vx, Nil) /\ address' = [Pushed(vx) EXCEPT ![v] = address[vx]]
    /\ failed' = (address[vx] = 0 \/ values'[address[vx]] = Nil)
    /\ todo' = Tail(todo) /\ pushed' = FALSE
    /\ UNCHANGED <<frame, odd, language>>

\* "Value parameters and non-trivial references"
SetParam ==
    /\ todo # <<>> /\ pushed /\ ~failed
    /\ ~Recursive(Head(todo).v, Head(todo).e)
    /\ SetValue(address[Head(todo).v], Head(todo).e)
    /\ todo' = Tail(todo) /\ pushed' = FALSE
    /\ UNCHANGED <<vars, savedId, address, frame, failed, odd, language>>

EndFrame ==
    /\ Ready /\ Depth > 1 /\ opened[Depth] = <<>>
    /\ address' = Unwound
    /\ values' = SubSeq(values, 1, framepointer)
    /\ vars' = SubSeq(vars, 1, framepointer)
    /\ savedId' = SubSeq(savedId, 1, framepointer)
    /\ framepointer' = frames[Len(frames)]
    /\ frames' = Front(frames)
    /\ fds' = Front(fds) /\ opened' = Front(opened) /\ cells' = Front(cells)
    /\ before' = Front(before)
    /\ store' = [c \in Cells |-> IF c[1] = Depth THEN Nil ELSE store[c]]
    /\ UNCHANGED call

-----------------------------------------------------------------------------
(* In a function                                                           *)

Declare(v) ==
    /\ Ready /\ Room
    /\ Push(v, Nil) /\ address' = Pushed(v)
    /\ NewCell(v, Nil)
    /\ UNCHANGED <<frame, call, fds, opened, before>>

Assign(v, d) ==
    /\ Ready /\ Declared(v) /\ Ends(v) /\ address[Lvalue(v)] # 0
    /\ SetValue(address[Lvalue(v)], d)
    /\ store' = [store EXCEPT ![cells[Depth][v]] = d]
    /\ UNCHANGED <<vars, savedId, address, frame, call, fds, opened, cells, before>>

\* A with statement, an index or a slice, while its body or its operand runs.
ScopeBegin(v, d) ==
    /\ Ready /\ Room /\ \A j \in DOMAIN opened[Depth] : opened[Depth][j] # v
    /\ Push(v, d) /\ address' = Pushed(v)
    /\ NewCell(v, d)
    /\ opened' = [opened EXCEPT ![Depth] = Append(opened[Depth], v)]
    /\ UNCHANGED <<frame, call, fds, before>>

ScopeEnd ==
    LET v == opened[Depth][Len(opened[Depth])] IN
    /\ Ready /\ opened[Depth] # <<>>
    /\ Pop(v)
    /\ opened' = [opened EXCEPT ![Depth] = Front(opened[Depth])]
    /\ cells' = [cells EXCEPT ![Depth] = [cells[Depth] EXCEPT ![v] = Nil]]
    /\ store' = [store EXCEPT ![<<Depth, v>>] = Nil]
    /\ UNCHANGED <<frame, call, fds, before>>

Next ==
    \/ \E f \in Functions \ {Global} : \E args \in Arguments(f) : Call(f, args)
    \/ PushParam \/ BindParam \/ SetParam
    \/ EndFrame
    \/ \E v \in Locals(fd) : Declare(v)
    \/ \E v \in Owned(fd) \ Scoped, d \in Data : Assign(v, d)
    \/ \E v \in Owned(fd) \cap Scoped, d \in Data : ScopeBegin(v, d)
    \/ ScopeEnd

Spec == Init /\ [][Next]_state

-----------------------------------------------------------------------------
(* Properties                                                              *)

Entry == Data \cup Vars \cup {Nil}
TypeOK ==
    /\ values \in Seq(Entry) /\ vars \in Seq(Vars) /\ savedId \in Seq(Nat)
    /\ Len(vars) = Len(values) /\ Len(savedId) = Len(values)
    /\ frames \in Seq(Nat) /\ framepointer \in Nat
    /\ address \in [Vars -> Nat]
    /\ todo \in Seq([v : Vars, e : Data \cup Vars])
    /\ pushed \in BOOLEAN /\ failed \in BOOLEAN /\ odd \in BOOLEAN
    /\ fds \in Seq(Functions) /\ fds # <<>>
    /\ opened \in Seq(Seq(Vars)) /\ cells \in Seq([Vars -> Cells \cup {Nil}])
    /\ store \in [Cells -> Data \cup {Nil}]
    /\ before \in Seq([Vars -> Nat])

\* However a call ends, the variables get back the addresses that they had when it
\* began: "the previous stack address of that variable, so that we can restore it
\* when we leave the stack frame".  Once a call was passed one of its own parameters
\* by reference, or the same local twice, this is so of all variables but parameters.
Sound(v) == ~odd \/ \A f \in Functions : v \notin ParamsOf(f)
Restored == \A v \in Vars : Sound(v) => Unwound[v] = before[Depth][v]

\* At every moment the current activation reads from each of its variables what the
\* language says it holds, and the assertions on ref parameters hold.  Not after a
\* call that was passed one of its own parameters by reference, or the same local twice.
OwnValues ==
    ~odd => /\ ~failed
            /\ Ready => \A v \in Owned(fd) : Declared(v) => Ends(v) /\ Read(v) = store[cells[Depth][v]]

\* What the comment on the stack says, of every call.
AlwaysRestored == Unwound = before[Depth]
=============================================================================
