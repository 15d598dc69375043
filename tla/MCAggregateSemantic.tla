------------------------ MODULE MCAggregateSemantic ------------------------
(* Small programs for AggregateSemantic: Object and three declarations.    *)
EXTENDS AggregateSemantic

CONSTANTS Obj, A, B, C, Null

MCDecls == {Obj, A, B, C}
Users == {A, B, C}

Ref(c) == [sym |-> c, via |-> Null]
RefVia(c, v) == [sym |-> c, via |-> v]
Method == [what |-> "method", d |-> Null, owner |-> Null]
Inst == [what |-> "inst", d |-> Null, owner |-> Null]
Lookup(c, o) == [what |-> "lookup", d |-> c, owner |-> o]
Field(c) == [what |-> "field", d |-> c, owner |-> Null]
Decl(c) == [what |-> "decl", d |-> c, owner |-> Null]
Plain == <<Method>>

(* choice[d] is [kind, bases, mem]; Object is an ordinary class.           *)
Program(choice, opaque, objmem, module) ==
  [kind |-> [d \in MCDecls |-> IF d = Obj THEN "class" ELSE choice[d].kind],
   opaque |-> opaque,
   bases |-> [d \in MCDecls |-> IF d = Obj THEN <<>> ELSE choice[d].bases],
   members |-> [d \in MCDecls |-> IF d = Obj THEN objmem ELSE choice[d].mem],
   module |-> module]

Choices(kinds, bases, mems) == [kind : kinds, bases : bases, mem : mems]
InOrder == <<Decl(Obj), Decl(A), Decl(B), Decl(C)>>
Backwards == <<Decl(Obj), Decl(C), Decl(B), Decl(A)>>

OneBase == {<<Ref(c)>> : c \in Users}
NoneOrOne == {<<>>} \cup OneBase
Lookups1 == {<<Lookup(c, c), Method>> : c \in {A, B}}

(* Classes with at most one base.  A class without a base may look a       *)
(* member of some class up; a base type may be resolved through a lookup.  *)
ClassChoices ==
  Choices({"class"}, {<<>>}, {Plain} \cup Lookups1)
  \cup Choices({"class"}, OneBase \cup {<<RefVia(c, v)>> : c \in {B, C}, v \in {A, C}},
               {Plain})
ClassPrograms ==
  {Program(f, {}, Plain, InOrder) : f \in [Users -> ClassChoices]}

(* A class over two interfaces, with duplicates and circles, in two orders *)
(* of declaration.  (<<x, x, x>> fails, see the README.)                   *)
IfaceChoices(mems) ==
  Choices({"iface"}, NoneOrOne \cup {<<Ref(C), Ref(B)>>}, mems)
DiamondChoices ==
  Choices({"class"},
          {<<>>, <<Ref(B)>>, <<Ref(B), Ref(C)>>, <<Ref(C), Ref(B)>>,
           <<Ref(B), Ref(A)>>, <<Ref(B), Ref(B)>>, <<RefVia(B, C), Ref(C)>>},
          {Plain, <<Inst, Lookup(C, C), Method>>})
DiamondPrograms ==
  {Program([d \in Users |-> IF d = A THEN a ELSE IF d = B THEN b ELSE c], {}, Plain, m) :
     a \in DiamondChoices,
     b \in IfaceChoices({Plain, <<Lookup(A, A), Method>>}),
     c \in IfaceChoices({Plain, <<Lookup(A, B), Method>>}),
     m \in {InOrder, Backwards}}

(* An opaque declaration has neither bases nor members.                    *)
Opaque(choice, opaque) ==
  [d \in Users |-> IF d \in opaque THEN [kind |-> choice[d].kind, bases |-> <<>>, mem |-> <<>>]
                   ELSE choice[d]]

(* Structs as fields, opaque declarations, template instances.             *)
StructChoices ==
  Choices({"struct"}, {<<>>},
          {<<>>, <<Field(B)>>, <<Field(C)>>, <<Lookup(A, A), Field(C)>>, <<Inst>>})
FieldChoices ==
  Choices({"class", "iface"}, {<<>>, <<Ref(C)>>}, {<<Inst, Method>>, <<Lookup(B, B), Method>>})
  \cup Choices({"class", "struct"}, {<<>>}, {<<Field(B), Method>>, <<Method, Inst, Field(B)>>})
ThirdChoices ==
  Choices({"struct"}, {<<>>}, {<<>>, <<Field(B)>>, <<Inst, Lookup(A, A)>>})
  \cup Choices({"class", "iface"}, {<<>>, <<Ref(A)>>, <<Ref(B)>>, <<RefVia(A, B)>>},
               {<<Inst, Method>>, <<Lookup(A, A), Method>>})
FieldPrograms ==
  {Program(Opaque([d \in Users |-> IF d = A THEN a ELSE IF d = B THEN b ELSE c], o[1]),
           o[1], o[2], o[3]) :
     a \in FieldChoices, b \in StructChoices, c \in ThirdChoices,
     o \in {<<{}, Plain, InOrder>>,
            <<{}, Plain, <<Decl(Obj), Decl(C), Lookup(A, A), Decl(A), Decl(B)>>>>,
            <<{C}, Plain, <<Decl(C), Decl(B), Decl(A), Decl(Obj)>>>>,
            <<{B}, <<Lookup(B, B), Method>>, <<Decl(C), Decl(B), Decl(A), Decl(Obj)>>>>}}

MCPrograms == ClassPrograms \cup DiamondPrograms \cup FieldPrograms
=============================================================================
