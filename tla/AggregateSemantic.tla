------------------------- MODULE AggregateSemantic -------------------------
(***************************************************************************)
(* The first semantic pass over classes, interfaces and structs, with      *)
(* forward references (dsymbolsem.cpp, dclass.cpp, dstruct.cpp,            *)
(* dmodule.cpp, mars.cpp).                                                 *)
(*                                                                         *)
(* dsymbolSemantic() is recursive and re-entrant: resolving a base class   *)
(* runs the semantic() of that class, looking a name up in a class may run *)
(* its semantic(), and a template instance among the members drains the    *)
(* queue of deferred symbols.  The recursion is an explicit stack of       *)
(* activations; an action is one stretch of code between two calls that    *)
(* can re-enter.  Every local variable that lives across such a call (the  *)
(* index, the BaseClass pointer, the saved scope, the error count) is a    *)
(* field of the activation.                                                *)
(*                                                                         *)
(* The declarations of the compiled module are a record chosen in Init:    *)
(*   kind     class, iface or struct                                       *)
(*   opaque   the declarations without a body                              *)
(*   bases    the base list as written; "via" is an aggregate in which a   *)
(*            name is looked up while the base type is resolved            *)
(*   members  the members that matter to the order of analysis             *)
(*   module   the members of the module, every declaration among them      *)
(***************************************************************************)
EXTENDS Integers, Sequences, FiniteSets

CONSTANTS
  Decls,      (* The aggregate declarations of the program.               *)
  Object,     (* The class of object.d every D class derives from.        *)
  NoDecl,     (* The null pointer.                                        *)
  Programs    (* The programs Init chooses from.                          *)

Kinds == {"class", "iface", "struct"}
MaybeDecl == Decls \cup {NoDecl}

(* A member: "lookup" names owner's member through d, "field" is a field   *)
(* of struct type d, "method" a virtual function, "inst" a template        *)
(* instance or mixin (expandMembers), "decl" a declaration of the module.  *)
Items == [what : {"decl", "lookup", "field", "method", "inst"},
          d : MaybeDecl, owner : MaybeDecl]

BaseRefs == [sym : Decls, via : MaybeDecl]

NamesDecl(item) == item.what \in {"decl", "lookup", "field"} => item.d \in Decls

IsProgram(p) ==
  /\ p \in [kind : [Decls -> Kinds], opaque : SUBSET Decls,
            bases : [Decls -> Seq(BaseRefs)],
            members : [Decls -> Seq(Items)], module : Seq(Items)]
  /\ p.kind[Object] = "class" /\ p.bases[Object] = <<>>
  /\ \A d \in p.opaque : p.bases[d] = <<>> /\ p.members[d] = <<>>
  /\ \A k \in 1..Len(p.module) : NamesDecl(p.module[k])
  /\ \A d \in Decls : \E k \in 1..Len(p.module) :
       p.module[k].what = "decl" /\ p.module[k].d = d
  /\ \A d \in Decls : \A k \in 1..Len(p.members[d]) : NamesDecl(p.members[d][k])

ASSUME ConstantsAssumption ==
  /\ Object \in Decls
  /\ NoDecl \notin Decls
  /\ \A p \in Programs : IsProgram(p)

VARIABLES
  prog,       (* The program under analysis; never changes.                *)
  ag,         (* The fields of each AggregateDeclaration.                  *)
  btype,      (* BaseClass::type of the k-th written base.                 *)
  bsym,       (* The written bases whose BaseClass::sym is set.            *)
  deferred,   (* Module::deferred                                          *)
  dprogress,  (* Module::dprogress is not zero                             *)
  nested,     (* runDeferredSemantic's static int nested                   *)
  errors,     (* global.errors                                             *)
  found,      (* What the last search() returned.                          *)
  stack,      (* The activations, innermost last.                          *)
  phase       (* Where the driver is.                                      *)

vars == <<prog, ag, btype, bsym, deferred, dprogress, nested, errors, found,
          stack, phase>>

----------------------------------------------------------------------------
(* Declarations and their bases.                                           *)

(* A BaseClass object is named by its position in the written list; 0 is   *)
(* the BaseClass made for the implicit Object.                             *)
BaseDecl(d, k) == IF k = 0 THEN Object ELSE prog.bases[d][k].sym
HasSym(d, k) == k = 0 \/ k \in bsym[d]
BaseList(d) == ag[d].baseclasses
Elems(s) == {s[j] : j \in 1..Len(s)}

IsClass(d) == prog.kind[d] = "class"
IsIface(d) == prog.kind[d] = "iface"
IsStruct(d) == prog.kind[d] = "struct"
IsDone(d) == ag[d].semanticRun = "done"
BasesOpen(d) == ag[d].baseok \in {"none", "in"}    \* baseok < BASEOKdone

(* The declarations d derives from by the edges established so far.        *)
SymBases(d) == {BaseDecl(d, k) : k \in {j \in Elems(BaseList(d)) : HasSym(d, j)}}
Supers(d) == SymBases(d) \cup ({ag[d].baseClass} \ {NoDecl})

(* The least set that holds c and follows the edge function E.             *)
ClosedUnder(S, E) == \A x \in S : E[x] \subseteq S
ReachBy(E, c) ==
  {x \in Decls : \A S \in SUBSET Decls : c \in S /\ ClosedUnder(S, E) => x \in S}

(* Fault: circular inheritance is looked for one level up only.            *)
OwnBaseClass(c) == {c}

(* for (cdb = c; cdb; cdb = cdb->baseClass) and isBaseOf2.                 *)
BaseClassChain(c) == ReachBy([x \in Decls |-> {ag[x].baseClass} \ {NoDecl}], c)
IsBaseOf2(d, c) ==
  \E x \in ReachBy([y \in Decls |-> SymBases(y)], c) : d \in SymBases(x)

RemoveAt(s, j) == [x \in 1..(Len(s) - 1) |-> IF x < j THEN s[x] ELSE s[x + 1]]

(* Fault: the queue is not searched first.                                 *)
AddAlways(q, d) == Append(q, d)

AddDeferred(q, d) == IF d \in Elems(q) THEN q ELSE Append(q, d)
(* if (sym->_scope) addDeferredSemantic(sym)                               *)
AddIfScoped(q, d) == IF ag[d].scope THEN AddDeferred(q, d) ELSE q

----------------------------------------------------------------------------
(* Activations.                                                            *)

Top == stack[Len(stack)]
Activation(fn, d, sc) ==
  [fn |-> fn, pc |-> "enter", d |-> d, i |-> 1, b |-> 0, sc |-> sc,
   scx |-> FALSE, errors |-> errors, owner |-> NoDecl, todo |-> <<>>]
Searching(d, owner) == [Activation("search", d, FALSE) EXCEPT !.owner = owner]

At(fn, pc) ==
  /\ phase \in {"semantic", "deferred"}
  /\ stack # <<>>
  /\ Top.fn = fn /\ Top.pc = pc

Become(f) == stack' = [stack EXCEPT ![Len(stack)] = f]
Goto(pc, i) == Become([Top EXCEPT !.pc = pc, !.i = i])
Call(f, g) == stack' = Append([stack EXCEPT ![Len(stack)] = f], g)
Return == stack' = SubSeq(stack, 1, Len(stack) - 1)

(* A null Scope or a null BaseClass::sym is dereferenced.                  *)
Crash == /\ phase' = "crashed"
         /\ UNCHANGED <<prog, ag, btype, bsym, deferred, dprogress, nested,
                        errors, found, stack>>

(* Fault: the declaration keeps its scope but is not queued.               *)
PostponeUnqueued(d, q) ==
  /\ ag' = [ag EXCEPT ![d].scope = TRUE]
  /\ deferred' = q
  /\ Return
  /\ UNCHANGED <<prog, btype, bsym, dprogress, nested, errors, found, phase>>

(* The end of an activation that could not finish: keep a scope, queue the *)
(* declaration and return.                                                 *)
Postpone(d, q) ==
  /\ ag' = [ag EXCEPT ![d].scope = TRUE]
  /\ deferred' = AddDeferred(q, d)
  /\ Return
  /\ UNCHANGED <<prog, btype, bsym, dprogress, nested, errors, found, phase>>

----------------------------------------------------------------------------
(* visit(StructDeclaration), visit(ClassDeclaration) and                   *)
(* visit(InterfaceDeclaration): the part up to the bases.                  *)

(* Fault: a nested activation is not recognised.                           *)
DoneOnly(d) == IsDone(d)

(* A nested activation goes on only if the outer one gave d its scope.     *)
EarlyReturn(d) == IsDone(d) \/ (/\ ag[d].semanticRun = "semantic"
                                /\ ag[d].symtab # "none"
                                /\ ~ag[d].scope)

SemReturnAtOnce ==
  /\ At("semantic", "enter")
  /\ EarlyReturn(Top.d)
  /\ ag' = IF IsIface(Top.d) THEN [ag EXCEPT ![Top.d].semanticRun = "done"] ELSE ag
  /\ Return
  /\ UNCHANGED <<prog, btype, bsym, deferred, dprogress, nested, errors, found,
                 phase>>

(* semantic() works in the scope it was given or finds in _scope.          *)
SemEnter ==
  /\ At("semantic", "enter")
  /\ LET d == Top.d IN
     /\ ~EarlyReturn(d)
     /\ IF ~ag[d].scope /\ ~Top.sc
        THEN Crash
        ELSE /\ ag' = [ag EXCEPT ![d].scope = FALSE, ![d].semanticRun = "semantic",
                                 ![d].baseok = IF ~IsStruct(d) /\ BasesOpen(d) THEN "in" ELSE @]
             /\ Become([Top EXCEPT !.sc = TRUE, !.scx = ag[d].scope,
                                   !.pc = IF ~IsStruct(d) /\ BasesOpen(d) THEN "types"
                                          ELSE "symtab"])
             /\ UNCHANGED <<prog, btype, bsym, deferred, dprogress, nested, errors,
                            found, phase>>

(* The first loop over baseclasses resolves the types as written.          *)
ResolvedType(c) == IF ag[c].bad THEN "error" ELSE "decl"

SemBaseType ==
  /\ At("semantic", "types")
  /\ LET d == Top.d  list == BaseList(Top.d) IN
     /\ Top.i <= Len(list)
     /\ LET k == list[Top.i]
            plain == k = 0 \/ btype[d][k] # "ident" \/ prog.bases[d][k].via = NoDecl
        IN IF plain
           THEN /\ btype' = IF k = 0 \/ btype[d][k] # "ident" THEN btype
                            ELSE [btype EXCEPT ![d][k] = ResolvedType(BaseDecl(d, k))]
                /\ ag' = [ag EXCEPT ![d].scope = FALSE]
                /\ Become([Top EXCEPT !.i = Top.i + 1, !.scx = TRUE])
           ELSE /\ ag' = [ag EXCEPT ![d].scope = TRUE]
                /\ Call([Top EXCEPT !.pc = "typed", !.b = k, !.scx = TRUE],
                        Searching(prog.bases[d][k].via, prog.bases[d][k].via))
                /\ UNCHANGED btype
  /\ UNCHANGED <<prog, bsym, deferred, dprogress, nested, errors, found, phase>>

SemBaseTyped ==
  /\ At("semantic", "typed")
  /\ ag' = [ag EXCEPT ![Top.d].scope = FALSE]
  /\ btype' = [btype EXCEPT ![Top.d][Top.b] =
                 IF found THEN ResolvedType(BaseDecl(Top.d, Top.b)) ELSE "error"]
  /\ errors' = IF found THEN errors ELSE errors + 1
  /\ Goto("types", Top.i + 1)
  /\ UNCHANGED <<prog, bsym, deferred, dprogress, nested, found, phase>>

(* A nested activation may have resolved the bases meanwhile.              *)
SemTypesResolved ==
  /\ At("semantic", "types")
  /\ Top.i > Len(BaseList(Top.d))
  /\ IF BasesOpen(Top.d) THEN Goto(IF IsClass(Top.d) THEN "base" ELSE "ifaces", 1)
     ELSE IF IsDone(Top.d) THEN Return
     ELSE Goto("symtab", 1)
  /\ UNCHANGED <<prog, ag, btype, bsym, deferred, dprogress, nested, errors,
                 found, phase>>

(* Where the loop over the interfaces starts.                              *)
FirstIface(d) == IF ag[d].baseClass = NoDecl THEN 1 ELSE 2
TypeOf(d, k) == IF k = 0 THEN "decl" ELSE btype[d][k]

(* baseclasses->remove(j), with or without an error message.               *)
DropBase(d, j, isError) ==
  /\ ag' = [ag EXCEPT ![d].baseclasses = RemoveAt(@, j)]
  /\ errors' = IF isError THEN errors + 1 ELSE errors
  /\ UNCHANGED <<prog, btype, bsym, deferred, dprogress, nested, found, phase>>

(* What the k-th base turned out to be, and the first entry of the list.   *)
KindOf(d, k) == IF TypeOf(d, k) = "error" THEN "error" ELSE prog.kind[BaseDecl(d, k)]
FirstKind(d) == IF BaseList(d) = <<>> THEN "none" ELSE KindOf(d, BaseList(d)[1])

(* The first entry is not a base class: leave an interface to the next     *)
(* loop, remove anything else.                                             *)
SemNoBaseClass ==
  /\ At("semantic", "base")
  /\ FirstKind(Top.d) # "class"
  /\ IF FirstKind(Top.d) \in {"error", "struct"}
     THEN DropBase(Top.d, 1, FirstKind(Top.d) = "struct")
     ELSE UNCHANGED <<prog, ag, btype, bsym, deferred, dprogress, nested,
                      errors, found, phase>>
  /\ Goto("ifaces", FirstIface(Top.d))

(* circular inheritance                                                    *)
SemCircularBase ==
  /\ At("semantic", "base")
  /\ FirstKind(Top.d) = "class"
  /\ Top.d \in BaseClassChain(BaseDecl(Top.d, BaseList(Top.d)[1]))
  /\ DropBase(Top.d, 1, TRUE)
  /\ Goto("ifaces", FirstIface(Top.d))

(* Set baseClass, then try to resolve a forward reference to it.           *)
SemBaseClass ==
  /\ At("semantic", "base")
  /\ FirstKind(Top.d) = "class"
  /\ LET d == Top.d  k == BaseList(Top.d)[1]  c == BaseDecl(d, k) IN
     /\ d \notin BaseClassChain(c)
     /\ bsym' = IF k = 0 THEN bsym ELSE [bsym EXCEPT ![d] = @ \cup {k}]
     /\ IF BasesOpen(c)
        THEN /\ ag' = [ag EXCEPT ![d].baseClass = c, ![d].scope = TRUE]
             /\ Call([Top EXCEPT !.pc = "based", !.b = k, !.scx = TRUE],
                     Activation("semantic", c, FALSE))
        ELSE /\ ag' = [ag EXCEPT ![d].baseClass = c]
             /\ Goto("ifaces", 2)
  /\ UNCHANGED <<prog, btype, deferred, dprogress, nested, errors, found, phase>>

(* Back from resolveBase(sym): a base that is still open is queued if it   *)
(* has a scope, and d will have to wait for it.                            *)
SemBaseResolved ==
  /\ At("semantic", "based") \/ At("semantic", "ifaced")
  /\ LET d == Top.d  c == BaseDecl(Top.d, Top.b) IN
     /\ ag' = [ag EXCEPT ![d].scope = FALSE,
                         ![d].baseok = IF BasesOpen(c) THEN "none" ELSE @]
     /\ deferred' = IF BasesOpen(c) THEN AddIfScoped(deferred, c) ELSE deferred
     /\ Goto("ifaces", IF Top.pc = "based" THEN 2 ELSE Top.i + 1)
  /\ UNCHANGED <<prog, btype, bsym, dprogress, nested, errors, found, phase>>

----------------------------------------------------------------------------
(* The loop over the interfaces.                                           *)

IsIfaceBase(d, k) == KindOf(d, k) = "iface"
IsDuplicate(d, j) ==
  \E x \in FirstIface(d)..(j - 1) :
     LET k == BaseList(d)[x] IN
     HasSym(d, k) /\ BaseDecl(d, k) = BaseDecl(d, BaseList(d)[j])
IsCircularIface(d, c) == IsIface(d) /\ (c = d \/ IsBaseOf2(d, c))

(* base type must be interface; circular inheritance of interface          *)
SemDropIface ==
  /\ At("semantic", "ifaces")
  /\ LET d == Top.d IN
     /\ Top.i <= Len(BaseList(d))
     /\ LET k == BaseList(d)[Top.i] IN
        /\ ~IsIfaceBase(d, k) \/ IsCircularIface(d, BaseDecl(d, k))
        /\ DropBase(d, Top.i, KindOf(d, k) # "error")
     /\ Goto("ifaces", Top.i)

(* Set b->sym and try to resolve a forward reference.  A duplicate is      *)
(* removed from the list here, but the "continue" after the removal is the *)
(* inner loop's: the entry that moves into its place is stepped over.      *)
SemIface ==
  /\ At("semantic", "ifaces")
  /\ LET d == Top.d IN
     /\ Top.i <= Len(BaseList(d))
     /\ LET k == BaseList(d)[Top.i]  c == BaseDecl(d, k)
            open == BasesOpen(c)  dup == IsDuplicate(d, Top.i) IN
        /\ IsIfaceBase(d, k)
        /\ ~IsCircularIface(d, c)
        /\ bsym' = IF k = 0 THEN bsym ELSE [bsym EXCEPT ![d] = @ \cup {k}]
        /\ ag' = [ag EXCEPT ![d].baseclasses = IF dup THEN RemoveAt(@, Top.i) ELSE @,
                            ![d].scope = open]
        /\ errors' = IF dup THEN errors + 1 ELSE errors
        /\ IF open
           THEN Call([Top EXCEPT !.pc = "ifaced", !.b = k, !.scx = TRUE],
                     Activation("semantic", c, FALSE))
           ELSE Goto("ifaces", Top.i + 1)
  /\ UNCHANGED <<prog, btype, deferred, dprogress, nested, found, phase>>

(* A class without a base class derives from Object.                       *)
NeedsObject(d) == IsClass(d) /\ ag[d].baseClass = NoDecl /\ d # Object

(* Some base is still a forward reference: try again later.  Otherwise     *)
(* BASEOKdone, the implicit base, and interfaceSemantic(), which reads     *)
(* b->sym of every interface.                                              *)
SemBasesDone ==
  /\ At("semantic", "ifaces")
  /\ LET d == Top.d  list == BaseList(Top.d) IN
     /\ Top.i > Len(list)
     /\ IF ag[d].baseok = "none"
        THEN Postpone(d, deferred)
        ELSE IF NeedsObject(d) /\ ag[Object].bad
        THEN /\ phase' = "fatal"                             \* badObjectDotD
             /\ errors' = errors + 1
             /\ UNCHANGED <<prog, ag, btype, bsym, deferred, dprogress, nested,
                            found, stack>>
        ELSE IF \E j \in FirstIface(d)..Len(list) : ~HasSym(d, list[j])
        THEN Crash
        ELSE /\ ag' = [ag EXCEPT
                  ![d].baseok = "done",
                  ![d].baseClass = IF NeedsObject(d) THEN Object ELSE @,
                  ![d].baseclasses = IF NeedsObject(d) THEN <<0>> \o @ ELSE @]
             /\ Goto("symtab", 1)
             /\ UNCHANGED <<prog, btype, bsym, deferred, dprogress, nested,
                            errors, found, phase>>

----------------------------------------------------------------------------
(* Lancestorsdone: the symbol table, the bases' own semantic(), the vtbl.  *)

(* An opaque declaration is finished.  A class or struct gets its members  *)
(* into the symbol table at once, an interface only in SemVtbl.            *)
SemSymtab ==
  /\ At("semantic", "symtab")
  /\ LET d == Top.d IN
     IF d \in prog.opaque
     THEN /\ ag' = [ag EXCEPT ![d].semanticRun = "done"]
          /\ Return
     ELSE /\ ag' = [ag EXCEPT ![d].symtab =
                      IF @ # "none" THEN @ ELSE IF IsIface(d) THEN "empty" ELSE "full"]
          /\ Goto(IF IsStruct(d) THEN "members" ELSE "ancestors", 1)
  /\ UNCHANGED <<prog, btype, bsym, deferred, dprogress, nested, errors, found,
                 phase>>

(* Fault: it is enough that the bases of the base are known.               *)
OpenBases(d) ==
  {j \in 1..Len(BaseList(d)) : BasesOpen(BaseDecl(d, BaseList(d)[j]))}
UnfinishedBases(d) ==
  {j \in 1..Len(BaseList(d)) : ~IsDone(BaseDecl(d, BaseList(d)[j]))}

(* The first base whose semantic() is not finished is queued before d.     *)
SemAncestorsForward ==
  /\ At("semantic", "ancestors")
  /\ \E j \in UnfinishedBases(Top.d) :
       /\ \A x \in UnfinishedBases(Top.d) : j <= x
       /\ Postpone(Top.d, AddIfScoped(deferred, BaseDecl(Top.d, BaseList(Top.d)[j])))

(* A vtbl is abstracted to the declarations whose methods are in it.       *)
InheritedVtbl(d) ==
  IF IsClass(d) THEN IF ag[d].baseClass = NoDecl THEN {} ELSE ag[ag[d].baseClass].vtbl
  ELSE UNION {ag[c].vtbl : c \in SymBases(d)}

SemVtbl ==
  /\ At("semantic", "ancestors")
  /\ UnfinishedBases(Top.d) = {}
  /\ LET d == Top.d IN
     /\ ag' = [ag EXCEPT
          ![d].vtbl = IF ag[d].baseok = "done" THEN InheritedVtbl(d) ELSE @,
          ![d].baseok = IF @ = "done" THEN "semanticdone" ELSE @,
          ![d].symtab = "full"]
     /\ Goto("members", 1)
  /\ UNCHANGED <<prog, btype, bsym, deferred, dprogress, nested, errors, found,
                 phase>>

----------------------------------------------------------------------------
(* The members.  Each has a semanticRun of its own, so a second activation *)
(* finds them analysed.                                                    *)

MemberPending(d, i) == ~ag[d].membersRun /\ i <= Len(prog.members[d])
Member == prog.members[Top.d][Top.i]

SemMethod ==
  /\ At("semantic", "members")
  /\ MemberPending(Top.d, Top.i)
  /\ Member.what = "method"
  /\ ag' = [ag EXCEPT ![Top.d].vtbl = @ \cup {Top.d}]
  /\ Goto("members", Top.i + 1)
  /\ UNCHANGED <<prog, btype, bsym, deferred, dprogress, nested, errors, found,
                 phase>>

(* no definition of struct                                                 *)
SemField ==
  /\ At("semantic", "members")
  /\ MemberPending(Top.d, Top.i)
  /\ Member.what = "field"
  /\ errors' = IF IsStruct(Member.d) /\ Member.d \in prog.opaque THEN errors + 1
               ELSE errors
  /\ Goto("members", Top.i + 1)
  /\ UNCHANGED <<prog, ag, btype, bsym, deferred, dprogress, nested, found, phase>>

(* A name is searched in the aggregate itself and its bases first, which   *)
(* complains about a base without a symbol table.                          *)
NameErrors(d) ==
  IF ~IsStruct(d) /\ \E c \in ReachBy([x \in Decls |-> SymBases(x)], d) \ {d} :
                        ag[c].symtab = "none"
  THEN 1 ELSE 0

(* A member or a module-level declaration that names owner's member        *)
(* through the aggregate d.                                                *)
LookupMember(fn, pc, item) ==
  /\ At(fn, pc)
  /\ item.what = "lookup"
  /\ Call([Top EXCEPT !.pc = "looked"], Searching(item.d, item.owner))
  /\ UNCHANGED <<prog, ag, btype, bsym, deferred, dprogress, nested, found, phase>>

SemLookupMember ==
  /\ At("semantic", "members")
  /\ MemberPending(Top.d, Top.i)
  /\ LookupMember("semantic", "members", Member)
  /\ errors' = errors + NameErrors(Top.d)

SemLookedUp ==
  /\ At("semantic", "looked")
  /\ errors' = IF found THEN errors ELSE errors + 1
  /\ Goto("members", Top.i + 1)
  /\ UNCHANGED <<prog, ag, btype, bsym, deferred, dprogress, nested, found, phase>>

(* Module::runDeferredSemantic(): nothing to do without progress since the *)
(* last round, nor inside itself.                                          *)
RunDeferred(f) ==
  /\ IF dprogress /\ ~nested
     THEN Call(f, Activation("run", NoDecl, FALSE)) /\ nested' = TRUE
     ELSE Become(f) /\ UNCHANGED nested
  /\ UNCHANGED <<prog, ag, btype, bsym, deferred, dprogress, found, phase>>

SemInstMember ==
  /\ At("semantic", "members")
  /\ MemberPending(Top.d, Top.i)
  /\ Member.what = "inst"
  /\ errors' = errors + NameErrors(Top.d)
  /\ RunDeferred([Top EXCEPT !.i = Top.i + 1])

FieldStructs(d) ==
  {c \in Decls \ prog.opaque :
     IsStruct(c) /\ \E x \in Elems(prog.members[d]) : x.what = "field" /\ x.d = c}

(* determineFields() refuses a struct that contains itself.                *)
SemOwnField ==
  /\ At("semantic", "members")
  /\ ~MemberPending(Top.d, Top.i)
  /\ IsStruct(Top.d) /\ Top.d \in FieldStructs(Top.d)
  /\ ag' = [ag EXCEPT ![Top.d].semanticRun = "done", ![Top.d].bad = TRUE,
                      ![Top.d].membersRun = TRUE]
  /\ errors' = errors + 1
  /\ Return
  /\ UNCHANGED <<prog, btype, bsym, deferred, dprogress, nested, found, phase>>

FieldsReady(d) == IsIface(d) \/ \A c \in FieldStructs(d) : IsDone(c)

(* Fault: the base class is queued, which may be null, instead of d.       *)
SemFieldsForwardOfBase ==
  /\ At("semantic", "members")
  /\ LET d == Top.d IN
     /\ ~MemberPending(d, Top.i)
     /\ ~FieldsReady(d) /\ d \notin FieldStructs(d)
     /\ ag' = [ag EXCEPT ![d].scope = TRUE, ![d].membersRun = TRUE]
     /\ deferred' = AddDeferred(deferred, ag[d].baseClass)
     /\ Return
  /\ UNCHANGED <<prog, btype, bsym, dprogress, nested, errors, found, phase>>

(* A field's struct is not finished: try again later.                      *)
SemFieldsForward ==
  /\ At("semantic", "members")
  /\ LET d == Top.d IN
     /\ ~MemberPending(d, Top.i)
     /\ ~FieldsReady(d) /\ d \notin FieldStructs(d)
     /\ ag' = [ag EXCEPT ![d].scope = TRUE, ![d].membersRun = TRUE]
     /\ deferred' = AddDeferred(deferred, d)
     /\ Return
  /\ UNCHANGED <<prog, btype, bsym, dprogress, nested, errors, found, phase>>

(* A class also searches its bases for the allocator and the constructor.  *)
SpecialMemberErrors(d) == IF IsClass(d) THEN NameErrors(d) ELSE 0

SemFinish ==
  /\ At("semantic", "members")
  /\ LET d == Top.d  e == errors + SpecialMemberErrors(Top.d) IN
     /\ ~MemberPending(d, Top.i)
     /\ FieldsReady(d)
     /\ errors' = e
     /\ ag' = [ag EXCEPT ![d].semanticRun = "done", ![d].membersRun = TRUE,
                         ![d].bad = @ \/ e # Top.errors]
     /\ dprogress' = TRUE
     /\ Return
  /\ UNCHANGED <<prog, btype, bsym, deferred, nested, found, phase>>

----------------------------------------------------------------------------
(* ClassDeclaration::search and StructDeclaration::search.                 *)

(* A class whose bases are open, or a struct without a symbol table, is    *)
(* analysed on the spot; inuse stops a class from doing so twice.          *)
SearchRunsStructs(d) ==                      \* fault: a class never is
  ag[d].scope /\ IsStruct(d) /\ ag[d].symtab = "none"
SearchRunsSemantic(d) ==
  /\ ag[d].scope
  /\ IF IsStruct(d) THEN ag[d].symtab = "none" ELSE BasesOpen(d) /\ ~ag[d].inuse

SearchEnter ==
  /\ At("search", "enter")
  /\ LET d == Top.d IN
     IF SearchRunsSemantic(d)
     THEN /\ ag' = [ag EXCEPT ![d].inuse = ~IsStruct(d)]
          /\ Call([Top EXCEPT !.pc = "analysed"], Activation("semantic", d, IsStruct(d)))
     ELSE /\ Goto("look", 1)
          /\ UNCHANGED ag
  /\ UNCHANGED <<prog, btype, bsym, deferred, dprogress, nested, errors, found,
                 phase>>

SearchAnalysed ==
  /\ At("search", "analysed")
  /\ ag' = [ag EXCEPT ![Top.d].inuse = FALSE]
  /\ Goto("look", 1)
  /\ UNCHANGED <<prog, btype, bsym, deferred, dprogress, nested, errors, found,
                 phase>>

(* is forward referenced when looking for                                  *)
SearchForward ==
  /\ At("search", "look")
  /\ ag[Top.d].symtab = "none"
  /\ found' = FALSE
  /\ errors' = errors + 1
  /\ Return
  /\ UNCHANGED <<prog, ag, btype, bsym, deferred, dprogress, nested, phase>>

SearchOwn ==
  /\ At("search", "look")
  /\ ag[Top.d].symtab # "none"
  /\ LET hit == Top.d = Top.owner /\ ag[Top.d].symtab = "full" IN
     IF hit \/ IsStruct(Top.d)
     THEN found' = hit /\ Return
     ELSE Goto("bases", 1) /\ UNCHANGED found
  /\ UNCHANGED <<prog, ag, btype, bsym, deferred, dprogress, nested, errors,
                 phase>>

(* Depth first, left to right; a base without a symbol table is an error.  *)
SearchBase ==
  /\ At("search", "bases")
  /\ LET d == Top.d  list == BaseList(Top.d) IN
     IF Top.i > Len(list)
     THEN /\ found' = FALSE
          /\ Return
          /\ UNCHANGED errors
     ELSE LET k == list[Top.i]  c == BaseDecl(d, k)
              forward == HasSym(d, k) /\ ag[c].symtab = "none" IN
          /\ IF HasSym(d, k) /\ ~forward
             THEN Call([Top EXCEPT !.pc = "searched"], Searching(c, Top.owner))
             ELSE Goto("bases", Top.i + 1)
          /\ errors' = IF forward THEN errors + 1 ELSE errors
          /\ UNCHANGED found
  /\ UNCHANGED <<prog, ag, btype, bsym, deferred, dprogress, nested, phase>>

SearchedBase ==
  /\ At("search", "searched")
  /\ IF found THEN Return ELSE Goto("bases", Top.i + 1)
  /\ UNCHANGED <<prog, ag, btype, bsym, deferred, dprogress, nested, errors,
                 found, phase>>

----------------------------------------------------------------------------
(* Module::runDeferredSemantic                                             *)

RunRound ==
  /\ At("run", "enter")
  /\ dprogress' = FALSE
  /\ IF deferred = <<>>
     THEN /\ nested' = FALSE
          /\ Return
          /\ UNCHANGED deferred
     ELSE /\ Become([Top EXCEPT !.pc = "each", !.i = 1, !.todo = deferred])
          /\ deferred' = <<>>
          /\ UNCHANGED nested
  /\ UNCHANGED <<prog, ag, btype, bsym, errors, found, phase>>

RunEach ==
  /\ At("run", "each")
  /\ Top.i <= Len(Top.todo)
  /\ Call([Top EXCEPT !.i = Top.i + 1], Activation("semantic", Top.todo[Top.i], FALSE))
  /\ UNCHANGED <<prog, ag, btype, bsym, deferred, dprogress, nested, errors,
                 found, phase>>

(* Fault: another round although the queue is as long as before.           *)
RunForever ==
  /\ At("run", "each")
  /\ Top.i > Len(Top.todo)
  /\ IF Len(deferred) <= Len(Top.todo) \/ dprogress
     THEN Goto("enter", 1) /\ UNCHANGED nested
     ELSE Return /\ nested' = FALSE
  /\ UNCHANGED <<prog, ag, btype, bsym, deferred, dprogress, errors, found, phase>>

(* Another round while the queue shrinks or some declaration finished.     *)
RunRoundDone ==
  /\ At("run", "each")
  /\ Top.i > Len(Top.todo)
  /\ IF Len(deferred) < Len(Top.todo) \/ dprogress
     THEN Goto("enter", 1) /\ UNCHANGED nested
     ELSE Return /\ nested' = FALSE
  /\ UNCHANGED <<prog, ag, btype, bsym, deferred, dprogress, errors, found, phase>>

----------------------------------------------------------------------------
(* visit(Module) and the driver.                                           *)

ModuleItem == prog.module[Top.i]

ModuleMember ==
  /\ At("module", "enter")
  /\ Top.i <= Len(prog.module)
  /\ \/ /\ ModuleItem.what = "decl"
        /\ Call([Top EXCEPT !.pc = "drain"], Activation("semantic", ModuleItem.d, TRUE))
        /\ UNCHANGED <<prog, ag, btype, bsym, deferred, dprogress, nested,
                       errors, found, phase>>
     \/ LookupMember("module", "enter", ModuleItem) /\ UNCHANGED errors

ModuleLookedUp ==
  /\ At("module", "looked")
  /\ errors' = IF found THEN errors ELSE errors + 1
  /\ Goto("drain", Top.i)
  /\ UNCHANGED <<prog, ag, btype, bsym, deferred, dprogress, nested, found, phase>>

ModuleDrain ==
  /\ At("module", "drain")
  /\ RunDeferred([Top EXCEPT !.pc = "enter", !.i = Top.i + 1])
  /\ UNCHANGED errors

ModuleEnd ==
  /\ At("module", "enter")
  /\ Top.i > Len(prog.module)
  /\ Return
  /\ UNCHANGED <<prog, ag, btype, bsym, deferred, dprogress, nested, errors,
                 found, phase>>

(* tryMain: stop on errors, else drain the queue once more.                *)
DriverDrain ==
  /\ phase = "semantic" /\ stack = <<>>
  /\ IF errors > 0
     THEN /\ phase' = "fatal"
          /\ UNCHANGED <<dprogress, nested, stack>>
     ELSE /\ phase' = "deferred"
          /\ dprogress' = TRUE
          /\ nested' = TRUE
          /\ stack' = <<Activation("run", NoDecl, FALSE)>>
  /\ UNCHANGED <<prog, ag, btype, bsym, deferred, errors, found>>

(* unable to resolve forward reference in definition                       *)
DriverCheck ==
  /\ phase = "deferred" /\ stack = <<>>
  /\ phase' = IF deferred = <<>> THEN "done" ELSE "fatal"
  /\ errors' = errors + Len(deferred)
  /\ UNCHANGED <<prog, ag, btype, bsym, deferred, dprogress, nested, found, stack>>

Stopped ==
  /\ phase \in {"done", "fatal", "crashed"}
  /\ UNCHANGED vars

----------------------------------------------------------------------------
NewAggregate(list) ==
  [semanticRun |-> "init", baseok |-> "none", scope |-> TRUE, symtab |-> "none",
   inuse |-> FALSE, bad |-> FALSE, membersRun |-> FALSE, baseClass |-> NoDecl,
   baseclasses |-> list, vtbl |-> {}]

(* Module::importAll has set the scope of every declaration.               *)
Init ==
  /\ prog \in Programs
  /\ ag = [d \in Decls |-> NewAggregate([k \in 1..Len(prog.bases[d]) |-> k])]
  /\ btype = [d \in Decls |-> [k \in 1..Len(prog.bases[d]) |-> "ident"]]
  /\ bsym = [d \in Decls |-> {}]
  /\ deferred = <<>>
  /\ dprogress = FALSE
  /\ nested = FALSE
  /\ errors = 0
  /\ found = FALSE
  /\ stack = <<[fn |-> "module", pc |-> "enter", d |-> NoDecl, i |-> 1, b |-> 0,
                sc |-> TRUE, scx |-> FALSE, errors |-> 0, owner |-> NoDecl,
                todo |-> <<>>]>>
  /\ phase = "semantic"

SemanticStep ==
  \/ SemReturnAtOnce \/ SemEnter
  \/ SemBaseType \/ SemBaseTyped \/ SemTypesResolved
  \/ SemNoBaseClass \/ SemCircularBase \/ SemBaseClass \/ SemBaseResolved
  \/ SemDropIface \/ SemIface \/ SemBasesDone
  \/ SemSymtab \/ SemAncestorsForward \/ SemVtbl
  \/ SemMethod \/ SemField \/ SemLookupMember \/ SemLookedUp \/ SemInstMember
  \/ SemOwnField \/ SemFieldsForward \/ SemFinish

SearchStep ==
  SearchEnter \/ SearchAnalysed \/ SearchForward \/ SearchOwn \/ SearchBase
  \/ SearchedBase

DriverStep ==
  RunRound \/ RunEach \/ RunRoundDone \/ ModuleMember \/ ModuleLookedUp
  \/ ModuleDrain \/ ModuleEnd \/ DriverDrain \/ DriverCheck \/ Stopped

Next == SemanticStep \/ SearchStep \/ DriverStep

(* One thread runs to completion.                                          *)
Spec == Init /\ [][Next]_vars /\ WF_vars(Next)

----------------------------------------------------------------------------
(* Properties.                                                             *)

AggregateType ==
  [semanticRun : {"init", "semantic", "done"},
   baseok : {"none", "in", "done", "semanticdone"},
   scope : BOOLEAN, symtab : {"none", "empty", "full"}, inuse : BOOLEAN,
   bad : BOOLEAN, membersRun : BOOLEAN, baseClass : MaybeDecl,
   baseclasses : Seq(Nat), vtbl : SUBSET Decls]

Labels ==
  {"enter", "types", "typed", "base", "based", "ifaces", "ifaced", "symtab",
   "ancestors", "members", "looked", "look", "bases", "searched", "analysed",
   "each", "drain"}

ActivationType ==
  [fn : {"module", "semantic", "search", "run"}, pc : Labels,
   d : MaybeDecl, i : Nat \ {0}, b : Nat, sc : BOOLEAN, scx : BOOLEAN,
   errors : Nat, owner : MaybeDecl, todo : Seq(Decls)]

(* Every field of the model has the type of the field it stands for.       *)
TypeOK ==
  /\ IsProgram(prog)
  /\ ag \in [Decls -> AggregateType]
  /\ bsym \in [Decls -> SUBSET Nat]
  /\ deferred \in Seq(Decls)
  /\ dprogress \in BOOLEAN /\ nested \in BOOLEAN /\ found \in BOOLEAN
  /\ errors \in Nat
  /\ stack \in Seq(ActivationType)
  /\ phase \in {"semantic", "deferred", "done", "fatal", "crashed"}

(* However semantic() is re-entered, it always has a scope to work in and  *)
(* the BaseClass objects it reads have their symbol: no null pointer is    *)
(* dereferenced (the sc parameter is null in every call but two).          *)
NoNullDereference == phase # "crashed"

(* The inheritance edges set so far never form a cycle, not even in the    *)
(* middle of a nest of activations: the walks over baseClass (circular     *)
(* inheritance, isBaseOf) and isBaseOf2 all terminate.                     *)
Acyclic ==
  \A S \in SUBSET Decls : S # {} => \E x \in S : Supers(x) \cap S = {}

(* No base stays open: as soon as semantic() of a declaration has been     *)
(* entered its bases are being resolved or are resolved.  A base that is   *)
(* resolved by an outer activation is resolved a second time by the inner  *)
(* one, so the way out for "forward reference of one or more bases" is not *)
(* taken and the queue never has to wait for a list of bases.              *)
BasesSettled ==
  \A d \in Decls : ~IsStruct(d) /\ ag[d].semanticRun # "init" => ag[d].baseok # "none"

(* When a class is laid out, the vtbl it starts from is that of bases that *)
(* are themselves finished ("The semantic analysis of base classes should  *)
(* be finished before the members semantic analysis of this class, in      *)
(* order to determine vtbl in this class").                                *)
HasMethod(d) == \E x \in Elems(prog.members[d]) : x.what = "method"
OwnMethods(d) == IF HasMethod(d) THEN {d} ELSE {}
Polymorphic(d) == ~IsStruct(d) /\ d \notin prog.opaque
VtblComplete ==
  errors = 0 => \A d \in Decls : Polymorphic(d) /\ IsDone(d) =>
    ag[d].vtbl = OwnMethods(d) \cup InheritedVtbl(d)

(* A declaration is finished only after the members of every base it kept  *)
(* have been analysed: the vtbl it copied and the interface methods it was *)
(* checked against were complete.                                          *)
BasesAnalysedFirst ==
  errors = 0 => \A d \in Decls : Polymorphic(d) /\ IsDone(d) =>
    \A c \in Supers(d) \ prog.opaque : ag[c].membersRun

(* A class or interface is laid out over what it is derived from, whoever  *)
(* took it up and however often its analysis was broken off.               *)
LaidOutOverBases == BasesSettled /\ BasesAnalysedFirst /\ VtblComplete

(* Each deferred symbol is queued once.                                    *)
DeferredOnce == \A i, j \in 1..Len(deferred) : i # j => deferred[i] # deferred[j]

(* No declaration is forgotten: when the driver goes on to semantic2       *)
(* without an error, the first pass has finished every declaration.        *)
NothingForgotten == phase = "done" /\ errors = 0 => \A d \in Decls : IsDone(d)

(* What a declaration cannot be finished, or understood, without.          *)
WrittenBases(d) == {prog.bases[d][k].sym : k \in 1..Len(prog.bases[d])}
Needs(d) ==
  WrittenBases(d) \cup FieldStructs(d)
  \cup (IF IsClass(d) /\ d # Object THEN {Object} ELSE {})
  \cup ({prog.bases[d][k].via : k \in 1..Len(prog.bases[d])} \ {NoDecl})
  \cup {item.d : item \in {x \in Elems(prog.members[d]) : x.what = "lookup"}}

(* A program that respects the rules of the language and in which no       *)
(* declaration needs itself, directly or not.                              *)
LegalBases(d) ==
  LET n == Len(prog.bases[d]) IN
  /\ \A j, k \in 1..n : j # k => prog.bases[d][j].sym # prog.bases[d][k].sym
  /\ \A k \in 1..n :
       LET c == prog.bases[d][k].sym IN
       /\ c \notin prog.opaque /\ prog.bases[d][k].via \notin prog.opaque
       /\ IsIface(c) \/ (k = 1 /\ IsClass(d) /\ IsClass(c))
Lookups(d) == {x \in Elems(prog.members[d]) : x.what = "lookup"}
LegalLookup(item) ==
  /\ item.d \notin prog.opaque
  /\ item.owner \in ReachBy([x \in Decls |-> WrittenBases(x)], item.d)
WellFounded ==
  /\ prog.module[1].d = Object       \* object.d is analysed before its users
  /\ \A d \in Decls : LegalBases(d) /\ \A item \in Lookups(d) : LegalLookup(item)
  /\ \A d \in Decls : \A x \in Elems(prog.members[d]) :
       x.what = "field" /\ IsStruct(x.d) => x.d \notin prog.opaque
  /\ \A k \in 1..Len(prog.module) :
       prog.module[k].what = "lookup" => LegalLookup(prog.module[k])
  /\ \A S \in SUBSET Decls : S # {} => \E x \in S : Needs(x) \cap S = {}

(* Declaration order does not matter: whatever the order of the module's   *)
(* declarations, a program without circular needs is analysed without an   *)
(* error and without a forward reference left in the queue.                *)
OrderIrrelevant == WellFounded => errors = 0 /\ phase # "fatal"

(* The first pass implements LayoutOrder: until the first error, classes   *)
(* and interfaces are finished one by one over finished parents, and no    *)
(* re-entry of semantic() changes a vtbl or a base of a finished one.  An  *)
(* opaque declaration is done without being laid out.                      *)
LaidOut == {d \in Decls \ prog.opaque : IsDone(d)}
LayoutParents(d) ==
  IF IsClass(d) THEN {ag[d].baseClass} \ {NoDecl} ELSE SymBases(d)
Layouts == INSTANCE LayoutOrder WITH
  finished <- LaidOut,
  parents <- [d \in Decls |-> IF d \in LaidOut THEN LayoutParents(d) ELSE {}],
  layout <- [d \in Decls |-> IF d \in LaidOut THEN ag[d].vtbl ELSE {}],
  failed <- errors > 0
LayoutOrderSpec == Layouts!Spec

(* The driver reaches a verdict: the drain of the deferred queue gives up  *)
(* when it makes no progress and the recursion is bounded.                 *)
Termination == <>(phase \in {"done", "fatal", "crashed"})

=============================================================================
