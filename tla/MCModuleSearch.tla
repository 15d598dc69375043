--------------------------- MODULE MCModuleSearch ---------------------------
(* Import graphs, declarations and questions for ModuleSearch.             *)
EXTENDS ModuleSearch

CONSTANTS Families,   \* the programs of the run
          A, B, C, D, X, Y

VARIABLE family       \* the one this behaviour is about

MCModules == {A, B, C, D}
MCNames == {X, Y}
Three == {A, B, C}

Import(m, p) == [mod |-> m, prot |-> p]
Lists(S, P) ==
  {<<>>} \cup {<<Import(m, p)>> : m \in S, p \in P}
  \cup {<<Import(m, p), Import(n, q)>> : m \in S, n \in S, p \in P, q \in P}
Proper(l) == Len(l) < 2 \/ l[1].mod # l[2].mod
ListsOver(S, P) == {l \in Lists(S, P) : Proper(l)}

Having(names, k) ==
  [m \in MCModules |-> [n \in MCNames |-> IF m \in names /\ n = X THEN k ELSE "none"]]
World(d, i) == [decl |-> d, imports |-> i]

(* Every graph over three modules, cycles included, with at most one       *)
(* import in C.                                                            *)
ImportsIn(m) ==
  CASE m = D -> {<<>>}
    [] m = C -> {l \in ListsOver({A, B}, Protections) : Len(l) < 2}
    [] OTHER -> ListsOver(Three \ {m}, Protections)
AllImports == {[m \in MCModules |-> CASE m = A -> a [] m = B -> b [] m = C -> c [] m = D -> <<>>] :
                 a \in ImportsIn(A), b \in ImportsIn(B), c \in ImportsIn(C)}

OnceWorlds ==
  {World(d, f) : f \in AllImports,
     d \in {[Having({A}, k) EXCEPT ![B][X] = l, ![C][X] = "overload"] :
              k \in {"none", "overload"}, l \in {"none", "private", "overload"}}}

(* A imports from {B, C, D}, B from {C, D}, C from D.                      *)
After(m) == CASE m = A -> {B, C, D} [] m = B -> {C, D} [] m = C -> {D} [] m = D -> {}
AcyclicImports ==
  {[m \in MCModules |-> CASE m = A -> a [] m = B -> b [] m = C -> c [] m = D -> <<>>] :
     a \in ListsOver(After(A), Protections), b \in ListsOver(After(B), {"public"}),
     c \in ListsOver(After(C), {"public"})}
AcyclicWorlds ==
  {World([Having({D}, "public") EXCEPT ![C][X] = l], f) :
     f \in AcyclicImports, l \in {"public", "private"}}
  \cup {World(Having({C, D}, "overload"), f) : f \in AcyclicImports}

(* Cycles of public imports with two or three declarations of x.           *)
CyclesWorlds ==
  {World([Having({C, D}, "public") EXCEPT ![B][X] = k], f) :
     k \in {"none", "overload"},
     f \in {g \in [MCModules -> ListsOver(MCModules, {"public"})] :
              /\ g[C] = <<>> /\ g[D] = <<>> /\ Len(g[A]) = 2
              /\ \A m \in {A, B} : \A i \in 1..Len(g[m]) : g[m][i].mod # m}}

Chain == [m \in MCModules |-> CASE m = A -> <<Import(B, "public")>>
                                [] m = B -> <<Import(C, "public")>> [] OTHER -> <<>>]
ChangeWorlds ==
  {World([Having({}, "none") EXCEPT ![C] = [n \in MCNames |-> IF n = Y THEN k ELSE "none"]],
         [Chain EXCEPT ![B] = <<Import(C, p)>>]) :
     k \in {"public", "private"}, p \in Protections}

WorldsOf(f) ==
  CASE f = "once" -> OnceWorlds
    [] f = "acyclic" -> AcyclicWorlds
    [] f = "cycles" -> CyclesWorlds
    [] f = "changes" -> ChangeWorlds
MCWorlds == UNION {WorldsOf(f) : f \in Families}

(* The first two are Scope::search in the module, the third an import of   *)
(* the module, the next a lookup in typeof() and by the speller, the last  *)
(* one of ClassDeclaration::isFuncHidden in a class that imports.          *)
Ways == {{"unqualified", "localsOnly"}, {"unqualified", "importsOnly"},
         {"ignorePrivate"}, {"ignorePrivate", "ignoreVisibility"}, {"ignoreErrors"},
         {"ignorePrivate", "ignoreErrors", "ignoreAmbiguous"}}
MCQuestions == [of : MCModules, ident : MCNames, flags : Ways]
MCInsertions == [in : Three, ident : {X}, kind : {"public", "private"}]

(* Who is asked for what, how, and how often.                              *)
Limits ==
  [once |-> [of |-> {A, B}, ident |-> {X}, ways |-> Ways, questions |-> 1, changes |-> 0],
   acyclic |-> [of |-> {A, B}, ident |-> {X}, questions |-> 2, changes |-> 0,
                ways |-> {{"ignorePrivate"}, {"unqualified", "importsOnly"}}],
   cycles |-> [of |-> Three, ident |-> {X}, questions |-> 3, changes |-> 0,
               ways |-> {{"ignorePrivate"}, {"unqualified", "importsOnly"}}],
   changes |-> [of |-> {A}, ident |-> MCNames, questions |-> 2, changes |-> 2,
                ways |-> {{"ignorePrivate"}, {"ignorePrivate", "ignoreVisibility"}}]]
Limit == Limits[family]

MCInit == family \in Families /\ Init /\ World(decl, imports) \in WorldsOf(family)
MCNext ==
  /\ Next
  /\ questions' <= Limit.questions /\ changes' <= Limit.changes
  /\ asked' = NoQuestion \/ (asked'.of \in Limit.of /\ asked'.ident \in Limit.ident
                             /\ asked'.flags \in Limit.ways)
  /\ imports'[D] = imports[D]
  /\ imports' # imports => \A m \in Three : D \notin {imports'[m][i].mod : i \in DOMAIN imports'[m]}
  /\ UNCHANGED family
MCSpec == MCInit /\ [][MCNext]_<<vars, family>> /\ WF_vars(Step)

=============================================================================
