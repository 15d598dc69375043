----------------------------- MODULE LayoutOrder -----------------------------
(***************************************************************************)
(* What the first semantic pass promises about the layout of classes and   *)
(* interfaces, whatever the order in which semantic() is entered and       *)
(* re-entered: declarations are finished one at a time, each over parents  *)
(* that are finished already, with a vtbl made of the parents' vtbls and   *)
(* its own methods; a finished declaration is never laid out again.  The   *)
(* promise holds until the first error: after one, the compiler only goes  *)
(* on to find more errors.                                                 *)
(*                                                                         *)
(* AggregateSemantic implements this module (see its LayoutOrderSpec).     *)
(***************************************************************************)
CONSTANT Decls

VARIABLES
  finished,   (* The declarations whose semantic() is done.                *)
  parents,    (* What each finished declaration takes its vtbl from.       *)
  layout,     (* The vtbl of each finished declaration.                    *)
  failed      (* An error has been reported.                               *)

vars == <<finished, parents, layout, failed>>

Init ==
  /\ finished = {}
  /\ parents = [d \in Decls |-> {}]
  /\ layout = [d \in Decls |-> {}]
  /\ failed = FALSE

Inherited(P) == UNION {layout[c] : c \in P}

Finish(d) ==
  /\ ~failed
  /\ d \notin finished
  /\ finished' = finished \cup {d}
  /\ \E P \in SUBSET finished, own \in SUBSET {d} :
       /\ parents' = [parents EXCEPT ![d] = P]
       /\ layout' = [layout EXCEPT ![d] = Inherited(P) \cup own]
  /\ UNCHANGED failed

(* After an error nothing is promised any more.                            *)
Fail == failed' = TRUE

Next == Fail \/ \E d \in Decls : Finish(d)

Spec == Init /\ [][Next]_vars
=============================================================================
