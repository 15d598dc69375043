-------------------------- MODULE MCModuleImports --------------------------
(* Import graphs for ModuleImports.                                        *)
EXTENDS ModuleImports

CONSTANTS A, B, C

MCModules == {A, B, C}

(* Every graph over three modules in which a module imports at most two    *)
(* modules, A perhaps twice, perhaps itself, with any root modules.        *)
ImportLists ==
  {<<>>, <<A, A>>} \cup {<<x>> : x \in MCModules}
  \cup {l \in MCModules \X MCModules : l[1] # l[2]}
MCGraphs ==
  [amodules : {<<A, B, C>>}, aimports : [MCModules -> ImportLists],
   roots : SUBSET MCModules]
=============================================================================
