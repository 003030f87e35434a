-------------------------- MODULE MC_TaskRegistry --------------------------
(* TLC instance of TaskRegistry: the sets are model values of the configs. *)
EXTENDS TaskRegistry, TLC

(* Instances, tasks and items are interchangeable: no action or invariant  *)
(* names one of them.                                                      *)
Symmetry ==
    Permutations(Instance) \cup Permutations(Task) \cup Permutations(Item)
=============================================================================
