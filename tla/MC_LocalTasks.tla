--------------------------- MODULE MC_LocalTasks ---------------------------
(* TLC instance of LocalTasks: the sets are model values of the configs.   *)
EXTENDS LocalTasks, TLC

(* Tasks, items and requests are interchangeable.                          *)
Symmetry == Permutations(Task) \cup Permutations(Item) \cup Permutations(Stopper)
=============================================================================
