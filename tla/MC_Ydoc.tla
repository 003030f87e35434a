------------------------------- MODULE MC_Ydoc -------------------------------
(* TLC instance of Ydoc: the sets are model values of the configs, where   *)
(* the bounds are too, but for one.                                        *)
EXTENDS Ydoc, TLC

(* With Redis, one session disconnects.                                    *)
FewGone == redis => Cardinality(Session \ connected) <= 1

YdocSpec == Init /\ [][Next /\ FewGone']_vars /\ Fairness

(* Sessions and updates are interchangeable (for runs without liveness).   *)
Symmetry == Permutations(Session) \cup Permutations(Update)
=============================================================================
