---------------------------- MODULE MC_UsagePool ----------------------------
(* TLC instance of UsagePool: the sets are model values of the configs,    *)
(* where the bounds are too, but for one.                                  *)
EXTENDS UsagePool, TLC

(* With both a crash and a stalled tick, one usage event.                  *)
FewTogether == crashes + stalls < MaxCrashes + MaxStalls \/ reports < MaxReports

UsageSpec == Init /\ [][Next /\ FewTogether']_vars /\ Fairness

(* Processes, models and sessions are interchangeable.                     *)
Symmetry == Permutations(Worker) \cup Permutations(Model) \cup Permutations(Sid)
=============================================================================
