---------------------------- MODULE MC_CaseGraph ----------------------------
(* TLC instance of CaseGraph: the bounds are in the configs, but for one on *)
(* the deployment of several processes.                                     *)
EXTENDS CaseGraph, TLC

(* With several processes, at most one edit or crash where all nodes are    *)
(* given out.                                                               *)
FewTogether == several => used < MaxNodes \/ edits + crashes < 2

CasesSpec == Init /\ [][Next /\ FewTogether']_vars

(* Requests are interchangeable.                                            *)
Symmetry == Permutations(Request)
=============================================================================
