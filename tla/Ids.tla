----------------------------------- MODULE Ids -----------------------------------
(* Ids that are drawn at random and never twice: uuid.uuid4().                     *)

(* The next id out of S, as a set, empty when all of S are used.  Which of them it *)
(* is makes no difference to anything, so one stands for all.                      *)
NewId(S, used) == IF S \subseteq used THEN {} ELSE {CHOOSE id \in S : id \notin used}
==================================================================================
