--------------------------- MODULE MCLifecycleOps ---------------------------
(***************************************************************************)
(* Small instances of LifecycleOps: two runs, so that a retry can overtake *)
(* a crashed or slow run; three operations, so that a dismissal, a         *)
(* reinstatement and a second dismissal (or a repair) follow one another.  *)
(***************************************************************************)
EXTENDS LifecycleOps, TLC

\* Runs and operation rows are interchangeable, schedulers and departments too.
Symmetry == Permutations(Runs) \cup Permutations(OpIds)
              \cup Permutations(WorkDepts) \cup Permutations(Schedulers)
=============================================================================
