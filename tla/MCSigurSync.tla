---------------------------- MODULE MCSigurSync ----------------------------
(***************************************************************************)
(* Small instances of SigurSync: one run at a time suffices for its races, *)
(* which are between the sync and an execution.                            *)
(***************************************************************************)
EXTENDS SigurSync, TLC

Symmetry == Permutations(Runs) \cup Permutations(OpIds)
              \cup Permutations(WorkDepts) \cup Permutations(Schedulers)

\* The bound of the run on where an employee starts: linked to a card, with the
\* right to the own department and no other.
LinkedInit == SyncInit /\ emp.linked /\ emp.access = {emp.dept}
LinkedSpec == LinkedInit /\ [][SyncNext]_allVars

\* The bound on what may happen to one employee: changes of the revision and
\* faults together.
Budget == emp.revision + faults <= 3
=============================================================================
