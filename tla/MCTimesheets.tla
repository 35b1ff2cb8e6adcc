---------------------------- MODULE MCTimesheets ----------------------------
(* The connections are interchangeable. *)
EXTENDS Timesheets, TLC

Symmetry == Permutations(Procs)
=============================================================================
