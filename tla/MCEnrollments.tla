---------------------------- MODULE MCEnrollments ----------------------------
(* The order of two managers does not matter, nor which slot serves what.  *)
EXTENDS Enrollments, TLC

Symmetry == Permutations(Managers) \cup Permutations(Slots)
=============================================================================
