-------------------------- MODULE MCProjectRecords --------------------------
(* Small instances of ProjectRecords for TLC.                              *)
EXTENDS ProjectRecords, TLC

Symmetry == Permutations(Users) \union Permutations(Slots) \union Permutations(Programs)
=============================================================================
