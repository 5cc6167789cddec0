---------------------------- MODULE MCProjectLinks ----------------------------
(* Neither students, projects nor slots differ in what may be done with    *)
(* them: any order of each is the same behaviour.                          *)
EXTENDS ProjectLinks, TLC

Symmetry == Permutations(Users) \cup Permutations(Projects) \cup Permutations(Slots)
=============================================================================
