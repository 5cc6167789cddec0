------------------------ MODULE MCProgramRecruitment ------------------------
(* Small instances of ProgramRecruitment for TLC.                          *)
EXTENDS ProgramRecruitment, TLC

(* Users and request slots are interchangeable: no definition orders them. *)
Symmetry == Permutations(Users) \union Permutations(Slots)
=============================================================================
