---------------------------- MODULE MCMembership ----------------------------
(* Anybody but the owner may stand for anybody else, and any slot for any. *)
EXTENDS Membership, TLC

Symmetry == Permutations(Users \ {Owner}) \cup Permutations(Slots)
=============================================================================
