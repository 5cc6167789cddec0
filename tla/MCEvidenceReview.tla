--------------------------- MODULE MCEvidenceReview ---------------------------
(* One item of one member; slots and verifications are interchangeable.    *)
EXTENDS EvidenceReview, TLC

CONSTANTS u1, e1
OneAuthor == e1 :> u1

Symmetry == Permutations(Slots) \cup Permutations(Verifications)
=============================================================================
