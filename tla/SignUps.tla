------------------------------- MODULE SignUps -------------------------------
(***************************************************************************)
(* What one program of the opportunity board promises its applicants: a    *)
(* sign-up moves between five statuses in single steps, a completion is    *)
(* final and is the only thing that issues a certificate, and it issues    *)
(* one.  Enrollments implements it.                                        *)
(***************************************************************************)
EXTENDS Naturals

CONSTANT Users

VARIABLES
  status,        \* the sign-up of each user
  certificates   \* certificates issued to each user

Init ==
  /\ status = [u \in Users |-> "NONE"]
  /\ certificates = [u \in Users |-> 0]

Move(u, from, to) ==
  /\ status[u] \in from
  /\ status' = [status EXCEPT ![u] = to]
  /\ UNCHANGED certificates

(* Signing up again is possible after a withdrawal or a rejection only.    *)
Apply(u) == Move(u, {"NONE", "WITHDRAWN", "REJECTED"}, "APPLIED")
Select(u) == Move(u, {"APPLIED"}, "ENROLLED")
Reject(u) == Move(u, {"APPLIED", "ENROLLED"}, "REJECTED")
Withdraw(u) == Move(u, {"APPLIED", "ENROLLED"}, "WITHDRAWN")

Complete(u) ==
  /\ status[u] \in {"APPLIED", "ENROLLED"}
  /\ status' = [status EXCEPT ![u] = "COMPLETED"]
  /\ certificates' = [certificates EXCEPT ![u] = @ + 1]

(* The program is deleted with every sign-up; certificates stay.           *)
Delete ==
  /\ status' = [u \in Users |-> "GONE"]
  /\ UNCHANGED certificates

Next ==
  \/ Delete
  \/ \E u \in Users : Apply(u) \/ Select(u) \/ Reject(u) \/ Withdraw(u) \/ Complete(u)

Spec == Init /\ [][Next]_<<status, certificates>>
=============================================================================
