------------------------------- MODULE Billing -------------------------------
(***************************************************************************)
(* What the models of billing share: the days, the operators of the        *)
(* platform (src/backend/src/modules/billing/billingAdmin.routes.ts) and   *)
(* the hourly job (src/backend/src/services/jobs/scheduler.ts).            *)
(*                                                                         *)
(* Nothing is locked.  An operator's request occupies a desk from what it  *)
(* reads to what it writes; the job may die between two of its steps.      *)
(***************************************************************************)
EXTENDS Integers, Sequences, FiniteSets

CONSTANTS
  Desks,        \* operators of the platform working at a time
  MaxNow,       \* bound: the last day
  MaxCrashes    \* bound: how often the job dies

ASSUME BillingAssumption == MaxNow \in Nat \ {0} /\ MaxCrashes \in Nat

VARIABLES
  now,       \* the day
  desk,      \* what each operator's request is doing
  job,       \* what the hourly job is doing
  noticed,   \* what the audit log knows of notices
  sent,      \* history: what reached the admins
  crashes    \* history: how often the job died

Days == 1..MaxNow
Idle == [op |-> "none"]
Work(d, r) == desk' = [desk EXCEPT ![d] = r]
Done(d) == Work(d, Idle)
=============================================================================
