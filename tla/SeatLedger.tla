----------------------------- MODULE SeatLedger -----------------------------
(***************************************************************************)
(* What the selection flow of a program promises about its seats, without  *)
(* applications, requests, locks or a clock.                               *)
(*                                                                         *)
(* A seat is held by a registered participant (seated) or by an applicant  *)
(* whose offer is still open (offered); docs/RUNBOOK.md:177 states the     *)
(* rule.  Offers are made only out of free seats; only the holder of an    *)
(* open offer can turn it into a registration; staff may register people   *)
(* directly and change the capacity, which may leave the program           *)
(* overbooked, but never by an offer.                                      *)
(***************************************************************************)
EXTENDS Integers, FiniteSets

CONSTANT Users

VARIABLES
  seated,    \* users registered as participants
  offered,   \* users with an open offer
  capacity   \* seats of the program, 0 when it has no limit

ledger == <<seated, offered, capacity>>

LedgerTypeOK ==
  /\ seated \subseteq Users
  /\ offered \subseteq Users
  /\ capacity \in Nat

Held == Cardinality(seated) + Cardinality(offered)

LedgerInit ==
  /\ seated \subseteq Users
  /\ offered = {}
  /\ capacity \in Nat

(* Offers go out together only when all of them fit in the free seats.     *)
Offer(S) ==
  /\ S # {}
  /\ S \cap offered = {}
  /\ capacity # 0 => Held + Cardinality(S) <= capacity
  /\ offered' = offered \union S
  /\ UNCHANGED <<seated, capacity>>

(* The holder of an open offer takes the seat: the number held is the same *)
(* or, if the user had been registered meanwhile, smaller.                 *)
Take(u) ==
  /\ u \in offered
  /\ offered' = offered \ {u}
  /\ seated' = seated \union {u}
  /\ UNCHANGED capacity

(* Offers are turned down, run out or are taken back.                      *)
GiveUp(S) ==
  /\ S # {}
  /\ S \subseteq offered
  /\ offered' = offered \ S
  /\ UNCHANGED <<seated, capacity>>

(* Staff register or remove people and set the capacity at will.           *)
Register(u) ==
  /\ seated' = seated \union {u}
  /\ UNCHANGED <<offered, capacity>>

Unregister(u) ==
  /\ seated' = seated \ {u}
  /\ UNCHANGED <<offered, capacity>>

Resize ==
  /\ capacity' \in Nat
  /\ UNCHANGED <<seated, offered>>

LedgerNext ==
  \/ \E S \in SUBSET Users : Offer(S) \/ GiveUp(S)
  \/ \E u \in Users : Take(u) \/ Register(u) \/ Unregister(u)
  \/ Resize

LedgerSpec == LedgerInit /\ [][LedgerNext]_ledger
=============================================================================
