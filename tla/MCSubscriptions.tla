--------------------------- MODULE MCSubscriptions ---------------------------
(* Two operators of the platform work at a time; the job runs beside.      *)
EXTENDS Subscriptions
=============================================================================
