----------------------------- MODULE MCInvoices -----------------------------
(* Operators of the platform keep the books; the job runs beside.          *)
EXTENDS Invoices
=============================================================================
