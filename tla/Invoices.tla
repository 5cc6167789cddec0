------------------------------- MODULE Invoices -------------------------------
(***************************************************************************)
(* An invoice, its payments and the subscription it is for:                *)
(* src/backend/src/modules/billing/billingAdmin.routes.ts, and             *)
(* runInvoiceLifecycle of src/backend/src/services/jobs/scheduler.ts,      *)
(* which finds what is overdue every hour.                                 *)
(*                                                                         *)
(* The job lists the invoice, then updates it and its subscription by id.  *)
(* The days are those of the due date; taxes, numbers and memos are left   *)
(* out.  No operation on an invoice tells a TRIAL from an ACTIVE           *)
(* subscription, nor a CANCELED from an EXPIRED one: they are one here.    *)
(***************************************************************************)
EXTENDS Billing

CONSTANTS
  Total,        \* what the invoice asks for
  DueDates,     \* the due dates the operators enter
  MaxPayments   \* bound: payment rows

ASSUME InvoicesAssumption ==
  /\ {Total, MaxPayments} \subseteq Nat \ {0}
  /\ DueDates \subseteq Days

VARIABLES
  invoice,       \* the Invoice row
  payments,      \* its Payment rows, in the order of creation
  subscription,  \* the status of the subscription it is for
  lost,          \* history: payments canceled across a payment (see CrossesPayment)
  late           \* history: payments recorded across a void (see CrossesVoid)

ledger == <<payments, lost, late>>
chaseVars == <<job, noticed, sent, crashes>>
invoiceVars == <<now, invoice, ledger, subscription, desk, chaseVars>>

SubscriptionStatus == {"ACTIVE", "PAST_DUE", "EXPIRED"}

Confirmed(ps) == {k \in DOMAIN ps : ps[k].confirmed}
(* The sum of some amounts, counted unit by unit.                          *)
Units(ps, k) == {k} \X (1..ps[k].amount)
Amount(ps, ks) == Cardinality(UNION {Units(ps, k) : k \in ks})
Paid(ps) == Amount(ps, Confirmed(ps))

------------------------------------------------------------------------------
(* POST /invoices/:id/issue, void, payments and POST /payments/:id/cancel. *)
Issue(d, due) ==
  /\ desk[d] = Idle /\ invoice.status = "DRAFT"
  /\ Work(d, [op |-> "issue", due |-> due])
  /\ UNCHANGED <<now, invoice, ledger, subscription, chaseVars>>

Issued(d) ==
  /\ desk[d].op = "issue"
  /\ invoice' = [status |-> "ISSUED", dueAt |-> desk[d].due]
  /\ Done(d)
  /\ UNCHANGED <<now, ledger, subscription, chaseVars>>

(* Mutant: money that came in does not stop it.                            *)
VoidAnyway(d) ==
  /\ desk[d] = Idle
  /\ invoice.status \notin {"PAID", "VOID"}
  /\ Work(d, [op |-> "void"])
  /\ UNCHANGED <<now, invoice, ledger, subscription, chaseVars>>

Void(d) ==
  /\ desk[d] = Idle
  /\ invoice.status \notin {"PAID", "VOID"} /\ Confirmed(payments) = {}
  /\ Work(d, [op |-> "void"])
  /\ UNCHANGED <<now, invoice, ledger, subscription, chaseVars>>

Voided(d) ==
  /\ desk[d].op = "void"
  /\ invoice' = [invoice EXCEPT !.status = "VOID"]
  /\ Done(d)
  /\ UNCHANGED <<now, ledger, subscription, chaseVars>>

RecordPayment(d, amount) ==
  /\ desk[d] = Idle /\ Len(payments) < MaxPayments
  /\ invoice.status \in {"ISSUED", "OVERDUE"}
  /\ Work(d, [op |-> "pay", amount |-> amount])
  /\ UNCHANGED <<now, invoice, ledger, subscription, chaseVars>>

(* The transaction adds up its own payment and those committed by others.  *)
fullyPaid(amount) == Paid(payments) + amount >= Total

AddUp(d) ==
  /\ desk[d].op = "pay"
  /\ Work(d, [op |-> "settle", amount |-> desk[d].amount, full |-> fullyPaid(desk[d].amount)])
  /\ UNCHANGED <<now, invoice, ledger, subscription, chaseVars>>

(* History: the payment is recorded while the invoice is being voided, or  *)
(* once it is void.                                                        *)
CrossesVoid == invoice.status = "VOID" \/ \E e \in Desks : desk[e].op = "void"

Settle(d) ==
  /\ desk[d].op = "settle" /\ Len(payments) < MaxPayments
  /\ payments' = Append(payments, [amount |-> desk[d].amount, confirmed |-> TRUE])
  /\ late' = IF CrossesVoid THEN late \cup {Len(payments) + 1} ELSE late
  /\ IF desk[d].full
     THEN /\ invoice' = [invoice EXCEPT !.status = "PAID"]
          /\ subscription' = IF subscription = "PAST_DUE" THEN "ACTIVE" ELSE subscription
     ELSE UNCHANGED <<invoice, subscription>>
  /\ Done(d)
  /\ UNCHANGED <<now, lost, chaseVars>>

CancelPayment(d, k) ==
  /\ desk[d] = Idle
  /\ k \in Confirmed(payments)
  /\ Work(d, [op |-> "cancel", payment |-> k, reopen |-> invoice.status = "PAID"])
  /\ UNCHANGED <<now, invoice, ledger, subscription, chaseVars>>

(* History: the money is taken back after a payment that covers the rest   *)
(* has counted it, or from an invoice that was not paid yet when the       *)
(* request read it.                                                        *)
CrossesPayment(r) ==
  /\ r.payment \in Confirmed(payments)
  /\ \/ \E e \in Desks : desk[e].op = "settle" /\ desk[e].full
     \/ invoice.status = "PAID" /\ ~r.reopen

(* Mutant: the payment is set to nothing instead of being canceled.        *)
PaymentZeroed(d) ==
  /\ desk[d].op = "cancel"
  /\ payments' = [payments EXCEPT ![desk[d].payment].amount = 0]
  /\ invoice' = IF desk[d].reopen THEN [invoice EXCEPT !.status = "ISSUED"] ELSE invoice
  /\ Done(d)
  /\ UNCHANGED <<now, subscription, lost, late, chaseVars>>

(* Mutant: the invoice stays paid.                                         *)
PaymentCanceledOnly(d) ==
  /\ desk[d].op = "cancel"
  /\ payments' = [payments EXCEPT ![desk[d].payment].confirmed = FALSE]
  /\ lost' = IF CrossesPayment(desk[d]) THEN lost \cup {desk[d].payment} ELSE lost
  /\ Done(d)
  /\ UNCHANGED <<now, invoice, subscription, late, chaseVars>>

PaymentCanceled(d) ==
  /\ desk[d].op = "cancel"
  /\ payments' = [payments EXCEPT ![desk[d].payment].confirmed = FALSE]
  /\ lost' = IF CrossesPayment(desk[d]) THEN lost \cup {desk[d].payment} ELSE lost
  /\ invoice' = IF desk[d].reopen THEN [invoice EXCEPT !.status = "ISSUED"] ELSE invoice
  /\ Done(d)
  /\ UNCHANGED <<now, subscription, late, chaseVars>>

(* PATCH /subscriptions/:id, and the job that expires periods.             *)
EditStatus(status) ==
  /\ subscription # status
  /\ subscription' = status
  /\ UNCHANGED <<now, invoice, ledger, desk, chaseVars>>

(* PATCH /invoices/:id.                                                    *)
EditDueDate(due) ==
  /\ invoice.dueAt # due
  /\ invoice' = [invoice EXCEPT !.dueAt = due]
  /\ UNCHANGED <<now, ledger, subscription, desk, chaseVars>>

------------------------------------------------------------------------------
(* runInvoiceLifecycle.                                                    *)
NotChasing == "rest"
operatorVars == <<ledger, desk>>

overdue == invoice.status = "ISSUED" /\ invoice.dueAt # 0 /\ invoice.dueAt < now

(* Mutant: the job lists what fell due yesterday only.                     *)
ListDueYesterday ==
  /\ job = NotChasing
  /\ invoice.status = "ISSUED" /\ invoice.dueAt # 0 /\ invoice.dueAt = now - 1
  /\ job' = "overdue"
  /\ UNCHANGED <<now, invoice, subscription, operatorVars, noticed, sent, crashes>>

ListOverdue ==
  /\ job = NotChasing /\ overdue
  /\ job' = "overdue"
  /\ UNCHANGED <<now, invoice, subscription, operatorVars, noticed, sent, crashes>>

MarkOverdue ==
  /\ job = "overdue"
  /\ invoice' = [invoice EXCEPT !.status = "OVERDUE"]
  /\ job' = "pastDue"
  /\ UNCHANGED <<now, subscription, operatorVars, noticed, sent, crashes>>

MarkPastDue ==
  /\ job = "pastDue"
  /\ subscription' = IF subscription = "ACTIVE" THEN "PAST_DUE" ELSE subscription
  /\ job' = IF noticed THEN NotChasing ELSE "deliver"
  /\ UNCHANGED <<now, invoice, operatorVars, noticed, sent, crashes>>

DeliverOverdue ==
  /\ job = "deliver"
  /\ sent' = sent + 1
  /\ job' = "log"
  /\ UNCHANGED <<now, invoice, subscription, operatorVars, noticed, crashes>>

LogOverdue ==
  /\ job = "log"
  /\ noticed' = TRUE
  /\ job' = NotChasing
  /\ UNCHANGED <<now, invoice, subscription, operatorVars, sent, crashes>>

ChaseStep == ListOverdue \/ MarkOverdue \/ MarkPastDue \/ DeliverOverdue \/ LogOverdue

(* The process dies, or a query of the job fails.                          *)
ChaseCrashes ==
  /\ job # NotChasing /\ crashes < MaxCrashes
  /\ crashes' = crashes + 1
  /\ job' = NotChasing
  /\ UNCHANGED <<now, invoice, subscription, operatorVars, noticed, sent>>

InvoiceTick ==
  /\ now < MaxNow
  /\ now' = now + 1
  /\ UNCHANGED <<invoice, subscription, operatorVars, chaseVars>>

------------------------------------------------------------------------------
InvoiceInit ==
  /\ now = 1
  /\ invoice = [status |-> "DRAFT", dueAt |-> 0]
  /\ payments = <<>>
  /\ lost = {}
  /\ late = {}
  /\ subscription = "ACTIVE"
  /\ desk = [d \in Desks |-> Idle]
  /\ job = NotChasing
  /\ noticed = FALSE
  /\ sent = 0
  /\ crashes = 0

InvoiceRequest(d) ==
  \/ \E due \in DueDates : Issue(d, due)
  \/ \E amount \in 1..Total : RecordPayment(d, amount)
  \/ \E k \in 1..MaxPayments : CancelPayment(d, k)
  \/ Issued(d) \/ Void(d) \/ Voided(d) \/ AddUp(d) \/ Settle(d) \/ PaymentCanceled(d)

InvoiceNext ==
  \/ InvoiceTick \/ ChaseStep \/ ChaseCrashes
  \/ \E status \in SubscriptionStatus : EditStatus(status)
  \/ \E due \in DueDates \cup {0} : EditDueDate(due)
  \/ \E d \in Desks : InvoiceRequest(d)

InvoiceSpec == InvoiceInit /\ [][InvoiceNext]_invoiceVars

(* The timer of the one instance with JOBS_ENABLED goes on, and what it    *)
(* starts ends or fails.                                                   *)
InvoiceFairSpec == InvoiceSpec /\ WF_invoiceVars(ChaseStep)

------------------------------------------------------------------------------
(* Every variable stays in its range.                                      *)
InvoiceTypeOK ==
  /\ now \in Days
  /\ invoice \in [status : {"DRAFT", "ISSUED", "OVERDUE", "PAID", "VOID"}, dueAt : 0..MaxNow]
  /\ payments \in Seq([amount : 1..Total, confirmed : BOOLEAN])
  /\ Len(payments) <= MaxPayments
  /\ subscription \in SubscriptionStatus
  /\ lost \subseteq 1..MaxPayments
  /\ late \subseteq 1..MaxPayments
  /\ noticed \in BOOLEAN
  /\ sent \in Nat
  /\ crashes \in 0..MaxCrashes

(* What a paid invoice lacks was canceled across a payment: through        *)
(* partial payments, cancellations, voids and the job, by any number of    *)
(* operators at once, its confirmed payments and those that a cancellation *)
(* took back behind the back of the payment that settled it cover it.      *)
ShortfallIsCrossed ==
  invoice.status = "PAID" => Amount(payments, Confirmed(payments) \cup lost) >= Total

(* Money on a void invoice came in while it was being voided: an operator  *)
(* who voids alone leaves none, and nothing that the other operators or    *)
(* the job do later, short of a payment that was under way, adds any.      *)
VoidMoneyIsLate == invoice.status = "VOID" => Confirmed(payments) \subseteq late

(* An issued invoice does not stay issued past its due date: the job finds *)
(* it in spite of crashes.                                                 *)
DueIsChased == overdue ~> ~overdue

(* An invoice whose confirmed payments cover the total is paid (the        *)
(* comment of POST /invoices/:invoiceId/payments).                         *)
PaidWhenCovered ==
  invoice.status \in {"ISSUED", "OVERDUE"} => Paid(payments) < Total
=============================================================================
