----------------------------- MODULE Subscriptions -----------------------------
(***************************************************************************)
(* The subscription periods of an organization and the notices about their *)
(* end: src/backend/src/modules/billing/billingAdmin.routes.ts,            *)
(* src/backend/src/services/billing/subscriptions.ts and                   *)
(* runSubscriptionLifecycle of src/backend/src/services/jobs/scheduler.ts. *)
(*                                                                         *)
(* The hourly job lists the periods it will expire, then updates row by    *)
(* row.  Time is counted in days, a grace period is a day or none, and     *)
(* the warnings before the end are the one of the last day.  Plans, limits *)
(* and notes are left out.  TRIAL, ACTIVE and PAST_DUE give the same access*)
(* and are one status here, ACTIVE; Invoices tells PAST_DUE apart.         *)
(***************************************************************************)
EXTENDS Billing

CONSTANTS
  TrialDays,    \* BILLING_TRIAL_DAYS
  Dates,        \* the days the operators enter
  MaxPeriods,   \* bound: subscription rows
  MaxActs       \* bound: requests of the operators

ASSUME SubscriptionsAssumption ==
  /\ {TrialDays, MaxPeriods} \subseteq Nat \ {0}
  /\ Dates \subseteq 1..(MaxNow + 1)
  /\ MaxActs \in Nat

VARIABLES
  periods,   \* Subscription rows of the organization, oldest first
  again,     \* history: how often a notice reached the admins a second time
  acts       \* requests the operators have made

jobVars == <<job, noticed, sent, again, crashes>>
vars == <<now, periods, desk, jobVars, acts>>

Open == 0       \* endsAt is null
Ends == Days \cup {MaxNow + 1}
Statuses == {"ACTIVE", "EXPIRED", "CANCELED"}
Period(status, startsAt, endsAt, graceDays) ==
  [status |-> status, startsAt |-> startsAt, endsAt |-> endsAt, graceDays |-> graceDays]

Act == acts < MaxActs /\ acts' = acts + 1

(* currentOrgSubscription: the latest started period, 0 for none.          *)
started == {i \in DOMAIN periods : periods[i].status # "CANCELED" /\ periods[i].startsAt <= now}
currentOrgSubscription ==
  IF started = {} THEN 0
  ELSE CHOOSE i \in started :
         \A j \in started \ {i} :
           \/ periods[j].startsAt < periods[i].startsAt
           \/ periods[j].startsAt = periods[i].startsAt /\ j < i

------------------------------------------------------------------------------
(* An organization is approved: it gets a trial unless it has a period     *)
(* (ensureTrialSubscription).                                              *)
trial == Period("ACTIVE", now, now + TrialDays, 1)

Approve(d) ==
  /\ Act /\ desk[d] = Idle /\ periods = <<>>
  /\ Work(d, [op |-> "trial"])
  /\ UNCHANGED <<now, periods, jobVars>>

TrialStarts(d) ==
  /\ desk[d].op = "trial"
  /\ Len(periods) < MaxPeriods
  /\ periods' = Append(periods, trial)
  /\ Done(d)
  /\ UNCHANGED <<now, jobVars, acts>>

(* POST /organizations/:orgId/subscriptions: the periods that overlap the  *)
(* new one are looked up ...                                               *)
overlapping(ps, from, to) ==
  {i \in DOMAIN ps :
     /\ ps[i].status = "ACTIVE"
     /\ to # Open => ps[i].startsAt < to
     /\ ps[i].endsAt = Open \/ ps[i].endsAt > from}

NewSubscription(d, from, to, grace) ==
  /\ Act /\ desk[d] = Idle /\ Len(periods) < MaxPeriods
  /\ to # Open => from < to
  /\ Work(d, [op |-> "create", from |-> from, to |-> to, grace |-> grace, saw |-> periods])
  /\ UNCHANGED <<now, periods, jobVars>>

(* ... the earlier ones end when it starts, the later ones are canceled.   *)
(* Mutant: the grace of an earlier period is shortened by a day.           *)
MakeWayShorter(i, from) ==
  IF periods[i].startsAt < from
  THEN [periods[i] EXCEPT !.endsAt = from, !.graceDays = @ - 1]
  ELSE [periods[i] EXCEPT !.status = "CANCELED"]

(* Mutant: only the periods that started earlier make way.                 *)
MakeWayEarlier(i, from) ==
  IF periods[i].startsAt < from
  THEN [periods[i] EXCEPT !.endsAt = from, !.graceDays = 0]
  ELSE periods[i]

MakeWay(i, from) ==
  IF periods[i].startsAt < from
  THEN [periods[i] EXCEPT !.endsAt = from, !.graceDays = 0]
  ELSE [periods[i] EXCEPT !.status = "CANCELED"]

SubscriptionStarts(d) ==
  /\ desk[d].op = "create" /\ Len(periods) < MaxPeriods
  /\ LET r == desk[d]
         over == overlapping(r.saw, r.from, r.to)
     IN  periods' = Append([i \in DOMAIN periods |-> IF i \in over THEN MakeWay(i, r.from)
                                                     ELSE periods[i]],
                           Period("ACTIVE", r.from, r.to, r.grace))
  /\ Done(d)
  /\ UNCHANGED <<now, jobVars, acts>>

(* POST /subscriptions/:id/renew: the next period starts when this one     *)
(* ends, or now.                                                           *)
Renew(d, i, to) ==
  /\ Act /\ desk[d] = Idle /\ Len(periods) < MaxPeriods
  /\ i \in DOMAIN periods
  /\ LET from == IF periods[i].endsAt > now THEN periods[i].endsAt ELSE now
     IN  /\ from < to
         /\ Work(d, [op |-> "renew", period |-> i, from |-> from, to |-> to,
                     cut |-> periods[i].endsAt = Open,
                     grace |-> IF periods[i].graceDays = 0 THEN 1 ELSE periods[i].graceDays])
  /\ UNCHANGED <<now, periods, jobVars>>

Renewed(d) ==
  /\ desk[d].op = "renew" /\ Len(periods) < MaxPeriods
  /\ LET r == desk[d]
         kept == IF r.cut THEN [periods EXCEPT ![r.period].endsAt = r.from,
                                               ![r.period].graceDays = 0]
                 ELSE periods
     IN  periods' = Append(kept, Period("ACTIVE", r.from, r.to, r.grace))
  /\ Done(d)
  /\ UNCHANGED <<now, jobVars, acts>>

(* PATCH /subscriptions/:id writes what the form holds.                    *)
EditSubscription(d, i) ==
  /\ Act /\ desk[d] = Idle
  /\ i \in DOMAIN periods
  /\ \/ \E status \in Statuses : periods' = [periods EXCEPT ![i].status = status]
     \/ \E to \in Dates \cup {Open} : periods' = [periods EXCEPT ![i].endsAt = to]
     \/ \E grace \in 0..1 : periods' = [periods EXCEPT ![i].graceDays = grace]
  /\ periods' # periods
  /\ UNCHANGED <<now, desk, jobVars>>

------------------------------------------------------------------------------
(* runHourlyJobs: runSubscriptionLifecycle ...                             *)
Resting == [at |-> "rest"]
JobAt(step) == job.at = step
Go(r) == job' = r

JobStarts ==
  /\ job = Resting
  /\ Go([at |-> "expire", today |-> now,
         left |-> {i \in DOMAIN periods :
                     /\ periods[i].status = "ACTIVE"
                     /\ periods[i].endsAt # Open
                     /\ periods[i].endsAt + periods[i].graceDays <= now}])
  /\ UNCHANGED <<now, periods, desk, noticed, sent, again, crashes, acts>>

Expire(i) ==
  /\ JobAt("expire") /\ i \in job.left
  /\ periods' = [periods EXCEPT ![i].status = "EXPIRED"]
  /\ Go([job EXCEPT !.left = @ \ {i}])
  /\ UNCHANGED <<now, desk, noticed, sent, again, crashes, acts>>

(* Mutant: on the day the grace ends the admins hear nothing.              *)
noticeForLate(i, today) ==
  LET p == periods[i]
      graceEnd == p.endsAt + p.graceDays
  IN  CASE p.endsAt = today + 1 -> "expiry"
        [] p.endsAt <= today /\ today < graceEnd -> "grace"
        [] p.endsAt <= today /\ today > graceEnd -> "expired"
        [] OTHER -> "none"

(* ... which then tells the admins what is up with the current period,     *)
(* once (noticeOnce): the audit log is asked first and written last.       *)
noticeFor(i, today) ==
  LET p == periods[i]
      graceEnd == p.endsAt + p.graceDays
  IN  CASE p.endsAt = today + 1 -> "expiry"
        [] p.endsAt <= today /\ today < graceEnd -> "grace"
        [] p.endsAt <= today /\ today >= graceEnd -> "expired"
        [] OTHER -> "none"

(* Mutant: the audit log is not asked.                                     *)
tellAgain(key) == key[1] # "none"

tell(key) == key[1] # "none" /\ key \notin noticed

Look ==
  /\ JobAt("expire") /\ job.left = {}
  /\ LET i == currentOrgSubscription
         key == IF i = 0 THEN <<"none", 0>>
                ELSE IF periods[i].endsAt = Open THEN <<"none", 0>>
                ELSE <<noticeFor(i, job.today), i>>
     IN  Go(IF tell(key) THEN [at |-> "deliver", key |-> key] ELSE Resting)
  /\ UNCHANGED <<now, periods, desk, noticed, sent, again, crashes, acts>>

Deliver ==
  /\ JobAt("deliver")
  /\ sent' = sent \cup {job.key}
  /\ again' = IF job.key \in sent THEN again + 1 ELSE again
  /\ Go([job EXCEPT !.at = "log"])
  /\ UNCHANGED <<now, periods, desk, noticed, crashes, acts>>

Log ==
  /\ JobAt("log")
  /\ noticed' = noticed \cup {job.key}
  /\ Go(Resting)
  /\ UNCHANGED <<now, periods, desk, sent, again, crashes, acts>>

JobStep ==
  \/ JobStarts \/ Look \/ Deliver \/ Log
  \/ \E i \in 1..MaxPeriods : Expire(i)

(* The process dies, or a query of the job fails.                          *)
JobCrashes ==
  /\ job # Resting /\ crashes < MaxCrashes
  /\ crashes' = crashes + 1
  /\ Go(Resting)
  /\ UNCHANGED <<now, periods, desk, noticed, sent, again, acts>>

Tick ==
  /\ now < MaxNow
  /\ now' = now + 1
  /\ UNCHANGED <<periods, desk, jobVars, acts>>

------------------------------------------------------------------------------
Notices == {"expiry", "grace", "expired"} \X (1..MaxPeriods)

(* The organization waits for its approval, or was approved on day one.    *)
Init ==
  /\ now = 1
  /\ periods \in {<<>>, <<trial>>}
  /\ desk = [d \in Desks |-> Idle]
  /\ job = Resting
  /\ noticed = {}
  /\ sent = {}
  /\ again = 0
  /\ crashes = 0
  /\ acts = 0

Request(d) ==
  \/ Approve(d) \/ TrialStarts(d) \/ SubscriptionStarts(d) \/ Renewed(d)
  \/ \E from \in Dates \cap Days, to \in Dates \cup {Open}, grace \in 0..1 : NewSubscription(d, from, to, grace)
  \/ \E i \in 1..MaxPeriods, to \in Dates : Renew(d, i, to)
  \/ \E i \in 1..MaxPeriods : EditSubscription(d, i)

Next == Tick \/ JobStep \/ JobCrashes \/ \E d \in Desks : Request(d)

Spec == Init /\ [][Next]_vars

(* The timer of the one instance with JOBS_ENABLED goes on, and what it    *)
(* starts ends or fails.                                                   *)
FairSpec == Spec /\ WF_vars(JobStep)

------------------------------------------------------------------------------
(* Every variable stays in its range.                                      *)
TypeOK ==
  /\ now \in Days
  /\ periods \in Seq([status : Statuses, startsAt : Ends,
                      endsAt : Nat, graceDays : 0..1])
  /\ Len(periods) <= MaxPeriods
  /\ noticed \subseteq Notices
  /\ sent \subseteq Notices
  /\ again \in Nat
  /\ crashes \in 0..MaxCrashes
  /\ acts \in 0..MaxActs

(* A new subscription applies alone but for what its request could not     *)
(* see: a period in force that overlaps it was made or changed by another  *)
(* operator while the request ran.  However many operators work at once,   *)
(* and whatever the job expires meanwhile, everything else makes way.      *)
Disjoint(p, q) ==
  \/ p.endsAt # Open /\ p.endsAt <= q.startsAt
  \/ q.endsAt # Open /\ q.endsAt <= p.startsAt
Unseen(i, saw) == i \notin DOMAIN saw \/ periods[i] # saw[i]
OverlapsOnlyUnseen ==
  [][\A d \in Desks : desk[d].op = "create" /\ desk'[d] = Idle =>
       \A i \in DOMAIN periods :
         \/ periods'[i].status # "ACTIVE"
         \/ Disjoint(periods'[i], periods'[Len(periods')])
         \/ Unseen(i, desk[d].saw)]_vars

(* A notice the log knows of has reached the admins, and only a crash      *)
(* between the delivery and the log makes the job tell them again.         *)
NoticesOnce == noticed \subseteq sent /\ again <= crashes

(* When the period in force is over its grace, the admins are told so      *)
(* unless an operator gives the organization time again: neither a crash   *)
(* of the job nor a period it has expired already keeps the notice back.   *)
Over(i) == /\ i = currentOrgSubscription /\ i # 0
           /\ periods[i].endsAt # Open /\ periods[i].endsAt + periods[i].graceDays <= now
EndIsNoticed ==
  \A i \in 1..MaxPeriods : Over(i) ~> (~Over(i) \/ <<"expired", i>> \in noticed)
=============================================================================
