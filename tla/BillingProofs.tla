---------------------------- MODULE BillingProofs ----------------------------
(***************************************************************************)
(* Theorems about Subscriptions for any operators, periods and days, and   *)
(* about Invoices for any operators, total, payments and days.  Nothing is *)
(* locked between what an operator's request reads and what it writes, so  *)
(* periods may overlap, a void invoice may hold money and a paid one may   *)
(* lack some: the theorems say that requests that cross each other are the *)
(* only ways this comes about.                                             *)
(***************************************************************************)
EXTENDS Subscriptions, Invoices, FiniteSetTheorems, WellFoundedInduction, TLAPS

USE BillingAssumption, SubscriptionsAssumption

(* What the job is doing.                                                  *)
JobShape ==
  \/ job = Resting
  \/ \E t, l : job = [at |-> "expire", today |-> t, left |-> l]
  \/ \E at \in {"deliver", "log"} : \E k : job = [at |-> at, key |-> k]

(* What NoticesOnce needs: the job delivers what the log does not know of, *)
(* and every notice that was delivered and not logged is the one at hand   *)
(* or was left behind by a crash, which also accounts for every repetition.*)
Unlogged == sent \ noticed
Pending == IF JobAt("log") THEN 1 ELSE 0
NoticesInv ==
  /\ JobShape
  /\ IsFiniteSet(sent) /\ again \in Nat /\ crashes \in Nat
  /\ noticed \subseteq sent
  /\ JobAt("deliver") => job.key \notin noticed
  /\ JobAt("log") => job.key \in Unlogged
  /\ again + Cardinality(Unlogged) <= crashes + Pending

(* The notices that were sent and not logged can be counted.               *)
LEMMA UnloggedSize ==
  ASSUME NoticesInv
  PROVE  IsFiniteSet(Unlogged) /\ Cardinality(Unlogged) \in Nat
<1>1. Unlogged \in SUBSET sent
  BY DEF Unlogged
<1> QED BY <1>1, FS_Subset, FS_CardinalityType DEF NoticesInv

(* A step of the job that neither delivers nor logs.                       *)
LEMMA JobElsewhere ==
  ASSUME NoticesInv, UNCHANGED <<noticed, sent, again>>, JobShape',
         job'.at # "log", job'.at = "deliver" => job'.key \notin noticed,
         \/ ~JobAt("log") /\ crashes' = crashes
         \/ crashes' = crashes + 1
  PROVE  NoticesInv'
<1>1. Unlogged' = Unlogged /\ Cardinality(Unlogged) \in Nat
  BY UnloggedSize DEF Unlogged
<1>2. Pending' = 0 /\ Pending \in {0, 1} /\ (~JobAt("log") => Pending = 0)
  BY DEF Pending, JobAt
<1> QED BY <1>1, <1>2 DEF NoticesInv, JobAt

(* Sending adds to the notices not logged, logging takes from them, and    *)
(* only a crash of the job leaves one behind.                              *)
LEMMA StepNoticesInv == NoticesInv /\ [Next]_vars => NoticesInv'
<1> SUFFICES ASSUME NoticesInv, [Next]_vars PROVE NoticesInv'
  OBVIOUS
<1>1. CASE UNCHANGED jobVars
  BY <1>1 DEF NoticesInv, JobShape, JobAt, Unlogged, Pending, jobVars, Resting
<1>2. CASE JobStarts
  <2>1. PICK t, l : job' = [at |-> "expire", today |-> t, left |-> l]
    BY <1>2 DEF JobStarts, Go
  <2>2. job'.at = "expire" /\ JobShape'
    BY <2>1 DEF JobShape
  <2>3. ~JobAt("log")
    BY <1>2 DEF JobStarts, Resting, JobAt
  <2> QED BY <1>2, <2>2, <2>3, JobElsewhere DEF JobStarts
<1>3. ASSUME NEW i \in 1..MaxPeriods, Expire(i)
      PROVE  NoticesInv'
  <2>1. PICK t, l : job = [at |-> "expire", today |-> t, left |-> l]
    BY <1>3 DEF Expire, JobAt, NoticesInv, JobShape, Resting
  <2>2. job' = [at |-> "expire", today |-> t, left |-> l \ {i}]
    BY <1>3, <2>1 DEF Expire, Go
  <2>3. job'.at = "expire" /\ JobShape' /\ ~JobAt("log")
    BY <2>1, <2>2 DEF JobShape, JobAt
  <2> QED BY <1>3, <2>3, JobElsewhere DEF Expire
<1>4. CASE Look
  <2>1. \/ job' = Resting
        \/ \E key : job' = [at |-> "deliver", key |-> key] /\ key \notin noticed
    BY <1>4 DEF Look, Go, tell
  <2>2. /\ job'.at # "log" /\ (job'.at = "deliver" => job'.key \notin noticed)
        /\ JobShape' /\ ~JobAt("log")
    BY <1>4, <2>1 DEF Look, JobShape, JobAt, Resting
  <2> QED BY <1>4, <2>2, JobElsewhere DEF Look
<1>5. CASE Deliver
  <2>1. PICK k : job = [at |-> "deliver", key |-> k]
    BY <1>5 DEF Deliver, JobAt, NoticesInv, JobShape, Resting
  <2>2. job' = [at |-> "log", key |-> k] /\ k \notin noticed
    BY <1>5, <2>1 DEF Deliver, Go, JobAt, NoticesInv
  <2>3. /\ sent' = sent \cup {k} /\ noticed' = noticed
        /\ Unlogged' = Unlogged \cup {k} /\ IsFiniteSet(sent')
    BY <1>5, <2>1, <2>2, FS_AddElement DEF Deliver, Unlogged, NoticesInv
  <2>4. Cardinality(Unlogged') = IF k \in Unlogged THEN Cardinality(Unlogged)
                                 ELSE Cardinality(Unlogged) + 1
    BY <2>3, UnloggedSize, FS_AddElement
  <2>5. again' = IF k \in Unlogged THEN again + 1 ELSE again
    BY <1>5, <2>1, <2>2 DEF Deliver, Unlogged
  <2>6. Pending = 0 /\ Pending' = 1
    BY <2>1, <2>2 DEF Pending, JobAt
  <2>7. again' \in Nat /\ again' + Cardinality(Unlogged') <= crashes + 1
    BY <2>4, <2>5, <2>6, UnloggedSize DEF NoticesInv
  <2>8. JobShape' /\ JobAt("log")' /\ ~JobAt("deliver")' /\ job'.key = k
    BY <2>2 DEF JobShape, JobAt
  <2>9. crashes' = crashes
    BY <1>5 DEF Deliver
  <2> QED BY <2>3, <2>6, <2>7, <2>8, <2>9 DEF NoticesInv
<1>6. CASE Log
  <2>1. PICK k : job = [at |-> "log", key |-> k]
    BY <1>6 DEF Log, JobAt, NoticesInv, JobShape, Resting
  <2>2. k \in Unlogged /\ job' = Resting
    BY <1>6, <2>1 DEF Log, Go, JobAt, NoticesInv
  <2>3. /\ noticed' = noticed \cup {k} /\ sent' = sent /\ again' = again /\ crashes' = crashes
        /\ Unlogged' = Unlogged \ {k}
    BY <1>6, <2>1 DEF Log, Unlogged
  <2>4. Cardinality(Unlogged') = Cardinality(Unlogged) - 1
    BY <2>2, <2>3, UnloggedSize, FS_RemoveElement
  <2>5. Pending = 1 /\ Pending' = 0
    BY <2>1, <2>2 DEF Pending, JobAt, Resting
  <2>6. again + Cardinality(Unlogged') <= crashes
    BY <2>4, <2>5, UnloggedSize DEF NoticesInv
  <2>7. JobShape' /\ ~JobAt("log")' /\ ~JobAt("deliver")'
    BY <2>2 DEF JobShape, JobAt, Resting
  <2>8. noticed' \subseteq sent'
    BY <2>2, <2>3 DEF NoticesInv, Unlogged
  <2> QED BY <2>3, <2>5, <2>6, <2>7, <2>8 DEF NoticesInv
<1>7. CASE JobCrashes
  BY <1>7, JobElsewhere DEF JobCrashes, Go, JobShape, Resting
<1> QED BY <1>1, <1>2, <1>3, <1>4, <1>5, <1>6, <1>7
        DEF Next, JobStep, Tick, Request, Approve, TrialStarts, NewSubscription,
            SubscriptionStarts, Renew, Renewed, EditSubscription, vars

(* However often the job dies between two of its steps: what the log knows *)
(* of was delivered, and each crash makes for one repetition at most.      *)
THEOREM NoticesAreOnce == Spec => []NoticesOnce
<1>1. Init => NoticesInv
  BY FS_EmptySet DEF Init, NoticesInv, JobShape, JobAt, Resting, Unlogged, Pending
<1>2. NoticesInv => NoticesOnce
  <2> SUFFICES ASSUME NoticesInv PROVE NoticesOnce
    OBVIOUS
  <2>1. CASE JobAt("log")
    <3>1. Unlogged # {}
      BY <2>1 DEF NoticesInv
    <3>2. Cardinality(Unlogged) # 0
      BY <3>1, UnloggedSize, FS_EmptySet
    <3> QED BY <2>1, <3>2, UnloggedSize DEF NoticesInv, NoticesOnce, Pending
  <2>2. CASE ~JobAt("log")
    BY <2>2, UnloggedSize DEF NoticesInv, NoticesOnce, Pending
  <2> QED BY <2>1, <2>2
<1> QED BY <1>1, <1>2, StepNoticesInv, PTL DEF Spec

------------------------------------------------------------------------------
PeriodRow == [status : Statuses, startsAt : Ends, endsAt : Nat, graceDays : 0..1]
NewPeriod ==
  [op : {"create"}, from : Days, to : Ends \cup {Open}, grace : 0..1, saw : Seq(PeriodRow)]
Renewal == [op : {"renew"}, period : Nat, from : Days, to : Ends, cut : BOOLEAN, grace : 0..1]

(* What an operator's request carries from what it read to what it writes, *)
(* and what the job carries from step to step.                             *)
Doing == {Idle} \cup [op : {"trial"}] \cup NewPeriod \cup Renewal
Working ==
  {Resting} \cup [at : {"expire"}, today : Nat, left : SUBSET Nat]
            \cup [at : {"deliver", "log"}, key : Notices]

TypeInv ==
  /\ TypeOK
  /\ desk \in [Desks -> Doing]
  /\ job \in Working

(* Every set of numbers that is not empty has a least one.                 *)
LEMMA LeastNumber ==
  ASSUME NEW T \in SUBSET Nat, T # {}
  PROVE  \E m \in T : \A k \in T : m <= k
<1> DEFINE R == OpToRel(<, Nat)
<1>1. IsWellFoundedOn(R, Nat)
  BY NatLessThanWellFounded
<1>2. PICK m \in T : \A k \in T : ~(<<k, m>> \in R)
  <2> HIDE DEF R
  <2> QED BY <1>1, WFMin
<1>3. ASSUME NEW k \in T PROVE m <= k
  <2>1. ~(k < m)
    BY <1>2, k \in Nat, m \in Nat, Zenon DEF OpToRel
  <2> QED BY <2>1
<1> QED BY <1>3

(* The rows, one by one.                                                   *)
LEMMA RowTyped ==
  ASSUME TypeOK, NEW i \in DOMAIN periods
  PROVE  /\ i \in 1..MaxPeriods /\ i \in Nat /\ periods[i] \in PeriodRow
         /\ periods[i].startsAt \in Nat /\ periods[i].endsAt \in Nat
<1>1. periods \in Seq(PeriodRow) /\ Len(periods) <= MaxPeriods
  BY DEF TypeOK, PeriodRow
<1>2. i \in 1..Len(periods) /\ periods[i] \in PeriodRow
  BY <1>1
<1>3. MaxNow \in Nat /\ MaxPeriods \in Nat
  OBVIOUS
<1>4. Ends \subseteq Nat
  BY <1>3 DEF Ends, Days
<1>5. Len(periods) \in Nat
  BY <1>1
<1>6. periods[i].startsAt \in Nat /\ periods[i].endsAt \in Nat
  BY <1>2, <1>4 DEF PeriodRow
<1> QED BY <1>1, <1>2, <1>3, <1>5, <1>6

(* currentOrgSubscription always finds one: of the periods that started,   *)
(* one started last, and of those one was made last.                       *)
LEMMA CurrentExists ==
  ASSUME TypeOK
  PROVE  currentOrgSubscription = 0 \/ currentOrgSubscription \in DOMAIN periods
<1>1. /\ DOMAIN periods = 1..Len(periods) /\ Len(periods) \in Nat
      /\ \A i \in DOMAIN periods : periods[i].startsAt \in 0..now \/ i \notin started
      /\ started \subseteq DOMAIN periods /\ now \in Nat
  <2>1. MaxNow \in Nat
    OBVIOUS
  <2>2. DOMAIN periods = 1..Len(periods) /\ Len(periods) \in Nat /\ now \in Nat
    BY <2>1 DEF TypeOK, Days
  <2>3. ASSUME NEW i \in DOMAIN periods PROVE periods[i].startsAt \in 0..now \/ i \notin started
    <3>1. periods[i].startsAt \in Nat
      BY RowTyped
    <3> QED BY <2>2, <3>1 DEF started
  <2> QED BY <2>2, <2>3 DEF started
<1>2. CASE started = {}
  BY <1>2 DEF currentOrgSubscription
<1>3. CASE started # {}
  <2> DEFINE ages == {now - periods[i].startsAt : i \in started}
  <2>1. PICK a \in ages : \A b \in ages : a <= b
    <3>1. ages \subseteq Nat /\ ages # {}
      BY <1>1, <1>3
    <3> HIDE DEF ages
    <3> QED BY <3>1, LeastNumber
  <2> DEFINE latest == {i \in started : now - periods[i].startsAt = a}
             places == {Len(periods) - i : i \in latest}
  <2>2. PICK q \in places : \A b \in places : q <= b
    <3>1. places \subseteq Nat /\ places # {}
      BY <1>1, <2>1
    <3> HIDE DEF places
    <3> QED BY <3>1, LeastNumber
  <2>3. PICK i \in latest : q = Len(periods) - i
    OBVIOUS
  <2>4. ASSUME NEW j \in started \ {i}
        PROVE  \/ periods[j].startsAt < periods[i].startsAt
               \/ periods[j].startsAt = periods[i].startsAt /\ j < i
    <3>1. /\ periods[i].startsAt \in Nat /\ periods[j].startsAt \in Nat
          /\ i \in Nat /\ j \in Nat /\ i # j
      <4>1. i \in DOMAIN periods /\ j \in DOMAIN periods /\ i # j
        BY <1>1, <2>3
      <4> QED BY <4>1, RowTyped
    <3>2. periods[j].startsAt <= periods[i].startsAt
      <4>1. now - periods[j].startsAt \in ages /\ now - periods[i].startsAt = a
        BY <2>3
      <4>2. a <= now - periods[j].startsAt
        BY <2>1, <4>1
      <4> HIDE DEF ages
      <4> QED BY <1>1, <3>1, <4>1, <4>2
    <3>3. periods[j].startsAt = periods[i].startsAt => j <= i
      <4> SUFFICES ASSUME periods[j].startsAt = periods[i].startsAt PROVE j <= i
        OBVIOUS
      <4>1. j \in latest
        BY <2>3
      <4>2. Len(periods) - j \in places
        BY <4>1
      <4>3. Len(periods) - i <= Len(periods) - j
        BY <2>2, <2>3, <4>2
      <4> HIDE DEF ages, latest, places
      <4> QED BY <1>1, <3>1, <4>3
    <3> QED BY <3>1, <3>2, <3>3
  <2>5. currentOrgSubscription \in started
    <3>1. \E k \in started : \A j \in started \ {k} :
             \/ periods[j].startsAt < periods[k].startsAt
             \/ periods[j].startsAt = periods[k].startsAt /\ j < k
      BY <2>3, <2>4
    <3> QED BY <1>3, <3>1 DEF currentOrgSubscription
  <2> QED BY <1>1, <2>5
<1> QED BY <1>2, <1>3

(* The days that operators enter are days.                                 *)
LEMMA DatesAreDays == Dates \subseteq Ends /\ Dates \subseteq Nat
<1>1. MaxNow \in Nat /\ MaxNow >= 1 /\ Dates \subseteq 1..(MaxNow + 1)
  OBVIOUS
<1>2. 1..(MaxNow + 1) \subseteq (1..MaxNow) \cup {MaxNow + 1}
  BY <1>1
<1> QED BY <1>1, <1>2 DEF Ends, Days

(* The trial is a period.                                                  *)
LEMMA TrialTyped ==
  ASSUME now \in Days
  PROVE  trial \in PeriodRow
<1>1. MaxNow \in Nat /\ TrialDays \in Nat
  OBVIOUS
<1> QED BY <1>1 DEF trial, Period, PeriodRow, Statuses, Ends, Days

(* Every initial state is well-typed.                                      *)
LEMMA InitTypeInv == Init => TypeInv
<1> SUFFICES ASSUME Init PROVE TypeInv
  OBVIOUS
<1>1. MaxNow \in Nat /\ MaxNow >= 1 /\ MaxPeriods \in Nat /\ MaxActs \in Nat /\ MaxCrashes \in Nat
  OBVIOUS
<1>2. Idle \in Doing /\ Resting \in Working
  BY DEF Doing, Working
<1>3. desk \in [Desks -> Doing] /\ job \in Working
  BY <1>2 DEF Init
<1>4. periods \in Seq(PeriodRow) /\ Len(periods) <= MaxPeriods
  <2>1. trial \in PeriodRow
    BY <1>1, TrialTyped DEF Init, Days
  <2>2. <<trial>> \in Seq(PeriodRow) /\ Len(<<trial>>) = 1
    BY <2>1
  <2>3. <<>> \in Seq(PeriodRow) /\ Len(<<>>) = 0 /\ MaxPeriods >= 1
    OBVIOUS
  <2>4. CASE periods = <<trial>>
    BY <1>1, <2>2, <2>3, <2>4
  <2>5. CASE periods = <<>>
    BY <1>1, <2>3, <2>5
  <2> QED BY <2>4, <2>5 DEF Init
<1>5. now \in Days /\ crashes \in 0..MaxCrashes /\ acts \in 0..MaxActs /\ again \in Nat
  BY <1>1 DEF Init, Days
<1>6. TypeOK
  BY <1>1, <1>4, <1>5 DEF Init, TypeOK, PeriodRow
<1> QED BY <1>3, <1>6 DEF TypeInv

(* Rows that change and rows that are added stay rows.                     *)
LEMMA ChangedRow ==
  ASSUME NEW p \in PeriodRow
  PROVE  /\ \A status \in Statuses : [p EXCEPT !.status = status] \in PeriodRow
         /\ \A to \in Nat : [p EXCEPT !.endsAt = to] \in PeriodRow
         /\ \A grace \in 0..1 : [p EXCEPT !.graceDays = grace] \in PeriodRow
BY DEF PeriodRow

(* A period that is cut short is a period.                                 *)
LEMMA CutRow ==
  ASSUME NEW p \in PeriodRow, NEW to \in Nat
  PROVE  [p EXCEPT !.endsAt = to, !.graceDays = 0] \in PeriodRow
<1> DEFINE q == [p EXCEPT !.endsAt = to]
<1>1. q \in PeriodRow
  BY ChangedRow
<1>2. 0 \in 0..1
  OBVIOUS
<1>3. [q EXCEPT !.graceDays = 0] \in PeriodRow
  <2> HIDE DEF q
  <2> QED BY <1>1, <1>2, ChangedRow
<1>4. [p EXCEPT !.endsAt = to, !.graceDays = 0] = [q EXCEPT !.graceDays = 0]
  BY DEF PeriodRow
<1> QED BY <1>3, <1>4

(* A row that is changed stays in its place.                               *)
LEMMA RowChanged ==
  ASSUME NEW S, NEW ps \in Seq(S), NEW i \in DOMAIN ps, NEW p \in S
  PROVE  /\ [ps EXCEPT ![i] = p] \in Seq(S)
         /\ Len([ps EXCEPT ![i] = p]) = Len(ps)
OBVIOUS

(* A new row comes behind the others.                                      *)
LEMMA RowAdded ==
  ASSUME NEW S, NEW ps \in Seq(S), NEW p \in S
  PROVE  /\ Append(ps, p) \in Seq(S)
         /\ Len(Append(ps, p)) = Len(ps) + 1 /\ Len(ps) \in Nat
         /\ Append(ps, p)[Len(ps) + 1] = p
         /\ \A i \in DOMAIN ps : Append(ps, p)[i] = ps[i]
OBVIOUS

(* Rows that are all rewritten at once stay rows.                          *)
LEMMA RowsMapped ==
  ASSUME NEW S, NEW n \in Nat, NEW f, f = [i \in 1..n |-> f[i]], \A i \in 1..n : f[i] \in S
  PROVE  f \in Seq(S) /\ Len(f) = n
OBVIOUS

(* A step that leaves the periods alone, or writes well-typed ones.        *)
LEMMA BooksTyped ==
  ASSUME TypeInv, now' = now, crashes' = crashes, acts' \in 0..MaxActs,
         UNCHANGED <<noticed, sent, again>>,
         periods' \in Seq(PeriodRow), Len(periods') <= MaxPeriods
  PROVE  TypeOK'
BY DEF TypeInv, TypeOK, PeriodRow

(* A desk that takes up work keeps the desks well-typed.                   *)
LEMMA WorkTyped ==
  ASSUME TypeInv, NEW d \in Desks, NEW r \in Doing, Work(d, r)
  PROVE  desk' \in [Desks -> Doing]
BY DEF TypeInv, Work

(* What the operators do is counted.                                       *)
LEMMA ActTyped ==
  ASSUME TypeOK, Act
  PROVE  acts' \in 0..MaxActs
<1>1. MaxActs \in Nat
  OBVIOUS
<1> QED BY <1>1 DEF TypeOK, Act

(* What the operators' requests write is well-typed.                       *)
LEMMA StepRequest ==
  ASSUME TypeInv, NEW d \in Desks, Request(d)
  PROVE  TypeInv'
<1>1. /\ MaxNow \in Nat /\ MaxPeriods \in Nat /\ TrialDays \in Nat /\ TypeOK
      /\ periods \in Seq(PeriodRow) /\ Len(periods) <= MaxPeriods /\ Len(periods) \in Nat
      /\ DOMAIN periods = 1..Len(periods) /\ now \in 1..MaxNow
  <2>1. MaxNow \in Nat /\ MaxPeriods \in Nat /\ TrialDays \in Nat
    OBVIOUS
  <2> QED BY <2>1 DEF TypeInv, TypeOK, PeriodRow, Days
<1>2. Idle \in Doing /\ [op |-> "trial"] \in Doing /\ desk[d] \in Doing
  BY DEF Doing, TypeInv
<1>3. ASSUME now' = now, acts' = acts \/ Act, NEW r \in Doing, Work(d, r), UNCHANGED jobVars,
             periods' \in Seq(PeriodRow), Len(periods') <= MaxPeriods
      PROVE  TypeInv'
  <2>1. acts' \in 0..MaxActs
    BY <1>3, <1>1, ActTyped DEF TypeOK
  <2>2. TypeOK'
    BY <1>3, <2>1, BooksTyped DEF jobVars
  <2>3. desk' \in [Desks -> Doing]
    BY <1>3, WorkTyped
  <2> QED BY <1>3, <2>2, <2>3 DEF TypeInv, jobVars
<1>4. CASE Approve(d)
  BY <1>1, <1>2, <1>3, <1>4 DEF Approve
<1>5. ASSUME NEW p \in PeriodRow, NEW ps \in Seq(PeriodRow), Len(ps) = Len(periods),
             Len(periods) < MaxPeriods, periods' = Append(ps, p)
      PROVE  periods' \in Seq(PeriodRow) /\ Len(periods') <= MaxPeriods
  <2>1. periods' \in Seq(PeriodRow) /\ Len(periods') = Len(periods) + 1
    BY <1>5, RowAdded
  <2> QED BY <1>1, <1>5, <2>1
<1>6. CASE TrialStarts(d)
  <2>1. trial \in PeriodRow
    BY <1>1, TrialTyped DEF Days
  <2>2. periods' \in Seq(PeriodRow) /\ Len(periods') <= MaxPeriods
    BY <1>1, <1>5, <1>6, <2>1 DEF TrialStarts
  <2> QED BY <1>2, <1>3, <1>6, <2>2 DEF TrialStarts, Done
<1>7. ASSUME NEW from \in Dates \cap Days, NEW to \in Dates \cup {Open}, NEW grace \in 0..1,
             NewSubscription(d, from, to, grace)
      PROVE  TypeInv'
  <2>1. to \in Ends \cup {Open}
    BY DatesAreDays
  <2>2. [op |-> "create", from |-> from, to |-> to, grace |-> grace, saw |-> periods] \in Doing
    BY <1>1, <2>1 DEF Doing, NewPeriod
  <2> QED BY <1>1, <1>3, <1>7, <2>2 DEF NewSubscription
<1>8. CASE SubscriptionStarts(d)
  <2> DEFINE r == desk[d]
             over == overlapping(r.saw, r.from, r.to)
             made == [i \in DOMAIN periods |-> IF i \in over THEN MakeWay(i, r.from) ELSE periods[i]]
  <2>1. r \in NewPeriod
    BY <1>2, <1>8 DEF SubscriptionStarts, Doing, Idle, Renewal
  <2>2. r.from \in Days /\ r.from \in Nat /\ r.to \in Nat
    BY <1>1, <2>1 DEF NewPeriod, Days, Ends, Open
  <2>3. ASSUME NEW i \in 1..Len(periods) PROVE made[i] \in PeriodRow
    <3>1. periods[i] \in PeriodRow
      BY <1>1
    <3>2. MakeWay(i, r.from) \in PeriodRow
      BY <2>2, <3>1, ChangedRow, CutRow DEF MakeWay, Statuses
    <3> QED BY <1>1, <3>1, <3>2
  <2>4. made \in Seq(PeriodRow) /\ Len(made) = Len(periods)
    <3>1. made = [i \in 1..Len(periods) |-> made[i]]
      BY <1>1
    <3> HIDE DEF made
    <3> QED BY <1>1, <2>3, <3>1, RowsMapped
  <2>5. Period("ACTIVE", r.from, r.to, r.grace) \in PeriodRow
    BY <2>1, <2>2 DEF Period, PeriodRow, NewPeriod, Statuses, Ends
  <2>6. periods' = Append(made, Period("ACTIVE", r.from, r.to, r.grace)) /\ Len(periods) < MaxPeriods
    BY <1>8 DEF SubscriptionStarts
  <2>7. periods' \in Seq(PeriodRow) /\ Len(periods') <= MaxPeriods
    <3> HIDE DEF made, r
    <3> QED BY <1>5, <2>4, <2>5, <2>6
  <2> QED BY <1>2, <1>3, <1>8, <2>7 DEF SubscriptionStarts, Done
<1>9. ASSUME NEW i \in 1..MaxPeriods, NEW to \in Dates, Renew(d, i, to)
      PROVE  TypeInv'
  <2> DEFINE from == IF periods[i].endsAt > now THEN periods[i].endsAt ELSE now
             grace == IF periods[i].graceDays = 0 THEN 1 ELSE periods[i].graceDays
             r == [op |-> "renew", period |-> i, from |-> from, to |-> to,
                   cut |-> periods[i].endsAt = Open, grace |-> grace]
  <2>1. periods[i] \in PeriodRow /\ periods[i].endsAt \in Nat /\ i \in Nat
    BY <1>1, <1>9, RowTyped DEF Renew
  <2>2. from < to /\ Work(d, r)
    BY <1>9 DEF Renew
  <2>3. from \in Days /\ to \in Ends
    BY <1>1, <2>1, <2>2, DatesAreDays DEF Days, Ends
  <2>4. grace \in 0..1
    BY <2>1 DEF PeriodRow
  <2>5. r \in Doing
    <3> HIDE DEF from, grace
    <3> QED BY <2>1, <2>3, <2>4 DEF Doing, Renewal
  <2>6. periods' = periods /\ now' = now /\ Act /\ UNCHANGED jobVars
    BY <1>9 DEF Renew
  <2> HIDE DEF r
  <2> QED BY <1>1, <1>3, <2>2, <2>5, <2>6
<1>10. CASE Renewed(d)
  <2> DEFINE r == desk[d]
             kept == IF r.cut THEN [periods EXCEPT ![r.period].endsAt = r.from,
                                                   ![r.period].graceDays = 0]
                     ELSE periods
  <2>1. r \in Renewal
    BY <1>2, <1>10 DEF Renewed, Doing, Idle, NewPeriod
  <2>2. r.from \in Days /\ r.from \in Nat /\ r.to \in Nat
    BY <1>1, <2>1 DEF Renewal, Days, Ends
  <2>3. kept \in Seq(PeriodRow) /\ Len(kept) = Len(periods)
    <3>1. CASE r.period \in DOMAIN periods
      <4> DEFINE p == [periods[r.period] EXCEPT !.endsAt = r.from, !.graceDays = 0]
      <4>1. p \in PeriodRow
        <5>1. periods[r.period] \in PeriodRow
          BY <1>1, <3>1
        <5> HIDE DEF r
        <5> QED BY <2>2, <5>1, CutRow
      <4>2. /\ [periods EXCEPT ![r.period] = p] \in Seq(PeriodRow)
            /\ Len([periods EXCEPT ![r.period] = p]) = Len(periods)
        BY <1>1, <3>1, <4>1, RowChanged
      <4>3. [periods EXCEPT ![r.period].endsAt = r.from, ![r.period].graceDays = 0]
              = [periods EXCEPT ![r.period] = p]
        BY <1>1, <3>1
      <4> QED BY <1>1, <4>2, <4>3
    <3>2. CASE r.period \notin DOMAIN periods
      <4>1. [periods EXCEPT ![r.period].endsAt = r.from, ![r.period].graceDays = 0] = periods
        BY <1>1, <3>2
      <4> QED BY <1>1, <4>1
    <3> QED BY <3>1, <3>2
  <2>4. Period("ACTIVE", r.from, r.to, r.grace) \in PeriodRow
    BY <2>1, <2>2 DEF Period, PeriodRow, Renewal, Statuses, Ends
  <2>5. periods' = Append(kept, Period("ACTIVE", r.from, r.to, r.grace)) /\ Len(periods) < MaxPeriods
    BY <1>10 DEF Renewed
  <2>6. periods' \in Seq(PeriodRow) /\ Len(periods') <= MaxPeriods
    <3> HIDE DEF kept, r
    <3> QED BY <1>5, <2>3, <2>4, <2>5
  <2> QED BY <1>2, <1>3, <1>10, <2>6 DEF Renewed, Done
<1>11. ASSUME NEW i \in 1..MaxPeriods, EditSubscription(d, i)
       PROVE  TypeInv'
  <2>1. i \in DOMAIN periods /\ periods[i] \in PeriodRow
    BY <1>1, <1>11 DEF EditSubscription
  <2>2. Dates \cup {Open} \subseteq Nat
    BY DatesAreDays DEF Open
  <2>3. PICK p \in PeriodRow : periods' = [periods EXCEPT ![i] = p]
    <3>1. CASE \E status \in Statuses : periods' = [periods EXCEPT ![i].status = status]
      BY <2>1, <3>1, ChangedRow
    <3>2. CASE \E to \in Dates \cup {Open} : periods' = [periods EXCEPT ![i].endsAt = to]
      BY <2>1, <2>2, <3>2, ChangedRow
    <3>3. CASE \E grace \in 0..1 : periods' = [periods EXCEPT ![i].graceDays = grace]
      BY <2>1, <3>3, ChangedRow
    <3> QED BY <1>11, <3>1, <3>2, <3>3 DEF EditSubscription
  <2>4. periods' \in Seq(PeriodRow) /\ Len(periods') <= MaxPeriods
    BY <1>1, <2>1, <2>3, RowChanged
  <2>5. desk' = desk /\ now' = now /\ Act /\ UNCHANGED jobVars
    BY <1>11 DEF EditSubscription
  <2>6. TypeOK'
    BY <1>1, <2>4, <2>5, ActTyped, BooksTyped DEF jobVars
  <2> QED BY <2>5, <2>6 DEF TypeInv, jobVars
<1> QED BY <1>4, <1>6, <1>7, <1>8, <1>9, <1>10, <1>11 DEF Request

(* What the job finds and writes is well-typed: what it looks up is a      *)
(* period, and what it is about to tell is a notice.                       *)
LEMMA StepJob ==
  ASSUME TypeInv, JobStep \/ JobCrashes
  PROVE  TypeInv'
<1>1. /\ MaxNow \in Nat /\ MaxPeriods \in Nat /\ TypeOK /\ now \in Nat
      /\ periods \in Seq(PeriodRow) /\ Len(periods) <= MaxPeriods /\ Len(periods) \in Nat
      /\ DOMAIN periods = 1..Len(periods) /\ job \in Working
  <2>1. MaxNow \in Nat /\ MaxPeriods \in Nat
    OBVIOUS
  <2> QED BY <2>1 DEF TypeInv, TypeOK, PeriodRow, Days
<1>2. Resting \in Working
  BY DEF Working
<1>3. CASE JobStarts
  <2>1. PICK left \in SUBSET DOMAIN periods : job' = [at |-> "expire", today |-> now, left |-> left]
    BY <1>3 DEF JobStarts, Go
  <2>2. job' \in Working
    BY <1>1, <2>1 DEF Working
  <2> QED BY <1>3, <2>2 DEF JobStarts, TypeInv, TypeOK
<1>4. ASSUME NEW i \in 1..MaxPeriods, Expire(i) PROVE TypeInv'
  <2>1. PICK today \in Nat, left \in SUBSET Nat :
          job = [at |-> "expire", today |-> today, left |-> left]
    BY <1>1, <1>4 DEF Expire, JobAt, Working, Resting
  <2>2. job' = [at |-> "expire", today |-> today, left |-> left \ {i}]
    BY <1>4, <2>1 DEF Expire, Go
  <2>3. job' \in Working
    BY <2>2 DEF Working
  <2>4. periods' \in Seq(PeriodRow) /\ Len(periods') <= MaxPeriods
    <3>1. CASE i \in DOMAIN periods
      <4> DEFINE p == [periods[i] EXCEPT !.status = "EXPIRED"]
      <4>1. p \in PeriodRow
        <5>1. periods[i] \in PeriodRow /\ "EXPIRED" \in Statuses
          BY <1>1, <3>1 DEF Statuses
        <5> QED BY <5>1, ChangedRow
      <4>2. periods' = [periods EXCEPT ![i] = p]
        BY <1>4 DEF Expire
      <4> HIDE DEF p
      <4> QED BY <1>1, <3>1, <4>1, <4>2, RowChanged
    <3>2. CASE i \notin DOMAIN periods
      <4>1. periods' = periods
        BY <1>1, <1>4, <3>2 DEF Expire
      <4> QED BY <1>1, <4>1
    <3> QED BY <3>1, <3>2
  <2>5. TypeOK'
    BY <1>1, <1>4, <2>4, BooksTyped DEF Expire, TypeOK
  <2> QED BY <1>4, <2>3, <2>5 DEF Expire, TypeInv
<1>5. CASE Look
  <2> DEFINE i == currentOrgSubscription
             key == IF i = 0 THEN <<"none", 0>>
                    ELSE IF periods[i].endsAt = Open THEN <<"none", 0>>
                    ELSE <<noticeFor(i, job.today), i>>
  <2>1. PICK today \in Nat : job.today = today
    BY <1>1, <1>5 DEF Look, JobAt, Working, Resting
  <2>2. key[1] # "none" => key \in Notices
    <3>1. CASE i = 0 \/ periods[i].endsAt = Open
      BY <3>1
    <3>2. CASE ~(i = 0 \/ periods[i].endsAt = Open)
      <4>1. i \in DOMAIN periods
        BY <1>1, <3>2, CurrentExists
      <4>2. i \in 1..MaxPeriods
        BY <1>1, <4>1, RowTyped
      <4>3. noticeFor(i, today) \in {"expiry", "grace", "expired", "none"}
        BY DEF noticeFor
      <4>4. key = <<noticeFor(i, today), i>>
        BY <2>1, <3>2
      <4> HIDE DEF i, key
      <4> QED BY <4>2, <4>3, <4>4 DEF Notices
    <3> QED BY <3>1, <3>2
  <2>3. job' = IF tell(key) THEN [at |-> "deliver", key |-> key] ELSE Resting
    BY <1>5 DEF Look, Go
  <2>4. job' \in Working
    <3> HIDE DEF key
    <3> QED BY <1>2, <2>2, <2>3 DEF Working, tell
  <2> QED BY <1>5, <2>4 DEF Look, TypeInv, TypeOK
<1>6. CASE Deliver
  <2>1. PICK key \in Notices : job = [at |-> "deliver", key |-> key]
    BY <1>1, <1>6 DEF Deliver, JobAt, Working, Resting
  <2>2. job' = [at |-> "log", key |-> key] /\ sent' = sent \cup {key}
    BY <1>6, <2>1 DEF Deliver, Go
  <2>3. job' \in Working
    BY <2>2 DEF Working
  <2>4. again' \in Nat
    BY <1>1, <1>6 DEF Deliver, TypeOK
  <2> QED BY <1>6, <2>2, <2>3, <2>4 DEF Deliver, TypeInv, TypeOK
<1>7. CASE Log
  <2>1. PICK key \in Notices : job = [at |-> "log", key |-> key]
    BY <1>1, <1>7 DEF Log, JobAt, Working, Resting
  <2>2. job' = Resting /\ noticed' = noticed \cup {key}
    BY <1>7, <2>1 DEF Log, Go
  <2> QED BY <1>2, <1>7, <2>2 DEF Log, TypeInv, TypeOK
<1>8. CASE JobCrashes
  <2>1. MaxCrashes \in Nat
    OBVIOUS
  <2>2. crashes' \in 0..MaxCrashes
    BY <1>1, <1>8, <2>1 DEF JobCrashes, TypeOK
  <2> QED BY <1>2, <1>8, <2>2 DEF JobCrashes, Go, TypeInv, TypeOK
<1> QED BY <1>3, <1>4, <1>5, <1>6, <1>7, <1>8 DEF JobStep

(* Every step of the operators and of the job keeps the types.             *)
LEMMA StepTypeInv == TypeInv /\ [Next]_vars => TypeInv'
<1> SUFFICES ASSUME TypeInv, [Next]_vars PROVE TypeInv'
  OBVIOUS
<1>1. CASE Tick
  <2>1. MaxNow \in Nat
    OBVIOUS
  <2>2. now' \in Days
    BY <1>1, <2>1 DEF Tick, TypeInv, TypeOK, Days
  <2> QED BY <1>1, <2>2 DEF Tick, TypeInv, TypeOK, jobVars
<1>2. CASE UNCHANGED vars
  BY <1>2 DEF TypeInv, TypeOK, vars, jobVars
<1> QED BY <1>1, <1>2, StepJob, StepRequest DEF Next

(* Days, rows, notices and counters stay in their ranges, and with them    *)
(* what the desks and the job carry from what they read to what they       *)
(* write.                                                                  *)
THEOREM TypeCorrect == Spec => []TypeOK
<1>1. TypeInv => TypeOK
  BY DEF TypeInv
<1> QED BY <1>1, InitTypeInv, StepTypeInv, PTL DEF Spec

------------------------------------------------------------------------------
(* However many operators work at once, and however far the hourly job has *)
(* come with the periods it found due: a new subscription overlaps only    *)
(* periods that its request could not see as they are.  Nothing is locked  *)
(* between what a request reads and what it writes, so this is all that    *)
(* the code can promise of one entitlement at a time.                      *)
THEOREM NewPeriodMakesWay == Spec => OverlapsOnlyUnseen
<1> DEFINE MakesWay == \A d \in Desks : desk[d].op = "create" /\ desk'[d] = Idle =>
             \A i \in DOMAIN periods :
               \/ periods'[i].status # "ACTIVE"
               \/ Disjoint(periods'[i], periods'[Len(periods')])
               \/ Unseen(i, desk[d].saw)
<1>1. TypeInv /\ [Next]_vars => [MakesWay]_vars
  <2> SUFFICES ASSUME TypeInv, [Next]_vars, NEW d \in Desks,
                      desk[d].op = "create", desk'[d] = Idle,
                      NEW i \in DOMAIN periods, periods'[i].status = "ACTIVE",
                      ~Unseen(i, desk[d].saw)
               PROVE  Disjoint(periods'[i], periods'[Len(periods')])
    OBVIOUS
  <2> DEFINE r == desk[d]
             over == overlapping(r.saw, r.from, r.to)
             made == [j \in DOMAIN periods |-> IF j \in over THEN MakeWay(j, r.from) ELSE periods[j]]
             new == Period("ACTIVE", r.from, r.to, r.grace)
  <2>1. SubscriptionStarts(d)
    <3>1. desk'[d] # desk[d] /\ desk[d] # Idle
      BY DEF Idle
    <3>2. PICK e \in Desks : Request(e)
      BY <3>1 DEF Next, JobStep, JobStarts, Look, Deliver, Log, Expire, JobCrashes, Tick, vars
    <3>3. CASE e = d
      BY <3>1, <3>2, <3>3 DEF Request, Approve, TrialStarts, Renewed, NewSubscription, Renew,
                              EditSubscription
    <3>4. CASE e # d
      <4>1. desk' = desk \/ \E w : desk' = [desk EXCEPT ![e] = w]
        BY <3>2 DEF Request, Approve, TrialStarts, SubscriptionStarts, Renewed, NewSubscription,
                    Renew, EditSubscription, Work, Done
      <4> QED BY <3>1, <3>4, <4>1 DEF TypeInv
    <3> QED BY <3>3, <3>4
  <2>2. /\ r \in NewPeriod /\ r.from \in Nat \ {0} /\ r.to \in Nat
        /\ DOMAIN periods = 1..Len(periods) /\ Len(periods) \in Nat
    <3>1. MaxNow \in Nat
      OBVIOUS
    <3>2. desk[d] \in Doing
      BY DEF TypeInv
    <3>3. r \in NewPeriod
      BY <3>2 DEF Doing, Idle, Renewal, NewPeriod
    <3>4. r.from \in Nat \ {0} /\ r.to \in Nat
      BY <3>1, <3>3 DEF NewPeriod, Days, Ends, Open
    <3>5. periods \in Seq(PeriodRow)
      BY DEF TypeInv, TypeOK, PeriodRow
    <3> HIDE DEF r
    <3> QED BY <3>3, <3>4, <3>5
  <2>3. periods' = Append(made, new)
    BY <2>1 DEF SubscriptionStarts
  <2>4. periods'[i] = made[i] /\ periods'[Len(periods')] = new
    <3>1. DOMAIN made = 1..Len(periods) /\ Len(made) = Len(periods)
      BY <2>2
    <3> HIDE DEF made, new
    <3> QED BY <2>2, <2>3, <3>1
  <2>5. CASE i \in over
    <3>1. made[i] = MakeWay(i, r.from)
      BY <2>5
    <3>2. periods[i] \in PeriodRow
      BY RowTyped DEF TypeInv
    <3>3. [periods[i] EXCEPT !.status = "CANCELED"].status # "ACTIVE"
      BY <3>2 DEF PeriodRow
    <3>4. made[i] = [periods[i] EXCEPT !.endsAt = r.from, !.graceDays = 0]
      BY <2>4, <3>1, <3>3 DEF MakeWay
    <3>5. [periods[i] EXCEPT !.endsAt = r.from, !.graceDays = 0].endsAt = r.from
      BY <3>2 DEF PeriodRow
    <3>6. made[i].endsAt = r.from
      <4> HIDE DEF made
      <4> QED BY <3>4, <3>5
    <3> QED BY <2>2, <2>4, <3>6 DEF Disjoint, Period, Open
  <2>6. CASE i \notin over
    <3>1. i \in DOMAIN r.saw /\ r.saw[i] = periods[i]
      BY DEF Unseen
    <3>2. made[i] = periods[i] /\ periods[i].status = "ACTIVE"
      BY <2>4, <2>6
    <3>3. periods[i].startsAt \in Nat /\ periods[i].endsAt \in Nat
      BY RowTyped DEF TypeInv
    <3>4. \/ r.to # Open /\ r.to <= periods[i].startsAt
          \/ periods[i].endsAt # Open /\ periods[i].endsAt <= r.from
      BY <2>2, <2>6, <3>1, <3>2, <3>3 DEF overlapping
    <3>5. new.startsAt = r.from /\ new.endsAt = r.to
      BY DEF Period
    <3> HIDE DEF made, new, over, r
    <3> QED BY <2>4, <3>2, <3>4, <3>5 DEF Disjoint
  <2> QED BY <2>5, <2>6
<1> QED BY <1>1, InitTypeInv, StepTypeInv, PTL DEF Spec, OverlapsOnlyUnseen

------------------------------------------------------------------------------
HIDE SubscriptionsAssumption
USE InvoicesAssumption

InvoiceStatus == {"DRAFT", "ISSUED", "OVERDUE", "PAID", "VOID"}
Payment == [amount : 1..Total, confirmed : BOOLEAN]

(* What an operator's request carries from what it read to what it writes. *)
InvoiceDoing ==
  {Idle} \cup [op : {"issue"}, due : Days] \cup [op : {"void"}]
         \cup [op : {"pay"}, amount : 1..Total]
         \cup [op : {"settle"}, amount : 1..Total, full : BOOLEAN]
         \cup [op : {"cancel"}, payment : 1..MaxPayments, reopen : BOOLEAN]

InvoiceTypeInv ==
  /\ InvoiceTypeOK
  /\ lost \subseteq DOMAIN payments
  /\ desk \in [Desks -> InvoiceDoing]

(* What is on a desk, read off its operation.                              *)
LEMMA DeskTyped ==
  ASSUME InvoiceTypeInv, NEW d \in Desks
  PROVE  /\ desk[d] \in InvoiceDoing
         /\ desk[d].op = "issue" => desk[d].due \in Days
         /\ desk[d].op \in {"pay", "settle"} => desk[d].amount \in 1..Total
         /\ desk[d].op = "settle" => desk[d].full \in BOOLEAN
<1>1. desk[d] \in InvoiceDoing
  BY DEF InvoiceTypeInv
<1> QED BY <1>1 DEF InvoiceDoing, Idle

(* A desk that takes up work keeps the desks well-typed.                   *)
LEMMA InvoiceWorkTyped ==
  ASSUME InvoiceTypeInv, NEW d \in Desks, NEW r \in InvoiceDoing, Work(d, r)
  PROVE  desk' \in [Desks -> InvoiceDoing]
BY DEF InvoiceTypeInv, Work

(* A canceled payment stays in its place.                                  *)
LEMMA CanceledTyped ==
  ASSUME NEW ps \in Seq(Payment), NEW k
  PROVE  LET canceled == [ps EXCEPT ![k].confirmed = FALSE]
         IN  canceled \in Seq(Payment) /\ Len(canceled) = Len(ps)
<1>1. CASE k \in DOMAIN ps
  <2>1. ps[k] \in Payment
    BY <1>1
  <2>2. \A x \in Payment : [x EXCEPT !.confirmed = FALSE] \in Payment
    BY DEF Payment
  <2>3. [ps[k] EXCEPT !.confirmed = FALSE] \in Payment
    BY <2>1, <2>2
  <2> QED BY <1>1, <2>3
<1>2. CASE k \notin DOMAIN ps
  <2>1. ps = [i \in 1..Len(ps) |-> ps[i]] /\ DOMAIN ps = 1..Len(ps)
    OBVIOUS
  <2>2. [ps EXCEPT ![k].confirmed = FALSE] = [i \in 1..Len(ps) |-> ps[i]]
    BY <1>2, <2>1
  <2> QED BY <2>1, <2>2
<1> QED BY <1>1, <1>2

(* Every step of the operators and of the job keeps the types.             *)
LEMMA StepInvoiceTypeInv == InvoiceTypeInv /\ [InvoiceNext]_invoiceVars => InvoiceTypeInv'
<1> SUFFICES ASSUME InvoiceTypeInv, [InvoiceNext]_invoiceVars PROVE InvoiceTypeInv'
  OBVIOUS
<1> USE DEF Days
<1> DEFINE Books == /\ now' \in Days
                    /\ invoice' \in [status : InvoiceStatus, dueAt : 0..MaxNow]
                    /\ payments' \in Seq(Payment) /\ Len(payments') <= MaxPayments
                    /\ subscription' \in SubscriptionStatus
                    /\ lost' \subseteq DOMAIN payments' /\ late' \subseteq 1..MaxPayments
           Jobs == noticed' \in BOOLEAN /\ sent' \in Nat /\ crashes' \in 0..MaxCrashes
<1>0. Books /\ Jobs /\ desk' \in [Desks -> InvoiceDoing] => InvoiceTypeInv'
  <2>1. MaxPayments \in Nat
    OBVIOUS
  <2>2. Books => lost' \subseteq 1..MaxPayments
    BY <2>1
  <2> QED BY <2>2 DEF InvoiceTypeInv, InvoiceTypeOK, InvoiceStatus, Payment
<1>1. CASE UNCHANGED invoiceVars
  BY <1>1 DEF InvoiceTypeInv, InvoiceTypeOK, invoiceVars, chaseVars, ledger
<1>2. CASE InvoiceTick
  BY <1>2 DEF InvoiceTypeInv, InvoiceTypeOK, InvoiceTick, chaseVars, operatorVars, ledger
<1>3. CASE ChaseStep
  <2>1. ASSUME UNCHANGED <<now, operatorVars, crashes>>, invoice' \in [status : InvoiceStatus, dueAt : 0..MaxNow],
               subscription' \in SubscriptionStatus, noticed' \in BOOLEAN, sent' \in Nat
        PROVE  InvoiceTypeInv'
    BY <2>1, <1>0 DEF InvoiceTypeInv, InvoiceTypeOK, operatorVars, ledger, Payment
  <2>2. CASE MarkOverdue
    <3>1. invoice' \in [status : InvoiceStatus, dueAt : 0..MaxNow]
      BY <2>2 DEF MarkOverdue, InvoiceTypeInv, InvoiceTypeOK, InvoiceStatus
    <3> QED BY <2>2, <3>1, <2>1 DEF MarkOverdue, InvoiceTypeInv, InvoiceTypeOK, SubscriptionStatus
  <2>3. CASE MarkPastDue
    <3>1. subscription' \in SubscriptionStatus
      BY <2>3 DEF MarkPastDue, InvoiceTypeInv, InvoiceTypeOK, SubscriptionStatus
    <3> QED BY <2>3, <3>1, <2>1 DEF MarkPastDue, InvoiceTypeInv, InvoiceTypeOK, InvoiceStatus
  <2>4. CASE ListOverdue
    BY <2>4, <2>1 DEF ListOverdue, InvoiceTypeInv, InvoiceTypeOK, InvoiceStatus, SubscriptionStatus
  <2>5. CASE DeliverOverdue
    BY <2>5, <2>1 DEF DeliverOverdue, InvoiceTypeInv, InvoiceTypeOK, InvoiceStatus, SubscriptionStatus
  <2>6. CASE LogOverdue
    BY <2>6, <2>1 DEF LogOverdue, InvoiceTypeInv, InvoiceTypeOK, InvoiceStatus, SubscriptionStatus
  <2> QED BY <1>3, <2>2, <2>3, <2>4, <2>5, <2>6 DEF ChaseStep
<1>4. CASE ChaseCrashes
  <2>1. crashes' \in 0..MaxCrashes
    BY <1>4 DEF ChaseCrashes, InvoiceTypeInv, InvoiceTypeOK
  <2> QED BY <1>4, <2>1, <1>0 DEF ChaseCrashes, operatorVars, ledger, InvoiceTypeInv, InvoiceTypeOK, InvoiceStatus,
             SubscriptionStatus, Payment
<1>5. CASE \E status \in SubscriptionStatus : EditStatus(status)
  BY <1>5 DEF InvoiceTypeInv, InvoiceTypeOK, EditStatus, chaseVars, ledger
<1>6. CASE \E due \in DueDates \cup {0} : EditDueDate(due)
  <2>1. MaxNow \in Nat /\ DueDates \subseteq 1..MaxNow
    OBVIOUS
  <2>2. PICK due \in 0..MaxNow : EditDueDate(due)
    BY <1>6, <2>1
  <2>3. invoice' \in [status : InvoiceStatus, dueAt : 0..MaxNow]
    BY <2>2 DEF EditDueDate, InvoiceTypeInv, InvoiceTypeOK, InvoiceStatus
  <2> QED BY <2>2, <2>3, <1>0 DEF EditDueDate, InvoiceTypeInv, InvoiceTypeOK, Payment, chaseVars, ledger
<1>7. ASSUME NEW d \in Desks, InvoiceRequest(d) PROVE InvoiceTypeInv'
  <2> USE DeskTyped
  <2>1. ASSUME NEW r \in InvoiceDoing, Work(d, r),
               UNCHANGED <<now, invoice, ledger, subscription, chaseVars>>
        PROVE  InvoiceTypeInv'
    BY <2>1, InvoiceWorkTyped DEF InvoiceTypeInv, InvoiceTypeOK, chaseVars, ledger
  <2>2. ASSUME Done(d), Books, UNCHANGED chaseVars PROVE InvoiceTypeInv'
    <3>1. Idle \in InvoiceDoing
      BY DEF InvoiceDoing
    <3>2. desk' \in [Desks -> InvoiceDoing]
      BY <2>2, <3>1, InvoiceWorkTyped DEF Done
    <3> QED BY <2>2, <3>2, <1>0 DEF InvoiceTypeInv, InvoiceTypeOK, chaseVars
  <2>3. ASSUME NEW due \in DueDates, Issue(d, due) PROVE InvoiceTypeInv'
    BY <2>3, <2>1 DEF Issue, InvoiceDoing
  <2>4. ASSUME NEW amount \in 1..Total, RecordPayment(d, amount) PROVE InvoiceTypeInv'
    BY <2>4, <2>1 DEF RecordPayment, InvoiceDoing
  <2>5. ASSUME NEW k \in 1..MaxPayments, CancelPayment(d, k) PROVE InvoiceTypeInv'
    <3>1. [op |-> "cancel", payment |-> k, reopen |-> invoice.status = "PAID"] \in InvoiceDoing
      BY DEF InvoiceDoing
    <3> QED BY <2>5, <3>1, <2>1 DEF CancelPayment
  <2>6. CASE Issued(d)
    BY <2>6, <2>2, DeskTyped DEF Issued, ledger, InvoiceTypeInv, InvoiceTypeOK, InvoiceStatus, SubscriptionStatus, Payment
  <2>7. CASE Void(d)
    BY <2>7, <2>1 DEF Void, InvoiceDoing
  <2>8. CASE Voided(d)
    BY <2>8, <2>2 DEF Voided, ledger, InvoiceTypeInv, InvoiceTypeOK, InvoiceStatus, SubscriptionStatus, Payment
  <2>9. CASE AddUp(d)
    <3>1. [op |-> "settle", amount |-> desk[d].amount, full |-> fullyPaid(desk[d].amount)] \in InvoiceDoing
      BY <2>9 DEF AddUp, InvoiceDoing, fullyPaid
    <3> QED BY <2>9, <3>1, <2>1 DEF AddUp
  <2>10. CASE Settle(d)
    <3>1. [amount |-> desk[d].amount, confirmed |-> TRUE] \in Payment
      BY <2>10 DEF Settle, Payment
    <3>2. /\ payments' \in Seq(Payment) /\ Len(payments') <= MaxPayments
          /\ lost' \subseteq DOMAIN payments' /\ late' \subseteq 1..MaxPayments
      <4>1. /\ payments \in Seq(Payment) /\ Len(payments) < MaxPayments /\ MaxPayments \in Nat
            /\ lost \subseteq 1..Len(payments) /\ late \subseteq 1..MaxPayments
        BY <2>10 DEF Settle, InvoiceTypeInv, InvoiceTypeOK, Payment
      <4>2. /\ payments' \in Seq(Payment) /\ Len(payments') = Len(payments) + 1
            /\ lost' = lost /\ late' \subseteq late \cup {Len(payments) + 1}
        BY <2>10, <3>1, <4>1 DEF Settle
      <4> QED BY <4>1, <4>2
    <3>3. invoice' \in [status : InvoiceStatus, dueAt : 0..MaxNow] /\ subscription' \in SubscriptionStatus
      BY <2>10 DEF Settle, InvoiceTypeInv, InvoiceTypeOK, InvoiceStatus, SubscriptionStatus
    <3> QED BY <2>10, <3>2, <3>3, <2>2 DEF Settle, InvoiceTypeInv, InvoiceTypeOK
  <2>11. CASE PaymentCanceled(d)
    <3>1. payments' \in Seq(Payment) /\ Len(payments') = Len(payments)
      BY <2>11, CanceledTyped DEF PaymentCanceled, InvoiceTypeInv, InvoiceTypeOK, Payment
    <3>2. invoice' \in [status : InvoiceStatus, dueAt : 0..MaxNow]
      BY <2>11 DEF PaymentCanceled, InvoiceTypeInv, InvoiceTypeOK, InvoiceStatus
    <3>3. lost' \subseteq DOMAIN payments' /\ late' \subseteq 1..MaxPayments
      <4>1. DOMAIN payments' = DOMAIN payments
        BY <3>1 DEF InvoiceTypeInv, InvoiceTypeOK
      <4>2. lost' \subseteq lost \cup Confirmed(payments)
        BY <2>11 DEF PaymentCanceled, CrossesPayment
      <4> QED BY <2>11, <4>1, <4>2 DEF PaymentCanceled, Confirmed, InvoiceTypeInv, InvoiceTypeOK
    <3> QED BY <2>11, <3>1, <3>2, <3>3, <2>2 DEF PaymentCanceled, InvoiceTypeInv, InvoiceTypeOK, SubscriptionStatus
  <2> QED BY <1>7, <2>3, <2>4, <2>5, <2>6, <2>7, <2>8, <2>9, <2>10, <2>11 DEF InvoiceRequest
<1> QED BY <1>1, <1>2, <1>3, <1>4, <1>5, <1>6, <1>7 DEF InvoiceNext

(* At first everything is well-typed.                                      *)
LEMMA InitInvoiceTypeInv == InvoiceInit => InvoiceTypeInv
<1> SUFFICES ASSUME InvoiceInit PROVE InvoiceTypeInv
  OBVIOUS
<1>1. Idle \in InvoiceDoing
  BY DEF InvoiceDoing
<1>2. desk \in [Desks -> InvoiceDoing]
  BY <1>1 DEF InvoiceInit
<1>3. payments \in Seq([amount : 1..Total, confirmed : BOOLEAN]) /\ Len(payments) = 0
  BY DEF InvoiceInit
<1>4. {MaxNow, MaxPayments, MaxCrashes} \subseteq Nat /\ MaxNow >= 1
  OBVIOUS
<1>5. now \in Days /\ crashes \in 0..MaxCrashes /\ sent \in Nat /\ Len(payments) <= MaxPayments
  BY <1>3, <1>4 DEF InvoiceInit, Days
<1>6. invoice \in [status : InvoiceStatus, dueAt : 0..MaxNow]
  BY <1>4 DEF InvoiceInit, InvoiceStatus
<1> QED BY <1>2, <1>3, <1>5, <1>6 DEF InvoiceInit, InvoiceTypeInv, InvoiceTypeOK, SubscriptionStatus, InvoiceStatus

(* Every reachable state of an invoice is well-typed, however many         *)
(* operators work on it.                                                   *)
THEOREM InvoiceTypeCorrect == InvoiceSpec => []InvoiceTypeOK
<1>1. InvoiceTypeInv => InvoiceTypeOK
  BY DEF InvoiceTypeInv
<1> QED BY InitInvoiceTypeInv, StepInvoiceTypeInv, <1>1, PTL DEF InvoiceSpec
------------------------------------------------------------------------------
(* What VoidMoneyIsLate needs: when a request is about to void the invoice *)
(* all confirmed money came in since that request read it.                 *)
LateInv ==
  /\ VoidMoneyIsLate
  /\ \A d \in Desks : desk[d].op = "void" => Confirmed(payments) \subseteq late

(* A request finds no money when it sets out to void the invoice, and what *)
(* comes in from then on is late.                                          *)
LEMMA StepLateInv ==
  ASSUME InvoiceTypeInv, LateInv, [InvoiceNext]_invoiceVars
  PROVE  LateInv'
<1> USE DEF LateInv, VoidMoneyIsLate
<1>1. ASSUME UNCHANGED <<ledger, desk>>, invoice'.status = "VOID" => invoice.status = "VOID"
      PROVE  LateInv'
  BY <1>1 DEF Confirmed, ledger
<1>2. CASE UNCHANGED invoiceVars \/ InvoiceTick \/ ChaseCrashes
  BY <1>1, <1>2 DEF invoiceVars, InvoiceTick, ChaseCrashes, operatorVars
<1>3. CASE ChaseStep
  <2>1. invoice'.status = "VOID" => invoice.status = "VOID"
    BY <1>3 DEF ChaseStep, ListOverdue, MarkOverdue, MarkPastDue, DeliverOverdue, LogOverdue,
                InvoiceTypeInv, InvoiceTypeOK
  <2> QED BY <1>1, <1>3, <2>1 DEF ChaseStep, ListOverdue, MarkOverdue, MarkPastDue,
                                  DeliverOverdue, LogOverdue, operatorVars
<1>4. CASE \E status \in SubscriptionStatus : EditStatus(status)
  BY <1>1, <1>4 DEF EditStatus
<1>5. CASE \E due \in DueDates \cup {0} : EditDueDate(due)
  BY <1>1, <1>5 DEF EditDueDate, InvoiceTypeInv, InvoiceTypeOK
<1>6. ASSUME NEW d \in Desks, InvoiceRequest(d) PROVE LateInv'
  <2>1. desk \in [Desks -> InvoiceDoing]
    BY DEF InvoiceTypeInv
  <2>2. ASSUME NEW r, Work(d, r), UNCHANGED <<invoice, ledger>>,
               r.op = "void" => Confirmed(payments) = {}
        PROVE  LateInv'
    BY <2>1, <2>2 DEF Work, Confirmed, ledger
  <2>3. ASSUME Done(d),
               \/ Confirmed(payments)' \subseteq late'
               \/ invoice'.status # "VOID" /\ \A e \in Desks : desk[e].op # "void"
        PROVE  LateInv'
    BY <2>1, <2>3 DEF Done, Work, Idle
  <2>4. ASSUME Done(d), UNCHANGED ledger, invoice'.status = "VOID" => invoice.status = "VOID"
        PROVE  LateInv'
    BY <2>1, <2>4 DEF Done, Work, Idle, ledger, Confirmed
  <2>5. ASSUME NEW due \in DueDates, Issue(d, due) PROVE LateInv'
    BY <2>5, <2>2 DEF Issue
  <2>6. ASSUME NEW amount \in 1..Total, RecordPayment(d, amount) PROVE LateInv'
    BY <2>6, <2>2 DEF RecordPayment
  <2>7. ASSUME NEW k \in 1..MaxPayments, CancelPayment(d, k) PROVE LateInv'
    BY <2>7, <2>2 DEF CancelPayment
  <2>8. CASE Issued(d)
    BY <2>8, <2>4 DEF Issued
  <2>9. CASE Void(d)
    BY <2>9, <2>2 DEF Void
  <2>10. CASE Voided(d)
    BY <2>10, <2>3 DEF Voided, ledger, Confirmed
  <2>11. CASE AddUp(d)
    BY <2>11, <2>2 DEF AddUp
  <2>12. CASE Settle(d)
    <3> DEFINE n == Len(payments) + 1
    <3>1. Confirmed(payments)' \subseteq Confirmed(payments) \cup {n}
      <4>1. payments \in Seq(Payment)
        BY DEF InvoiceTypeInv, InvoiceTypeOK, Payment
      <4> QED BY <2>12, <4>1 DEF Settle, Confirmed
    <3>2. CASE CrossesVoid
      <4>1. Confirmed(payments) \subseteq late
        BY <3>2 DEF CrossesVoid
      <4>2. late' = late \cup {n}
        BY <2>12, <3>2 DEF Settle
      <4> HIDE DEF n
      <4> QED BY <2>12, <3>1, <4>1, <4>2, <2>3 DEF Settle
    <3>3. CASE ~CrossesVoid
      <4>1. invoice'.status # "VOID"
        BY <2>12, <3>3 DEF Settle, CrossesVoid, InvoiceTypeInv, InvoiceTypeOK
      <4> QED BY <2>12, <3>3, <4>1, <2>3 DEF Settle, CrossesVoid
    <3> QED BY <3>2, <3>3
  <2>13. CASE PaymentCanceled(d)
    <3>1. Confirmed(payments)' \subseteq Confirmed(payments) /\ late' = late
      BY <2>13 DEF PaymentCanceled, Confirmed, InvoiceTypeInv, InvoiceTypeOK
    <3>2. invoice'.status = "VOID" => invoice.status = "VOID"
      BY <2>13 DEF PaymentCanceled, InvoiceTypeInv, InvoiceTypeOK
    <3> QED BY <2>13, <3>1, <3>2, <2>3 DEF PaymentCanceled
  <2> QED BY <1>6, <2>5, <2>6, <2>7, <2>8, <2>9, <2>10, <2>11, <2>12, <2>13 DEF InvoiceRequest
<1> QED BY <1>2, <1>3, <1>4, <1>5, <1>6 DEF InvoiceNext

(* However many operators pay, void and cancel at once, and whatever the   *)
(* job and its crashes do meanwhile: the money a void invoice holds came   *)
(* in while the invoice was being voided or later, never before a request  *)
(* set out to void it.                                                     *)
THEOREM VoidMoneyCameLate == InvoiceSpec => []VoidMoneyIsLate
<1>1. InvoiceInit => LateInv
  BY DEF InvoiceInit, LateInv, VoidMoneyIsLate, Idle
<1>2. InvoiceTypeInv /\ LateInv /\ [InvoiceNext]_invoiceVars => LateInv'
  BY StepLateInv
<1>3. LateInv => VoidMoneyIsLate
  BY DEF LateInv
<1> QED BY <1>1, <1>2, <1>3, InitInvoiceTypeInv, StepInvoiceTypeInv, PTL DEF InvoiceSpec

------------------------------------------------------------------------------
(* What the payments ks of ps come to, unit by unit.                       *)
Coins(ps, ks) == UNION {Units(ps, k) : k \in ks}

(* Only finitely much can have been paid.                                  *)
LEMMA CoinsFinite ==
  ASSUME NEW ps \in Seq(Payment), NEW ks \in SUBSET DOMAIN ps
  PROVE  /\ IsFiniteSet(Coins(ps, ks))
         /\ Amount(ps, ks) = Cardinality(Coins(ps, ks)) /\ Amount(ps, ks) \in Nat
         /\ Coins(ps, ks) \subseteq (1..Len(ps)) \X (1..Total)
<1>1. Coins(ps, ks) \subseteq (1..Len(ps)) \X (1..Total)
  <2>1. ASSUME NEW k \in ks PROVE Units(ps, k) \subseteq (1..Len(ps)) \X (1..Total)
    <3>1. k \in 1..Len(ps) /\ ps[k] \in Payment
      OBVIOUS
    <3> QED BY <3>1 DEF Units, Payment
  <2> QED BY <2>1 DEF Coins
<1>2. IsFiniteSet((1..Len(ps)) \X (1..Total))
  <2>1. IsFiniteSet(1..Len(ps)) /\ IsFiniteSet(1..Total)
    BY FS_Interval
  <2> QED BY <2>1, FS_Product
<1>3. IsFiniteSet(Coins(ps, ks))
  BY <1>1, <1>2, FS_Subset
<1> QED BY <1>1, <1>3, FS_CardinalityType DEF Amount, Coins

(* More payments come to no less.                                          *)
LEMMA MoreAmount ==
  ASSUME NEW ps \in Seq(Payment), NEW ks \in SUBSET DOMAIN ps, NEW js \in SUBSET ks
  PROVE  Amount(ps, js) <= Amount(ps, ks)
<1>1. Coins(ps, js) \subseteq Coins(ps, ks)
  BY DEF Coins
<1>2. Cardinality(Coins(ps, js)) <= Cardinality(Coins(ps, ks))
  BY <1>1, CoinsFinite, FS_Subset
<1>3. js \in SUBSET DOMAIN ps
  OBVIOUS
<1> QED BY <1>2, <1>3, CoinsFinite

(* A payment behind the others adds its amount.                            *)
LEMMA AppendAmount ==
  ASSUME NEW ps \in Seq(Payment), NEW ks \in SUBSET DOMAIN ps, NEW amount \in 1..Total
  PROVE  Amount(Append(ps, [amount |-> amount, confirmed |-> TRUE]), ks \cup {Len(ps) + 1})
           = Amount(ps, ks) + amount
<1> DEFINE n == Len(ps) + 1
           longer == Append(ps, [amount |-> amount, confirmed |-> TRUE])
           all == ks \cup {n}
<1>1. [amount |-> amount, confirmed |-> TRUE] \in Payment
  BY DEF Payment
<1>2. /\ longer \in Seq(Payment) /\ Len(longer) = n /\ n \in Nat
      /\ longer[n] = [amount |-> amount, confirmed |-> TRUE]
      /\ \A k \in 1..Len(ps) : longer[k] = ps[k]
  BY <1>1
<1>3. all \in SUBSET DOMAIN longer
  BY <1>2
<1> HIDE DEF longer
<1>4. \A k \in ks : Units(longer, k) = Units(ps, k)
  BY <1>2 DEF Units
<1>5. Units(longer, n) = {n} \X (1..amount)
  BY <1>2 DEF Units
<1>6. Coins(longer, all) = Coins(ps, ks) \cup ({n} \X (1..amount))
  BY <1>4, <1>5 DEF Coins
<1>7. Coins(ps, ks) \cap ({n} \X (1..amount)) = {}
  BY CoinsFinite, n \notin 1..Len(ps)
<1>8. IsFiniteSet({n} \X (1..amount)) /\ Cardinality({n} \X (1..amount)) = amount
  <2>1. IsFiniteSet({n}) /\ Cardinality({n}) = 1
    BY FS_Singleton
  <2>2. IsFiniteSet(1..amount) /\ Cardinality(1..amount) = amount
    BY FS_Interval
  <2>3. /\ IsFiniteSet({n} \X (1..amount))
        /\ Cardinality({n} \X (1..amount)) = Cardinality({n}) * Cardinality(1..amount)
    <3> HIDE DEF n
    <3> QED BY <2>1, <2>2, FS_Product, Zenon
  <2>4. Cardinality({n}) * Cardinality(1..amount) = amount
    BY <2>1, <2>2
  <2> QED BY <2>3, <2>4
<1>9. Cardinality(Coins(longer, all)) = Cardinality(Coins(ps, ks)) + amount
  <2> DEFINE new == {n} \X (1..amount)
  <2> HIDE DEF n, new, all
  <2>1. Cardinality({}) = 0
    BY FS_EmptySet
  <2>2. IsFiniteSet(Coins(ps, ks)) /\ Cardinality(Coins(ps, ks)) \in Nat
    BY CoinsFinite
  <2>3. Coins(longer, all) = Coins(ps, ks) \cup new /\ Coins(ps, ks) \cap new = {}
    BY <1>6, <1>7 DEF new
  <2>4. IsFiniteSet(new) /\ Cardinality(new) = amount
    BY <1>8 DEF new
  <2>5. Cardinality(Coins(ps, ks) \cup new) = Cardinality(Coins(ps, ks)) + Cardinality(new)
                                              - Cardinality(Coins(ps, ks) \cap new)
    BY <2>2, <2>4, FS_Union
  <2>6. Cardinality(Coins(ps, ks) \cap new) = 0
    BY <2>1, <2>3
  <2>7. Cardinality(Coins(longer, all)) = Cardinality(Coins(ps, ks) \cup new)
    BY <2>3
  <2> QED BY <2>2, <2>4, <2>5, <2>6, <2>7
<1>10. Amount(longer, all) = Cardinality(Coins(longer, all)) /\ Amount(ps, ks) = Cardinality(Coins(ps, ks))
  <2> HIDE DEF all, n
  <2> QED BY <1>2, <1>3, CoinsFinite
<1> QED BY <1>9, <1>10 DEF longer

(* Money that came in for good, or was taken back behind the back of a     *)
(* payment that counted on it.                                             *)
Held(ps, back) == Confirmed(ps) \cup back

(* What ShortfallIsCrossed needs: money that will make the invoice paid    *)
(* covers it with what was held when it was added up, and since then money *)
(* was only added, or taken back across that payment.                      *)
CoverInv ==
  /\ ShortfallIsCrossed
  /\ \A d \in Desks : desk[d].op = "settle" /\ desk[d].full =>
       Amount(payments, Held(payments, lost)) + desk[d].amount >= Total

(* What is held is payments there are.                                     *)
LEMMA HeldTyped ==
  ASSUME InvoiceTypeInv
  PROVE  /\ payments \in Seq(Payment)
         /\ Held(payments, lost) \in SUBSET DOMAIN payments
         /\ Confirmed(payments) \in SUBSET Held(payments, lost)
         /\ Amount(payments, Held(payments, lost)) \in Nat
<1>1. /\ payments \in Seq(Payment)
      /\ Held(payments, lost) \in SUBSET DOMAIN payments
      /\ Confirmed(payments) \in SUBSET Held(payments, lost)
  BY DEF InvoiceTypeInv, InvoiceTypeOK, Payment, Held, Confirmed
<1> QED BY <1>1, CoinsFinite

(* Every request that adds money keeps the sums others have added up, and  *)
(* one that takes money back either crosses them or finds none.            *)
LEMMA StepCoverInv ==
  ASSUME InvoiceTypeInv, CoverInv, [InvoiceNext]_invoiceVars
  PROVE  CoverInv'
<1> USE DEF CoverInv, ShortfallIsCrossed
<1>1. ASSUME UNCHANGED <<ledger, desk>>, invoice'.status = "PAID" => invoice.status = "PAID"
      PROVE  CoverInv'
  BY <1>1 DEF Amount, Units, Held, Confirmed, ledger
<1>2. CASE UNCHANGED invoiceVars \/ InvoiceTick \/ ChaseCrashes
  BY <1>1, <1>2 DEF invoiceVars, InvoiceTick, ChaseCrashes, operatorVars
<1>3. CASE ChaseStep
  <2>1. invoice'.status = "PAID" => invoice.status = "PAID"
    BY <1>3 DEF ChaseStep, ListOverdue, MarkOverdue, MarkPastDue, DeliverOverdue, LogOverdue,
                InvoiceTypeInv, InvoiceTypeOK
  <2> QED BY <1>1, <1>3, <2>1 DEF ChaseStep, ListOverdue, MarkOverdue, MarkPastDue,
                                  DeliverOverdue, LogOverdue, operatorVars
<1>4. CASE \E status \in SubscriptionStatus : EditStatus(status)
  BY <1>1, <1>4 DEF EditStatus
<1>5. CASE \E due \in DueDates \cup {0} : EditDueDate(due)
  BY <1>1, <1>5 DEF EditDueDate, InvoiceTypeInv, InvoiceTypeOK
<1>6. ASSUME NEW d \in Desks, InvoiceRequest(d) PROVE CoverInv'
  <2> DEFINE held == Amount(payments, Held(payments, lost))
  <2>1. /\ desk \in [Desks -> InvoiceDoing] /\ payments \in Seq(Payment) /\ held \in Nat
        /\ Total \in Nat /\ \A e \in Desks : desk[e].op = "settle" => desk[e].amount \in 1..Total
    BY HeldTyped, DeskTyped DEF InvoiceTypeInv
  <2>2. ASSUME NEW r, Work(d, r), UNCHANGED <<invoice, ledger>>,
               r.op = "settle" /\ r.full => held + r.amount >= Total
        PROVE  CoverInv'
    <3>1. held' = held
      BY <2>2 DEF Amount, Units, Held, Confirmed, ledger
    <3>2. ShortfallIsCrossed'
      BY <2>2 DEF Amount, Units, Confirmed, ledger
    <3>3. ASSUME NEW e \in Desks, desk'[e].op = "settle", desk'[e].full
          PROVE  held' + desk'[e].amount >= Total
      <4>1. desk'[e] = IF e = d THEN r ELSE desk[e]
        BY <2>1, <2>2 DEF Work
      <4> QED BY <2>2, <3>1, <3>3, <4>1
    <3> QED BY <3>2, <3>3
  <2>3. ASSUME Done(d), held' \in Nat, held' >= held,
               invoice'.status = "PAID" => invoice.status = "PAID" \/ held' >= Total
        PROVE  CoverInv'
    <3>1. ASSUME NEW e \in Desks, desk'[e].op = "settle", desk'[e].full
          PROVE  held' + desk'[e].amount >= Total
      <4>1. desk'[e] = desk[e]
        BY <2>1, <2>3, <3>1 DEF Done, Work, Idle
      <4>2. held + desk[e].amount >= Total /\ desk[e].amount \in Nat
        BY <2>1, <3>1, <4>1
      <4> HIDE DEF held
      <4> QED BY <2>1, <2>3, <4>1, <4>2
    <3>2. ShortfallIsCrossed'
      <4>1. invoice.status = "PAID" => held >= Total
        BY DEF Held
      <4>2. held' >= Total => ShortfallIsCrossed'
        BY DEF Held
      <4> HIDE DEF held, ShortfallIsCrossed
      <4>3. invoice'.status = "PAID" => held' >= Total
        BY <2>1, <2>3, <4>1
      <4> QED BY <4>2, <4>3 DEF ShortfallIsCrossed
    <3> QED BY <3>1, <3>2
  <2>4. ASSUME Done(d), UNCHANGED ledger, invoice'.status # "PAID"
        PROVE  CoverInv'
    <3>1. held' = held
      BY <2>4 DEF Amount, Units, Held, Confirmed, ledger
    <3> QED BY <2>1, <2>3, <2>4, <3>1
  <2>5. ASSUME NEW due \in DueDates, Issue(d, due) PROVE CoverInv'
    BY <2>5, <2>2 DEF Issue
  <2>6. ASSUME NEW amount \in 1..Total, RecordPayment(d, amount) PROVE CoverInv'
    BY <2>6, <2>2 DEF RecordPayment
  <2>7. ASSUME NEW k \in 1..MaxPayments, CancelPayment(d, k) PROVE CoverInv'
    BY <2>7, <2>2 DEF CancelPayment
  <2>8. CASE Issued(d)
    BY <2>8, <2>4 DEF Issued
  <2>9. CASE Void(d)
    BY <2>9, <2>2 DEF Void
  <2>10. CASE Voided(d)
    BY <2>10, <2>4 DEF Voided, InvoiceTypeInv, InvoiceTypeOK
  <2>11. CASE AddUp(d)
    <3> DEFINE r == [op |-> "settle", amount |-> desk[d].amount, full |-> fullyPaid(desk[d].amount)]
    <3>1. Paid(payments) <= held /\ Paid(payments) \in Nat
      <4>1. Confirmed(payments) \in SUBSET DOMAIN payments
        BY DEF Confirmed
      <4> QED BY <4>1, HeldTyped, MoreAmount, CoinsFinite DEF Paid
    <3>2. desk[d].amount \in Nat
      BY <2>11, DeskTyped DEF AddUp
    <3>3. r.full => held + r.amount >= Total
      <4>1. r.amount = desk[d].amount /\ (r.full => Paid(payments) + desk[d].amount >= Total)
        BY DEF fullyPaid
      <4> HIDE DEF held, r
      <4> QED BY <2>1, <3>1, <3>2, <4>1
    <3> QED BY <2>11, <3>3, <2>2 DEF AddUp
  <2>12. CASE Settle(d)
    <3> DEFINE n == Len(payments) + 1
    <3>1. /\ desk[d].amount \in 1..Total /\ desk[d].amount \in Nat
          /\ payments' = Append(payments, [amount |-> desk[d].amount, confirmed |-> TRUE])
          /\ lost' = lost
      BY <2>1, <2>12 DEF Settle
    <3>2. Held(payments, lost)' = Held(payments, lost) \cup {n}
      <4>1. Confirmed(payments') = Confirmed(payments) \cup {n}
        BY <2>1, <3>1 DEF Confirmed
      <4> HIDE DEF n
      <4> QED BY <3>1, <4>1 DEF Held, Confirmed
    <3>3. held' = held + desk[d].amount
      <4>1. held' = Amount(payments', Held(payments, lost)')
        BY DEF Amount, Units
      <4>2. Amount(payments', Held(payments, lost) \cup {n}) = held + desk[d].amount
        BY <3>1, HeldTyped, AppendAmount
      <4> HIDE DEF n
      <4> QED BY <3>2, <4>1, <4>2
    <3>4. desk[d].full => held + desk[d].amount >= Total
      BY <2>12 DEF Settle
    <3>5. invoice'.status = "PAID" => invoice.status = "PAID" \/ desk[d].full
      BY <2>12 DEF Settle
    <3>6. held' \in Nat /\ held' >= held /\ (desk[d].full => held' >= Total)
      <4> HIDE DEF held
      <4> QED BY <2>1, <3>1, <3>3, <3>4
    <3> QED BY <2>12, <3>5, <3>6, <2>3 DEF Settle
  <2>13. CASE PaymentCanceled(d)
    <3> DEFINE r == desk[d]
    <3>1. /\ payments' = [payments EXCEPT ![r.payment].confirmed = FALSE]
          /\ lost' = IF CrossesPayment(r) THEN lost \cup {r.payment} ELSE lost
      BY <2>13 DEF PaymentCanceled
    <3>2. CASE CrossesPayment(r) \/ r.payment \notin Confirmed(payments)
      <4>1. Held(payments, lost)' = Held(payments, lost)
        BY <2>1, <3>1, <3>2 DEF Held, Confirmed, CrossesPayment
      <4>2. \A k \in DOMAIN payments : Units(payments, k)' = Units(payments, k)
        BY <2>1, <3>1 DEF Units
      <4>3. held' = held
        BY <4>1, <4>2, HeldTyped DEF Amount
      <4>4. invoice'.status = "PAID" => invoice.status = "PAID"
        BY <2>13 DEF PaymentCanceled, InvoiceTypeInv, InvoiceTypeOK
      <4>5. Done(d)
        BY <2>13 DEF PaymentCanceled
      <4>6. held' \in Nat /\ held' >= held
        <5> HIDE DEF held
        <5> QED BY <2>1, <4>3
      <4> QED BY <4>4, <4>5, <4>6, <2>3
    <3>3. CASE r.payment \in Confirmed(payments) /\ ~CrossesPayment(r)
      <4>1. \A e \in Desks : ~(desk[e].op = "settle" /\ desk[e].full)
        BY <3>3 DEF CrossesPayment
      <4>2. invoice'.status # "PAID"
        BY <2>13, <3>3 DEF PaymentCanceled, CrossesPayment, InvoiceTypeInv, InvoiceTypeOK
      <4>3. \A e \in Desks : desk'[e] = desk[e] \/ desk'[e] = Idle
        BY <2>1, <2>13 DEF PaymentCanceled, Done, Work
      <4> QED BY <4>1, <4>2, <4>3 DEF Idle
    <3> QED BY <3>2, <3>3
  <2> QED BY <1>6, <2>5, <2>6, <2>7, <2>8, <2>9, <2>10, <2>11, <2>12, <2>13 DEF InvoiceRequest
<1> QED BY <1>2, <1>3, <1>4, <1>5, <1>6 DEF InvoiceNext

(* However many operators pay, void and cancel at once, and whatever the   *)
(* job does and the due date becomes: a paid invoice lacks nothing that a  *)
(* cancellation did not take back behind the back of a payment.            *)
THEOREM ShortfallsAreCrossed == InvoiceSpec => []ShortfallIsCrossed
<1>1. InvoiceInit => CoverInv
  BY DEF InvoiceInit, CoverInv, ShortfallIsCrossed, Idle
<1>2. InvoiceTypeInv /\ CoverInv /\ [InvoiceNext]_invoiceVars => CoverInv'
  BY StepCoverInv
<1>3. CoverInv => ShortfallIsCrossed
  BY DEF CoverInv
<1> QED BY <1>1, <1>2, <1>3, InitInvoiceTypeInv, StepInvoiceTypeInv, PTL DEF InvoiceSpec
=============================================================================
