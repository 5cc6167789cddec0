------------------------- MODULE ProgramRecruitment -------------------------
(***************************************************************************)
(* Applications to one program, from the first draft to a confirmed seat:  *)
(* src/backend/src/modules/programs/programRecruitment.routes.ts and       *)
(* src/backend/src/services/programs/applicationOffers.ts.                 *)
(*                                                                         *)
(* Every handler reads the application and the program, decides, and then  *)
(* writes.  Where the write repeats the decision in its WHERE clause       *)
(* (updateMany) the handler is one action; where it does not, the handler  *)
(* is two: ...Begin reads and checks and leaves a request in a slot,       *)
(* another action writes, and anything may happen in between.  A           *)
(* transaction that starts with lockProgramSeats (SELECT ... FOR UPDATE on *)
(* the program row) holds "lock"; PostgreSQL makes updates of that row and *)
(* inserts of rows that reference it wait for the same lock.               *)
(*                                                                         *)
(* Time is counted in days.  A timestamp that no later step reads is left  *)
(* out: waitlistedAt matters while WAITLISTED, offerExpiresAt while        *)
(* ACCEPTED, respondedAt (null or not) while DECLINED.                     *)
(***************************************************************************)
EXTENDS Integers, FiniteSets

CONSTANTS
  Users,                  \* people who may apply
  NoUser,                 \* the user of a request that is about nobody
  Slots,                  \* requests the server may be serving at a time
  Capacities,             \* capacities staff choose, 0 for null (no limit)
  ResponseDays,           \* response windows staff choose for an offer
  DEFAULT_RESPONSE_DAYS,  \* the window of an offer made by refillProgram
  MaxNow,                 \* bound: the clock stops here
  MaxEdits,               \* bound: staff edits outside the selection flow
  MaxJobFailures          \* bound: runs of the hourly job that fail

ASSUME UsersAssumption == IsFiniteSet(Users) /\ NoUser \notin Users
ASSUME CapacitiesAssumption == Capacities \subseteq Nat /\ Capacities # {}
ASSUME WindowsAssumption ==
  /\ ResponseDays \subseteq Nat \ {0}
  /\ DEFAULT_RESPONSE_DAYS \in Nat \ {0}
ASSUME BoundsAssumption == MaxNow \in Nat /\ MaxEdits \in Nat /\ MaxJobFailures \in Nat

VARIABLES
  now,          \* the clock, in days
  app,          \* the application row of each user
  participant,  \* "no", "self" (by confirming) or "staff" (addedById is set)
  suspended,    \* users whose membership of the organization is SUSPENDED
  capacity,     \* Program.capacity, 0 for null
  status,       \* Program.status
  phase,        \* recruitmentState of the program while it runs
  lock,         \* the slot whose transaction holds the seat lock, if any
  req,          \* what each slot is serving
  job,          \* the time of the hourly job under way, if any
  jobFailures,  \* runs of the hourly job that failed so far
  edits,        \* staff edits made so far
  seatLimit     \* history: the largest capacity the program ever had

program == <<capacity, status, phase, seatLimit>>
hourly == <<job, jobFailures>>
vars == <<now, app, participant, suspended, program, lock, req, hourly, edits>>

Status == {"NONE", "DRAFT", "PENDING", "WAITLISTED", "ACCEPTED", "REJECTED",
           "WITHDRAWN", "CONFIRMED", "DECLINED"}
ProgramStatus == {"ACTIVE", "COMPLETED", "ARCHIVED"}
(* "closed" stands for every state in which nobody can apply: draft,       *)
(* closed, selected and invite_only.                                       *)
Phase == {"scheduled", "open", "closed"}
Ops == {"idle", "save", "attach", "discard", "confirm", "decide", "refill"}
Args == {"none", "draft", "submit", "NONE", "WITHDRAWN", "reject", "waitlist", "accept"}

Application == [status : Status, waitlistedAt : Nat, offerExpiresAt : Nat, responded : BOOLEAN]
Request == [op : Ops, user : Users \union {NoUser}, arg : Args, at : Nat]

Row(s) == [status |-> s, waitlistedAt |-> 0, offerExpiresAt |-> 0, responded |-> FALSE]
Waitlisted(t) == [Row("WAITLISTED") EXCEPT !.waitlistedAt = t]
Offered(deadline) == [Row("ACCEPTED") EXCEPT !.offerExpiresAt = deadline]
TurnedDown == [Row("DECLINED") EXCEPT !.responded = TRUE]
(* Mutant: a lapse writes a status the enum does not have.                 *)
LapsedAsExpired == Row("EXPIRED")
Lapsed == Row("DECLINED")

Idle == [op |-> "idle", user |-> NoUser, arg |-> "none", at |-> 0]

-----------------------------------------------------------------------------
Undecided == {"PENDING", "WAITLISTED"}
Writable == status # "ARCHIVED"
Ended == status \in {"COMPLETED", "ARCHIVED"}

(* ACCEPTED applications whose response window is open at t.               *)
LiveOffers(t) ==
  {u \in Users : app[u].status = "ACCEPTED" /\ app[u].offerExpiresAt > t}
(* Mutant: the deadline itself, and the day before it, count as past.      *)
ExpiredOffersEarly(t) ==
  {u \in Users : app[u].status = "ACCEPTED" /\ app[u].offerExpiresAt <= t + 1}
ExpiredOffers(t) ==
  {u \in Users : app[u].status = "ACCEPTED" /\ app[u].offerExpiresAt <= t}

Participants == {u \in Users : participant[u] # "no"}
SelfRegistered == {u \in Users : participant[u] = "self"}

HeldSeats(t) == Cardinality(Participants) + Cardinality(LiveOffers(t))
SeatFree(t) == capacity # 0 => HeldSeats(t) < capacity

Waiting == {u \in Users : app[u].status = "WAITLISTED"} \ suspended

(* Recruitment lets u save a draft (submitting FALSE) or submit.           *)
CanApply(u, submitting) ==
  /\ phase \in {"scheduled", "open"}
  /\ ~Ended
  /\ phase = "scheduled" => ~submitting
  /\ participant[u] = "no"
  /\ app[u].status \in {"NONE", "DRAFT", "WITHDRAWN"}

(* What a seat count can reach when the capacity is c.                     *)
SeatsOf(c) == IF c = 0 THEN 2 * Cardinality(Users) ELSE c
Larger(a, b) == IF a >= b THEN a ELSE b

-----------------------------------------------------------------------------
(* Requests.                                                               *)
Begin(s, op, u, arg, t) ==
  /\ req[s] = Idle
  /\ req' = [req EXCEPT ![s] = [op |-> op, user |-> u, arg |-> arg, at |-> t]]

Serving(s, op) == req[s].op = op
End(s) == req' = [req EXCEPT ![s] = Idle]
SetApp(u, row) == app' = [app EXCEPT ![u] = row]

(* The handler stops here: an exception, a dropped connection or a restart *)
(* of the server.  Its open transaction, if any, is rolled back.           *)
RequestFails(s) ==
  /\ req[s] # Idle
  /\ End(s)
  /\ lock' = lock \ {s}
  /\ UNCHANGED <<now, app, participant, suspended, program, hourly, edits>>

-----------------------------------------------------------------------------
(* PUT /applications/me: the checks, then an upsert that names no status.  *)
SaveBegin(s, u, submit) ==
  /\ CanApply(u, submit)
  /\ Begin(s, "save", u, IF submit THEN "submit" ELSE "draft", 0)
  /\ UNCHANGED <<now, app, participant, suspended, program, lock, hourly, edits>>

Save(s) ==
  /\ Serving(s, "save")
  /\ app[req[s].user].status = "NONE" => lock = {}
  /\ SetApp(req[s].user, Row(IF req[s].arg = "submit" THEN "PENDING" ELSE "DRAFT"))
  /\ End(s)
  /\ UNCHANGED <<now, participant, suspended, program, lock, hourly, edits>>

(* POST /applications/me/files: attaching a file creates the draft, or     *)
(* turns the withdrawn application that was read back into one.            *)
AttachBegin(s, u) ==
  /\ CanApply(u, FALSE)
  /\ app[u].status \in {"NONE", "WITHDRAWN"}
  /\ Begin(s, "attach", u, app[u].status, 0)
  /\ UNCHANGED <<now, app, participant, suspended, program, lock, hourly, edits>>

Attach(s) ==
  /\ Serving(s, "attach")
  /\ IF req[s].arg = "WITHDRAWN"
       THEN SetApp(req[s].user, Row("DRAFT"))
       ELSE /\ app[req[s].user].status = "NONE"
            /\ lock = {}
            /\ SetApp(req[s].user, Row("DRAFT"))
  /\ End(s)
  /\ UNCHANGED <<now, participant, suspended, program, lock, hourly, edits>>

(* DELETE /applications/me on what was read as a draft: the row goes, and  *)
(* with it whatever else was about to be done to that row by its id.       *)
DiscardBegin(s, u) ==
  /\ app[u].status = "DRAFT"
  /\ Begin(s, "discard", u, "none", 0)
  /\ UNCHANGED <<now, app, participant, suspended, program, lock, hourly, edits>>

ById(r) == r.op \in {"discard", "confirm", "decide"} \/ (r.op = "attach" /\ r.arg = "WITHDRAWN")

Discard(s) ==
  /\ Serving(s, "discard")
  /\ LET u == req[s].user
         gone == {x \in Slots : x = s \/ (req[x].user = u /\ ById(req[x]))}
     IN /\ SetApp(u, Row("NONE"))
        /\ req' = [x \in Slots |-> IF x \in gone THEN Idle ELSE req[x]]
        /\ lock' = lock \ gone
  /\ UNCHANGED <<now, participant, suspended, program, hourly, edits>>

(* DELETE /applications/me on a submitted application.                     *)
Withdraw(u) ==
  /\ app[u].status \in Undecided
  /\ SetApp(u, Row("WITHDRAWN"))
  /\ UNCHANGED <<now, participant, suspended, program, lock, req, hourly, edits>>

(* POST /applications/me/confirm: the offer becomes a registration under   *)
(* the seat lock, where the deadline is checked again.                     *)
ConfirmBegin(s, u) ==
  /\ u \in LiveOffers(now)
  /\ Writable
  /\ u \notin suspended
  /\ Begin(s, "confirm", u, "none", 0)
  /\ UNCHANGED <<now, app, participant, suspended, program, lock, hourly, edits>>

Confirm(s) ==
  /\ Serving(s, "confirm")
  /\ lock = {}
  /\ LET u == req[s].user IN
       /\ u \in LiveOffers(now)
       /\ SetApp(u, Row("CONFIRMED"))
       /\ participant' = [participant EXCEPT ![u] = IF @ = "no" THEN "self" ELSE @]
  /\ End(s)
  /\ UNCHANGED <<now, suspended, program, lock, hourly, edits>>

(* POST /applications/me/decline: the offer is turned down in a statement  *)
(* of its own; the refill that passes the seat on is still to come.        *)
Decline(s, u) ==
  /\ app[u].status = "ACCEPTED"
  /\ SetApp(u, TurnedDown)
  /\ Begin(s, "refill", u, "none", now)
  /\ UNCHANGED <<now, participant, suspended, program, lock, hourly, edits>>

-----------------------------------------------------------------------------
(* PATCH /applications/:id: a decision on what was read as undecided.      *)
DecideBegin(s, u, decision) ==
  /\ Writable
  /\ app[u].status \in Undecided
  /\ decision = "waitlist" => app[u].status # "WAITLISTED"
  /\ decision = "accept" => u \notin suspended
  /\ Begin(s, "decide", u, decision, now)
  /\ UNCHANGED <<now, app, participant, suspended, program, lock, hourly, edits>>

(* A rejection or a waitlisting claims the row if it is still undecided.   *)
Turn(s) ==
  /\ Serving(s, "decide")
  /\ req[s].arg \in {"reject", "waitlist"}
  /\ app[req[s].user].status \in Undecided
  /\ SetApp(req[s].user, IF req[s].arg = "reject" THEN Row("REJECTED") ELSE Waitlisted(req[s].at))
  /\ End(s)
  /\ UNCHANGED <<now, participant, suspended, program, lock, hourly, edits>>

(* Mutant: the seats are counted without taking the lock first.            *)
AcceptWithoutLock(s) ==
  /\ Serving(s, "decide")
  /\ req[s].arg = "accept"
  /\ SeatFree(req[s].at)
  /\ lock' = lock \union {s}
  /\ UNCHANGED <<now, app, participant, suspended, program, req, hourly, edits>>

(* An acceptance locks the seats and counts them; when none is free it     *)
(* ends with a conflict.                                                   *)
AcceptLock(s) ==
  /\ Serving(s, "decide")
  /\ req[s].arg = "accept"
  /\ lock = {}
  /\ IF SeatFree(req[s].at)
       THEN lock' = {s} /\ UNCHANGED req
       ELSE End(s) /\ UNCHANGED lock
  /\ UNCHANGED <<now, app, participant, suspended, program, hourly, edits>>

(* It then claims the row, for the response window staff chose.            *)
AcceptClaim(s) ==
  /\ s \in lock
  /\ IF app[req[s].user].status \in Undecided
       THEN \E days \in ResponseDays : SetApp(req[s].user, Offered(req[s].at + days))
       ELSE UNCHANGED app
  /\ lock' = lock \ {s}
  /\ End(s)
  /\ UNCHANGED <<now, participant, suspended, program, hourly, edits>>

-----------------------------------------------------------------------------
(* Mutants: the seats of open offers count as free; the seats of offers    *)
(* about to lapse count as held.                                           *)
SeatsWithoutOffers(t) ==
  IF capacity = 0 \/ Ended THEN 0 ELSE capacity - Cardinality(Participants)
SeatsBeforeLapse(t) ==
  IF capacity = 0 \/ Ended THEN 0
  ELSE capacity - Cardinality(Participants) - Cardinality({u \in Users : app[u].status = "ACCEPTED"})

(* refillProgram(now = t): lapse the offers that ran out, then offer the   *)
(* free seats to the waiting in the order they were waitlisted.  The order *)
(* among equal times is the database's choice.                             *)
FreeSeats(t) == IF capacity = 0 \/ Ended THEN 0 ELSE capacity - HeldSeats(t)

Promotion(t) ==
  {chosen \in SUBSET Waiting :
     /\ Cardinality(chosen) <= Larger(FreeSeats(t), 0)
     /\ Cardinality(chosen) = Larger(FreeSeats(t), 0) \/ chosen = Waiting
     /\ \A u \in chosen, v \in Waiting \ chosen : app[u].waitlistedAt <= app[v].waitlistedAt}

(* Mutant: without a capacity there is nothing to refill, so it returns.   *)
RefillLimitedOnly(t) ==
  /\ lock = {}
  /\ \E chosen \in Promotion(t) :
       app' = [u \in Users |->
                 CASE capacity # 0 /\ u \in ExpiredOffers(t) -> Lapsed
                   [] u \in chosen -> Offered(t + DEFAULT_RESPONSE_DAYS)
                   [] OTHER -> app[u]]

RefillProgram(t) ==
  /\ lock = {}
  /\ \E chosen \in Promotion(t) :
       app' = [u \in Users |->
                 CASE u \in ExpiredOffers(t) -> Lapsed
                   [] u \in chosen -> Offered(t + DEFAULT_RESPONSE_DAYS)
                   [] OTHER -> app[u]]

(* POST /applications/refill, by staff.                                    *)
RefillBegin(s) ==
  /\ Writable
  /\ Begin(s, "refill", NoUser, "none", now)
  /\ UNCHANGED <<now, app, participant, suspended, program, lock, hourly, edits>>

(* The refill of a decline or of staff, at a time since it was requested.  *)
Refill(s) ==
  /\ Serving(s, "refill")
  /\ \E t \in req[s].at .. now : RefillProgram(t)
  /\ End(s)
  /\ UNCHANGED <<now, participant, suspended, program, lock, hourly, edits>>

(* Hourly: the programs with an expired offer are looked up, then refilled *)
(* with the time the job began.                                            *)
JobScan ==
  /\ job = {}
  /\ ExpiredOffers(now) # {}
  /\ job' = {now}
  /\ UNCHANGED jobFailures
  /\ UNCHANGED <<now, app, participant, suspended, program, lock, req, edits>>

JobRefill ==
  /\ \E t \in job : RefillProgram(t)
  /\ job' = {}
  /\ UNCHANGED jobFailures
  /\ UNCHANGED <<now, participant, suspended, program, lock, req, edits>>

JobFails ==
  /\ job # {}
  /\ jobFailures < MaxJobFailures
  /\ jobFailures' = jobFailures + 1
  /\ job' = {}
  /\ UNCHANGED <<now, app, participant, suspended, program, lock, req, edits>>

-----------------------------------------------------------------------------
(* Staff edits outside the selection flow.                                 *)
Edit == edits < MaxEdits /\ edits' = edits + 1

(* POST and DELETE /participants.                                          *)
AddParticipant(u) ==
  /\ Edit
  /\ Writable
  /\ u \notin suspended
  /\ participant[u] = "no"
  /\ lock = {}
  /\ participant' = [participant EXCEPT ![u] = "staff"]
  /\ UNCHANGED <<now, app, suspended, program, lock, req, hourly>>

RemoveParticipant(u) ==
  /\ Edit
  /\ Writable
  /\ participant[u] # "no"
  /\ participant' = [participant EXCEPT ![u] = "no"]
  /\ UNCHANGED <<now, app, suspended, program, lock, req, hourly>>

(* PATCH /:programId: capacity and operating status, on the program row.   *)
PatchProgram ==
  /\ Edit
  /\ lock = {}
  /\ \/ capacity' \in Capacities \ {capacity} /\ UNCHANGED status
     \/ status' \in ProgramStatus \ {status} /\ UNCHANGED capacity
  /\ seatLimit' = Larger(seatLimit, SeatsOf(capacity'))
  /\ UNCHANGED <<now, app, participant, suspended, phase, lock, req, hourly>>

(* The apply window passes, or staff publish, unpublish, close or reopen.  *)
Recruitment ==
  /\ Edit
  /\ lock = {}
  /\ phase' \in Phase \ {phase}
  /\ UNCHANGED <<now, app, participant, suspended, capacity, status, seatLimit, lock, req, hourly>>

(* The organization suspends a member or lifts the suspension.             *)
Suspension(u) ==
  /\ Edit
  /\ suspended' = IF u \in suspended THEN suspended \ {u} ELSE suspended \union {u}
  /\ UNCHANGED <<now, app, participant, program, lock, req, hourly>>

Tick ==
  /\ now < MaxNow
  /\ now' = now + 1
  /\ UNCHANGED <<app, participant, suspended, program, lock, req, hourly, edits>>

-----------------------------------------------------------------------------
Init ==
  /\ now = 0
  /\ app = [u \in Users |-> Row("NONE")]
  /\ participant = [u \in Users |-> "no"]
  /\ suspended = {}
  /\ capacity \in Capacities
  /\ status = "ACTIVE"
  /\ phase = "open"
  /\ lock = {}
  /\ req = [s \in Slots |-> Idle]
  /\ job = {}
  /\ jobFailures = 0
  /\ edits = 0
  /\ seatLimit = SeatsOf(capacity)

ApplicantNext(u) ==
  \/ Withdraw(u)
  \/ \E s \in Slots : \/ \E submit \in BOOLEAN : SaveBegin(s, u, submit)
                      \/ AttachBegin(s, u)
                      \/ DiscardBegin(s, u)
                      \/ ConfirmBegin(s, u)
                      \/ Decline(s, u)

StaffNext(u) ==
  \/ \E s \in Slots, d \in {"reject", "waitlist", "accept"} : DecideBegin(s, u, d)
  \/ AddParticipant(u)
  \/ RemoveParticipant(u)
  \/ Suspension(u)

RequestNext(s) ==
  \/ Save(s) \/ Attach(s) \/ Discard(s) \/ Confirm(s)
  \/ Turn(s) \/ AcceptLock(s) \/ AcceptClaim(s)
  \/ RefillBegin(s) \/ Refill(s)
  \/ RequestFails(s)

Next ==
  \/ \E u \in Users : ApplicantNext(u) \/ StaffNext(u)
  \/ \E s \in Slots : RequestNext(s)
  \/ JobScan \/ JobRefill \/ JobFails
  \/ PatchProgram \/ Recruitment \/ Tick

Spec == Init /\ [][Next]_vars

(* The scheduler starts its jobs every hour and one that failed is started *)
(* again an hour later; failures come to an end, and a job waiting for the *)
(* seat lock gets it, since PostgreSQL serves lock waiters in turn.  A claim   *)
(* that holds the seat lock is inside a database transaction and ends, and *)
(* a handler that reached its refill goes on with it unless it fails.      *)
Fairness ==
  /\ WF_vars(JobScan)
  /\ SF_vars(JobRefill)
  /\ \A s \in Slots : WF_vars(AcceptClaim(s)) /\ WF_vars(Refill(s))

FairSpec == Spec /\ Fairness

-----------------------------------------------------------------------------
TypeOK ==
  /\ now \in Nat
  /\ app \in [Users -> Application]
  /\ participant \in [Users -> {"no", "self", "staff"}]
  /\ suspended \subseteq Users
  /\ capacity \in Nat
  /\ status \in ProgramStatus
  /\ phase \in Phase
  /\ lock \subseteq Slots
  /\ req \in [Slots -> Request]
  /\ job \subseteq Nat
  /\ jobFailures \in Nat
  /\ edits \in Nat
  /\ seatLimit \in Nat

(* Open offers and the registrations that came from offers never outnumber *)
(* the seats the program has had, whatever is confirmed, accepted, lapsed, *)
(* refilled, registered or resized at the same time: heldSeats is counted  *)
(* under the seat lock and a lapsed offer can no longer be confirmed.      *)
SeatsWithinLimit ==
  Cardinality(SelfRegistered) + Cardinality(LiveOffers(now)) <= seatLimit

(* The facts SeatsWithinLimit rests on: one transaction at a time holds    *)
(* the lock, no request or job runs ahead of the clock, the limit covers   *)
(* the present capacity, and a transaction that found a free seat still    *)
(* has it when it claims.                                                  *)
OneHolder == \A s \in lock : lock = {s}
TimesPast == (\A s \in Slots : req[s].at <= now) /\ (\A t \in job : t <= now)
LimitCovers == SeatsOf(capacity) <= seatLimit
SeatReserved ==
  lock # {} /\ capacity # 0 =>
    Cardinality(SelfRegistered) + Cardinality(LiveOffers(now)) < seatLimit
SeatsInv == OneHolder /\ TimesPast /\ LimitCovers /\ SeatsWithinLimit /\ SeatReserved

(* An open offer ends before its deadline only by the applicant's own      *)
(* doing: confirming, declining, or a save, upload or discard of theirs    *)
(* that was under way.  Staff, the job and refills of others leave it.     *)
OfferKept(u) ==
  u \in LiveOffers(now) /\ app'[u] # app[u] =>
    \/ app'[u].status = "CONFIRMED" /\ participant'[u] # "no"
    \/ app'[u] = TurnedDown
    \/ \E s \in Slots : /\ req[s].user = u
                        /\ req[s].op \in {"save", "attach", "discard"}
                        /\ req'[s] = Idle
OfferHonoured == [][\A u \in Users : OfferKept(u)]_vars

(* An offer that has run out is not left standing: the hourly job lapses   *)
(* it, whatever state the program is in by then.                           *)
ExpiredOfferLapses ==
  \A u \in Users : (u \in ExpiredOffers(now)) ~> (u \notin ExpiredOffers(now))

(* A lapse passes its seat on in the same transaction: afterwards every    *)
(* seat is taken or on offer, or nobody eligible is waiting.               *)
SeatsGivenOut ==
  Cardinality(Participants) + Cardinality({u \in Users : app[u].status = "ACCEPTED"}) >= capacity
LapsedSeatPassedOn ==
  [][(\E u \in Users : app[u].status = "ACCEPTED" /\ app'[u] = Lapsed) /\ ~Ended
       => SeatsGivenOut' \/ Waiting' = {}]_vars

(* The seats as the ledger sees them.                                      *)
Ledger == INSTANCE SeatLedger WITH seated <- Participants, offered <- LiveOffers(now)
ImplementsLedger == Ledger!LedgerSpec

(* What the refusal at programRecruitment.routes.ts:272 says, "you cannot  *)
(* apply again in this recruitment": a rejection or a decline is final.    *)
DecisionStands ==
  [][\A u \in Users :
       app[u].status \in {"REJECTED", "DECLINED"} => app'[u] = app[u]]_vars
=============================================================================
