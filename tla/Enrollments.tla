----------------------------- MODULE Enrollments -----------------------------
(***************************************************************************)
(* Signing up for a program of the opportunity board, deciding about a     *)
(* sign-up and completing it: src/backend/src/modules/opportunities/       *)
(* enrollment.service.ts and the handlers of opportunities.routes.ts.      *)
(*                                                                         *)
(* The program is one opportunity.  A request occupies a slot from what it *)
(* reads to what it writes, and other requests run in between.  Every      *)
(* write is a conditional UPDATE (or an INSERT under the unique key), so   *)
(* it is one step; the transaction that completes a sign-up holds the row  *)
(* from its conditional update to its commit and is one step as well.      *)
(***************************************************************************)
EXTENDS Integers, FiniteSets

CONSTANTS
  Users,      \* applicants
  Managers,   \* the creator of the program and platform admins
  NoOne,      \* a null approver
  Slots,      \* requests the server may be serving at a time
  MaxNow      \* bound: the clock stops here

ASSUME ManagersAssumption == NoOne \notin Managers
ASSUME ClockAssumption == MaxNow \in Nat \ {0}

VARIABLES
  now,           \* the clock
  row,           \* the sign-up of each user
  certificates,  \* certificates issued to each user
  deadline,      \* the last day of the program's sign-up, 0 for null
  program,       \* "open"; "job" when its type takes no sign-ups; "gone"
  req,           \* what each slot is serving
  approvals      \* history: who approved each sign-up, and when

opportunity == <<deadline, program>>
vars == <<now, row, certificates, opportunity, req, approvals>>

Null == 0
Times == 1..MaxNow
Status == {"NONE", "APPLIED", "ENROLLED", "COMPLETED", "REJECTED", "WITHDRAWN", "GONE"}
Row == [status : Status, appliedAt : Times \cup {Null}, enrolledAt : Times \cup {Null},
        completedAt : Times \cup {Null}, approvedById : Managers \cup {NoOne},
        certificate : BOOLEAN]
NoRow == [status |-> "NONE", appliedAt |-> Null, enrolledAt |-> Null,
          completedAt |-> Null, approvedById |-> NoOne, certificate |-> FALSE]

Free == [op |-> "none"]
Decisions == {"enrolled", "rejected", "withdrawn"}
to(decision) == CASE decision = "enrolled" -> "ENROLLED"
                  [] decision = "rejected" -> "REJECTED"
                  [] decision = "withdrawn" -> "WITHDRAWN"
from(decision) == IF decision = "enrolled" THEN {"APPLIED"} ELSE {"APPLIED", "ENROLLED"}
MaxAttempts == 3

Serve(s, r) == req' = [req EXCEPT ![s] = r]
Answer(s) == Serve(s, Free)
Write(u, r) == row' = [row EXCEPT ![u] = r]

------------------------------------------------------------------------------
(* POST /:id/enroll: the opportunity and the clock are read first ...      *)
isDeadlinePassed == deadline # Null /\ deadline < now

ApplyBegin(s, u) ==
  /\ req[s] = Free
  /\ program = "open"
  /\ Serve(s, [op |-> "apply", user |-> u, at |-> now, late |-> isDeadlinePassed,
               attempt |-> 1])
  /\ UNCHANGED <<now, row, certificates, opportunity, approvals>>

(* ... then the sign-up.  A pending one is returned as it is, one that     *)
(* takes part or is completed refuses, and so does a deadline that passed. *)
(* Once the program is gone the INSERT fails on its foreign key.           *)
ApplyRead(s) ==
  /\ req[s].op = "apply"
  /\ LET u == req[s].user
     IN  IF row[u].status \in {"APPLIED", "ENROLLED", "COMPLETED", "GONE"} \/ req[s].late
         THEN Answer(s)
         ELSE Serve(s, [op |-> "reopen", user |-> u, at |-> req[s].at,
                        late |-> FALSE, attempt |-> req[s].attempt,
                        seen |-> row[u].status])
  /\ UNCHANGED <<now, row, certificates, opportunity, approvals>>

Signed(r, at) ==
  [r EXCEPT !.status = "APPLIED", !.appliedAt = at, !.enrolledAt = Null,
            !.approvedById = NoOne]

(* The INSERT fails on the unique key, the UPDATE names the status read:   *)
(* when either finds the row changed the loop reads it again.              *)
(* Mutant: the row is updated whatever its status is by now.               *)
ApplyWriteAnyway(s) ==
  /\ req[s].op = "reopen"
  /\ LET u == req[s].user
     IN  /\ IF program = "gone" THEN UNCHANGED row
            ELSE Write(u, Signed(row[u], req[s].at))
         /\ Answer(s)
  /\ UNCHANGED <<now, certificates, opportunity, approvals>>

(* Mutant: the loop has no bound.                                          *)
ApplyWriteAgain(s) ==
  /\ req[s].op = "reopen"
  /\ LET u == req[s].user
     IN  IF row[u].status = req[s].seen
         THEN /\ Write(u, Signed(row[u], req[s].at))
              /\ Answer(s)
         ELSE /\ UNCHANGED row
              /\ Serve(s, [op |-> "apply", user |-> u, at |-> req[s].at,
                            late |-> FALSE, attempt |-> req[s].attempt + 1])
  /\ UNCHANGED <<now, certificates, opportunity, approvals>>

ApplyWrite(s) ==
  /\ req[s].op = "reopen"
  /\ LET u == req[s].user
     IN  IF row[u].status = req[s].seen
         THEN /\ Write(u, Signed(row[u], req[s].at))
              /\ Answer(s)
         ELSE /\ UNCHANGED row
              /\ IF req[s].attempt < MaxAttempts /\ program # "gone"
                 THEN Serve(s, [op |-> "apply", user |-> u, at |-> req[s].at,
                                late |-> FALSE, attempt |-> req[s].attempt + 1])
                 ELSE Answer(s)
  /\ UNCHANGED <<now, certificates, opportunity, approvals>>

(* DELETE /:id/enroll.                                                     *)
WithdrawRead(s, u) ==
  /\ req[s] = Free
  /\ row[u].status \in {"APPLIED", "ENROLLED"}
  /\ Serve(s, [op |-> "withdraw", user |-> u])
  /\ UNCHANGED <<now, row, certificates, opportunity, approvals>>

Withdrawn(r) == [r EXCEPT !.status = "WITHDRAWN", !.enrolledAt = Null,
                          !.approvedById = NoOne]

(* Mutant: the sign-up that was read as pending is withdrawn by its id.    *)
WithdrawById(s) ==
  /\ req[s].op = "withdraw"
  /\ LET u == req[s].user
     IN  IF row[u].status # "GONE" THEN Write(u, Withdrawn(row[u])) ELSE UNCHANGED row
  /\ Answer(s)
  /\ UNCHANGED <<now, certificates, opportunity, approvals>>

WithdrawWrite(s) ==
  /\ req[s].op = "withdraw"
  /\ LET u == req[s].user
     IN  IF row[u].status \in {"APPLIED", "ENROLLED"}
         THEN Write(u, Withdrawn(row[u])) ELSE UNCHANGED row
  /\ Answer(s)
  /\ UNCHANGED <<now, certificates, opportunity, approvals>>

------------------------------------------------------------------------------
(* PATCH /enrollments/:enrollmentId with a decision.                       *)
DecideRead(s, u, m, decision) ==
  /\ req[s] = Free
  /\ row[u].status \in from(decision)
  /\ Serve(s, [op |-> "decide", user |-> u, by |-> m, decision |-> decision,
               seen |-> row[u].status])
  /\ UNCHANGED <<now, row, certificates, opportunity, approvals>>

(* Mutant: the approval time and approver of a decision are written with   *)
(* every one of them.                                                      *)
DecidedAlways(r, decision, m) ==
  [r EXCEPT !.status = to(decision), !.enrolledAt = now, !.approvedById = m]

Decided(r, decision, m) ==
  IF decision = "enrolled"
  THEN [r EXCEPT !.status = to(decision), !.enrolledAt = now, !.approvedById = m]
  ELSE [r EXCEPT !.status = to(decision)]

DecideWrite(s) ==
  /\ req[s].op = "decide"
  /\ LET u == req[s].user
     IN  IF row[u].status = req[s].seen
         THEN /\ Write(u, Decided(row[u], req[s].decision, req[s].by))
              /\ approvals' = IF req[s].decision # "enrolled" THEN approvals
                              ELSE [approvals EXCEPT ![u] = @ \cup {<<now, req[s].by>>}]
         ELSE UNCHANGED <<row, approvals>>
  /\ Answer(s)
  /\ UNCHANGED <<now, certificates, opportunity>>

(* The same with "completed": issueProgramCertificate.                     *)
CompleteRead(s, u, m) ==
  /\ req[s] = Free
  /\ row[u].status \in {"APPLIED", "ENROLLED"}
  /\ Serve(s, [op |-> "complete", user |-> u, by |-> m, seen |-> row[u].status,
               enrolledAt |-> row[u].enrolledAt, approvedById |-> row[u].approvedById])
  /\ UNCHANGED <<now, row, certificates, opportunity, approvals>>

Completed(r, read) ==
  [r EXCEPT !.status = "COMPLETED", !.completedAt = now, !.certificate = TRUE,
            !.enrolledAt = IF read.enrolledAt # Null THEN read.enrolledAt ELSE now,
            !.approvedById = IF read.approvedById # NoOne THEN read.approvedById
                             ELSE read.by]

(* Mutant: the claim takes any sign-up that is not withdrawn by now.       *)
CompleteUnclaimed(s) ==
  /\ req[s].op = "complete"
  /\ LET u == req[s].user
     IN  IF row[u].status \notin {"WITHDRAWN", "REJECTED", "GONE"}
         THEN /\ Write(u, Completed(row[u], req[s]))
              /\ certificates' = [certificates EXCEPT ![u] = @ + 1]
         ELSE UNCHANGED <<row, certificates>>
  /\ Answer(s)
  /\ UNCHANGED <<now, opportunity, approvals>>

(* The sign-up is claimed by the status it was read with; the certificate  *)
(* is made and linked before the transaction commits.                      *)
CompleteWrite(s) ==
  /\ req[s].op = "complete"
  /\ LET u == req[s].user
     IN  IF row[u].status = req[s].seen
         THEN /\ Write(u, Completed(row[u], req[s]))
              /\ certificates' = IF row[u].certificate THEN certificates
                                 ELSE [certificates EXCEPT ![u] = @ + 1]
         ELSE UNCHANGED <<row, certificates>>
  /\ Answer(s)
  /\ UNCHANGED <<now, opportunity, approvals>>

------------------------------------------------------------------------------
(* PATCH /:id and DELETE /:id of the opportunity, which cascades.          *)
EditOpportunity ==
  /\ program # "gone"
  /\ deadline' \in Times \cup {Null}
  /\ program' \in {"open", "job"}
  /\ opportunity' # opportunity
  /\ UNCHANGED <<now, row, certificates, req, approvals>>

DeleteOpportunity ==
  /\ program # "gone"
  /\ program' = "gone"
  /\ row' = [u \in Users |-> [NoRow EXCEPT !.status = "GONE"]]
  /\ UNCHANGED <<now, certificates, deadline, req, approvals>>

Tick ==
  /\ now < MaxNow
  /\ now' = now + 1
  /\ UNCHANGED <<row, certificates, opportunity, req, approvals>>

Init ==
  /\ now = 1
  /\ row = [u \in Users |-> NoRow]
  /\ certificates = [u \in Users |-> 0]
  /\ deadline \in Times \cup {Null}
  /\ program = "open"
  /\ req = [s \in Slots |-> Free]
  /\ approvals = [u \in Users |-> {}]

Request(s) ==
  \/ \E u \in Users : ApplyBegin(s, u) \/ WithdrawRead(s, u)
  \/ \E u \in Users, m \in Managers : CompleteRead(s, u, m)
  \/ \E u \in Users, m \in Managers, d \in Decisions : DecideRead(s, u, m, d)
  \/ ApplyRead(s) \/ ApplyWrite(s) \/ WithdrawWrite(s) \/ DecideWrite(s) \/ CompleteWrite(s)

Next == Tick \/ EditOpportunity \/ DeleteOpportunity \/ \E s \in Slots : Request(s)

Spec == Init /\ [][Next]_vars

------------------------------------------------------------------------------
(* What each slot may be serving.                                          *)
Read == {"APPLIED", "ENROLLED"}
Applying == [op : {"apply"}, user : Users, at : Times, late : BOOLEAN,
             attempt : 1..MaxAttempts]
Reopening == [op : {"reopen"}, user : Users, at : Times, late : {FALSE},
              attempt : 1..MaxAttempts, seen : {"NONE", "REJECTED", "WITHDRAWN"}]
Withdrawing == [op : {"withdraw"}, user : Users]
Deciding == [op : {"decide"}, user : Users, by : Managers, decision : Decisions,
             seen : Read]
Completing == [op : {"complete"}, user : Users, by : Managers, seen : Read,
               enrolledAt : Times \cup {Null}, approvedById : Managers \cup {NoOne}]
Serving == {Free} \cup Applying \cup Reopening \cup Withdrawing \cup Deciding \cup Completing

(* Every variable stays in its range.                                      *)
TypeOK ==
  /\ now \in Times
  /\ row \in [Users -> Row]
  /\ certificates \in [Users -> Nat]
  /\ deadline \in Times \cup {Null}
  /\ program \in {"open", "job", "gone"}
  /\ req \in [Slots -> Serving]
  /\ approvals \in [Users -> SUBSET (Times \X Managers)]

(* A certificate of the program is issued once to a user, and while the    *)
(* program exists exactly the completed sign-ups hold one: however many    *)
(* completions, withdrawals and decisions of the same sign-up run at once  *)
(* (issueProgramCertificate).                                              *)
CertificateMeansCompleted ==
  \A u \in Users :
    /\ certificates[u] <= 1
    /\ row[u].certificate = (row[u].status = "COMPLETED")
    /\ program # "gone" => (certificates[u] = 1) = (row[u].status = "COMPLETED")

(* The approval on record is one that was given: of a participation the    *)
(* time and manager of a decision to select, of a completion the same or   *)
(* the completion itself; nobody stands as approver of a pending sign-up.  *)
ApprovalIsReal ==
  \A u \in Users :
    LET r == row[u]
        recorded == <<r.enrolledAt, r.approvedById>>
    IN  /\ r.status = "ENROLLED" => recorded \in approvals[u]
        /\ r.status = "COMPLETED" => recorded \in approvals[u] \/ r.enrolledAt = r.completedAt
        /\ r.status \in {"APPLIED", "WITHDRAWN"} /\ r.enrolledAt # Null
             => r.status = "WITHDRAWN" /\ recorded \in approvals[u]

(* While a sign-up stays pending, selected or completed its dates and      *)
(* approver do not move: a repeated or concurrent request changes nothing  *)
(* (the comments of applyForProgram and issueProgramCertificate).          *)
NothingMoves ==
  [][\A u \in Users :
       row'[u].status = row[u].status => row'[u] = row[u]]_vars

(* What the applicants are promised is an atomic life cycle.               *)
Promise == INSTANCE SignUps WITH status <- [u \in Users |-> row[u].status]
ImplementsSignUps == Promise!Spec
=============================================================================
