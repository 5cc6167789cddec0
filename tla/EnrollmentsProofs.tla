-------------------------- MODULE EnrollmentsProofs --------------------------
(***************************************************************************)
(* Theorems about Enrollments for any number of users, managers, requests  *)
(* and days.                                                               *)
(***************************************************************************)
EXTENDS Enrollments, TLAPS

USE ManagersAssumption, ClockAssumption

(* The operation of a slot says what kind of record it holds.              *)
LEMMA OpTells ==
  /\ Free.op = "none"
  /\ \A r \in Applying : r.op = "apply"
  /\ \A r \in Reopening : r.op = "reopen"
  /\ \A r \in Withdrawing : r.op = "withdraw"
  /\ \A r \in Deciding : r.op = "decide"
  /\ \A r \in Completing : r.op = "complete"
BY DEF Free, Applying, Reopening, Withdrawing, Deciding, Completing

(* What a slot that serves an operation holds.                             *)
LEMMA Serves ==
  ASSUME TypeOK, NEW s \in Slots
  PROVE  /\ req[s].op = "apply" => req[s] \in Applying
         /\ req[s].op = "reopen" => req[s] \in Reopening
         /\ req[s].op = "withdraw" => req[s] \in Withdrawing
         /\ req[s].op = "decide" => req[s] \in Deciding
         /\ req[s].op = "complete" => req[s] \in Completing
<1>1. req[s] \in Serving
  BY DEF TypeOK
<1> QED BY <1>1, OpTells DEF Serving

(* Answering a request or moving it on keeps the slots well-typed.         *)
LEMMA ServeType ==
  ASSUME TypeOK, NEW s \in Slots, NEW r \in Serving, Serve(s, r)
  PROVE  req' \in [Slots -> Serving]
BY DEF TypeOK, Serve

(* Answering leaves a request table behind.                                *)
LEMMA AnswerType ==
  ASSUME TypeOK, NEW s \in Slots, Answer(s)
  PROVE  req' \in [Slots -> Serving]
<1>1. Free \in Serving
  BY DEF Serving
<1> QED BY <1>1, ServeType DEF Answer

(* A conditional write of a sign-up leaves a table of sign-ups behind.     *)
LEMMA WriteType ==
  ASSUME TypeOK, NEW u \in Users, NEW r \in Row, Write(u, r)
  PROVE  row' \in [Users -> Row]
BY DEF TypeOK, Write

(* Every row a request writes is a sign-up.                                *)
LEMMA RowType ==
  ASSUME TypeOK, NEW r \in Row
  PROVE  /\ \A at \in Times : Signed(r, at) \in Row
         /\ Withdrawn(r) \in Row
         /\ \A d \in Decisions, m \in Managers : Decided(r, d, m) \in Row
         /\ \A c \in Completing : Completed(r, c) \in Row
<1>1. \A at \in Times : Signed(r, at) \in Row
  BY DEF Signed, Row, Status, Null
<1>2. Withdrawn(r) \in Row
  BY DEF Withdrawn, Row, Status
<1>3. ASSUME NEW d \in Decisions, NEW m \in Managers
      PROVE  Decided(r, d, m) \in Row
  <2>1. now \in Times
    BY DEF TypeOK
  <2>2. to(d) \in Status
    BY DEF to, Decisions, Status
  <2>3. CASE d = "enrolled"
    BY <2>1, <2>2, <2>3 DEF Decided, Row
  <2>4. CASE d # "enrolled"
    BY <2>2, <2>4 DEF Decided, Row
  <2> QED BY <2>3, <2>4
<1>4. ASSUME NEW c \in Completing
      PROVE  Completed(r, c) \in Row
  <2>1. now \in Times
    BY DEF TypeOK
  <2>2. /\ c.enrolledAt \in Times \cup {Null}
        /\ c.approvedById \in Managers \cup {NoOne}
        /\ c.by \in Managers
    BY DEF Completing
  <2> DEFINE at == IF c.enrolledAt # Null THEN c.enrolledAt ELSE now
             by == IF c.approvedById # NoOne THEN c.approvedById ELSE c.by
  <2>3. at \in Times \cup {Null} /\ by \in Managers \cup {NoOne}
    BY <2>1, <2>2
  <2>4. Completed(r, c) = [r EXCEPT !.status = "COMPLETED", !.completedAt = now,
                             !.certificate = TRUE, !.enrolledAt = at, !.approvedById = by]
    BY DEF Completed
  <2> HIDE DEF at, by
  <2> QED BY <2>1, <2>3, <2>4 DEF Row, Status
<1> QED BY <1>1, <1>2, <1>3, <1>4

(* At first everything is well-typed.                                      *)
LEMMA InitTypeOK == Init => TypeOK
<1> SUFFICES ASSUME Init PROVE TypeOK
  OBVIOUS
<1>1. now \in Times
  BY DEF Init, Times
<1>2. NoRow \in Row
  BY DEF NoRow, Row, Status, Null
<1>3. row \in [Users -> Row]
  BY <1>2 DEF Init
<1>4. req \in [Slots -> Serving]
  BY DEF Init, Serving
<1> QED BY <1>1, <1>3, <1>4 DEF Init, TypeOK

(* Every handler keeps the types.                                          *)
LEMMA StepTypeOK == TypeOK /\ [Next]_vars => TypeOK'
<1> SUFFICES ASSUME TypeOK, [Next]_vars PROVE TypeOK'
  OBVIOUS
<1> USE DEF opportunity
<1>1. CASE UNCHANGED vars
  BY <1>1 DEF vars, TypeOK
<1>2. CASE Tick
  BY <1>2 DEF Tick, TypeOK, Times
<1>3. CASE EditOpportunity
  BY <1>3 DEF EditOpportunity, TypeOK
<1>4. CASE DeleteOpportunity
  <2>1. [NoRow EXCEPT !.status = "GONE"] \in Row
    BY DEF NoRow, Row, Status, Null
  <2> QED BY <1>4, <2>1 DEF DeleteOpportunity, TypeOK
<1>5. ASSUME NEW s \in Slots, NEW u \in Users, ApplyBegin(s, u)
      PROVE  TypeOK'
  <2>1. [op |-> "apply", user |-> u, at |-> now, late |-> isDeadlinePassed, attempt |-> 1]
          \in Serving
    BY DEF Serving, Applying, TypeOK, isDeadlinePassed, MaxAttempts
  <2> QED BY <1>5, <2>1, ServeType DEF ApplyBegin, TypeOK
<1>6. ASSUME NEW s \in Slots, NEW u \in Users, WithdrawRead(s, u)
      PROVE  TypeOK'
  <2>1. [op |-> "withdraw", user |-> u] \in Serving
    BY DEF Serving, Withdrawing
  <2> QED BY <1>6, <2>1, ServeType DEF WithdrawRead, TypeOK
<1>7. ASSUME NEW s \in Slots, NEW u \in Users, NEW m \in Managers, CompleteRead(s, u, m)
      PROVE  TypeOK'
  <2> DEFINE read == [op |-> "complete", user |-> u, by |-> m, seen |-> row[u].status,
                      enrolledAt |-> row[u].enrolledAt,
                      approvedById |-> row[u].approvedById]
  <2>1. row[u] \in Row
    BY DEF TypeOK
  <2>2. read \in Serving
    BY <1>7, <2>1 DEF CompleteRead, Serving, Completing, Read, Row
  <2> QED BY <1>7, <2>2, ServeType DEF CompleteRead, TypeOK
<1>8. ASSUME NEW s \in Slots, NEW u \in Users, NEW m \in Managers, NEW d \in Decisions,
             DecideRead(s, u, m, d)
      PROVE  TypeOK'
  <2>1. [op |-> "decide", user |-> u, by |-> m, decision |-> d, seen |-> row[u].status]
          \in Serving
    BY <1>8 DEF DecideRead, Serving, Deciding, Read, from
  <2> QED BY <1>8, <2>1, ServeType DEF DecideRead, TypeOK
<1>9. ASSUME NEW s \in Slots, ApplyRead(s)
      PROVE  TypeOK'
  <2> DEFINE u == req[s].user
             next == [op |-> "reopen", user |-> u, at |-> req[s].at, late |-> FALSE,
                      attempt |-> req[s].attempt, seen |-> row[u].status]
  <2>1. req[s] \in Applying
    BY <1>9, Serves DEF ApplyRead
  <2>2. row[u] \in Row
    BY <2>1 DEF TypeOK, Applying
  <2>3. CASE Answer(s)
    BY <1>9, <2>3, AnswerType DEF ApplyRead, TypeOK
  <2>4. CASE Serve(s, next) /\ row[u].status \notin {"APPLIED", "ENROLLED", "COMPLETED", "GONE"}
    <3>1. next \in Reopening
      BY <2>1, <2>2, <2>4 DEF Reopening, Applying, Row, Status
    <3>2. next \in Serving
      BY <3>1 DEF Serving
    <3> QED BY <1>9, <2>4, <3>2, ServeType DEF ApplyRead, TypeOK
  <2> QED BY <1>9, <2>3, <2>4 DEF ApplyRead
<1>10. ASSUME NEW s \in Slots, ApplyWrite(s)
       PROVE  TypeOK'
  <2> DEFINE u == req[s].user
             next == [op |-> "apply", user |-> u, at |-> req[s].at, late |-> FALSE,
                      attempt |-> req[s].attempt + 1]
  <2>1. req[s] \in Reopening
    BY <1>10, Serves DEF ApplyWrite
  <2>2. u \in Users /\ req[s].at \in Times /\ req[s].attempt \in 1..MaxAttempts
    BY <2>1 DEF Reopening
  <2>3. row' \in [Users -> Row]
    <3>1. row[u] \in Row
      BY <2>2 DEF TypeOK
    <3>2. Signed(row[u], req[s].at) \in Row
      BY <2>2, <3>1, RowType
    <3> QED BY <1>10, <2>2, <3>2, WriteType DEF ApplyWrite, TypeOK
  <2>4. req' \in [Slots -> Serving]
    <3>1. CASE Answer(s)
      BY <3>1, AnswerType
    <3>2. CASE Serve(s, next) /\ req[s].attempt < MaxAttempts
      <4>1. next \in Serving
        BY <2>2, <3>2 DEF Serving, Applying, MaxAttempts
      <4> QED BY <3>2, <4>1, ServeType
    <3> QED BY <1>10, <3>1, <3>2 DEF ApplyWrite
  <2> QED BY <1>10, <2>3, <2>4 DEF ApplyWrite, TypeOK
<1>11. ASSUME NEW s \in Slots, WithdrawWrite(s)
       PROVE  TypeOK'
  <2>1. req[s].user \in Users
    BY <1>11, Serves DEF WithdrawWrite, Withdrawing
  <2>2. Withdrawn(row[req[s].user]) \in Row
    BY <2>1, RowType DEF TypeOK
  <2>3. row' \in [Users -> Row]
    BY <1>11, <2>1, <2>2, WriteType DEF WithdrawWrite, TypeOK
  <2> QED BY <1>11, <2>3, AnswerType DEF WithdrawWrite, TypeOK
<1>12. ASSUME NEW s \in Slots, DecideWrite(s)
       PROVE  TypeOK'
  <2> DEFINE u == req[s].user
  <2>1. u \in Users /\ req[s].by \in Managers /\ req[s].decision \in Decisions
    BY <1>12, Serves DEF DecideWrite, Deciding
  <2>2. Decided(row[u], req[s].decision, req[s].by) \in Row
    BY <2>1, RowType DEF TypeOK
  <2>3. row' \in [Users -> Row]
    BY <1>12, <2>1, <2>2, WriteType DEF DecideWrite, TypeOK
  <2>4. approvals' \in [Users -> SUBSET (Times \X Managers)]
    <3>1. <<now, req[s].by>> \in Times \X Managers
      BY <2>1 DEF TypeOK
    <3>2. \/ approvals' = approvals
          \/ approvals' = [approvals EXCEPT ![u] = @ \cup {<<now, req[s].by>>}]
      BY <1>12 DEF DecideWrite
    <3> QED BY <2>1, <3>1, <3>2 DEF TypeOK
  <2> QED BY <1>12, <2>3, <2>4, AnswerType DEF DecideWrite, TypeOK
<1>13. ASSUME NEW s \in Slots, CompleteWrite(s)
       PROVE  TypeOK'
  <2> DEFINE u == req[s].user
  <2>1. req[s] \in Completing
    BY <1>13, Serves DEF CompleteWrite
  <2>2. u \in Users
    BY <2>1 DEF Completing
  <2>3. Completed(row[u], req[s]) \in Row
    BY <2>1, <2>2, RowType DEF TypeOK
  <2>4. row' \in [Users -> Row]
    BY <1>13, <2>2, <2>3, WriteType DEF CompleteWrite, TypeOK
  <2>5. certificates' \in [Users -> Nat]
    BY <1>13, <2>2 DEF CompleteWrite, TypeOK
  <2> QED BY <1>13, <2>4, <2>5, AnswerType DEF CompleteWrite, TypeOK
<1> QED BY <1>1, <1>2, <1>3, <1>4, <1>5, <1>6, <1>7, <1>8, <1>9, <1>10, <1>11, <1>12, <1>13
        DEF Next, Request

(* Every variable stays in its range, whatever requests run together.      *)
THEOREM TypeCorrect == Spec => []TypeOK
BY InitTypeOK, StepTypeOK, PTL DEF Spec

------------------------------------------------------------------------------
(* The deletion takes every sign-up, and nothing else does.                *)
GoneTogether ==
  \A u \in Users : (row[u].status = "GONE") = (program = "gone")

(* A decision in progress is one its handler lets through.                 *)
DecisionAllowed ==
  \A s \in Slots : req[s].op = "decide" => req[s].seen \in from(req[s].decision)

Inv == TypeOK /\ GoneTogether /\ DecisionAllowed /\ CertificateMeansCompleted

(* The steps that leave the sign-ups and the certificates alone: what they *)
(* read lets only allowed decisions through.                               *)
Quiet ==
  \/ UNCHANGED vars
  \/ Tick \/ EditOpportunity
  \/ \E s \in Slots :
       \/ ApplyRead(s)
       \/ \E u \in Users : ApplyBegin(s, u) \/ WithdrawRead(s, u)
       \/ \E u \in Users, m \in Managers : CompleteRead(s, u, m)
       \/ \E u \in Users, m \in Managers, d \in Decisions : DecideRead(s, u, m, d)

Writing(s) == ApplyWrite(s) \/ WithdrawWrite(s) \/ DecideWrite(s) \/ CompleteWrite(s)

(* A step leaves the sign-ups alone, deletes the program, or is the        *)
(* conditional write of one request.                                       *)
LEMMA StepKinds ==
  [Next]_vars => Quiet \/ DeleteOpportunity \/ \E s \in Slots : Writing(s)
BY DEF Next, Request, Quiet, Writing

(* The steps called quiet change no sign-up, certificate or approval.      *)
LEMMA QuietKeeps ==
  ASSUME Quiet
  PROVE  UNCHANGED <<row, certificates, approvals>> /\ (program' = "gone") = (program = "gone")
BY DEF Quiet, vars, opportunity, Tick, EditOpportunity, ApplyRead, ApplyBegin, WithdrawRead,
       CompleteRead, DecideRead

(* Other than by the deletion, at most one sign-up is written in a step,   *)
(* and only from a status the program being there allows.                  *)
LEMMA WriteForms ==
  ASSUME Inv, NEW s \in Slots, Writing(s)
  PROVE  LET u == req[s].user
             r == row[u]
         IN  /\ u \in Users
             /\ UNCHANGED program
             /\ \/ UNCHANGED <<row, certificates, approvals>>
                \/ /\ req[s].op = "reopen" /\ r.status \in {"NONE", "REJECTED", "WITHDRAWN"}
                   /\ Write(u, Signed(r, req[s].at))
                   /\ UNCHANGED <<certificates, approvals>>
                \/ /\ r.status \in Read /\ Write(u, Withdrawn(r))
                   /\ UNCHANGED <<certificates, approvals>>
                \/ /\ req[s] \in Deciding /\ r.status \in from(req[s].decision)
                   /\ Write(u, Decided(r, req[s].decision, req[s].by))
                   /\ approvals' = IF req[s].decision # "enrolled" THEN approvals
                                   ELSE [approvals EXCEPT ![u] = @ \cup {<<now, req[s].by>>}]
                   /\ UNCHANGED certificates
                \/ /\ req[s] \in Completing /\ r.status \in Read /\ r.status = req[s].seen
                   /\ Write(u, Completed(r, req[s]))
                   /\ certificates' = [certificates EXCEPT ![u] = @ + 1]
                   /\ UNCHANGED approvals
<1> DEFINE u == req[s].user
           r == row[u]
<1> USE DEF opportunity
<1>0. TypeOK
  BY DEF Inv
<1>1. CASE ApplyWrite(s)
  <2>1. req[s] \in Reopening
    BY <1>0, <1>1, Serves DEF ApplyWrite
  <2>2. u \in Users /\ req[s].seen \in {"NONE", "REJECTED", "WITHDRAWN"}
    BY <2>1 DEF Reopening
  <2> QED BY <1>1, <2>2 DEF ApplyWrite
<1>2. CASE WithdrawWrite(s)
  <2>1. u \in Users
    BY <1>0, <1>2, Serves DEF WithdrawWrite, Withdrawing
  <2> QED BY <1>2, <2>1 DEF WithdrawWrite, Read
<1>3. CASE DecideWrite(s)
  <2>1. req[s] \in Deciding /\ u \in Users
    BY <1>0, <1>3, Serves DEF DecideWrite, Deciding
  <2>2. req[s].seen \in from(req[s].decision)
    BY <1>3 DEF DecideWrite, Inv, DecisionAllowed
  <2> QED BY <1>3, <2>1, <2>2 DEF DecideWrite
<1>4. CASE CompleteWrite(s)
  <2>1. req[s] \in Completing
    BY <1>0, <1>4, Serves DEF CompleteWrite
  <2>2. u \in Users /\ req[s].seen \in Read
    BY <2>1 DEF Completing
  <2>3. r.status \in Read => ~r.certificate
    BY <2>2 DEF Inv, CertificateMeansCompleted, Read
  <2> QED BY <1>4, <2>1, <2>2, <2>3 DEF CompleteWrite
<1> QED BY <1>1, <1>2, <1>3, <1>4 DEF Writing

(* The invariant holds at first.                                           *)
LEMMA InitInv == Init => Inv
<1> SUFFICES ASSUME Init PROVE Inv
  OBVIOUS
<1>1. TypeOK
  BY InitTypeOK
<1>2. GoneTogether
  BY DEF Init, GoneTogether, NoRow
<1>3. DecisionAllowed
  BY DEF Init, DecisionAllowed, Free
<1>4. CertificateMeansCompleted
  <2>1. NoRow.certificate = FALSE /\ NoRow.status = "NONE"
    BY DEF NoRow
  <2>2. \A u \in Users : row[u] = NoRow /\ certificates[u] = 0
    BY DEF Init
  <2>3. \A u \in Users : row[u].certificate = (row[u].status = "COMPLETED")
    BY <2>1, <2>2
  <2> QED BY <2>1, <2>2, <2>3 DEF CertificateMeansCompleted
<1> QED BY <1>1, <1>2, <1>3, <1>4 DEF Inv

(* A decision stays allowed for the status it was read with while other    *)
(* requests come in between.                                               *)
LEMMA StepAllowed ==
  ASSUME TypeOK, DecisionAllowed, [Next]_vars
  PROVE  DecisionAllowed'
<1> USE DEF opportunity
<1>1. ASSUME NEW t \in Slots, req'[t].op = "decide"
      PROVE  req'[t].seen \in from(req'[t].decision)
  <2>1. CASE req'[t] = req[t]
    BY <1>1, <2>1 DEF DecisionAllowed
  <2>2. CASE req'[t] # req[t]
    <3>1. PICK s \in Slots : Request(s)
      BY <2>2 DEF Next, vars, Tick, EditOpportunity, DeleteOpportunity
    <3>2. s = t
      BY <2>2, <3>1 DEF Request, ApplyBegin, WithdrawRead, CompleteRead, DecideRead, ApplyRead,
         ApplyWrite, WithdrawWrite, DecideWrite, CompleteWrite, Serve, Answer, TypeOK
    <3>3. PICK u \in Users, m \in Managers, d \in Decisions : DecideRead(s, u, m, d)
      BY <1>1, <3>1, <3>2 DEF Request, ApplyBegin, WithdrawRead, CompleteRead, ApplyRead,
         ApplyWrite, WithdrawWrite, DecideWrite, CompleteWrite, Serve, Answer, TypeOK, Free
    <3> QED BY <3>2, <3>3 DEF DecideRead, Serve, TypeOK
  <2> QED BY <2>1, <2>2
<1> QED BY <1>1 DEF DecisionAllowed

(* Every step keeps the invariant.                                         *)
LEMMA StepInv == Inv /\ [Next]_vars => Inv'
<1> SUFFICES ASSUME Inv, [Next]_vars PROVE Inv'
  OBVIOUS
<1>1. TypeOK'
  BY StepTypeOK DEF Inv
<1>2. DecisionAllowed'
  BY StepAllowed DEF Inv
<1>3. CASE Quiet
  <2>1. GoneTogether' /\ CertificateMeansCompleted'
    BY <1>3, QuietKeeps DEF Inv, GoneTogether, CertificateMeansCompleted
  <2> QED BY <1>1, <1>2, <2>1 DEF Inv
<1>4. CASE DeleteOpportunity
  <2>1. GoneTogether' /\ CertificateMeansCompleted'
    BY <1>4 DEF DeleteOpportunity, Inv, GoneTogether, CertificateMeansCompleted, NoRow
  <2> QED BY <1>1, <1>2, <2>1 DEF Inv
<1>5. ASSUME NEW s \in Slots, Writing(s)
      PROVE  Inv'
  <2> DEFINE u == req[s].user
             r == row[u]
  <2>1. u \in Users /\ UNCHANGED program
    BY <1>5, WriteForms
  <2>2. /\ row \in [Users -> Row]
        /\ certificates \in [Users -> Nat]
    BY DEF Inv, TypeOK
  <2>3. /\ \A v \in Users : v # u => row'[v] = row[v] /\ certificates'[v] = certificates[v]
        /\ \/ row'[u] = r /\ certificates'[u] = certificates[u]
           \/ /\ r.status \in {"NONE", "REJECTED", "WITHDRAWN"} \cup Read
              /\ row'[u].status \in {"APPLIED", "WITHDRAWN", "ENROLLED", "REJECTED"}
              /\ row'[u].certificate = r.certificate
              /\ certificates'[u] = certificates[u]
           \/ /\ r.status \in Read
              /\ row'[u].status = "COMPLETED" /\ row'[u].certificate = TRUE
              /\ certificates'[u] = certificates[u] + 1
    <3> DEFINE new == row'[u]
    <3>1. r \in Row
      BY <2>1, <2>2
    <3>2. \A at \in Times : /\ Signed(r, at).status = "APPLIED"
                            /\ Signed(r, at).certificate = r.certificate
      BY <3>1 DEF Signed, Row
    <3>3. Withdrawn(r).status = "WITHDRAWN" /\ Withdrawn(r).certificate = r.certificate
      BY <3>1 DEF Withdrawn, Row
    <3>4. \A d \in Decisions, m \in Managers :
            /\ Decided(r, d, m).status \in {"WITHDRAWN", "ENROLLED", "REJECTED"}
            /\ Decided(r, d, m).certificate = r.certificate
      BY <3>1 DEF Decided, Row, to, Decisions
    <3>5. Completed(r, req[s]).status = "COMPLETED" /\ Completed(r, req[s]).certificate = TRUE
      BY <3>1 DEF Completed, Row
    <3>6. req[s].op = "reopen" => req[s].at \in Times
      BY Serves DEF Inv, Reopening
    <3>7. req[s] \in Deciding => /\ req[s].decision \in Decisions /\ req[s].by \in Managers
                                 /\ from(req[s].decision) \subseteq Read
      BY DEF Deciding, Decisions, from, Read
    <3>8. ASSUME NEW w, Write(u, w), certificates' = certificates
                 \/ certificates' = [certificates EXCEPT ![u] = @ + 1]
          PROVE  /\ row'[u] = w
                 /\ \A v \in Users : v # u => row'[v] = row[v] /\ certificates'[v] = certificates[v]
      BY <2>1, <2>2, <3>8 DEF Write
    <3>9. CASE UNCHANGED <<row, certificates, approvals>>
      BY <3>9
    <3>10. CASE /\ req[s].op = "reopen" /\ r.status \in {"NONE", "REJECTED", "WITHDRAWN"}
                /\ Write(u, Signed(r, req[s].at)) /\ UNCHANGED certificates
      <4> HIDE DEF u, r
      <4> QED BY <3>2, <3>6, <3>8, <3>10
    <3>11. CASE r.status \in Read /\ Write(u, Withdrawn(r)) /\ UNCHANGED certificates
      <4> HIDE DEF u, r
      <4> QED BY <3>3, <3>8, <3>11
    <3>12. CASE /\ req[s] \in Deciding /\ r.status \in from(req[s].decision)
                /\ Write(u, Decided(r, req[s].decision, req[s].by)) /\ UNCHANGED certificates
      <4> HIDE DEF u, r
      <4> QED BY <3>4, <3>7, <3>8, <3>12
    <3>13. CASE /\ r.status \in Read /\ Write(u, Completed(r, req[s]))
                /\ certificates' = [certificates EXCEPT ![u] = @ + 1]
      <4>1. certificates'[u] = certificates[u] + 1
        BY <2>1, <2>2, <3>13
      <4> HIDE DEF u, r
      <4> QED BY <3>5, <3>8, <3>13, <4>1
    <3> QED BY <1>5, <3>9, <3>10, <3>11, <3>12, <3>13, WriteForms
  <2>4. GoneTogether'
    BY <2>1, <2>3 DEF Inv, GoneTogether, Read
  <2>5. CertificateMeansCompleted'
    <3> SUFFICES ASSUME NEW v \in Users
                 PROVE  /\ certificates'[v] <= 1
                        /\ row'[v].certificate = (row'[v].status = "COMPLETED")
                        /\ program' # "gone" =>
                             (certificates'[v] = 1) = (row'[v].status = "COMPLETED")
      BY DEF CertificateMeansCompleted
    <3>1. /\ certificates[v] \in Nat /\ certificates[v] <= 1
          /\ row[v].certificate = (row[v].status = "COMPLETED")
          /\ program # "gone" => (certificates[v] = 1) = (row[v].status = "COMPLETED")
      BY <2>2 DEF Inv, CertificateMeansCompleted
    <3>2. row[v].status \in Read => program # "gone"
      BY DEF Inv, GoneTogether, Read
    <3>3. CASE v # u
      BY <2>1, <2>3, <3>1, <3>3
    <3>4. CASE v = u
      <4>1. CASE row'[u] = r /\ certificates'[u] = certificates[u]
        BY <2>1, <3>1, <3>4, <4>1
      <4>2. CASE /\ r.status \in {"NONE", "REJECTED", "WITHDRAWN"} \cup Read
                 /\ row'[u].status \in {"APPLIED", "WITHDRAWN", "ENROLLED", "REJECTED"}
                 /\ row'[u].certificate = r.certificate
                 /\ certificates'[u] = certificates[u]
        <5>1. r.status # "COMPLETED" /\ row'[u].status # "COMPLETED"
          BY <4>2 DEF Read
        <5>2. row'[v].certificate = (row'[v].status = "COMPLETED")
          BY <3>1, <3>4, <4>2, <5>1
        <5>3. program' # "gone" => certificates'[v] # 1
          BY <2>1, <3>1, <3>4, <4>2, <5>1
        <5> QED BY <3>1, <3>4, <4>2, <5>1, <5>2, <5>3
      <4>3. CASE /\ r.status \in Read
                 /\ row'[u].status = "COMPLETED" /\ row'[u].certificate = TRUE
                 /\ certificates'[u] = certificates[u] + 1
        <5>1. certificates[u] = 0
          BY <3>1, <3>2, <3>4, <4>3 DEF Read
        <5>2. certificates'[v] = 1 /\ row'[v].status = "COMPLETED"
          BY <3>4, <4>3, <5>1
        <5>3. row'[v].certificate = (row'[v].status = "COMPLETED")
          BY <3>4, <4>3, <5>2
        <5>4. certificates'[v] <= 1
          BY <5>2
        <5>5. (certificates'[v] = 1) = (row'[v].status = "COMPLETED")
          BY <5>2
        <5> QED BY <5>3, <5>4, <5>5
      <4> QED BY <2>3, <4>1, <4>2, <4>3
    <3> QED BY <3>3, <3>4
  <2> QED BY <1>1, <1>2, <2>4, <2>5 DEF Inv
<1> QED BY <1>3, <1>4, <1>5, StepKinds

(* So it holds in every reachable state.                                   *)
LEMMA Invariance == Spec => []Inv
BY InitInv, StepInv, PTL DEF Spec

(* A certificate is issued once, and to the completed sign-ups only.       *)
THEOREM CertificatesAreEarned == Spec => []CertificateMeansCompleted
<1>1. Inv => CertificateMeansCompleted
  BY DEF Inv
<1> QED BY <1>1, Invariance, PTL

------------------------------------------------------------------------------
(* A write that keeps the status of a sign-up keeps the sign-up.           *)
LEMMA NothingMovesStep ==
  ASSUME Inv, [Next]_vars
  PROVE  [\A u \in Users : row'[u].status = row[u].status => row'[u] = row[u]]_vars
<1> SUFFICES ASSUME NEW v \in Users, row'[v].status = row[v].status
             PROVE  row'[v] = row[v]
  OBVIOUS
<1>1. CASE Quiet
  BY <1>1, QuietKeeps
<1>2. CASE DeleteOpportunity
  BY <1>2 DEF DeleteOpportunity, Inv, GoneTogether, NoRow
<1>3. ASSUME NEW s \in Slots, Writing(s)
      PROVE  row'[v] = row[v]
  <2> DEFINE u == req[s].user
             r == row[u]
  <2>1. u \in Users
    BY <1>3, WriteForms
  <2>2. row \in [Users -> Row]
    BY DEF Inv, TypeOK
  <2>3. r \in Row
    BY <2>1, <2>2
  <2>4. \A at \in Times : Signed(r, at).status = "APPLIED"
    BY <2>3 DEF Signed, Row
  <2>5. Withdrawn(r).status = "WITHDRAWN" /\ Completed(r, req[s]).status = "COMPLETED"
    BY <2>3 DEF Withdrawn, Completed, Row
  <2>6. ASSUME req[s] \in Deciding
        PROVE  LET d == req[s].decision
               IN  Decided(r, d, req[s].by).status = to(d) /\ to(d) \notin from(d)
    BY <2>3, <2>6 DEF Decided, Deciding, Decisions, to, from, Row
  <2>7. req[s].op = "reopen" => req[s].at \in Times
    BY Serves DEF Inv, Reopening
  <2>8. v # u => row'[v] = row[v]
    BY <1>3, <2>1, <2>2, WriteForms DEF Write
  <2>9. \/ row'[u] = r
        \/ row'[u].status # r.status
    BY <1>3, <2>1, <2>2, <2>4, <2>5, <2>6, <2>7, WriteForms DEF Write, Read
  <2> QED BY <2>8, <2>9
<1> QED BY <1>1, <1>2, <1>3, StepKinds

(* While a sign-up keeps its status nothing of it changes.                 *)
THEOREM PendingRequestsAreStable == Spec => NothingMoves
<1>1. Inv /\ [Next]_vars =>
        [\A u \in Users : row'[u].status = row[u].status => row'[u] = row[u]]_vars
  BY NothingMovesStep
<1> QED BY <1>1, Invariance, PTL DEF Spec, NothingMoves

------------------------------------------------------------------------------
(* What a completion read of an approval was given by then.                *)
ReadIsReal ==
  \A s \in Slots : req[s].op = "complete" =>
    /\ req[s].seen = "APPLIED" => req[s].enrolledAt = Null
    /\ req[s].seen = "ENROLLED" =>
         <<req[s].enrolledAt, req[s].approvedById>> \in approvals[req[s].user]

Approved == Inv /\ ApprovalIsReal /\ ReadIsReal

(* At first nothing was approved.                                          *)
LEMMA InitApproved == Init => Approved
<1> SUFFICES ASSUME Init PROVE Approved
  OBVIOUS
<1>1. NoRow.status = "NONE"
  BY DEF NoRow
<1>2. ApprovalIsReal
  BY <1>1 DEF Init, ApprovalIsReal
<1>3. ReadIsReal
  BY DEF Init, ReadIsReal, Free
<1> QED BY <1>2, <1>3, InitInv DEF Approved

(* Approvals are only added to.                                            *)
LEMMA ApprovalsGrow ==
  ASSUME Inv, [Next]_vars, NEW u \in Users
  PROVE  approvals[u] \subseteq approvals'[u]
<1>1. CASE Quiet
  BY <1>1, QuietKeeps
<1>2. CASE DeleteOpportunity
  BY <1>2 DEF DeleteOpportunity
<1>3. ASSUME NEW s \in Slots, Writing(s)
      PROVE  approvals[u] \subseteq approvals'[u]
  BY <1>3, WriteForms DEF Inv, TypeOK
<1> QED BY <1>1, <1>2, <1>3, StepKinds

(* What a request has read of date and approver is of an approval that     *)
(* was given.                                                              *)
LEMMA StepReadIsReal ==
  ASSUME Approved, [Next]_vars
  PROVE  ReadIsReal'
<1> USE DEF opportunity
<1>0. TypeOK /\ Inv
  BY DEF Approved, Inv
<1>1. ASSUME NEW t \in Slots, req'[t].op = "complete"
      PROVE  /\ req'[t].seen = "APPLIED" => req'[t].enrolledAt = Null
             /\ req'[t].seen = "ENROLLED" =>
                  <<req'[t].enrolledAt, req'[t].approvedById>> \in approvals'[req'[t].user]
  <2>1. CASE req'[t] = req[t]
    <3>1. req[t].user \in Users
      BY <1>0, <1>1, <2>1, Serves DEF Completing
    <3> QED BY <1>0, <1>1, <2>1, <3>1, ApprovalsGrow DEF Approved, ReadIsReal
  <2>2. CASE req'[t] # req[t]
    <3>1. PICK s \in Slots : Request(s)
      BY <2>2 DEF Next, vars, Tick, EditOpportunity, DeleteOpportunity
    <3>2. s = t
      BY <1>0, <2>2, <3>1 DEF Request, ApplyBegin, WithdrawRead, CompleteRead, DecideRead,
         ApplyRead, ApplyWrite, WithdrawWrite, DecideWrite, CompleteWrite, Serve, Answer, TypeOK
    <3>3. PICK u \in Users, m \in Managers : CompleteRead(s, u, m)
      BY <1>0, <1>1, <3>1, <3>2 DEF Request, ApplyBegin, WithdrawRead, DecideRead, ApplyRead,
         ApplyWrite, WithdrawWrite, DecideWrite, CompleteWrite, Serve, Answer, TypeOK, Free
    <3>4. /\ req'[t] = [op |-> "complete", user |-> u, by |-> m, seen |-> row[u].status,
                        enrolledAt |-> row[u].enrolledAt,
                        approvedById |-> row[u].approvedById]
          /\ approvals' = approvals
      BY <1>0, <3>2, <3>3 DEF CompleteRead, Serve, TypeOK
    <3>5. /\ row[u].status = "APPLIED" => row[u].enrolledAt = Null
          /\ row[u].status = "ENROLLED" =>
               <<row[u].enrolledAt, row[u].approvedById>> \in approvals[u]
      BY DEF Approved, ApprovalIsReal
    <3> QED BY <3>4, <3>5
  <2> QED BY <2>1, <2>2
<1> QED BY <1>1 DEF ReadIsReal

(* What it writes back is, too.                                            *)
LEMMA StepApprovalIsReal ==
  ASSUME Approved, [Next]_vars
  PROVE  ApprovalIsReal'
<1> DEFINE Real(r, given) ==
      LET recorded == <<r.enrolledAt, r.approvedById>>
      IN  /\ r.status = "ENROLLED" => recorded \in given
          /\ r.status = "COMPLETED" => recorded \in given \/ r.enrolledAt = r.completedAt
          /\ r.status \in {"APPLIED", "WITHDRAWN"} /\ r.enrolledAt # Null
               => r.status = "WITHDRAWN" /\ recorded \in given
<1>0. /\ Inv /\ TypeOK
      /\ \A u \in Users : Real(row[u], approvals[u])
  BY DEF Approved, Inv, ApprovalIsReal
<1> SUFFICES ASSUME NEW v \in Users
             PROVE  Real(row'[v], approvals'[v])
  BY DEF ApprovalIsReal
<1>1. approvals[v] \subseteq approvals'[v]
  BY <1>0, ApprovalsGrow
<1>2. CASE row'[v] = row[v]
  BY <1>0, <1>1, <1>2
<1>3. CASE DeleteOpportunity
  BY <1>3 DEF DeleteOpportunity, NoRow
<1>4. ASSUME NEW s \in Slots, Writing(s), row'[v] # row[v]
      PROVE  Real(row'[v], approvals'[v])
  <2> DEFINE r == row[v]
  <2>1. v = req[s].user
    BY <1>0, <1>4, WriteForms DEF Write, TypeOK
  <2>2. r \in Row /\ row \in [Users -> Row]
    BY <1>0 DEF TypeOK
  <2>3. approvals[v] \subseteq Times \X Managers
    BY <1>0 DEF TypeOK
  <2>4. CASE /\ req[s].op = "reopen"
             /\ Write(v, Signed(r, req[s].at))
    <3>1. row'[v].status = "APPLIED" /\ row'[v].enrolledAt = Null
      BY <2>2, <2>4 DEF Write, Signed, Row
    <3> QED BY <3>1
  <2>5. CASE Write(v, Withdrawn(r))
    <3>1. row'[v].status = "WITHDRAWN" /\ row'[v].enrolledAt = Null
      BY <2>2, <2>5 DEF Write, Withdrawn, Row
    <3> QED BY <3>1
  <2>6. CASE /\ req[s] \in Deciding /\ r.status \in from(req[s].decision)
             /\ Write(v, Decided(r, req[s].decision, req[s].by))
             /\ approvals' = IF req[s].decision # "enrolled" THEN approvals
                             ELSE [approvals EXCEPT ![v] = @ \cup {<<now, req[s].by>>}]
    <3>1. CASE req[s].decision = "enrolled"
      <4>1. /\ row'[v].status = "ENROLLED"
            /\ row'[v].enrolledAt = now /\ row'[v].approvedById = req[s].by
        BY <2>2, <2>6, <3>1 DEF Write, Decided, Row, to
      <4>2. <<now, req[s].by>> \in approvals'[v]
        BY <1>0, <2>6, <3>1 DEF TypeOK
      <4> QED BY <4>1, <4>2
    <3>2. CASE req[s].decision # "enrolled"
      <4>1. req[s].decision \in {"rejected", "withdrawn"}
        BY <2>6, <3>2 DEF Deciding, Decisions
      <4>2. /\ row'[v].status \in {"REJECTED", "WITHDRAWN"}
            /\ row'[v].enrolledAt = r.enrolledAt /\ row'[v].approvedById = r.approvedById
        BY <2>2, <2>6, <4>1 DEF Write, Decided, Row, to
      <4>3. r.status \in {"APPLIED", "ENROLLED"}
        BY <2>6, <4>1 DEF from
      <4> QED BY <1>0, <1>1, <4>2, <4>3
    <3> QED BY <3>1, <3>2
  <2>7. CASE /\ req[s] \in Completing /\ r.status \in Read /\ r.status = req[s].seen
             /\ Write(v, Completed(r, req[s]))
             /\ UNCHANGED approvals
    <3> DEFINE c == req[s]
    <3>1. /\ row'[v].status = "COMPLETED" /\ row'[v].completedAt = now
          /\ row'[v].enrolledAt = IF c.enrolledAt # Null THEN c.enrolledAt ELSE now
          /\ row'[v].approvedById = IF c.approvedById # NoOne THEN c.approvedById ELSE c.by
      BY <2>2, <2>7 DEF Write, Completed, Row
    <3>2. c.op = "complete"
      BY <2>7, OpTells
    <3>3. CASE r.status = "APPLIED"
      <4>1. c.enrolledAt = Null
        BY <2>7, <3>2, <3>3 DEF Approved, ReadIsReal
      <4> QED BY <3>1, <4>1
    <3>4. CASE r.status = "ENROLLED"
      <4>1. <<c.enrolledAt, c.approvedById>> \in approvals[v]
        BY <2>1, <2>7, <3>2, <3>4 DEF Approved, ReadIsReal
      <4>2. c.enrolledAt \in Times /\ c.approvedById \in Managers
        BY <2>3, <4>1
      <4>3. row'[v].enrolledAt = c.enrolledAt /\ row'[v].approvedById = c.approvedById
        BY <3>1, <4>2 DEF Times, Null
      <4> QED BY <1>1, <3>1, <4>1, <4>3
    <3> QED BY <2>7, <3>3, <3>4 DEF Read
  <2> QED BY <1>0, <1>4, <2>1, <2>4, <2>5, <2>6, <2>7, WriteForms
<1> QED BY <1>2, <1>3, <1>4, StepKinds, QuietKeeps

(* Both together survive every step.                                       *)
LEMMA StepApproved == Approved /\ [Next]_vars => Approved'
BY StepInv, StepReadIsReal, StepApprovalIsReal DEF Approved

(* The approval on record was given: by a decision to select, or by the    *)
(* completion itself.                                                      *)
THEOREM ApprovalsAreReal == Spec => []ApprovalIsReal
<1>1. Approved => ApprovalIsReal
  BY DEF Approved
<1> QED BY <1>1, InitApproved, StepApproved, PTL DEF Spec

------------------------------------------------------------------------------
(* Enrollments implements SignUps: each write is one move of one sign-up,  *)
(* the deletion is the deletion, and every other step is a stutter.        *)
LEMMA InitPromise == Init => Promise!Init
<1>1. NoRow.status = "NONE"
  BY DEF NoRow
<1> QED BY <1>1 DEF Init, Promise!Init

(* Every step of the handlers is a step of the promised life cycle or      *)
(* changes nothing of it.                                                  *)
LEMMA StepPromise ==
  ASSUME Inv, [Next]_vars
  PROVE  [Promise!Next]_<<[u \in Users |-> row[u].status], certificates>>
<1> DEFINE status == [u \in Users |-> row[u].status]
<1>1. CASE UNCHANGED <<row, certificates>>
  BY <1>1
<1>2. CASE DeleteOpportunity
  <2>1. [NoRow EXCEPT !.status = "GONE"].status = "GONE"
    BY DEF NoRow
  <2>2. status' = [u \in Users |-> "GONE"] /\ certificates' = certificates
    BY <1>2, <2>1 DEF DeleteOpportunity
  <2>3. Promise!Delete
    BY <2>2 DEF Promise!Delete
  <2> QED BY <2>3 DEF Promise!Next
<1>3. ASSUME NEW s \in Slots, Writing(s), ~UNCHANGED <<row, certificates>>
      PROVE  Promise!Next
  <2>0. PICK u \in Users : u = req[s].user
    BY <1>3, WriteForms
  <2> DEFINE r == row[u]
  <2>1. u \in Users /\ row \in [Users -> Row] /\ r \in Row
    BY <2>0 DEF Inv, TypeOK
  <2>2. ASSUME NEW new \in Row, Write(u, new)
        PROVE  status' = [status EXCEPT ![u] = new.status]
    BY <2>1, <2>2 DEF Write
  <2>3. /\ \A at \in Times : Signed(r, at).status = "APPLIED"
        /\ Withdrawn(r).status = "WITHDRAWN"
        /\ \A c \in Completing : Completed(r, c).status = "COMPLETED"
        /\ \A d \in Decisions, m \in Managers : Decided(r, d, m).status = to(d)
    BY <2>1 DEF Signed, Withdrawn, Completed, Decided, Row
  <2>4. CASE /\ req[s].op = "reopen" /\ r.status \in {"NONE", "REJECTED", "WITHDRAWN"}
             /\ Write(u, Signed(r, req[s].at))
             /\ UNCHANGED certificates
    <3>1. req[s].at \in Times
      BY <2>4, Serves DEF Inv, Reopening
    <3>2. Signed(r, req[s].at) \in Row
      BY <2>1, <3>1, RowType DEF Inv
    <3>3. status' = [status EXCEPT ![u] = "APPLIED"]
      BY <2>2, <2>3, <2>4, <3>1, <3>2
    <3>4. Promise!Apply(u)
      BY <2>1, <2>4, <3>3 DEF Promise!Apply, Promise!Move
    <3> QED BY <2>1, <3>4 DEF Promise!Next
  <2>5. CASE r.status \in Read /\ Write(u, Withdrawn(r)) /\ UNCHANGED certificates
    <3>1. Withdrawn(r) \in Row
      BY <2>1, RowType DEF Inv
    <3>2. status' = [status EXCEPT ![u] = "WITHDRAWN"]
      BY <2>2, <2>3, <2>5, <3>1
    <3>3. Promise!Withdraw(u)
      BY <2>1, <2>5, <3>2 DEF Promise!Withdraw, Promise!Move, Read
    <3> QED BY <2>1, <3>3 DEF Promise!Next
  <2>6. CASE /\ req[s] \in Deciding /\ r.status \in from(req[s].decision)
             /\ Write(u, Decided(r, req[s].decision, req[s].by))
             /\ UNCHANGED certificates
    <3> DEFINE d == req[s].decision
    <3>1. d \in Decisions /\ req[s].by \in Managers
      BY <2>6 DEF Deciding
    <3>2. Decided(r, d, req[s].by) \in Row
      BY <2>1, <3>1, RowType DEF Inv
    <3>3. status' = [status EXCEPT ![u] = to(d)]
      BY <2>2, <2>3, <2>6, <3>1, <3>2
    <3>4. \/ d = "enrolled" /\ Promise!Select(u)
          \/ d = "rejected" /\ Promise!Reject(u)
          \/ d = "withdrawn" /\ Promise!Withdraw(u)
      BY <2>1, <2>6, <3>1, <3>3 DEF Decisions, to, from, Promise!Select, Promise!Reject,
         Promise!Withdraw, Promise!Move
    <3> QED BY <2>1, <3>4 DEF Promise!Next
  <2>7. CASE /\ req[s] \in Completing /\ r.status \in Read
             /\ Write(u, Completed(r, req[s]))
             /\ certificates' = [certificates EXCEPT ![u] = @ + 1]
    <3>1. Completed(r, req[s]) \in Row
      BY <2>1, <2>7, RowType DEF Inv
    <3>2. status' = [status EXCEPT ![u] = "COMPLETED"]
      BY <2>2, <2>3, <2>7, <3>1
    <3>3. Promise!Complete(u)
      BY <2>1, <2>7, <3>2 DEF Promise!Complete, Read
    <3> QED BY <2>1, <3>3 DEF Promise!Next
  <2> QED BY <1>3, <2>0, <2>4, <2>5, <2>6, <2>7, WriteForms
<1> QED BY <1>1, <1>2, <1>3, StepKinds, QuietKeeps

(* To its applicants the program is an atomic life cycle of sign-ups.      *)
THEOREM KeepsThePromise == Spec => ImplementsSignUps
<1>1. Inv /\ [Next]_vars => [Promise!Next]_<<[u \in Users |-> row[u].status], certificates>>
  BY StepPromise
<1> QED BY <1>1, InitPromise, Invariance, PTL DEF Spec, ImplementsSignUps, Promise!Spec

=============================================================================
