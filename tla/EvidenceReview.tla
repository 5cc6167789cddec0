---------------------------- MODULE EvidenceReview ----------------------------
(***************************************************************************)
(* Activity evidence of one project of a program, its review, and the      *)
(* verified records that rest on it: src/backend/src/modules/evidence/     *)
(* evidence.routes.ts, modules/programs/projectVerification.routes.ts and  *)
(* services/verification/verifiedRecords.ts.                               *)
(*                                                                         *)
(* A request occupies a slot from what it reads to what it writes.  The    *)
(* writes of one request are one transaction, whose first write claims a   *)
(* row and keeps it locked, or one statement: one step.  (Issuing          *)
(* contributions reads the evidence just before it commits; that a         *)
(* revocation commits in between is left out, no property looks at it.)    *)
(***************************************************************************)
EXTENDS Naturals, FiniteSets

CONSTANTS
  Evidence,       \* evidence items
  Members,        \* students of the team
  Author,         \* the member who writes each item
  Verifications,  \* ids a project verification may get
  Slots,          \* requests the server may be serving at a time
  MaxEdits,       \* bound: how often the content of an item changes
  MaxIssues       \* bound: contribution records issued to a member

ASSUME AuthorAssumption == Author \in [Evidence -> Members]
ASSUME BoundsAssumption == MaxEdits \in Nat /\ MaxIssues \in Nat

VARIABLES
  evidence,      \* status, content and files of each item
  trail,         \* the last entry of the review trail of each item
  record,        \* the verified record of each item
  verification,  \* the project verifications
  contribution,  \* the contribution record linked to a verification and member
  setAside,      \* contribution records unlinked from their verification
  program,       \* status of the program
  req            \* what each slot is serving

vars == <<evidence, trail, record, verification, contribution, setAside, program, req>>
items == <<evidence, trail, record>>
outcomes == <<verification, contribution, setAside>>

Item == [status : {"NONE", "DRAFT", "SUBMITTED", "APPROVED", "REJECTED", "DELETED"},
         content : 0..MaxEdits, files : BOOLEAN]
TrailEntry == {"NONE", "SUBMITTED", "RESUBMITTED", "APPROVED", "REJECTED", "REVOKED"}
RecordStatus == {"NONE", "VERIFIED", "REVOKED"}
ProgramStatus == {"ACTIVE", "COMPLETED", "ARCHIVED"}

Free == [op |-> "none"]
Serve(s, r) == req' = [req EXCEPT ![s] = r]
Answer(s) == Serve(s, Free)
EDITABLE_STATUSES == {"DRAFT", "REJECTED"}
Exists(e) == evidence[e].status \notin {"NONE", "DELETED"}

------------------------------------------------------------------------------
(* POST /projects/:projectId/evidence: a draft, with files or without.     *)
CreateDraft(e, files) ==
  /\ evidence[e].status = "NONE"
  /\ program = "ACTIVE"
  /\ evidence' = [evidence EXCEPT ![e] = [status |-> "DRAFT", content |-> 0, files |-> files]]
  /\ UNCHANGED <<trail, record, outcomes, program, req>>

(* What the author may do to an item is decided on what is read here.      *)
Editing == {"edit", "upload", "remove file"}
EditRead(s, e, op) ==
  /\ req[s] = Free
  /\ evidence[e].status \in EDITABLE_STATUSES
  /\ op = "upload" => program = "ACTIVE"
  /\ op = "remove file" => evidence[e].files
  /\ evidence[e].content < MaxEdits
  /\ Serve(s, [op |-> op, item |-> e])
  /\ UNCHANGED <<items, outcomes, program>>

(* PATCH /:evidenceId updates by id; POST /:evidenceId/files adds the rows *)
(* once every file is stored; DELETE /:evidenceId/files/:fileId removes    *)
(* one.  None of them looks at the status again.                           *)
EditWrite(s) ==
  /\ req[s].op \in Editing
  /\ LET e == req[s].item
     IN  IF Exists(e) /\ evidence[e].content < MaxEdits
         THEN evidence' = [evidence EXCEPT
                ![e].content = @ + 1,
                ![e].files = CASE req[s].op = "edit" -> @
                               [] req[s].op = "upload" -> TRUE
                               [] req[s].op = "remove file" -> FALSE]
         ELSE UNCHANGED evidence
  /\ Answer(s)
  /\ UNCHANGED <<trail, record, outcomes, program>>

(* DELETE /:evidenceId: read as a draft, deleted by its id; the review     *)
(* trail restricts the deletion of its item.                               *)
DeleteRead(s, e) ==
  /\ req[s] = Free
  /\ evidence[e].status = "DRAFT"
  /\ Serve(s, [op |-> "delete", item |-> e])
  /\ UNCHANGED <<items, outcomes, program>>

(* Mutant: the trail goes with its item, which is deleted all the same.    *)
DeleteWithTrail(s) ==
  /\ req[s].op = "delete"
  /\ evidence' = [evidence EXCEPT ![req[s].item].status = "DELETED"]
  /\ Answer(s)
  /\ UNCHANGED <<trail, record, outcomes, program>>

DeleteWrite(s) ==
  /\ req[s].op = "delete"
  /\ evidence' = IF trail[req[s].item] = "NONE"
                 THEN [evidence EXCEPT ![req[s].item].status = "DELETED"] ELSE evidence
  /\ Answer(s)
  /\ UNCHANGED <<trail, record, outcomes, program>>

(* POST /:evidenceId/submit.                                               *)
SubmitRead(s, e) ==
  /\ req[s] = Free
  /\ evidence[e].status \in EDITABLE_STATUSES
  /\ evidence[e].files
  /\ program = "ACTIVE"
  /\ Serve(s, [op |-> "submit", item |-> e, seen |-> evidence[e].status])
  /\ UNCHANGED <<items, outcomes, program>>

Submission(seen) == IF seen = "REJECTED" THEN "RESUBMITTED" ELSE "SUBMITTED"

(* Mutant: submitted by its id, whatever happened since it was read.       *)
SubmitById(s) ==
  /\ req[s].op = "submit"
  /\ LET e == req[s].item
     IN  IF Exists(e)
         THEN /\ evidence' = [evidence EXCEPT ![e].status = "SUBMITTED"]
              /\ trail' = [trail EXCEPT ![e] = Submission(req[s].seen)]
         ELSE UNCHANGED <<evidence, trail>>
  /\ Answer(s)
  /\ UNCHANGED <<record, outcomes, program>>

SubmitWrite(s) ==
  /\ req[s].op = "submit"
  /\ LET e == req[s].item
     IN  IF evidence[e].status = req[s].seen
         THEN /\ evidence' = [evidence EXCEPT ![e].status = "SUBMITTED"]
              /\ trail' = [trail EXCEPT ![e] = Submission(req[s].seen)]
         ELSE UNCHANGED <<evidence, trail>>
  /\ Answer(s)
  /\ UNCHANGED <<record, outcomes, program>>

------------------------------------------------------------------------------
(* POST /:evidenceId/review by program staff.                              *)
ReviewRead(s, e, decision) ==
  /\ req[s] = Free
  /\ evidence[e].status = "SUBMITTED"
  /\ program # "ARCHIVED"
  /\ Serve(s, [op |-> "review", item |-> e, decision |-> decision])
  /\ UNCHANGED <<items, outcomes, program>>

Reviewed(e, decision) ==
  /\ evidence' = [evidence EXCEPT ![e].status = decision]
  /\ trail' = [trail EXCEPT ![e] = decision]
  /\ record' = IF decision = "APPROVED" THEN [record EXCEPT ![e] = "VERIFIED"] ELSE record

(* The claim, the trail, and the record issued (or issued again) with it.  *)
ReviewWrite(s) ==
  /\ req[s].op = "review"
  /\ IF evidence[req[s].item].status = "SUBMITTED"
     THEN Reviewed(req[s].item, req[s].decision)
     ELSE UNCHANGED items
  /\ Answer(s)
  /\ UNCHANGED <<outcomes, program>>

(* POST /:evidenceId/revoke.                                               *)
RevokeRead(s, e) ==
  /\ req[s] = Free
  /\ evidence[e].status = "APPROVED"
  /\ Serve(s, [op |-> "revoke", item |-> e])
  /\ UNCHANGED <<items, outcomes, program>>

(* Mutant: the record takes over the status the evidence goes back to.     *)
RevokeRejectsRecord(s) ==
  /\ req[s].op = "revoke"
  /\ LET e == req[s].item
     IN  IF evidence[e].status = "APPROVED"
         THEN /\ evidence' = [evidence EXCEPT ![e].status = "REJECTED"]
              /\ trail' = [trail EXCEPT ![e] = "REVOKED"]
              /\ record' = [record EXCEPT ![e] = "REJECTED"]
         ELSE UNCHANGED items
  /\ Answer(s)
  /\ UNCHANGED <<outcomes, program>>

RevokeWrite(s) ==
  /\ req[s].op = "revoke"
  /\ LET e == req[s].item
     IN  IF evidence[e].status = "APPROVED"
         THEN /\ evidence' = [evidence EXCEPT ![e].status = "REJECTED"]
              /\ trail' = [trail EXCEPT ![e] = "REVOKED"]
              /\ record' = [record EXCEPT ![e] = "REVOKED"]
         ELSE UNCHANGED items
  /\ Answer(s)
  /\ UNCHANGED <<outcomes, program>>

------------------------------------------------------------------------------
(* Approved evidence whose record counts (trustedRecordWhere).             *)
trusted(e) == evidence[e].status = "APPROVED" /\ record[e] = "VERIFIED"
hasEvidence(m) == \E e \in Evidence : Author[e] = m /\ trusted(e)

live == {v \in Verifications : verification[v] = "VERIFIED"}
verified(v) == {m \in Members : contribution[v][m].status = "VERIFIED"}
mayIssue(v, ms) == \A m \in ms : hasEvidence(m) /\ contribution[v][m].issue < MaxIssues

(* Contribution records are told apart by how often one was issued before. *)
(* History: late are those issued while a revocation of the whole          *)
(* verification is under way, or after one.                                *)
NoContribution == [status |-> "NONE", issue |-> 0, late |-> FALSE]
revoking(v) ==
  \/ verification[v] = "REVOKED"
  \/ \E s \in Slots : req[s].op = "revoke verification" /\ req[s].of = v /\ req[s].whole
Issued(v, m) ==
  [status |-> "VERIFIED", issue |-> contribution[v][m].issue + 1, late |-> revoking(v)]

(* POST /verification: an outcome is signed off once some evidence is      *)
(* approved, with the members staff select.                                *)
VerifyRead(s, ms) ==
  /\ req[s] = Free
  /\ ms # {}
  /\ program # "ARCHIVED"
  /\ \E e \in Evidence : trusted(e)
  /\ Serve(s, [op |-> "verify", members |-> ms])
  /\ UNCHANGED <<items, outcomes, program>>

(* In the transaction: the INSERT fails when a verified one exists, and    *)
(* every member needs approved evidence of their own.                      *)
VerifyWrite(s, v) ==
  /\ req[s].op = "verify"
  /\ verification[v] = "NONE"
  /\ LET ms == req[s].members
     IN  IF live = {} /\ mayIssue(v, ms)
         THEN /\ verification' = [verification EXCEPT ![v] = "VERIFIED"]
              /\ contribution' = [contribution EXCEPT ![v] =
                    [m \in Members |-> IF m \in ms THEN Issued(v, m) ELSE @[m]]]
         ELSE UNCHANGED <<verification, contribution>>
  /\ Answer(s)
  /\ UNCHANGED <<items, setAside, program>>

(* POST /verify-members: more members under the verification read as live. *)
VerifyMembersRead(s, v, ms) ==
  /\ req[s] = Free
  /\ ms # {}
  /\ program # "ARCHIVED"
  /\ v \in live
  /\ ms \cap verified(v) = {}
  /\ Serve(s, [op |-> "verify members", of |-> v, members |-> ms])
  /\ UNCHANGED <<items, outcomes, program>>

(* Mutant: every record of the members steps aside.                        *)
StepAsideAll(v, ms) == {m \in ms : contribution[v][m].status # "NONE"}

(* Revoked records step aside for their replacement: (verification, user)  *)
(* is a unique key, and the INSERT fails on one that is verified.          *)
StepAside(v, ms) == {m \in ms : contribution[v][m].status = "REVOKED"}

VerifyMembersWrite(s) ==
  /\ req[s].op = "verify members"
  /\ LET v == req[s].of
         ms == req[s].members
         aside == StepAside(v, ms)
     IN  IF mayIssue(v, ms) /\ \A m \in ms \ aside : contribution[v][m].status = "NONE"
         THEN /\ setAside' = setAside \cup
                    {[of |-> v, member |-> m, issue |-> contribution[v][m].issue,
                      status |-> contribution[v][m].status] : m \in aside}
              /\ contribution' = [contribution EXCEPT ![v] =
                    [m \in Members |-> IF m \in ms THEN Issued(v, m) ELSE @[m]]]
         ELSE UNCHANGED <<contribution, setAside>>
  /\ Answer(s)
  /\ UNCHANGED <<items, verification, program>>

(* POST /revoke-verification: of one member, or of the project with the    *)
(* records that are verified when it is read.                              *)
RevokeVerificationRead(s, v, ms, whole) ==
  /\ req[s] = Free
  /\ v \in live
  /\ IF whole THEN ms = verified(v) ELSE Cardinality(ms) = 1 /\ ms \subseteq verified(v)
  /\ Serve(s, [op |-> "revoke verification", of |-> v, whole |-> whole,
               records |-> {<<m, contribution[v][m].issue>> : m \in ms}])
  /\ UNCHANGED <<items, outcomes, program>>

(* Mutant: a whole verification is revoked without its records.            *)
RevokeWithoutRecords(s) ==
  /\ req[s].op = "revoke verification"
  /\ LET v == req[s].of
     IN  /\ contribution' = [contribution EXCEPT ![v] =
               [m \in Members |-> IF <<m, @[m].issue>> \in req[s].records /\ ~req[s].whole
                                  THEN [@[m] EXCEPT !.status = "REVOKED"] ELSE @[m]]]
         /\ verification' = IF req[s].whole THEN [verification EXCEPT ![v] = "REVOKED"]
                            ELSE verification
  /\ Answer(s)
  /\ UNCHANGED <<items, setAside, program>>

(* Every record is revoked by its id unless it is revoked already, the     *)
(* verification whatever its status is by now.                             *)
RevokeVerificationWrite(s) ==
  /\ req[s].op = "revoke verification"
  /\ LET v == req[s].of
     IN  /\ contribution' = [contribution EXCEPT ![v] =
               [m \in Members |-> IF <<m, @[m].issue>> \in req[s].records
                                  THEN [@[m] EXCEPT !.status = "REVOKED"] ELSE @[m]]]
         /\ verification' = IF req[s].whole THEN [verification EXCEPT ![v] = "REVOKED"]
                            ELSE verification
  /\ Answer(s)
  /\ UNCHANGED <<items, setAside, program>>

------------------------------------------------------------------------------
(* Staff end, reopen or archive the program.                               *)
SetProgramStatus(status) ==
  /\ program # status
  /\ program' = status
  /\ UNCHANGED <<items, outcomes, req>>

Init ==
  /\ evidence = [e \in Evidence |-> [status |-> "NONE", content |-> 0, files |-> FALSE]]
  /\ trail = [e \in Evidence |-> "NONE"]
  /\ record = [e \in Evidence |-> "NONE"]
  /\ verification = [v \in Verifications |-> "NONE"]
  /\ contribution = [v \in Verifications |-> [m \in Members |-> NoContribution]]
  /\ setAside = {}
  /\ program = "ACTIVE"
  /\ req = [s \in Slots |-> Free]

EvidenceRequest(s) ==
  \/ \E e \in Evidence : \/ DeleteRead(s, e) \/ SubmitRead(s, e) \/ RevokeRead(s, e)
                         \/ \E op \in Editing : EditRead(s, e, op)
                         \/ \E d \in {"APPROVED", "REJECTED"} : ReviewRead(s, e, d)
  \/ EditWrite(s) \/ DeleteWrite(s) \/ SubmitWrite(s) \/ ReviewWrite(s) \/ RevokeWrite(s)

VerificationRequest(s) ==
  \/ \E ms \in SUBSET Members :
       \/ VerifyRead(s, ms)
       \/ \E v \in Verifications :
            \/ VerifyMembersRead(s, v, ms)
            \/ \E whole \in BOOLEAN : RevokeVerificationRead(s, v, ms, whole)
  \/ \E v \in Verifications : VerifyWrite(s, v)
  \/ VerifyMembersWrite(s)
  \/ RevokeVerificationWrite(s)

Next ==
  \/ \E e \in Evidence, files \in BOOLEAN : CreateDraft(e, files)
  \/ \E s \in Slots : EvidenceRequest(s) \/ VerificationRequest(s)
  \/ \E status \in ProgramStatus : SetProgramStatus(status)

Spec == Init /\ [][Next]_vars

------------------------------------------------------------------------------
(* What each slot may be serving.                                          *)
OnItem == [op : Editing \cup {"delete", "revoke"}, item : Evidence]
Submitting == [op : {"submit"}, item : Evidence, seen : EDITABLE_STATUSES]
Reviewing == [op : {"review"}, item : Evidence, decision : {"APPROVED", "REJECTED"}]
Verifying == [op : {"verify"}, members : SUBSET Members]
VerifyingMembers == [op : {"verify members"}, of : Verifications, members : SUBSET Members]
Revoking == [op : {"revoke verification"}, of : Verifications, whole : BOOLEAN,
             records : SUBSET (Members \X (1..MaxIssues))]
Request ==
  {Free} \cup OnItem \cup Submitting \cup Reviewing \cup Verifying \cup VerifyingMembers \cup Revoking

Contribution == [status : RecordStatus, issue : 0..MaxIssues, late : BOOLEAN]
Aside == [of : Verifications, member : Members, issue : 1..MaxIssues, status : RecordStatus]

(* Every variable stays in its range.                                      *)
TypeOK ==
  /\ evidence \in [Evidence -> Item]
  /\ trail \in [Evidence -> TrailEntry]
  /\ record \in [Evidence -> RecordStatus]
  /\ verification \in [Verifications -> RecordStatus]
  /\ contribution \in [Verifications -> [Members -> Contribution]]
  /\ setAside \subseteq Aside
  /\ program \in ProgramStatus
  /\ req \in [Slots -> Request]

(* Evidence stands as approved exactly while its verified record counts,   *)
(* whatever reviews, revocations and submissions of it run at once         *)
(* (issueVerifiedRecord: "Must run inside the same transaction"), and what *)
(* was handed in once is never deleted (evidence.routes.ts:300).           *)
ApprovedMeansVerified ==
  \A e \in Evidence :
    /\ evidence[e].status = "APPROVED" <=> record[e] = "VERIFIED"
    /\ trail[e] # "NONE" => Exists(e)

(* The review trail of an item accounts for its status: a reader of the    *)
(* trail sees submission and decision alternate, and a revocation only     *)
(* after an approval, however requests race.                               *)
After(entry) == CASE entry = "NONE" -> {"SUBMITTED"}
                  [] entry \in {"SUBMITTED", "RESUBMITTED"} -> {"APPROVED", "REJECTED"}
                  [] entry = "APPROVED" -> {"REVOKED"}
                  [] entry \in {"REJECTED", "REVOKED"} -> {"RESUBMITTED"}
TrailAlternates ==
  [][\A e \in Evidence : trail'[e] # trail[e] => trail'[e] \in After(trail[e])]_vars

(* A member has at most one contribution record that counts under one      *)
(* verification of the project, the ones that were set aside included:     *)
(* verifying and revoking members at once never leaves two.                *)
OneContribution ==
  \A v \in Verifications, m \in Members :
    LET aside == {x \in setAside : x.of = v /\ x.member = m /\ x.status = "VERIFIED"}
    IN  /\ Cardinality(aside) <= 1
        /\ aside # {} => m \notin verified(v)

(* A revocation of a whole verification takes all of its records: only     *)
(* what is issued while the revocation is under way, or afterwards on the  *)
(* strength of an older read, still counts under a revoked verification,   *)
(* whatever members are verified, revoked and set aside meanwhile (the     *)
(* comment of POST /revoke-verification says "with all its records").      *)
RevocationTakesAll ==
  \A v \in Verifications : verification[v] = "REVOKED" =>
    \A m \in verified(v) : contribution[v][m].late
=============================================================================
