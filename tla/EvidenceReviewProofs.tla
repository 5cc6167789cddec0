------------------------ MODULE EvidenceReviewProofs ------------------------
(***************************************************************************)
(* Theorems about EvidenceReview for any number of items, members,         *)
(* verifications and requests.                                             *)
(***************************************************************************)
EXTENDS EvidenceReview, FiniteSetTheorems, TLAPS

USE AuthorAssumption, BoundsAssumption

(* The operation of a slot says what kind of record it holds.              *)
LEMMA OpTells ==
  /\ Free.op = "none"
  /\ \A r \in OnItem : r.op \in {"edit", "upload", "remove file", "delete", "revoke"}
  /\ \A r \in Submitting : r.op = "submit"
  /\ \A r \in Reviewing : r.op = "review"
  /\ \A r \in Verifying : r.op = "verify"
  /\ \A r \in VerifyingMembers : r.op = "verify members"
  /\ \A r \in Revoking : r.op = "revoke verification"
BY DEF Free, OnItem, Submitting, Reviewing, Verifying, VerifyingMembers, Revoking, Editing

(* The operation of a request tells what else it carries.                  *)
LEMMA Serves ==
  ASSUME TypeOK, NEW s \in Slots
  PROVE  /\ req[s].op \in Editing \cup {"delete", "revoke"} => req[s] \in OnItem
         /\ req[s].op = "submit" => req[s] \in Submitting
         /\ req[s].op = "review" => req[s] \in Reviewing
         /\ req[s].op = "verify" => req[s] \in Verifying
         /\ req[s].op = "verify members" => req[s] \in VerifyingMembers
         /\ req[s].op = "revoke verification" => req[s] \in Revoking
<1>1. req[s] \in Request
  BY DEF TypeOK
<1> QED BY <1>1, OpTells DEF Request, Editing

(* Answering a request or moving it on keeps the slots well-typed.         *)
LEMMA ServeType ==
  ASSUME TypeOK, NEW s \in Slots, NEW r \in Request, Serve(s, r)
  PROVE  req' \in [Slots -> Request]
BY DEF TypeOK, Serve

(* Answering leaves a request table behind.                                *)
LEMMA AnswerType ==
  ASSUME TypeOK, NEW s \in Slots, Answer(s)
  PROVE  req' \in [Slots -> Request]
<1>1. Free \in Request
  BY DEF Request
<1> QED BY <1>1, ServeType DEF Answer

------------------------------------------------------------------------------
(* What the review trail of an item says of its status.                    *)
TrailOf(status) ==
  CASE status \in {"NONE", "DRAFT", "DELETED"} -> {"NONE"}
    [] status = "SUBMITTED" -> {"SUBMITTED", "RESUBMITTED"}
    [] status = "APPROVED" -> {"APPROVED"}
    [] status = "REJECTED" -> {"REJECTED", "REVOKED"}

TrailTells == \A e \in Evidence : trail[e] \in TrailOf(evidence[e].status)

(* A contribution record that was issued has a number, and the ones that   *)
(* stepped aside were revoked.                                             *)
Numbered ==
  \A v \in Verifications, m \in Members :
    contribution[v][m].status # "NONE" => contribution[v][m].issue >= 1
AsideRevoked == \A x \in setAside : x.status = "REVOKED"

Inv == TypeOK /\ Numbered /\ AsideRevoked /\ TrailTells /\ ApprovedMeansVerified

(* The steps of a slot that only read.                                     *)
Reading(s) ==
  \/ \E e \in Evidence : \/ DeleteRead(s, e) \/ SubmitRead(s, e) \/ RevokeRead(s, e)
                         \/ \E op \in Editing : EditRead(s, e, op)
                         \/ \E d \in {"APPROVED", "REJECTED"} : ReviewRead(s, e, d)
  \/ \E ms \in SUBSET Members :
       \/ VerifyRead(s, ms)
       \/ \E v \in Verifications :
            \/ VerifyMembersRead(s, v, ms)
            \/ \E whole \in BOOLEAN : RevokeVerificationRead(s, v, ms, whole)

(* A request that reads changes no row.                                    *)
LEMMA ReadingKeeps ==
  ASSUME NEW s \in Slots, Reading(s)
  PROVE  UNCHANGED <<items, outcomes, program>>
BY DEF Reading, DeleteRead, SubmitRead, RevokeRead, EditRead, ReviewRead, VerifyRead,
       VerifyMembersRead, RevokeVerificationRead

(* What it reads is well-typed.                                            *)
LEMMA ReadingType ==
  ASSUME TypeOK, Numbered, NEW s \in Slots, Reading(s)
  PROVE  req' \in [Slots -> Request]
<1>1. ASSUME NEW e \in Evidence, DeleteRead(s, e)
      PROVE  req' \in [Slots -> Request]
  <2>1. [op |-> "delete", item |-> e] \in Request
    BY DEF Request, OnItem
  <2> QED BY <1>1, <2>1, ServeType DEF DeleteRead
<1>2. ASSUME NEW e \in Evidence, SubmitRead(s, e)
      PROVE  req' \in [Slots -> Request]
  <2>1. [op |-> "submit", item |-> e, seen |-> evidence[e].status] \in Request
    BY <1>2 DEF Request, Submitting, SubmitRead
  <2> QED BY <1>2, <2>1, ServeType DEF SubmitRead
<1>3. ASSUME NEW e \in Evidence, RevokeRead(s, e)
      PROVE  req' \in [Slots -> Request]
  <2>1. [op |-> "revoke", item |-> e] \in Request
    BY DEF Request, OnItem
  <2> QED BY <1>3, <2>1, ServeType DEF RevokeRead
<1>4. ASSUME NEW e \in Evidence, NEW op \in Editing, EditRead(s, e, op)
      PROVE  req' \in [Slots -> Request]
  <2>1. [op |-> op, item |-> e] \in Request
    BY DEF Request, OnItem
  <2> QED BY <1>4, <2>1, ServeType DEF EditRead
<1>5. ASSUME NEW e \in Evidence, NEW d \in {"APPROVED", "REJECTED"}, ReviewRead(s, e, d)
      PROVE  req' \in [Slots -> Request]
  <2>1. [op |-> "review", item |-> e, decision |-> d] \in Request
    BY DEF Request, Reviewing
  <2> QED BY <1>5, <2>1, ServeType DEF ReviewRead
<1>6. ASSUME NEW ms \in SUBSET Members, VerifyRead(s, ms)
      PROVE  req' \in [Slots -> Request]
  <2>1. [op |-> "verify", members |-> ms] \in Request
    BY DEF Request, Verifying
  <2> QED BY <1>6, <2>1, ServeType DEF VerifyRead
<1>7. ASSUME NEW ms \in SUBSET Members, NEW v \in Verifications, VerifyMembersRead(s, v, ms)
      PROVE  req' \in [Slots -> Request]
  <2>1. [op |-> "verify members", of |-> v, members |-> ms] \in Request
    BY DEF Request, VerifyingMembers
  <2> QED BY <1>7, <2>1, ServeType DEF VerifyMembersRead
<1>8. ASSUME NEW ms \in SUBSET Members, NEW v \in Verifications, NEW whole \in BOOLEAN,
             RevokeVerificationRead(s, v, ms, whole)
      PROVE  req' \in [Slots -> Request]
  <2> DEFINE records == {<<m, contribution[v][m].issue>> : m \in ms}
  <2>1. ms \subseteq verified(v)
    BY <1>8 DEF RevokeVerificationRead
  <2>2. \A m \in ms : contribution[v][m] \in Contribution /\ contribution[v][m].issue >= 1
    BY <2>1 DEF TypeOK, Numbered, verified
  <2>3. \A m \in ms : contribution[v][m].issue \in 1..MaxIssues
    BY <2>2 DEF Contribution
  <2>4. records \in SUBSET (Members \X (1..MaxIssues))
    BY <2>3
  <2>5. [op |-> "revoke verification", of |-> v, whole |-> whole, records |-> records] \in Request
    BY <2>4 DEF Request, Revoking
  <2> QED BY <1>8, <2>5, ServeType DEF RevokeVerificationRead
<1> QED BY <1>1, <1>2, <1>3, <1>4, <1>5, <1>6, <1>7, <1>8 DEF Reading

------------------------------------------------------------------------------
ItemWrite(s) == EditWrite(s) \/ DeleteWrite(s) \/ SubmitWrite(s) \/ ReviewWrite(s) \/ RevokeWrite(s)
OutcomeWrite(s) ==
  \/ \E v \in Verifications : VerifyWrite(s, v)
  \/ VerifyMembersWrite(s)
  \/ RevokeVerificationWrite(s)

(* The kinds of steps: a read, a write of one item, a write of outcomes,   *)
(* a new draft, a change of the program's status.                          *)
LEMMA StepKinds ==
  ASSUME [Next]_vars
  PROVE  \/ UNCHANGED vars
         \/ \E s \in Slots : Reading(s) \/ ItemWrite(s) \/ OutcomeWrite(s)
         \/ \E e \in Evidence, files \in BOOLEAN : CreateDraft(e, files)
         \/ \E status \in ProgramStatus : SetProgramStatus(status)
BY DEF Next, EvidenceRequest, VerificationRequest, Reading, ItemWrite, OutcomeWrite

(* One item is written: to a status, with an entry and a record.           *)
Changes(e, status, entry, rec) ==
  /\ \E new \in Item : new.status = status /\ evidence' = [evidence EXCEPT ![e] = new]
  /\ trail' = [trail EXCEPT ![e] = entry]
  /\ record' = [record EXCEPT ![e] = rec]

(* The ways an item may change, as a table of what it was and becomes.     *)
ItemForm(e) ==
  \/ Changes(e, evidence[e].status, trail[e], record[e])
  \/ trail[e] = "NONE" /\ Changes(e, "DELETED", trail[e], record[e])
  \/ evidence[e].status = "NONE" /\ Changes(e, "DRAFT", trail[e], record[e])
  \/ evidence[e].status = "DRAFT" /\ Changes(e, "SUBMITTED", "SUBMITTED", record[e])
  \/ evidence[e].status = "REJECTED" /\ Changes(e, "SUBMITTED", "RESUBMITTED", record[e])
  \/ evidence[e].status = "SUBMITTED" /\ Changes(e, "REJECTED", "REJECTED", record[e])
  \/ evidence[e].status = "SUBMITTED" /\ Changes(e, "APPROVED", "APPROVED", "VERIFIED")
  \/ evidence[e].status = "APPROVED" /\ Changes(e, "REJECTED", "REVOKED", "REVOKED")

(* Setting a status keeps an item an item.                                 *)
LEMMA ItemSet ==
  ASSUME TypeOK, NEW e \in Evidence
  PROVE  /\ evidence[e] \in Item
         /\ trail = [trail EXCEPT ![e] = trail[e]]
         /\ record = [record EXCEPT ![e] = record[e]]
         /\ \A status \in {"DRAFT", "SUBMITTED", "APPROVED", "REJECTED", "DELETED"} :
              /\ [evidence[e] EXCEPT !.status = status] \in Item
              /\ [evidence[e] EXCEPT !.status = status].status = status
              /\ [evidence EXCEPT ![e].status = status]
                   = [evidence EXCEPT ![e] = [evidence[e] EXCEPT !.status = status]]
BY DEF TypeOK, Item

(* A handler of evidence changes one item, in one of the few ways          *)
(* ItemForm names.                                                         *)
LEMMA ItemForms ==
  ASSUME TypeOK, NEW s \in Slots, ItemWrite(s)
  PROVE  /\ UNCHANGED <<outcomes, program>> /\ Answer(s)
         /\ UNCHANGED items \/ \E e \in Evidence : ItemForm(e)
<1> USE DEF items, outcomes
<1>1. CASE EditWrite(s)
  <2>1. PICK e \in Evidence : e = req[s].item
    BY <1>1, Serves DEF EditWrite, OnItem
  <2>2. CASE UNCHANGED evidence
    BY <1>1, <2>2 DEF EditWrite
  <2>3. CASE evidence' # evidence
    <3> DEFINE files == CASE req[s].op = "edit" -> evidence[e].files
                          [] req[s].op = "upload" -> TRUE
                          [] req[s].op = "remove file" -> FALSE
               new == [evidence[e] EXCEPT !.content = @ + 1, !.files = files]
    <3>1. evidence[e] \in Item /\ evidence \in [Evidence -> Item]
      BY ItemSet DEF TypeOK
    <3>2. files \in BOOLEAN
      BY <1>1, <3>1 DEF EditWrite, Editing, Item
    <3>3. evidence[e].content < MaxEdits
      BY <1>1, <2>1, <2>3 DEF EditWrite
    <3>4. new \in Item /\ new.status = evidence[e].status
      <4> HIDE DEF files
      <4>1. evidence[e].content + 1 \in 0..MaxEdits
        BY <3>1, <3>3 DEF Item
      <4> DEFINE mid == [evidence[e] EXCEPT !.content = @ + 1]
      <4>2. mid \in Item /\ mid.status = evidence[e].status
        BY <3>1, <4>1 DEF Item
      <4>3. new = [mid EXCEPT !.files = files]
        BY Zenon
      <4> HIDE DEF mid, new
      <4> QED BY <3>2, <4>2, <4>3 DEF Item
    <3>5. evidence' = [evidence EXCEPT ![e].content = @ + 1, ![e].files = files]
      BY <1>1, <2>1, <2>3 DEF EditWrite
    <3>6. evidence' = [evidence EXCEPT ![e] = new]
      <4> HIDE DEF files
      <4> QED BY <3>1, <3>5
    <3>7. Changes(e, evidence[e].status, trail[e], record[e])
      <4> HIDE DEF new
      <4> QED BY <1>1, <3>4, <3>6, ItemSet DEF EditWrite, Changes
    <3> QED BY <1>1, <3>7 DEF EditWrite, ItemForm
  <2> QED BY <2>2, <2>3
<1>2. CASE DeleteWrite(s)
  <2>1. PICK e \in Evidence : e = req[s].item
    BY <1>2, Serves DEF DeleteWrite, OnItem
  <2>2. \/ UNCHANGED evidence
        \/ trail[e] = "NONE" /\ evidence' = [evidence EXCEPT ![e].status = "DELETED"]
    BY <1>2, <2>1 DEF DeleteWrite
  <2>3. UNCHANGED evidence \/ ItemForm(e)
    BY <1>2, <2>2, ItemSet DEF DeleteWrite, ItemForm, Changes
  <2> QED BY <1>2, <2>3 DEF DeleteWrite
<1>3. CASE SubmitWrite(s)
  <2>1. req[s] \in Submitting
    BY <1>3, Serves DEF SubmitWrite
  <2>2. PICK e \in Evidence : e = req[s].item /\ req[s].seen \in {"DRAFT", "REJECTED"}
    BY <2>1 DEF Submitting, EDITABLE_STATUSES
  <2>3. UNCHANGED items \/ ItemForm(e)
    BY <1>3, <2>2, ItemSet DEF SubmitWrite, Submission, ItemForm, Changes
  <2> QED BY <1>3, <2>3 DEF SubmitWrite
<1>4. CASE ReviewWrite(s)
  <2>1. req[s] \in Reviewing
    BY <1>4, Serves DEF ReviewWrite
  <2>2. PICK e \in Evidence : e = req[s].item /\ req[s].decision \in {"APPROVED", "REJECTED"}
    BY <2>1 DEF Reviewing
  <2>3. CASE evidence[e].status # "SUBMITTED"
    BY <1>4, <2>2, <2>3 DEF ReviewWrite
  <2>4. CASE evidence[e].status = "SUBMITTED"
    <3>1. Reviewed(e, req[s].decision)
      BY <1>4, <2>2, <2>4 DEF ReviewWrite
    <3>2. CASE req[s].decision = "APPROVED"
      <4>1. Changes(e, "APPROVED", "APPROVED", "VERIFIED")
        BY <3>1, <3>2, ItemSet DEF Reviewed, Changes
      <4> QED BY <1>4, <2>4, <4>1 DEF ReviewWrite, ItemForm
    <3>3. CASE req[s].decision = "REJECTED"
      <4>1. Changes(e, "REJECTED", "REJECTED", record[e])
        BY <3>1, <3>3, ItemSet DEF Reviewed, Changes
      <4> QED BY <1>4, <2>4, <4>1 DEF ReviewWrite, ItemForm
    <3> QED BY <2>2, <3>2, <3>3
  <2> QED BY <2>3, <2>4
<1>5. CASE RevokeWrite(s)
  <2>1. PICK e \in Evidence : e = req[s].item
    BY <1>5, Serves DEF RevokeWrite, OnItem
  <2>2. UNCHANGED items \/ ItemForm(e)
    BY <1>5, <2>1, ItemSet DEF RevokeWrite, ItemForm, Changes
  <2> QED BY <1>5, <2>2 DEF RevokeWrite
<1> QED BY <1>1, <1>2, <1>3, <1>4, <1>5 DEF ItemWrite

(* A new draft is one of these ways.                                       *)
LEMMA DraftForm ==
  ASSUME TypeOK, NEW e \in Evidence, NEW files \in BOOLEAN, CreateDraft(e, files)
  PROVE  UNCHANGED <<outcomes, program, req>> /\ ItemForm(e)
<1> DEFINE new == [status |-> "DRAFT", content |-> 0, files |-> files]
<1>1. new \in Item /\ new.status = "DRAFT"
  BY DEF Item
<1>2. evidence[e].status = "NONE" /\ Changes(e, "DRAFT", trail[e], record[e])
  <2> HIDE DEF new
  <2>1. evidence' = [evidence EXCEPT ![e] = new] /\ UNCHANGED <<trail, record>>
    BY DEF CreateDraft, new
  <2>2. evidence[e].status = "NONE"
    BY DEF CreateDraft
  <2> QED BY <1>1, <2>1, <2>2, ItemSet DEF Changes
<1> QED BY <1>2 DEF CreateDraft, ItemForm

(* Whatever form a change has, the trail and the record still tell.        *)
LEMMA FormKeeps ==
  ASSUME Inv, NEW e \in Evidence, ItemForm(e)
  PROVE  /\ evidence' \in [Evidence -> Item]
         /\ trail' \in [Evidence -> TrailEntry]
         /\ record' \in [Evidence -> RecordStatus]
         /\ TrailTells' /\ ApprovedMeansVerified'
         /\ \A x \in Evidence : trail'[x] # trail[x] => trail'[x] \in After(trail[x])
<1>0. /\ evidence \in [Evidence -> Item] /\ trail \in [Evidence -> TrailEntry]
      /\ record \in [Evidence -> RecordStatus]
      /\ TrailTells /\ ApprovedMeansVerified
  BY DEF Inv, TypeOK
<1>1. PICK status, entry, rec :
        /\ Changes(e, status, entry, rec)
        /\ \/ status = evidence[e].status /\ entry = trail[e] /\ rec = record[e]
           \/ trail[e] = "NONE" /\ status = "DELETED" /\ entry = trail[e] /\ rec = record[e]
           \/ evidence[e].status = "NONE" /\ status = "DRAFT" /\ entry = trail[e] /\ rec = record[e]
           \/ evidence[e].status = "DRAFT" /\ status = "SUBMITTED" /\ entry = "SUBMITTED"
                /\ rec = record[e]
           \/ evidence[e].status = "REJECTED" /\ status = "SUBMITTED" /\ entry = "RESUBMITTED"
                /\ rec = record[e]
           \/ evidence[e].status = "SUBMITTED" /\ status = "REJECTED" /\ entry = "REJECTED"
                /\ rec = record[e]
           \/ evidence[e].status = "SUBMITTED" /\ status = "APPROVED" /\ entry = "APPROVED"
                /\ rec = "VERIFIED"
           \/ evidence[e].status = "APPROVED" /\ status = "REJECTED" /\ entry = "REVOKED"
                /\ rec = "REVOKED"
  BY DEF ItemForm
<1>2. PICK new \in Item : new.status = status /\ evidence' = [evidence EXCEPT ![e] = new]
  BY <1>1 DEF Changes
<1>3. /\ trail' = [trail EXCEPT ![e] = entry] /\ record' = [record EXCEPT ![e] = rec]
  BY <1>1 DEF Changes
<1>4. /\ evidence'[e].status = status /\ trail'[e] = entry /\ record'[e] = rec
      /\ \A x \in Evidence \ {e} :
           evidence'[x] = evidence[x] /\ trail'[x] = trail[x] /\ record'[x] = record[x]
  BY <1>0, <1>2, <1>3
<1>5. trail[e] \in TrailOf(evidence[e].status)
  BY <1>0 DEF TrailTells
<1>6. evidence[e].status = "APPROVED" <=> record[e] = "VERIFIED"
  BY <1>0 DEF ApprovedMeansVerified
<1>7. entry \in TrailEntry /\ rec \in RecordStatus
  BY <1>0, <1>1 DEF TrailEntry, RecordStatus
<1>8. entry \in TrailOf(status)
  BY <1>1, <1>5 DEF TrailOf
<1>9. TrailTells'
  BY <1>0, <1>4, <1>8 DEF TrailTells
<1>10. (status = "APPROVED" <=> rec = "VERIFIED") /\ (entry # "NONE" => status \notin {"NONE", "DELETED"})
  <2>1. trail[e] = "NONE" => evidence[e].status # "APPROVED"
    BY <1>5 DEF TrailOf
  <2>2. entry # "NONE" => status \notin {"NONE", "DELETED"}
    BY <1>8 DEF TrailOf
  <2> QED BY <1>1, <1>6, <2>1, <2>2
<1>11. ApprovedMeansVerified'
  BY <1>0, <1>4, <1>10 DEF ApprovedMeansVerified, Exists
<1>12. trail'[e] # trail[e] => trail'[e] \in After(trail[e])
  BY <1>1, <1>4, <1>5 DEF TrailOf, After
<1> QED BY <1>0, <1>2, <1>3, <1>4, <1>7, <1>9, <1>11, <1>12

------------------------------------------------------------------------------
(* One contribution is issued again, revoked, or left alone.               *)
ContributionForm(v, m) ==
  LET old == contribution[v][m]
      new == contribution'[v][m]
  IN  \/ new = old
      \/ new.status = "VERIFIED" /\ new.issue = old.issue + 1 /\ new \in Contribution
           /\ new.late = revoking(v)
      \/ new.status = "REVOKED" /\ new.issue = old.issue /\ new \in Contribution
           /\ old.issue >= 1

(* Issuing a contribution takes the next issue number.                     *)
LEMMA IssuedForm ==
  ASSUME TypeOK, NEW v \in Verifications, NEW m \in Members, contribution[v][m].issue < MaxIssues
  PROVE  /\ Issued(v, m) \in Contribution
         /\ Issued(v, m).status = "VERIFIED"
         /\ Issued(v, m).issue = contribution[v][m].issue + 1
         /\ Issued(v, m).late = revoking(v)
<1>1. contribution[v][m] \in Contribution
  BY DEF TypeOK
<1>2. contribution[v][m].issue + 1 \in 0..MaxIssues
  BY <1>1 DEF Contribution
<1>3. revoking(v) \in BOOLEAN
  BY DEF revoking
<1> QED BY <1>2, <1>3 DEF Issued, Contribution, RecordStatus

(* A handler of outcomes changes contributions only in the ways            *)
(* ContributionForm names.                                                 *)
LEMMA OutcomeForms ==
  ASSUME TypeOK, Numbered, AsideRevoked, NEW s \in Slots, OutcomeWrite(s)
  PROVE  /\ UNCHANGED <<items, program>> /\ Answer(s)
         /\ verification' \in [Verifications -> RecordStatus]
         /\ contribution' \in [Verifications -> [Members -> Contribution]]
         /\ \A v \in Verifications, m \in Members : ContributionForm(v, m)
         /\ setAside' \subseteq Aside /\ AsideRevoked'
<1> USE DEF items, outcomes
<1>0. /\ contribution \in [Verifications -> [Members -> Contribution]]
      /\ verification \in [Verifications -> RecordStatus]
      /\ setAside \subseteq Aside
  BY DEF TypeOK
<1>1. ASSUME NEW w \in Verifications, VerifyWrite(s, w)
      PROVE  /\ verification' \in [Verifications -> RecordStatus]
             /\ contribution' \in [Verifications -> [Members -> Contribution]]
             /\ \A v \in Verifications, m \in Members : ContributionForm(v, m)
  <2> DEFINE ms == req[s].members
  <2>1. ms \subseteq Members
    BY <1>1, Serves DEF VerifyWrite, Verifying
  <2>2. CASE UNCHANGED <<verification, contribution>>
    BY <1>0, <2>2 DEF ContributionForm
  <2>3. CASE /\ mayIssue(w, ms)
             /\ verification' = [verification EXCEPT ![w] = "VERIFIED"]
             /\ contribution' = [contribution EXCEPT ![w] =
                  [m \in Members |-> IF m \in ms THEN Issued(w, m) ELSE @[m]]]
    <3>1. \A m \in ms : /\ Issued(w, m) \in Contribution
                        /\ Issued(w, m).status = "VERIFIED"
                        /\ Issued(w, m).issue = contribution[w][m].issue + 1
                        /\ Issued(w, m).late = revoking(w)
      BY <2>1, <2>3, IssuedForm DEF mayIssue
    <3>2. verification' \in [Verifications -> RecordStatus]
      BY <1>0, <2>3 DEF RecordStatus
    <3>3. /\ contribution' \in [Verifications -> [Members -> Contribution]]
          /\ \A v \in Verifications, m \in Members :
               contribution'[v][m] = IF v = w /\ m \in ms THEN Issued(w, m) ELSE contribution[v][m]
      BY <1>0, <2>3, <3>1
    <3>4. \A v \in Verifications, m \in Members : ContributionForm(v, m)
      BY <3>1, <3>3 DEF ContributionForm
    <3> QED BY <3>2, <3>3, <3>4
  <2> QED BY <1>1, <2>2, <2>3 DEF VerifyWrite
<1>2. ASSUME VerifyMembersWrite(s)
      PROVE  /\ contribution' \in [Verifications -> [Members -> Contribution]]
             /\ \A v \in Verifications, m \in Members : ContributionForm(v, m)
             /\ setAside' \subseteq Aside /\ AsideRevoked'
  <2> DEFINE ms == req[s].members
  <2>0. PICK w \in Verifications : w = req[s].of
    BY <1>2, Serves DEF VerifyMembersWrite, VerifyingMembers
  <2>1. ms \subseteq Members
    BY <1>2, Serves DEF VerifyMembersWrite, VerifyingMembers
  <2>2. CASE UNCHANGED <<contribution, setAside>>
    BY <1>0, <2>2 DEF ContributionForm, AsideRevoked
  <2>3. CASE /\ mayIssue(w, ms)
             /\ setAside' = setAside \cup
                  {[of |-> w, member |-> m, issue |-> contribution[w][m].issue,
                    status |-> contribution[w][m].status] : m \in StepAside(w, ms)}
             /\ contribution' = [contribution EXCEPT ![w] =
                  [m \in Members |-> IF m \in ms THEN Issued(w, m) ELSE @[m]]]
    <3>1. \A m \in ms : /\ Issued(w, m) \in Contribution
                        /\ Issued(w, m).status = "VERIFIED"
                        /\ Issued(w, m).issue = contribution[w][m].issue + 1
                        /\ Issued(w, m).late = revoking(w)
      BY <2>1, <2>3, IssuedForm DEF mayIssue
    <3>2. /\ contribution' \in [Verifications -> [Members -> Contribution]]
          /\ \A v \in Verifications, m \in Members :
               contribution'[v][m] = IF v = w /\ m \in ms THEN Issued(w, m) ELSE contribution[v][m]
      BY <1>0, <2>3, <3>1
    <3>3. \A v \in Verifications, m \in Members : ContributionForm(v, m)
      BY <3>1, <3>2 DEF ContributionForm
    <3>4. ASSUME NEW m \in StepAside(w, ms)
          PROVE  [of |-> w, member |-> m, issue |-> contribution[w][m].issue,
                  status |-> contribution[w][m].status] \in Aside
                 /\ contribution[w][m].status = "REVOKED"
      <4>1. m \in Members /\ contribution[w][m].status = "REVOKED"
        BY <2>1 DEF StepAside
      <4>2. contribution[w][m] \in Contribution /\ contribution[w][m].issue >= 1
        BY <1>0, <4>1 DEF Numbered
      <4>3. contribution[w][m].issue \in 1..MaxIssues
        BY <4>2 DEF Contribution
      <4> QED BY <4>1, <4>3 DEF Aside, RecordStatus
    <3>5. setAside' \subseteq Aside
      BY <1>0, <2>3, <3>4
    <3>6. AsideRevoked'
      BY <2>3, <3>4 DEF AsideRevoked
    <3> QED BY <3>2, <3>3, <3>5, <3>6
  <2> QED BY <1>2, <2>0, <2>2, <2>3 DEF VerifyMembersWrite
<1>3. ASSUME RevokeVerificationWrite(s)
      PROVE  /\ verification' \in [Verifications -> RecordStatus]
             /\ contribution' \in [Verifications -> [Members -> Contribution]]
             /\ \A v \in Verifications, m \in Members : ContributionForm(v, m)
  <2>0. req[s] \in Revoking
    BY <1>3, Serves DEF RevokeVerificationWrite
  <2>1. PICK w \in Verifications : w = req[s].of
    BY <2>0 DEF Revoking
  <2> DEFINE hit(m) == <<m, contribution[w][m].issue>> \in req[s].records
             cut(m) == [contribution[w][m] EXCEPT !.status = "REVOKED"]
  <2>2. verification' \in [Verifications -> RecordStatus]
    BY <1>0, <1>3, <2>1 DEF RevokeVerificationWrite, RecordStatus
  <2>3. \A m \in Members :
          /\ cut(m) \in Contribution /\ cut(m).status = "REVOKED"
          /\ cut(m).issue = contribution[w][m].issue
    <3> TAKE m \in Members
    <3>1. contribution[w][m] \in Contribution
      BY <1>0
    <3> QED BY <3>1 DEF Contribution, RecordStatus
  <2>4. \A m \in Members : hit(m) => contribution[w][m].issue >= 1
    <3>1. req[s].records \subseteq Members \X (1..MaxIssues)
      BY <2>0 DEF Revoking
    <3>2. \A m \in Members : hit(m) => contribution[w][m].issue \in 1..MaxIssues
      BY <3>1
    <3> QED BY <3>2
  <2>5. contribution' = [contribution EXCEPT ![w] =
                           [m \in Members |-> IF hit(m) THEN cut(m) ELSE contribution[w][m]]]
    BY <1>0, <1>3, <2>1 DEF RevokeVerificationWrite
  <2> HIDE DEF hit, cut
  <2>6. /\ contribution' \in [Verifications -> [Members -> Contribution]]
        /\ \A v \in Verifications, m \in Members :
             contribution'[v][m] = IF v = w /\ hit(m) THEN cut(m) ELSE contribution[v][m]
    BY <1>0, <2>3, <2>5
  <2>7. \A v \in Verifications, m \in Members : ContributionForm(v, m)
    BY <2>3, <2>4, <2>6 DEF ContributionForm
  <2> QED BY <2>2, <2>6, <2>7
<1>4. AsideRevoked /\ setAside \subseteq Aside /\ verification \in [Verifications -> RecordStatus]
  BY <1>0
<1>5. setAside' = setAside => setAside' \subseteq Aside /\ AsideRevoked'
  BY <1>4 DEF AsideRevoked
<1>6. CASE \E v \in Verifications : VerifyWrite(s, v)
  BY <1>1, <1>5, <1>6 DEF VerifyWrite
<1>7. CASE VerifyMembersWrite(s)
  BY <1>2, <1>4, <1>7 DEF VerifyMembersWrite
<1>8. CASE RevokeVerificationWrite(s)
  BY <1>3, <1>5, <1>8 DEF RevokeVerificationWrite
<1> QED BY <1>6, <1>7, <1>8 DEF OutcomeWrite

------------------------------------------------------------------------------
(* The invariant holds at first.                                           *)
LEMMA InitInv == Init => Inv
<1> SUFFICES ASSUME Init PROVE Inv
  OBVIOUS
<1> DEFINE item == [status |-> "NONE", content |-> 0, files |-> FALSE]
<1>1. item \in Item /\ item.status = "NONE"
  BY DEF Item
<1>2. evidence = [e \in Evidence |-> item]
  BY DEF Init
<1>3. NoContribution \in Contribution /\ NoContribution.status = "NONE"
  BY DEF NoContribution, Contribution, RecordStatus
<1>4. contribution = [v \in Verifications |-> [m \in Members |-> NoContribution]]
  BY DEF Init
<1> HIDE DEF item
<1>5. TypeOK
  <2>1. req \in [Slots -> Request]
    BY DEF Init, Request
  <2> QED BY <1>1, <1>2, <1>3, <1>4, <2>1 DEF Init, TypeOK, TrailEntry, RecordStatus, ProgramStatus
<1>6. Numbered
  BY <1>3, <1>4 DEF Numbered
<1>7. AsideRevoked
  BY DEF Init, AsideRevoked
<1>8. TrailTells
  BY <1>1, <1>2 DEF Init, TrailTells, TrailOf
<1>9. ApprovedMeansVerified
  BY <1>1, <1>2 DEF Init, ApprovedMeansVerified
<1> QED BY <1>5, <1>6, <1>7, <1>8, <1>9 DEF Inv

(* Every step keeps the invariant.                                         *)
LEMMA StepInv == Inv /\ [Next]_vars => Inv'
<1> SUFFICES ASSUME Inv, [Next]_vars PROVE Inv'
  OBVIOUS
<1> USE DEF items, outcomes
<1>0. TypeOK /\ Numbered /\ AsideRevoked /\ TrailTells /\ ApprovedMeansVerified
  BY DEF Inv
<1>1. UNCHANGED outcomes => Numbered' /\ AsideRevoked'
  BY <1>0 DEF Numbered, AsideRevoked
<1>2. UNCHANGED items => TrailTells' /\ ApprovedMeansVerified'
  BY <1>0 DEF TrailTells, ApprovedMeansVerified, Exists
<1>3. CASE UNCHANGED vars
  <2>1. TypeOK'
    BY <1>0, <1>3 DEF vars, TypeOK
  <2> QED BY <1>1, <1>2, <1>3, <2>1 DEF vars, Inv
<1>4. ASSUME NEW s \in Slots, Reading(s)
      PROVE  Inv'
  <2>1. UNCHANGED <<items, outcomes, program>>
    BY <1>4, ReadingKeeps
  <2>2. TypeOK'
    BY <1>0, <1>4, <2>1, ReadingType DEF TypeOK
  <2> QED BY <1>1, <1>2, <2>1, <2>2 DEF Inv
<1>5. ASSUME NEW s \in Slots, ItemWrite(s)
      PROVE  Inv'
  <2>1. /\ UNCHANGED <<outcomes, program>> /\ Answer(s)
        /\ UNCHANGED items \/ \E e \in Evidence : ItemForm(e)
    BY <1>0, <1>5, ItemForms
  <2>2. /\ evidence' \in [Evidence -> Item]
        /\ trail' \in [Evidence -> TrailEntry]
        /\ record' \in [Evidence -> RecordStatus]
        /\ TrailTells' /\ ApprovedMeansVerified'
    BY <1>0, <1>2, <2>1, FormKeeps DEF TypeOK
  <2>3. TypeOK'
    BY <1>0, <2>1, <2>2, AnswerType DEF TypeOK
  <2> QED BY <1>1, <2>1, <2>2, <2>3 DEF Inv
<1>6. ASSUME NEW e \in Evidence, NEW files \in BOOLEAN, CreateDraft(e, files)
      PROVE  Inv'
  <2>1. UNCHANGED <<outcomes, program, req>> /\ ItemForm(e)
    BY <1>0, <1>6, DraftForm
  <2>2. /\ evidence' \in [Evidence -> Item]
        /\ trail' \in [Evidence -> TrailEntry]
        /\ record' \in [Evidence -> RecordStatus]
        /\ TrailTells' /\ ApprovedMeansVerified'
    BY <2>1, FormKeeps
  <2>3. TypeOK'
    BY <1>0, <2>1, <2>2 DEF TypeOK
  <2> QED BY <1>1, <2>1, <2>2, <2>3 DEF Inv
<1>7. ASSUME NEW s \in Slots, OutcomeWrite(s)
      PROVE  Inv'
  <2>1. /\ UNCHANGED <<items, program>> /\ Answer(s)
        /\ verification' \in [Verifications -> RecordStatus]
        /\ contribution' \in [Verifications -> [Members -> Contribution]]
        /\ \A v \in Verifications, m \in Members : ContributionForm(v, m)
        /\ setAside' \subseteq Aside /\ AsideRevoked'
    BY <1>0, <1>7, OutcomeForms
  <2>2. TypeOK'
    BY <1>0, <2>1, AnswerType DEF TypeOK
  <2>3. Numbered'
    <3>1. \A v \in Verifications, m \in Members :
            contribution[v][m] \in Contribution /\ contribution'[v][m] \in Contribution
      BY <1>0, <2>1 DEF TypeOK
    <3>2. \A v \in Verifications, m \in Members : contribution[v][m].issue \in Nat
      BY <3>1 DEF Contribution
    <3> QED BY <1>0, <2>1, <3>2 DEF Numbered, ContributionForm
  <2> QED BY <1>2, <2>1, <2>2, <2>3 DEF Inv
<1>8. ASSUME NEW status \in ProgramStatus, SetProgramStatus(status)
      PROVE  Inv'
  <2>1. UNCHANGED <<items, outcomes, req>> /\ program' \in ProgramStatus
    BY <1>8 DEF SetProgramStatus
  <2>2. TypeOK'
    BY <1>0, <2>1 DEF TypeOK
  <2> QED BY <1>1, <1>2, <2>1, <2>2 DEF Inv
<1> QED BY <1>3, <1>4, <1>5, <1>6, <1>7, <1>8, StepKinds

(* So it holds in every reachable state.                                   *)
LEMMA Invariance == Spec => []Inv
BY InitInv, StepInv, PTL DEF Spec

(* Every variable stays in its range, whatever requests run together.      *)
THEOREM TypeCorrect == Spec => []TypeOK
<1>1. Inv => TypeOK
  BY DEF Inv
<1> QED BY <1>1, Invariance, PTL

(* Evidence is approved exactly while its record counts, and what was      *)
(* handed in is never deleted.                                             *)
THEOREM ApprovalsAreRecords == Spec => []ApprovedMeansVerified
<1>1. Inv => ApprovedMeansVerified
  BY DEF Inv
<1> QED BY <1>1, Invariance, PTL

(* A member has one contribution that counts under a verification: none    *)
(* that stepped aside does.                                                *)
THEOREM ContributionsAreSingle == Spec => []OneContribution
<1>1. Inv => OneContribution
  <2> SUFFICES ASSUME Inv, NEW v \in Verifications, NEW m \in Members
               PROVE  LET aside == {x \in setAside :
                                      x.of = v /\ x.member = m /\ x.status = "VERIFIED"}
                      IN  Cardinality(aside) <= 1 /\ (aside # {} => m \notin verified(v))
    BY DEF OneContribution
  <2>1. {x \in setAside : x.of = v /\ x.member = m /\ x.status = "VERIFIED"} = {}
    BY DEF Inv, AsideRevoked
  <2> QED BY <2>1, FS_EmptySet
<1> QED BY <1>1, Invariance, PTL

(* The trail of an item alternates between submissions and decisions.      *)
THEOREM TrailIsInOrder == Spec => TrailAlternates
<1>1. Inv /\ [Next]_vars =>
        [\A e \in Evidence : trail'[e] # trail[e] => trail'[e] \in After(trail[e])]_vars
  <2> SUFFICES ASSUME Inv, [Next]_vars
               PROVE  \A e \in Evidence : trail'[e] # trail[e] => trail'[e] \in After(trail[e])
    OBVIOUS
  <2>1. UNCHANGED trail \/ \E e \in Evidence : ItemForm(e)
    BY StepKinds, ReadingKeeps, ItemForms, DraftForm, OutcomeForms
       DEF Inv, vars, items, SetProgramStatus
  <2> QED BY <2>1, FormKeeps
<1> QED BY <1>1, Invariance, PTL DEF Spec, TrailAlternates

------------------------------------------------------------------------------
(* What RevocationTakesAll needs: a request that is about to revoke a      *)
(* whole verification knows every record under it that counts, except      *)
(* those issued since it read them.                                        *)
Whole(s) == req[s].op = "revoke verification" /\ req[s].whole
Knows(s) ==
  LET v == req[s].of
  IN  /\ verification[v] # "NONE"
      /\ \A m \in verified(v) :
           contribution[v][m].late \/ <<m, contribution[v][m].issue>> \in req[s].records
TakesInv == RevocationTakesAll /\ \A s \in Slots : Whole(s) => Knows(s)

(* A handler of outcomes revokes a verification with all the records it    *)
(* knows of, or none.                                                      *)
LEMMA OutcomeStatus ==
  ASSUME TypeOK, NEW s \in Slots, OutcomeWrite(s), NEW v \in Verifications
  PROVE  /\ verification'[v] = "NONE" => verification[v] = "NONE"
         /\ \/ verification'[v] = "REVOKED" => verification[v] = "REVOKED"
            \/ /\ Whole(s) /\ req[s].of = v
               /\ \A m \in Members : <<m, contribution[v][m].issue>> \in req[s].records
                                       => contribution'[v][m].status = "REVOKED"
<1>0. /\ contribution \in [Verifications -> [Members -> Contribution]]
      /\ verification \in [Verifications -> RecordStatus]
  BY DEF TypeOK
<1>1. CASE UNCHANGED verification
  BY <1>1
<1>2. ASSUME NEW w \in Verifications, VerifyWrite(s, w), verification' # verification
      PROVE  verification' = [verification EXCEPT ![w] = "VERIFIED"] /\ verification[w] = "NONE"
  BY <1>2 DEF VerifyWrite
<1>3. ASSUME RevokeVerificationWrite(s), verification' # verification
      PROVE  /\ Whole(s) /\ verification' = [verification EXCEPT ![req[s].of] = "REVOKED"]
             /\ req[s].of \in Verifications
             /\ \A m \in Members : <<m, contribution[req[s].of][m].issue>> \in req[s].records
                                     => contribution'[req[s].of][m].status = "REVOKED"
  <2> DEFINE w == req[s].of
             cut(m) == [contribution[w][m] EXCEPT !.status = "REVOKED"]
  <2>1. w \in Verifications
    BY <1>3, Serves DEF RevokeVerificationWrite, Revoking
  <2>2. Whole(s) /\ verification' = [verification EXCEPT ![w] = "REVOKED"]
    BY <1>3 DEF RevokeVerificationWrite, Whole
  <2>3. \A m \in Members : cut(m).status = "REVOKED"
    <3> TAKE m \in Members
    <3>1. contribution[w][m] \in Contribution
      BY <1>0, <2>1
    <3> QED BY <3>1 DEF Contribution
  <2>4. contribution' = [contribution EXCEPT ![w] =
          [m \in Members |-> IF <<m, contribution[w][m].issue>> \in req[s].records
                             THEN cut(m) ELSE contribution[w][m]]]
    BY <1>0, <1>3, <2>1 DEF RevokeVerificationWrite
  <2> HIDE DEF cut
  <2>5. \A m \in Members : <<m, contribution[w][m].issue>> \in req[s].records
                             => contribution'[w][m] = cut(m)
    BY <1>0, <2>1, <2>4
  <2> QED BY <2>1, <2>2, <2>3, <2>5
<1>4. CASE verification' # verification
  <2>1. ~VerifyMembersWrite(s)
    BY <1>4 DEF VerifyMembersWrite
  <2>2. CASE \E w \in Verifications : VerifyWrite(s, w)
    BY <1>0, <1>2, <1>4, <2>2
  <2>3. CASE RevokeVerificationWrite(s)
    <3>1. CASE v = req[s].of
      BY <1>0, <1>3, <1>4, <2>3, <3>1
    <3>2. CASE v # req[s].of
      BY <1>0, <1>3, <1>4, <2>3, <3>2
    <3> QED BY <3>1, <3>2
  <2> QED BY <2>1, <2>2, <2>3 DEF OutcomeWrite
<1> QED BY <1>1, <1>4

(* Every step keeps what a revocation knows up to date, or is late.        *)
LEMMA StepTakesInv ==
  ASSUME Inv, TakesInv, [Next]_vars
  PROVE  TakesInv'
<1>0. /\ TypeOK /\ Numbered /\ AsideRevoked
      /\ contribution \in [Verifications -> [Members -> Contribution]]
      /\ req \in [Slots -> Request]
  BY DEF Inv, TypeOK
<1>1. ASSUME NEW s \in Slots, Whole(s) PROVE req[s].of \in Verifications
  BY <1>0, <1>1, Serves DEF Whole, Revoking
<1>2. ASSUME UNCHANGED outcomes,
             \A s \in Slots : Whole(s)' => (req'[s] = req[s]) \/ Knows(s)'
      PROVE  TakesInv'
  <2>1. RevocationTakesAll'
    BY <1>2 DEF TakesInv, RevocationTakesAll, outcomes, verified
  <2>2. ASSUME NEW s \in Slots, Whole(s)', req'[s] = req[s] PROVE Knows(s)'
    <3>1. Knows(s)
      BY <2>2 DEF TakesInv, Whole
    <3> QED BY <1>2, <2>2, <3>1 DEF Knows, outcomes, verified
  <2> QED BY <1>2, <2>1, <2>2 DEF TakesInv
<1>3. CASE UNCHANGED vars
  BY <1>2, <1>3 DEF vars, outcomes
<1>4. ASSUME NEW s \in Slots, Reading(s) PROVE TakesInv'
  <2>1. UNCHANGED outcomes /\ \E r : Serve(s, r)
    BY <1>4 DEF Reading, DeleteRead, SubmitRead, RevokeRead, EditRead, ReviewRead, VerifyRead,
                VerifyMembersRead, RevokeVerificationRead, items, outcomes
  <2>2. \A t \in Slots : t # s => req'[t] = req[t]
    BY <1>0, <2>1 DEF Serve
  <2>3. ASSUME Whole(s)' PROVE Knows(s)'
    <3>1. req'[s].op = "revoke verification" /\ req'[s].whole
      BY <2>3 DEF Whole
    <3>2. PICK v \in Verifications, ms \in SUBSET Members, whole \in BOOLEAN :
            RevokeVerificationRead(s, v, ms, whole)
      <4>1. ASSUME NEW e \in Evidence, DeleteRead(s, e) PROVE FALSE
        <5>1. req'[s] = [op |-> "delete", item |-> e]
          BY <1>0, <4>1 DEF DeleteRead, Serve
        <5> QED BY <3>1, <5>1
      <4>2. ASSUME NEW e \in Evidence, SubmitRead(s, e) PROVE FALSE
        <5>1. req'[s] = [op |-> "submit", item |-> e, seen |-> evidence[e].status]
          BY <1>0, <4>2 DEF SubmitRead, Serve
        <5> QED BY <3>1, <5>1
      <4>3. ASSUME NEW e \in Evidence, RevokeRead(s, e) PROVE FALSE
        <5>1. req'[s] = [op |-> "revoke", item |-> e]
          BY <1>0, <4>3 DEF RevokeRead, Serve
        <5> QED BY <3>1, <5>1
      <4>4. ASSUME NEW e \in Evidence, NEW op \in Editing, EditRead(s, e, op) PROVE FALSE
        <5>1. req'[s] = [op |-> op, item |-> e]
          BY <1>0, <4>4 DEF EditRead, Serve
        <5>2. req'[s].op \in Editing
          BY <5>1
        <5> QED BY <3>1, <5>2 DEF Editing
      <4>5. ASSUME NEW e \in Evidence, NEW d, ReviewRead(s, e, d) PROVE FALSE
        <5>1. req'[s] = [op |-> "review", item |-> e, decision |-> d]
          BY <1>0, <4>5 DEF ReviewRead, Serve
        <5> QED BY <3>1, <5>1
      <4>6. ASSUME NEW ms \in SUBSET Members, VerifyRead(s, ms) PROVE FALSE
        <5>1. req'[s] = [op |-> "verify", members |-> ms]
          BY <1>0, <4>6 DEF VerifyRead, Serve
        <5> QED BY <3>1, <5>1
      <4>7. ASSUME NEW ms \in SUBSET Members, NEW v \in Verifications, VerifyMembersRead(s, v, ms)
            PROVE  FALSE
        <5> DEFINE r == [op |-> "verify members", of |-> v, members |-> ms]
        <5>1. req'[s] = r
          BY <1>0, <4>7 DEF VerifyMembersRead, Serve
        <5>2. r.op = "verify members"
          OBVIOUS
        <5> HIDE DEF r
        <5> QED BY <3>1, <5>1, <5>2
      <4> QED BY <1>4, <4>1, <4>2, <4>3, <4>4, <4>5, <4>6, <4>7 DEF Reading
    <3> DEFINE known == {<<m, contribution[v][m].issue>> : m \in ms}
               r == [op |-> "revoke verification", of |-> v, whole |-> whole, records |-> known]
    <3>3. req'[s] = r
      BY <1>0, <3>2 DEF RevokeVerificationRead, Serve
    <3>6. r.of = v /\ r.records = known /\ r.whole = whole
      OBVIOUS
    <3> HIDE DEF known, r
    <3>4. whole
      BY <3>1, <3>3, <3>6
    <3>5. ms = verified(v) /\ verification[v] = "VERIFIED"
      BY <3>2, <3>4 DEF RevokeVerificationRead, live
    <3> QED BY <2>1, <3>3, <3>5, <3>6 DEF known, Knows, outcomes, verified
  <2> QED BY <1>2, <2>1, <2>2, <2>3
<1>5. ASSUME NEW s \in Slots, Answer(s) \/ req' = req, UNCHANGED outcomes PROVE TakesInv'
  <2>1. ASSUME NEW t \in Slots, Whole(t)' PROVE req'[t] = req[t]
    <3>1. req'[t].op = "revoke verification"
      BY <2>1 DEF Whole
    <3>2. Answer(s) => t # s
      <4>1. Free.op # "revoke verification"
        BY DEF Free
      <4>2. Answer(s) => req'[s] = Free
        BY <1>0 DEF Answer, Serve
      <4> QED BY <3>1, <4>1, <4>2
    <3> QED BY <1>0, <1>5, <3>2 DEF Answer, Serve
  <2> QED BY <1>2, <1>5, <2>1
<1>6. ASSUME NEW s \in Slots, OutcomeWrite(s) PROVE TakesInv'
  <2>1. /\ Answer(s)
        /\ \A v \in Verifications, m \in Members : ContributionForm(v, m)
    BY <1>0, <1>6, OutcomeForms
  <2>2. \A t \in Slots : Whole(t)' => t # s /\ req'[t] = req[t] /\ Whole(t)
    BY <1>0, <2>1 DEF Answer, Serve, Whole, Free
  <2>3. ASSUME NEW v \in Verifications, NEW m \in Members, contribution'[v][m].status = "VERIFIED"
        PROVE  \/ m \in verified(v) /\ contribution'[v][m] = contribution[v][m]
               \/ contribution'[v][m].late = revoking(v)
    BY <2>1, <2>3 DEF ContributionForm, verified
  <2>4. ASSUME NEW v \in Verifications, verification'[v] = "REVOKED", NEW m \in Members,
               contribution'[v][m].status = "VERIFIED"
        PROVE  contribution'[v][m].late
    <3>1. CASE verification[v] = "REVOKED"
      <4>1. revoking(v)
        BY <3>1 DEF revoking
      <4>2. m \in verified(v) => contribution[v][m].late
        BY <3>1 DEF TakesInv, RevocationTakesAll
      <4> QED BY <2>3, <2>4, <4>1, <4>2
    <3>2. CASE verification[v] # "REVOKED"
      <4>1. /\ Whole(s) /\ req[s].of = v
            /\ \A x \in Members : <<x, contribution[v][x].issue>> \in req[s].records
                                    => contribution'[v][x].status = "REVOKED"
        BY <1>0, <1>6, <2>4, <3>2, OutcomeStatus
      <4>2. revoking(v)
        BY <4>1 DEF revoking, Whole
      <4>3. Knows(s)
        BY <4>1 DEF TakesInv
      <4>4. m \in verified(v) => contribution[v][m].late
        BY <2>4, <4>1, <4>3 DEF Knows
      <4> QED BY <2>3, <2>4, <4>2, <4>4
    <3> QED BY <3>1, <3>2
  <2>5. ASSUME NEW t \in Slots, Whole(t)' PROVE Knows(t)'
    <3>1. Whole(t) /\ req'[t] = req[t] /\ Knows(t)
      BY <2>2, <2>5 DEF TakesInv
    <3>2. PICK v \in Verifications : v = req[t].of
      BY <1>1, <3>1
    <3>3. verification'[v] # "NONE"
      BY <1>0, <1>6, <3>1, <3>2, OutcomeStatus DEF Knows
    <3>4. revoking(v)
      BY <3>1, <3>2 DEF revoking, Whole
    <3>5. ASSUME NEW m \in Members, contribution'[v][m].status = "VERIFIED"
          PROVE  \/ contribution'[v][m].late
                 \/ <<m, contribution'[v][m].issue>> \in req[t].records
      BY <2>3, <3>1, <3>2, <3>4, <3>5 DEF Knows
    <3> QED BY <3>1, <3>2, <3>3, <3>5 DEF Knows, verified
  <2> QED BY <2>4, <2>5 DEF TakesInv, RevocationTakesAll, verified
<1>7. ASSUME NEW s \in Slots, ItemWrite(s) PROVE TakesInv'
  BY <1>0, <1>5, <1>7, ItemForms
<1>8. ASSUME UNCHANGED <<outcomes, req>> PROVE TakesInv'
  BY <1>2, <1>8
<1>9. CASE \E e \in Evidence, files \in BOOLEAN : CreateDraft(e, files)
  BY <1>8, <1>9 DEF CreateDraft
<1>10. CASE \E status \in ProgramStatus : SetProgramStatus(status)
  BY <1>8, <1>10 DEF SetProgramStatus
<1> QED BY <1>3, <1>4, <1>6, <1>7, <1>9, <1>10, StepKinds

(* A revocation of a whole verification leaves no record that was issued   *)
(* before it set out: whatever members are verified, revoked and set aside *)
(* while it runs, what still counts afterwards was issued meanwhile.       *)
THEOREM RevocationsTakeAll == Spec => []RevocationTakesAll
<1>1. Init => TakesInv
  <2> SUFFICES ASSUME Init PROVE TakesInv
    OBVIOUS
  <2>1. RevocationTakesAll
    BY DEF Init, RevocationTakesAll
  <2>2. \A s \in Slots : ~Whole(s)
    BY DEF Init, Whole, Free
  <2> QED BY <2>1, <2>2 DEF TakesInv
<1>2. Inv /\ TakesInv /\ [Next]_vars => TakesInv'
  BY StepTakesInv
<1>3. TakesInv => RevocationTakesAll
  BY DEF TakesInv
<1> QED BY <1>1, <1>2, <1>3, InitInv, StepInv, PTL DEF Spec
=============================================================================
