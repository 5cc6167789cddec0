# Verification of BAESH v2

BAESH is a web service in which students work on projects inside the programs
of an organization (a university, a foundation, a company), and the
organization keeps an official, verifiable record of that work.  The backend is
one Express application over PostgreSQL, written in TypeScript with Prisma; the
web client is a React application that shows what the API returns.

This directory holds TLA+ models of the parts of the backend, and of the one page
of the client, whose correctness depends on the order in which things happen, the
TLC configurations that check small instances of them, and proofs, checked by TLAPS, of the properties that
hold for instances of every size.  The source is the reference: every
definition names, in `PROJECT.json` under `map`, the lines it stands for.

In this file: 1 inventory, 2 how the code is turned into actions, 3 to 10 the
modules, 11 runs and bounds, 12 proofs, 13 what the runs found, 14 what is not
modelled, 15 plan.

| code | module | abstract | proofs | section |
| --- | --- | --- | --- | --- |
| selection of applicants | `ProgramRecruitment` | `SeatLedger` | `ProgramRecruitmentProofs` | 3 |
| official project records | `ProjectRecords` | `RecordHistory` | `ProjectRecordsProofs` | 4 |
| projects entering and leaving programs, deletion | `ProjectLinks` | | `ProjectLinksProofs` | 5 |
| evidence, reviews, verified records | `EvidenceReview` | | `EvidenceReviewProofs` | 6 |
| members and invitations of an organization | `Membership` | | `MembershipProofs` | 7 |
| sign-ups of the opportunity board | `Enrollments` | `SignUps` | `EnrollmentsProofs` | 8 |
| subscription periods; invoices and payments | `Subscriptions`, `Invoices` (both extend `Billing`) | | `BillingProofs` | 9 |
| the program wizard of the client | `DraftAutosave` | | `DraftAutosaveProofs` | 10 |

A module `MC...` instantiates a module for TLC (symmetry, and values a
configuration file cannot write); a `.cfg` is one run.

## 1. Inventory

All paths are under `src/backend/src/` unless they start with `docs/` or
`frontend/`.  The database is the only shared state.  Several requests are served at a time,
one scheduler runs in one process (`services/jobs/scheduler.ts`), and nothing
is kept in memory between two requests except counters for metrics.
Transactions run at READ COMMITTED: every statement sees what was committed
when it started, so what a handler read earlier may be stale when it writes.

| part | state | operations | what is hard | what makes it correct |
| --- | --- | --- | --- | --- |
| Recruitment and selection (`modules/programs/programRecruitment.routes.ts`, `services/programs/applicationOffers.ts`) | `ProgramApplication` rows, `ProgramParticipant`, capacity and status of the program | save, submit, attach, withdraw, discard, confirm, decline, reject, waitlist, accept, refill, hourly lapse | two members of staff and several applicants at once, a deadline, a job, a lock taken by some handlers only | seats are never promised twice, an open offer is honoured, a seat that comes free is passed on, decisions stand |
| Official project records (`services/records/`) | `ProgramProjectRecord`, its events with hashes | capture, finalize, reopen, correct, redact, backfill | captures lock the project, corrections lock the record; reads before the lock; swallowed failures | one chain of versions, nothing recorded is rewritten, redacted people stay out, final means final |
| Registrations (`modules/programs/programProjectRegistrations.routes.ts`, `programProjectReviews.routes.ts`, `services/programs/programProjects.ts`) | `ProgramProjectRegistration`, `Project.programId` | request, withdraw, approve, reject, remove, move | eligibility is checked twice and never locked; two transactions for a new project | one pending request per project, one team per student, an approval never takes a project from another program |
| Project deletion (`services/projects/projectDeletion.ts`) | the project and everything that hangs off it | delete | races with registrations, evidence and approvals | what an institution recorded is never deleted |
| Evidence and verification (`modules/evidence/`, `modules/programs/projectVerification.routes.ts`, `services/verification/`) | `ProjectEvidence`, `ProjectVerification`, `VerifiedRecord` | submit, review, revoke, verify, verify members | each act captures the official record in its own transaction | a verified record that was revoked is never shown as valid; one record per act |
| Projects and teams (`modules/projects/`, `utils/projectInvites.ts`) | `Project`, `ProjectMember`, `ProjectInvite` | invite, accept, leave, roles, tasks | membership changes while the project enters or leaves a program | the rules of the program hold for every way into its teams |
| Billing (`modules/billing/`, `services/billing/`) | `Subscription`, `Contract`, `Invoice`, `Payment` | apply, renew, change, issue, void, pay, cancel a payment | payments recorded at once, the hourly job against an administrator, overlapping periods | a covered invoice is paid, a paying customer is not expired |
| Plan limits (`services/billing/entitlements.ts`) | none: counts rows | check before a write | check-then-act on counts | the limit is not passed |
| Scheduler (`services/jobs/scheduler.ts`) | audit log of notices | hourly: lapse offers, expire, overdue, usage, retention | stale candidate lists, restarts between a mail and its log | each notice once, nothing undone that was just done |
| Organizations and membership (`modules/organizations/organizations.routes.ts`) | `OrganizationMember` | join, decide, change role, suspend, reactivate, remove, leave | ranks and counts read before the write | the owner keeps the organization |
| Organization invites (`services/onboarding/invites.ts`) | `OrganizationInvite` | invite, resend, revoke, expire, accept | two uses of one link, seats counted before | a link is used once |
| Opportunities (`modules/opportunities/`) | `OpportunityEnrollment`, certificates | apply, withdraw, decide, complete | two decisions at once | every transition starts from the status it was decided on |
| Sessions (`services/auth/sessions.ts`) | `Session` | start, check, revoke, prune | revocation against a request in flight | a revoked session is not revived |
| AI tasks (`services/ai/runner.ts`) | usage log | call with retries, quota | quota counted after the call | quotas are approximate by design |
| Web client (`frontend/src/`), the program wizard | the form, the ref a save reads, timer, save in flight | edit, autosave, save now, publish, delete, leave | edits during a save, answers lost, the page left meanwhile | what is shown as saved is stored, nothing typed is lost |
| Other pages, organizations as such, programs, posts, profiles, users, notifications, support, reports, search, SEO, media, matching, storage, metrics | rows of their own | CRUD | nothing between requests | permissions |

How the parts interact: a confirmed offer makes a participant; participants form
teams; an approved registration links a project to a program and captures the
first version of its official record; evidence reviews, verifications, moves
and removals capture further versions inside their own transactions; team
changes by staff capture theirs afterwards (`captureSafely`); ending a program
finalizes its records, resuming it reopens them.  The hourly job touches offers,
subscriptions and invoices.  An approved organization gets its trial; a plan
limits its members.  There are no messages between processes of the backend: the
interactions are rows, row locks, unique indexes and foreign keys.  The client
sends requests and keeps a form between them.

The hazards of the code, each at its line and with the properties that would
notice it going wrong, are listed in `PROJECT.json` under `hazards`.

## 2. How the code is turned into actions

**One handler, one or two actions.**  A handler reads, decides and writes.  When
the write repeats the decision (`updateMany` with the status in its WHERE
clause) nothing that happens in between matters and the handler is one action,
guarded by the decision.  When the write does not repeat it (`upsert`,
`update` by id) the handler is two actions: `...Begin` checks and leaves a
request in a slot of `req`, a second one writes.  Anything may happen between
them.  `RequestFails` ends a request between its steps: an exception, a lost
connection, a restart.  Its open transaction rolls back and its committed
steps stay.

**Locks.**  `SELECT ... FOR UPDATE` on the program row (`lockProgramSeats`) and on
the project row (`captureProgramProjectRecord`) are modelled where a
transaction reads under the lock and writes later: `lock` in
`ProgramRecruitment`, a request with `op = "capture"` in `ProjectRecords`.
Inserting a row with a foreign key takes a share lock on the row it refers to,
so an insert of an application, a participant or a team member also waits for
that lock (`lock = {}` in `Save`, `AddParticipant`; `~Locked(j)` in `JoinTeam`,
`Assign`; `Held(a)` in `ProjectLinks`).  An update of an existing row does not.  A transaction whose reads
and writes are covered by one lock, or which rolls back when what it read has
changed, is one action.

**Time.**  `ProgramRecruitment` counts days in `now` and lets `Tick` happen at any
moment; handlers and the job work with the time they started (`req[s].at`,
`job`), as `now` is computed once in the code.  `ProjectRecords` uses the number
of acts so far as the time; only `submittedAt <= finalizedAt` compares times.
`Enrollments`, `Subscriptions` and `Invoices` count days; in `Membership` the time of
an invitation runs out at any moment (`TimeIsUp`).

**Crashes.**  The hourly job keeps no state but the audit log.  `JobCrashes` puts it
back to rest between any two of its steps, at most `MaxCrashes` times.  A request
that is never finished stays in its slot or desk for good, which is the same
for the others as one that died.

**Data.**  People, projects, programs and evidence are model values.  A timestamp
that no later step reads is left out.  A content hash is the content itself,
which assumes SHA-256 without collisions; `previousHash` becomes the previous
snapshot.

## 3. The selection flow: `ProgramRecruitment`, `SeatLedger`

Applications to one program.  `app[u]` is the row of applicant `u` (`NONE` when
there is none), with `waitlistedAt`, `offerExpiresAt` and whether `respondedAt` is
set; `participant[u]` tells people who registered by confirming an offer from
those staff registered.  `capacity`, `status` and `phase` are the program's.

| actions | code |
| --- | --- |
| `SaveBegin`, `Save` | PUT `/applications/me`: `assertCanApply`, then an upsert |
| `AttachBegin`, `Attach` | POST `/applications/me/files`: the draft a first file creates, or a withdrawn application reopened |
| `DiscardBegin`, `Discard`, `Withdraw` | DELETE `/applications/me` on a draft, on a submitted application |
| `ConfirmBegin`, `Confirm` | POST `/applications/me/confirm`: under the seat lock, deadline checked again |
| `Decline` | POST `/applications/me/decline`; leaves a `refill` request behind |
| `DecideBegin`, `Turn`, `AcceptLock`, `AcceptClaim` | PATCH `/applications/:id`: reject and waitlist claim the row; accept locks, counts, claims |
| `RefillBegin`, `Refill` | POST `/applications/refill`, and the refill a decline still owes |
| `JobScan`, `JobRefill`, `JobFails` | `expireProgramOffers`: the lookup, one program's refill, a run that fails |
| `AddParticipant`, `RemoveParticipant`, `PatchProgram`, `Recruitment`, `Suspension` | staff edits outside the flow |

`Discard` deletes the row; requests that would later update that row by its id
end with it, since an update by id of a missing row fails.  Such requests are
`ById`.

`SeatLedger` is the abstract specification: seats are held by registrations and
by open offers, offers are made only out of free seats, only the holder of an
open offer can turn it into a registration, staff may overbook.  The refinement
maps `offered` to the offers that are open *now*: the passing of time is a
`GiveUp` step of the ledger.

Properties:

- `SeatsWithinLimit`: registrations made from offers and open offers never
  outnumber the largest capacity the program has had.  Direct registrations are
  not counted, because staff may overbook.  `seatLimit` is a history variable:
  staff may lower the capacity below what is already promised.
- `OfferHonoured`: an open offer ends before its deadline only by the doing of
  its applicant.
- `ImplementsLedger`: the refinement.
- `ExpiredOfferLapses`: whatever happens, an offer that ran out is lapsed.
- `LapsedSeatPassedOn`: the step that lapses an offer gives its seat away, too.
- `DecisionStands`: what the message of the handler says and the code does not do;
  see section 13.

## 4. The official records: `ProjectRecords`, `RecordHistory`

A record belongs to a pair of a program and a project.  `record[r]` is its row,
`events[r]` its history: for each version the snapshot and the snapshot before
it (the previous hash).  The live rows a snapshot is built from are `link`
(`Project.programId`), `team`, `submitted` and `rejected` (evidence), `holders` (who
holds a verified record) and `ended` (programs COMPLETED or ARCHIVED).

A snapshot's `people` counts the rows a person has on and off the team.  A
redacted person is replaced by a number: `redacted:n` in the code.  Counting
rows, instead of keeping a set, is what shows the repeated pseudonyms of
section 13.

| actions | code |
| --- | --- |
| `Act` then `CaptureWrite` | evidence review and revocation, project and member verification and revocation: one transaction, its reads under the project lock and its writes apart, because corrections and redactions do not take that lock |
| `Assign`, `CaptureBegin`, `CaptureWrite` | team changes by staff, then `captureSafely` |
| `BackfillBegin` | one candidate of `recordBackfill.ts`: the project is in the program, somebody holds a verified record, or the pair is one of `Former`, which have a registration or a verification from before there were records |
| `JoinBegin`, `JoinTeam`, `LeaveBegin`, `LeaveTeam` | team changes by students, which capture nothing |
| `SubmitEvidence` | submission and resubmission |
| `LinkBegin`, `Link` | approval of a registration (`approveInTx`), or a project staff create |
| `MoveBegin`, `Move`, `RemoveBegin`, `Remove` | staff move a project to another program or take it out |
| `RemoveParticipant` | captured with the participant, then without |
| `EndBegin`, `EndProgram`, `ResumeBegin`, `ResumeProgram` | PATCH `/:programId` with a status: lookup of the projects, then a capture of each |
| `Correct`, `Redact` | the two handlers that lock the record row; a person the snapshot mentions elsewhere than in its team, as a reviewer, may be redacted too, so anybody may |
| `RequestFails` | rollback; after `captureSafely` the change stays and its capture is lost |

`Link`, `Move`, `Remove`, `RemoveParticipant`, `EndProgram` and `ResumeProgram` hold
several captures in one transaction and are one action each.  This loses
nothing: a capture locks the project row first, and if a correction or a
redaction takes the version it was about to write, the unique index on record
and version makes the whole transaction roll back, which `RequestFails` covers.
`CaptureWrite` keeps that index as the guard `FreeVersion`.

`RecordHistory` is the abstract specification: books of pages, each page the set
of people a version names.  Pages are only added; a page names whoever the page
before named; a redaction removes one person from every page and for good.
The refinement reads the pages out of `events` and the hidden people out of the
current snapshot.

Properties:

- `ChainIntact`: versions are consecutive, the record is its last version, and
  every version carries the hash of the one before it.
- `ImplementsHistory`: the refinement.  It is an action property of every step: no
  interleaving of a capture with a redaction brings a redacted person back.
- `FinalTeamKept`: while a record stays final its team does not change, except
  that a redaction turns a member into a pseudonym; `finalizedAt` stays.

## 5. Projects in programs: `ProjectLinks`

`project[a]` is a project with its owner, its program and its team; `registration`
holds the requests in the order of creation; `participants` and `gone` belong to
the programs; `everIn` is a history variable, the projects that have been in some
program.

| actions | code |
| --- | --- |
| `RequestExisting`, `RequestFiled`, `RequestLinks` | POST registrations: the owner or a member with the leader role asks; eligibility, the row (partial unique index on PENDING), and in a program that approves by itself the approval in the same transaction |
| `RequestNew`, `RequestCreates` | the same with a new project, which commits before its request |
| `Approve`, `Approved`; `Refuse`, `Refused` | the decision of staff, and the withdrawal of the student |
| `Remove`, `Removed`; `Move`, `Moved` | staff take a project out of a program, or to another |
| `AddMember`, `MemberAdded`, `MemberLeaves` | changes of a team, by staff or by an accepted invitation |
| `AddParticipant`, `RemoveParticipant`, `CreateProject`, `CreateProgramProject` | the rest of what eligibility looks at |
| `DeleteProject`, `ProjectDeleted` | `deletePersonalProject`: row lock, retention check, delete |
| `DeleteProgram`, `ProgramDeleted` | counts, then a delete that the foreign keys of participants and requests refuse |

- `RetainedNotDeleted`: nothing that has been in a program is deleted, and a request
  that lost its project was refused.  It depends on which writer waits for which
  lock: a request inserts a foreign key to the project and so meets the deletion
  at its row lock.
- `RemovalIsOnRecord`: a project that was in a program and is in none now has a row
  that says REMOVED, although two moves, or a move and a removal, act on a
  program id they read before.
- `DecidedOnce`: a request leaves PENDING for one decision; only a removal follows.

`TypeOK` has a part that is not about types: a row names a project that exists, or
none (`NamesLive`), which is what the foreign key's SET NULL sees to.

Two approvals may both find that a student is in no other team; one team per
student is therefore not a property here but a hazard.

## 6. Evidence and verified records: `EvidenceReview`

`evidence[e]` has a status, a version of its content and whether it has files;
`trail` the last entry of its review trail; `record` its verified record.
`verification` and `contribution` are the verifications of a project and the records
of its members; `setAside` keeps records a member got earlier under the same
verification, which `StepAside` unlinks when a new one is issued.

| actions | code |
| --- | --- |
| `CreateDraft`, `EditRead`, `EditWrite`, `DeleteRead`, `DeleteWrite` | the author's handlers; edit, upload and removal of a file write by id |
| `SubmitRead`, `SubmitWrite` | claims the status it read |
| `ReviewRead`, `ReviewWrite`, `RevokeRead`, `RevokeWrite` | approve or reject; revoke the approval with its record |
| `VerifyRead`, `VerifyWrite`, `VerifyMembersRead`, `VerifyMembersWrite` | a verification of the project, further members |
| `RevokeVerificationRead`, `RevokeVerificationWrite` | of members, or of the whole |
| `SetProgramStatus` | only an ACTIVE program takes evidence |

- `ApprovedMeansVerified`: approved exactly while the record counts, and what was
  handed in is never deleted.
- `TrailAlternates`: the trail alternates between submissions and decisions.
- `OneContribution`: a member has at most one record that counts under a
  verification, the ones set aside included.
- `RevocationTakesAll`: what still counts under a verification that was revoked as a
  whole was issued while the revocation was under way, or afterwards by a request
  that read the verification as live.  `late` in a contribution, a history field,
  marks those records (`revoking`).  The comment of the handler says "with all its
  records"; that the rest goes is what the code does keep, whatever members are
  verified, revoked and set aside meanwhile.

## 7. Members and invitations: `Membership`

`members[u]` is the row of a user with its id, since handlers write by id and a
person who left and came back has another row; `invites` the invitations, each with
the number of times its link was issued (`sent`); `taken` counts the acceptances.
A request goes through up to four steps: `requireOrgAccess` reads who asks
(`Enter`), the handler reads whom it is about, `assertOrgCapacity` counts
(`CheckCapacity`), the write goes by id (`MemberWrite`).  Nothing is locked.

| actions | code |
| --- | --- |
| `JoinRead`, `JoinWrite`, `CancelJoin` | POST and DELETE `/:orgId/join` |
| `Decide`, `Remove`, `Suspend`, `Reactivate`, `ChangeRole`, `Leave` | the handlers on a member row |
| `Invite`, `InviteWrite` | `createInvites`: a pending invitation of the person is issued again |
| `Resend`, `Revoke`, `Expire`, `InviteStatusWrite` | writes by id, without the status they were decided on |
| `AcceptFind`, `AcceptRead`, `AcceptWrite` | `acceptInviteToken`; the last step claims the PENDING row |

- `OwnerStays`: the owner stays an active owner, whatever rank callers and targets
  had when they were read.
- `LinkUsedOnce`: a link lets its person in at most once for each time it was issued.
- `OverrunBounded`: the limit of the plan is passed by at most the other requests
  that are served at the time.  It is not kept exactly; the bound is tight.

## 8. Sign-ups: `Enrollments`, `SignUps`

`row[u]` is a sign-up with its dates and approver, `certificates[u]` counts what was
issued.  Each handler reads (`...Read`, `ApplyBegin`) and then writes with the status it
read in the WHERE clause (`...Write`); an application that meets a conflict
reads again, three times at most (`MaxAttempts`).  The deadline and the type of
the program change meanwhile (`EditOpportunity`), and the program may be deleted.

`SignUps` is the abstract specification: a sign-up moves between five statuses in
single steps; a completion is final and the only thing that issues a certificate.

- `ImplementsSignUps`: the refinement.
- `CertificateMeansCompleted`: while the program exists, exactly the completed
  sign-ups have a certificate, and one.
- `ApprovalIsReal`: the date and the approver on a row are those of one decision
  that was made.
- `NothingMoves`: a step that leaves the status of a sign-up leaves all of it.

## 9. Billing: `Billing`, `Subscriptions`, `Invoices`

`Subscriptions` holds the periods of one organization, `Invoices` one invoice with its
payments and the status of the subscription it is for.  In both, operators work
at desks (a read, then a write) and the hourly job goes step by step: it lists,
updates row by row by id, looks whether a notice is in the audit log, delivers
it, logs it.  `JobCrashes` and `ChaseCrashes` stop it anywhere.  What the two share,
days, desks, the job and its audit log, is in `Billing`.

| actions | code |
| --- | --- |
| `Approve`, `TrialStarts` | `ensureTrialSubscription` |
| `NewSubscription`, `SubscriptionStarts` | POST subscriptions: overlapping periods end or are canceled |
| `Renew`, `Renewed`, `EditSubscription` | renewal and edits |
| `JobStarts`, `Expire`, `Look`, `Deliver`, `Log` | `runSubscriptionLifecycle`, `noticeOnce` |
| `Issue`, `Issued`, `Void`, `Voided`, `EditDueDate` | the invoice |
| `RecordPayment`, `AddUp`, `Settle`; `CancelPayment`, `PaymentCanceled` | payments: the transaction adds up what it sees, then writes |
| `EditStatus` | an edit of the subscription, as far as the invoice is concerned |
| `ListOverdue`, `MarkOverdue`, `MarkPastDue`, `DeliverOverdue`, `LogOverdue` | `runInvoiceLifecycle` |

- `NoticesOnce`: the log knows of no notice that was not sent, and only a crash makes
  one go out again.
- `OverlapsOnlyUnseen`: a new subscription overlaps a period in force only if another
  operator made or changed that period while the request ran; everything else makes
  way, whatever the job expires meanwhile.
- `EndIsNoticed`, `DueIsChased` (liveness): the end of access is announced, and an
  invoice past its due date does not stay ISSUED, in spite of crashes.
- `ShortfallIsCrossed`: what a PAID invoice lacks was taken back by a cancellation that
  crossed the payment which settled it: the payment had counted that money
  already, or the cancellation had read the invoice before it was paid.
- `VoidMoneyIsLate`: money on a VOID invoice was recorded while a request was voiding
  it, or by a payment already under way.
- `PaidWhenCovered`: what a comment says and the job breaks; see section 13.

TRIAL, ACTIVE and PAST_DUE are one status in `Subscriptions`, because they give the
same access and the job treats them alike there; `Invoices` tells PAST_DUE apart,
and merges TRIAL with ACTIVE and CANCELED with EXPIRED, which no operation on an
invoice distinguishes.

**Several operators.**  Nothing keeps two operators of the platform from working at
once (`nextNumber` in `billingAdmin.routes.ts` counts on it), so every run has two
desks beside the job and every theorem any number.  The rules one would
state without limit, as the comment on new subscriptions does ("exactly one entitlement
applies at any moment"), are not kept then: nothing is locked between what a handler reads and what it writes.
The properties therefore say exactly which requests must have crossed for a rule to
be broken.  `lost` and `late` are history variables that mark the payments
concerned (`CrossesPayment`, `CrossesVoid`); for periods the request itself carries what
it saw.  With one operator nothing crosses: a PAID invoice is covered then, a void
one holds no money, and a new subscription overlaps none in force.  The crossings
that break the rules are listed under `hazards`, and section 13 names them.

`Amount` is the sum of some payments, counted unit by unit (`Units`): the number of
pairs of a payment and one of its units; `Paid` is that of the confirmed ones.  That is the sum,
written without a recursion over the rows, so that it can be reasoned about.

## 10. The program wizard: `DraftAutosave`

The page that writes a new program and keeps a draft of it on the server.  A step
is one task of the browser's event loop.  `view` is what React shows, `latest` the
ref a save reads, `task` the request a running save waits for, `again` the flag that
makes a save start over, `drafts` the programs on the server.  `unsure` and
`missed` are history variables: parts written by a request whose answer was lost,
and that a request failed after the page was left.  `Blank`, the empty string, is the
wording of a question that was just added.

| actions | code |
| --- | --- |
| `EditTitle`, `EditSettings`, `AddQuestion`, `EditQuestion`, `RemoveQuestion`, `MoveQuestion` | the form and `ApplicationFormBuilder` |
| `Render`, `TimerFires` | the effects of `useProgramAutosave` |
| `SaveNow`, `Publish`, `Leave` | `flush` by the button, before a publication, by the cleanup |
| `Delete`, `Deleted` | the server deletes the draft; the answer, which may never come, makes the page stop and go away (`GoAway`) |
| `Created`, `FormRead`, `Patched`, `Put` | `saveOnce` after each answer, with what the handler on the server did |
| `Rejected`, `Refused`, `AnswerLost` | a save that fails, or that worked and nobody hears |
| `StatusSet`, `Published`, `Announced`, `PublishFails` | the two requests of a publication, the answer that makes the page go away, and the status put back when one fails or its answer is lost |

- `SavedIsStored`: what is shown as saved is on the server, question for question.
- `LeavingSaves`: after the last save, the draft has what the page had when it was left.
- `PublishedIsFlushed`: what is published holds what was typed when the button was
  pressed, also when the flush joined a running save.
- `EditsAreSaved` (liveness): an edit is saved, or the page shows an error.

**One draft.**  The first three are about a page that has made one draft.  It can make a
second: the answer to the first creation is lost, or the page is rendered between
`Created` and `FormRead`, when React does not know the id yet and its effect writes
the ref without it.  The save that starts over then creates another program.  Left
at that moment, the page may send the last edit to the first draft, which is why
`LeavingSaves` asks for `Len(drafts) <= 1`; see section 13.

## 11. Runs and bounds

| run | instance | checks |
| --- | --- | --- |
| `recruitment_races` | 2 applicants, 2 requests, capacity 1 or 2, 1 day, 1 staff edit | `TypeOK`, `SeatsWithinLimit`, `OfferHonoured`, `ImplementsLedger` |
| `recruitment_waitlist` | 3 applicants, 1 request, capacity 1 or unlimited, 1 failing job | `ExpiredOfferLapses`, `LapsedSeatPassedOn` |
| `records_history` | 2 people, 1 project, 2 programs, 2 requests, 1 piece of evidence, 3 acts, every pair in `Former` | `TypeOK`, `ChainIntact`, `ImplementsHistory`, `FinalTeamKept` |
| `project_links` | 1 student, 2 projects, 2 programs (one approves by itself), 2 requests in flight, 2 rows | `TypeOK`, `RetainedNotDeleted`, `RemovalIsOnRecord`, `DecidedOnce` |
| `evidence_review` | 1 item, 1 member, 2 verifications, 2 requests, 1 edit, 3 issues | `TypeOK`, `ApprovedMeansVerified`, `OneContribution`, `TrailAlternates`, `RevocationTakesAll` |
| `membership` | an owner and 3 people, a plan for 2, 2 requests in flight, 1 invitation, 4 acts | `OwnerStays`, `LinkUsedOnce`, `OverrunBounded` |
| `enrollments` | 1 applicant, 2 managers, 2 requests, 2 days | `TypeOK`, `CertificateMeansCompleted`, `ApprovalIsReal`, `NothingMoves`, `ImplementsSignUps` |
| `subscriptions` | 2 operators, 3 periods, 2 acts, 3 days, 1 crash | `TypeOK`, `NoticesOnce`, `OverlapsOnlyUnseen`, `EndIsNoticed` |
| `invoices` | 2 operators, a total of 2, 2 payments, 3 days, 1 crash | `InvoiceTypeOK`, `ShortfallIsCrossed`, `VoidMoneyIsLate`, `DueIsChased` |
| `autosave` | 3 settings, 2 of which take applications, 2 wordings, 1 added question, 3 acts, 1 failure | `TypeOK`, `SavedIsStored`, `LeavingSaves`, `PublishedIsFlushed`, `EditsAreSaved` |
| `recruitment_decision_overwritten` | 2 applicants, 2 requests, capacity 1 | violates `DecisionStands` |
| `invoices_paid_when_covered` | as `invoices`, 1 operator | violates `PaidWhenCovered` |

The passing runs have from 96,000 (`recruitment_waitlist`) to 1.7 million distinct states
(`invoices`).

Why the bounds are enough to be interesting.

- *Selection.*  Two applicants and two requests are the least with which two
  acceptances compete for a seat, a confirmation meets a lapse, and a save meets
  a decision; one day is the least in which an offer of one day runs out; one
  staff edit is enough to change the capacity, suspend somebody, or end the
  program in the middle of that.  Three applicants are needed for two to wait
  behind a third, which is the least a queue needs.
- *Records.*  Three acts reach finalize, change the team and correct, or approve,
  redact and finalize, on one record; two requests half done at a time are the
  least that interleave, and the theorems of section 12 cover any number; two people are needed for one to be redacted or to
  leave while the other stays, two programs for a move.
- *Projects.*  Two programs are needed for a move, one that approves by itself for a
  request that holds its project; two rows for a request after a removal.
- *Evidence.*  The rules are about one item and one member; two verifications are
  needed for one to replace the other, three issues to verify, revoke and verify
  a member again while a stale request is under way.
- *Members.*  A plan for two with an owner and three others lets two requests add
  somebody at the last seat at once, which is what makes the overrun tight; four
  acts reach invite, accept, and two more requests that race with it.
- *Sign-ups.*  Users do not interact; one is enough.  Two managers are needed for
  two decisions at once, two days for a deadline to pass.
- *Billing.*  Two operators cross in every way two requests can, beside the job; the
  theorems cover any number.  Three days hold a period, its grace and the day after;
  three periods a trial and two more that are made at once; one crash may fall
  between any two steps.  Two payments of an invoice of two cover it together or
  apart, and reopen it; the one due date is early enough to pass.
- *Wizard.*  Three acts are an edit, another during its save, and leaving or
  publishing during that.  With two modes that take applications the settings can change
  while the questions stay, which is how the two drafts of section 10 differ.

The bounds are named constants: `MaxNow`, `MaxEdits`, `MaxJobFailures`, `MaxActs`,
`MaxFailures`, `MaxRequests`, `MaxIssues`, `MaxInvites`, `MaxPeriods`, `MaxPayments`,
`MaxCrashes`.

Symmetry is used for people, slots, projects, programs and verifications where no
definition orders them, and only in runs without liveness properties; the program
that approves by itself and the owner are not permuted.  Deadlock is not
checked: the bounds let every behaviour come to rest, and a program nobody applies
to rests in reality.

Fairness.

- `ProgramRecruitment`: the scheduler starts its jobs every hour (`startScheduler`),
  so the lookup is weakly fair; one that failed is started again an hour later and
  PostgreSQL serves lock waiters in turn, so a refill the job owes is strongly
  fair while failures are finite (`MaxJobFailures`); a transaction that holds the
  seat lock ends, and a handler that reached its refill goes on with it.
- `Subscriptions`, `Invoices`: `JobStep` and `ChaseStep` are weakly fair, for the same
  scheduler, with finitely many crashes.
- `DraftAutosave`: timers fire, React renders, and every request is answered or
  fails, as the browser gives up on one that is not.

No fairness is assumed of people anywhere.

Every property of a passing run has a mutant in its module: a change of one
definition, such as an acceptance that counts seats without the lock, under which
TLC finds the property violated.  They are the definitions marked `Mutant` in the
modules and are used nowhere else.

## 12. Proofs

TLAPS checks, for every value of the constants that satisfies the assumptions:

| module | theorem | statement |
| --- | --- | --- |
| `ProgramRecruitmentProofs` | `TypeCorrect` | `Spec => []TypeOK` |
| | `SeatsInvariant`, `SeatsNeverOversold` | `Spec => []SeatsInv`, `Spec => []SeatsWithinLimit` |
| | `OffersAreHonoured` | `Spec => OfferHonoured` |
| | `LapsesPassSeatsOn` | `Spec => LapsedSeatPassedOn` |
| | `KeepsTheLedger` | `Spec => ImplementsLedger` |
| `ProjectRecordsProofs` | `TypeCorrect`, `HistoryIsChain` | `Spec => []TypeOK`, `Spec => []ChainIntact` |
| | `FinalTeamStands` | `Spec => FinalTeamKept` |
| | `KeepsHistory` | `Spec => ImplementsHistory` |
| `ProjectLinksProofs` | `TypeCorrect` | `Spec => []TypeOK` |
| | `HistoryIsRetained`, `RemovalsAreRecorded` | `Spec => []RetainedNotDeleted`, `Spec => []RemovalIsOnRecord` |
| | `RequestsAreDecidedOnce` | `Spec => DecidedOnce` |
| `EvidenceReviewProofs` | `TypeCorrect` | `Spec => []TypeOK` |
| | `ApprovalsAreRecords`, `ContributionsAreSingle` | `Spec => []ApprovedMeansVerified`, `Spec => []OneContribution` |
| | `TrailIsInOrder`, `RevocationsTakeAll` | `Spec => TrailAlternates`, `Spec => []RevocationTakesAll` |
| `MembershipProofs` | `TypeCorrect` | `Spec => []TypeOK` |
| | `OwnerIsKept`, `LinksAreUsedOnce`, `OverrunIsBounded` | `Spec => []` of `OwnerStays`, `LinkUsedOnce`, `OverrunBounded` |
| `EnrollmentsProofs` | `TypeCorrect` | `Spec => []TypeOK` |
| | `CertificatesAreEarned`, `ApprovalsAreReal` | `Spec => []CertificateMeansCompleted`, `Spec => []ApprovalIsReal` |
| | `PendingRequestsAreStable` | `Spec => NothingMoves` |
| | `KeepsThePromise` | `Spec => ImplementsSignUps` |
| `BillingProofs` | `TypeCorrect`, `NoticesAreOnce` | `Spec => []TypeOK`, `Spec => []NoticesOnce` |
| | `NewPeriodMakesWay` | `Spec => OverlapsOnlyUnseen` |
| | `InvoiceTypeCorrect` | `InvoiceSpec => []InvoiceTypeOK` |
| | `VoidMoneyCameLate` | `InvoiceSpec => []VoidMoneyIsLate` |
| | `ShortfallsAreCrossed` | `InvoiceSpec => []ShortfallIsCrossed` |
| `DraftAutosaveProofs` | `TypeCorrect` | `Spec => []TypeOK` |
| | `SavedDraftsAreStored`, `LeavingSavesPending` | `Spec => []SavedIsStored`, `Spec => []LeavingSaves` |
| | `PublicationsAreFlushed` | `Spec => []PublishedIsFlushed` |

*Seats.*  `SeatsWithinLimit` alone is not inductive: an acceptance counts the seats
in one step and makes the offer in another.  `SeatsInv` adds what the code relies
on in between: at most one transaction holds the lock (`OneHolder`); nothing
that is under way is dated in the future (`TimesPast`), so an offer the job calls
expired is expired now; the limit covers the present capacity (`LimitCovers`);
and while the lock is held a seat is free (`SeatReserved`).  The proof takes the
actions one by one: most leave the count alone (`QuietStep`), `ConfirmSeats` moves a
seat from offers to registrations, `AcceptLockSeats` establishes the
reservation, `AcceptClaimSeats` uses it up, `RefillSeats` shows that a refill
promotes no more people than there are free seats.  The assumptions are that
`Users` is finite, capacities are natural numbers and response windows positive.

*Offers and the ledger.*  `OfferHonoured` follows from `TypeOK` and `TimesPast`: a
refill only lapses offers whose deadline is past at the time it was started with
(`RefillKeeps`), and a request writes an open offer only as its applicant's answer, or as a save, an
attachment or a withdrawal of the same applicant that was already being served
(`RequestKeeps`).  `ImplementsLedger` needs more than `SeatReserved`, which counts
the people who registered themselves against the largest capacity there has been:
the ledger counts all participants against the capacity now.  `ClaimFits` says that
whoever holds the lock has counted a free seat in that sense and that it is still
free (`StepFits`; it is, because registrations, edits of the program and refills
wait for the lock of the program row).  Then every step is classified (`StepKinds`): it only ends
offers (`ShrinkLedger`), is a refill (`RefillLedger`), a claim (`ClaimLedger`), a
confirmation, or a step of the staff.

*Lapses.*  `LapsedSeatPassedOn` is shown without the lock.  Only a refill lapses an
offer (`OnlyRefillsLapse`), and a refill that lapses one has counted the seats in
the same transaction: it offers every seat it counts as free, or an offer to
everybody who waits (`RefillGivesOut`).  The step of the property is the one that
lapses, so what it says holds whatever was read before.

*Records.*  `ChainIntact` alone is not inductive: a capture under way carries the
version it has read.  The invariant `Inv` of `ProjectRecordsProofs` is one for all
four theorems and has three parts.

- `SourcesOK`: the live rows are of their types.
- `Books`: every record is `Good` (typed, and `Clean`: its snapshot names nobody it
  hides) and its history is its `Book`: versions without gaps up to the record,
  each with the hash of the one before (`Chain`), none naming a person who is
  hidden (`Unnamed`).
- `RequestsOK`: what a capture under way has read is the record, or an older version,
  and its snapshot was built from that (`SeenIn`).  If the version it wants to
  write is free nothing came in between, and it continues the book; if not, the
  unique index stops it.

The lemmas follow the code.  `CaptureSucceeds` and `CorrectionSucceeds` say of the
pure part that a capture or a correction keeps the record or makes the version
after it, which names whom it named (`Succeeds`) and, while the record stays final, keeps its team
(`TeamStands`).  `LoggedIsBook`, `LoggedTwice` and `OnceRecorded` carry
this over to the history, for one capture in a transaction and for two.  Each action is
then one lemma: what it does to a record and its history is `Recorded`.  A redaction
is different, since it rewrites every version: `RedactionHides` says what one
rewritten snapshot names, `HiddenIsBook` that the rewritten history with its
recomputed hashes is a book again, `RedactRewrites` that this is what `Redact` does.
So every step is a `BookStep`, all records `Recorded` or one of them
`Rewritten`, and the theorems follow from that alone: the refinement because the
first adds pages and the second is the redaction of one person in one book
(`AddsExtends`, `RewrittenPages`, `StepOfHistory`), the team because of
`TeamStands` and because a redaction replaces one member by one pseudonym
(`StepKeepsTeam`).  The assumption, `PeopleAssumption`, is that there are finitely many people
and that they are none of the pseudonyms.

*Projects.*  The invariant `Inv` of `ProjectLinksProofs` joins the properties with what
the locks give: a project is held by a request of one kind only (`Exclusive`),
what a self-approving request is about to link is there (`LinksLive`), nothing an open
deletion has checked has changed (`DeletesClean`), and an approval under way
names the project of its row (`RowsNamed`).  `ProjectForm` and `RowForm` name the few ways a
project and a row may change in a step; each action is shown to take one of them,
and the invariant is shown of the forms.

*Evidence.*  `Inv` adds to `ApprovedMeansVerified` that the trail tells the status
(`TrailTells`), that what was issued has a number (`Numbered`) and that what was set aside is
revoked (`AsideRevoked`), which is why a second record that counts cannot come up.
`TrailAlternates` follows from the same invariant.  `TakesInv` adds to
`RevocationTakesAll` that a request about to revoke a whole verification knows every
record that counts under it, but for those issued since it read (`Knows`): a record
that a member gets anew under a new number is late by then.

*Members.*  `OwnerInv`: there is one owner and no request under way may touch that
row (`Harmless`): every handler asked for a rank above its target's, there is none
above the owner's, and the row of the owner never changes its id.  `RoomInv` bounds
the active members together with those a request under way has counted room
for, each of which holds a slot.  `LinkUsedOnce` is inductive as it
stands, because it counts a pending invitation as the one use it still owes.

*Sign-ups.*  `Inv` adds that what was read lets only allowed decisions through
(`DecisionAllowed`) and that a deleted program takes all sign-ups with it
(`GoneTogether`).  The refinement takes the steps one by one: those that read, or
lose their race, are stutters, each write is a step of `SignUps`.

*Notices.*  `NoticesInv`: repetitions and notices that were sent and not logged
together do not outnumber the crashes, but for the one the job has just sent.

*Periods.*  `TypeInv` adds to `TypeOK` what a request carries from its reads to its
writes: among other things the periods it saw.  A period that is still as the request saw it
and overlaps the new one is among those it ends or cancels (`NewPeriodMakesWay`); the job
takes periods out of force in between, another operator may add or change one,
and those are the ones the property leaves out.  That a latest period exists whenever one has
started is `LeastNumber`, from the library's well-foundedness of the natural numbers.

*Money.*  `LateInv`: while a request is about to void the invoice, all confirmed money is
late, because the request found none.  `CoverInv`: a payment about to make the invoice PAID
covers it with what is held, which is what is confirmed and what was taken back
across a payment (`Held`); cancellations keep the sum of what is held or find the invoice
reopened, and the job never writes VOID or PAID.  `AppendAmount` says that a new row
adds its amount, `MoreAmount` that more payments come to no less, `CoinsFinite` that
these are finite counts.

*Wizard.*  None of the three safety properties is inductive: each is about the moment
when nothing runs, and a save carries the form it was started with through up to
three answers.  `StateInv` of `DraftAutosaveProofs` says what page, save and
server know of each other meanwhile.

- `PageInv`: the form on the page and the one in the ref differ at most in the ids of
  their questions (`Like`), which an answer writes to the one before a render copies
  them to the other; the save that runs started from what the ref calls saved.
- `DraftInv`: the only draft mirrors what the page has noted as saved (`Mirrors`).
  Between creation and reading back it holds what was sent, and nothing is noted.
- `LeaveInv`: once the page is left, the save that runs takes the last form or
  `again` is set; when none runs, the draft covers that form (`Covers`).
- `PublishInv`: a publication that waits has a save that takes a form it remembers, or
  starts over; when it goes on, the draft holds such a form (`Flushed`), and a save
  that starts meanwhile takes one as well.

Each says nothing of the parts whose last request was lost (`unsure`).  The lemmas
follow the hook: what `saveOnce` sends, or why nothing is left to send
(`SaveOnceCases`, `NothingLeft`); what the handlers do to a row (`MadeRow`, `PatchedRow`,
`ReplacedRow`); that adopting ids leaves the words alone (`AdoptTyped`).  A step is a
flush (`FlushStep`), a render or an edit (`ShownStep`), an answer after which the save
goes on, starts over or ends (`ContinueStep`), a failure (`FailStep`), or changes a flag
of a draft only (`ContentsKept`); every action is shown to be one of these.  TLC found
the invariant to hold on the instance of the run, and with four acts and two
failures, before it was proved.

Model-checked only: liveness (`ExpiredOfferLapses`, `EndIsNoticed`, `DueIsChased`,
`EditsAreSaved`), because fairness and ENABLED are beyond TLAPS.  Nothing else the runs
check is without a theorem.  Induction over data, which TLAPS does not do with the
theorems of its library either, was not needed: `Amount` counts units, histories are
functions of the version, and each step is shown to extend them.

## 13. What the runs found

Each is a run that TLC ends with a counterexample; `PROJECT.json` quotes the
sentence it contradicts.

1. A decision can be overwritten (`recruitment_decision_overwritten`): a save checked
   before a rejection writes DRAFT or PENDING over it.
2. A covered invoice can be chased (`invoices_paid_when_covered`): the job lists it, a
   payment makes it PAID, the job writes OVERDUE over it.

The models have further behaviours that surprise.  No passing run can state them
away, and they are listed under `hazards` with a note that names the steps: a
submitted application deleted by a discard that read a draft; the seat of a
declined offer that stays empty when its refill fails; captures that list a
redacted person again; a capture lost by `captureSafely` that the backfill does
not repair; a project approved while its program ends, whose record stays open; a
finalized record that loses evidence resubmitted elsewhere; two teams for one student; a
suspended member made active by an invitation accepted meanwhile; an edit of evidence
written after it was submitted or approved; a contribution issued during the
revocation of its verification; a second draft, after a lost answer or a render
at the wrong moment, and a page that is left and saves its last edit to the first of
them, which the attempt to prove `LeavingSaves` without its hypothesis on drafts brought to light; and
what two operators do at once: two new periods that overlap, a PAID invoice that is
short, one that is covered and never PAID, money on a void one.

## 14. What is not modelled

Inside the modelled parts: the answers and files of an application, the
participant limit of the plan, notifications and the audit log except for the
notices of the job; in a snapshot the titles, dates, KPIs, reviews and the names
of who corrected; the read side of the records; several projects in one instance
of the records run (the module allows them).  Program status COMPLETED and
ARCHIVED are one value in `ProjectRecords` and two in `ProgramRecruitment`, where only
ARCHIVED makes a program read-only.  Contracts, plans, prices, taxes and numbers
of invoices; the staff list of a program; the visibility of a project; in the
wizard the fields of the form besides the title and the questions, which are one
value.

Whole parts: those marked `not_modelled` in `PROJECT.json`, each with its reason.
Most of the code is of this kind: pages that render what the API returns and send
one request per click, handlers that check a permission and write one row,
serializers, seeds, migrations and scripts.  They have no protocol to check.  AI
calls, mail, storage and rendering are I/O; matching and reports are pure
functions of what they read.  This is why the map names the handlers, jobs
and hooks in which order matters and only a small share of all lines.

## 15. Plan

Done: the modules of sections 3 to 10, with the theorems of section 12.

1. Billing: which locks or conditional updates would make one entitlement at a time
   and `PaidWhenCovered` hold for several operators, as a variant of the modules.
2. Theorems: the wizard with an id that survives a render, for any number of drafts;
   `ChainIntact` and the seats once more when `Link` and the other transactions with
   several captures are split.
3. Stale edits of programs: two status edits at once, and what they record.
4. The other metrics of a plan (programs, participants, storage), which are the
   same check before other writes, and the quota of AI tasks, counted afterwards.
