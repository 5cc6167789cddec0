--------------------------- MODULE ProjectRecords ---------------------------
(***************************************************************************)
(* The official records an organization keeps of the projects in its       *)
(* programs: src/backend/src/services/records/, with the handlers of       *)
(* src/backend/src/modules/programs/ that capture, finalize and reopen     *)
(* them.                                                                   *)
(*                                                                         *)
(* A record belongs to a pair of a program and a project.  A capture locks *)
(* the project row, reads the record and the live rows, and writes a new   *)
(* version when the content changed; a correction and a redaction lock the *)
(* record row instead, so a capture that has read the record can meet one  *)
(* of them before it writes.  A transaction with several captures is one   *)
(* action: its writes hold the rows until it commits, and whatever came    *)
(* between its reads and its writes only makes it roll back.  What a       *)
(* handler read before its transaction is a step of its own (...Begin).    *)
(*                                                                         *)
(* A snapshot keeps the people, the evidence, the number of corrections    *)
(* and whether the program has ended; names, titles, dates and the other   *)
(* lists are left out, and evidence is the same submitted or approved.     *)
(* The time is the number of acts so far.  A content hash is the content   *)
(* itself.  COMPLETED and ARCHIVED are both "ended".                       *)
(***************************************************************************)
EXTENDS Integers, FiniteSets, Sequences

CONSTANTS
  Users,       \* people who may be on a team
  Programs,
  Projects,
  NoProgram,   \* Project.programId is null
  Slots,       \* requests the server may be serving at a time
  MaxActs,     \* bound: what people do, students and staff together
  Items,       \* evidence students may submit to a project
  Former       \* pairs with a registration (APPROVED or REMOVED) or a verification
               \* from before there were records

ASSUME PeopleAssumption == IsFiniteSet(Users) /\ Users \cap Nat = {}
ASSUME ProgramsAssumption == NoProgram \notin Programs
ASSUME FormerAssumption == Former \subseteq Programs \X Projects
ASSUME LimitsAssumption == MaxActs \in Nat

VARIABLES
  link,      \* Project.programId
  team,      \* the members of each project
  submitted, \* when each evidence item of a project was submitted last
  rejected,  \* the evidence that was rejected, or its approval revoked
  holders,   \* who holds a verified record of the pair
  ended,     \* programs that are COMPLETED or ARCHIVED
  record,    \* the official record of each pair
  events,    \* its history: version -> snapshot and previous hash
  req,       \* what each slot is serving
  acts       \* what people did so far

sources == <<link, team, submitted, rejected, holders, ended>>
vars == <<sources, record, events, req, acts>>

Pairs == Programs \X Projects

(* A person in a snapshot is a user or, once redacted, a number: the n-th  *)
(* person redacted from a record is redacted:n in all its versions.        *)
Ids == Users \union Nat
NoRows == [id \in {} |-> [on |-> 0, off |-> 0]]
Blank == [people |-> NoRows, evidence |-> {}, corrections |-> 0, ended |-> FALSE, hidden |-> <<>>]
Missing == [status |-> "NONE", version |-> 0, snapshot |-> Blank, finalizedAt |-> 0]

Locked(j) == \E s \in Slots : req[s].op = "capture" /\ req[s].pair[2] = j

-----------------------------------------------------------------------------
(* Snapshots.  people counts the rows a person has, on and off the team.   *)
Listed(s) == DOMAIN s.people
RowsOf(people, id) == IF id \in DOMAIN people THEN people[id] ELSE [on |-> 0, off |-> 0]
AllRows(people, id) == RowsOf(people, id).on + RowsOf(people, id).off

Source(r) ==
  [linked |-> link[r[2]] = r[1], team |-> team[r[2]], submitted |-> submitted[r[2]],
   holders |-> holders[r], ended |-> r[1] \in ended]

OnTeam(src) ==
  [u \in src.team |-> IF src.linked THEN [on |-> 1, off |-> 0] ELSE [on |-> 0, off |-> 1]]

(* Mutant: who left the team is not listed any more.                       *)
CurrentTeamOnly(src, previous) == [id \in src.team |-> [on |-> 1, off |-> 0]]

(* The team now, and behind it whoever an earlier version listed.          *)
CurrentTeam(src, previous) ==
  [id \in src.team \union DOMAIN previous |->
     IF id \in src.team THEN [on |-> 1, off |-> 0] ELSE [on |-> 0, off |-> AllRows(previous, id)]]

KeptTeam(src, previous) == IF previous = NoRows THEN OnTeam(src) ELSE previous

WithHolders(people, who) ==
  [id \in DOMAIN people \union who |->
     IF id \in DOMAIN people THEN people[id] ELSE [on |-> 0, off |-> 1]]

(* redactSnapshot: every row of a hidden person becomes one of redacted:n. *)
Redacted(people, hidden) ==
  LET out == {hidden[n] : n \in 1 .. Len(hidden)}
      nth == {n \in 1 .. Len(hidden) : hidden[n] \in DOMAIN people}
  IN [id \in (DOMAIN people \ out) \union nth |->
        LET extra == IF id \in nth THEN people[hidden[id]] ELSE [on |-> 0, off |-> 0]
        IN [on |-> RowsOf(people, id).on + extra.on, off |-> RowsOf(people, id).off + extra.off]]

(* buildSnapshot: a record that stays final keeps its team and takes only  *)
(* the evidence submitted before it was finalized.                         *)
Build(src, previous, final, finalizedAt) ==
  LET people == IF src.linked /\ ~final
                  THEN CurrentTeam(src, previous.people)
                  ELSE KeptTeam(src, previous.people)
  IN [people |-> Redacted(WithHolders(people, src.holders), previous.hidden),
      evidence |-> {e \in DOMAIN src.submitted : final => src.submitted[e] <= finalizedAt},
      corrections |-> previous.corrections,
      ended |-> src.ended,
      hidden |-> previous.hidden]

-----------------------------------------------------------------------------
(* captureProgramProjectRecord.                                            *)
Reopening(old, relink) == old.status = "FINAL" /\ relink
Closing(old, finalize) == old.status # "FINAL" /\ finalize

Captured(old, src, relink) ==
  Build(src, old.snapshot, old.status = "FINAL" /\ ~relink, old.finalizedAt)

(* The record after a capture that built snapshot: the same one when the   *)
(* content is, and neither its status changes.                             *)
Kept(old, snapshot, finalize, relink) ==
  /\ old.status # "NONE"
  /\ ~Reopening(old, relink)
  /\ ~Closing(old, finalize)
  /\ snapshot = old.snapshot

(* Mutant: a reopened record takes the name of the action as its status.   *)
StatusAsAction(old, finalize, relink) ==
  IF Closing(old, finalize) THEN "FINAL"
  ELSE IF Reopening(old, relink) THEN "REOPENED"
  ELSE IF old.status = "NONE" THEN "ACTIVE"
  ELSE old.status

StatusAfter(old, finalize, relink) ==
  IF Closing(old, finalize) THEN "FINAL"
  ELSE IF old.status = "NONE" \/ Reopening(old, relink) THEN "ACTIVE"
  ELSE old.status

Written(old, snapshot, finalize, relink, at) ==
  IF Kept(old, snapshot, finalize, relink) THEN old
  ELSE [status |-> StatusAfter(old, finalize, relink),
        version |-> old.version + 1,
        snapshot |-> snapshot,
        finalizedAt |-> CASE Closing(old, finalize) -> at
                          [] Reopening(old, relink) -> 0
                          [] OTHER -> old.finalizedAt]

Capture(old, src, finalize, relink) ==
  Written(old, Captured(old, src, relink), finalize, relink, acts)

(* The event of a new version carries the hash of the version before it.   *)
Logged(log, old, new) ==
  IF new.version = old.version THEN log
  ELSE [v \in DOMAIN log \union {new.version} |->
          IF v = new.version THEN [snapshot |-> new.snapshot, previous |-> old.snapshot] ELSE log[v]]

-----------------------------------------------------------------------------
(* Requests.                                                               *)
Idle == [op |-> "idle"]
Serving(s, op) == req[s].op = op
Start(s, request) == req[s] = Idle /\ req' = [req EXCEPT ![s] = request]
End(s) == req' = [req EXCEPT ![s] = Idle]
Acting == acts < MaxActs /\ acts' = acts + 1

(* Each record of pairs goes to first and on to second.                    *)
WriteTwice(pairs, first(_), second(_)) ==
  /\ record' = [r \in Pairs |-> IF r \in pairs THEN second(r) ELSE record[r]]
  /\ events' = [r \in Pairs |->
                  IF r \in pairs
                    THEN Logged(Logged(events[r], record[r], first(r)), first(r), second(r))
                    ELSE events[r]]

Write(pairs, new(_)) == WriteTwice(pairs, new, new)

(* The request stops half-way: its transaction rolls back.  A capture made *)
(* by captureSafely is swallowed: what it should have recorded stays done. *)
RequestFails(s) ==
  /\ req[s] # Idle
  /\ End(s)
  /\ UNCHANGED <<sources, record, events, acts>>

-----------------------------------------------------------------------------
(* What students do without a capture.  An invitation is accepted while    *)
(* the program is not over, and only a project in no program is left; both *)
(* are checked before the member row is written, which waits for the lock  *)
(* of its project row when it is new.                                      *)
JoinBegin(s, j, u) ==
  /\ Acting
  /\ link[j] \notin ended
  /\ u \notin team[j]
  /\ Start(s, [op |-> "join", project |-> j, user |-> u])
  /\ UNCHANGED <<sources, record, events>>

JoinTeam(s) ==
  /\ Serving(s, "join")
  /\ ~Locked(req[s].project)
  /\ team' = [team EXCEPT ![req[s].project] = @ \union {req[s].user}]
  /\ End(s)
  /\ UNCHANGED <<link, submitted, rejected, holders, ended, record, events, acts>>

LeaveBegin(s, j, u) ==
  /\ Acting
  /\ link[j] = NoProgram
  /\ u \in team[j]
  /\ Start(s, [op |-> "leave", project |-> j, user |-> u])
  /\ UNCHANGED <<sources, record, events>>

LeaveTeam(s) ==
  /\ Serving(s, "leave")
  /\ team' = [team EXCEPT ![req[s].project] = @ \ {req[s].user}]
  /\ End(s)
  /\ UNCHANGED <<link, submitted, rejected, holders, ended, record, events, acts>>

(* A draft is submitted, or what was rejected once more.                   *)
SubmitEvidence(j, e) ==
  /\ Acting
  /\ link[j] \in Programs \ ended
  /\ team[j] # {}
  /\ e \in DOMAIN submitted[j] => e \in rejected[j]
  /\ submitted' = [submitted EXCEPT ![j] =
                     [x \in DOMAIN @ \union {e} |-> IF x = e THEN acts' ELSE @[x]]]
  /\ rejected' = [rejected EXCEPT ![j] = @ \ {e}]
  /\ UNCHANGED <<link, team, holders, ended, record, events, req>>

-----------------------------------------------------------------------------
(* A capture with its reads and its writes apart.                          *)
Read(r, issued, refused, finalize) ==
  [op |-> "capture", pair |-> r, issued |-> issued, refused |-> refused,
   finalize |-> finalize, seen |-> record[r], at |-> acts,
   snapshot |-> Captured(record[r], [Source(r) EXCEPT !.holders = @ \union issued], FALSE)]

(* An institutional act on a project of the program, or on one whose       *)
(* record is kept: evidence reviewed or an approval revoked, the project   *)
(* or a member verified, a verification revoked.  It issues somebody a     *)
(* verified record, or refuses evidence, or does neither.                  *)
Act(s, r, issued, refused) ==
  /\ Acting
  /\ link[r[2]] # NoProgram
  /\ link[r[2]] = r[1] \/ record[r].status # "NONE"
  /\ issued \subseteq team[r[2]] \union (Listed(record[r].snapshot) \cap Users)
  /\ refused # {} => /\ issued = {}
                     /\ link[r[2]] = r[1]
                     /\ refused \subseteq DOMAIN submitted[r[2]] \ rejected[r[2]]
  /\ ~Locked(r[2])
  /\ req[s] = Idle
  /\ req' = [req EXCEPT ![s] = Read(r, issued, refused, FALSE)]
  /\ UNCHANGED <<sources, record, events>>

(* Staff assign or take off a team member: the change commits on its own,  *)
(* captureSafely follows.                                                  *)
Assign(s, j, u) ==
  /\ Acting
  /\ link[j] \in Programs
  /\ IF u \in team[j]
       THEN team' = [team EXCEPT ![j] = @ \ {u}]
       ELSE ~Locked(j) /\ team' = [team EXCEPT ![j] = @ \union {u}]
  /\ Start(s, [op |-> "owed", pair |-> <<link[j], j>>, finalize |-> FALSE])
  /\ UNCHANGED <<link, submitted, rejected, holders, ended, record, events>>

(* The backfill script lists what has no record although the project is or *)
(* was in the program, and what is still ACTIVE although its program ended *)
(* or the project left; each is then captured.                             *)
Departed(r) == r[1] \in ended \/ link[r[2]] # r[1]
BackfillBegin(s, r) ==
  /\ \/ record[r].status = "NONE" /\ (link[r[2]] = r[1] \/ holders[r] # {} \/ r \in Former)
     \/ record[r].status = "ACTIVE" /\ Departed(r)
  /\ Start(s, [op |-> "owed", pair |-> r, finalize |-> Departed(r)])
  /\ UNCHANGED <<sources, record, events, acts>>

CaptureBegin(s) ==
  /\ Serving(s, "owed")
  /\ ~Locked(req[s].pair[2])
  /\ req' = [req EXCEPT ![s] = Read(@.pair, {}, {}, @.finalize)]
  /\ UNCHANGED <<sources, record, events, acts>>

(* Mutant: no unique index on the version of an event.                     *)
FreeVersionAlways(r, v) == TRUE
(* The unique index on recordId and version.                               *)
FreeVersion(r, v) == v \notin DOMAIN events[r]

CaptureWrite(s) ==
  /\ Serving(s, "capture")
  /\ LET c == req[s]
         new == Written(c.seen, c.snapshot, c.finalize, FALSE, c.at)
     IN /\ IF new = c.seen THEN UNCHANGED <<record, events>>
             ELSE /\ FreeVersion(c.pair, new.version)
                  /\ record' = [record EXCEPT ![c.pair] = new]
                  /\ events' = [events EXCEPT ![c.pair] = Logged(@, c.seen, new)]
        /\ holders' = [holders EXCEPT ![c.pair] = @ \union c.issued]
        /\ rejected' = [rejected EXCEPT ![c.pair[2]] = @ \union c.refused]
  /\ End(s)
  /\ UNCHANGED <<link, team, submitted, ended, acts>>

-----------------------------------------------------------------------------
(* A registration is approved, or staff create a project in the program    *)
(* (one nobody has joined yet).  The program was read before.              *)
LinkBegin(s, r) ==
  /\ Acting
  /\ link[r[2]] = NoProgram
  /\ r[1] \notin ended \/ team[r[2]] = {}
  /\ Start(s, [op |-> "link", pair |-> r])
  /\ UNCHANGED <<sources, record, events>>

Link(s) ==
  /\ Serving(s, "link")
  /\ LET new(r) == Capture(record[r], [Source(r) EXCEPT !.linked = TRUE], FALSE, TRUE)
         j == req[s].pair[2]
     IN /\ ~Locked(j)
        /\ link' = [link EXCEPT ![j] = req[s].pair[1]]
        /\ Write({req[s].pair}, new)
  /\ End(s)
  /\ UNCHANGED <<team, submitted, rejected, holders, ended, acts>>

(* Staff take a project out of the program: captured as it stands, then    *)
(* unlinked whatever program it is in by now, then finalized.              *)
RemoveBegin(s, r) ==
  /\ Acting
  /\ link[r[2]] = r[1]
  /\ Start(s, [op |-> "remove", pair |-> r])
  /\ UNCHANGED <<sources, record, events>>

Remove(s) ==
  /\ Serving(s, "remove")
  /\ LET removing(r) == Capture(record[r], Source(r), FALSE, FALSE)
         removed(r) == Capture(removing(r), [Source(r) EXCEPT !.linked = FALSE], TRUE, FALSE)
         j == req[s].pair[2]
     IN /\ ~Locked(j)
        /\ link' = [link EXCEPT ![j] = NoProgram]
        /\ WriteTwice({req[s].pair}, removing, removed)
  /\ End(s)
  /\ UNCHANGED <<team, submitted, rejected, holders, ended, acts>>

(* Staff move it to another program: finalized here, opened there.         *)
MoveBegin(s, r, p) ==
  /\ Acting
  /\ link[r[2]] = r[1]
  /\ p # r[1]
  /\ Start(s, [op |-> "move", pair |-> r, to |-> p])
  /\ UNCHANGED <<sources, record, events>>

Move(s) ==
  /\ Serving(s, "move")
  /\ LET out == req[s].pair
         in == <<req[s].to, out[2]>>
         new(r) == IF r = out THEN Capture(record[r], Source(r), TRUE, FALSE)
                   ELSE Capture(record[r], [Source(r) EXCEPT !.linked = TRUE], FALSE, TRUE)
     IN /\ ~Locked(out[2])
        /\ link' = [link EXCEPT ![out[2]] = in[1]]
        /\ Write({out, in}, new)
  /\ End(s)
  /\ UNCHANGED <<team, submitted, rejected, holders, ended, acts>>

(* Staff remove a participant, and with it from every team of theirs in    *)
(* the program: captured with them, then without.                          *)
RemoveParticipant(p, u) ==
  LET teams == {j \in Projects : link[j] = p /\ u \in team[j]}
      removing(r) == Capture(record[r], Source(r), FALSE, FALSE)
      removed(r) == Capture(removing(r), [Source(r) EXCEPT !.team = @ \ {u}], FALSE, FALSE)
  IN /\ Acting
     /\ teams # {}
     /\ \A j \in teams : ~Locked(j)
     /\ WriteTwice({p} \X teams, removing, removed)
     /\ team' = [j \in Projects |-> IF j \in teams THEN team[j] \ {u} ELSE team[j]]
     /\ UNCHANGED <<link, submitted, rejected, holders, ended, req>>

(* PATCH /:programId with a status: inside the transaction the projects to *)
(* capture are looked up first, then captured one by one.                  *)
InProgram(p) == {j \in Projects : link[j] = p}
StillOpen(p) == {j \in Projects : record[<<p, j>>].status = "ACTIVE"}
Patching(p) == \E s \in Slots : req[s].op \in {"end", "resume"} /\ req[s].program = p

EndBegin(s, p) ==
  /\ Acting
  /\ p \notin ended
  /\ ~Patching(p)
  /\ Start(s, [op |-> "end", program |-> p, projects |-> InProgram(p) \union StillOpen(p)])
  /\ UNCHANGED <<sources, record, events>>

EndProgram(s) ==
  /\ Serving(s, "end")
  /\ \A j \in req[s].projects : ~Locked(j)
  /\ ended' = ended \union {req[s].program}
  /\ LET new(r) == Capture(record[r], [Source(r) EXCEPT !.ended = TRUE], TRUE, FALSE)
     IN Write({req[s].program} \X req[s].projects, new)
  /\ End(s)
  /\ UNCHANGED <<link, team, submitted, rejected, holders, acts>>

ResumeBegin(s, p) ==
  /\ Acting
  /\ p \in ended
  /\ ~Patching(p)
  /\ Start(s, [op |-> "resume", program |-> p, projects |-> InProgram(p)])
  /\ UNCHANGED <<sources, record, events>>

ResumeProgram(s) ==
  /\ Serving(s, "resume")
  /\ \A j \in req[s].projects : ~Locked(j)
  /\ ended' = ended \ {req[s].program}
  /\ LET new(r) == Capture(record[r], [Source(r) EXCEPT !.ended = FALSE], FALSE, TRUE)
     IN Write({req[s].program} \X req[s].projects, new)
  /\ End(s)
  /\ UNCHANGED <<link, team, submitted, rejected, holders, acts>>

-----------------------------------------------------------------------------
(* Mutant: a correction reads the live rows as if the record were open.    *)
FreshUnfinalized(r) == Build(Source(r), record[r].snapshot, FALSE, 0)
Fresh(r) ==
  Build(Source(r), record[r].snapshot, record[r].status = "FINAL", record[r].finalizedAt)

(* correctRecord: the source is read again and a correction is added.      *)
Correct(r) ==
  /\ Acting
  /\ record[r].status # "NONE"
  /\ LET new(x) == [record[x] EXCEPT !.version = @ + 1,
                                     !.snapshot = [Fresh(x) EXCEPT !.corrections = @ + 1]]
     IN Write({r}, new)
  /\ UNCHANGED <<sources, req>>

(* redactParticipant: every version loses the person, the chain of hashes  *)
(* is computed anew, and one more version is added.  The person may be one *)
(* the snapshot lists or one it mentions elsewhere, as a reviewer or an    *)
(* author, which is not kept here: anybody may be redacted.                *)
Hide(snapshot, hidden) ==
  [snapshot EXCEPT !.people = Redacted(@, hidden), !.hidden = hidden]

Redact(r, u) ==
  /\ Acting
  /\ record[r].version > 0
  /\ \A n \in 1 .. Len(record[r].snapshot.hidden) : record[r].snapshot.hidden[n] # u
  /\ LET old == record[r]
         hidden == Append(old.snapshot.hidden, u)
         page == [v \in DOMAIN events[r] |-> Hide(events[r][v].snapshot, hidden)]
         past == [v \in DOMAIN page |->
                    [snapshot |-> page[v], previous |-> IF v = 1 THEN Blank ELSE page[v - 1]]]
         clean == [old EXCEPT !.snapshot = Hide(old.snapshot, hidden)]
         new == [clean EXCEPT !.version = @ + 1]
     IN /\ record' = [record EXCEPT ![r] = new]
        /\ events' = [events EXCEPT ![r] = Logged(past, clean, new)]
  /\ UNCHANGED <<sources, req>>

-----------------------------------------------------------------------------
Init ==
  /\ link \in [Projects -> Programs \union {NoProgram}]
  /\ team \in [Projects -> SUBSET Users]
  /\ submitted = [j \in Projects |-> [e \in {} |-> 0]]
  /\ rejected = [j \in Projects |-> {}]
  /\ holders = [r \in Pairs |-> {}]
  /\ ended = {}
  /\ record = [r \in Pairs |-> Missing]
  /\ events = [r \in Pairs |-> [v \in {} |-> {}]]
  /\ req = [s \in Slots |-> Idle]
  /\ acts = 0

AtMostOne(S) == {{}} \union {{x} : x \in S}

StudentNext ==
  \E j \in Projects :
    \/ \E s \in Slots, u \in Users : JoinBegin(s, j, u) \/ LeaveBegin(s, j, u)
    \/ \E e \in Items : SubmitEvidence(j, e)

StaffNext ==
  \/ \E s \in Slots, r \in Pairs :
       \/ \E issued \in AtMostOne(Users), refused \in AtMostOne(Items) : Act(s, r, issued, refused)
       \/ LinkBegin(s, r) \/ RemoveBegin(s, r) \/ BackfillBegin(s, r)
       \/ \E p \in Programs : MoveBegin(s, r, p)
  \/ \E s \in Slots, j \in Projects, u \in Users : Assign(s, j, u)
  \/ \E s \in Slots, p \in Programs : EndBegin(s, p) \/ ResumeBegin(s, p)
  \/ \E p \in Programs, u \in Users : RemoveParticipant(p, u)
  \/ \E r \in Pairs, u \in Users : Redact(r, u)
  \/ \E r \in Pairs : Correct(r)

RequestNext(s) ==
  \/ CaptureBegin(s) \/ CaptureWrite(s)
  \/ JoinTeam(s) \/ LeaveTeam(s)
  \/ Link(s) \/ Remove(s) \/ Move(s)
  \/ EndProgram(s) \/ ResumeProgram(s)
  \/ RequestFails(s)

Next == StudentNext \/ StaffNext \/ \E s \in Slots : RequestNext(s)

Spec == Init /\ [][Next]_vars

-----------------------------------------------------------------------------
Counts == [on : Nat, off : Nat]
IsSnapshot(s) ==
  /\ DOMAIN s = {"people", "evidence", "corrections", "ended", "hidden"}
  /\ DOMAIN s.people \subseteq Ids
  /\ s.people \in [DOMAIN s.people -> Counts]
  /\ s.evidence \subseteq Items
  /\ s.corrections \in Nat
  /\ s.ended \in BOOLEAN
  /\ s.hidden \in Seq(Users)

IsRecord(c) ==
  /\ DOMAIN c = {"status", "version", "snapshot", "finalizedAt"}
  /\ c.status \in {"NONE", "ACTIVE", "FINAL"}
  /\ c.version \in Nat
  /\ c.finalizedAt \in Nat
  /\ IsSnapshot(c.snapshot)

IsRequest(q) ==
  CASE q.op = "idle" -> q = Idle
    [] q.op = "owed" -> q.pair \in Pairs /\ q.finalize \in BOOLEAN
    [] q.op = "capture" -> /\ q.pair \in Pairs
                           /\ q.issued \subseteq Users /\ q.refused \subseteq Items
                           /\ q.finalize \in BOOLEAN /\ q.at \in Nat
                           /\ IsRecord(q.seen) /\ IsSnapshot(q.snapshot)
    [] q.op \in {"join", "leave"} -> q.project \in Projects /\ q.user \in Users
    [] q.op \in {"link", "remove"} -> q.pair \in Pairs
    [] q.op = "move" -> q.pair \in Pairs /\ q.to \in Programs
    [] q.op \in {"end", "resume"} -> q.program \in Programs /\ q.projects \subseteq Projects

TypeOK ==
  /\ link \in [Projects -> Programs \union {NoProgram}]
  /\ team \in [Projects -> SUBSET Users]
  /\ DOMAIN submitted = Projects
  /\ \A j \in Projects : \E S \in SUBSET Items : submitted[j] \in [S -> Nat]
  /\ rejected \in [Projects -> SUBSET Items]
  /\ holders \in [Pairs -> SUBSET Users]
  /\ ended \subseteq Programs
  /\ DOMAIN record = Pairs /\ \A r \in Pairs : IsRecord(record[r])
  /\ DOMAIN events = Pairs
  /\ \A r \in Pairs : \A v \in DOMAIN events[r] :
       IsSnapshot(events[r][v].snapshot) /\ IsSnapshot(events[r][v].previous)
  /\ DOMAIN req = Slots /\ \A s \in Slots : IsRequest(req[s])
  /\ acts \in Nat

(* Captures, corrections and redactions of one record, whatever lock each  *)
(* of them takes, give it consecutive versions: the record is its last     *)
(* version and the hash of every version is the previousHash of the next.  *)
ChainIntact ==
  \A r \in Pairs :
    /\ DOMAIN events[r] = 1 .. record[r].version
    /\ record[r].version > 0 => events[r][record[r].version].snapshot = record[r].snapshot
    /\ \A v \in DOMAIN events[r] :
         events[r][v].previous = IF v = 1 THEN Blank ELSE events[r][v - 1].snapshot

(* The history as its abstract specification sees it: nothing recorded is  *)
(* rewritten, nobody named drops out, and who is redacted stays out.       *)
Named(s) == Listed(s) \cap Users
HiddenIn(s) == {s.hidden[n] : n \in 1 .. Len(s.hidden)}
History == INSTANCE RecordHistory WITH
  Keys <- Pairs,
  pages <- [r \in Pairs |-> [v \in 1 .. record[r].version |-> Named(events[r][v].snapshot)]],
  hidden <- [r \in Pairs |-> HiddenIn(record[r].snapshot)]
ImplementsHistory == History!HistorySpec

(* A record that was finalized with somebody on it keeps its team while it *)
(* stays final, whatever happens to the project; only a redaction turns a  *)
(* member into a pseudonym.                                                *)
TeamOf(s) == {id \in Listed(s) : s.people[id].on > 0}
FinalTeamKept ==
  [][\A r \in Pairs :
       record[r].status = "FINAL" /\ record'[r].status = "FINAL"
       /\ Listed(record[r].snapshot) # {} =>
         LET before == record[r].snapshot
             after == record'[r].snapshot
         IN /\ TeamOf(after) \cap Users = (TeamOf(before) \cap Users) \ HiddenIn(after)
            /\ Cardinality(TeamOf(after)) = Cardinality(TeamOf(before))
            /\ record'[r].finalizedAt = record[r].finalizedAt]_vars
=============================================================================
