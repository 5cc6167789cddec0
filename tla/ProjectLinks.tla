----------------------------- MODULE ProjectLinks -----------------------------
(***************************************************************************)
(* How a project comes to belong to a program and stops belonging to it,   *)
(* and when it may be deleted: src/backend/src/modules/programs/           *)
(* (programProjectRegistrations, programProjectReviews and programs        *)
(* .routes.ts), src/backend/src/services/projects/projectDeletion.ts and   *)
(* the team handlers of projects.routes.ts.                                *)
(*                                                                         *)
(* A request occupies a slot from what it reads to what it writes.  A      *)
(* deletion and a registration that approves itself hold the project row   *)
(* meanwhile: the first by SELECT FOR UPDATE, the second by the foreign    *)
(* key of the row it has inserted, which also keeps a second open request  *)
(* of the project waiting (the partial unique index on PENDING).           *)
(*                                                                         *)
(* Left out: the status of a program, plan limits and visibility, which    *)
(* only refuse more, team invitations (an accepted one is AddMember), and  *)
(* who may call what beyond the conditions below.                          *)
(***************************************************************************)
EXTENDS Integers, FiniteSets

CONSTANTS
  Users,         \* students
  Staff,         \* the owner of a project the institution creates
  Projects,
  Programs,
  AutoApprove,   \* programs without requireProjectApproval
  Multiple,      \* programs with allowMultipleProjects
  OrgMembers,    \* students who are ACTIVE members of the organization
  None,          \* null
  Slots,         \* requests the server may be serving at a time
  MaxRequests    \* bound: registration rows

ASSUME NamesAssumption == Staff \notin Users /\ None \notin Programs \cup Projects
ASSUME PoliciesAssumption ==
  AutoApprove \subseteq Programs /\ Multiple \subseteq Programs /\ OrgMembers \subseteq Users
ASSUME RequestsAssumption == MaxRequests \in Nat

VARIABLES
  project,       \* Project: state, owner, programId and team of each
  registration,  \* ProgramProjectRegistration, in the order of creation
  participants,  \* ProgramParticipant of each program
  gone,          \* programs that were deleted
  req,           \* what each slot is serving
  everIn         \* history: projects that have been in a program

vars == <<project, registration, participants, gone, req, everIn>>

Absent == [state |-> "absent", owner |-> None, program |-> None, team |-> {}]
New(owner, program, team) ==
  [state |-> "live", owner |-> owner, program |-> program, team |-> team]
Live(a) == project[a].state = "live"
isStudentLed(a) == project[a].owner \in project[a].team

Rows == DOMAIN registration
RowsOf(a, statuses) == {i \in Rows : registration[i].project = a /\ registration[i].status \in statuses}
Row(p, a, status) == [program |-> p, project |-> a, status |-> status]
Add(r) == registration' = [i \in Rows \cup {Cardinality(Rows) + 1} |->
                             IF i \in Rows THEN registration[i] ELSE r]
Room == Cardinality(Rows) < MaxRequests

Free == [op |-> "none"]
Serve(s, r) == req' = [req EXCEPT ![s] = r]
Answer(s) == Serve(s, Free)

(* Mutant: a deletion checks without locking the row.                      *)
HeldByLinks(a) == \E s \in Slots : req[s].op = "link" /\ req[s].project = a

(* Whoever holds the row of a project, and how the others wait for it.     *)
Held(a) == \E s \in Slots : req[s].op \in {"link", "delete"} /\ req[s].project = a

Enter(a, p) ==
  /\ project' = [project EXCEPT ![a].program = p]
  /\ everIn' = everIn \cup {a}

------------------------------------------------------------------------------
(* findTeamConflicts: who of a team is on another team of the program,     *)
(* approved or with an open request.                                       *)
InProgram(b, p) ==
  \/ project[b].program = p
  \/ \E i \in RowsOf(b, {"PENDING"}) : registration[i].program = p
Conflicts(p, us, a) ==
  IF p \in Multiple THEN {}
  ELSE {u \in us : \E b \in Projects \ {a} : u \in project[b].team /\ InProgram(b, p)}

assertEligible(a, p) ==
  /\ Live(a) /\ project[a].program = None
  /\ project[a].team \subseteq participants[p] \cup OrgMembers
  /\ Conflicts(p, project[a].team, a) = {}

------------------------------------------------------------------------------
(* POST / of projects.routes.ts, and POST /:programId/projects by staff.   *)
CreateProject(a, u) ==
  /\ project[a] = Absent
  /\ project' = [project EXCEPT ![a] = New(u, None, {u})]
  /\ UNCHANGED <<registration, participants, gone, req, everIn>>

CreateProgramProject(a, p) ==
  /\ project[a] = Absent /\ p \notin gone
  /\ project' = [project EXCEPT ![a] = New(Staff, p, {})]
  /\ everIn' = everIn \cup {a}
  /\ UNCHANGED <<registration, participants, gone, req>>

(* POST /:programId/project-requests: an existing project, by its owner or *)
(* a member who has the role of leader, which any member may be given ...  *)
RequestExisting(s, a, p) ==
  /\ req[s] = Free /\ p \notin gone
  /\ assertEligible(a, p)
  /\ (project[a].team \cup {project[a].owner}) \cap participants[p] # {}
  /\ Serve(s, [op |-> "file", program |-> p, project |-> a])
  /\ UNCHANGED <<project, registration, participants, gone, everIn>>

(* ... or a new one, made in a transaction of its own after the check.     *)
RequestNew(s, u, p) ==
  /\ req[s] = Free /\ p \notin gone
  /\ u \in participants[p] /\ Conflicts(p, {u}, None) = {}
  /\ Serve(s, [op |-> "new", program |-> p, user |-> u])
  /\ UNCHANGED <<project, registration, participants, gone, everIn>>

RequestCreates(s, a) ==
  /\ req[s].op = "new" /\ project[a] = Absent
  /\ project' = [project EXCEPT ![a] = New(req[s].user, None, {req[s].user})]
  /\ Serve(s, [op |-> "file", program |-> req[s].program, project |-> a])
  /\ UNCHANGED <<registration, participants, gone, everIn>>

(* The request is inserted: the index allows one open request per project, *)
(* and the foreign keys a live project and a program.                      *)
RequestFiled(s) ==
  /\ req[s].op = "file"
  /\ LET a == req[s].project
         p == req[s].program
     IN  /\ ~Held(a)
         /\ IF ~Live(a) \/ p \in gone \/ RowsOf(a, {"PENDING"}) # {} \/ ~Room
            THEN Answer(s) /\ UNCHANGED registration
            ELSE IF p \notin AutoApprove
                 THEN Answer(s) /\ Add(Row(p, a, "PENDING"))
                 ELSE /\ IF assertEligible(a, p)
                         THEN Serve(s, [op |-> "link", program |-> p, project |-> a,
                                        team |-> project[a].team])
                         ELSE Answer(s)
                      /\ UNCHANGED registration
  /\ UNCHANGED <<project, participants, gone, everIn>>

(* A program that asks for no approval approves in the same transaction.   *)
RequestLinks(s) ==
  /\ req[s].op = "link"
  /\ LET a == req[s].project
         p == req[s].program
     IN  IF p \notin gone /\ Room
         THEN /\ Add(Row(p, a, "APPROVED"))
              /\ Enter(a, p)
              /\ participants' = [participants EXCEPT ![p] = @ \cup req[s].team]
         ELSE UNCHANGED <<registration, project, everIn, participants>>
  /\ Answer(s)
  /\ UNCHANGED gone

------------------------------------------------------------------------------
(* PATCH /:programId/project-requests/:requestId.  approveInTx reads the   *)
(* team and everything it has to satisfy first; then it claims the request *)
(* and takes the project as it is by now.                                  *)
Approve(s, i) ==
  /\ req[s] = Free
  /\ i \in Rows /\ registration[i].status = "PENDING"
  /\ LET a == registration[i].project
     IN  /\ a # None /\ assertEligible(a, registration[i].program)
         /\ Serve(s, [op |-> "approve", row |-> i, project |-> a, team |-> project[a].team])
  /\ UNCHANGED <<project, registration, participants, gone, everIn>>

Approved(s) ==
  /\ req[s].op = "approve"
  /\ ~Held(req[s].project)
  /\ LET i == req[s].row
         a == req[s].project
         p == registration[i].program
     IN  IF registration[i].status = "PENDING" /\ Live(a)
         THEN /\ registration' = [registration EXCEPT ![i].status = "APPROVED"]
              /\ Enter(a, p)
              /\ participants' = [participants EXCEPT ![p] = @ \cup req[s].team]
         ELSE UNCHANGED <<registration, project, everIn, participants>>
  /\ Answer(s)
  /\ UNCHANGED gone

(* Staff reject, the requester withdraws.                                  *)
Refuse(s, i, status) ==
  /\ req[s] = Free
  /\ i \in Rows /\ registration[i].status = "PENDING" /\ registration[i].project # None
  /\ Serve(s, [op |-> "refuse", row |-> i, status |-> status])
  /\ UNCHANGED <<project, registration, participants, gone, everIn>>

(* Mutant: the request that was read as open is refused by its id.         *)
RefusedById(s) ==
  /\ req[s].op = "refuse"
  /\ registration' = [registration EXCEPT ![req[s].row].status = req[s].status]
  /\ Answer(s)
  /\ UNCHANGED <<project, participants, gone, everIn>>

Refused(s) ==
  /\ req[s].op = "refuse"
  /\ registration' = [registration EXCEPT ![req[s].row].status =
                        IF @ = "PENDING" THEN req[s].status ELSE @]
  /\ Answer(s)
  /\ UNCHANGED <<project, participants, gone, everIn>>

(* POST /:programId/projects/:projectId/remove, by a member of staff who   *)
(* found the project in the program and led by students.                   *)
Remove(s, a) ==
  /\ req[s] = Free
  /\ Live(a) /\ project[a].program # None /\ isStudentLed(a)
  /\ Serve(s, [op |-> "remove", project |-> a, program |-> project[a].program])
  /\ UNCHANGED <<project, registration, participants, gone, everIn>>

(* The link goes with whatever program it names by now; the latest         *)
(* approved request of this program is closed, or a row made to say so.    *)
LastApproved(a, p) ==
  LET rows == {i \in RowsOf(a, {"APPROVED"}) : registration[i].program = p}
  IN  {i \in rows : \A j \in rows : j <= i}

(* Mutant: without an approved request nothing is left to say so.          *)
RemovedSilently(s) ==
  /\ req[s].op = "remove"
  /\ ~Held(req[s].project)
  /\ LET a == req[s].project
         p == req[s].program
         last == LastApproved(a, p)
     IN  IF Live(a) /\ p \notin gone
         THEN /\ project' = [project EXCEPT ![a].program = None]
              /\ registration' = [i \in Rows |-> IF i \in last THEN Row(p, a, "REMOVED")
                                                 ELSE registration[i]]
         ELSE UNCHANGED <<project, registration>>
  /\ Answer(s)
  /\ UNCHANGED <<participants, gone, everIn>>

Removed(s) ==
  /\ req[s].op = "remove"
  /\ ~Held(req[s].project)
  /\ LET a == req[s].project
         p == req[s].program
         last == LastApproved(a, p)
     IN  IF Live(a) /\ (last # {} \/ (p \notin gone /\ Room))
         THEN /\ project' = [project EXCEPT ![a].program = None]
              /\ IF last # {}
                 THEN registration' = [i \in Rows |-> IF i \in last THEN Row(p, a, "REMOVED")
                                                      ELSE registration[i]]
                 ELSE Add(Row(p, a, "REMOVED"))
         ELSE UNCHANGED <<project, registration>>
  /\ Answer(s)
  /\ UNCHANGED <<participants, gone, everIn>>

(* POST /:programId/projects/:projectId/move.  Only teams that are in the  *)
(* target program count, not those with an open request.                   *)
Move(s, a, to) ==
  /\ req[s] = Free
  /\ Live(a) /\ project[a].program # None /\ to \notin gone \cup {project[a].program}
  /\ \A b \in Projects : project[b].program = to => project[b].team \cap project[a].team = {}
  /\ Serve(s, [op |-> "move", project |-> a, program |-> to, team |-> project[a].team])
  /\ UNCHANGED <<project, registration, participants, gone, everIn>>

Moved(s) ==
  /\ req[s].op = "move"
  /\ ~Held(req[s].project)
  /\ LET p == req[s].program
     IN  IF Live(req[s].project) /\ p \notin gone
         THEN /\ Enter(req[s].project, p)
              /\ participants' = [participants EXCEPT ![p] = @ \cup req[s].team]
         ELSE UNCHANGED <<project, everIn, participants>>
  /\ Answer(s)
  /\ UNCHANGED <<registration, gone>>

------------------------------------------------------------------------------
(* A member of an independent team is added by its leader or accepts an    *)
(* invitation; on a program team the invitation or the assignment by staff *)
(* looks for other teams first (assertProgramInvitee).                     *)
AddMember(s, a, u) ==
  /\ req[s] = Free
  /\ Live(a) /\ u \notin project[a].team
  /\ LET p == project[a].program
     IN  p # None => u \in participants[p] /\ Conflicts(p, {u}, a) = {}
  /\ Serve(s, [op |-> "join", project |-> a, user |-> u])
  /\ UNCHANGED <<project, registration, participants, gone, everIn>>

MemberAdded(s) ==
  /\ req[s].op = "join"
  /\ LET a == req[s].project
     IN  /\ ~\E t \in Slots : req[t].op = "delete" /\ req[t].project = a
         /\ project' = IF Live(a) THEN [project EXCEPT ![a].team = @ \cup {req[s].user}]
                       ELSE project
  /\ Answer(s)
  /\ UNCHANGED <<registration, participants, gone, everIn>>

(* DELETE /:id/members/me, and DELETE .../members/:userId by staff: all    *)
(* but the owner may go, in a program or not.                              *)
MemberLeaves(a, u) ==
  /\ Live(a) /\ u \in project[a].team \ {project[a].owner}
  /\ project' = [project EXCEPT ![a].team = @ \ {u}]
  /\ UNCHANGED <<registration, participants, gone, req, everIn>>

(* POST and DELETE /:programId/participants.  A participant who goes       *)
(* leaves the teams of the program as well, even one they created.         *)
AddParticipant(p, u) ==
  /\ p \notin gone /\ u \notin participants[p]
  /\ participants' = [participants EXCEPT ![p] = @ \cup {u}]
  /\ UNCHANGED <<project, registration, gone, req, everIn>>

RemoveParticipant(p, u) ==
  /\ p \notin gone /\ u \in participants[p]
  /\ \A a \in Projects : project[a].program = p => ~Held(a)
  /\ participants' = [participants EXCEPT ![p] = @ \ {u}]
  /\ project' = [a \in Projects |-> IF project[a].program # p THEN project[a]
                                    ELSE [project[a] EXCEPT !.team = @ \ {u}]]
  /\ UNCHANGED <<registration, gone, req, everIn>>

------------------------------------------------------------------------------
(* DELETE /:id: the checks of projectDeletionCheck under the row lock.     *)
Retained(a) == project[a].program # None \/ RowsOf(a, {"APPROVED", "REMOVED", "PENDING"}) # {}

DeleteProject(s, a) ==
  /\ req[s] = Free /\ Live(a) /\ ~Held(a)
  /\ ~Retained(a)
  /\ Serve(s, [op |-> "delete", project |-> a])
  /\ UNCHANGED <<project, registration, participants, gone, everIn>>

(* Mutant: the requests of a deleted project keep naming it.               *)
ProjectDeletedOnly(s) ==
  /\ req[s].op = "delete"
  /\ project' = [project EXCEPT ![req[s].project] = [Absent EXCEPT !.state = "deleted"]]
  /\ Answer(s)
  /\ UNCHANGED <<registration, participants, gone, everIn>>

(* The requests that were refused stay, without their project.             *)
ProjectDeleted(s) ==
  /\ req[s].op = "delete"
  /\ LET a == req[s].project
     IN  /\ project' = [project EXCEPT ![a] = [Absent EXCEPT !.state = "deleted"]]
         /\ registration' = [i \in Rows |-> IF registration[i].project = a
                                            THEN [registration[i] EXCEPT !.project = None]
                                            ELSE registration[i]]
  /\ Answer(s)
  /\ UNCHANGED <<participants, gone, everIn>>

(* DELETE /:programId counts what the program holds, then deletes it: the  *)
(* foreign keys of requests and participants stop it, a project that came  *)
(* in between does not: the program lets go of it, history and all.        *)
DeleteProgram(s, p) ==
  /\ req[s] = Free /\ p \notin gone
  /\ \A a \in Projects : project[a].program # p
  /\ participants[p] = {}
  /\ \A i \in Rows : registration[i].program # p
  /\ Serve(s, [op |-> "deleteProgram", program |-> p])
  /\ UNCHANGED <<project, registration, participants, gone, everIn>>

ProgramDeleted(s) ==
  /\ req[s].op = "deleteProgram"
  /\ LET p == req[s].program
     IN  /\ \A a \in Projects : project[a].program = p => ~Held(a)
         /\ IF p \notin gone /\ participants[p] = {} /\ \A i \in Rows : registration[i].program # p
            THEN /\ gone' = gone \cup {p}
                 /\ project' = [a \in Projects |-> IF project[a].program # p THEN project[a]
                                                   ELSE [project[a] EXCEPT !.program = None]]
                 /\ everIn' = everIn \ {a \in Projects : project[a].program = p}
            ELSE UNCHANGED <<gone, project, everIn>>
  /\ Answer(s)
  /\ UNCHANGED <<registration, participants>>

------------------------------------------------------------------------------
Init ==
  /\ project = [a \in Projects |-> Absent]
  /\ registration = [i \in {} |-> Row(None, None, "PENDING")]
  /\ participants \in {[p \in Programs |-> Users], [p \in Programs |-> {}]}
  /\ gone = {}
  /\ req = [s \in Slots |-> Free]
  /\ everIn = {}

Link(s) ==
  \/ \E u \in Users, p \in Programs : RequestNew(s, u, p)
  \/ \E a \in Projects, p \in Programs : RequestExisting(s, a, p) \/ Move(s, a, p)
  \/ \E a \in Projects : RequestCreates(s, a) \/ Remove(s, a)
  \/ \E i \in 1..MaxRequests : Approve(s, i)
  \/ \E i \in 1..MaxRequests, status \in {"REJECTED", "WITHDRAWN"} : Refuse(s, i, status)
  \/ RequestFiled(s) \/ RequestLinks(s) \/ Approved(s) \/ Refused(s) \/ Removed(s) \/ Moved(s)

Team(s) ==
  \/ \E a \in Projects, u \in Users : AddMember(s, a, u)
  \/ MemberAdded(s)

Deletion(s) ==
  \/ \E a \in Projects : DeleteProject(s, a)
  \/ \E p \in Programs : DeleteProgram(s, p)
  \/ ProjectDeleted(s) \/ ProgramDeleted(s)

Next ==
  \/ \E s \in Slots : Link(s) \/ Team(s) \/ Deletion(s)
  \/ \E a \in Projects, u \in Users : CreateProject(a, u) \/ MemberLeaves(a, u)
  \/ \E a \in Projects, p \in Programs : CreateProgramProject(a, p)
  \/ \E p \in Programs, u \in Users : AddParticipant(p, u) \/ RemoveParticipant(p, u)

Spec == Init /\ [][Next]_vars

------------------------------------------------------------------------------
Statuses == {"PENDING", "APPROVED", "REJECTED", "WITHDRAWN", "REMOVED"}
Project == {Absent, [Absent EXCEPT !.state = "deleted"]}
  \cup [state : {"live"}, owner : Users \cup {Staff}, program : Programs \cup {None},
        team : SUBSET Users]
Registration == [program : Programs, project : Projects \cup {None}, status : Statuses]
Filing == [op : {"file"}, program : Programs, project : Projects]
Founding == [op : {"new"}, program : Programs, user : Users]
Entering == [op : {"link", "move"}, program : Programs, project : Projects, team : SUBSET Users]
Approving == [op : {"approve"}, row : 1..MaxRequests, project : Projects, team : SUBSET Users]
Refusing == [op : {"refuse"}, row : 1..MaxRequests, status : {"REJECTED", "WITHDRAWN"}]
Removing == [op : {"remove"}, project : Projects, program : Programs]
Joining == [op : {"join"}, project : Projects, user : Users]
Deleting == [op : {"delete"}, project : Projects]
Closing == [op : {"deleteProgram"}, program : Programs]
Request == {Free} \cup Filing \cup Founding \cup Entering \cup Approving \cup Refusing
             \cup Removing \cup Joining \cup Deleting \cup Closing

(* Every variable stays in its range, the rows of the requests are         *)
(* numbered without a gap, and none names a project that was deleted,      *)
(* however requests and deletions cross.                                   *)
NamesLive == \A i \in Rows : registration[i].project # None => Live(registration[i].project)
TypeOK ==
  /\ project \in [Projects -> Project]
  /\ Rows \in {1..n : n \in 0..MaxRequests}
  /\ registration \in [Rows -> Registration]
  /\ NamesLive
  /\ participants \in [Programs -> SUBSET Users]
  /\ gone \subseteq Programs
  /\ req \in [Slots -> Request]
  /\ everIn \subseteq Projects

(* Institutional history survives: a project that has been in a program is *)
(* not deleted, unless that program let go of it, and a request without    *)
(* its project was refused.  Nothing slips in between the check and the    *)
(* delete (deletePersonalProject).                                         *)
RetainedNotDeleted ==
  /\ \A a \in everIn : project[a].state # "deleted"
  /\ \A i \in Rows :
       registration[i].project = None => registration[i].status \in {"REJECTED", "WITHDRAWN"}

(* A request is decided once: it leaves PENDING for one decision, and the  *)
(* only thing that may follow is the removal of an approved one, however   *)
(* many staff and students decide it at a time.                            *)
DecidedOnce ==
  [][\A i \in Rows :
       LET before == registration[i].status
           after == registration'[i].status
       IN  after # before => \/ before = "PENDING" /\ after # "REMOVED"
                             \/ before = "APPROVED" /\ after = "REMOVED"]_vars

(* A project that was in a program and is in none any more has a row that  *)
(* says it was removed, whichever program that was when the handler read   *)
(* it and however many handlers took it away: this is what blocks its      *)
(* deletion for good.                                                      *)
RemovalIsOnRecord ==
  \A a \in everIn : project[a].program = None => RowsOf(a, {"REMOVED"}) # {}
=============================================================================
