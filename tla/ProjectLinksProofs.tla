------------------------- MODULE ProjectLinksProofs -------------------------
(***************************************************************************)
(* Theorems about ProjectLinks for any number of students, projects,       *)
(* programs and requests.                                                  *)
(***************************************************************************)
EXTENDS ProjectLinks, FiniteSetTheorems, TLAPS

USE NamesAssumption, PoliciesAssumption, RequestsAssumption

(* The operation of a slot says what kind of record it holds.              *)
LEMMA OpTells ==
  /\ Free.op = "none"
  /\ \A r \in Filing : r.op = "file"
  /\ \A r \in Founding : r.op = "new"
  /\ \A r \in Entering : r.op \in {"link", "move"}
  /\ \A r \in Approving : r.op = "approve"
  /\ \A r \in Refusing : r.op = "refuse"
  /\ \A r \in Removing : r.op = "remove"
  /\ \A r \in Joining : r.op = "join"
  /\ \A r \in Deleting : r.op = "delete"
  /\ \A r \in Closing : r.op = "deleteProgram"
BY DEF Free, Filing, Founding, Entering, Approving, Refusing, Removing, Joining, Deleting, Closing

(* The operation of a request tells what else it carries.                  *)
LEMMA Serves ==
  ASSUME TypeOK, NEW s \in Slots
  PROVE  /\ req[s].op = "file" => req[s] \in Filing
         /\ req[s].op = "new" => req[s] \in Founding
         /\ req[s].op \in {"link", "move"} => req[s] \in Entering
         /\ req[s].op = "approve" => req[s] \in Approving
         /\ req[s].op = "refuse" => req[s] \in Refusing
         /\ req[s].op = "remove" => req[s] \in Removing
         /\ req[s].op = "join" => req[s] \in Joining
         /\ req[s].op = "delete" => req[s] \in Deleting
         /\ req[s].op = "deleteProgram" => req[s] \in Closing
<1>1. req[s] \in Request
  BY DEF TypeOK
<1> QED BY <1>1, OpTells DEF Request

(* Taking up a request leaves a request table behind.                      *)
LEMMA ServeType ==
  ASSUME TypeOK, NEW s \in Slots, NEW r \in Request, Serve(s, r)
  PROVE  req' \in [Slots -> Request]
BY DEF TypeOK, Serve

(* So does answering it.                                                   *)
LEMMA AnswerType ==
  ASSUME TypeOK, NEW s \in Slots, Answer(s)
  PROVE  req' \in [Slots -> Request]
<1>1. Free \in Request
  BY DEF Request
<1> QED BY <1>1, ServeType DEF Answer

(* The rows are numbered from one, so a new one goes to the end.           *)
LEMMA RowsCounted ==
  ASSUME TypeOK
  PROVE  /\ Cardinality(Rows) \in 0..MaxRequests
         /\ Rows = 1..Cardinality(Rows)
<1>1. PICK n \in 0..MaxRequests : Rows = 1..n
  BY DEF TypeOK
<1>2. Cardinality(1..n) = n
  BY FS_Interval
<1> QED BY <1>1, <1>2

(* A new row gets the next number and changes no other.                    *)
LEMMA AddType ==
  ASSUME TypeOK, NEW r \in Registration, Room, Add(r)
  PROVE  LET last == Cardinality(Rows) + 1
         IN  /\ Rows' \in {1..n : n \in 0..MaxRequests}
             /\ registration' \in [Rows' -> Registration]
             /\ Rows \subseteq Rows' /\ Rows' = Rows \cup {last} /\ last \notin Rows
             /\ registration'[last] = r
             /\ \A i \in Rows : registration'[i] = registration[i]
<1> DEFINE n == Cardinality(Rows)
<1>1. n \in 0..MaxRequests /\ Rows = 1..n /\ n < MaxRequests
  BY RowsCounted DEF Room
<1>2. registration' = [i \in Rows \cup {n + 1} |-> IF i \in Rows THEN registration[i] ELSE r]
  BY DEF Add
<1> HIDE DEF n
<1>3. Rows \cup {n + 1} = 1..(n + 1)
  BY <1>1
<1>4. Rows' = Rows \cup {n + 1}
  BY <1>2 DEF Rows
<1>5. n + 1 \notin Rows /\ n + 1 \in 0..MaxRequests
  BY <1>1
<1>6. registration \in [Rows -> Registration]
  BY DEF TypeOK
<1>7. registration' \in [Rows' -> Registration]
  BY <1>2, <1>4, <1>6
<1>8. registration'[n + 1] = r /\ \A i \in Rows : registration'[i] = registration[i]
  BY <1>2, <1>5
<1> QED BY <1>3, <1>4, <1>5, <1>7, <1>8 DEF n

(* The rows the handlers write are registrations.                          *)
LEMMA RowType ==
  ASSUME NEW p \in Programs, NEW a \in Projects, NEW status \in Statuses
  PROVE  /\ Row(p, a, status) \in Registration
         /\ Row(p, a, status).project = a /\ Row(p, a, status).status = status
BY DEF Row, Registration

(* What the states of a project are.                                       *)
LEMMA ProjectStates ==
  ASSUME NEW r \in Project
  PROVE  /\ r.state \in {"absent", "live", "deleted"}
         /\ r.state # "live" => r.program = None /\ r.team = {}
         /\ r.state = "absent" => r = Absent
         /\ r.state = "live" => /\ r.owner \in Users \cup {Staff}
                                /\ r.program \in Programs \cup {None} /\ r.team \in SUBSET Users
BY DEF Project, Absent

(* What the handlers make of a project is a project.                       *)
LEMMA ProjectType ==
  /\ Absent \in Project /\ [Absent EXCEPT !.state = "deleted"] \in Project
  /\ \A owner \in Users \cup {Staff}, p \in Programs \cup {None}, team \in SUBSET Users :
       /\ New(owner, p, team) \in Project
       /\ New(owner, p, team).state = "live" /\ New(owner, p, team).program = p
  /\ \A r \in Project : r.state = "live" =>
       /\ \A p \in Programs \cup {None} :
            /\ [r EXCEPT !.program = p] \in Project
            /\ [r EXCEPT !.program = p].state = "live" /\ [r EXCEPT !.program = p].program = p
       /\ \A team \in SUBSET Users :
            /\ [r EXCEPT !.team = team] \in Project
            /\ [r EXCEPT !.team = team].state = "live"
            /\ [r EXCEPT !.team = team].program = r.program
BY DEF Project, New, Absent

------------------------------------------------------------------------------
Holds(s, op, a) == req[s].op = op /\ req[s].project = a
DeleteHeld(a) == \E s \in Slots : Holds(s, "delete", a)

(* The ways a project may change in a step ...                             *)
Same(a) == a \in everIn' <=> a \in everIn
ProjectForm(a) ==
  LET old == project[a]
      new == project'[a]
  IN  \/ new.state = old.state /\ new.program = old.program /\ Same(a)
      \/ /\ old.state = "absent" /\ new.state = "live"
         /\ IF new.program = None THEN Same(a) ELSE a \in everIn'
      \/ /\ old.state = "live" /\ new.state = "live" /\ ~DeleteHeld(a)
         /\ new.program # None /\ a \in everIn'
      \/ /\ old.state = "live" /\ new.state = "live" /\ ~DeleteHeld(a)
         /\ new.program = None /\ Same(a)
         /\ \E i \in Rows' : registration'[i].project = a /\ registration'[i].status = "REMOVED"
      \/ /\ old.program # None /\ new.state = old.state /\ new.program = None
         /\ a \notin everIn'
      \/ /\ new.state = "deleted" /\ new.program = None /\ Same(a)
         /\ \E s \in Slots : Holds(s, "delete", a) /\ req'[s].op # "delete"
         /\ \A i \in Rows' : registration'[i].project # a

(* ... and the ways a request row may.                                     *)
RowForm(i) ==
  LET old == registration[i]
      new == registration'[i]
  IN  \/ i \in Rows /\ new = old
      \/ /\ i \in Rows /\ old.status = "PENDING" /\ new.project = old.project
         /\ new.status \in {"REJECTED", "WITHDRAWN"}
      \/ /\ i \in Rows /\ old.status = "PENDING" /\ new.project = old.project
         /\ new.status = "APPROVED" /\ ~DeleteHeld(old.project)
      \/ /\ i \in Rows /\ old.status = "APPROVED" /\ new.project = old.project
         /\ new.status = "REMOVED" /\ ~DeleteHeld(old.project)
      \/ /\ i \in Rows /\ new.status = old.status /\ new.project = None
         /\ DeleteHeld(old.project)
      \/ /\ i \notin Rows /\ new.project \in Projects /\ ~DeleteHeld(new.project)
         /\ project'[new.project].state = "live"

(* What a slot holds is consistent with the data it read.                  *)
RowsNamed ==
  \A s \in Slots :
    /\ req[s].op \in {"approve", "refuse"} => req[s].row \in Rows
    /\ req[s].op = "approve" /\ registration[req[s].row].status = "PENDING"
         => registration[req[s].row].project = req[s].project
Exclusive ==
  \A s, t \in Slots :
    s # t /\ {req[s].op, req[t].op} \subseteq {"link", "delete"} => req[s].project # req[t].project
LinksLive == \A s \in Slots : req[s].op = "link" => Live(req[s].project)
DeletesClean ==
  \A s \in Slots : req[s].op = "delete" =>
    LET a == req[s].project IN Live(a) /\ ~Retained(a) /\ a \notin everIn

Inv ==
  /\ TypeOK /\ RowsNamed /\ Exclusive /\ LinksLive /\ DeletesClean
  /\ RetainedNotDeleted /\ RemovalIsOnRecord

DataOK ==
  /\ project \in [Projects -> Project]
  /\ Rows \in {1..n : n \in 0..MaxRequests}
  /\ registration \in [Rows -> Registration]
  /\ participants \in [Programs -> SUBSET Users]
  /\ gone \subseteq Programs
  /\ everIn \subseteq Projects

Forms ==
  /\ DataOK'
  /\ Rows \subseteq Rows'
  /\ \A a \in Projects : ProjectForm(a)
  /\ \A i \in Rows' : RowForm(i)

(* Rows that are left alone, and rows one is added to.                     *)
LEMMA RowsKept ==
  ASSUME UNCHANGED registration
  PROVE  Rows' = Rows /\ \A i \in Rows' : RowForm(i)
BY DEF Rows, RowForm

(* A new row changes the rows in a form that is allowed, unless its        *)
(* project is being deleted.                                               *)
LEMMA RowsAdded ==
  ASSUME TypeOK, NEW r \in Registration, Room, Add(r),
         r.project \in Projects, ~DeleteHeld(r.project), project'[r.project].state = "live"
  PROVE  /\ Rows' \in {1..n : n \in 0..MaxRequests}
         /\ registration' \in [Rows' -> Registration]
         /\ Rows \subseteq Rows'
         /\ \A i \in Rows' : RowForm(i)
         /\ \E i \in Rows' : registration'[i] = r
<1> DEFINE last == Cardinality(Rows) + 1
<1>1. /\ Rows' \in {1..n : n \in 0..MaxRequests}
      /\ registration' \in [Rows' -> Registration]
      /\ Rows \subseteq Rows' /\ Rows' = Rows \cup {last} /\ last \notin Rows
      /\ registration'[last] = r
      /\ \A i \in Rows : registration'[i] = registration[i]
  BY AddType
<1> HIDE DEF last
<1>2. \A i \in Rows' : RowForm(i)
  BY <1>1 DEF RowForm
<1> QED BY <1>1, <1>2

(* A step that changes no row is of these forms.                           *)
LEMMA QuietForms ==
  ASSUME TypeOK, UNCHANGED <<project, registration, participants, gone, everIn>>
  PROVE  Forms
BY RowsKept DEF TypeOK, Forms, DataOK, ProjectForm, Same

(* Requests that have read and only hold a slot from then on.              *)
Reading(s) ==
  \/ \E u \in Users, p \in Programs : RequestNew(s, u, p)
  \/ \E a \in Projects, p \in Programs : RequestExisting(s, a, p) \/ Move(s, a, p)
  \/ \E a \in Projects : Remove(s, a)
  \/ \E i \in 1..MaxRequests : Approve(s, i)
  \/ \E i \in 1..MaxRequests, status \in {"REJECTED", "WITHDRAWN"} : Refuse(s, i, status)
  \/ \E a \in Projects, u \in Users : AddMember(s, a, u)
  \/ \E a \in Projects : DeleteProject(s, a)
  \/ \E p \in Programs : DeleteProgram(s, p)

(* So is one that reads.                                                   *)
LEMMA ReadingForms ==
  ASSUME TypeOK, NEW s \in Slots, Reading(s)
  PROVE  Forms
<1>1. UNCHANGED <<project, registration, participants, gone, everIn>>
  BY DEF Reading, RequestNew, RequestExisting, Move, Remove, Approve, Refuse, AddMember,
         DeleteProject, DeleteProgram
<1> QED BY <1>1, QuietForms

(* One project is set and the others stay.                                 *)
LEMMA OneProject ==
  ASSUME TypeOK, NEW a \in Projects, NEW r \in Project, project' = [project EXCEPT ![a] = r],
         everIn' \subseteq Projects, \A b \in Projects \ {a} : Same(b), ProjectForm(a)
  PROVE  /\ project' \in [Projects -> Project]
         /\ \A b \in Projects : ProjectForm(b)
BY DEF TypeOK, ProjectForm

(* So is one that creates a project.                                       *)
LEMMA CreateForms ==
  ASSUME TypeOK, NEW a \in Projects,
         \/ \E u \in Users : CreateProject(a, u)
         \/ \E p \in Programs : CreateProgramProject(a, p)
         \/ \E s \in Slots : RequestCreates(s, a)
  PROVE  Forms
<1>1. PICK owner \in Users \cup {Staff}, p \in Programs \cup {None}, team \in SUBSET Users :
        /\ project[a] = Absent
        /\ project' = [project EXCEPT ![a] = New(owner, p, team)]
        /\ everIn' = IF p = None THEN everIn ELSE everIn \cup {a}
        /\ UNCHANGED <<registration, participants, gone>>
  <2>1. CASE \E u \in Users : CreateProject(a, u)
    <3>1. PICK u \in Users : CreateProject(a, u)
      BY <2>1
    <3>2. {u} \in SUBSET Users /\ u \in Users \cup {Staff} /\ None \in Programs \cup {None}
      OBVIOUS
    <3> QED BY <3>1, <3>2 DEF CreateProject
  <2>2. CASE \E p \in Programs : CreateProgramProject(a, p)
    <3>1. PICK p \in Programs : CreateProgramProject(a, p)
      BY <2>2
    <3>2. {} \in SUBSET Users /\ Staff \in Users \cup {Staff} /\ p # None
      OBVIOUS
    <3> QED BY <3>1, <3>2 DEF CreateProgramProject
  <2>3. CASE \E s \in Slots : RequestCreates(s, a)
    <3>1. PICK s \in Slots : RequestCreates(s, a)
      BY <2>3
    <3>2. PICK u \in Users : u = req[s].user
      BY <3>1, Serves DEF RequestCreates, Founding
    <3>3. {u} \in SUBSET Users /\ u \in Users \cup {Staff} /\ None \in Programs \cup {None}
      OBVIOUS
    <3> QED BY <3>1, <3>2, <3>3 DEF RequestCreates
  <2> QED BY <2>1, <2>2, <2>3
<1>2. /\ New(owner, p, team) \in Project
      /\ New(owner, p, team).state = "live" /\ New(owner, p, team).program = p
  BY ProjectType
<1>3. Absent.state = "absent"
  BY DEF Absent
<1>4. everIn' \subseteq Projects
  BY <1>1 DEF TypeOK
<1>5. project'[a] = New(owner, p, team)
  BY <1>1 DEF TypeOK
<1>6. ProjectForm(a)
  BY <1>1, <1>2, <1>3, <1>5 DEF ProjectForm, Same
<1>7. \A b \in Projects \ {a} : Same(b)
  BY <1>1 DEF Same
<1>8. /\ project' \in [Projects -> Project]
      /\ \A b \in Projects : ProjectForm(b)
  BY <1>1, <1>2, <1>4, <1>6, <1>7, OneProject
<1> QED BY <1>1, <1>4, <1>8, RowsKept DEF Forms, DataOK, TypeOK

(* So is one that files a request.                                         *)
LEMMA FiledForms ==
  ASSUME TypeOK, NEW s \in Slots, RequestFiled(s)
  PROVE  Forms
<1> DEFINE a == req[s].project
           p == req[s].program
<1>1. a \in Projects /\ p \in Programs
  BY Serves DEF RequestFiled, Filing
<1>2. ~DeleteHeld(a)
  BY DEF RequestFiled, Held, DeleteHeld, Holds
<1>3. UNCHANGED <<project, participants, gone, everIn>>
  BY DEF RequestFiled
<1>4. CASE UNCHANGED registration
  BY <1>3, <1>4, QuietForms
<1>5. CASE Live(a) /\ Room /\ Add(Row(p, a, "PENDING"))
  <2>1. /\ Row(p, a, "PENDING") \in Registration
        /\ Row(p, a, "PENDING").project = a
    BY <1>1, RowType DEF Statuses
  <2>2. \A b \in Projects : ProjectForm(b)
    BY <1>3 DEF ProjectForm, Same
  <2>3. project'[a].state = "live"
    BY <1>3, <1>5 DEF Live
  <2> QED BY <1>1, <1>2, <1>3, <1>5, <2>1, <2>2, <2>3, RowsAdded DEF Forms, DataOK, TypeOK
<1> QED BY <1>4, <1>5 DEF RequestFiled

(* A live project that nobody is deleting enters a program.                *)
LEMMA EnterForm ==
  ASSUME TypeOK, NEW a \in Projects, NEW p \in Programs, Enter(a, p), Live(a), ~DeleteHeld(a)
  PROVE  /\ project' \in [Projects -> Project] /\ everIn' \subseteq Projects
         /\ \A b \in Projects : ProjectForm(b)
<1> DEFINE r == [project[a] EXCEPT !.program = p]
<1>1. project[a] \in Project /\ project[a].state = "live" /\ p # None
  BY DEF TypeOK, Live
<1>2. r \in Project /\ r.state = "live" /\ r.program = p
  BY <1>1, ProjectType
<1>3. project' = [project EXCEPT ![a] = r] /\ everIn' = everIn \cup {a}
  BY DEF Enter
<1> HIDE DEF r
<1>4. project'[a] = r /\ everIn' \subseteq Projects
  BY <1>3 DEF TypeOK
<1>5. ProjectForm(a)
  BY <1>1, <1>2, <1>3, <1>4 DEF ProjectForm
<1>6. \A b \in Projects \ {a} : Same(b)
  BY <1>3 DEF Same
<1> QED BY <1>2, <1>3, <1>4, <1>5, <1>6, OneProject

(* Participants that are added are participants.                           *)
LEMMA ParticipantsType ==
  ASSUME TypeOK, NEW p \in Programs, NEW us \in SUBSET Users,
         participants' = [participants EXCEPT ![p] = @ \cup us]
  PROVE  participants' \in [Programs -> SUBSET Users]
BY DEF TypeOK

(* A request that needs no approval links its project and leaves an        *)
(* approved row.                                                           *)
LEMMA LinksForms ==
  ASSUME Inv, NEW s \in Slots, RequestLinks(s)
  PROVE  Forms
<1> DEFINE a == req[s].project
           p == req[s].program
<1>0. TypeOK
  BY DEF Inv
<1>1. a \in Projects /\ p \in Programs /\ req[s].team \in SUBSET Users
  BY <1>0, Serves DEF RequestLinks, Entering
<1>2. Live(a)
  BY DEF Inv, LinksLive, RequestLinks
<1>3. ~DeleteHeld(a)
  BY DEF Inv, Exclusive, RequestLinks, DeleteHeld, Holds
<1>4. CASE UNCHANGED <<registration, project, everIn, participants>>
  BY <1>0, <1>4, QuietForms DEF RequestLinks
<1>5. CASE /\ Room /\ Add(Row(p, a, "APPROVED")) /\ Enter(a, p)
           /\ participants' = [participants EXCEPT ![p] = @ \cup req[s].team]
  <2>1. /\ Row(p, a, "APPROVED") \in Registration
        /\ Row(p, a, "APPROVED").project = a
    BY <1>1, RowType DEF Statuses
  <2>2. /\ Rows' \in {1..n : n \in 0..MaxRequests}
        /\ registration' \in [Rows' -> Registration]
        /\ Rows \subseteq Rows'
        /\ \A i \in Rows' : RowForm(i)
    <3>1. project' = [project EXCEPT ![a] = [project[a] EXCEPT !.program = p]]
      BY <1>5 DEF Enter
    <3>2. project[a] \in Project /\ project[a].state = "live"
      BY <1>0, <1>1, <1>2 DEF TypeOK, Live
    <3>3. [project[a] EXCEPT !.program = p].state = "live"
      BY <1>1, <3>2, ProjectType
    <3>4. project'[a].state = "live"
      BY <1>0, <1>1, <3>1, <3>3 DEF TypeOK
    <3> QED BY <1>0, <1>1, <1>3, <1>5, <2>1, <3>4, RowsAdded
  <2>3. participants' \in [Programs -> SUBSET Users]
    BY <1>0, <1>1, <1>5, ParticipantsType
  <2>4. gone' \subseteq Programs
    BY <1>0 DEF RequestLinks, TypeOK
  <2> QED BY <1>0, <1>1, <1>2, <1>3, <1>5, <2>2, <2>3, <2>4, EnterForm DEF Forms, DataOK
<1> QED BY <1>4, <1>5 DEF RequestLinks

(* The status of rows that exist is set.                                   *)
LEMMA RowsSet ==
  ASSUME TypeOK, NEW i \in Rows, NEW status \in Statuses,
         registration' = [registration EXCEPT ![i].status = status]
  PROVE  /\ Rows' = Rows
         /\ registration' \in [Rows' -> Registration]
         /\ registration'[i].status = status
         /\ registration'[i].project = registration[i].project
         /\ \A j \in Rows \ {i} : registration'[j] = registration[j]
<1>1. registration \in [Rows -> Registration]
  BY DEF TypeOK
<1>2. Rows' = Rows
  BY <1>1 DEF Rows
<1>3. registration[i] \in Registration
  BY <1>1
<1>4. [registration[i] EXCEPT !.status = status] \in Registration
  BY <1>3 DEF Registration
<1>5. registration' = [registration EXCEPT ![i] = [registration[i] EXCEPT !.status = status]]
  OBVIOUS
<1>6. /\ [registration[i] EXCEPT !.status = status].status = status
      /\ [registration[i] EXCEPT !.status = status].project = registration[i].project
  BY <1>3 DEF Registration
<1> DEFINE new == [registration[i] EXCEPT !.status = status]
<1> HIDE DEF new
<1>7. registration' = [registration EXCEPT ![i] = new] /\ new \in Registration
  BY <1>4, <1>5 DEF new
<1>8. registration'[i] = new /\ \A j \in Rows \ {i} : registration'[j] = registration[j]
  BY <1>1, <1>7
<1>9. new.status = status /\ new.project = registration[i].project
  BY <1>6 DEF new
<1> QED BY <1>1, <1>2, <1>7, <1>8, <1>9

(* An approval links the project of its row.                               *)
LEMMA ApprovedForms ==
  ASSUME Inv, NEW s \in Slots, Approved(s)
  PROVE  Forms
<1> DEFINE i == req[s].row
           a == req[s].project
           p == registration[i].program
<1>0. TypeOK
  BY DEF Inv
<1>1. a \in Projects /\ i \in Rows /\ req[s].team \in SUBSET Users
  BY <1>0, Serves DEF Inv, RowsNamed, Approved, Approving
<1>2. p \in Programs
  BY <1>0, <1>1 DEF TypeOK, Registration
<1>3. ~DeleteHeld(a)
  BY DEF Approved, Held, DeleteHeld, Holds
<1>4. CASE UNCHANGED <<registration, project, everIn, participants>>
  BY <1>0, <1>4, QuietForms DEF Approved
<1>5. CASE /\ registration[i].status = "PENDING" /\ Live(a)
           /\ registration' = [registration EXCEPT ![i].status = "APPROVED"]
           /\ Enter(a, p)
           /\ participants' = [participants EXCEPT ![p] = @ \cup req[s].team]
  <2>1. registration[i].project = a
    BY <1>5 DEF Inv, RowsNamed, Approved
  <2>2. /\ Rows' = Rows
        /\ registration' \in [Rows' -> Registration]
        /\ registration'[i].status = "APPROVED"
        /\ registration'[i].project = registration[i].project
        /\ \A j \in Rows \ {i} : registration'[j] = registration[j]
    BY <1>0, <1>1, <1>5, RowsSet DEF Statuses
  <2>3. \A j \in Rows' : RowForm(j)
    BY <1>1, <1>3, <1>5, <2>1, <2>2 DEF RowForm
  <2>4. participants' \in [Programs -> SUBSET Users]
    BY <1>0, <1>1, <1>2, <1>5, ParticipantsType
  <2>5. gone' \subseteq Programs
    BY <1>0 DEF Approved, TypeOK
  <2>6. Rows' \in {1..n : n \in 0..MaxRequests}
    BY <1>0, <2>2 DEF TypeOK
  <2> QED BY <1>0, <1>1, <1>2, <1>3, <1>5, <2>2, <2>3, <2>4, <2>5, <2>6, EnterForm
          DEF Forms, DataOK
<1> QED BY <1>4, <1>5 DEF Approved

(* A refusal changes its row and no project.                               *)
LEMMA RefusedForms ==
  ASSUME Inv, NEW s \in Slots, Refused(s)
  PROVE  Forms
<1> DEFINE i == req[s].row
           status == IF registration[i].status = "PENDING" THEN req[s].status
                     ELSE registration[i].status
<1>0. TypeOK
  BY DEF Inv
<1>1. i \in Rows /\ req[s].status \in {"REJECTED", "WITHDRAWN"}
  BY <1>0, Serves DEF Inv, RowsNamed, Refused, Refusing
<1>2. registration[i] \in Registration
  BY <1>0, <1>1 DEF TypeOK
<1>3. status \in Statuses
  BY <1>1, <1>2 DEF Registration, Statuses
<1>4. registration' = [registration EXCEPT ![i].status = status]
  BY DEF Refused
<1>5. CASE registration[i].status # "PENDING"
  <2>1. [registration[i] EXCEPT !.status = registration[i].status] = registration[i]
    BY <1>2 DEF Registration
  <2>2. registration' = registration
    BY <1>0, <1>1, <1>4, <1>5, <2>1 DEF TypeOK
  <2> QED BY <1>0, <2>2, QuietForms DEF Refused
<1>6. CASE registration[i].status = "PENDING"
  <2>0. status = req[s].status
    BY <1>6
  <2> HIDE DEF status
  <2>1. /\ Rows' = Rows
        /\ registration' \in [Rows' -> Registration]
        /\ registration'[i].status = status
        /\ registration'[i].project = registration[i].project
        /\ \A j \in Rows \ {i} : registration'[j] = registration[j]
    BY <1>0, <1>1, <1>3, <1>4, RowsSet
  <2>2. \A j \in Rows' : RowForm(j)
    BY <1>1, <1>6, <2>0, <2>1 DEF RowForm
  <2>3. \A b \in Projects : ProjectForm(b)
    BY DEF Refused, ProjectForm, Same
  <2> QED BY <1>0, <2>1, <2>2, <2>3 DEF Refused, Forms, DataOK, TypeOK
<1> QED BY <1>5, <1>6

(* A project that moves goes from program to program while nobody          *)
(* deletes it.                                                             *)
LEMMA MovedForms ==
  ASSUME Inv, NEW s \in Slots, Moved(s)
  PROVE  Forms
<1> DEFINE a == req[s].project
           p == req[s].program
<1>0. TypeOK
  BY DEF Inv
<1>1. a \in Projects /\ p \in Programs /\ req[s].team \in SUBSET Users
  BY <1>0, Serves DEF Moved, Entering
<1>2. ~DeleteHeld(a)
  BY DEF Moved, Held, DeleteHeld, Holds
<1>3. UNCHANGED <<registration, gone>>
  BY DEF Moved
<1>4. CASE UNCHANGED <<project, everIn, participants>>
  BY <1>0, <1>3, <1>4, QuietForms
<1>5. CASE /\ Live(a) /\ Enter(a, p)
           /\ participants' = [participants EXCEPT ![p] = @ \cup req[s].team]
  <2>1. participants' \in [Programs -> SUBSET Users]
    BY <1>0, <1>1, <1>5, ParticipantsType
  <2>2. /\ project' \in [Projects -> Project] /\ everIn' \subseteq Projects
        /\ \A b \in Projects : ProjectForm(b)
    BY <1>0, <1>1, <1>2, <1>5, EnterForm
  <2> QED BY <1>0, <1>3, <2>1, <2>2, RowsKept DEF Forms, DataOK, TypeOK
<1> QED BY <1>4, <1>5 DEF Moved

(* The link of a project goes while a row says it was removed.             *)
LEMMA LeaveForm ==
  ASSUME TypeOK, NEW a \in Projects, Live(a), ~DeleteHeld(a),
         project' = [project EXCEPT ![a].program = None], UNCHANGED everIn,
         \E i \in Rows' : registration'[i].project = a /\ registration'[i].status = "REMOVED"
  PROVE  /\ project' \in [Projects -> Project]
         /\ \A b \in Projects : ProjectForm(b)
<1> DEFINE r == [project[a] EXCEPT !.program = None]
<1>1. project[a] \in Project /\ project[a].state = "live"
  BY DEF TypeOK, Live
<1>2. r \in Project /\ r.state = "live" /\ r.program = None
  BY <1>1, ProjectType
<1>3. project' = [project EXCEPT ![a] = r]
  OBVIOUS
<1> HIDE DEF r
<1>4. project'[a] = r /\ everIn' \subseteq Projects
  BY <1>3 DEF TypeOK
<1>5. ProjectForm(a)
  BY <1>1, <1>2, <1>4 DEF ProjectForm, Same
<1>6. \A b \in Projects \ {a} : Same(b)
  BY DEF Same
<1> QED BY <1>2, <1>3, <1>4, <1>5, <1>6, OneProject

(* A project that is taken out of its program leaves a row that says so.   *)
LEMMA RemovedForms ==
  ASSUME Inv, NEW s \in Slots, Removed(s)
  PROVE  Forms
<1> DEFINE a == req[s].project
           p == req[s].program
           last == LastApproved(a, p)
           row == Row(p, a, "REMOVED")
<1>0. TypeOK
  BY DEF Inv
<1>1. a \in Projects /\ p \in Programs
  BY <1>0, Serves DEF Removed, Removing
<1>2. ~DeleteHeld(a)
  BY DEF Removed, Held, DeleteHeld, Holds
<1>3. UNCHANGED <<participants, gone, everIn>>
  BY DEF Removed
<1>4. row \in Registration /\ row.project = a /\ row.status = "REMOVED"
  BY <1>1, RowType DEF Statuses
<1>5. CASE UNCHANGED <<project, registration>>
  BY <1>0, <1>3, <1>5, QuietForms
<1>6. CASE /\ Live(a) /\ project' = [project EXCEPT ![a].program = None]
           /\ last # {}
           /\ registration' = [i \in Rows |-> IF i \in last THEN row ELSE registration[i]]
  <2>1. \A i \in last : i \in Rows /\ registration[i].project = a /\ registration[i].status = "APPROVED"
    BY DEF LastApproved, RowsOf
  <2> HIDE DEF last, row
  <2>2. Rows' = Rows
    BY <1>6 DEF Rows
  <2>3. registration' \in [Rows' -> Registration]
    BY <1>0, <1>4, <1>6, <2>2 DEF TypeOK
  <2>4. \A i \in Rows' : registration'[i] = IF i \in last THEN row ELSE registration[i]
    BY <1>6, <2>2
  <2>5. \A i \in Rows' : RowForm(i)
    BY <1>2, <1>4, <2>1, <2>2, <2>4 DEF RowForm
  <2>6. \E i \in Rows' : registration'[i].project = a /\ registration'[i].status = "REMOVED"
    BY <1>4, <1>6, <2>1, <2>2, <2>4
  <2>7. /\ project' \in [Projects -> Project]
        /\ \A b \in Projects : ProjectForm(b)
    BY <1>0, <1>1, <1>2, <1>3, <1>6, <2>6, LeaveForm
  <2> QED BY <1>0, <1>3, <2>2, <2>3, <2>5, <2>7 DEF Forms, DataOK, TypeOK
<1>7. CASE /\ Live(a) /\ project' = [project EXCEPT ![a].program = None]
           /\ Room /\ Add(row)
  <2> HIDE DEF row
  <2>1. /\ Rows' \in {1..n : n \in 0..MaxRequests}
        /\ registration' \in [Rows' -> Registration]
        /\ Rows \subseteq Rows'
        /\ \A i \in Rows' : RowForm(i)
        /\ \E i \in Rows' : registration'[i] = row
    <3>1. project' = [project EXCEPT ![a] = [project[a] EXCEPT !.program = None]]
      BY <1>7
    <3>2. project[a] \in Project /\ project[a].state = "live"
      BY <1>0, <1>1, <1>7 DEF TypeOK, Live
    <3>3. [project[a] EXCEPT !.program = None].state = "live"
      BY <3>2, ProjectType
    <3>4. project'[a].state = "live"
      BY <1>0, <1>1, <3>1, <3>3 DEF TypeOK
    <3> QED BY <1>0, <1>1, <1>2, <1>4, <1>7, <3>4, RowsAdded
  <2>2. /\ project' \in [Projects -> Project]
        /\ \A b \in Projects : ProjectForm(b)
    BY <1>0, <1>1, <1>2, <1>3, <1>4, <1>7, <2>1, LeaveForm
  <2> QED BY <1>0, <1>3, <2>1, <2>2 DEF Forms, DataOK, TypeOK
<1> QED BY <1>5, <1>6, <1>7 DEF Removed

(* Who is on a team changes nothing else of its project.                   *)
LEMMA TeamForms ==
  ASSUME TypeOK, UNCHANGED <<registration, gone, everIn>>,
         participants' \in [Programs -> SUBSET Users],
         NEW team \in [Projects -> SUBSET Users],
         NEW set \in SUBSET Projects, \A a \in set : Live(a),
         project' = [a \in Projects |-> IF a \in set THEN [project[a] EXCEPT !.team = team[a]]
                                        ELSE project[a]]
  PROVE  Forms
<1>1. ASSUME NEW a \in Projects
      PROVE  project'[a] \in Project /\ ProjectForm(a)
  <2>1. project[a] \in Project
    BY DEF TypeOK
  <2>2. CASE a \notin set
    BY <2>1, <2>2 DEF ProjectForm, Same
  <2>3. CASE a \in set
    <3>0. PICK t \in SUBSET Users : t = team[a]
      OBVIOUS
    <3> DEFINE r == [project[a] EXCEPT !.team = t]
    <3>1. r \in Project /\ r.state = "live" /\ r.program = project[a].program
      <4>1. project[a].state = "live"
        BY <2>3 DEF Live
      <4> QED BY <2>1, <4>1, ProjectType
    <3>2. project'[a] = r
      BY <2>3, <3>0
    <3> HIDE DEF r
    <3> QED BY <2>3, <3>1, <3>2 DEF ProjectForm, Same, Live
  <2> QED BY <2>2, <2>3
<1>2. project' \in [Projects -> Project]
  BY <1>1
<1> QED BY <1>1, <1>2, RowsKept DEF Forms, DataOK, TypeOK

(* A member who joins changes the team of a live project.                  *)
LEMMA JoinedForms ==
  ASSUME TypeOK, NEW s \in Slots, MemberAdded(s)
  PROVE  Forms
<1> DEFINE a == req[s].project
           u == req[s].user
<1>1. a \in Projects /\ u \in Users
  BY Serves DEF MemberAdded, Joining
<1>2. UNCHANGED <<registration, participants, gone, everIn>>
  BY DEF MemberAdded
<1>3. CASE ~Live(a)
  BY <1>2, <1>3, QuietForms DEF MemberAdded
<1>4. CASE Live(a)
  <2> DEFINE team == [b \in Projects |-> IF b = a THEN project[b].team \cup {u} ELSE {}]
  <2>1. project[a] \in Project /\ project[a].team \in SUBSET Users
    BY <1>1, <1>4, ProjectStates DEF TypeOK, Live
  <2>2. team \in [Projects -> SUBSET Users]
    BY <1>1, <2>1
  <2>3. project' = [b \in Projects |-> IF b \in {a} THEN [project[b] EXCEPT !.team = team[b]]
                                       ELSE project[b]]
    BY <1>1, <1>4 DEF MemberAdded, TypeOK
  <2> HIDE DEF team
  <2>4. {a} \in SUBSET Projects /\ \A b \in {a} : Live(b)
    BY <1>1, <1>4
  <2>5. participants' \in [Programs -> SUBSET Users]
    BY <1>2 DEF TypeOK
  <2> QED BY <1>2, <2>2, <2>3, <2>4, <2>5, TeamForms
<1> QED BY <1>3, <1>4

(* So does one who leaves.                                                 *)
LEMMA LeavesForms ==
  ASSUME TypeOK, NEW a \in Projects, NEW u \in Users, MemberLeaves(a, u)
  PROVE  Forms
<1> DEFINE team == [b \in Projects |-> IF b = a THEN project[b].team \ {u} ELSE {}]
<1>1. Live(a) /\ UNCHANGED <<registration, participants, gone, everIn>>
  BY DEF MemberLeaves
<1>2. project[a] \in Project /\ project[a].team \in SUBSET Users
  BY <1>1, ProjectStates DEF TypeOK, Live
<1>3. team \in [Projects -> SUBSET Users]
  BY <1>2
<1>4. project' = [b \in Projects |-> IF b \in {a} THEN [project[b] EXCEPT !.team = team[b]]
                                     ELSE project[b]]
  BY DEF MemberLeaves, TypeOK
<1> HIDE DEF team
<1>5. {a} \in SUBSET Projects /\ \A b \in {a} : Live(b)
  BY <1>1
<1>6. participants' \in [Programs -> SUBSET Users]
  BY <1>1 DEF TypeOK
<1> QED BY <1>1, <1>3, <1>4, <1>5, <1>6, TeamForms

(* Changes of the participants change no project.                          *)
LEMMA ParticipantForms ==
  ASSUME TypeOK, NEW p \in Programs, NEW u \in Users,
         AddParticipant(p, u) \/ RemoveParticipant(p, u)
  PROVE  Forms
<1>1. CASE AddParticipant(p, u)
  <2>1. participants' \in [Programs -> SUBSET Users]
    BY <1>1 DEF AddParticipant, TypeOK
  <2>2. \A b \in Projects : ProjectForm(b)
    BY <1>1 DEF AddParticipant, ProjectForm, Same
  <2> QED BY <1>1, <2>1, <2>2, RowsKept DEF AddParticipant, Forms, DataOK, TypeOK
<1>2. CASE RemoveParticipant(p, u)
  <2> DEFINE team == [b \in Projects |-> project[b].team \ {u}]
             set == {b \in Projects : project[b].program = p}
  <2>1. participants' \in [Programs -> SUBSET Users]
    BY <1>2 DEF RemoveParticipant, TypeOK
  <2>2. \A b \in set : Live(b)
    <3> TAKE b \in set
    <3>1. project[b] \in Project /\ project[b].program # None
      BY DEF TypeOK
    <3> QED BY <3>1, ProjectStates DEF Live
  <2>3. team \in [Projects -> SUBSET Users]
    <3>1. ASSUME NEW b \in Projects
          PROVE  project[b].team \in SUBSET Users
      <4>1. project[b] \in Project
        BY DEF TypeOK
      <4> QED BY <4>1, ProjectStates
    <3> QED BY <3>1
  <2>4. project' = [b \in Projects |-> IF b \in set THEN [project[b] EXCEPT !.team = team[b]]
                                       ELSE project[b]]
    BY <1>2 DEF RemoveParticipant
  <2>5. UNCHANGED <<registration, gone, everIn>> /\ set \in SUBSET Projects
    BY <1>2 DEF RemoveParticipant
  <2> HIDE DEF team, set
  <2> QED BY <2>1, <2>2, <2>3, <2>4, <2>5, TeamForms
<1> QED BY <1>1, <1>2

(* A project is deleted by the request that holds it for that.             *)
LEMMA ProjectDeletedForms ==
  ASSUME Inv, NEW s \in Slots, ProjectDeleted(s)
  PROVE  Forms
<1> DEFINE a == req[s].project
           r == [Absent EXCEPT !.state = "deleted"]
<1>0. TypeOK
  BY DEF Inv
<1>1. a \in Projects
  BY <1>0, Serves DEF ProjectDeleted, Deleting
<1>2. UNCHANGED <<participants, gone, everIn>> /\ Holds(s, "delete", a) /\ req'[s] = Free
  BY <1>0 DEF ProjectDeleted, Holds, Answer, Serve, TypeOK
<1>3. r \in Project /\ r.state = "deleted" /\ r.program = None
  BY ProjectType DEF Absent
<1>4. project' = [project EXCEPT ![a] = r]
  BY DEF ProjectDeleted
<1> HIDE DEF r
<1>5. ProjectForm(a)
  <2>1. project'[a] = r
    BY <1>0, <1>1, <1>4 DEF TypeOK
  <2>2. ASSUME NEW i \in Rows' PROVE registration'[i].project # a
    <3>1. i \in Rows /\ registration[i] \in Registration
      BY <1>0 DEF ProjectDeleted, Rows, TypeOK
    <3>2. CASE registration[i].project # a
      BY <3>1, <3>2 DEF ProjectDeleted
    <3>3. CASE registration[i].project = a
      <4>1. registration'[i] = [registration[i] EXCEPT !.project = None]
        BY <3>1, <3>3 DEF ProjectDeleted
      <4> QED BY <1>1, <3>1, <4>1, NamesAssumption DEF Registration
    <3> QED BY <3>2, <3>3
  <2> QED BY <1>2, <1>3, <2>1, <2>2 DEF ProjectForm, Same, Free
<1>6. everIn' \subseteq Projects /\ \A b \in Projects \ {a} : Same(b)
  BY <1>0, <1>2 DEF TypeOK, Same
<1>7. /\ project' \in [Projects -> Project]
      /\ \A b \in Projects : ProjectForm(b)
  BY <1>0, <1>1, <1>3, <1>4, <1>5, <1>6, OneProject
<1>8. Rows' = Rows
  BY DEF ProjectDeleted, Rows
<1>9. ASSUME NEW i \in Rows
      PROVE  registration'[i] \in Registration /\ RowForm(i)
  <2>1. registration[i] \in Registration
    BY <1>0 DEF TypeOK
  <2>2. CASE registration[i].project # a
    <3>1. registration'[i] = registration[i]
      BY <2>2 DEF ProjectDeleted
    <3> QED BY <2>1, <3>1 DEF RowForm
  <2>3. CASE registration[i].project = a
    <3>1. registration'[i] = [registration[i] EXCEPT !.project = None]
      BY <2>3 DEF ProjectDeleted
    <3>2. /\ registration'[i] \in Registration
          /\ registration'[i].status = registration[i].status
          /\ registration'[i].project = None
      BY <2>1, <3>1 DEF Registration
    <3> QED BY <1>2, <2>3, <3>2 DEF RowForm, DeleteHeld
  <2> QED BY <2>2, <2>3
<1>10. registration' \in [Rows' -> Registration]
  BY <1>8, <1>9 DEF ProjectDeleted
<1> QED BY <1>0, <1>2, <1>6, <1>7, <1>8, <1>9, <1>10 DEF Forms, DataOK, TypeOK

(* A program that is deleted leaves the projects that were in it.          *)
LEMMA ProgramDeletedForms ==
  ASSUME TypeOK, NEW s \in Slots, ProgramDeleted(s)
  PROVE  Forms
<1> DEFINE p == req[s].program
<1>1. p \in Programs /\ UNCHANGED <<registration, participants>>
  BY Serves DEF ProgramDeleted, Closing
<1>2. CASE UNCHANGED <<gone, project, everIn>>
  BY <1>1, <1>2, QuietForms
<1>3. CASE /\ gone' = gone \cup {p}
           /\ project' = [a \in Projects |-> IF project[a].program # p THEN project[a]
                                             ELSE [project[a] EXCEPT !.program = None]]
           /\ everIn' = everIn \ {a \in Projects : project[a].program = p}
  <2>1. ASSUME NEW a \in Projects
        PROVE  project'[a] \in Project /\ ProjectForm(a)
    <3>1. project[a] \in Project
      BY DEF TypeOK
    <3>2. CASE project[a].program # p
      BY <1>3, <3>1, <3>2 DEF ProjectForm, Same
    <3>3. CASE project[a].program = p
      <4> DEFINE r == [project[a] EXCEPT !.program = None]
      <4>1. project[a].state = "live" /\ p # None
        BY <1>1, <3>1, <3>3, ProjectStates
      <4>2. r \in Project /\ r.state = "live" /\ r.program = None
        BY <3>1, <4>1, ProjectType
      <4>3. project'[a] = r /\ a \notin everIn'
        BY <1>3, <3>3
      <4> HIDE DEF r
      <4> QED BY <3>3, <4>1, <4>2, <4>3 DEF ProjectForm
    <3> QED BY <3>2, <3>3
  <2>2. project' \in [Projects -> Project]
    BY <1>3, <2>1
  <2>3. /\ participants' \in [Programs -> SUBSET Users]
        /\ gone' \subseteq Programs /\ everIn' \subseteq Projects
    BY <1>1, <1>3 DEF TypeOK
  <2> QED BY <1>1, <2>1, <2>2, <2>3, RowsKept DEF Forms, DataOK, TypeOK
<1> QED BY <1>2, <1>3 DEF ProgramDeleted

(* Every step is of one of the forms.                                      *)
LEMMA StepForms ==
  ASSUME Inv, [Next]_vars
  PROVE  Forms
<1>0. TypeOK
  BY DEF Inv
<1>1. CASE UNCHANGED vars
  BY <1>0, <1>1, QuietForms DEF vars
<1>2. ASSUME NEW s \in Slots, Link(s) \/ Team(s) \/ Deletion(s)
      PROVE  Forms
  BY <1>0, <1>2, ReadingForms, CreateForms, FiledForms, LinksForms, ApprovedForms, RefusedForms,
     RemovedForms, MovedForms, JoinedForms, ProjectDeletedForms, ProgramDeletedForms
     DEF Link, Team, Deletion, Reading
<1>3. ASSUME NEW a \in Projects, NEW u \in Users, CreateProject(a, u) \/ MemberLeaves(a, u)
      PROVE  Forms
  BY <1>0, <1>3, CreateForms, LeavesForms
<1>4. ASSUME NEW a \in Projects, NEW p \in Programs, CreateProgramProject(a, p)
      PROVE  Forms
  BY <1>0, <1>4, CreateForms
<1>5. ASSUME NEW p \in Programs, NEW u \in Users, AddParticipant(p, u) \/ RemoveParticipant(p, u)
      PROVE  Forms
  BY <1>0, <1>5, ParticipantForms
<1> QED BY <1>1, <1>2, <1>3, <1>4, <1>5 DEF Next

------------------------------------------------------------------------------
(* What a slot holds after a step.                                         *)
Marked == {"approve", "refuse", "link", "delete"}
SlotForm(t) ==
  LET new == req'[t]
  IN  \/ new = req[t]
      \/ new.op \notin Marked
      \/ /\ new.op = "approve" /\ UNCHANGED registration
         /\ new.row \in Rows /\ new.project = registration[new.row].project
      \/ new.op = "refuse" /\ UNCHANGED registration /\ new.row \in Rows
      \/ /\ new.op = "link" /\ UNCHANGED project
         /\ Live(new.project) /\ ~Held(new.project) /\ \A s \in Slots \ {t} : req'[s] = req[s]
      \/ /\ new.op = "delete" /\ UNCHANGED <<project, registration, everIn>>
         /\ Live(new.project) /\ ~Held(new.project) /\ ~Retained(new.project)
         /\ \A s \in Slots \ {t} : req'[s] = req[s]

(* A request that is taken up keeps the other slots.                       *)
LEMMA SlotServed ==
  ASSUME TypeOK, NEW s \in Slots, NEW r \in Request, Serve(s, r),
         \A t \in Slots : req'[t] = r /\ t = s => SlotForm(t)
  PROVE  req' \in [Slots -> Request] /\ \A t \in Slots : SlotForm(t)
<1>1. req'[s] = r /\ \A t \in Slots \ {s} : req'[t] = req[t]
  BY DEF Serve, TypeOK
<1> QED BY <1>1, ServeType DEF SlotForm

(* One that holds no lock may be taken up at any time.                     *)
LEMMA SlotServedPlainly ==
  ASSUME TypeOK, NEW s \in Slots, NEW r \in Request, Serve(s, r), r.op \notin Marked
  PROVE  req' \in [Slots -> Request] /\ \A t \in Slots : SlotForm(t)
<1>1. req'[s] = r /\ \A t \in Slots \ {s} : req'[t] = req[t]
  BY DEF Serve, TypeOK
<1> QED BY <1>1, ServeType DEF SlotForm

(* An answer gives its locks back.                                         *)
LEMMA SlotAnswered ==
  ASSUME TypeOK, NEW s \in Slots, Answer(s)
  PROVE  req' \in [Slots -> Request] /\ \A t \in Slots : SlotForm(t)
<1>1. Free \in Request /\ Free.op \notin Marked
  BY DEF Request, Free, Marked
<1> QED BY <1>1, SlotServedPlainly DEF Answer

(* A read takes only locks that nobody holds.                              *)
LEMMA ReadingSlots ==
  ASSUME TypeOK, NEW s \in Slots, Reading(s)
  PROVE  req' \in [Slots -> Request] /\ \A t \in Slots : SlotForm(t)
<1>0. /\ \A a \in Projects : project[a] \in Project
      /\ \A i \in Rows : registration[i] \in Registration
  BY DEF TypeOK
<1>1. ASSUME NEW u \in Users, NEW p \in Programs, RequestNew(s, u, p)
      PROVE  req' \in [Slots -> Request] /\ \A t \in Slots : SlotForm(t)
  <2> DEFINE r == [op |-> "new", program |-> p, user |-> u]
  <2>1. r \in Request /\ r.op \notin Marked
    BY DEF Request, Founding, Marked
  <2> QED BY <1>1, <2>1, SlotServedPlainly DEF RequestNew
<1>2. ASSUME NEW a \in Projects, NEW p \in Programs, RequestExisting(s, a, p)
      PROVE  req' \in [Slots -> Request] /\ \A t \in Slots : SlotForm(t)
  <2> DEFINE r == [op |-> "file", program |-> p, project |-> a]
  <2>1. r \in Request /\ r.op \notin Marked
    BY DEF Request, Filing, Marked
  <2> QED BY <1>2, <2>1, SlotServedPlainly DEF RequestExisting
<1>3. ASSUME NEW a \in Projects, NEW p \in Programs, Move(s, a, p)
      PROVE  req' \in [Slots -> Request] /\ \A t \in Slots : SlotForm(t)
  <2> DEFINE r == [op |-> "move", program |-> p, project |-> a, team |-> project[a].team]
  <2>1. project[a].team \in SUBSET Users
    BY <1>0, <1>3, ProjectStates DEF Move, Live
  <2>2. r \in Request /\ r.op \notin Marked
    BY <2>1 DEF Request, Entering, Marked
  <2> QED BY <1>3, <2>2, SlotServedPlainly DEF Move
<1>4. ASSUME NEW a \in Projects, Remove(s, a)
      PROVE  req' \in [Slots -> Request] /\ \A t \in Slots : SlotForm(t)
  <2> DEFINE r == [op |-> "remove", project |-> a, program |-> project[a].program]
  <2>1. project[a].program \in Programs
    BY <1>0, <1>4, ProjectStates DEF Remove, Live
  <2>2. r \in Request /\ r.op \notin Marked
    BY <2>1 DEF Request, Removing, Marked
  <2> QED BY <1>4, <2>2, SlotServedPlainly DEF Remove
<1>5. ASSUME NEW i \in 1..MaxRequests, Approve(s, i)
      PROVE  req' \in [Slots -> Request] /\ \A t \in Slots : SlotForm(t)
  <2> DEFINE a == registration[i].project
             r == [op |-> "approve", row |-> i, project |-> a, team |-> project[a].team]
  <2>1. i \in Rows /\ a # None /\ Live(a) /\ UNCHANGED registration
    BY <1>5 DEF Approve, assertEligible
  <2>2. a \in Projects
    BY <1>0, <2>1 DEF Registration
  <2>3. project[a].team \in SUBSET Users
    BY <1>0, <2>1, <2>2, ProjectStates DEF Live
  <2>4. r \in Request
    BY <2>2, <2>3 DEF Request, Approving
  <2>5. r.op = "approve" /\ r.row = i /\ r.project = a
    OBVIOUS
  <2>6. Serve(s, r)
    BY <1>5 DEF Approve
  <2> HIDE DEF r
  <2>7. \A t \in Slots : req'[t] = r /\ t = s => SlotForm(t)
    BY <2>1, <2>5 DEF SlotForm
  <2> QED BY <2>4, <2>6, <2>7, SlotServed
<1>6. ASSUME NEW i \in 1..MaxRequests, NEW status \in {"REJECTED", "WITHDRAWN"},
             Refuse(s, i, status)
      PROVE  req' \in [Slots -> Request] /\ \A t \in Slots : SlotForm(t)
  <2> DEFINE r == [op |-> "refuse", row |-> i, status |-> status]
  <2>1. r \in Request
    BY DEF Request, Refusing
  <2>2. r.op = "refuse" /\ r.row = i /\ i \in Rows /\ UNCHANGED registration /\ Serve(s, r)
    BY <1>6 DEF Refuse
  <2> HIDE DEF r
  <2>3. \A t \in Slots : req'[t] = r /\ t = s => SlotForm(t)
    BY <2>2 DEF SlotForm
  <2> QED BY <2>1, <2>2, <2>3, SlotServed
<1>7. ASSUME NEW a \in Projects, NEW u \in Users, AddMember(s, a, u)
      PROVE  req' \in [Slots -> Request] /\ \A t \in Slots : SlotForm(t)
  <2> DEFINE r == [op |-> "join", project |-> a, user |-> u]
  <2>1. r \in Request /\ r.op \notin Marked
    BY DEF Request, Joining, Marked
  <2> QED BY <1>7, <2>1, SlotServedPlainly DEF AddMember
<1>8. ASSUME NEW a \in Projects, DeleteProject(s, a)
      PROVE  req' \in [Slots -> Request] /\ \A t \in Slots : SlotForm(t)
  <2> DEFINE r == [op |-> "delete", project |-> a]
  <2>1. r \in Request
    BY DEF Request, Deleting
  <2>2. /\ r.op = "delete" /\ r.project = a /\ Serve(s, r)
        /\ UNCHANGED <<project, registration, everIn>>
        /\ Live(a) /\ ~Held(a) /\ ~Retained(a)
    BY <1>8 DEF DeleteProject
  <2> HIDE DEF r
  <2>3. \A t \in Slots \ {s} : req'[t] = req[t]
    BY <2>2 DEF Serve, TypeOK
  <2>4. \A t \in Slots : req'[t] = r /\ t = s => SlotForm(t)
    BY <2>2, <2>3 DEF SlotForm
  <2> QED BY <2>1, <2>2, <2>4, SlotServed
<1>9. ASSUME NEW p \in Programs, DeleteProgram(s, p)
      PROVE  req' \in [Slots -> Request] /\ \A t \in Slots : SlotForm(t)
  <2> DEFINE r == [op |-> "deleteProgram", program |-> p]
  <2>1. r \in Request /\ r.op \notin Marked
    BY DEF Request, Closing, Marked
  <2> QED BY <1>9, <2>1, SlotServedPlainly DEF DeleteProgram
<1> QED BY <1>1, <1>2, <1>3, <1>4, <1>5, <1>6, <1>7, <1>8, <1>9 DEF Reading

(* So does a request that is filed.                                        *)
LEMMA FiledSlots ==
  ASSUME TypeOK, NEW s \in Slots, RequestFiled(s)
  PROVE  req' \in [Slots -> Request] /\ \A t \in Slots : SlotForm(t)
<1> DEFINE a == req[s].project
           p == req[s].program
           r == [op |-> "link", program |-> p, project |-> a, team |-> project[a].team]
<1>1. a \in Projects /\ p \in Programs
  BY Serves DEF RequestFiled, Filing
<1>2. CASE Answer(s)
  BY <1>2, SlotAnswered
<1>3. CASE Serve(s, r) /\ assertEligible(a, p)
  <2>1. Live(a) /\ ~Held(a) /\ UNCHANGED project
    BY <1>3 DEF RequestFiled, assertEligible
  <2>2. project[a].team \in SUBSET Users
    BY <1>1, <2>1, ProjectStates DEF TypeOK, Live
  <2>3. r \in Request
    BY <1>1, <2>2 DEF Request, Entering
  <2>4. r.op = "link" /\ r.project = a
    OBVIOUS
  <2>5. Serve(s, r)
    BY <1>3
  <2> HIDE DEF r
  <2>6. \A t \in Slots \ {s} : req'[t] = req[t]
    BY <2>5 DEF Serve, TypeOK
  <2>7. \A t \in Slots : req'[t] = r /\ t = s => SlotForm(t)
    BY <2>1, <2>4, <2>6 DEF SlotForm
  <2> QED BY <2>3, <2>5, <2>7, SlotServed
<1> QED BY <1>2, <1>3 DEF RequestFiled

(* So does one that creates a project.                                     *)
LEMMA CreatesSlots ==
  ASSUME TypeOK, NEW s \in Slots, NEW a \in Projects, RequestCreates(s, a)
  PROVE  req' \in [Slots -> Request] /\ \A t \in Slots : SlotForm(t)
<1> DEFINE r == [op |-> "file", program |-> req[s].program, project |-> a]
<1>1. req[s].program \in Programs
  BY Serves DEF RequestCreates, Founding
<1>2. r \in Request /\ r.op \notin Marked
  BY <1>1 DEF Request, Filing, Marked
<1> QED BY <1>2, SlotServedPlainly DEF RequestCreates

(* So the locks are taken in order in every step.                          *)
LEMMA StepSlots ==
  ASSUME TypeOK, [Next]_vars
  PROVE  req' \in [Slots -> Request] /\ \A t \in Slots : SlotForm(t)
<1>1. CASE UNCHANGED req
  BY <1>1 DEF TypeOK, SlotForm
<1>2. ASSUME NEW s \in Slots, Answer(s)
      PROVE  req' \in [Slots -> Request] /\ \A t \in Slots : SlotForm(t)
  BY <1>2, SlotAnswered
<1>3. ASSUME NEW s \in Slots, Link(s) \/ Team(s) \/ Deletion(s)
      PROVE  \/ Reading(s) \/ RequestFiled(s) \/ Answer(s)
             \/ \E a \in Projects : RequestCreates(s, a)
  BY <1>3 DEF Link, Team, Deletion, Reading, RequestLinks, Approved, Refused, Removed, Moved,
     MemberAdded, ProjectDeleted, ProgramDeleted
<1>4. \/ UNCHANGED req
      \/ \E s \in Slots : Link(s) \/ Team(s) \/ Deletion(s)
  BY DEF Next, vars, CreateProject, MemberLeaves, CreateProgramProject, AddParticipant,
     RemoveParticipant
<1> QED BY <1>1, <1>2, <1>3, <1>4, ReadingSlots, FiledSlots, CreatesSlots

------------------------------------------------------------------------------
(* The invariant holds at first.                                           *)
LEMMA InitInv == Init => Inv
<1> SUFFICES ASSUME Init PROVE Inv
  OBVIOUS
<1>1. registration = [i \in {} |-> Row(None, None, "PENDING")] /\ Rows = {}
  BY DEF Init, Rows
<1>2. TypeOK
  <2>1. Rows \in {1..n : n \in 0..MaxRequests}
    <3>1. 1..0 = {} /\ 0 \in 0..MaxRequests
      OBVIOUS
    <3> QED BY <1>1, <3>1
  <2>2. registration \in [Rows -> Registration]
    BY <1>1
  <2>3. project \in [Projects -> Project] /\ req \in [Slots -> Request]
    BY ProjectType DEF Init, Request
  <2>4. participants \in [Programs -> SUBSET Users] /\ gone \subseteq Programs /\ everIn \subseteq Projects
    BY DEF Init
  <2> QED BY <1>1, <2>1, <2>2, <2>3, <2>4 DEF TypeOK, NamesLive
<1>3. \A s \in Slots : req[s].op = "none"
  BY DEF Init, Free
<1>4. RowsNamed /\ Exclusive /\ LinksLive /\ DeletesClean
  BY <1>3 DEF RowsNamed, Exclusive, LinksLive, DeletesClean
<1>5. RetainedNotDeleted /\ RemovalIsOnRecord
  BY <1>1 DEF Init, RetainedNotDeleted, RemovalIsOnRecord
<1> QED BY <1>2, <1>4, <1>5 DEF Inv

(* A project that is being deleted is in no program and named by no open,  *)
(* approved or removed request.                                            *)
LEMMA DeletedIsClean ==
  ASSUME Inv, NEW a \in Projects, DeleteHeld(a)
  PROVE  /\ Live(a) /\ project[a].program = None /\ a \notin everIn
         /\ \A i \in Rows : registration[i].project = a
              => registration[i].status \notin {"APPROVED", "REMOVED", "PENDING"}
<1>1. PICK s \in Slots : req[s].op = "delete" /\ req[s].project = a
  BY DEF DeleteHeld, Holds
<1>2. Live(a) /\ ~Retained(a) /\ a \notin everIn
  BY <1>1 DEF Inv, DeletesClean
<1> QED BY <1>2 DEF Retained, RowsOf

(* An approval under way names the project of its row.                     *)
LEMMA StepRowsNamed ==
  ASSUME Inv, Forms, \A t \in Slots : SlotForm(t)
  PROVE  RowsNamed'
<1>0. Rows \subseteq Rows' /\ (\A i \in Rows' : RowForm(i)) /\ TypeOK /\ RowsNamed
  BY DEF Forms, Inv
<1>1. ASSUME NEW t \in Slots, req'[t] = req[t]
      PROVE  /\ req'[t].op \in {"approve", "refuse"} => req'[t].row \in Rows'
             /\ req'[t].op = "approve" /\ registration'[req'[t].row].status = "PENDING"
                  => registration'[req'[t].row].project = req'[t].project
  <2>1. req[t].op \in {"approve", "refuse"} => req[t].row \in Rows /\ req[t].row \in Rows'
    BY <1>0 DEF RowsNamed
  <2>2. ASSUME req[t].op = "approve", registration'[req[t].row].status = "PENDING"
        PROVE  registration'[req[t].row].project = req[t].project
    <3> DEFINE i == req[t].row
    <3>1. i \in Rows /\ RowForm(i)
      BY <1>0, <2>1, <2>2
    <3>2. registration[i].status = "PENDING"
      BY <2>2, <3>1 DEF RowForm
    <3>3. registration[i].project = req[t].project /\ req[t].project \in Projects
      BY <1>0, <2>2, <3>2, Serves DEF RowsNamed, Approving
    <3>4. ~DeleteHeld(registration[i].project)
      BY <3>1, <3>2, <3>3, DeletedIsClean
    <3>5. registration'[i].project = registration[i].project
      BY <2>2, <3>1, <3>4 DEF RowForm
    <3> QED BY <3>3, <3>5
  <2> QED BY <1>1, <2>1, <2>2
<1>2. ASSUME NEW t \in Slots, req'[t] # req[t]
      PROVE  /\ req'[t].op \in {"approve", "refuse"} => req'[t].row \in Rows'
             /\ req'[t].op = "approve" /\ registration'[req'[t].row].status = "PENDING"
                  => registration'[req'[t].row].project = req'[t].project
  BY <1>0, <1>2 DEF SlotForm, Marked
<1> QED BY <1>1, <1>2 DEF RowsNamed

(* A project is held by requests of one kind.                              *)
LEMMA StepExclusive ==
  ASSUME Inv, \A t \in Slots : SlotForm(t)
  PROVE  Exclusive'
<1>0. Exclusive
  BY DEF Inv
<1> SUFFICES ASSUME NEW s \in Slots, NEW t \in Slots, s # t,
                    req'[s].op \in {"link", "delete"}, req'[t].op \in {"link", "delete"}
             PROVE  req'[s].project # req'[t].project
  BY DEF Exclusive
<1>1. CASE req'[s] = req[s] /\ req'[t] = req[t]
  BY <1>0, <1>1 DEF Exclusive
<1>2. ASSUME NEW x \in Slots, NEW y \in Slots, x # y, req'[x] # req[x],
             req'[x].op \in {"link", "delete"}, req'[y].op \in {"link", "delete"}
      PROVE  req'[x].project # req'[y].project
  <2>1. ~Held(req'[x].project) /\ req'[y] = req[y]
    BY <1>2 DEF SlotForm, Marked
  <2> QED BY <1>2, <2>1 DEF Held
<1> QED BY <1>1, <1>2

(* What a self-approving request is about to link is there.                *)
LEMMA StepLinksLive ==
  ASSUME Inv, Forms, \A t \in Slots : SlotForm(t)
  PROVE  LinksLive'
<1> SUFFICES ASSUME NEW t \in Slots, req'[t].op = "link"
             PROVE  project'[req'[t].project].state = "live"
  BY DEF LinksLive, Live
<1>1. CASE req'[t] # req[t]
  BY <1>1 DEF SlotForm, Marked, Live
<1>2. CASE req'[t] = req[t]
  <2> DEFINE a == req[t].project
  <2>1. a \in Projects /\ Live(a)
    BY <1>2, Serves DEF Inv, LinksLive, Entering
  <2>2. ProjectForm(a)
    BY <2>1 DEF Forms
  <2>3. \A s \in Slots : ~Holds(s, "delete", a)
    BY <1>2 DEF Inv, Exclusive, Holds
  <2> QED BY <1>2, <2>1, <2>2, <2>3 DEF ProjectForm, Live
<1> QED BY <1>1, <1>2

(* What an open deletion has checked stays as it was.                      *)
LEMMA StepDeletesClean ==
  ASSUME Inv, Forms, \A t \in Slots : SlotForm(t)
  PROVE  DeletesClean'
<1>0. TypeOK /\ RemovalIsOnRecord /\ Exclusive /\ DeletesClean
  BY DEF Inv
<1> SUFFICES ASSUME NEW t \in Slots, req'[t].op = "delete"
             PROVE  /\ project'[req'[t].project].state = "live"
                    /\ project'[req'[t].project].program = None
                    /\ req'[t].project \notin everIn'
                    /\ \A i \in Rows' : registration'[i].project = req'[t].project
                         => registration'[i].status \notin {"APPROVED", "REMOVED", "PENDING"}
  BY DEF DeletesClean, Live, Retained, RowsOf
<1> DEFINE a == req'[t].project
<1>1. CASE req'[t] # req[t]
  <2>1. /\ UNCHANGED <<project, registration, everIn>> /\ Live(a) /\ ~Retained(a)
    BY <1>1 DEF SlotForm, Marked
  <2>2. project[a].program = None /\ RowsOf(a, {"REMOVED"}) = {}
    BY <2>1 DEF Retained, RowsOf
  <2>3. a \notin everIn
    BY <1>0, <2>2 DEF RemovalIsOnRecord
  <2>4. \A i \in Rows : registration[i].project = a
          => registration[i].status \notin {"APPROVED", "REMOVED", "PENDING"}
    BY <2>1 DEF Retained, RowsOf
  <2>5. Rows' = Rows
    BY <2>1 DEF Rows
  <2> QED BY <2>1, <2>2, <2>3, <2>4, <2>5 DEF Live
<1>2. CASE req'[t] = req[t]
  <2>0. PICK b \in Projects : b = req[t].project
    BY <1>0, <1>2, Serves DEF Deleting
  <2>1. Holds(t, "delete", b) /\ DeleteHeld(b)
    BY <1>2, <2>0 DEF Holds, DeleteHeld
  <2>2. /\ Live(b) /\ project[b].program = None /\ b \notin everIn
        /\ \A i \in Rows : registration[i].project = b
             => registration[i].status \notin {"APPROVED", "REMOVED", "PENDING"}
    BY <2>1, DeletedIsClean
  <2>3. ProjectForm(b)
    BY DEF Forms
  <2>4. \A s \in Slots : Holds(s, "delete", b) => s = t
    BY <1>0, <2>1 DEF Exclusive, Holds
  <2>5. /\ project'[b].state = "live" /\ project'[b].program = None /\ b \notin everIn'
    BY <1>2, <2>1, <2>2, <2>3, <2>4 DEF ProjectForm, Live, Holds, Same
  <2>6. \A i \in Rows' : registration'[i].project = b
          => registration'[i].status \notin {"APPROVED", "REMOVED", "PENDING"}
    <3> SUFFICES ASSUME NEW i \in Rows', registration'[i].project = b
                 PROVE  registration'[i].status \notin {"APPROVED", "REMOVED", "PENDING"}
      OBVIOUS
    <3>1. RowForm(i) /\ b # None
      BY DEF Forms
    <3> QED BY <2>1, <2>2, <3>1 DEF RowForm
  <2> QED BY <1>2, <2>0, <2>5, <2>6
<1> QED BY <1>1, <1>2

(* A project with history is not deleted.                                  *)
LEMMA StepRetained ==
  ASSUME Inv, Forms
  PROVE  RetainedNotDeleted'
<1>0. TypeOK /\ RetainedNotDeleted /\ RemovalIsOnRecord
  BY DEF Inv
<1>1. ASSUME NEW a \in everIn'
      PROVE  project'[a].state # "deleted"
  <2>1. a \in Projects
    BY DEF Forms, DataOK
  <2>2. ProjectForm(a) /\ (DeleteHeld(a) => a \notin everIn)
    BY <2>1, DeletedIsClean DEF Forms
  <2>3. a \in everIn => project[a].state # "deleted"
    BY <1>0 DEF RetainedNotDeleted
  <2>4. project[a] \in Project
    BY <1>0, <2>1 DEF TypeOK
  <2>5. project[a].state = "deleted" => a \notin everIn
    BY <2>3
  <2>6. (\E s \in Slots : Holds(s, "delete", a)) => a \notin everIn
    BY <2>2 DEF DeleteHeld
  <2>7. project[a].program # None => project[a].state = "live"
    BY <2>4, ProjectStates
  <2> QED BY <1>1, <2>2, <2>5, <2>6, <2>7 DEF ProjectForm, Same
<1>2. ASSUME NEW i \in Rows', registration'[i].project = None
      PROVE  registration'[i].status \in {"REJECTED", "WITHDRAWN"}
  <2>1. RowForm(i)
    BY DEF Forms
  <2>2. i \in Rows
    BY <1>2, <2>1 DEF RowForm
  <2>3. registration[i] \in Registration
    BY <1>0, <2>2 DEF TypeOK
  <2>4. registration[i].project = None => registration[i].status \in {"REJECTED", "WITHDRAWN"}
    BY <1>0, <2>2 DEF RetainedNotDeleted
  <2>5. DeleteHeld(registration[i].project) =>
          registration[i].project = None \/ registration[i].status \in {"REJECTED", "WITHDRAWN"}
    BY <2>2, <2>3, DeletedIsClean DEF Registration, Statuses
  <2> QED BY <1>2, <2>1, <2>2, <2>4, <2>5 DEF RowForm
<1> QED BY <1>1, <1>2 DEF RetainedNotDeleted

(* A project that leaves its program has a row that says so.               *)
LEMMA StepRemoval ==
  ASSUME Inv, Forms
  PROVE  RemovalIsOnRecord'
<1>0. TypeOK /\ RemovalIsOnRecord
  BY DEF Inv
<1> SUFFICES ASSUME NEW a \in everIn', project'[a].program = None
             PROVE  \E i \in Rows' : registration'[i].project = a /\ registration'[i].status = "REMOVED"
  BY DEF RemovalIsOnRecord, RowsOf
<1>1. a \in Projects /\ ProjectForm(a)
  BY DEF Forms, DataOK
<1>2. project[a] \in Project
  BY <1>0, <1>1 DEF TypeOK
<1>3. \/ a \in everIn /\ project[a].program = None /\ ~DeleteHeld(a)
      \/ \E i \in Rows' : registration'[i].project = a /\ registration'[i].status = "REMOVED"
  <2>1. project[a].state = "absent" => project[a].program = None
    BY <1>2, ProjectStates
  <2>2. DeleteHeld(a) => a \notin everIn
    BY <1>1, DeletedIsClean
  <2> QED BY <1>1, <2>1, <2>2 DEF ProjectForm, Same, DeleteHeld
<1>4. ASSUME a \in everIn, project[a].program = None, ~DeleteHeld(a)
      PROVE  \E i \in Rows' : registration'[i].project = a /\ registration'[i].status = "REMOVED"
  <2>1. PICK i \in Rows : registration[i].project = a /\ registration[i].status = "REMOVED"
    BY <1>0, <1>4 DEF RemovalIsOnRecord, RowsOf
  <2>2. i \in Rows' /\ RowForm(i)
    BY DEF Forms
  <2>3. registration'[i].project = a /\ registration'[i].status = "REMOVED"
    BY <1>4, <2>1, <2>2 DEF RowForm
  <2> QED BY <2>2, <2>3
<1> QED BY <1>3, <1>4

(* A row that names a project names one there is.                          *)
LEMMA StepNamesLive ==
  ASSUME TypeOK, Forms
  PROVE  NamesLive'
<1> SUFFICES ASSUME NEW i \in Rows', registration'[i].project # None
             PROVE  project'[registration'[i].project].state = "live"
  BY DEF NamesLive, Live
<1> DEFINE a == registration'[i].project
<1>1. a \in Projects
  BY DEF Forms, DataOK, Registration
<1>2. RowForm(i) /\ ProjectForm(a)
  BY <1>1 DEF Forms
<1>3. CASE i \notin Rows
  BY <1>2, <1>3 DEF RowForm
<1>4. CASE i \in Rows
  <2>1. a = registration[i].project
    BY <1>2, <1>4 DEF RowForm
  <2>2. project[a].state = "live"
    BY <1>4, <2>1 DEF TypeOK, NamesLive, Live
  <2> QED BY <1>2, <2>2 DEF ProjectForm
<1> QED BY <1>3, <1>4

(* Every step keeps the invariant.                                         *)
LEMMA StepInv == Inv /\ [Next]_vars => Inv'
<1> SUFFICES ASSUME Inv, [Next]_vars PROVE Inv'
  OBVIOUS
<1>1. Forms
  BY StepForms
<1>2. req' \in [Slots -> Request] /\ \A t \in Slots : SlotForm(t)
  BY StepSlots DEF Inv
<1>3. TypeOK'
  BY <1>1, <1>2, StepNamesLive DEF Forms, DataOK, TypeOK, Inv
<1> QED BY <1>1, <1>2, <1>3, StepRowsNamed, StepExclusive, StepLinksLive, StepDeletesClean,
           StepRetained, StepRemoval DEF Inv

(* So it holds in every reachable state.                                   *)
LEMMA Invariance == Spec => []Inv
BY InitInv, StepInv, PTL DEF Spec

(* Every variable stays in its range, whatever requests run together.      *)
THEOREM TypeCorrect == Spec => []TypeOK
<1>1. Inv => TypeOK
  BY DEF Inv
<1> QED BY <1>1, Invariance, PTL

(* What has been in a program is not deleted, however a deletion, an       *)
(* approval, a move and a removal interleave.                              *)
THEOREM HistoryIsRetained == Spec => []RetainedNotDeleted
<1>1. Inv => RetainedNotDeleted
  BY DEF Inv
<1> QED BY <1>1, Invariance, PTL

(* A project that left its program has a row that says so.                 *)
THEOREM RemovalsAreRecorded == Spec => []RemovalIsOnRecord
<1>1. Inv => RemovalIsOnRecord
  BY DEF Inv
<1> QED BY <1>1, Invariance, PTL

(* A request leaves PENDING once, and only an approved one is removed.     *)
THEOREM RequestsAreDecidedOnce == Spec => DecidedOnce
<1> DEFINE Decided ==
      \A i \in Rows :
        LET before == registration[i].status
            after == registration'[i].status
        IN  after # before => \/ before = "PENDING" /\ after # "REMOVED"
                              \/ before = "APPROVED" /\ after = "REMOVED"
<1>1. Inv /\ [Next]_vars => [Decided]_vars
  <2> SUFFICES ASSUME Inv, [Next]_vars, NEW i \in Rows
               PROVE  LET before == registration[i].status
                          after == registration'[i].status
                      IN  after # before => \/ before = "PENDING" /\ after # "REMOVED"
                                            \/ before = "APPROVED" /\ after = "REMOVED"
    OBVIOUS
  <2>1. i \in Rows' /\ RowForm(i)
    BY StepForms DEF Forms
  <2> QED BY <2>1 DEF RowForm
<1> QED BY <1>1, Invariance, PTL DEF Spec, DecidedOnce

=============================================================================
