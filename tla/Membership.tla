------------------------------ MODULE Membership ------------------------------
(***************************************************************************)
(* The members of an approved organization and the invitations that bring  *)
(* them in: src/backend/src/modules/organizations/organizations.routes.ts, *)
(* src/backend/src/services/onboarding/invites.ts and assertOrgCapacity of *)
(* src/backend/src/services/billing/entitlements.ts.                       *)
(*                                                                         *)
(* Nothing is locked here.  A request occupies a slot: requireOrgAccess    *)
(* reads who asks, the handler reads whom it is about, then it counts the  *)
(* members the plan allows, then it writes by id; other requests run       *)
(* between any two of these.  The subscription is in force, billing is     *)
(* enforced and the plan limits members but not participants.  Titles,     *)
(* mails, the staff lists of programs and the audit log are left out.      *)
(***************************************************************************)
EXTENDS Integers, Sequences, FiniteSets

CONSTANTS
  Users,       \* accounts
  Owner,       \* who created the organization
  Limit,       \* the members the plan allows
  Slots,       \* requests the server may be serving at a time
  MaxInvites,  \* bound: OrganizationInvite rows
  MaxActs      \* bound: requests that are made

ASSUME UsersAssumption == IsFiniteSet(Users) /\ Owner \in Users
ASSUME SlotsAssumption == IsFiniteSet(Slots) /\ Slots # {}
ASSUME BoundsAssumption == Limit \in Nat \ {0} /\ {MaxInvites, MaxActs} \subseteq Nat

VARIABLES
  members,       \* the OrganizationMember row of each user
  invites,       \* OrganizationInvite rows, in the order of creation
  participants,  \* users registered in the organization's program
  req,           \* what each slot is serving
  taken,         \* history: how often each invitation was accepted
  acts           \* requests that were made

vars == <<members, invites, participants, req, taken, acts>>

Roles == {"OWNER", "ADMIN", "MANAGER", "MEMBER"}
ROLE_RANK == [OWNER |-> 4, ADMIN |-> 3, MANAGER |-> 2, MEMBER |-> 1]
hasOrgRole(role, minRole) == ROLE_RANK[role] >= ROLE_RANK[minRole]
canManageMember(actorRole, targetRole) == ROLE_RANK[actorRole] > ROLE_RANK[targetRole]

(* A row keeps its id; one that is created anew has the next.              *)
Member(id, status, role) == [id |-> id, status |-> status, role |-> role]
Create(u, status, role) == [members EXCEPT ![u] = Member(@.id + 1, status, role)]
Exists(u) == members[u].status # "NONE"
Active == {u \in Users : members[u].status = "ACTIVE"}

Free == [at |-> "free"]
Serve(s, r) == req' = [req EXCEPT ![s] = r]
Answer(s) == Serve(s, Free)
Begin(s) == req[s] = Free /\ acts < MaxActs /\ acts' = acts + 1

------------------------------------------------------------------------------
(* POST /:orgId/join, and DELETE /:orgId/join.                             *)
JoinRead(s, u) ==
  /\ Begin(s)
  /\ members[u].status \in {"NONE", "REJECTED"}
  /\ Serve(s, [at |-> "join", user |-> u, again |-> Exists(u), id |-> members[u].id])
  /\ UNCHANGED <<members, invites, participants, taken>>

(* What an UPDATE or a DELETE by id still finds.                           *)
Found(r) == Exists(r.user) /\ members[r.user].id = r.id
Row(r, status, role) ==
  IF Found(r) THEN [members EXCEPT ![r.user] = Member(r.id, status, role)] ELSE members

JoinWrite(s) ==
  /\ req[s].at = "join"
  /\ LET r == req[s]
     IN  members' = IF r.again THEN Row(r, "PENDING", "MEMBER")
                    ELSE IF Exists(r.user) THEN members     \* the unique key refuses
                    ELSE Create(r.user, "PENDING", "MEMBER")
  /\ Answer(s)
  /\ UNCHANGED <<invites, participants, taken, acts>>

CancelJoin(u) ==
  /\ acts < MaxActs /\ acts' = acts + 1
  /\ members[u].status = "PENDING"
  /\ members' = [members EXCEPT ![u].status = "NONE"]
  /\ UNCHANGED <<invites, participants, req, taken>>

------------------------------------------------------------------------------
(* requireOrgAccess: what the handler knows of its caller from here on.    *)
Enter(s, a) ==
  /\ Begin(s)
  /\ a \in Active
  /\ Serve(s, [at |-> "in", actor |-> a, id |-> members[a].id, role |-> members[a].role])
  /\ UNCHANGED <<members, invites, participants, taken>>

In(s, minRole) == req[s].at = "in" /\ hasOrgRole(req[s].role, minRole)

(* The handler goes on about the row of u, which it reads now.             *)
About(s, at, u) ==
  /\ Serve(s, [at |-> at, user |-> u, id |-> members[u].id, role |-> members[u].role])
  /\ UNCHANGED <<members, invites, participants, taken, acts>>

(* POST /members/:memberId/decision.                                       *)
Decide(s, u) ==
  /\ In(s, "MANAGER") /\ members[u].status = "PENDING"
  /\ About(s, "approving", u) \/ About(s, "reject", u)

(* DELETE /members/:memberId, and the suspend and reactivate handlers.     *)
Remove(s, u) ==
  /\ In(s, "ADMIN") /\ u \in Active
  /\ canManageMember(req[s].role, members[u].role)
  /\ About(s, "remove", u)

Suspend(s, u) ==
  /\ In(s, "ADMIN") /\ u \in Active
  /\ u # req[s].actor /\ canManageMember(req[s].role, members[u].role)
  /\ About(s, "suspend", u)

Reactivate(s, u) ==
  /\ In(s, "ADMIN") /\ members[u].status = "SUSPENDED"
  /\ u # req[s].actor /\ canManageMember(req[s].role, members[u].role)
  /\ About(s, "reactivating", u)

(* PATCH /members/:memberId.                                               *)
ChangeRole(s, u, role) ==
  /\ In(s, "ADMIN") /\ u \in Active
  /\ u # req[s].actor
  /\ canManageMember(req[s].role, members[u].role) /\ canManageMember(req[s].role, role)
  /\ Serve(s, [at |-> "role", user |-> u, id |-> members[u].id, role |-> role])
  /\ UNCHANGED <<members, invites, participants, taken, acts>>

(* DELETE /:orgId/membership: the last owner stays.                        *)
Leave(s) ==
  /\ In(s, "MEMBER")
  /\ req[s].role = "OWNER" => Cardinality({u \in Active : members[u].role = "OWNER"}) > 1
  /\ Serve(s, [at |-> "remove", user |-> req[s].actor, id |-> req[s].id, role |-> req[s].role])
  /\ UNCHANGED <<members, invites, participants, taken, acts>>

(* assertOrgCapacity counts the members and throws when there are enough.  *)
(* Mutant: the one that is to be added is not counted.                     *)
fitsWithout(count) == count <= Limit

fits(count) == count + 1 <= Limit

CheckCapacity(s) ==
  /\ req[s].at \in {"approving", "reactivating", "joining"}
  /\ IF fits(Cardinality(Active))
     THEN Serve(s, [req[s] EXCEPT !.at = CASE @ = "approving" -> "approve"
                                            [] @ = "reactivating" -> "reactivate"
                                            [] @ = "joining" -> "accept"])
     ELSE Answer(s)
  /\ UNCHANGED <<members, invites, participants, taken, acts>>

(* What each handler writes in the end, by id.                             *)
Written(r) ==
  CASE r.at = "approve"    -> Row(r, "ACTIVE", "MEMBER")
    [] r.at = "reject"     -> Row(r, "REJECTED", members[r.user].role)
    [] r.at = "suspend"    -> Row(r, "SUSPENDED", members[r.user].role)
    [] r.at = "reactivate" -> Row(r, "ACTIVE", members[r.user].role)
    [] r.at = "role"       -> Row(r, members[r.user].status, r.role)
    [] r.at = "remove"     -> Row(r, "NONE", members[r.user].role)

MemberWrite(s) ==
  /\ req[s].at \in {"approve", "reject", "suspend", "reactivate", "role", "remove"}
  /\ members' = Written(req[s])
  /\ Answer(s)
  /\ UNCHANGED <<invites, participants, taken, acts>>

------------------------------------------------------------------------------
(* POST /invites (createInvites), one person at a time: who is in already  *)
(* or suspended gets none, a new member needs room.  A pending invitation  *)
(* of the person is issued again.                                          *)
participantOnly(program, role) == program /\ role = "MEMBER"
Pending(i) == invites[i].status = "PENDING"

Invite(s, u, role, program) ==
  /\ In(s, "MANAGER")
  /\ program \/ hasOrgRole(req[s].role, "ADMIN")
  /\ canManageMember(req[s].role, role)
  /\ members[u].status # "SUSPENDED"
  /\ IF u \in Active THEN program
     ELSE participantOnly(program, role) \/ fits(Cardinality(Active))
  /\ LET pending == {i \in DOMAIN invites : Pending(i) /\ invites[i].user = u}
     IN  \E i \in IF pending = {} THEN {0} ELSE pending :
           Serve(s, [at |-> "invite", user |-> u, role |-> role, program |-> program,
                     invite |-> i])
  /\ UNCHANGED <<members, invites, participants, taken, acts>>

IssuedAgain(x, role, program) ==
  [x EXCEPT !.role = role, !.program = program, !.late = FALSE, !.sent = x.sent + 1]

InviteWrite(s) ==
  /\ req[s].at = "invite"
  /\ LET r == req[s]
     IN  IF r.invite = 0
         THEN /\ Len(invites) < MaxInvites
              /\ invites' = Append(invites, [user |-> r.user, role |-> r.role, late |-> FALSE,
                                             program |-> r.program, status |-> "PENDING", sent |-> 1])
              /\ taken' = Append(taken, 0)
         ELSE /\ invites' = [invites EXCEPT ![r.invite] = IssuedAgain(@, r.role, r.program)]
              /\ UNCHANGED taken
  /\ Answer(s)
  /\ UNCHANGED <<members, participants, acts>>

(* POST /invites/:inviteId/resend, and DELETE /invites/:inviteId.          *)
OnInvite(s, at, i) ==
  /\ Serve(s, [at |-> at, invite |-> i])
  /\ UNCHANGED <<members, invites, participants, taken, acts>>

Resend(s, i) ==
  /\ In(s, "MANAGER") /\ i \in DOMAIN invites
  /\ invites[i].status \in {"PENDING", "EXPIRED"}
  /\ OnInvite(s, "resend", i)

Revoke(s, i) ==
  /\ In(s, "MANAGER") /\ i \in DOMAIN invites
  /\ invites[i].status # "ACCEPTED"
  /\ OnInvite(s, "revoke", i)

(* findInviteByToken: a link is the last one that was issued; a pending    *)
(* invitation whose time is up is marked expired, also by a preview.       *)
Expire(s, i) ==
  /\ Begin(s) /\ i \in DOMAIN invites
  /\ Pending(i) /\ invites[i].late
  /\ Serve(s, [at |-> "expire", invite |-> i])
  /\ UNCHANGED <<members, invites, participants, taken>>

Resent(x) == [x EXCEPT !.status = "PENDING", !.late = FALSE, !.sent = x.sent + 1]

InviteStatusWrite(s) ==
  /\ req[s].at \in {"resend", "revoke", "expire"}
  /\ LET i == req[s].invite
     IN  invites' = [invites EXCEPT ![i] =
           CASE req[s].at = "resend" -> Resent(@)
             [] req[s].at = "revoke" -> [@ EXCEPT !.status = "REVOKED"]
             [] req[s].at = "expire" -> [@ EXCEPT !.status = "EXPIRED"]]
  /\ Answer(s)
  /\ UNCHANGED <<members, participants, taken, acts>>

(* POST /invites/:token/accept (acceptInviteToken), by the account it was  *)
(* sent to.                                                                *)
AcceptFind(s, i) ==
  /\ Begin(s) /\ i \in DOMAIN invites
  /\ Pending(i) /\ ~invites[i].late
  /\ Serve(s, [at |-> "found", user |-> invites[i].user, invite |-> i,
               role |-> invites[i].role, program |-> invites[i].program])
  /\ UNCHANGED <<members, invites, participants, taken>>

(* Who is a member keeps a higher role.                                    *)
(* Mutant: the invitation sets the role.                                   *)
roleFromInvite(u, role) == role

roleOf(u, role) ==
  IF u \in Active /\ hasOrgRole(members[u].role, role) THEN members[u].role ELSE role

AcceptRead(s) ==
  /\ req[s].at = "found"
  /\ LET r == req[s]
         only == participantOnly(r.program, r.role)
     IN  IF members[r.user].status = "SUSPENDED" THEN Answer(s)
         ELSE Serve(s, [at |-> IF only \/ r.user \in Active THEN "accept" ELSE "joining",
                        user |-> r.user, invite |-> r.invite, role |-> roleOf(r.user, r.role),
                        only |-> only])
  /\ UNCHANGED <<members, invites, participants, taken, acts>>

(* Everything is rolled back unless the invitation is still pending.       *)
(* Mutant: it is closed by id.                                             *)
stillOpenById(i) == TRUE

stillOpen(i) == Pending(i)

Joined(r) ==
  IF Exists(r.user) THEN [members EXCEPT ![r.user] = Member(@.id, "ACTIVE", r.role)]
  ELSE Create(r.user, "ACTIVE", r.role)

AcceptWrite(s) ==
  /\ req[s].at = "accept"
  /\ LET r == req[s]
     IN  IF stillOpen(r.invite)
         THEN /\ members' = IF r.only THEN members ELSE Joined(r)
              /\ participants' = IF r.only THEN participants \cup {r.user} ELSE participants
              /\ invites' = [invites EXCEPT ![r.invite].status = "ACCEPTED"]
              /\ taken' = [taken EXCEPT ![r.invite] = @ + 1]
         ELSE UNCHANGED <<members, participants, invites, taken>>
  /\ Answer(s)
  /\ UNCHANGED acts

(* INVITE_TTL_DAYS pass.                                                   *)
TimeIsUp(i) ==
  /\ i \in DOMAIN invites /\ ~invites[i].late
  /\ invites' = [invites EXCEPT ![i].late = TRUE]
  /\ UNCHANGED <<members, participants, req, taken, acts>>

------------------------------------------------------------------------------
(* An organization that has had room for everybody in it.                  *)
Init ==
  /\ members \in [Users -> {Member(0, "NONE", "MEMBER"), Member(1, "PENDING", "MEMBER"),
                            Member(1, "ACTIVE", "ADMIN"), Member(1, "ACTIVE", "OWNER")}]
  /\ \A u \in Users : members[u].role = "OWNER" <=> u = Owner
  /\ Cardinality(Active) <= Limit
  /\ invites = <<>>
  /\ participants = {}
  /\ req = [s \in Slots |-> Free]
  /\ taken = <<>>
  /\ acts = 0

MemberStep(s) ==
  \/ JoinWrite(s) \/ Leave(s) \/ CheckCapacity(s) \/ MemberWrite(s)
  \/ \E u \in Users :
       \/ JoinRead(s, u) \/ Enter(s, u) \/ Decide(s, u) \/ Remove(s, u)
       \/ Suspend(s, u) \/ Reactivate(s, u)
       \/ \E role \in Roles : ChangeRole(s, u, role)

InviteStep(s) ==
  \/ InviteWrite(s) \/ InviteStatusWrite(s) \/ AcceptRead(s) \/ AcceptWrite(s)
  \/ \E u \in Users, role \in Roles, program \in BOOLEAN : Invite(s, u, role, program)
  \/ \E i \in 1..MaxInvites : Resend(s, i) \/ Revoke(s, i) \/ Expire(s, i) \/ AcceptFind(s, i)

Next ==
  \/ \E s \in Slots : MemberStep(s) \/ InviteStep(s)
  \/ \E u \in Users : CancelJoin(u)
  \/ \E i \in 1..MaxInvites : TimeIsUp(i)

Spec == Init /\ [][Next]_vars

------------------------------------------------------------------------------
(* Every variable stays in its range, and a request is about a row that is *)
(* there.                                                                  *)
MemberStatus == {"NONE", "PENDING", "ACTIVE", "REJECTED", "SUSPENDED"}
InviteRole == Roles \ {"OWNER"}
InviteRow == [user : Users, role : InviteRole, program : BOOLEAN, late : BOOLEAN,
              status : {"PENDING", "ACCEPTED", "REVOKED", "EXPIRED"}, sent : Nat \ {0}]
Rows == 1..Len(invites)

Joining == [at : {"join"}, user : Users, again : BOOLEAN, id : Nat]
Entered == [at : {"in"}, actor : Users, id : Nat, role : Roles]
Handling == [at : {"approving", "approve", "reject", "remove", "suspend", "reactivating",
                   "reactivate", "role"}, user : Users, id : Nat, role : Roles]
Inviting == [at : {"invite"}, user : Users, role : InviteRole, program : BOOLEAN,
             invite : Rows \cup {0}]
Marking == [at : {"resend", "revoke", "expire"}, invite : Rows]
Finding == [at : {"found"}, user : Users, invite : Rows, role : InviteRole, program : BOOLEAN]
Accepting == [at : {"joining", "accept"}, user : Users, invite : Rows, role : Roles,
              only : BOOLEAN]
Serving == {Free} \cup Joining \cup Entered \cup Handling \cup Inviting \cup Marking
             \cup Finding \cup Accepting

TypeOK ==
  /\ members \in [Users -> [id : Nat, status : MemberStatus, role : Roles]]
  /\ invites \in Seq(InviteRow)
  /\ Len(invites) <= MaxInvites
  /\ participants \subseteq Users
  /\ req \in [Slots -> Serving]
  /\ taken \in Seq(Nat) /\ Len(taken) = Len(invites)
  /\ acts \in 0..MaxActs

(* Whoever acts on what they read when: nobody ever demotes, suspends,     *)
(* rejects or removes the owner, and no invitation or departure does.      *)
OwnerStays == members[Owner].status = "ACTIVE" /\ members[Owner].role = "OWNER"

(* However often it is resent, revoked, expired or opened twice at once:   *)
(* each issue of an invitation lets its person in at most once.            *)
LinkUsedOnce ==
  \A i \in DOMAIN invites : taken[i] + (IF Pending(i) THEN 1 ELSE 0) <= invites[i].sent

(* Members are counted before they are added, without a lock.  The plan's  *)
(* limit is overrun at most by the other requests being served at a time.  *)
OverrunBounded == Cardinality(Active) <= Limit + Cardinality(Slots) - 1
=============================================================================
