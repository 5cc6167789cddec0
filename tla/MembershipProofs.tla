--------------------------- MODULE MembershipProofs ---------------------------
(***************************************************************************)
(* Theorems about Membership for any accounts, plan, number of invitations *)
(* and requests.                                                           *)
(***************************************************************************)
EXTENDS Membership, SequenceTheorems, FiniteSetTheorems, TLAPS

USE UsersAssumption, SlotsAssumption, BoundsAssumption

MemberRow == [id : Nat, status : MemberStatus, role : Roles]

(* What a slot holds is told by where its request is.                      *)
LEMMA AtTells ==
  /\ Free.at = "free"
  /\ \A r \in Joining : r.at = "join"
  /\ \A r \in Entered : r.at = "in"
  /\ \A r \in Handling : r.at \in {"approving", "approve", "reject", "remove", "suspend",
                                   "reactivating", "reactivate", "role"}
  /\ \A r \in Inviting : r.at = "invite"
  /\ \A r \in Marking : r.at \in {"resend", "revoke", "expire"}
  /\ \A r \in Finding : r.at = "found"
  /\ \A r \in Accepting : r.at \in {"joining", "accept"}
BY DEF Free, Joining, Entered, Handling, Inviting, Marking, Finding, Accepting

(* The place a request is at tells what else it carries.                   *)
LEMMA Holds ==
  ASSUME TypeOK, NEW s \in Slots
  PROVE  /\ req[s].at = "join" => req[s] \in Joining
         /\ req[s].at = "in" => req[s] \in Entered
         /\ req[s].at \in {"approving", "approve", "reject", "remove", "suspend",
                           "reactivating", "reactivate", "role"} => req[s] \in Handling
         /\ req[s].at = "invite" => req[s] \in Inviting
         /\ req[s].at \in {"resend", "revoke", "expire"} => req[s] \in Marking
         /\ req[s].at = "found" => req[s] \in Finding
         /\ req[s].at \in {"joining", "accept"} => req[s] \in Accepting
<1>1. req[s] \in Serving
  BY DEF TypeOK
<1> QED BY <1>1, AtTells DEF Serving

(* The rows that invitations are in stay when more are added.              *)
LEMMA ServingGrows ==
  ASSUME TypeOK, invites' \in Seq(InviteRow), Len(invites') >= Len(invites)
  PROVE  /\ \A r \in Serving : r \in Serving'
         /\ req \in [Slots -> Serving']
<1>1. Rows \subseteq Rows'
  <2>1. Len(invites) \in Nat /\ Len(invites') \in Nat
    BY DEF TypeOK
  <2> QED BY <2>1 DEF Rows
<1>2. \A r \in Serving : r \in Serving'
  BY <1>1 DEF Serving, Free, Joining, Entered, Handling, Inviting, Marking, Finding, Accepting
<1> QED BY <1>2 DEF TypeOK

(* A step that writes members only, and hands a slot on.                   *)
LEMMA MemberType ==
  ASSUME TypeOK, members' \in [Users -> MemberRow],
         UNCHANGED <<invites, participants, taken>>, acts' \in 0..MaxActs,
         req' \in [Slots -> Serving]
  PROVE  TypeOK'
BY ServingGrows DEF TypeOK, MemberRow, Serving, Joining, Entered, Handling, Inviting,
   Marking, Finding, Accepting, Rows

(* Taking up a request leaves a request table behind.                      *)
LEMMA ServeType ==
  ASSUME TypeOK, NEW s \in Slots, NEW r \in Serving, Serve(s, r)
  PROVE  req' \in [Slots -> Serving]
BY DEF TypeOK, Serve

(* So does answering it.                                                   *)
LEMMA AnswerType ==
  ASSUME TypeOK, NEW s \in Slots, Answer(s)
  PROVE  req' \in [Slots -> Serving]
<1>1. Free \in Serving
  BY DEF Serving
<1> QED BY <1>1, ServeType DEF Answer

(* A request that begins is counted.                                       *)
LEMMA BeginType ==
  ASSUME TypeOK, NEW s \in Slots, Begin(s)
  PROVE  acts' \in 0..MaxActs
BY DEF TypeOK, Begin

(* A step that only reads.                                                 *)
LEMMA ReadType ==
  ASSUME TypeOK, NEW s \in Slots, NEW r \in Serving, Serve(s, r),
         UNCHANGED <<members, invites, participants, taken>>, acts' \in 0..MaxActs
  PROVE  TypeOK'
BY ServeType, MemberType DEF TypeOK, MemberRow

(* A request that is refused keeps the types.                              *)
LEMMA AnsweredType ==
  ASSUME TypeOK, NEW s \in Slots, Answer(s),
         UNCHANGED <<members, invites, participants, taken, acts>>
  PROVE  TypeOK'
BY AnswerType, MemberType DEF TypeOK, MemberRow

(* Every row of a member that is written is one.                           *)
LEMMA RowType ==
  ASSUME TypeOK, NEW r, r.user \in Users, r.id \in Nat,
         NEW status \in MemberStatus, NEW role \in Roles
  PROVE  /\ Row(r, status, role) \in [Users -> MemberRow]
         /\ Create(r.user, status, role) \in [Users -> MemberRow]
BY DEF TypeOK, MemberRow, Row, Create, Member

(* What a handler writes to the members is a table of members.             *)
LEMMA WrittenType ==
  ASSUME TypeOK, NEW s \in Slots,
         req[s].at \in {"approve", "reject", "suspend", "reactivate", "role", "remove"}
  PROVE  Written(req[s]) \in [Users -> MemberRow]
<1> DEFINE r == req[s]
<1>1. r \in Handling
  BY Holds
<1>2. r.user \in Users /\ r.id \in Nat /\ r.role \in Roles
  BY <1>1 DEF Handling
<1>3. members[r.user].role \in Roles /\ members[r.user].status \in MemberStatus
  BY <1>2 DEF TypeOK
<1>4. "MEMBER" \in Roles /\ {"NONE", "ACTIVE", "REJECTED", "SUSPENDED"} \subseteq MemberStatus
  BY DEF Roles, MemberStatus
<1> HIDE DEF r
<1>5. \A status \in MemberStatus, role \in Roles : Row(r, status, role) \in [Users -> MemberRow]
  BY <1>2, RowType
<1>6. \/ Written(r) = Row(r, "ACTIVE", "MEMBER")
      \/ Written(r) = Row(r, "REJECTED", members[r.user].role)
      \/ Written(r) = Row(r, "SUSPENDED", members[r.user].role)
      \/ Written(r) = Row(r, "ACTIVE", members[r.user].role)
      \/ Written(r) = Row(r, members[r.user].status, r.role)
      \/ Written(r) = Row(r, "NONE", members[r.user].role)
  BY DEF Written, r
<1> QED BY <1>2, <1>3, <1>4, <1>5, <1>6 DEF r

(* At first everything is well-typed.                                      *)
LEMMA InitTypeOK == Init => TypeOK
<1> SUFFICES ASSUME Init PROVE TypeOK
  OBVIOUS
<1>1. members \in [Users -> MemberRow]
  BY DEF Init, Member, MemberRow, MemberStatus, Roles
<1>2. req \in [Slots -> Serving]
  BY DEF Init, Serving
<1>3. /\ invites \in Seq(InviteRow) /\ Len(invites) = 0
      /\ taken \in Seq(Nat) /\ Len(taken) = 0
  BY DEF Init
<1> QED BY <1>1, <1>2, <1>3 DEF Init, TypeOK, MemberRow

(* The requests about members.                                             *)
LEMMA MemberStepType ==
  ASSUME TypeOK, NEW s \in Slots, MemberStep(s)
  PROVE  TypeOK'
<1> USE DEF MemberRow
<1>1. \A u \in Users : members[u] \in MemberRow
  BY DEF TypeOK
<1>2. acts \in 0..MaxActs
  BY DEF TypeOK
<1>3. ASSUME NEW u \in Users, JoinRead(s, u)
      PROVE  TypeOK'
  <2>1. [at |-> "join", user |-> u, again |-> Exists(u), id |-> members[u].id] \in Serving
    BY <1>1 DEF Serving, Joining, Exists
  <2> QED BY <1>3, <2>1, BeginType, ReadType DEF JoinRead
<1>4. ASSUME NEW u \in Users, Enter(s, u)
      PROVE  TypeOK'
  <2>1. [at |-> "in", actor |-> u, id |-> members[u].id, role |-> members[u].role] \in Serving
    BY <1>1 DEF Serving, Entered
  <2> QED BY <1>4, <2>1, BeginType, ReadType DEF Enter
<1>5. ASSUME NEW u \in Users,
             NEW at \in {"approving", "reject", "remove", "suspend", "reactivating"},
             About(s, at, u)
      PROVE  TypeOK'
  <2>1. [at |-> at, user |-> u, id |-> members[u].id, role |-> members[u].role] \in Serving
    BY <1>1 DEF Serving, Handling
  <2> QED BY <1>2, <1>5, <2>1, ReadType DEF About
<1>6. ASSUME NEW u \in Users, NEW role \in Roles, ChangeRole(s, u, role)
      PROVE  TypeOK'
  <2>1. [at |-> "role", user |-> u, id |-> members[u].id, role |-> role] \in Serving
    BY <1>1 DEF Serving, Handling
  <2> QED BY <1>2, <1>6, <2>1, ReadType DEF ChangeRole
<1>7. CASE Leave(s)
  <2>1. req[s] \in Entered
    BY <1>7, Holds DEF Leave, In
  <2>2. [at |-> "remove", user |-> req[s].actor, id |-> req[s].id, role |-> req[s].role]
          \in Serving
    BY <2>1 DEF Serving, Handling, Entered
  <2> QED BY <1>2, <1>7, <2>2, ReadType DEF Leave
<1>8. CASE CheckCapacity(s)
  <2>1. req[s] \in Handling \/ req[s] \in Accepting
    BY <1>8, Holds DEF CheckCapacity
  <2>2. CASE fits(Cardinality(Active))
    <3> DEFINE at == CASE req[s].at = "approving" -> "approve"
                       [] req[s].at = "reactivating" -> "reactivate"
                       [] req[s].at = "joining" -> "accept"
    <3>1. [req[s] EXCEPT !.at = at] \in Serving
      <4>1. CASE req[s].at = "approving"
        <5>1. at = "approve" /\ req[s] \in Handling
          BY <4>1, Holds
        <5> QED BY <5>1 DEF Serving, Handling
      <4>2. CASE req[s].at = "reactivating"
        <5>1. at = "reactivate" /\ req[s] \in Handling
          BY <4>2, Holds
        <5> QED BY <5>1 DEF Serving, Handling
      <4>3. CASE req[s].at = "joining"
        <5>1. at = "accept" /\ req[s] \in Accepting
          BY <4>3, Holds
        <5> QED BY <5>1 DEF Serving, Accepting
      <4> QED BY <1>8, <4>1, <4>2, <4>3 DEF CheckCapacity
    <3>2. Serve(s, [req[s] EXCEPT !.at = at])
      BY <1>8, <2>2 DEF CheckCapacity
    <3> HIDE DEF at
    <3> QED BY <1>2, <1>8, <3>1, <3>2, ReadType DEF CheckCapacity
  <2>3. CASE ~fits(Cardinality(Active))
    BY <1>8, <2>3, AnsweredType DEF CheckCapacity
  <2> QED BY <2>2, <2>3
<1>9. CASE JoinWrite(s)
  <2> DEFINE r == req[s]
  <2>1. r \in Joining
    BY <1>9, Holds DEF JoinWrite
  <2>2. r.user \in Users /\ r.id \in Nat /\ "PENDING" \in MemberStatus /\ "MEMBER" \in Roles
    BY <2>1 DEF Joining, MemberStatus, Roles
  <2>3. members' \in [Users -> MemberRow]
    BY <1>9, <2>2, RowType DEF JoinWrite, TypeOK
  <2> QED BY <1>2, <1>9, <2>3, AnswerType, MemberType DEF JoinWrite
<1>10. CASE MemberWrite(s)
  <2>1. members' \in [Users -> MemberRow]
    BY <1>10, WrittenType DEF MemberWrite
  <2> QED BY <1>2, <1>10, <2>1, AnswerType, MemberType DEF MemberWrite
<1> QED BY <1>3, <1>4, <1>5, <1>6, <1>7, <1>8, <1>9, <1>10
        DEF MemberStep, Decide, Remove, Suspend, Reactivate

(* An invitation that is issued again is one.                              *)
LEMMA ReissueType ==
  ASSUME NEW x \in InviteRow, NEW role \in InviteRole, NEW program \in BOOLEAN
  PROVE  Resent(x) \in InviteRow /\ IssuedAgain(x, role, program) \in InviteRow
<1> DEFINE n == x.sent + 1
<1>1. n \in Nat \ {0}
  BY DEF InviteRow
<1>2. /\ Resent(x) = [x EXCEPT !.status = "PENDING", !.late = FALSE, !.sent = n]
      /\ IssuedAgain(x, role, program) =
           [x EXCEPT !.role = role, !.program = program, !.late = FALSE, !.sent = n]
  BY DEF Resent, IssuedAgain
<1> HIDE DEF n
<1>3. [x EXCEPT !.status = "PENDING", !.late = FALSE, !.sent = n] \in InviteRow
  BY <1>1 DEF InviteRow
<1>4. [x EXCEPT !.role = role, !.program = program, !.late = FALSE, !.sent = n] \in InviteRow
  BY <1>1 DEF InviteRow
<1> QED BY <1>2, <1>3, <1>4

(* The requests about invitations.                                         *)
LEMMA InviteStepType ==
  ASSUME TypeOK, NEW s \in Slots, InviteStep(s)
  PROVE  TypeOK'
<1>1. /\ acts \in 0..MaxActs /\ Len(invites) \in Nat /\ DOMAIN invites = Rows
      /\ \A i \in Rows : invites[i] \in InviteRow
  BY DEF TypeOK, Rows
<1>2. ASSUME NEW u \in Users, NEW role \in Roles, NEW program \in BOOLEAN,
             Invite(s, u, role, program)
      PROVE  TypeOK'
  <2>1. req[s] \in Entered
    BY <1>2, Holds DEF Invite, In
  <2>2. role \in InviteRole
    BY <1>2, <2>1 DEF Invite, canManageMember, ROLE_RANK, InviteRole, Roles, Entered
  <2>3. PICK i \in Rows \cup {0} :
          Serve(s, [at |-> "invite", user |-> u, role |-> role, program |-> program,
                    invite |-> i])
    BY <1>1, <1>2 DEF Invite
  <2>4. [at |-> "invite", user |-> u, role |-> role, program |-> program, invite |-> i]
          \in Serving
    BY <2>2 DEF Serving, Inviting
  <2> QED BY <1>1, <1>2, <2>3, <2>4, ReadType DEF Invite
<1>3. ASSUME NEW i \in 1..MaxInvites, Resend(s, i) \/ Revoke(s, i) \/ Expire(s, i)
      PROVE  TypeOK'
  <2>1. i \in Rows
    BY <1>1, <1>3 DEF Resend, Revoke, Expire
  <2>2. \A at \in {"resend", "revoke", "expire"} : [at |-> at, invite |-> i] \in Serving
    BY <2>1 DEF Serving, Marking
  <2>3. CASE Resend(s, i) \/ Revoke(s, i)
    BY <1>1, <2>2, <2>3, ReadType DEF Resend, Revoke, OnInvite
  <2>4. CASE Expire(s, i)
    BY <2>2, <2>4, BeginType, ReadType DEF Expire
  <2> QED BY <1>3, <2>3, <2>4
<1>4. ASSUME NEW i \in 1..MaxInvites, AcceptFind(s, i)
      PROVE  TypeOK'
  <2>1. i \in Rows
    BY <1>1, <1>4 DEF AcceptFind
  <2>2. [at |-> "found", user |-> invites[i].user, invite |-> i, role |-> invites[i].role,
         program |-> invites[i].program] \in Serving
    BY <1>1, <2>1 DEF Serving, Finding, InviteRow
  <2> QED BY <1>4, <2>2, BeginType, ReadType DEF AcceptFind
<1>5. CASE AcceptRead(s)
  <2> DEFINE r == req[s]
             only == participantOnly(r.program, r.role)
             at == IF only \/ r.user \in Active THEN "accept" ELSE "joining"
             goesOn == [at |-> at, user |-> r.user, invite |-> r.invite,
                        role |-> roleOf(r.user, r.role), only |-> only]
  <2>1. r \in Finding
    BY <1>5, Holds DEF AcceptRead
  <2>2. /\ r.user \in Users /\ r.invite \in Rows /\ r.role \in Roles /\ only \in BOOLEAN
        /\ members[r.user].role \in Roles
    BY <2>1 DEF Finding, InviteRole, participantOnly, TypeOK
  <2>3. roleOf(r.user, r.role) \in Roles
    BY <2>2 DEF roleOf
  <2>4. at \in {"joining", "accept"}
    OBVIOUS
  <2>5. Answer(s) \/ Serve(s, goesOn)
    BY <1>5 DEF AcceptRead
  <2> HIDE DEF r, only, at
  <2>6. goesOn \in Serving
    BY <2>2, <2>3, <2>4 DEF Serving, Accepting
  <2> HIDE DEF goesOn
  <2> QED BY <1>1, <1>5, <2>5, <2>6, AnsweredType, ReadType DEF AcceptRead
<1>6. CASE InviteStatusWrite(s)
  <2> DEFINE i == req[s].invite
  <2>1. i \in Rows
    BY <1>6, Holds DEF InviteStatusWrite, Marking
  <2>2. PICK x \in InviteRow : invites' = [invites EXCEPT ![i] = x]
    <3>1. invites[i] \in InviteRow
      BY <1>1, <2>1
    <3> HIDE DEF i
    <3>2. CASE req[s].at = "resend"
      <4>1. invites[i].role \in InviteRole /\ invites[i].program \in BOOLEAN
        BY <3>1 DEF InviteRow
      <4>2. Resent(invites[i]) \in InviteRow
        BY <3>1, <4>1, ReissueType
      <4>3. invites' = [invites EXCEPT ![i] = Resent(invites[i])]
        BY <1>6, <3>2 DEF InviteStatusWrite, i
      <4> QED BY <4>2, <4>3
    <3>3. CASE req[s].at = "revoke"
      <4> DEFINE x == [invites[i] EXCEPT !.status = "REVOKED"]
      <4>1. x \in InviteRow
        BY <3>1 DEF InviteRow
      <4>2. invites' = [invites EXCEPT ![i] = x]
        BY <1>6, <3>3 DEF InviteStatusWrite, i
      <4> QED BY <4>1, <4>2
    <3>4. CASE req[s].at = "expire"
      <4> DEFINE x == [invites[i] EXCEPT !.status = "EXPIRED"]
      <4>1. x \in InviteRow
        BY <3>1 DEF InviteRow
      <4>2. invites' = [invites EXCEPT ![i] = x]
        BY <1>6, <3>4 DEF InviteStatusWrite, i
      <4> QED BY <4>1, <4>2
    <3> QED BY <1>6, <3>2, <3>3, <3>4 DEF InviteStatusWrite
  <2>3. invites' \in Seq(InviteRow) /\ Len(invites') = Len(invites)
    BY <2>1, <2>2, ExceptSeq DEF TypeOK, Rows
  <2>4. req' \in [Slots -> Serving]
    BY <1>6, AnswerType DEF InviteStatusWrite
  <2>5. Serving' = Serving
    BY <2>3 DEF Serving, Free, Joining, Entered, Handling, Inviting, Marking, Finding,
            Accepting, Rows
  <2> QED BY <1>6, <2>3, <2>4, <2>5 DEF InviteStatusWrite, TypeOK
<1>7. CASE InviteWrite(s)
  <2> DEFINE r == req[s]
  <2>1. r \in Inviting
    BY <1>7, Holds DEF InviteWrite
  <2>2. /\ r.user \in Users /\ r.role \in InviteRole /\ r.program \in BOOLEAN
        /\ r.invite \in Rows \cup {0}
    BY <2>1 DEF Inviting
  <2>3. /\ invites' \in Seq(InviteRow) /\ Len(invites') <= MaxInvites
        /\ Len(invites') >= Len(invites)
        /\ taken' \in Seq(Nat) /\ Len(taken') = Len(invites')
    <3>1. CASE r.invite = 0
      <4> DEFINE new == [user |-> r.user, role |-> r.role, late |-> FALSE,
                         program |-> r.program, status |-> "PENDING", sent |-> 1]
      <4>1. new \in InviteRow
        BY <2>2 DEF InviteRow
      <4>2. /\ Len(invites) < MaxInvites
            /\ invites' = Append(invites, new) /\ taken' = Append(taken, 0)
        BY <1>7, <3>1 DEF InviteWrite
      <4> HIDE DEF new
      <4>3. invites' \in Seq(InviteRow) /\ Len(invites') = Len(invites) + 1
        BY <4>1, <4>2, AppendProperties DEF TypeOK
      <4>4. taken' \in Seq(Nat) /\ Len(taken') = Len(taken) + 1
        BY <4>2, AppendProperties DEF TypeOK
      <4> QED BY <1>1, <4>2, <4>3, <4>4 DEF TypeOK
    <3>2. CASE r.invite # 0
      <4> DEFINE i == r.invite
                 new == IssuedAgain(invites[i], r.role, r.program)
      <4>1. i \in Rows
        BY <2>2, <3>2
      <4>2. new \in InviteRow
        <5>1. invites[i] \in InviteRow
          BY <1>1, <4>1
        <5> QED BY <2>2, <5>1, ReissueType
      <4>3. invites' = [invites EXCEPT ![i] = new] /\ taken' = taken
        BY <1>7, <3>2 DEF InviteWrite
      <4> HIDE DEF new
      <4>4. invites' \in Seq(InviteRow) /\ Len(invites') = Len(invites)
        BY <4>1, <4>2, <4>3, ExceptSeq DEF TypeOK, Rows
      <4> QED BY <1>1, <4>3, <4>4 DEF TypeOK
    <3> QED BY <3>1, <3>2
  <2>4. req' \in [Slots -> Serving']
    <3>1. req' \in [Slots -> Serving]
      BY <1>7, AnswerType DEF InviteWrite
    <3> QED BY <2>3, <3>1, ServingGrows
  <2> QED BY <1>7, <2>3, <2>4 DEF InviteWrite, TypeOK
<1>8. CASE AcceptWrite(s)
  <2> DEFINE r == req[s]
  <2>1. r \in Accepting
    BY <1>8, Holds DEF AcceptWrite
  <2>2. r.user \in Users /\ r.invite \in Rows /\ r.role \in Roles /\ r.only \in BOOLEAN
    BY <2>1 DEF Accepting
  <2>3. CASE stillOpen(r.invite)
    <3>1. members' \in [Users -> MemberRow]
      <4>1. Joined(r) \in [Users -> MemberRow]
        BY <2>2 DEF Joined, Create, Member, MemberRow, MemberStatus, TypeOK
      <4> QED BY <1>8, <2>3, <4>1 DEF AcceptWrite, TypeOK, MemberRow
    <3>2. participants' \subseteq Users
      BY <1>8, <2>2, <2>3 DEF AcceptWrite, TypeOK
    <3>3. [invites[r.invite] EXCEPT !.status = "ACCEPTED"] \in InviteRow
      BY <1>1, <2>2 DEF InviteRow
    <3>4. invites' \in Seq(InviteRow) /\ Len(invites') = Len(invites)
      <4>1. invites' = [invites EXCEPT ![r.invite] =
                          [invites[r.invite] EXCEPT !.status = "ACCEPTED"]]
        BY <1>1, <1>8, <2>2, <2>3 DEF AcceptWrite
      <4> QED BY <2>2, <3>3, <4>1, ExceptSeq DEF TypeOK, Rows
    <3>5. taken' \in Seq(Nat) /\ Len(taken') = Len(taken)
      <4>1. r.invite \in 1..Len(taken) /\ taken[r.invite] + 1 \in Nat
        BY <1>1, <2>2 DEF TypeOK, Rows
      <4>2. taken' = [taken EXCEPT ![r.invite] = taken[r.invite] + 1]
        BY <1>8, <2>3 DEF AcceptWrite
      <4> QED BY <4>1, <4>2, ExceptSeq DEF TypeOK
    <3>6. req' \in [Slots -> Serving]
      BY <1>8, AnswerType DEF AcceptWrite
    <3>7. Serving' = Serving
      BY <3>4 DEF Serving, Free, Joining, Entered, Handling, Inviting, Marking, Finding,
              Accepting, Rows
    <3> QED BY <1>8, <3>1, <3>2, <3>4, <3>5, <3>6, <3>7 DEF AcceptWrite, TypeOK, MemberRow
  <2>4. CASE ~stillOpen(r.invite)
    BY <1>8, <2>4, AnsweredType DEF AcceptWrite
  <2> QED BY <2>3, <2>4
<1> QED BY <1>2, <1>3, <1>4, <1>5, <1>6, <1>7, <1>8 DEF InviteStep

(* Every handler keeps the types.                                          *)
LEMMA StepTypeOK == TypeOK /\ [Next]_vars => TypeOK'
<1> SUFFICES ASSUME TypeOK, [Next]_vars PROVE TypeOK'
  OBVIOUS
<1>1. CASE UNCHANGED vars
  BY <1>1, ServingGrows DEF vars, TypeOK
<1>2. ASSUME NEW u \in Users, CancelJoin(u)
      PROVE  TypeOK'
  <2>1. members' \in [Users -> MemberRow]
    BY <1>2 DEF CancelJoin, TypeOK, MemberRow, MemberStatus
  <2> QED BY <1>2, <2>1, MemberType DEF CancelJoin, TypeOK
<1>3. ASSUME NEW i \in 1..MaxInvites, TimeIsUp(i)
      PROVE  TypeOK'
  <2>1. i \in Rows /\ invites[i] \in InviteRow
    BY <1>3 DEF TimeIsUp, TypeOK, Rows
  <2>2. [invites[i] EXCEPT !.late = TRUE] \in InviteRow
    BY <2>1 DEF InviteRow
  <2>3. invites' = [invites EXCEPT ![i] = [invites[i] EXCEPT !.late = TRUE]]
    BY <1>3 DEF TimeIsUp
  <2>4. invites' \in Seq(InviteRow) /\ Len(invites') = Len(invites)
    BY <2>1, <2>2, <2>3, ExceptSeq DEF TypeOK, Rows
  <2>5. req \in [Slots -> Serving']
    BY <2>4, ServingGrows DEF TypeOK
  <2> QED BY <1>3, <2>4, <2>5 DEF TimeIsUp, TypeOK
<1> QED BY <1>1, <1>2, <1>3, MemberStepType, InviteStepType DEF Next

(* Every reachable state is well-typed, and a request is about an          *)
(* invitation that is there.                                               *)
THEOREM TypeCorrect == Spec => []TypeOK
BY InitTypeOK, StepTypeOK, PTL DEF Spec

------------------------------------------------------------------------------
(* What OwnerStays needs of the requests: none that will write a row is    *)
(* about the owner's, except an invitation that leaves the role alone, and *)
(* nobody else has or is about to get the rank of the owner.               *)
Handlers == {"approving", "approve", "reject", "remove", "suspend", "reactivating",
             "reactivate", "role"}
Harmless(r) ==
  /\ r.at = "in" => (r.role = "OWNER" <=> r.actor = Owner)
  /\ r.at \in {"join", "joining"} => r.user # Owner
  /\ r.at \in Handlers => r.user # Owner /\ r.role # "OWNER"
  /\ r.at \in {"joining", "accept"} /\ ~r.only => (r.role = "OWNER" <=> r.user = Owner)
OneOwner == OwnerStays /\ \A u \in Users \ {Owner} : members[u].role # "OWNER"
OwnerInv == OneOwner /\ \A s \in Slots : Harmless(req[s])

(* A harmless request leaves the other requests harmless.                  *)
LEMMA ServeHarmless ==
  ASSUME TypeOK, OwnerInv, NEW s \in Slots, NEW r, Harmless(r), Serve(s, r)
  PROVE  \A t \in Slots : Harmless(req'[t])
<1> SUFFICES ASSUME NEW t \in Slots PROVE Harmless(req'[t])
  OBVIOUS
<1>1. req'[t] = IF t = s THEN r ELSE req[t]
  BY DEF TypeOK, Serve
<1> QED BY <1>1 DEF OwnerInv

(* An answer leaves the other requests harmless.                           *)
LEMMA AnswerHarmless ==
  ASSUME TypeOK, OwnerInv, NEW s \in Slots, Answer(s)
  PROVE  \A t \in Slots : Harmless(req'[t])
<1>1. Harmless(Free)
  BY DEF Harmless, Free, Handlers
<1> QED BY <1>1, ServeHarmless DEF Answer

(* A step that only reads, and hands on what does no harm.                 *)
LEMMA ReadHarmless ==
  ASSUME TypeOK, OwnerInv, NEW s \in Slots, NEW r, Harmless(r), Serve(s, r),
         UNCHANGED members
  PROVE  OwnerInv'
BY ServeHarmless DEF OwnerInv, OneOwner, OwnerStays, Harmless

(* So after an answer it is enough that there is still one owner.          *)
LEMMA AnsweredHarmless ==
  ASSUME TypeOK, OwnerInv, NEW s \in Slots, Answer(s), OneOwner'
  PROVE  OwnerInv'
BY AnswerHarmless DEF OwnerInv, Harmless

(* Writing somebody else's row, with a lower role.                         *)
LEMMA RowsOfOthers ==
  ASSUME TypeOK, OneOwner, NEW r, r.user \in Users \ {Owner},
         NEW status, NEW role, role # "OWNER",
         \/ members' = members
         \/ members' = Row(r, status, role)
         \/ members' = Create(r.user, status, role)
  PROVE  OneOwner'
BY DEF TypeOK, OneOwner, OwnerStays, Row, Create, Member

(* No handler of members touches the owner's row: each asked for a rank    *)
(* above its target's.                                                     *)
LEMMA MemberStepOwner ==
  ASSUME TypeOK, OwnerInv, NEW s \in Slots, MemberStep(s)
  PROVE  OwnerInv'
<1>1. /\ OneOwner /\ Harmless(req[s])
      /\ Owner \in Users /\ members[Owner].status = "ACTIVE" /\ members[Owner].role = "OWNER"
      /\ \A u \in Users \ {Owner} : members[u].role # "OWNER"
  BY DEF OwnerInv, OneOwner, OwnerStays
<1>2. ASSUME NEW u \in Users, JoinRead(s, u)
      PROVE  OwnerInv'
  <2>1. Harmless([at |-> "join", user |-> u, again |-> Exists(u), id |-> members[u].id])
    BY <1>1, <1>2 DEF JoinRead, Harmless, Handlers
  <2> QED BY <1>2, <2>1, ReadHarmless DEF JoinRead
<1>3. ASSUME NEW u \in Users, Enter(s, u)
      PROVE  OwnerInv'
  <2>1. Harmless([at |-> "in", actor |-> u, id |-> members[u].id, role |-> members[u].role])
    BY <1>1 DEF Harmless, Handlers
  <2> QED BY <1>3, <2>1, ReadHarmless DEF Enter
<1>4. ASSUME NEW u \in Users, NEW at \in Handlers, About(s, at, u), u # Owner
      PROVE  OwnerInv'
  <2>1. Harmless([at |-> at, user |-> u, id |-> members[u].id, role |-> members[u].role])
    BY <1>1, <1>4 DEF Harmless, Handlers
  <2> QED BY <1>4, <2>1, ReadHarmless DEF About
<1>5. ASSUME NEW u \in Users, Decide(s, u) \/ Remove(s, u) \/ Suspend(s, u) \/ Reactivate(s, u)
      PROVE  OwnerInv'
  <2>1. \/ members[u].status \in {"PENDING", "SUSPENDED"}
        \/ req[s] \in Entered /\ canManageMember(req[s].role, members[u].role)
    BY <1>5, Holds DEF Decide, Remove, Suspend, Reactivate, In
  <2>2. u # Owner
    BY <1>1, <2>1 DEF canManageMember, ROLE_RANK, Entered, Roles
  <2> QED BY <1>4, <1>5, <2>2 DEF Decide, Remove, Suspend, Reactivate, Handlers
<1>6. ASSUME NEW u \in Users, NEW role \in Roles, ChangeRole(s, u, role)
      PROVE  OwnerInv'
  <2>1. req[s] \in Entered /\ canManageMember(req[s].role, members[u].role)
                           /\ canManageMember(req[s].role, role)
    BY <1>6, Holds DEF ChangeRole, In
  <2>2. u # Owner /\ role # "OWNER"
    BY <1>1, <2>1 DEF canManageMember, ROLE_RANK, Entered, Roles
  <2>3. Harmless([at |-> "role", user |-> u, id |-> members[u].id, role |-> role])
    BY <2>2 DEF Harmless, Handlers
  <2> QED BY <1>6, <2>3, ReadHarmless DEF ChangeRole
<1>7. CASE Leave(s)
  <2>1. req[s] \in Entered /\ req[s].at = "in"
    BY <1>7, Holds DEF Leave, In
  <2>2. req[s].role # "OWNER"
    <3>1. {u \in Active : members[u].role = "OWNER"} = {Owner}
      BY <1>1 DEF Active
    <3>2. Cardinality({Owner}) = 1
      BY FS_Singleton
    <3> QED BY <1>7, <3>1, <3>2 DEF Leave
  <2>3. Harmless([at |-> "remove", user |-> req[s].actor, id |-> req[s].id,
                  role |-> req[s].role])
    BY <1>1, <2>1, <2>2 DEF Harmless, Handlers
  <2> QED BY <1>7, <2>3, ReadHarmless DEF Leave
<1>8. CASE CheckCapacity(s)
  <2>1. req[s] \in Handling \/ req[s] \in Accepting
    BY <1>8, Holds DEF CheckCapacity
  <2>2. CASE fits(Cardinality(Active))
    <3> DEFINE at == CASE req[s].at = "approving" -> "approve"
                       [] req[s].at = "reactivating" -> "reactivate"
                       [] req[s].at = "joining" -> "accept"
               r == [req[s] EXCEPT !.at = at]
    <3>1. Serve(s, r)
      BY <1>8, <2>2 DEF CheckCapacity
    <3>2. Harmless(r)
      <4>1. CASE req[s].at \in {"approving", "reactivating"}
        <5>1. req[s] \in Handling /\ at \in {"approve", "reactivate"}
          BY <4>1, Holds
        <5>2. req[s].user # Owner /\ req[s].role # "OWNER"
          BY <1>1, <4>1 DEF Harmless, Handlers
        <5> HIDE DEF at
        <5>3. r.at = at /\ r.user = req[s].user /\ r.role = req[s].role
          BY <5>1 DEF Handling
        <5> HIDE DEF r
        <5> QED BY <5>1, <5>2, <5>3 DEF Harmless
      <4>2. CASE req[s].at = "joining"
        <5>1. req[s] \in Accepting /\ at = "accept"
          BY <4>2, Holds
        <5>2. ~req[s].only => (req[s].role = "OWNER" <=> req[s].user = Owner)
          BY <1>1, <4>2 DEF Harmless
        <5> HIDE DEF at
        <5>3. /\ r.at = "accept" /\ r.user = req[s].user /\ r.role = req[s].role
              /\ r.only = req[s].only
          BY <5>1 DEF Accepting
        <5> HIDE DEF r
        <5> QED BY <5>2, <5>3 DEF Harmless, Handlers
      <4> QED BY <1>8, <4>1, <4>2 DEF CheckCapacity
    <3> HIDE DEF r
    <3> QED BY <1>8, <3>1, <3>2, ReadHarmless DEF CheckCapacity
  <2>3. CASE ~fits(Cardinality(Active))
    BY <1>1, <1>8, <2>3, AnsweredHarmless DEF CheckCapacity, OneOwner, OwnerStays
  <2> QED BY <2>2, <2>3
<1>9. CASE JoinWrite(s)
  <2>1. req[s] \in Joining /\ req[s].user # Owner
    BY <1>1, <1>9, Holds DEF JoinWrite, Harmless
  <2>2. req[s].user \in Users \ {Owner}
    BY <2>1 DEF Joining
  <2>3. \/ members' = members
        \/ members' = Row(req[s], "PENDING", "MEMBER")
        \/ members' = Create(req[s].user, "PENDING", "MEMBER")
    BY <1>9 DEF JoinWrite
  <2>4. OneOwner'
    BY <1>1, <2>2, <2>3, RowsOfOthers
  <2> QED BY <1>9, <2>4, AnsweredHarmless DEF JoinWrite
<1>10. CASE MemberWrite(s)
  <2> DEFINE r == req[s]
  <2>1. r \in Handling /\ r.user # Owner /\ r.role # "OWNER"
    BY <1>1, <1>10, Holds DEF MemberWrite, Harmless, Handlers
  <2>2. r.user \in Users \ {Owner} /\ members[r.user].role # "OWNER"
    BY <1>1, <2>1 DEF Handling
  <2>3. r.at \in {"approve", "reject", "suspend", "reactivate", "role", "remove"}
    BY <1>10 DEF MemberWrite
  <2> HIDE DEF r
  <2>4. \E status, role : role # "OWNER" /\ Written(r) = Row(r, status, role)
    <3>1. \/ Written(r) = Row(r, "ACTIVE", "MEMBER")
          \/ Written(r) = Row(r, "REJECTED", members[r.user].role)
          \/ Written(r) = Row(r, "SUSPENDED", members[r.user].role)
          \/ Written(r) = Row(r, "ACTIVE", members[r.user].role)
          \/ Written(r) = Row(r, members[r.user].status, r.role)
          \/ Written(r) = Row(r, "NONE", members[r.user].role)
      BY <2>3 DEF Written
    <3> QED BY <2>1, <2>2, <3>1
  <2>5. OneOwner'
    BY <1>1, <1>10, <2>2, <2>4, RowsOfOthers DEF MemberWrite, r
  <2> QED BY <1>10, <2>5, AnsweredHarmless DEF MemberWrite
<1> QED BY <1>2, <1>3, <1>5, <1>6, <1>7, <1>8, <1>9, <1>10 DEF MemberStep

(* Neither does an invitation that is accepted.                            *)
LEMMA InviteStepOwner ==
  ASSUME TypeOK, OwnerInv, NEW s \in Slots, InviteStep(s)
  PROVE  OwnerInv'
<1>1. /\ OneOwner /\ Harmless(req[s])
      /\ Owner \in Users /\ Owner \in Active /\ members[Owner].role = "OWNER"
      /\ \A u \in Users \ {Owner} : members[u].role # "OWNER"
  BY DEF OwnerInv, OneOwner, OwnerStays, Active
<1>2. ASSUME UNCHANGED members
      PROVE  OneOwner'
  BY <1>1, <1>2 DEF OneOwner, OwnerStays
<1>3. ASSUME NEW u \in Users, NEW role \in Roles, NEW program \in BOOLEAN,
             Invite(s, u, role, program)
      PROVE  OwnerInv'
  <2>1. \A i : Harmless([at |-> "invite", user |-> u, role |-> role, program |-> program,
                         invite |-> i])
    BY DEF Harmless, Handlers
  <2> QED BY <1>3, <2>1, ReadHarmless DEF Invite
<1>4. ASSUME NEW i \in 1..MaxInvites, Resend(s, i) \/ Revoke(s, i) \/ Expire(s, i)
      PROVE  OwnerInv'
  <2>1. \A at \in {"resend", "revoke", "expire"} : Harmless([at |-> at, invite |-> i])
    BY DEF Harmless, Handlers
  <2> QED BY <1>4, <2>1, ReadHarmless DEF Resend, Revoke, Expire, OnInvite
<1>5. ASSUME NEW i \in 1..MaxInvites, AcceptFind(s, i)
      PROVE  OwnerInv'
  <2>1. Harmless([at |-> "found", user |-> invites[i].user, invite |-> i,
                  role |-> invites[i].role, program |-> invites[i].program])
    BY DEF Harmless, Handlers
  <2> QED BY <1>5, <2>1, ReadHarmless DEF AcceptFind
<1>6. CASE InviteWrite(s) \/ InviteStatusWrite(s)
  BY <1>2, <1>6, AnsweredHarmless DEF InviteWrite, InviteStatusWrite
<1>7. CASE AcceptRead(s)
  <2> DEFINE r == req[s]
             only == participantOnly(r.program, r.role)
             role == roleOf(r.user, r.role)
             at == IF only \/ r.user \in Active THEN "accept" ELSE "joining"
             goesOn == [at |-> at, user |-> r.user, invite |-> r.invite, role |-> role,
                        only |-> only]
  <2>1. r \in Finding
    BY <1>7, Holds DEF AcceptRead
  <2>2. r.user \in Users /\ r.role \in Roles /\ r.role # "OWNER"
    BY <2>1 DEF Finding, InviteRole
  <2>3. Answer(s) \/ Serve(s, goesOn)
    BY <1>7 DEF AcceptRead
  <2>4. role = "OWNER" <=> r.user = Owner
    <3>1. hasOrgRole("OWNER", r.role)
      BY <2>2 DEF hasOrgRole, ROLE_RANK, Roles
    <3> QED BY <1>1, <2>2, <3>1 DEF roleOf
  <2>5. at \in {"joining", "accept"} /\ (at = "joining" => r.user # Owner)
    BY <1>1
  <2> HIDE DEF r, only, role, at
  <2>6. /\ goesOn.at = at /\ goesOn.user = r.user /\ goesOn.role = role
    OBVIOUS
  <2> HIDE DEF goesOn
  <2>7. Harmless(goesOn)
    BY <2>4, <2>5, <2>6 DEF Harmless, Handlers
  <2> QED BY <1>2, <1>7, <2>3, <2>7, AnsweredHarmless, ReadHarmless DEF AcceptRead
<1>8. CASE AcceptWrite(s)
  <2> DEFINE r == req[s]
  <2>1. r \in Accepting
    BY <1>8, Holds DEF AcceptWrite
  <2>2. r.user \in Users /\ (~r.only => (r.role = "OWNER" <=> r.user = Owner))
    BY <1>1, <1>8, <2>1 DEF AcceptWrite, Harmless, Accepting
  <2>3. members' = members \/ (~r.only /\ members' = Joined(r))
    BY <1>8 DEF AcceptWrite
  <2> HIDE DEF r
  <2>4. ASSUME ~r.only, members' = Joined(r)
        PROVE  OneOwner'
    <3>1. \A u \in Users : members'[u] = IF u = r.user THEN Joined(r)[u] ELSE members[u]
      BY <2>2, <2>4 DEF Joined, Create, TypeOK
    <3>2. Joined(r)[r.user].status = "ACTIVE" /\ Joined(r)[r.user].role = r.role
      BY <2>2 DEF Joined, Create, Member, TypeOK
    <3>3. members'[r.user].status = "ACTIVE" /\ members'[r.user].role = r.role
      BY <2>2, <3>1, <3>2
    <3>4. \A u \in Users \ {r.user} : members'[u] = members[u]
      BY <3>1
    <3>5. members[Owner].status = "ACTIVE"
      BY <1>1 DEF Active
    <3>6. members'[Owner].status = "ACTIVE" /\ members'[Owner].role = "OWNER"
      BY <1>1, <2>2, <2>4, <3>3, <3>4, <3>5
    <3>7. \A u \in Users \ {Owner} : members'[u].role # "OWNER"
      BY <1>1, <2>2, <2>4, <3>3, <3>4
    <3> QED BY <3>6, <3>7 DEF OneOwner, OwnerStays
  <2>5. OneOwner'
    BY <1>2, <2>3, <2>4
  <2> QED BY <1>8, <2>5, AnsweredHarmless DEF AcceptWrite
<1> QED BY <1>3, <1>4, <1>5, <1>6, <1>7, <1>8 DEF InviteStep

(* At first there is one owner and nothing is under way.                   *)
LEMMA InitOwnerInv == Init => OwnerInv
<1> SUFFICES ASSUME Init PROVE OwnerInv
  OBVIOUS
<1>1. OneOwner
  BY DEF Init, Member, OneOwner, OwnerStays
<1>2. \A s \in Slots : Harmless(req[s])
  BY DEF Init, Free, Harmless, Handlers
<1> QED BY <1>1, <1>2 DEF OwnerInv

(* Every step keeps the owner.                                             *)
LEMMA StepOwnerInv == TypeOK /\ OwnerInv /\ [Next]_vars => OwnerInv'
<1> SUFFICES ASSUME TypeOK, OwnerInv, [Next]_vars PROVE OwnerInv'
  OBVIOUS
<1>1. CASE UNCHANGED <<members, req>>
  BY <1>1 DEF OwnerInv, OneOwner, OwnerStays, Harmless
<1>2. ASSUME NEW u \in Users, CancelJoin(u)
      PROVE  OwnerInv'
  <2>1. u # Owner
    BY <1>2 DEF CancelJoin, OwnerInv, OneOwner, OwnerStays
  <2>2. OneOwner'
    BY <1>2, <2>1 DEF CancelJoin, OwnerInv, OneOwner, OwnerStays, TypeOK
  <2> QED BY <1>2, <2>2 DEF CancelJoin, OwnerInv, Harmless
<1> QED BY <1>1, <1>2, MemberStepOwner, InviteStepOwner DEF Next, TimeIsUp, vars

(* The owner stays the owner, an active one, whatever requests about       *)
(* members and invitations interleave.                                     *)
THEOREM OwnerIsKept == Spec => []OwnerStays
<1>1. OwnerInv => OwnerStays
  BY DEF OwnerInv, OneOwner
<1> QED BY <1>1, InitTypeOK, StepTypeOK, InitOwnerInv, StepOwnerInv, PTL DEF Spec

------------------------------------------------------------------------------
(* One invitation becomes another, and is accepted more often or not.      *)
LEMMA ReplacedLink ==
  ASSUME TypeOK, LinkUsedOnce, NEW i \in Rows, NEW x \in InviteRow, NEW n \in Nat,
         invites' = [invites EXCEPT ![i] = x], taken' = [taken EXCEPT ![i] = n],
         n + (IF x.status = "PENDING" THEN 1 ELSE 0) <= x.sent
  PROVE  LinkUsedOnce'
<1>1. /\ DOMAIN invites = Rows /\ DOMAIN taken = Rows
      /\ DOMAIN invites' = Rows
  BY DEF TypeOK, Rows
<1>2. \A j \in Rows : /\ invites'[j] = IF j = i THEN x ELSE invites[j]
                      /\ taken'[j] = IF j = i THEN n ELSE taken[j]
  BY <1>1
<1> QED BY <1>1, <1>2 DEF LinkUsedOnce, Pending

(* A handler of invitations accepts one only while it counts as pending.   *)
LEMMA InviteStepLink ==
  ASSUME TypeOK, LinkUsedOnce, NEW s \in Slots, InviteStep(s)
  PROVE  LinkUsedOnce'
<1>1. /\ DOMAIN invites = Rows /\ DOMAIN taken = Rows /\ Len(invites) \in Nat
      /\ \A i \in Rows : /\ invites[i] \in InviteRow /\ taken[i] \in Nat
                        /\ taken[i] + (IF Pending(i) THEN 1 ELSE 0) <= invites[i].sent
  BY DEF TypeOK, Rows, LinkUsedOnce
<1>2. \A i \in Rows : taken = [taken EXCEPT ![i] = taken[i]]
  BY DEF TypeOK
<1>3. ASSUME UNCHANGED <<invites, taken>>
      PROVE  LinkUsedOnce'
  BY <1>3 DEF LinkUsedOnce, Pending
<1>4. ASSUME NEW x \in InviteRow
      PROVE  x.sent \in Nat /\ x.role \in InviteRole /\ x.program \in BOOLEAN
  BY DEF InviteRow
<1>5. CASE InviteStatusWrite(s)
  <2> DEFINE i == req[s].invite
  <2>1. i \in Rows
    BY <1>5, Holds DEF InviteStatusWrite, Marking
  <2> HIDE DEF i
  <2>2. invites[i] \in InviteRow /\ taken[i] \in Nat /\ taken[i] <= invites[i].sent
    BY <1>1, <1>4, <2>1
  <2>3. taken' = [taken EXCEPT ![i] = taken[i]]
    BY <1>2, <1>5, <2>1 DEF InviteStatusWrite
  <2>4. CASE req[s].at = "resend"
    <3> DEFINE x == Resent(invites[i])
    <3>1. x \in InviteRow
      BY <1>4, <2>2, ReissueType
    <3>2. x.sent = invites[i].sent + 1 /\ x.status = "PENDING"
      BY <2>2 DEF Resent, InviteRow
    <3>3. invites' = [invites EXCEPT ![i] = x]
      BY <1>5, <2>4 DEF InviteStatusWrite, i
    <3> HIDE DEF x
    <3>4. taken[i] + (IF x.status = "PENDING" THEN 1 ELSE 0) <= x.sent
      BY <1>4, <2>2, <3>2
    <3> QED BY <2>1, <2>2, <2>3, <3>1, <3>3, <3>4, ReplacedLink
  <2>5. ASSUME NEW status \in {"REVOKED", "EXPIRED"},
               invites' = [invites EXCEPT ![i] = [invites[i] EXCEPT !.status = status]]
        PROVE  LinkUsedOnce'
    <3> DEFINE x == [invites[i] EXCEPT !.status = status]
    <3>1. x \in InviteRow /\ x.sent = invites[i].sent /\ x.status # "PENDING"
      BY <2>2 DEF InviteRow
    <3>2. invites' = [invites EXCEPT ![i] = x]
      BY <2>5
    <3> HIDE DEF x
    <3>3. taken[i] + (IF x.status = "PENDING" THEN 1 ELSE 0) <= x.sent
      BY <1>4, <2>2, <3>1
    <3> QED BY <2>1, <2>2, <2>3, <3>1, <3>2, <3>3, ReplacedLink
  <2> QED BY <1>5, <2>4, <2>5 DEF InviteStatusWrite, i
<1>6. CASE InviteWrite(s)
  <2> DEFINE r == req[s]
  <2>1. r \in Inviting
    BY <1>6, Holds DEF InviteWrite
  <2>2. r.user \in Users /\ r.role \in InviteRole /\ r.program \in BOOLEAN /\ r.invite \in Rows \cup {0}
    BY <2>1 DEF Inviting
  <2>3. CASE r.invite = 0
    <3> DEFINE new == [user |-> r.user, role |-> r.role, late |-> FALSE,
                       program |-> r.program, status |-> "PENDING", sent |-> 1]
    <3>1. invites' = Append(invites, new) /\ taken' = Append(taken, 0)
      BY <1>6, <2>3 DEF InviteWrite
    <3>2. new \in InviteRow /\ new.sent = 1
      BY <2>2 DEF InviteRow
    <3> HIDE DEF new
    <3>3. /\ DOMAIN invites' = 1..(Len(invites) + 1)
          /\ \A i \in Rows : invites'[i] = invites[i] /\ taken'[i] = taken[i]
          /\ invites'[Len(invites) + 1] = new /\ taken'[Len(invites) + 1] = 0
      BY <3>1, <3>2, AppendProperties DEF TypeOK, Rows
    <3>4. \A i \in DOMAIN invites' : i \in Rows \/ i = Len(invites) + 1
      BY <1>1, <3>3 DEF Rows
    <3> DEFINE last == Len(invites) + 1
    <3>5. taken'[last] + (IF invites'[last].status = "PENDING" THEN 1 ELSE 0)
            <= invites'[last].sent
      BY <3>2, <3>3
    <3> HIDE DEF last
    <3>6. \A i \in Rows : taken'[i] + (IF invites'[i].status = "PENDING" THEN 1 ELSE 0)
                         <= invites'[i].sent
      BY <1>1, <3>3 DEF Pending
    <3> QED BY <3>4, <3>5, <3>6 DEF LinkUsedOnce, Pending, last
  <2>4. CASE r.invite # 0
    <3> DEFINE i == r.invite
               x == IssuedAgain(invites[i], r.role, r.program)
    <3>1. i \in Rows /\ invites[i] \in InviteRow
      BY <1>1, <2>2, <2>4
    <3>2. x \in InviteRow
      BY <2>2, <3>1, ReissueType
    <3>3. x.sent = invites[i].sent + 1 /\ x.status = invites[i].status
      BY <3>1 DEF IssuedAgain, InviteRow
    <3>4. invites' = [invites EXCEPT ![i] = x] /\ taken' = [taken EXCEPT ![i] = taken[i]]
      BY <1>2, <1>6, <2>4, <3>1 DEF InviteWrite
    <3>5. taken[i] \in Nat /\ taken[i] + (IF Pending(i) THEN 1 ELSE 0) <= invites[i].sent
      BY <1>1, <3>1
    <3> HIDE DEF x, i
    <3>6. taken[i] + (IF x.status = "PENDING" THEN 1 ELSE 0) <= x.sent
      BY <1>4, <3>1, <3>3, <3>5 DEF Pending
    <3> QED BY <3>1, <3>2, <3>4, <3>5, <3>6, ReplacedLink
  <2> QED BY <2>3, <2>4
<1>7. CASE AcceptWrite(s)
  <2> DEFINE i == req[s].invite
             x == [invites[i] EXCEPT !.status = "ACCEPTED"]
  <2>1. i \in Rows
    BY <1>7, Holds DEF AcceptWrite, Accepting
  <2>2. CASE stillOpen(i)
    <3>1. invites' = [invites EXCEPT ![i] = x] /\ taken' = [taken EXCEPT ![i] = taken[i] + 1]
      BY <1>7, <2>2 DEF AcceptWrite
    <3> HIDE DEF i
    <3>2. x \in InviteRow /\ x.sent = invites[i].sent /\ x.status # "PENDING"
      BY <1>1, <2>1 DEF InviteRow
    <3>3. taken[i] + 1 \in Nat /\ taken[i] + 1 <= invites[i].sent
      BY <1>1, <2>1, <2>2 DEF stillOpen
    <3> HIDE DEF x
    <3>4. taken[i] + 1 + (IF x.status = "PENDING" THEN 1 ELSE 0) <= x.sent
      BY <1>4, <3>2, <3>3
    <3> QED BY <2>1, <3>1, <3>2, <3>3, <3>4, ReplacedLink
  <2>3. CASE ~stillOpen(i)
    BY <1>3, <1>7, <2>3 DEF AcceptWrite
  <2> QED BY <2>2, <2>3
<1> QED BY <1>3, <1>5, <1>6, <1>7
        DEF InviteStep, Invite, Resend, Revoke, OnInvite, Expire, AcceptFind, AcceptRead

(* No other step touches the uses of an invitation.                        *)
LEMMA StepLink == TypeOK /\ LinkUsedOnce /\ [Next]_vars => LinkUsedOnce'
<1> SUFFICES ASSUME TypeOK, LinkUsedOnce, [Next]_vars PROVE LinkUsedOnce'
  OBVIOUS
<1>1. CASE UNCHANGED <<invites, taken>>
  BY <1>1 DEF LinkUsedOnce, Pending
<1>2. ASSUME NEW i \in 1..MaxInvites, TimeIsUp(i)
      PROVE  LinkUsedOnce'
  <2> DEFINE x == [invites[i] EXCEPT !.late = TRUE]
  <2>1. /\ i \in Rows /\ invites[i] \in InviteRow /\ taken[i] \in Nat
        /\ taken[i] + (IF Pending(i) THEN 1 ELSE 0) <= invites[i].sent
    BY <1>2 DEF TimeIsUp, TypeOK, Rows, LinkUsedOnce
  <2>2. x \in InviteRow /\ x.sent = invites[i].sent /\ x.status = invites[i].status
    BY <2>1 DEF InviteRow
  <2>3. invites' = [invites EXCEPT ![i] = x] /\ taken' = [taken EXCEPT ![i] = taken[i]]
    BY <1>2, <2>1 DEF TimeIsUp, TypeOK, Rows
  <2> HIDE DEF x
  <2> QED BY <2>1, <2>2, <2>3, ReplacedLink DEF Pending
<1>3. ASSUME NEW s \in Slots, MemberStep(s)
      PROVE  UNCHANGED <<invites, taken>>
  BY <1>3 DEF MemberStep, JoinWrite, Leave, CheckCapacity, MemberWrite, JoinRead, Enter, Decide,
      Remove, Suspend, Reactivate, ChangeRole, About
<1> QED BY <1>1, <1>2, <1>3, InviteStepLink DEF Next, CancelJoin, vars

(* However the uses, resends, revocations and expiries of an invitation    *)
(* interleave, each time it is issued it lets its person in at most once.  *)
THEOREM LinksAreUsedOnce == Spec => []LinkUsedOnce
<1>1. Init => LinkUsedOnce
  BY DEF Init, LinkUsedOnce
<1> QED BY <1>1, InitTypeOK, StepTypeOK, StepLink, PTL DEF Spec

------------------------------------------------------------------------------
(* Who is bound to become active: the request was let through and has yet  *)
(* to write.  Members and they are more than the plan allows by less than  *)
(* there are requests at a time, for whoever is let through finds room and *)
(* every other step leaves no one in who was not, or let through, before.  *)
Adding(r) == r.at \in {"approve", "reactivate"} \/ (r.at = "accept" /\ ~r.only)
BoundBy(q) == {u \in Users : \E s \in Slots : Adding(q[s]) /\ q[s].user = u}
Bound == BoundBy(req)
Crowd == Active \cup Bound
RoomInv == Cardinality(Crowd) <= Limit - 1 + Cardinality(Slots)

(* Every set of users has a size.                                          *)
LEMMA Sizes ==
  ASSUME NEW S \in SUBSET Users
  PROVE  IsFiniteSet(S) /\ Cardinality(S) \in Nat /\ Cardinality(Slots) \in Nat \ {0}
BY FS_EmptySet, FS_Subset, FS_CardinalityType

(* Requests under way reserve room for no more people than there are       *)
(* slots.                                                                  *)
LEMMA BoundBySlots ==
  ASSUME NEW q
  PROVE  /\ BoundBy(q) \in SUBSET Users
         /\ Cardinality(BoundBy(q)) <= Cardinality(Slots)
<1> DEFINE B == {s \in Slots : Adding(q[s]) /\ q[s].user \in Users}
           f == [s \in B |-> q[s].user]
<1>1. f \in Surjection(B, BoundBy(q))
  BY DEF BoundBy, Surjection
<1>2. IsFiniteSet(B) /\ Cardinality(B) <= Cardinality(Slots)
  BY FS_Subset
<1>3. BoundBy(q) \in SUBSET Users
  BY DEF BoundBy
<1> HIDE DEF B, f
<1>4. Cardinality(BoundBy(q)) <= Cardinality(B)
  BY <1>1, <1>2, FS_Surjection
<1>5. /\ Cardinality(B) \in Nat /\ Cardinality(Slots) \in Nat
      /\ Cardinality(BoundBy(q)) \in Nat
  BY <1>2, <1>3, Sizes, FS_CardinalityType
<1> QED BY <1>2, <1>3, <1>4, <1>5

(* A step that leaves no one in who was not, or let through, before.       *)
LEMMA NobodyNew ==
  ASSUME RoomInv, Crowd' \subseteq Crowd
  PROVE  RoomInv'
<1>1. Crowd \in SUBSET Users
  BY DEF Crowd, Active, Bound, BoundBy
<1>2. IsFiniteSet(Crowd') /\ Cardinality(Crowd') <= Cardinality(Crowd)
  BY <1>1, Sizes, FS_Subset
<1>3. Cardinality(Crowd') \in Nat /\ Cardinality(Crowd) \in Nat
  BY <1>1, <1>2, Sizes, FS_CardinalityType
<1> QED BY <1>1, <1>2, <1>3, Sizes DEF RoomInv

(* Such a step: the members stay, and the request that is handed on adds   *)
(* nobody else.                                                            *)
LEMMA ServeNobody ==
  ASSUME TypeOK, RoomInv, NEW s \in Slots, NEW r, Serve(s, r),
         Active' \subseteq Crowd, Adding(r) => r.user \in Crowd
  PROVE  RoomInv'
<1>1. \A t \in Slots : req'[t] = IF t = s THEN r ELSE req[t]
  BY DEF TypeOK, Serve
<1>2. Bound' \subseteq Crowd
  <2> SUFFICES ASSUME NEW u \in Bound' PROVE u \in Crowd
    OBVIOUS
  <2>1. u \in Users /\ \E t \in Slots : Adding(req'[t]) /\ req'[t].user = u
    BY DEF Bound, BoundBy
  <2> PICK t \in Slots : Adding(req'[t]) /\ req'[t].user = u
    BY <2>1
  <2>2. CASE t = s
    BY <1>1, <2>1, <2>2 DEF Adding
  <2>3. CASE t # s
    BY <1>1, <2>1, <2>3 DEF Adding, Crowd, Bound, BoundBy
  <2> QED BY <2>2, <2>3
<1>3. Crowd' \subseteq Crowd
  BY <1>2 DEF Crowd
<1> QED BY <1>3, NobodyNew

(* An answer reserves room for nobody.                                     *)
LEMMA AnswerNobody ==
  ASSUME TypeOK, RoomInv, NEW s \in Slots, Answer(s), Active' \subseteq Crowd
  PROVE  RoomInv'
<1>1. ~Adding(Free)
  BY DEF Adding, Free
<1> QED BY <1>1, ServeNobody DEF Answer

(* A step that only reads or answers adds nobody to the members.           *)
LEMMA MembersStay ==
  ASSUME UNCHANGED members
  PROVE  Active' \subseteq Crowd
BY DEF Active, Crowd

(* Writing a row of someone in the crowd, or one that is not active.       *)
LEMMA RowOfCrowd ==
  ASSUME TypeOK, NEW r, r.user \in Users, NEW status, NEW role,
         status = "ACTIVE" => r.user \in Crowd,
         \/ members' = members
         \/ members' = Row(r, status, role)
         \/ members' = Create(r.user, status, role)
  PROVE  Active' \subseteq Crowd
<1>1. ASSUME NEW u \in Users \ {r.user}
      PROVE  members'[u] = members[u]
  BY DEF TypeOK, Row, Create
<1>2. members'[r.user] = members[r.user] \/ members'[r.user].status = status
  BY DEF TypeOK, Row, Create, Member
<1> QED BY <1>1, <1>2 DEF Active, Crowd

(* Counting the members and being let through.                             *)
LEMMA LetThrough ==
  ASSUME fits(Cardinality(Active)), UNCHANGED members
  PROVE  RoomInv'
<1>1. Cardinality(Active) + 1 <= Limit
  BY DEF fits
<1> DEFINE B == BoundBy(req')
<1>2. Crowd' = Active \cup B
  BY DEF Active, Crowd, Bound, BoundBy
<1>3. B \in SUBSET Users /\ Active \in SUBSET Users /\ Active \cap B \in SUBSET Users
  BY BoundBySlots DEF Active
<1>4. Cardinality(B) <= Cardinality(Slots)
  BY BoundBySlots
<1> HIDE DEF B
<1>5. /\ Cardinality(Active \cup B) =
           Cardinality(Active) + Cardinality(B) - Cardinality(Active \cap B)
  BY <1>3, Sizes, FS_Union
<1>6. /\ Cardinality(Active) \in Nat /\ Cardinality(B) \in Nat
      /\ Cardinality(Active \cap B) \in Nat /\ Cardinality(Slots) \in Nat
  BY <1>3, Sizes
<1>7. Cardinality(Active \cup B) <= Limit - 1 + Cardinality(Slots)
  BY <1>1, <1>4, <1>5, <1>6
<1> QED BY <1>2, <1>7 DEF RoomInv

(* Every handler of members keeps those who are active, and those it       *)
(* counted room for, within bounds.                                        *)
LEMMA MemberStepRoom ==
  ASSUME TypeOK, RoomInv, NEW s \in Slots, MemberStep(s)
  PROVE  RoomInv'
<1>1. ASSUME NEW r, Serve(s, r), r.at \notin {"approve", "reactivate", "accept"},
             UNCHANGED members
      PROVE  RoomInv'
  BY <1>1, MembersStay, ServeNobody DEF Adding
<1>2. ASSUME NEW u \in Users, JoinRead(s, u) \/ Enter(s, u)
      PROVE  RoomInv'
  BY <1>1, <1>2 DEF JoinRead, Enter
<1>3. ASSUME NEW u \in Users, Decide(s, u) \/ Remove(s, u) \/ Suspend(s, u) \/ Reactivate(s, u)
      PROVE  RoomInv'
  BY <1>1, <1>3 DEF Decide, Remove, Suspend, Reactivate, About
<1>4. ASSUME NEW u \in Users, NEW role \in Roles, ChangeRole(s, u, role)
      PROVE  RoomInv'
  BY <1>1, <1>4 DEF ChangeRole
<1>5. CASE Leave(s)
  BY <1>1, <1>5 DEF Leave
<1>6. CASE CheckCapacity(s)
  <2>1. CASE fits(Cardinality(Active))
    BY <1>6, <2>1, LetThrough DEF CheckCapacity
  <2>2. CASE ~fits(Cardinality(Active))
    BY <1>6, <2>2, MembersStay, AnswerNobody DEF CheckCapacity
  <2> QED BY <2>1, <2>2
<1>7. CASE JoinWrite(s)
  <2>1. req[s] \in Joining
    BY <1>7, Holds DEF JoinWrite
  <2>2. req[s].user \in Users
    BY <2>1 DEF Joining
  <2>3. \/ members' = members
        \/ members' = Row(req[s], "PENDING", "MEMBER")
        \/ members' = Create(req[s].user, "PENDING", "MEMBER")
    BY <1>7 DEF JoinWrite
  <2>4. Active' \subseteq Crowd
    <3> DEFINE status == "PENDING"
               r == req[s]
    <3>1. status = "ACTIVE" => r.user \in Crowd
      OBVIOUS
    <3> HIDE DEF status, r
    <3> QED BY <2>2, <2>3, <3>1, RowOfCrowd DEF status, r
  <2> QED BY <1>7, <2>4, AnswerNobody DEF JoinWrite
<1>8. CASE MemberWrite(s)
  <2> DEFINE r == req[s]
  <2>1. r \in Handling /\ members' = Written(r)
    BY <1>8, Holds DEF MemberWrite
  <2>2. r.user \in Users
    BY <2>1 DEF Handling
  <2>3. r.at \in {"approve", "reactivate"} => r.user \in Crowd
    BY <2>2 DEF Crowd, Bound, BoundBy, Adding
  <2>4. r.at \in {"approve", "reject", "suspend", "reactivate", "role", "remove"}
    BY <1>8 DEF MemberWrite
  <2> HIDE DEF r
  <2>5. \E status, role :
          /\ Written(r) = Row(r, status, role)
          /\ status = "ACTIVE" => r.user \in Crowd
    <3>1. CASE r.at \in {"approve", "reactivate"}
      <4>1. \/ Written(r) = Row(r, "ACTIVE", "MEMBER")
            \/ Written(r) = Row(r, "ACTIVE", members[r.user].role)
        BY <3>1 DEF Written
      <4> QED BY <2>3, <3>1, <4>1
    <3>2. CASE r.at = "role"
      <4>1. Written(r) = Row(r, members[r.user].status, r.role)
        BY <3>2 DEF Written
      <4>2. members[r.user].status = "ACTIVE" => r.user \in Crowd
        BY <2>2 DEF Active, Crowd
      <4> QED BY <4>1, <4>2
    <3>3. CASE r.at \in {"reject", "suspend", "remove"}
      <4>1. \/ Written(r) = Row(r, "REJECTED", members[r.user].role)
            \/ Written(r) = Row(r, "SUSPENDED", members[r.user].role)
            \/ Written(r) = Row(r, "NONE", members[r.user].role)
        BY <3>3 DEF Written
      <4> QED BY <4>1
    <3> QED BY <2>4, <3>1, <3>2, <3>3
  <2>6. Active' \subseteq Crowd
    BY <2>1, <2>2, <2>5, RowOfCrowd
  <2> QED BY <1>8, <2>6, AnswerNobody DEF MemberWrite
<1> QED BY <1>2, <1>3, <1>4, <1>5, <1>6, <1>7, <1>8 DEF MemberStep

(* So does every handler of invitations.                                   *)
LEMMA InviteStepRoom ==
  ASSUME TypeOK, RoomInv, NEW s \in Slots, InviteStep(s)
  PROVE  RoomInv'
<1>1. ASSUME NEW r, Serve(s, r), r.at \notin {"approve", "reactivate", "accept"},
             UNCHANGED members
      PROVE  RoomInv'
  BY <1>1, MembersStay, ServeNobody DEF Adding
<1>2. ASSUME NEW u \in Users, NEW role \in Roles, NEW program \in BOOLEAN,
             Invite(s, u, role, program)
      PROVE  RoomInv'
  BY <1>1, <1>2 DEF Invite
<1>3. ASSUME NEW i \in 1..MaxInvites,
             Resend(s, i) \/ Revoke(s, i) \/ Expire(s, i) \/ AcceptFind(s, i)
      PROVE  RoomInv'
  BY <1>1, <1>3 DEF Resend, Revoke, OnInvite, Expire, AcceptFind
<1>4. CASE InviteWrite(s) \/ InviteStatusWrite(s)
  BY <1>4, MembersStay, AnswerNobody DEF InviteWrite, InviteStatusWrite
<1>5. CASE AcceptRead(s)
  <2> DEFINE r == req[s]
             only == participantOnly(r.program, r.role)
             at == IF only \/ r.user \in Active THEN "accept" ELSE "joining"
             role == roleOf(r.user, r.role)
             goesOn == [at |-> at, user |-> r.user, invite |-> r.invite, role |-> role,
                        only |-> only]
  <2>1. Answer(s) \/ Serve(s, goesOn)
    BY <1>5 DEF AcceptRead
  <2>2. at = "accept" /\ ~only => r.user \in Crowd
    BY DEF Crowd
  <2>3. at \in {"accept", "joining"}
    OBVIOUS
  <2> HIDE DEF r, only, at, role
  <2>4. Adding(goesOn) => goesOn.user \in Crowd
    BY <2>2, <2>3 DEF Adding
  <2> HIDE DEF goesOn
  <2> QED BY <1>5, <2>1, <2>4, MembersStay, AnswerNobody, ServeNobody DEF AcceptRead
<1>6. CASE AcceptWrite(s)
  <2> DEFINE r == req[s]
  <2>1. r \in Accepting /\ r.at = "accept"
    BY <1>6, Holds DEF AcceptWrite
  <2>2. r.user \in Users /\ (~r.only => r.user \in Crowd)
    BY <2>1 DEF Accepting, Adding, Crowd, Bound, BoundBy
  <2>3. members' = members \/ (~r.only /\ members' = Joined(r))
    BY <1>6 DEF AcceptWrite
  <2> HIDE DEF r
  <2>4. Active' \subseteq Crowd
    BY <2>2, <2>3 DEF Active, Crowd, Joined, Create, TypeOK
  <2> QED BY <1>6, <2>4, AnswerNobody DEF AcceptWrite
<1> QED BY <1>2, <1>3, <1>4, <1>5, <1>6 DEF InviteStep

(* At first the members are within the limit.                              *)
LEMMA InitRoomInv == Init => RoomInv
<1> SUFFICES ASSUME Init PROVE RoomInv
  OBVIOUS
<1>1. Bound = {}
  BY DEF Init, Bound, BoundBy, Adding, Free
<1>2. Crowd = Active /\ Active \in SUBSET Users
  BY <1>1 DEF Crowd, Active
<1> QED BY <1>2, Sizes DEF Init, RoomInv

(* Every step keeps the overrun within bounds.                             *)
LEMMA StepRoomInv == TypeOK /\ RoomInv /\ [Next]_vars => RoomInv'
<1> SUFFICES ASSUME TypeOK, RoomInv, [Next]_vars PROVE RoomInv'
  OBVIOUS
<1>1. CASE UNCHANGED <<members, req>>
  BY <1>1, NobodyNew DEF Crowd, Active, Bound, BoundBy
<1>2. ASSUME NEW u \in Users, CancelJoin(u)
      PROVE  RoomInv'
  BY <1>2, NobodyNew DEF CancelJoin, TypeOK, Crowd, Active, Bound, BoundBy
<1> QED BY <1>1, <1>2, MemberStepRoom, InviteStepRoom DEF Next, TimeIsUp, vars

(* Members are counted first and added later, and yet the plan's limit is  *)
(* overrun at most by the other requests that were being served.           *)
THEOREM OverrunIsBounded == Spec => []OverrunBounded
<1>1. RoomInv => OverrunBounded
  <2>1. Crowd \in SUBSET Users /\ Active \in SUBSET Crowd /\ Active \in SUBSET Users
    BY DEF Crowd, Active, Bound, BoundBy
  <2>2. Cardinality(Active) <= Cardinality(Crowd)
    BY <2>1, Sizes, FS_Subset
  <2>3. /\ Cardinality(Active) \in Nat /\ Cardinality(Crowd) \in Nat
        /\ Cardinality(Slots) \in Nat
    BY <2>1, Sizes
  <2> QED BY <2>2, <2>3 DEF RoomInv, OverrunBounded
<1> QED BY <1>1, InitTypeOK, StepTypeOK, InitRoomInv, StepRoomInv, PTL DEF Spec
=============================================================================
