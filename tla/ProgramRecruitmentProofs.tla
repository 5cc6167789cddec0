---------------------- MODULE ProgramRecruitmentProofs ----------------------
(***************************************************************************)
(* Theorems about ProgramRecruitment for any number of users, slots,       *)
(* capacities and windows.                                                 *)
(***************************************************************************)
EXTENDS ProgramRecruitment, FiniteSetTheorems, TLAPS

USE UsersAssumption, CapacitiesAssumption, WindowsAssumption, BoundsAssumption

(* Every row a handler writes is an application.                           *)
LEMMA RowType ==
  /\ \A s \in Status : Row(s) \in Application
  /\ \A t \in Nat : Waitlisted(t) \in Application /\ Offered(t) \in Application
  /\ TurnedDown \in Application
  /\ Lapsed \in Application
BY DEF Row, Waitlisted, Offered, TurnedDown, Lapsed, Application, Status

(* An empty slot holds a request record like any other.                    *)
LEMMA IdleType == Idle \in Request
BY DEF Idle, Request, Ops, Args

(* Setting one row keeps the table well-typed.                             *)
LEMMA SetAppType ==
  ASSUME TypeOK, NEW u, NEW row \in Application, SetApp(u, row)
  PROVE  app' \in [Users -> Application]
BY DEF TypeOK, SetApp

(* Starting and ending a request keep the slots well-typed.                *)
LEMMA BeginType ==
  ASSUME TypeOK, NEW s \in Slots, NEW op \in Ops, NEW u \in Users \union {NoUser},
         NEW arg \in Args, NEW t \in Nat, Begin(s, op, u, arg, t)
  PROVE  req' \in [Slots -> Request]
BY DEF TypeOK, Begin, Request

(* Ending a request keeps the requests well-typed.                         *)
LEMMA EndType ==
  ASSUME TypeOK, NEW s, End(s)
  PROVE  req' \in [Slots -> Request]
BY IdleType DEF TypeOK, End

(* A refill writes well-typed rows.                                        *)
LEMMA RefillType ==
  ASSUME TypeOK, NEW t \in Nat, RefillProgram(t)
  PROVE  app' \in [Users -> Application]
<1>1. PICK chosen \in Promotion(t) :
        app' = [u \in Users |->
                  CASE u \in ExpiredOffers(t) -> Lapsed
                    [] u \in chosen -> Offered(t + DEFAULT_RESPONSE_DAYS)
                    [] OTHER -> app[u]]
  BY DEF RefillProgram
<1>2. t + DEFAULT_RESPONSE_DAYS \in Nat
  OBVIOUS
<1>3. Lapsed \in Application /\ Offered(t + DEFAULT_RESPONSE_DAYS) \in Application
  BY <1>2, RowType
<1>4. \A u \in Users : app[u] \in Application
  BY DEF TypeOK
<1> QED BY <1>1, <1>3, <1>4

(* A seat limit is a number.                                               *)
LEMMA SeatsOfType == \A c \in Nat : SeatsOf(c) \in Nat
BY FS_CardinalityType DEF SeatsOf

(* Every initial state is well-typed.                                      *)
LEMMA InitTypeOK == Init => TypeOK
<1> SUFFICES ASSUME Init PROVE TypeOK
  OBVIOUS
<1>1. app \in [Users -> Application]
  BY RowType DEF Init, Status
<1>2. req \in [Slots -> Request]
  BY IdleType DEF Init
<1>3. seatLimit \in Nat /\ capacity \in Nat
  BY SeatsOfType DEF Init
<1> QED BY <1>1, <1>2, <1>3 DEF Init, TypeOK, ProgramStatus, Phase

(* What an applicant's step, a staff step and a request's step write stays *)
(* well-typed.                                                             *)
LEMMA ApplicantTypeOK ==
  ASSUME TypeOK, NEW u \in Users, ApplicantNext(u)
  PROVE  TypeOK'
<1>1. CASE Withdraw(u)
  <2>1. app' \in [Users -> Application]
    BY <1>1, RowType, SetAppType DEF Withdraw, Status
  <2> QED BY <1>1, <2>1 DEF Withdraw, TypeOK, program, hourly
<1>2. ASSUME NEW s \in Slots, NEW submit \in BOOLEAN, SaveBegin(s, u, submit) PROVE TypeOK'
  <2>1. req' \in [Slots -> Request]
    <3>1. CASE submit
      BY <1>2, <3>1, BeginType DEF SaveBegin, Ops, Args
    <3>2. CASE ~submit
      BY <1>2, <3>2, BeginType DEF SaveBegin, Ops, Args
    <3> QED BY <3>1, <3>2
  <2> QED BY <1>2, <2>1 DEF SaveBegin, TypeOK, program, hourly
<1>3. ASSUME NEW s \in Slots, AttachBegin(s, u) PROVE TypeOK'
  <2>1. req' \in [Slots -> Request]
    BY <1>3, BeginType DEF AttachBegin, Ops, Args
  <2> QED BY <1>3, <2>1 DEF AttachBegin, TypeOK, program, hourly
<1>4. ASSUME NEW s \in Slots, DiscardBegin(s, u) PROVE TypeOK'
  <2>1. req' \in [Slots -> Request]
    BY <1>4, BeginType DEF DiscardBegin, Ops, Args
  <2> QED BY <1>4, <2>1 DEF DiscardBegin, TypeOK, program, hourly
<1>5. ASSUME NEW s \in Slots, ConfirmBegin(s, u) PROVE TypeOK'
  <2>1. req' \in [Slots -> Request]
    BY <1>5, BeginType DEF ConfirmBegin, Ops, Args
  <2> QED BY <1>5, <2>1 DEF ConfirmBegin, TypeOK, program, hourly
<1>6. ASSUME NEW s \in Slots, Decline(s, u) PROVE TypeOK'
  <2>1. req' \in [Slots -> Request]
    BY <1>6, BeginType DEF Decline, Ops, Args, TypeOK
  <2>2. app' \in [Users -> Application]
    BY <1>6, RowType, SetAppType DEF Decline
  <2> QED BY <1>6, <2>1, <2>2 DEF Decline, TypeOK, program, hourly
<1> QED BY <1>1, <1>2, <1>3, <1>4, <1>5, <1>6 DEF ApplicantNext

(* A step of the staff keeps the types.                                    *)
LEMMA StaffTypeOK ==
  ASSUME TypeOK, NEW u \in Users, StaffNext(u)
  PROVE  TypeOK'
<1>1. ASSUME NEW s \in Slots, NEW d \in {"reject", "waitlist", "accept"}, DecideBegin(s, u, d)
      PROVE  TypeOK'
  <2>1. req' \in [Slots -> Request]
    <3>1. "decide" \in Ops /\ d \in Args /\ now \in Nat
      BY DEF Ops, Args, TypeOK
    <3>2. Begin(s, "decide", u, d, now)
      BY <1>1 DEF DecideBegin
    <3> QED BY <3>1, <3>2, BeginType
  <2> QED BY <1>1, <2>1 DEF DecideBegin, TypeOK, program, hourly
<1>2. CASE AddParticipant(u)
  BY <1>2 DEF AddParticipant, Edit, TypeOK, program, hourly
<1>3. CASE RemoveParticipant(u)
  BY <1>3 DEF RemoveParticipant, Edit, TypeOK, program, hourly
<1>4. CASE Suspension(u)
  BY <1>4 DEF Suspension, Edit, TypeOK, program, hourly
<1> QED BY <1>1, <1>2, <1>3, <1>4 DEF StaffNext

(* A step of a request keeps the types.                                    *)
LEMMA RequestTypeOK ==
  ASSUME TypeOK, NEW s \in Slots, RequestNext(s)
  PROVE  TypeOK'
<1> req[s] \in Request
  BY DEF TypeOK
<1>1. CASE Save(s)
  <2>1. app' \in [Users -> Application]
    <3>1. Row("PENDING") \in Application /\ Row("DRAFT") \in Application
      BY RowType DEF Status
    <3> QED BY <1>1, <3>1, SetAppType DEF Save
  <2> QED BY <1>1, <2>1, EndType DEF Save, TypeOK, program, hourly
<1>2. CASE Attach(s)
  <2>1. app' \in [Users -> Application]
    BY <1>2, RowType, SetAppType DEF Attach, Status
  <2> QED BY <1>2, <2>1, EndType DEF Attach, TypeOK, program, hourly
<1>3. CASE Discard(s)
  <2>1. app' \in [Users -> Application]
    BY <1>3, RowType, SetAppType DEF Discard, Status
  <2>2. req' \in [Slots -> Request]
    BY <1>3, IdleType DEF Discard, TypeOK
  <2> QED BY <1>3, <2>1, <2>2 DEF Discard, TypeOK, program, hourly
<1>4. CASE Confirm(s)
  <2>1. app' \in [Users -> Application]
    BY <1>4, RowType, SetAppType DEF Confirm, Status
  <2>2. participant' \in [Users -> {"no", "self", "staff"}]
    BY <1>4 DEF Confirm, TypeOK
  <2> QED BY <1>4, <2>1, <2>2, EndType DEF Confirm, TypeOK, program, hourly
<1>5. CASE Turn(s)
  <2>1. app' \in [Users -> Application]
    <3>1. Row("REJECTED") \in Application /\ Waitlisted(req[s].at) \in Application
      BY RowType DEF Status, Request
    <3> QED BY <1>5, <3>1, SetAppType DEF Turn
  <2> QED BY <1>5, <2>1, EndType DEF Turn, TypeOK, program, hourly
<1>6. CASE AcceptLock(s)
  <2>1. req' \in [Slots -> Request] /\ lock' \subseteq Slots
    BY <1>6, EndType DEF AcceptLock, TypeOK
  <2> QED BY <1>6, <2>1 DEF AcceptLock, TypeOK, program, hourly
<1>7. CASE AcceptClaim(s)
  <2>1. app' \in [Users -> Application]
    <3>1. \A days \in ResponseDays : Offered(req[s].at + days) \in Application
      BY RowType DEF Request
    <3>2. CASE app[req[s].user].status \in Undecided
      BY <1>7, <3>1, <3>2, SetAppType DEF AcceptClaim
    <3>3. CASE app[req[s].user].status \notin Undecided
      BY <1>7, <3>3 DEF AcceptClaim, TypeOK
    <3> QED BY <3>2, <3>3
  <2> QED BY <1>7, <2>1, EndType DEF AcceptClaim, TypeOK, program, hourly
<1>8. CASE RefillBegin(s)
  <2>1. req' \in [Slots -> Request]
    BY <1>8, BeginType DEF RefillBegin, Ops, Args, TypeOK
  <2> QED BY <1>8, <2>1 DEF RefillBegin, TypeOK, program, hourly
<1>9. CASE Refill(s)
  <2>1. app' \in [Users -> Application]
    BY <1>9, RefillType DEF Refill, Request, TypeOK
  <2> QED BY <1>9, <2>1, EndType DEF Refill, TypeOK, program, hourly
<1>10. CASE RequestFails(s)
  BY <1>10, EndType DEF RequestFails, TypeOK, program, hourly
<1> QED BY <1>1, <1>2, <1>3, <1>4, <1>5, <1>6, <1>7, <1>8, <1>9, <1>10 DEF RequestNext

(* Every step keeps the types.                                             *)
LEMMA NextTypeOK == TypeOK /\ [Next]_vars => TypeOK'
<1> SUFFICES ASSUME TypeOK, [Next]_vars PROVE TypeOK'
  OBVIOUS
<1>1. ASSUME NEW u \in Users, ApplicantNext(u) \/ StaffNext(u) PROVE TypeOK'
  BY <1>1, ApplicantTypeOK, StaffTypeOK
<1>2. ASSUME NEW s \in Slots, RequestNext(s) PROVE TypeOK'
  BY <1>2, RequestTypeOK
<1>3. CASE JobScan
  BY <1>3 DEF JobScan, TypeOK, program
<1>4. CASE JobRefill
  <2>1. app' \in [Users -> Application]
    BY <1>4, RefillType DEF JobRefill, TypeOK
  <2> QED BY <1>4, <2>1 DEF JobRefill, TypeOK, program
<1>5. CASE JobFails
  BY <1>5 DEF JobFails, TypeOK, program
<1>6. CASE PatchProgram
  <2>1. capacity' \in Nat /\ status' \in ProgramStatus
    BY <1>6 DEF PatchProgram, TypeOK
  <2>2. seatLimit' \in Nat
    BY <1>6, <2>1, SeatsOfType DEF PatchProgram, Larger, TypeOK
  <2> QED BY <1>6, <2>1, <2>2 DEF PatchProgram, Edit, TypeOK, hourly
<1>7. CASE Recruitment
  BY <1>7 DEF Recruitment, Edit, TypeOK, hourly
<1>8. CASE Tick
  BY <1>8 DEF Tick, TypeOK, program, hourly
<1>9. CASE UNCHANGED vars
  BY <1>9 DEF vars, TypeOK, program, hourly
<1> QED BY <1>1, <1>2, <1>3, <1>4, <1>5, <1>6, <1>7, <1>8, <1>9 DEF Next

(* Type correctness of every reachable state.                              *)
THEOREM TypeCorrect == Spec => []TypeOK
BY InitTypeOK, NextTypeOK, PTL DEF Spec

-----------------------------------------------------------------------------
Taken == Cardinality(SelfRegistered) + Cardinality(LiveOffers(now))

(* The sets that hold seats are finite, so their sizes are numbers, and no *)
(* larger than the number of users.                                        *)
LEMMA HoldersFinite ==
  ASSUME NEW t
  PROVE  /\ IsFiniteSet(SelfRegistered) /\ IsFiniteSet(Participants) /\ IsFiniteSet(LiveOffers(t))
         /\ Cardinality(SelfRegistered) \in Nat
         /\ Cardinality(Participants) \in Nat
         /\ Cardinality(LiveOffers(t)) \in Nat
         /\ Cardinality(Users) \in Nat
         /\ Cardinality(SelfRegistered) <= Cardinality(Users)
         /\ Cardinality(SelfRegistered) <= Cardinality(Participants)
         /\ Cardinality(LiveOffers(t)) <= Cardinality(Users)
<1>1. SelfRegistered \in SUBSET Users /\ Participants \in SUBSET Users
      /\ LiveOffers(t) \in SUBSET Users
  BY DEF SelfRegistered, Participants, LiveOffers
<1>2. IsFiniteSet(SelfRegistered) /\ IsFiniteSet(Participants) /\ IsFiniteSet(LiveOffers(t))
  BY <1>1, FS_Subset
<1>3. SelfRegistered \in SUBSET Participants
  BY DEF SelfRegistered, Participants
<1>4. Cardinality(SelfRegistered) <= Cardinality(Participants)
  BY <1>2, <1>3, FS_Subset
<1>5. Cardinality(SelfRegistered) <= Cardinality(Users)
      /\ Cardinality(LiveOffers(t)) <= Cardinality(Users)
  BY <1>1, FS_Subset
<1> QED BY <1>2, <1>4, <1>5, FS_CardinalityType

(* A step that adds no registration and no offer does not take more seats. *)
LEMMA TakenMonotone ==
  ASSUME SelfRegistered' \subseteq SelfRegistered,
         LiveOffers(now)' \subseteq LiveOffers(now)
  PROVE  Taken \in Nat /\ Taken' \in Nat /\ Taken' <= Taken
<1>1. IsFiniteSet(SelfRegistered) /\ IsFiniteSet(LiveOffers(now))
  BY HoldersFinite
<1>2. IsFiniteSet(SelfRegistered') /\ IsFiniteSet(LiveOffers(now)')
  BY <1>1, FS_Subset
<1>3. Cardinality(SelfRegistered') <= Cardinality(SelfRegistered)
      /\ Cardinality(LiveOffers(now)') <= Cardinality(LiveOffers(now))
  BY <1>1, FS_Subset
<1> QED BY <1>1, <1>2, <1>3, FS_CardinalityType DEF Taken

(* Such a step keeps the invariant if it leaves capacity and limit alone,  *)
(* takes no lock and dates no request ahead.                               *)
LEMMA QuietStep ==
  ASSUME TypeOK, SeatsInv,
         SelfRegistered' \subseteq SelfRegistered,
         LiveOffers(now)' \subseteq LiveOffers(now),
         capacity' = capacity, seatLimit' = seatLimit,
         lock' \subseteq lock, TimesPast'
  PROVE  SeatsInv'
<1>1. Taken \in Nat /\ Taken' \in Nat /\ Taken' <= Taken
  BY TakenMonotone
<1>2. OneHolder'
  BY DEF OneHolder, SeatsInv
<1>3. LimitCovers'
  BY DEF LimitCovers, SeatsInv, SeatsOf
<1>4. SeatsWithinLimit'
  BY <1>1 DEF SeatsInv, SeatsWithinLimit, Taken, TypeOK
<1>5. SeatReserved'
  BY <1>1 DEF SeatsInv, SeatReserved, Taken, TypeOK
<1> QED BY <1>2, <1>3, <1>4, <1>5 DEF SeatsInv

(* Only a row that is ACCEPTED can be an offer.                            *)
LEMMA NoNewOffer ==
  ASSUME TypeOK, NEW u, NEW row, row.status # "ACCEPTED", SetApp(u, row), now' = now
  PROVE  LiveOffers(now)' \subseteq LiveOffers(now)
BY DEF TypeOK, SetApp, LiveOffers

(* Rows that wait, decline or lapse are not offers.                        *)
LEMMA NotOffers ==
  /\ \A s \in Status : s # "ACCEPTED" => Row(s).status # "ACCEPTED"
  /\ \A t : Waitlisted(t).status # "ACCEPTED"
  /\ TurnedDown.status # "ACCEPTED"
  /\ Lapsed.status # "ACCEPTED"
BY DEF Row, Waitlisted, TurnedDown, Lapsed

(* A request that begins is dated now or earlier.                          *)
LEMMA BeginPast ==
  ASSUME TypeOK, TimesPast, NEW s \in Slots, NEW op, NEW u, NEW arg, NEW t \in Nat, t <= now,
         Begin(s, op, u, arg, t), now' = now, job' = job
  PROVE  TimesPast'
<1>1. ASSUME NEW x \in Slots PROVE req'[x].at <= now'
  <2>1. CASE x = s
    BY <2>1 DEF TypeOK, Begin
  <2>2. CASE x # s
    BY <2>2 DEF TypeOK, TimesPast, Begin
  <2> QED BY <2>1, <2>2
<1> QED BY <1>1 DEF TimesPast

(* A request that ends leaves nothing dated in the future.                 *)
LEMMA EndPast ==
  ASSUME TypeOK, TimesPast, NEW s, End(s), now' = now, job' = job
  PROVE  TimesPast'
BY DEF TypeOK, TimesPast, End, Idle

(* Leaving the requests and the job alone keeps their dates.               *)
LEMMA SamePast ==
  ASSUME TypeOK, TimesPast, req' = req, now' = now, job' = job
  PROVE  TimesPast'
BY DEF TimesPast

(* Who holds a seat depends on the rows and registrations only.            *)
LEMMA SameSeats ==
  /\ participant' = participant => SelfRegistered' = SelfRegistered
  /\ app' = app /\ now' = now => LiveOffers(now)' = LiveOffers(now)
BY DEF SelfRegistered, LiveOffers

(* At first there is no offer and nobody has registered himself.           *)
LEMMA InitSeatsInv == Init => SeatsInv
<1> SUFFICES ASSUME Init PROVE SeatsInv
  OBVIOUS
<1>1. SelfRegistered = {} /\ LiveOffers(now) = {}
  BY DEF Init, SelfRegistered, LiveOffers, Row
<1>2. Cardinality(SelfRegistered) + Cardinality(LiveOffers(now)) = 0
  BY <1>1, FS_EmptySet
<1>3. SeatsOf(capacity) \in Nat /\ seatLimit = SeatsOf(capacity)
  BY SeatsOfType DEF Init
<1>4. SeatsWithinLimit /\ LimitCovers
  BY <1>2, <1>3 DEF SeatsWithinLimit, LimitCovers
<1>5. OneHolder /\ SeatReserved
  BY DEF Init, OneHolder, SeatReserved
<1>6. TimesPast
  <2>1. \A s \in Slots : req[s].at = 0
    BY DEF Init, Idle
  <2> QED BY <2>1 DEF Init, TimesPast
<1> QED BY <1>4, <1>5, <1>6 DEF SeatsInv

(* A step of an applicant keeps the invariant of the seats.                *)
LEMMA ApplicantSeats ==
  ASSUME TypeOK, SeatsInv, NEW u \in Users, ApplicantNext(u)
  PROVE  SeatsInv'
<1> TimesPast /\ now \in Nat
  BY DEF SeatsInv, TypeOK
<1>1. CASE Withdraw(u)
  <2>1. LiveOffers(now)' \subseteq LiveOffers(now)
    BY <1>1, NotOffers, NoNewOffer DEF Withdraw, Status
  <2> QED BY <1>1, <2>1, QuietStep, SamePast, SameSeats DEF Withdraw, program, hourly
<1>2. ASSUME NEW s \in Slots, NEW submit \in BOOLEAN, SaveBegin(s, u, submit) PROVE SeatsInv'
  <2>1. TimesPast'
    BY <1>2, BeginPast DEF SaveBegin, hourly
  <2> QED BY <1>2, <2>1, QuietStep, SameSeats DEF SaveBegin, program
<1>3. ASSUME NEW s \in Slots, AttachBegin(s, u) PROVE SeatsInv'
  <2>1. TimesPast'
    BY <1>3, BeginPast DEF AttachBegin, hourly
  <2> QED BY <1>3, <2>1, QuietStep, SameSeats DEF AttachBegin, program
<1>4. ASSUME NEW s \in Slots, DiscardBegin(s, u) PROVE SeatsInv'
  <2>1. TimesPast'
    BY <1>4, BeginPast DEF DiscardBegin, hourly
  <2> QED BY <1>4, <2>1, QuietStep, SameSeats DEF DiscardBegin, program
<1>5. ASSUME NEW s \in Slots, ConfirmBegin(s, u) PROVE SeatsInv'
  <2>1. TimesPast'
    BY <1>5, BeginPast DEF ConfirmBegin, hourly
  <2> QED BY <1>5, <2>1, QuietStep, SameSeats DEF ConfirmBegin, program
<1>6. ASSUME NEW s \in Slots, Decline(s, u) PROVE SeatsInv'
  <2>1. TimesPast'
    BY <1>6, BeginPast DEF Decline, hourly
  <2>2. LiveOffers(now)' \subseteq LiveOffers(now)
    BY <1>6, NotOffers, NoNewOffer DEF Decline
  <2> QED BY <1>6, <2>1, <2>2, QuietStep, SameSeats DEF Decline, program
<1> QED BY <1>1, <1>2, <1>3, <1>4, <1>5, <1>6 DEF ApplicantNext

(* A step of the staff keeps the invariant of the seats.                   *)
LEMMA StaffSeats ==
  ASSUME TypeOK, SeatsInv, NEW u \in Users, StaffNext(u)
  PROVE  SeatsInv'
<1> TimesPast /\ now \in Nat
  BY DEF SeatsInv, TypeOK
<1>1. ASSUME NEW s \in Slots, NEW d \in {"reject", "waitlist", "accept"}, DecideBegin(s, u, d)
      PROVE  SeatsInv'
  <2>1. TimesPast'
    BY <1>1, BeginPast DEF DecideBegin, hourly
  <2> QED BY <1>1, <2>1, QuietStep, SameSeats DEF DecideBegin, program
<1>2. CASE AddParticipant(u)
  <2>1. SelfRegistered' \subseteq SelfRegistered
    BY <1>2 DEF AddParticipant, SelfRegistered, TypeOK
  <2> QED BY <1>2, <2>1, QuietStep, SamePast, SameSeats DEF AddParticipant, program, hourly
<1>3. CASE RemoveParticipant(u)
  <2>1. SelfRegistered' \subseteq SelfRegistered
    BY <1>3 DEF RemoveParticipant, SelfRegistered, TypeOK
  <2> QED BY <1>3, <2>1, QuietStep, SamePast, SameSeats DEF RemoveParticipant, program, hourly
<1>4. CASE Suspension(u)
  BY <1>4, QuietStep, SamePast, SameSeats DEF Suspension, program, hourly
<1> QED BY <1>1, <1>2, <1>3, <1>4 DEF StaffNext

(* One more element makes a set at most one larger.                        *)
LEMMA OneMore ==
  ASSUME NEW S, IsFiniteSet(S), NEW x
  PROVE  IsFiniteSet(S \union {x}) /\ Cardinality(S \union {x}) <= Cardinality(S) + 1
<1>1. IsFiniteSet(S \union {x})
      /\ Cardinality(S \union {x}) = IF x \in S THEN Cardinality(S) ELSE Cardinality(S) + 1
  BY FS_AddElement
<1>2. Cardinality(S) \in Nat
  BY FS_CardinalityType
<1>3. CASE x \in S
  BY <1>1, <1>2, <1>3
<1>4. CASE x \notin S
  BY <1>1, <1>2, <1>4
<1> QED BY <1>3, <1>4

(* Two sets together are no larger than the sum of their sizes.            *)
LEMMA BothAtMost ==
  ASSUME NEW S, NEW T, IsFiniteSet(S), IsFiniteSet(T)
  PROVE  IsFiniteSet(S \union T) /\ Cardinality(S \union T) <= Cardinality(S) + Cardinality(T)
<1>1. IsFiniteSet(S \union T)
      /\ Cardinality(S \union T) = Cardinality(S) + Cardinality(T) - Cardinality(S \cap T)
  BY FS_Union
<1>2. IsFiniteSet(S \cap T)
  <2>1. S \cap T \in SUBSET S
    OBVIOUS
  <2> QED BY <2>1, FS_Subset
<1>3. Cardinality(S) \in Nat /\ Cardinality(T) \in Nat /\ Cardinality(S \cap T) \in Nat
  BY <1>2, FS_CardinalityType
<1> QED BY <1>1, <1>3

(* Confirming exchanges an open offer for a registration.                  *)
LEMMA ConfirmSeats ==
  ASSUME TypeOK, SeatsInv, NEW s \in Slots, Confirm(s)
  PROVE  SeatsInv'
<1> DEFINE u == req[s].user
<1>1. u \in LiveOffers(now) /\ lock = {} /\ lock' = {}
  BY DEF Confirm
<1>2. LiveOffers(now)' \subseteq LiveOffers(now) \ {u}
  BY NotOffers DEF Confirm, SetApp, LiveOffers, TypeOK, Status
<1>3. SelfRegistered' \subseteq SelfRegistered \union {u}
  BY DEF Confirm, SelfRegistered, TypeOK
<1>4. /\ IsFiniteSet(SelfRegistered) /\ IsFiniteSet(LiveOffers(now))
      /\ Cardinality(SelfRegistered) \in Nat /\ Cardinality(LiveOffers(now)) \in Nat
  BY HoldersFinite
<1>5. Cardinality(SelfRegistered') <= Cardinality(SelfRegistered) + 1
      /\ Cardinality(SelfRegistered') \in Nat
  <2>1. IsFiniteSet(SelfRegistered \union {u})
        /\ Cardinality(SelfRegistered \union {u}) <= Cardinality(SelfRegistered) + 1
    BY <1>4, OneMore
  <2> HIDE DEF u
  <2>2. IsFiniteSet(SelfRegistered')
        /\ Cardinality(SelfRegistered') <= Cardinality(SelfRegistered \union {u})
    BY <1>3, <2>1, FS_Subset
  <2> QED BY <1>4, <2>1, <2>2, FS_CardinalityType
<1>6. Cardinality(LiveOffers(now)') <= Cardinality(LiveOffers(now)) - 1
      /\ Cardinality(LiveOffers(now)') \in Nat
  <2>1. IsFiniteSet(LiveOffers(now) \ {u})
        /\ Cardinality(LiveOffers(now) \ {u}) = Cardinality(LiveOffers(now)) - 1
    BY <1>1, <1>4, FS_RemoveElement
  <2> HIDE DEF u
  <2>2. IsFiniteSet(LiveOffers(now)')
        /\ Cardinality(LiveOffers(now)') <= Cardinality(LiveOffers(now) \ {u})
    BY <1>2, <2>1, FS_Subset
  <2> QED BY <1>4, <2>1, <2>2, FS_CardinalityType
<1>7. SeatsWithinLimit'
  BY <1>4, <1>5, <1>6 DEF Confirm, program, SeatsInv, SeatsWithinLimit, TypeOK
<1>8. OneHolder' /\ SeatReserved' /\ LimitCovers'
  BY <1>1 DEF Confirm, program, OneHolder, SeatReserved, LimitCovers, SeatsOf, SeatsInv
<1>9. TimesPast'
  BY EndPast DEF Confirm, SeatsInv, hourly
<1> QED BY <1>7, <1>8, <1>9 DEF SeatsInv

(* Locking finds a free seat: whatever was live at an earlier time covers  *)
(* what is live now.                                                       *)
LEMMA AcceptLockSeats ==
  ASSUME TypeOK, SeatsInv, NEW s \in Slots, AcceptLock(s)
  PROVE  SeatsInv'
<1> DEFINE t == req[s].at
<1>1. t \in Nat /\ t <= now /\ now \in Nat
  BY DEF TypeOK, Request, SeatsInv, TimesPast
<1>2. SelfRegistered' = SelfRegistered /\ LiveOffers(now)' = LiveOffers(now)
  BY SameSeats DEF AcceptLock
<1>3. TimesPast'
  <2>1. CASE req' = req
    BY <2>1, SamePast DEF AcceptLock, SeatsInv, hourly
  <2>2. CASE End(s)
    BY <2>2, EndPast DEF AcceptLock, SeatsInv, hourly
  <2> QED BY <2>1, <2>2 DEF AcceptLock
<1>4. CASE ~SeatFree(t)
  BY <1>2, <1>3, <1>4, QuietStep DEF AcceptLock, program
<1>5. CASE SeatFree(t)
  <2>1. lock' = {s}
    BY <1>5 DEF AcceptLock
  <2>2. LiveOffers(now) \in SUBSET LiveOffers(t)
    BY <1>1 DEF LiveOffers, TypeOK, Application
  <2>3. IsFiniteSet(LiveOffers(t)) /\ Cardinality(LiveOffers(t)) \in Nat
        /\ Cardinality(LiveOffers(now)) \in Nat
    BY HoldersFinite
  <2>4. Cardinality(LiveOffers(now)) <= Cardinality(LiveOffers(t))
    BY <2>2, <2>3, FS_Subset
  <2>5. Cardinality(SelfRegistered) \in Nat /\ Cardinality(Participants) \in Nat
        /\ Cardinality(SelfRegistered) <= Cardinality(Participants)
    BY HoldersFinite
  <2>6. capacity # 0 => Taken < seatLimit
    <3>1. capacity # 0 => capacity <= seatLimit
      BY DEF SeatsInv, LimitCovers, SeatsOf
    <3> QED BY <1>5, <2>3, <2>4, <2>5, <3>1 DEF SeatFree, HeldSeats, Taken, TypeOK
  <2>7. SeatReserved'
    BY <1>2, <2>6 DEF SeatReserved, Taken, AcceptLock, program
  <2>8. OneHolder'
    BY <2>1 DEF OneHolder
  <2>9. SeatsWithinLimit' /\ LimitCovers'
    BY <1>2 DEF SeatsInv, SeatsWithinLimit, LimitCovers, SeatsOf, AcceptLock, program
  <2> QED BY <1>3, <2>7, <2>8, <2>9 DEF SeatsInv
<1> QED BY <1>4, <1>5

(* Claiming turns the reserved seat into at most one more offer.           *)
LEMMA AcceptClaimSeats ==
  ASSUME TypeOK, SeatsInv, NEW s \in Slots, AcceptClaim(s)
  PROVE  SeatsInv'
<1> DEFINE u == req[s].user
<1>1. lock = {s} /\ lock' = {}
  BY DEF AcceptClaim, SeatsInv, OneHolder
<1>2. SelfRegistered' = SelfRegistered
  BY SameSeats DEF AcceptClaim
<1>3. LiveOffers(now)' \subseteq LiveOffers(now) \union {u}
  BY DEF AcceptClaim, SetApp, LiveOffers, TypeOK
<1>4. HIDE DEF u
<1>5. /\ IsFiniteSet(LiveOffers(now)) /\ Cardinality(LiveOffers(now)) \in Nat
      /\ Cardinality(SelfRegistered) \in Nat /\ Cardinality(Users) \in Nat
      /\ Cardinality(SelfRegistered) <= Cardinality(Users)
  BY HoldersFinite
<1>6. Cardinality(LiveOffers(now)') \in Nat
      /\ Cardinality(LiveOffers(now)') <= Cardinality(LiveOffers(now)) + 1
  <2>1. IsFiniteSet(LiveOffers(now) \union {u})
        /\ Cardinality(LiveOffers(now) \union {u}) <= Cardinality(LiveOffers(now)) + 1
    BY <1>5, OneMore
  <2>2. IsFiniteSet(LiveOffers(now)')
        /\ Cardinality(LiveOffers(now)') <= Cardinality(LiveOffers(now) \union {u})
    BY <1>3, <2>1, FS_Subset
  <2> QED BY <1>5, <2>1, <2>2, FS_CardinalityType
<1>7. Cardinality(LiveOffers(now)') <= Cardinality(Users)
  <2>1. LiveOffers(now)' \in SUBSET Users
    BY DEF LiveOffers
  <2> QED BY <2>1, FS_Subset
<1>8. SeatsWithinLimit'
  <2>1. seatLimit' = seatLimit /\ seatLimit \in Nat
    BY DEF AcceptClaim, program, TypeOK
  <2>2. CASE capacity = 0
    <3>1. 2 * Cardinality(Users) <= seatLimit
      BY <2>2 DEF SeatsInv, LimitCovers, SeatsOf
    <3> QED BY <1>2, <1>5, <1>6, <1>7, <2>1, <3>1 DEF SeatsWithinLimit
  <2>3. CASE capacity # 0
    <3>1. Cardinality(SelfRegistered) + Cardinality(LiveOffers(now)) < seatLimit
      BY <1>1, <2>3 DEF SeatsInv, SeatReserved
    <3> QED BY <1>2, <1>5, <1>6, <2>1, <3>1 DEF SeatsWithinLimit
  <2> QED BY <2>2, <2>3
<1>9. OneHolder' /\ SeatReserved' /\ LimitCovers'
  BY <1>1 DEF AcceptClaim, program, OneHolder, SeatReserved, LimitCovers, SeatsOf, SeatsInv
<1>10. TimesPast'
  BY EndPast DEF AcceptClaim, SeatsInv, hourly
<1> QED BY <1>8, <1>9, <1>10 DEF SeatsInv

(* A refill at any time up to now offers no more seats than were free.     *)
LEMMA RefillSeats ==
  ASSUME TypeOK, SeatsInv, NEW t \in Nat, t <= now, RefillProgram(t), now' = now,
         participant' = participant, capacity' = capacity, seatLimit' = seatLimit,
         lock' = lock, TimesPast'
  PROVE  SeatsInv'
<1>1. PICK chosen \in Promotion(t) :
        app' = [u \in Users |->
                  CASE u \in ExpiredOffers(t) -> Lapsed
                    [] u \in chosen -> Offered(t + DEFAULT_RESPONSE_DAYS)
                    [] OTHER -> app[u]]
  BY DEF RefillProgram
<1>2. lock = {} /\ now \in Nat
  BY DEF RefillProgram, TypeOK
<1>3. chosen \in SUBSET Users /\ IsFiniteSet(chosen) /\ Cardinality(chosen) \in Nat
      /\ Cardinality(chosen) <= Larger(FreeSeats(t), 0)
  <2>1. chosen \in SUBSET Users
    BY DEF Promotion, Waiting
  <2>2. Cardinality(chosen) <= Larger(FreeSeats(t), 0)
    BY DEF Promotion
  <2> QED BY <2>1, <2>2, FS_Subset, FS_CardinalityType
<1>4. SelfRegistered' = SelfRegistered
  BY SameSeats
<1>5. LiveOffers(now)' \subseteq (LiveOffers(now) \union chosen)
  BY <1>1, NotOffers DEF LiveOffers
<1>6. LiveOffers(now) \in SUBSET LiveOffers(t)
  BY <1>2 DEF LiveOffers, TypeOK, Application
<1>7. CASE FreeSeats(t) <= 0
  <2>1. FreeSeats(t) \in Int
    BY HoldersFinite DEF FreeSeats, HeldSeats, TypeOK
  <2>2. chosen = {}
    BY <1>3, <1>7, <2>1, FS_EmptySet DEF Larger
  <2>3. LiveOffers(now)' \subseteq LiveOffers(now)
    BY <1>5, <2>2
  <2> QED BY <1>4, <2>3, QuietStep
<1>8. CASE ~(FreeSeats(t) <= 0)
  <2>1. capacity # 0 /\ FreeSeats(t) = capacity - HeldSeats(t)
    BY <1>8 DEF FreeSeats
  <2>2. /\ IsFiniteSet(LiveOffers(t)) /\ Cardinality(LiveOffers(t)) \in Nat
        /\ IsFiniteSet(LiveOffers(now))
        /\ Cardinality(SelfRegistered) \in Nat /\ Cardinality(Participants) \in Nat
        /\ Cardinality(SelfRegistered) <= Cardinality(Participants)
    BY HoldersFinite
  <2>3. Cardinality(chosen) <= capacity - (Cardinality(Participants) + Cardinality(LiveOffers(t)))
    BY <1>3, <1>8, <2>1, <2>2 DEF Larger, HeldSeats, TypeOK
  <2>4. Cardinality(LiveOffers(now)') \in Nat
        /\ Cardinality(LiveOffers(now)') <= Cardinality(LiveOffers(t)) + Cardinality(chosen)
    <3>1. IsFiniteSet(LiveOffers(t) \union chosen)
          /\ Cardinality(LiveOffers(t) \union chosen) <= Cardinality(LiveOffers(t)) + Cardinality(chosen)
      BY <1>3, <2>2, BothAtMost
    <3>2. LiveOffers(now)' \in SUBSET (LiveOffers(t) \union chosen)
      BY <1>5, <1>6
    <3>3. IsFiniteSet(LiveOffers(now)')
          /\ Cardinality(LiveOffers(now)') <= Cardinality(LiveOffers(t) \union chosen)
      BY <3>1, <3>2, FS_Subset
    <3> QED BY <1>3, <2>2, <3>1, <3>3, FS_CardinalityType
  <2>5. capacity <= seatLimit /\ capacity \in Nat /\ seatLimit \in Nat
    BY <2>1 DEF SeatsInv, LimitCovers, SeatsOf, TypeOK
  <2>6. SeatsWithinLimit'
    BY <1>3, <1>4, <2>2, <2>3, <2>4, <2>5 DEF SeatsWithinLimit
  <2>7. OneHolder' /\ SeatReserved' /\ LimitCovers'
    BY <1>2 DEF OneHolder, SeatReserved, LimitCovers, SeatsOf, SeatsInv
  <2> QED BY <2>6, <2>7 DEF SeatsInv
<1> QED BY <1>7, <1>8

(* A step of a request keeps the invariant of the seats.                   *)
LEMMA RequestSeats ==
  ASSUME TypeOK, SeatsInv, NEW s \in Slots, RequestNext(s)
  PROVE  SeatsInv'
<1> TimesPast /\ now \in Nat /\ req[s] \in Request
  BY DEF SeatsInv, TypeOK
<1>1. CASE Save(s)
  <2>1. LiveOffers(now)' \subseteq LiveOffers(now)
    <3>1. Row("PENDING").status # "ACCEPTED" /\ Row("DRAFT").status # "ACCEPTED"
      BY NotOffers DEF Status
    <3> QED BY <1>1, <3>1, NoNewOffer DEF Save
  <2>2. TimesPast'
    BY <1>1, EndPast DEF Save, hourly
  <2> QED BY <1>1, <2>1, <2>2, QuietStep, SameSeats DEF Save, program
<1>2. CASE Attach(s)
  <2>1. LiveOffers(now)' \subseteq LiveOffers(now)
    BY <1>2, NotOffers, NoNewOffer DEF Attach, Status
  <2>2. TimesPast'
    BY <1>2, EndPast DEF Attach, hourly
  <2> QED BY <1>2, <2>1, <2>2, QuietStep, SameSeats DEF Attach, program
<1>3. CASE Discard(s)
  <2>1. LiveOffers(now)' \subseteq LiveOffers(now)
    BY <1>3, NotOffers, NoNewOffer DEF Discard, Status
  <2>2. TimesPast'
    BY <1>3 DEF Discard, hourly, TimesPast, Idle
  <2>3. lock' \subseteq lock
    BY <1>3 DEF Discard
  <2> QED BY <1>3, <2>1, <2>2, <2>3, QuietStep, SameSeats DEF Discard, program
<1>4. CASE Confirm(s)
  BY <1>4, ConfirmSeats
<1>5. CASE Turn(s)
  <2>1. LiveOffers(now)' \subseteq LiveOffers(now)
    <3>1. Row("REJECTED").status # "ACCEPTED" /\ Waitlisted(req[s].at).status # "ACCEPTED"
      BY NotOffers DEF Status
    <3> QED BY <1>5, <3>1, NoNewOffer DEF Turn
  <2>2. TimesPast'
    BY <1>5, EndPast DEF Turn, hourly
  <2> QED BY <1>5, <2>1, <2>2, QuietStep, SameSeats DEF Turn, program
<1>6. CASE AcceptLock(s)
  BY <1>6, AcceptLockSeats
<1>7. CASE AcceptClaim(s)
  BY <1>7, AcceptClaimSeats
<1>8. CASE RefillBegin(s)
  <2>1. TimesPast'
    BY <1>8, BeginPast DEF RefillBegin, hourly
  <2> QED BY <1>8, <2>1, QuietStep, SameSeats DEF RefillBegin, program
<1>9. CASE Refill(s)
  <2>1. PICK t \in req[s].at .. now : RefillProgram(t)
    BY <1>9 DEF Refill
  <2>2. t \in Nat /\ t <= now
    BY DEF Request
  <2>3. TimesPast'
    BY <1>9, EndPast DEF Refill, hourly
  <2> QED BY <1>9, <2>1, <2>2, <2>3, RefillSeats DEF Refill, program
<1>10. CASE RequestFails(s)
  <2>1. TimesPast'
    BY <1>10, EndPast DEF RequestFails, hourly
  <2> QED BY <1>10, <2>1, QuietStep, SameSeats DEF RequestFails, program
<1> QED BY <1>1, <1>2, <1>3, <1>4, <1>5, <1>6, <1>7, <1>8, <1>9, <1>10 DEF RequestNext

(* Every step keeps the invariant of the seats.                            *)
LEMMA NextSeatsInv == TypeOK /\ SeatsInv /\ [Next]_vars => SeatsInv'
<1> SUFFICES ASSUME TypeOK, SeatsInv, [Next]_vars PROVE SeatsInv'
  OBVIOUS
<1> TimesPast /\ now \in Nat
  BY DEF SeatsInv, TypeOK
<1>1. ASSUME NEW u \in Users, ApplicantNext(u) \/ StaffNext(u) PROVE SeatsInv'
  BY <1>1, ApplicantSeats, StaffSeats
<1>2. ASSUME NEW s \in Slots, RequestNext(s) PROVE SeatsInv'
  BY <1>2, RequestSeats
<1>3. CASE JobScan
  <2>1. TimesPast'
    BY <1>3 DEF JobScan, TimesPast
  <2> QED BY <1>3, <2>1, QuietStep, SameSeats DEF JobScan, program
<1>4. CASE JobRefill
  <2>1. PICK t \in job : RefillProgram(t)
    BY <1>4 DEF JobRefill
  <2>2. t \in Nat /\ t <= now
    BY DEF TimesPast, TypeOK
  <2>3. TimesPast'
    BY <1>4 DEF JobRefill, TimesPast
  <2> QED BY <1>4, <2>1, <2>2, <2>3, RefillSeats DEF JobRefill, program
<1>5. CASE JobFails
  <2>1. TimesPast'
    BY <1>5 DEF JobFails, TimesPast
  <2> QED BY <1>5, <2>1, QuietStep, SameSeats DEF JobFails, program
<1>6. CASE PatchProgram
  <2>1. SelfRegistered' = SelfRegistered /\ LiveOffers(now)' = LiveOffers(now)
    BY <1>6, SameSeats DEF PatchProgram
  <2>2. capacity' \in Nat
    BY <1>6 DEF PatchProgram, TypeOK
  <2>3. SeatsOf(capacity') \in Nat /\ seatLimit \in Nat
    BY <2>2, SeatsOfType DEF TypeOK
  <2>4. seatLimit' >= seatLimit /\ seatLimit' >= SeatsOf(capacity') /\ seatLimit' \in Nat
    BY <1>6, <2>3 DEF PatchProgram, Larger
  <2>5. LimitCovers'
    BY <2>3, <2>4 DEF LimitCovers, SeatsOf
  <2>6. SeatsWithinLimit'
    <3>1. Taken \in Nat /\ Taken <= seatLimit
      BY HoldersFinite DEF Taken, SeatsInv, SeatsWithinLimit
    <3> QED BY <2>1, <2>3, <2>4, <3>1 DEF SeatsWithinLimit, Taken
  <2>7. OneHolder' /\ SeatReserved'
    BY <1>6 DEF PatchProgram, OneHolder, SeatReserved
  <2>8. TimesPast'
    BY <1>6, SamePast DEF PatchProgram, hourly
  <2> QED BY <2>5, <2>6, <2>7, <2>8 DEF SeatsInv
<1>7. CASE Recruitment
  BY <1>7, QuietStep, SamePast, SameSeats DEF Recruitment, hourly
<1>8. CASE Tick
  <2>1. LiveOffers(now)' \subseteq LiveOffers(now)
    BY <1>8 DEF Tick, LiveOffers, TypeOK, Application
  <2>2. TimesPast'
    BY <1>8 DEF Tick, TimesPast, TypeOK, Request, hourly
  <2> QED BY <1>8, <2>1, <2>2, QuietStep, SameSeats DEF Tick, program
<1>9. CASE UNCHANGED vars
  BY <1>9, QuietStep, SamePast, SameSeats DEF vars, program, hourly
<1> QED BY <1>1, <1>2, <1>3, <1>4, <1>5, <1>6, <1>7, <1>8, <1>9 DEF Next

(* The facts about locks, times and limits hold in every reachable state.  *)
THEOREM SeatsInvariant == Spec => []SeatsInv
<1>1. Init => TypeOK /\ SeatsInv
  BY InitTypeOK, InitSeatsInv
<1>2. (TypeOK /\ SeatsInv) /\ [Next]_vars => (TypeOK /\ SeatsInv)'
  BY NextTypeOK, NextSeatsInv
<1> QED BY <1>1, <1>2, PTL DEF Spec

(* However requests, jobs and staff interleave, open offers and the        *)
(* registrations made from offers never outnumber the seats the program    *)
(* has had.                                                                *)
THEOREM SeatsNeverOversold == Spec => []SeatsWithinLimit
<1>1. SeatsInv => SeatsWithinLimit
  BY DEF SeatsInv
<1> QED BY <1>1, SeatsInvariant, PTL

-----------------------------------------------------------------------------
(* A refill dated no later than now leaves the offers alone that are open  *)
(* now: it lapses those that ran out and offers seats to those who wait.   *)
LEMMA RefillKeeps ==
  ASSUME TypeOK, NEW t \in Nat, t <= now, RefillProgram(t), NEW u \in LiveOffers(now)
  PROVE  app'[u] = app[u]
<1>1. PICK chosen \in Promotion(t) :
        app' = [v \in Users |->
                  CASE v \in ExpiredOffers(t) -> Lapsed
                    [] v \in chosen -> Offered(t + DEFAULT_RESPONSE_DAYS)
                    [] OTHER -> app[v]]
  BY DEF RefillProgram
<1>2. /\ u \in Users /\ app[u] \in Application /\ now \in Nat
      /\ app[u].status = "ACCEPTED" /\ app[u].offerExpiresAt > now
  BY DEF LiveOffers, TypeOK
<1>3. u \notin ExpiredOffers(t)
  BY <1>2 DEF ExpiredOffers, Application
<1>4. u \notin chosen
  BY <1>1, <1>2 DEF Promotion, Waiting
<1> QED BY <1>1, <1>2, <1>3, <1>4

(* The steps of a request touch an open offer only for its applicant.      *)
LEMMA RequestKeeps ==
  ASSUME TypeOK, TimesPast, NEW s \in Slots, RequestNext(s), NEW u \in LiveOffers(now)
  PROVE  OfferKept(u)
<1>1. u \in Users /\ app[u].status = "ACCEPTED" /\ app \in [Users -> Application]
  BY DEF LiveOffers, TypeOK
<1>2. /\ req \in [Slots -> Request] /\ participant \in [Users -> {"no", "self", "staff"}]
  BY DEF TypeOK
<1>3. CASE Save(s) \/ Attach(s)
  <2>1. req'[s] = Idle /\ req[s].op \in {"save", "attach"}
    BY <1>2, <1>3 DEF Save, Attach, End, Serving
  <2>2. req[s].user # u => app'[u] = app[u]
    BY <1>1, <1>3 DEF Save, Attach, SetApp
  <2> QED BY <2>1, <2>2 DEF OfferKept
<1>4. CASE Discard(s)
  <2>1. req'[s] = Idle /\ req[s].op = "discard"
    BY <1>4 DEF Discard, Serving
  <2>2. req[s].user # u => app'[u] = app[u]
    BY <1>1, <1>4 DEF Discard, SetApp
  <2> QED BY <2>1, <2>2 DEF OfferKept
<1>5. CASE Confirm(s)
  <2>1. CASE req[s].user = u
    <3>1. app'[u] = Row("CONFIRMED") /\ participant'[u] # "no"
      BY <1>1, <1>2, <1>5, <2>1 DEF Confirm, SetApp
    <3> QED BY <3>1 DEF OfferKept, Row
  <2>2. CASE req[s].user # u
    BY <1>1, <1>5, <2>2 DEF Confirm, SetApp, OfferKept
  <2> QED BY <2>1, <2>2
<1>6. CASE Turn(s)
  <2>1. req[s].user # u
    BY <1>1, <1>6 DEF Turn, Undecided
  <2> QED BY <1>1, <1>6, <2>1 DEF Turn, SetApp, OfferKept
<1>7. CASE AcceptClaim(s)
  <2>1. app'[u] = app[u]
    BY <1>1, <1>7 DEF AcceptClaim, Undecided, SetApp
  <2> QED BY <2>1 DEF OfferKept
<1>8. CASE Refill(s)
  <2>1. PICK t \in req[s].at .. now : RefillProgram(t)
    BY <1>8 DEF Refill
  <2>2. t \in Nat /\ t <= now
    BY <1>2, <2>1 DEF Request, TypeOK
  <2> QED BY <2>1, <2>2, RefillKeeps DEF OfferKept
<1>9. CASE AcceptLock(s) \/ RefillBegin(s) \/ RequestFails(s)
  BY <1>9 DEF AcceptLock, RefillBegin, RequestFails, OfferKept
<1> QED BY <1>3, <1>4, <1>5, <1>6, <1>7, <1>8, <1>9 DEF RequestNext

(* Every step leaves an open offer to its applicant and the staff.         *)
LEMMA StepKeeps ==
  ASSUME TypeOK, TimesPast, [Next]_vars, NEW u \in Users
  PROVE  OfferKept(u)
<1> SUFFICES ASSUME u \in LiveOffers(now), app' # app PROVE OfferKept(u)
  BY DEF OfferKept
<1>1. u \in Users /\ app[u].status = "ACCEPTED" /\ app \in [Users -> Application]
  BY DEF LiveOffers, TypeOK
<1>2. ASSUME NEW v \in Users, ApplicantNext(v)
      PROVE  OfferKept(u)
  <2>1. CASE Withdraw(v)
    <3>1. v # u
      BY <1>1, <2>1 DEF Withdraw, Undecided
    <3> QED BY <1>1, <2>1, <3>1 DEF Withdraw, SetApp, OfferKept
  <2>2. ASSUME NEW s \in Slots, Decline(s, v)
        PROVE  OfferKept(u)
    BY <1>1, <2>2 DEF Decline, SetApp, OfferKept
  <2>3. ASSUME NEW s \in Slots
        PROVE  /\ \A submit \in BOOLEAN : ~SaveBegin(s, v, submit)
               /\ ~AttachBegin(s, v) /\ ~DiscardBegin(s, v) /\ ~ConfirmBegin(s, v)
    BY DEF SaveBegin, AttachBegin, DiscardBegin, ConfirmBegin
  <2> QED BY <1>2, <2>1, <2>2, <2>3 DEF ApplicantNext
<1>3. ASSUME NEW s \in Slots, RequestNext(s)
      PROVE  OfferKept(u)
  BY <1>3, RequestKeeps
<1>4. CASE JobRefill
  <2>1. PICK t \in job : RefillProgram(t)
    BY <1>4 DEF JobRefill
  <2>2. t \in Nat /\ t <= now
    BY <2>1 DEF TimesPast, TypeOK
  <2> QED BY <2>1, <2>2, RefillKeeps DEF OfferKept
<1>5. ~JobScan /\ ~JobFails /\ ~PatchProgram /\ ~Recruitment /\ ~Tick /\ ~UNCHANGED vars
  BY DEF JobScan, JobFails, PatchProgram, Recruitment, Tick, vars
<1>6. \A v \in Users : ~StaffNext(v)
  BY DEF StaffNext, DecideBegin, AddParticipant, RemoveParticipant, Suspension
<1> QED BY <1>2, <1>3, <1>4, <1>5, <1>6 DEF Next

(* An open offer ends before its deadline only by the doing of its         *)
(* applicant, whatever staff, the job and the refills of others do.        *)
THEOREM OffersAreHonoured == Spec => OfferHonoured
<1>1. TypeOK /\ SeatsInv /\ [Next]_vars => [\A u \in Users : OfferKept(u)]_vars
  BY StepKeeps DEF SeatsInv
<1> QED BY <1>1, TypeCorrect, SeatsInvariant, PTL DEF Spec, OfferHonoured

-----------------------------------------------------------------------------
(* Whoever holds the seat lock has seen a free seat, of all participants,  *)
(* and it is still free: this is what makes its offer one of the ledger.   *)
ClaimFits == lock # {} /\ capacity # 0 => HeldSeats(now) < capacity

(* The steps that seat nobody and offer nothing.                           *)
Shrinks ==
  /\ Participants' = Participants /\ capacity' = capacity
  /\ LiveOffers(now)' \subseteq LiveOffers(now)
  /\ lock' \subseteq lock

Shrinking ==
  \/ \E u \in Users : ApplicantNext(u) \/ Suspension(u)
  \/ \E u \in Users, s \in Slots, d \in {"reject", "waitlist", "accept"} : DecideBegin(s, u, d)
  \/ \E s \in Slots : \/ Save(s) \/ Attach(s) \/ Discard(s) \/ Turn(s) \/ RefillBegin(s)
                      \/ RequestFails(s)
  \/ JobScan \/ JobFails \/ Recruitment \/ Tick \/ UNCHANGED vars

Refilling == JobRefill \/ \E s \in Slots : Refill(s)
Seating ==
  \/ \E u \in Users : AddParticipant(u) \/ RemoveParticipant(u)
  \/ \E s \in Slots : Confirm(s)

(* A step changes no seat, ends offers, or is one of these.                *)
LEMMA StepKinds ==
  [Next]_vars => \/ Shrinking \/ Refilling \/ Seating \/ PatchProgram
                 \/ \E s \in Slots : AcceptLock(s) \/ AcceptClaim(s)
BY DEF Next, StaffNext, RequestNext, Shrinking, Refilling, Seating

(* The steps that only end offers.                                         *)
LEMMA ShrinkingShrinks ==
  ASSUME TypeOK, Shrinking
  PROVE  Shrinks
<1>1. /\ participant' = participant => Participants' = Participants
      /\ app' = app /\ now' = now => LiveOffers(now)' = LiveOffers(now)
  BY DEF Participants, LiveOffers
<1>2. ASSUME NEW u, NEW row, row.status # "ACCEPTED", SetApp(u, row), now' = now
      PROVE  LiveOffers(now)' \subseteq LiveOffers(now)
  BY <1>2, NoNewOffer
<1>3. ASSUME NEW u \in Users, Suspension(u)
      PROVE  Shrinks
  BY <1>1, <1>3 DEF Suspension, Shrinks, program
<1>4. ASSUME NEW u \in Users, ApplicantNext(u)
      PROVE  Shrinks
  <2>1. CASE Withdraw(u)
    BY <1>1, <1>2, <2>1, NotOffers DEF Withdraw, Shrinks, program, Status
  <2>2. ASSUME NEW s \in Slots, Decline(s, u)
        PROVE  Shrinks
    BY <1>1, <1>2, <2>2, NotOffers DEF Decline, Shrinks, program
  <2>3. ASSUME NEW s \in Slots,
               \/ \E submit \in BOOLEAN : SaveBegin(s, u, submit)
               \/ AttachBegin(s, u) \/ DiscardBegin(s, u) \/ ConfirmBegin(s, u)
        PROVE  Shrinks
    BY <1>1, <2>3 DEF SaveBegin, AttachBegin, DiscardBegin, ConfirmBegin, Shrinks, program
  <2> QED BY <1>4, <2>1, <2>2, <2>3 DEF ApplicantNext
<1>5. ASSUME NEW u \in Users, NEW s \in Slots, NEW d, DecideBegin(s, u, d)
      PROVE  Shrinks
  BY <1>1, <1>5 DEF DecideBegin, Shrinks, program
<1>6. ASSUME NEW s \in Slots, Save(s) \/ Attach(s)
      PROVE  Shrinks
  BY <1>1, <1>2, <1>6, NotOffers DEF Save, Attach, Shrinks, program, Status
<1>7. ASSUME NEW s \in Slots, Discard(s)
      PROVE  Shrinks
  BY <1>1, <1>2, <1>7, NotOffers DEF Discard, Shrinks, program, Status
<1>8. ASSUME NEW s \in Slots, Turn(s)
      PROVE  Shrinks
  <2>1. Row("REJECTED").status # "ACCEPTED" /\ Waitlisted(req[s].at).status # "ACCEPTED"
    BY NotOffers DEF Status
  <2> QED BY <1>1, <1>2, <1>8, <2>1 DEF Turn, Shrinks, program
<1>9. ASSUME NEW s \in Slots, RefillBegin(s) \/ RequestFails(s)
      PROVE  Shrinks
  BY <1>1, <1>9 DEF RefillBegin, RequestFails, Shrinks, program
<1>10. CASE JobScan \/ JobFails \/ Recruitment \/ UNCHANGED vars
  BY <1>1, <1>10 DEF JobScan, JobFails, Recruitment, vars, Shrinks, program
<1>11. CASE Tick
  <2>1. LiveOffers(now)' \subseteq LiveOffers(now)
    BY <1>11 DEF Tick, LiveOffers, TypeOK, Application
  <2> QED BY <1>1, <1>11, <2>1 DEF Tick, Shrinks, program
<1> QED BY <1>3, <1>4, <1>5, <1>6, <1>7, <1>8, <1>9, <1>10, <1>11 DEF Shrinking

(* What was held at an earlier time covers what is held now.               *)
LEMMA HeldEarlier ==
  ASSUME TypeOK, NEW t \in Nat, t <= now
  PROVE  /\ HeldSeats(t) \in Nat /\ HeldSeats(now) \in Nat
         /\ HeldSeats(now) <= HeldSeats(t)
<1>1. LiveOffers(now) \in SUBSET LiveOffers(t)
  BY DEF LiveOffers, TypeOK, Application
<1>2. /\ IsFiniteSet(LiveOffers(t)) /\ Cardinality(LiveOffers(t)) \in Nat
      /\ Cardinality(LiveOffers(now)) \in Nat /\ Cardinality(Participants) \in Nat
  BY HoldersFinite
<1>3. Cardinality(LiveOffers(now)) <= Cardinality(LiveOffers(t))
  BY <1>1, <1>2, FS_Subset
<1> QED BY <1>2, <1>3 DEF HeldSeats

(* Fewer offers and participants keep the seat the holder counted.         *)
LEMMA FitsKept ==
  ASSUME ClaimFits, TypeOK, capacity' = capacity, lock' \subseteq lock,
         Participants' \subseteq Participants, LiveOffers(now)' \subseteq LiveOffers(now)
  PROVE  ClaimFits'
<1>1. /\ IsFiniteSet(Participants) /\ IsFiniteSet(LiveOffers(now))
      /\ Cardinality(Participants) \in Nat /\ Cardinality(LiveOffers(now)) \in Nat
  BY HoldersFinite
<1>2. /\ Cardinality(Participants') \in Nat /\ Cardinality(LiveOffers(now)') \in Nat
      /\ Cardinality(Participants') <= Cardinality(Participants)
      /\ Cardinality(LiveOffers(now)') <= Cardinality(LiveOffers(now))
  BY <1>1, FS_Subset, FS_CardinalityType
<1> QED BY <1>1, <1>2 DEF ClaimFits, HeldSeats, TypeOK

(* Every step keeps the seat the holder of the lock counted.               *)
LEMMA StepFits ==
  ASSUME TypeOK, SeatsInv, ClaimFits, [Next]_vars
  PROVE  ClaimFits'
<1>1. CASE Shrinking
  BY <1>1, ShrinkingShrinks, FitsKept DEF Shrinks
<1>2. CASE Refilling \/ PatchProgram
  BY <1>2 DEF Refilling, PatchProgram, JobRefill, Refill, RefillProgram, ClaimFits
<1>3. CASE Seating
  <2>1. ASSUME NEW u \in Users, RemoveParticipant(u)
        PROVE  ClaimFits'
    <3>1. LiveOffers(now)' = LiveOffers(now)
      BY <2>1, SameSeats DEF RemoveParticipant
    <3>2. Participants' \subseteq Participants
      BY <2>1 DEF RemoveParticipant, Participants, TypeOK
    <3> QED BY <2>1, <3>1, <3>2, FitsKept DEF RemoveParticipant, program
  <2> QED BY <1>3, <2>1 DEF Seating, AddParticipant, Confirm, ClaimFits
<1>4. ASSUME NEW s \in Slots, AcceptLock(s)
      PROVE  ClaimFits'
  <2>1. req[s].at \in Nat /\ req[s].at <= now
    BY DEF TypeOK, Request, SeatsInv, TimesPast
  <2>2. HeldSeats(now)' = HeldSeats(now)
    <3>1. Participants' = Participants /\ LiveOffers(now)' = LiveOffers(now)
      BY <1>4 DEF AcceptLock, Participants, LiveOffers
    <3> QED BY <3>1 DEF HeldSeats
  <2>3. CASE SeatFree(req[s].at)
    <3>1. capacity # 0 => HeldSeats(now) < capacity
      BY <2>1, <2>3, HeldEarlier DEF SeatFree, TypeOK
    <3> QED BY <1>4, <2>2, <3>1 DEF AcceptLock, program, ClaimFits
  <2>4. CASE ~SeatFree(req[s].at)
    BY <1>4, <2>2, <2>4 DEF AcceptLock, program, ClaimFits
  <2> QED BY <2>3, <2>4
<1>5. ASSUME NEW s \in Slots, AcceptClaim(s)
      PROVE  ClaimFits'
  BY <1>5 DEF AcceptClaim, SeatsInv, OneHolder, ClaimFits
<1> QED BY <1>1, <1>2, <1>3, <1>4, <1>5, StepKinds

-----------------------------------------------------------------------------
(* A step that ends offers and seats nobody is one of the ledger.          *)
LEMMA ShrinkLedger ==
  ASSUME Participants' = Participants, capacity' = capacity,
         LiveOffers(now)' \subseteq LiveOffers(now)
  PROVE  [Ledger!LedgerNext]_<<Participants, LiveOffers(now), capacity>>
<1> DEFINE S == LiveOffers(now) \ LiveOffers(now)'
<1>1. CASE S = {}
  BY <1>1
<1>2. CASE S # {}
  <2>1. S \in SUBSET Users /\ S \subseteq LiveOffers(now)
        /\ LiveOffers(now)' = LiveOffers(now) \ S
    BY DEF LiveOffers
  <2>2. Ledger!GiveUp(S)
    BY <1>2, <2>1 DEF Ledger!GiveUp
  <2> QED BY <2>1, <2>2 DEF Ledger!LedgerNext
<1> QED BY <1>1, <1>2

(* The ledger counts with the same Cardinality.                            *)
LEMMA SameCardinality == \A S : Ledger!Cardinality(S) = Cardinality(S)
BY DEF Ledger!Cardinality, Cardinality

(* Offers that fit in the seats that are free are one of the ledger.       *)
LEMMA OfferLedger ==
  ASSUME NEW S \in SUBSET Users, S # {}, S \cap LiveOffers(now) = {},
         LiveOffers(now)' = LiveOffers(now) \union S,
         Participants' = Participants, capacity' = capacity,
         capacity # 0 => HeldSeats(now) + Cardinality(S) <= capacity
  PROVE  Ledger!LedgerNext
<1>1. Ledger!Held = HeldSeats(now)
  BY SameCardinality DEF Ledger!Held, HeldSeats
<1>2. Ledger!Offer(S)
  BY <1>1, SameCardinality DEF Ledger!Offer
<1> QED BY <1>2 DEF Ledger!LedgerNext

(* A refill ends no open offer and fills free seats only.                  *)
LEMMA RefillLedger ==
  ASSUME TypeOK, NEW t \in Nat, t <= now, RefillProgram(t), now' = now,
         participant' = participant, capacity' = capacity
  PROVE  [Ledger!LedgerNext]_<<Participants, LiveOffers(now), capacity>>
<1>1. PICK chosen \in Promotion(t) :
        app' = [u \in Users |->
                  CASE u \in ExpiredOffers(t) -> Lapsed
                    [] u \in chosen -> Offered(t + DEFAULT_RESPONSE_DAYS)
                    [] OTHER -> app[u]]
  BY DEF RefillProgram
<1> DEFINE S == LiveOffers(now)' \ LiveOffers(now)
<1>2. Participants' = Participants
  BY DEF Participants
<1>3. LiveOffers(now) \subseteq LiveOffers(now)'
  <2>1. ASSUME NEW u \in LiveOffers(now)
        PROVE  u \in LiveOffers(now)'
    BY <2>1, RefillKeeps DEF LiveOffers
  <2> QED BY <2>1
<1>4. chosen \in SUBSET Users /\ S \in SUBSET chosen
  <2>1. chosen \in SUBSET Users
    BY DEF Promotion, Waiting
  <2>2. ASSUME NEW u \in S
        PROVE  u \in chosen
    <3>1. u \in Users /\ app'[u].status = "ACCEPTED" /\ app'[u].offerExpiresAt > now
      BY <2>2 DEF LiveOffers
    <3>2. app'[u] # app[u]
      BY <2>2, <3>1 DEF LiveOffers
    <3>3. Lapsed.status # "ACCEPTED"
      BY NotOffers
    <3>4. u \notin chosen => app'[u] = Lapsed \/ app'[u] = app[u]
      BY <1>1, <3>1
    <3> QED BY <3>1, <3>2, <3>3, <3>4
  <2> QED BY <2>1, <2>2
<1>5. CASE S = {}
  BY <1>2, <1>3, <1>5, ShrinkLedger
<1>6. CASE S # {}
  <2>1. /\ IsFiniteSet(chosen) /\ Cardinality(chosen) \in Nat
        /\ Cardinality(S) \in Nat /\ Cardinality(S) <= Cardinality(chosen)
    BY <1>4, FS_Subset, FS_CardinalityType
  <2>2. Cardinality(chosen) # 0
    BY <1>4, <1>6, <2>1, FS_EmptySet
  <2>3. Cardinality(chosen) <= Larger(FreeSeats(t), 0)
    BY DEF Promotion
  <2>4. FreeSeats(t) = capacity - HeldSeats(t) /\ capacity \in Nat
        /\ Cardinality(chosen) <= capacity - HeldSeats(t)
    BY <2>1, <2>2, <2>3, HeldEarlier DEF Larger, FreeSeats, TypeOK
  <2>5. HeldSeats(now) + Cardinality(S) <= capacity
    BY <2>1, <2>4, HeldEarlier
  <2>6. LiveOffers(now)' = LiveOffers(now) \union S /\ S \cap LiveOffers(now) = {}
    BY <1>3
  <2>7. S \in SUBSET Users
    BY <1>4
  <2> HIDE DEF S
  <2> QED BY <1>2, <1>6, <2>5, <2>6, <2>7, OfferLedger
<1> QED BY <1>5, <1>6

(* An acceptance that counted a free seat is an offer of the ledger.       *)
LEMMA ClaimLedger ==
  ASSUME TypeOK, SeatsInv, ClaimFits, NEW s \in Slots, AcceptClaim(s)
  PROVE  [Ledger!LedgerNext]_<<Participants, LiveOffers(now), capacity>>
<1> DEFINE u == req[s].user
<1>1. Participants' = Participants /\ capacity' = capacity /\ capacity \in Nat
  BY DEF AcceptClaim, Participants, program, TypeOK
<1>2. /\ LiveOffers(now)' \subseteq LiveOffers(now) \union {u}
      /\ LiveOffers(now) \subseteq LiveOffers(now)'
      /\ u \in Users \/ LiveOffers(now)' = LiveOffers(now)
  BY DEF AcceptClaim, SetApp, LiveOffers, TypeOK, Undecided
<1>3. CASE LiveOffers(now)' = LiveOffers(now)
  BY <1>1, <1>3, ShrinkLedger
<1>4. CASE LiveOffers(now)' # LiveOffers(now)
  <2> HIDE DEF u
  <2>1. /\ u \in Users /\ {u} \in SUBSET Users
        /\ LiveOffers(now)' = LiveOffers(now) \union {u}
        /\ {u} \cap LiveOffers(now) = {}
    BY <1>2, <1>4
  <2>2. Cardinality({u}) = 1
    BY FS_Singleton
  <2>3. HeldSeats(now) \in Nat
    BY HoldersFinite DEF HeldSeats
  <2>4. capacity # 0 => HeldSeats(now) + Cardinality({u}) <= capacity
    BY <1>1, <2>2, <2>3 DEF ClaimFits, AcceptClaim
  <2> QED BY <1>1, <2>1, <2>4, OfferLedger
<1> QED BY <1>3, <1>4

(* Every step is a step of the ledger or leaves it alone.                  *)
LEMMA StepLedger ==
  ASSUME TypeOK, SeatsInv, ClaimFits, [Next]_vars
  PROVE  [Ledger!LedgerNext]_<<Participants, LiveOffers(now), capacity>>
<1>1. CASE Shrinking
  BY <1>1, ShrinkingShrinks, ShrinkLedger DEF Shrinks
<1>2. CASE Refilling
  <2>1. CASE JobRefill
    <3>1. PICK t \in job : RefillProgram(t)
      BY <2>1 DEF JobRefill
    <3>2. t \in Nat /\ t <= now
      BY <3>1 DEF SeatsInv, TimesPast, TypeOK
    <3> QED BY <2>1, <3>1, <3>2, RefillLedger DEF JobRefill, program
  <2>2. ASSUME NEW s \in Slots, Refill(s)
        PROVE  [Ledger!LedgerNext]_<<Participants, LiveOffers(now), capacity>>
    <3>1. PICK t \in req[s].at .. now : RefillProgram(t)
      BY <2>2 DEF Refill
    <3>2. t \in Nat /\ t <= now
      BY <3>1 DEF Request, TypeOK
    <3> QED BY <2>2, <3>1, <3>2, RefillLedger DEF Refill, program
  <2> QED BY <1>2, <2>1, <2>2 DEF Refilling
<1>3. CASE PatchProgram
  <2>1. Participants' = Participants /\ LiveOffers(now)' = LiveOffers(now) /\ capacity' \in Nat
    BY <1>3 DEF PatchProgram, Participants, LiveOffers, TypeOK
  <2>2. Ledger!Resize
    BY <2>1 DEF Ledger!Resize
  <2> QED BY <2>2 DEF Ledger!LedgerNext
<1>4. ASSUME NEW u \in Users, AddParticipant(u) \/ RemoveParticipant(u)
      PROVE  Ledger!LedgerNext
  <2>1. LiveOffers(now)' = LiveOffers(now) /\ capacity' = capacity
    BY <1>4, SameSeats DEF AddParticipant, RemoveParticipant, program
  <2>2. CASE AddParticipant(u)
    <3>1. Participants' = Participants \union {u}
      BY <2>2 DEF AddParticipant, Participants, TypeOK
    <3>2. Ledger!Register(u)
      BY <2>1, <3>1 DEF Ledger!Register
    <3> QED BY <3>2 DEF Ledger!LedgerNext
  <2>3. CASE RemoveParticipant(u)
    <3>1. Participants' = Participants \ {u}
      BY <2>3 DEF RemoveParticipant, Participants, TypeOK
    <3>2. Ledger!Unregister(u)
      BY <2>1, <3>1 DEF Ledger!Unregister
    <3> QED BY <3>2 DEF Ledger!LedgerNext
  <2> QED BY <1>4, <2>2, <2>3
<1>5. ASSUME NEW s \in Slots, Confirm(s)
      PROVE  Ledger!LedgerNext
  <2> DEFINE u == req[s].user
  <2>1. u \in Users /\ u \in LiveOffers(now)
    BY <1>5 DEF Confirm, LiveOffers
  <2>2. Participants' = Participants \union {u}
    BY <1>5, <2>1 DEF Confirm, Participants, TypeOK
  <2>3. LiveOffers(now)' = LiveOffers(now) \ {u}
    <3>1. Row("CONFIRMED").status # "ACCEPTED"
      BY NotOffers DEF Status
    <3> QED BY <1>5, <2>1, <3>1 DEF Confirm, SetApp, LiveOffers, TypeOK
  <2>4. Ledger!Take(u)
    BY <1>5, <2>1, <2>2, <2>3 DEF Ledger!Take, Confirm, program
  <2> QED BY <2>1, <2>4 DEF Ledger!LedgerNext
<1>6. ASSUME NEW s \in Slots, AcceptLock(s)
      PROVE  UNCHANGED <<Participants, LiveOffers(now), capacity>>
  BY <1>6, SameSeats DEF AcceptLock, Participants, program
<1>7. CASE Seating
  BY <1>4, <1>5, <1>7 DEF Seating
<1> QED BY <1>1, <1>2, <1>3, <1>6, <1>7, ClaimLedger, StepKinds

(* The selection flow starts as a ledger without offers.                   *)
LEMMA InitLedger == Init => Ledger!LedgerInit
<1> SUFFICES ASSUME Init PROVE Ledger!LedgerInit
  OBVIOUS
<1>1. LiveOffers(now) = {} /\ Participants \subseteq Users
  BY DEF Init, LiveOffers, Participants, Row
<1> QED BY <1>1 DEF Init, Ledger!LedgerInit

(* The selection flow keeps the ledger of its seats: with its locks, its   *)
(* deadlines and its job, every step offers only seats that are free of    *)
(* participants and open offers alike, or ends offers, or is staff's.      *)
THEOREM KeepsTheLedger == Spec => ImplementsLedger
<1>1. Init => ClaimFits
  BY DEF Init, ClaimFits
<1>2. TypeOK /\ SeatsInv /\ ClaimFits /\ [Next]_vars => ClaimFits'
  BY StepFits
<1>3. TypeOK /\ SeatsInv /\ ClaimFits /\ [Next]_vars
        => [Ledger!LedgerNext]_<<Participants, LiveOffers(now), capacity>>
  BY StepLedger
<1> QED
  BY <1>1, <1>2, <1>3, InitLedger, TypeCorrect, SeatsInvariant, PTL
     DEF Spec, ImplementsLedger, Ledger!LedgerSpec, Ledger!ledger

-----------------------------------------------------------------------------
AcceptedApps == {u \in Users : app[u].status = "ACCEPTED"}

(* A refill in a program that runs leaves no seat free while somebody      *)
(* waits: it offers every seat it counts as free, or an offer to everybody.*)
LEMMA RefillGivesOut ==
  ASSUME TypeOK, NEW t \in Nat, RefillProgram(t), ~Ended,
         participant' = participant, suspended' = suspended, capacity' = capacity
  PROVE  SeatsGivenOut' \/ Waiting' = {}
<1>1. PICK chosen \in Promotion(t) :
        app' = [u \in Users |->
                  CASE u \in ExpiredOffers(t) -> Lapsed
                    [] u \in chosen -> Offered(t + DEFAULT_RESPONSE_DAYS)
                    [] OTHER -> app[u]]
  BY DEF RefillProgram
<1>2. /\ chosen \in SUBSET Waiting /\ Waiting \in SUBSET Users /\ chosen \in SUBSET Users
      /\ Cardinality(chosen) = Larger(FreeSeats(t), 0) \/ chosen = Waiting
  BY DEF Promotion, Waiting
<1>3. /\ Lapsed.status = "DECLINED" /\ \A d : Offered(d).status = "ACCEPTED"
  BY DEF Lapsed, Offered, Row
<1>4. \A u \in Waiting : u \notin ExpiredOffers(t) /\ u \notin LiveOffers(t)
  BY DEF Waiting, ExpiredOffers, LiveOffers
<1>5. CASE chosen = Waiting
  <2>1. ASSUME NEW u \in Users, app'[u].status = "WAITLISTED"
        PROVE  u \in suspended
    <3>1. u \notin Waiting
      BY <1>1, <1>3, <1>4, <1>5, <2>1
    <3>2. app'[u] = app[u]
      BY <1>1, <1>3, <1>5, <2>1, <3>1
    <3> QED BY <2>1, <3>1, <3>2 DEF Waiting
  <2> QED BY <2>1 DEF Waiting
<1>6. CASE Cardinality(chosen) = Larger(FreeSeats(t), 0)
  <2>1. /\ IsFiniteSet(LiveOffers(t)) /\ Cardinality(LiveOffers(t)) \in Nat
        /\ Cardinality(Participants) \in Nat /\ capacity \in Nat
    BY HoldersFinite DEF TypeOK
  <2>2. IsFiniteSet(chosen) /\ Cardinality(chosen) \in Nat
    BY <1>2, FS_Subset, FS_CardinalityType
  <2>3. LiveOffers(t) \cap chosen = {}
    BY <1>2, <1>4
  <2>4. Cardinality(LiveOffers(t) \cup chosen) = Cardinality(LiveOffers(t)) + Cardinality(chosen)
    BY <2>1, <2>2, <2>3, FS_Union, FS_EmptySet
  <2>5. LiveOffers(t) \cup chosen \in SUBSET AcceptedApps'
    <3>1. ASSUME NEW u \in LiveOffers(t) PROVE u \in AcceptedApps'
      <4>1. /\ u \in Users /\ app[u] \in Application
            /\ app[u].status = "ACCEPTED" /\ app[u].offerExpiresAt > t
        BY DEF LiveOffers, TypeOK
      <4>2. u \notin ExpiredOffers(t) /\ u \notin chosen
        BY <1>2, <1>4, <4>1 DEF ExpiredOffers, Application
      <4>3. app'[u] = app[u]
        BY <1>1, <4>1, <4>2
      <4> QED BY <4>1, <4>3 DEF AcceptedApps
    <3>2. ASSUME NEW u \in chosen PROVE u \in AcceptedApps'
      <4>1. u \in Users /\ app'[u] = Offered(t + DEFAULT_RESPONSE_DAYS)
        BY <1>1, <1>2, <1>4
      <4> QED BY <1>3, <4>1 DEF AcceptedApps
    <3> QED BY <3>1, <3>2
  <2>6. /\ Cardinality(LiveOffers(t) \cup chosen) <= Cardinality(AcceptedApps')
        /\ Cardinality(AcceptedApps') \in Nat
    <3>1. AcceptedApps' \in SUBSET Users
      BY DEF AcceptedApps
    <3>2. IsFiniteSet(AcceptedApps')
      BY <3>1, FS_Subset
    <3> QED BY <2>5, <3>2, FS_Subset, FS_CardinalityType
  <2>7. Cardinality(Participants) + Cardinality(AcceptedApps') >= capacity
    <3>1. CASE capacity = 0
      BY <2>1, <2>6, <3>1
    <3>2. CASE capacity # 0
      <4>1. FreeSeats(t) = capacity - (Cardinality(Participants) + Cardinality(LiveOffers(t)))
        BY <3>2 DEF FreeSeats, HeldSeats
      <4>2. Cardinality(chosen) >= FreeSeats(t)
        BY <1>6, <2>1, <2>2, <4>1 DEF Larger
      <4> QED BY <2>1, <2>2, <2>4, <2>6, <4>1, <4>2
    <3> QED BY <3>1, <3>2
  <2>8. Participants' = Participants
    BY DEF Participants
  <2> QED BY <2>7, <2>8 DEF SeatsGivenOut, AcceptedApps
<1> QED BY <1>2, <1>5, <1>6

(* Only a refill lapses an offer.                                          *)
LEMMA OnlyRefillsLapse ==
  ASSUME TypeOK, [Next]_vars, NEW u \in Users, app[u].status = "ACCEPTED", app'[u] = Lapsed
  PROVE  Refilling
<1>1. app'[u] # app[u]
  BY DEF Lapsed, Row
<1>2. app \in [Users -> Application]
  BY DEF TypeOK
<1>3. ASSUME NEW v, NEW row, SetApp(v, row)
      PROVE  v = u /\ row = Lapsed
  BY <1>1, <1>2, <1>3 DEF SetApp
<1>4. \A s : s # "DECLINED" => Row(s) # Lapsed
  BY DEF Row, Lapsed
<1>5. TurnedDown # Lapsed
  BY DEF TurnedDown, Lapsed, Row
<1>6. ~Shrinking
  <2>1. \A v \in Users : ~Suspension(v)
    BY <1>1 DEF Suspension
  <2>2. ASSUME NEW v \in Users, ApplicantNext(v) PROVE FALSE
    BY <1>1, <1>3, <1>4, <1>5, <2>2
       DEF ApplicantNext, Withdraw, SaveBegin, AttachBegin, DiscardBegin, ConfirmBegin, Decline
  <2>3. \A v \in Users, s \in Slots, d \in {"reject", "waitlist", "accept"} : ~DecideBegin(s, v, d)
    BY <1>1 DEF DecideBegin
  <2>4. ASSUME NEW s \in Slots, Save(s) \/ Attach(s) \/ Discard(s) PROVE FALSE
    BY <1>3, <1>4, <2>4 DEF Save, Attach, Discard
  <2>5. ASSUME NEW s \in Slots, Turn(s) PROVE FALSE
    BY <1>3, <2>5 DEF Turn, Undecided
  <2>6. ASSUME NEW s \in Slots, RefillBegin(s) \/ RequestFails(s) PROVE FALSE
    BY <1>1, <2>6 DEF RefillBegin, RequestFails
  <2>7. ~(JobScan \/ JobFails \/ Recruitment \/ Tick \/ UNCHANGED vars)
    BY <1>1 DEF JobScan, JobFails, Recruitment, Tick, vars
  <2> QED BY <2>1, <2>2, <2>3, <2>4, <2>5, <2>6, <2>7 DEF Shrinking
<1>7. ~Seating
  BY <1>1, <1>3, <1>4 DEF Seating, AddParticipant, RemoveParticipant, Confirm
<1>8. ~PatchProgram
  BY <1>1 DEF PatchProgram
<1>9. ASSUME NEW s \in Slots, AcceptLock(s) \/ AcceptClaim(s) PROVE FALSE
  BY <1>1, <1>3, <1>9 DEF AcceptLock, AcceptClaim, Undecided
<1> QED BY <1>6, <1>7, <1>8, <1>9, StepKinds

(* The seat of an offer that ran out is not lost, whichever refill finds   *)
(* it and however long after it was asked for.                             *)
THEOREM LapsesPassSeatsOn == Spec => LapsedSeatPassedOn
<1> DEFINE Passed ==
      (\E u \in Users : app[u].status = "ACCEPTED" /\ app'[u] = Lapsed) /\ ~Ended
        => SeatsGivenOut' \/ Waiting' = {}
<1>1. TypeOK /\ [Next]_vars => [Passed]_vars
  <2> SUFFICES ASSUME TypeOK, [Next]_vars, ~Ended,
                      NEW u \in Users, app[u].status = "ACCEPTED", app'[u] = Lapsed
               PROVE  SeatsGivenOut' \/ Waiting' = {}
    OBVIOUS
  <2>1. Refilling
    BY OnlyRefillsLapse
  <2>2. CASE JobRefill
    <3>1. PICK t \in job : RefillProgram(t)
      BY <2>2 DEF JobRefill
    <3>2. t \in Nat
      BY DEF TypeOK
    <3> QED BY <2>2, <3>1, <3>2, RefillGivesOut DEF JobRefill, program
  <2>3. ASSUME NEW s \in Slots, Refill(s) PROVE SeatsGivenOut' \/ Waiting' = {}
    <3>1. PICK t \in req[s].at .. now : RefillProgram(t)
      BY <2>3 DEF Refill
    <3>2. t \in Nat
      BY DEF Request, TypeOK
    <3> QED BY <2>3, <3>1, <3>2, RefillGivesOut DEF Refill, program
  <2> QED BY <2>1, <2>2, <2>3 DEF Refilling
<1> QED BY <1>1, TypeCorrect, PTL DEF Spec, LapsedSeatPassedOn
=============================================================================
