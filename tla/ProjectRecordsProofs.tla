------------------------ MODULE ProjectRecordsProofs ------------------------
(***************************************************************************)
(* What an official record keeps: proofs about ProjectRecords for every    *)
(* set of users, programs, projects and slots.                             *)
(***************************************************************************)
EXTENDS ProjectRecords, FiniteSetTheorems, TLAPS

(* What a capture reads besides the record itself.                         *)
Submissions == UNION {[S -> Nat] : S \in SUBSET Items}
SourceRecord ==
  [linked : BOOLEAN, team : SUBSET Users, submitted : Submissions,
   holders : SUBSET Users, ended : BOOLEAN]

IsPeople(people) == DOMAIN people \subseteq Ids /\ people \in [DOMAIN people -> Counts]

(* A snapshot names nobody it hides, and its pseudonyms are those of the   *)
(* people it hides.                                                        *)
Clean(s) ==
  /\ Named(s) \cap HiddenIn(s) = {}
  /\ Listed(s) \cap Nat \subseteq 1 .. Len(s.hidden)

(* The next version hides the same people and names nobody less.           *)
Grows(s, t) ==
  /\ t.hidden = s.hidden
  /\ Named(s) \subseteq Named(t)
  /\ Clean(t)

-----------------------------------------------------------------------------
(* Lists of people stay lists of people.                                   *)
LEMMA RowsTyped ==
  ASSUME NEW people, IsPeople(people), NEW id
  PROVE  /\ RowsOf(people, id) \in Counts /\ RowsOf(people, id).on \in Nat
         /\ RowsOf(people, id).off \in Nat
         /\ AllRows(people, id) \in Nat
<1>1. RowsOf(people, id) \in Counts
  BY DEF RowsOf, IsPeople, Counts
<1> QED BY <1>1 DEF Counts, AllRows

(* The team of a snapshot lists the team now, or the one kept, and         *)
(* whoever was listed before.                                              *)
LEMMA TeamTyped ==
  ASSUME NEW src \in SourceRecord, NEW previous, IsPeople(previous)
  PROVE  /\ IsPeople(CurrentTeam(src, previous))
         /\ DOMAIN CurrentTeam(src, previous) = src.team \union DOMAIN previous
         /\ IsPeople(KeptTeam(src, previous))
         /\ DOMAIN previous \subseteq DOMAIN KeptTeam(src, previous)
         /\ DOMAIN KeptTeam(src, previous) \subseteq src.team \union DOMAIN previous
<1>1. src.team \subseteq Users
  BY DEF SourceRecord
<1>2. /\ [on |-> 1, off |-> 0] \in Counts /\ [on |-> 0, off |-> 1] \in Counts
      /\ \A n \in Nat : [on |-> 0, off |-> n] \in Counts
  BY DEF Counts
<1>3. DOMAIN CurrentTeam(src, previous) = src.team \union DOMAIN previous
  BY DEF CurrentTeam
<1>4. \A id : AllRows(previous, id) \in Nat
  BY RowsTyped
<1>5. IsPeople(CurrentTeam(src, previous))
  BY <1>1, <1>2, <1>4 DEF IsPeople, CurrentTeam, Ids
<1>6. CASE previous = NoRows
  <2>1. DOMAIN previous = {}
    BY <1>6 DEF NoRows
  <2>2. KeptTeam(src, previous) = OnTeam(src) /\ DOMAIN OnTeam(src) = src.team
    BY <1>6 DEF KeptTeam, OnTeam
  <2>3. IsPeople(OnTeam(src))
    BY <1>1, <1>2 DEF IsPeople, OnTeam, Ids
  <2> QED BY <1>3, <1>5, <2>1, <2>2, <2>3
<1>7. CASE previous # NoRows
  BY <1>3, <1>5, <1>7 DEF KeptTeam
<1> QED BY <1>6, <1>7

(* Whoever holds a verified record is added to people.                     *)
LEMMA HoldersTyped ==
  ASSUME NEW people, IsPeople(people), NEW who \in SUBSET Users
  PROVE  IsPeople(WithHolders(people, who))
<1>1. [on |-> 0, off |-> 1] \in Counts
  BY DEF Counts
<1> QED BY <1>1 DEF IsPeople, WithHolders, Ids

(* A list of people is one after a redaction, too.                         *)
LEMMA RedactedTyped ==
  ASSUME NEW people, IsPeople(people), NEW hidden \in Seq(Users)
  PROVE  IsPeople(Redacted(people, hidden))
<1> DEFINE out == {hidden[n] : n \in 1 .. Len(hidden)}
           nth == {n \in 1 .. Len(hidden) : hidden[n] \in DOMAIN people}
           extra(id) == IF id \in nth THEN people[hidden[id]] ELSE [on |-> 0, off |-> 0]
           sum(id) == [on |-> RowsOf(people, id).on + extra(id).on,
                       off |-> RowsOf(people, id).off + extra(id).off]
<1>1. Redacted(people, hidden) = [id \in (DOMAIN people \ out) \union nth |-> sum(id)]
  BY DEF Redacted
<1>2. nth \subseteq Nat /\ DOMAIN people \subseteq Ids
  BY DEF IsPeople
<1>3. ASSUME NEW id PROVE sum(id) \in Counts
  <2>1. extra(id) \in Counts
    BY DEF IsPeople, Counts
  <2>2. extra(id).on \in Nat /\ extra(id).off \in Nat
    BY <2>1 DEF Counts
  <2> HIDE DEF extra
  <2> QED BY <2>2, RowsTyped DEF Counts
<1> HIDE DEF out, nth, sum
<1> QED BY <1>1, <1>2, <1>3 DEF IsPeople, Ids

(* What buildSnapshot returns is a snapshot.                               *)
LEMMA BuildTyped ==
  ASSUME NEW src \in SourceRecord, NEW s, IsSnapshot(s), NEW final, NEW at
  PROVE  /\ IsSnapshot(Build(src, s, final, at))
         /\ Build(src, s, final, at).hidden = s.hidden
         /\ Build(src, s, final, at).corrections = s.corrections
<1> DEFINE people == IF src.linked /\ ~final THEN CurrentTeam(src, s.people)
                     ELSE KeptTeam(src, s.people)
           shown == Redacted(WithHolders(people, src.holders), s.hidden)
           evidence == {e \in DOMAIN src.submitted : final => src.submitted[e] <= at}
<1>1. IsPeople(s.people) /\ s.hidden \in Seq(Users) /\ s.corrections \in Nat
  BY DEF IsSnapshot, IsPeople
<1>2. /\ src.holders \in SUBSET Users /\ src.ended \in BOOLEAN
      /\ DOMAIN src.submitted \subseteq Items
  BY DEF SourceRecord, Submissions
<1>3. IsPeople(people)
  BY <1>1, TeamTyped
<1>4. IsPeople(shown)
  <2> HIDE DEF people
  <2> QED BY <1>1, <1>2, <1>3, HoldersTyped, RedactedTyped
<1>5. Build(src, s, final, at) =
        [people |-> shown, evidence |-> evidence, corrections |-> s.corrections,
         ended |-> src.ended, hidden |-> s.hidden]
  BY DEF Build
<1>6. evidence \subseteq Items
  BY <1>2
<1> HIDE DEF shown, evidence
<1> QED BY <1>1, <1>2, <1>4, <1>5, <1>6 DEF IsSnapshot, IsPeople

-----------------------------------------------------------------------------
(* Who is listed once the hidden people of a snapshot are taken out.       *)
Out(hidden) == {hidden[n] : n \in 1 .. Len(hidden)}
Nth(people, hidden) == {n \in 1 .. Len(hidden) : hidden[n] \in DOMAIN people}

(* A redaction takes the hidden off the list, puts their pseudonyms on     *)
(* it, and moves their rows there.                                         *)
LEMMA RedactedLists ==
  ASSUME NEW people, IsPeople(people), NEW hidden \in Seq(Users)
  PROVE  /\ DOMAIN Redacted(people, hidden) = (DOMAIN people \ Out(hidden)) \union Nth(people, hidden)
         /\ Out(hidden) \subseteq Users
         /\ (DOMAIN Redacted(people, hidden)) \cap Users = (DOMAIN people \cap Users) \ Out(hidden)
         /\ (DOMAIN Redacted(people, hidden)) \cap Nat
              = (DOMAIN people \cap Nat) \union Nth(people, hidden)
         /\ \A id \in DOMAIN Redacted(people, hidden) :
              Redacted(people, hidden)[id].on
                = RowsOf(people, id).on
                  + (IF id \in Nth(people, hidden) THEN people[hidden[id]].on ELSE 0)
<1> DEFINE out == Out(hidden)
           nth == Nth(people, hidden)
           extra(id) == IF id \in nth THEN people[hidden[id]] ELSE [on |-> 0, off |-> 0]
           sum(id) == [on |-> RowsOf(people, id).on + extra(id).on,
                       off |-> RowsOf(people, id).off + extra(id).off]
<1>1. Redacted(people, hidden) = [id \in (DOMAIN people \ out) \union nth |-> sum(id)]
  BY DEF Redacted, Out, Nth
<1>2. nth \subseteq Nat /\ out \subseteq Users /\ Users \cap Nat = {}
  BY PeopleAssumption DEF Out, Nth
<1>3. \A id : sum(id).on = RowsOf(people, id).on + (IF id \in nth THEN people[hidden[id]].on ELSE 0)
  OBVIOUS
<1> HIDE DEF sum
<1> QED BY <1>1, <1>2, <1>3

(* buildSnapshot names at least whoever was named before, and nobody who   *)
(* is hidden.                                                              *)
LEMMA BuildGrows ==
  ASSUME NEW src \in SourceRecord, NEW s, IsSnapshot(s), Clean(s), NEW final, NEW at
  PROVE  Grows(s, Build(src, s, final, at))
<1> DEFINE people == IF src.linked /\ ~final THEN CurrentTeam(src, s.people)
                     ELSE KeptTeam(src, s.people)
           held == WithHolders(people, src.holders)
           t == Build(src, s, final, at)
<1>1. IsPeople(s.people) /\ s.hidden \in Seq(Users)
  BY DEF IsSnapshot, IsPeople
<1>2. src.holders \in SUBSET Users /\ src.team \in SUBSET Users
  BY DEF SourceRecord
<1>3. /\ IsPeople(people) /\ DOMAIN s.people \subseteq DOMAIN people
      /\ DOMAIN people \subseteq src.team \union DOMAIN s.people
  <2>1. /\ IsPeople(CurrentTeam(src, s.people))
        /\ DOMAIN CurrentTeam(src, s.people) = src.team \union DOMAIN s.people
        /\ IsPeople(KeptTeam(src, s.people))
        /\ DOMAIN s.people \subseteq DOMAIN KeptTeam(src, s.people)
        /\ DOMAIN KeptTeam(src, s.people) \subseteq src.team \union DOMAIN s.people
    BY <1>1, TeamTyped
  <2> QED BY <2>1
<1>4. IsPeople(held) /\ DOMAIN held = DOMAIN people \union src.holders
  <2> HIDE DEF people
  <2> QED BY <1>2, <1>3, HoldersTyped DEF WithHolders
<1>5. t.people = Redacted(held, s.hidden) /\ t.hidden = s.hidden
  BY DEF Build
<1> HIDE DEF t, held, people
<1>6. /\ Named(t) = (DOMAIN held \cap Users) \ HiddenIn(s)
      /\ Listed(t) \cap Nat \subseteq (DOMAIN held \cap Nat) \union (1 .. Len(s.hidden))
  <2>1. Out(s.hidden) = HiddenIn(s) /\ Nth(held, s.hidden) \subseteq 1 .. Len(s.hidden)
    BY DEF Out, Nth, HiddenIn
  <2>2. /\ DOMAIN Redacted(held, s.hidden) \cap Users = (DOMAIN held \cap Users) \ Out(s.hidden)
        /\ DOMAIN Redacted(held, s.hidden) \cap Nat
             = (DOMAIN held \cap Nat) \union Nth(held, s.hidden)
    BY <1>1, <1>4, RedactedLists
  <2> QED BY <1>5, <2>1, <2>2 DEF Named, Listed
<1>7. DOMAIN held \cap Nat \subseteq Listed(s)
  BY <1>2, <1>3, <1>4, PeopleAssumption DEF Listed
<1>8. HiddenIn(t) = HiddenIn(s)
  BY <1>5 DEF HiddenIn
<1>9. Clean(t)
  BY <1>5, <1>6, <1>7, <1>8 DEF Clean
<1>10. Named(s) \subseteq Named(t)
  BY <1>3, <1>4, <1>6 DEF Clean, Named, Listed
<1> QED BY <1>5, <1>9, <1>10 DEF t, Grows

(* What buildSnapshot makes of a record that stays final: the team is the  *)
(* one it had.                                                             *)
LEMMA BuildKeepsTeam ==
  ASSUME NEW src \in SourceRecord, NEW s, IsSnapshot(s), Clean(s), Listed(s) # {}, NEW at
  PROVE  /\ TeamOf(Build(src, s, TRUE, at)) = TeamOf(s)
         /\ Listed(Build(src, s, TRUE, at)) # {}
<1> DEFINE held == WithHolders(s.people, src.holders)
           t == Build(src, s, TRUE, at)
           nth == Nth(held, s.hidden)
<1>1. IsPeople(s.people) /\ s.hidden \in Seq(Users)
  BY DEF IsSnapshot, IsPeople
<1>2. src.holders \in SUBSET Users
  BY DEF SourceRecord
<1>3. s.people # NoRows
  BY DEF Listed, NoRows
<1>4. t.people = Redacted(held, s.hidden)
  BY <1>3 DEF Build, KeptTeam
<1>5. IsPeople(held)
  BY <1>1, <1>2, HoldersTyped
<1>6. /\ DOMAIN held = DOMAIN s.people \union src.holders
      /\ \A id \in DOMAIN held : held[id].on = IF id \in DOMAIN s.people THEN s.people[id].on ELSE 0
  BY DEF WithHolders
<1>7. \A n \in 1 .. Len(s.hidden) : s.hidden[n] \notin DOMAIN s.people /\ s.hidden[n] \in Users
  BY <1>1 DEF Clean, Named, Listed, HiddenIn
<1> HIDE DEF held, t
<1>8. /\ DOMAIN t.people = (DOMAIN held \ HiddenIn(s)) \union nth
      /\ \A id \in DOMAIN t.people :
           t.people[id].on = RowsOf(held, id).on + (IF id \in nth THEN held[s.hidden[id]].on ELSE 0)
  <2>1. Out(s.hidden) = HiddenIn(s)
    BY DEF Out, HiddenIn
  <2>2. /\ DOMAIN Redacted(held, s.hidden) = (DOMAIN held \ Out(s.hidden)) \union nth
        /\ \A id \in DOMAIN Redacted(held, s.hidden) :
              Redacted(held, s.hidden)[id].on
                = RowsOf(held, id).on + (IF id \in nth THEN held[s.hidden[id]].on ELSE 0)
    BY <1>1, <1>5, RedactedLists
  <2> QED BY <1>4, <2>1, <2>2
<1>9. \A n \in nth : held[s.hidden[n]].on = 0
  BY <1>6, <1>7 DEF Nth
<1>10. ASSUME NEW id \in DOMAIN t.people
       PROVE  t.people[id].on = IF id \in DOMAIN s.people THEN s.people[id].on ELSE 0
  <2>1. t.people[id].on = RowsOf(held, id).on + 0
    BY <1>8, <1>9
  <2>2. RowsOf(held, id).on \in Nat
    BY <1>5, RowsTyped
  <2>3. RowsOf(held, id).on = IF id \in DOMAIN s.people THEN s.people[id].on ELSE 0
    BY <1>6 DEF RowsOf
  <2> QED BY <2>1, <2>2, <2>3
<1>11. DOMAIN s.people \subseteq DOMAIN t.people
  BY <1>6, <1>7, <1>8 DEF HiddenIn
<1>12. TeamOf(t) = TeamOf(s)
  BY <1>10, <1>11 DEF TeamOf, Listed
<1>13. Listed(t) # {}
  BY <1>11 DEF Listed
<1> QED BY <1>12, <1>13 DEF t

-----------------------------------------------------------------------------
(* A record with a version to count from.                                  *)
Counted(c) ==
  /\ c = [status |-> c.status, version |-> c.version,
          snapshot |-> c.snapshot, finalizedAt |-> c.finalizedAt]
  /\ c.version \in Nat

Good(c) == IsRecord(c) /\ Counted(c) /\ Clean(c.snapshot)

(* new is old or the version after it.                                     *)
Succeeds(old, new) ==
  /\ Good(new)
  /\ new = old \/ (new.version = old.version + 1 /\ Grows(old.snapshot, new.snapshot))

(* While a record stays final, so does its team.                           *)
TeamStands(old, new) ==
  old.status = "FINAL" /\ new.status = "FINAL" /\ Listed(old.snapshot) # {} =>
    /\ TeamOf(new.snapshot) = TeamOf(old.snapshot)
    /\ Listed(new.snapshot) # {}
    /\ new.finalizedAt = old.finalizedAt
    /\ new.snapshot.hidden = old.snapshot.hidden

(* A capture makes new of old, from what some source holds.                *)
Takes(old, new, relink) ==
  \E src \in SourceRecord, finalize \in BOOLEAN, at \in Nat :
    new = Written(old, Captured(old, src, relink), finalize, relink, at)

(* A capture keeps the record or writes the version after it; unless it    *)
(* reopens the record, one that is final stays final.                      *)
LEMMA CaptureSucceeds ==
  ASSUME NEW old, Good(old), NEW new, NEW relink \in BOOLEAN, Takes(old, new, relink)
  PROVE  /\ Succeeds(old, new)
         /\ TeamStands(old, new)
         /\ ~relink /\ old.status = "FINAL" => new.status = "FINAL"
<1>1. PICK src \in SourceRecord, finalize \in BOOLEAN, at \in Nat :
        new = Written(old, Captured(old, src, relink), finalize, relink, at)
  BY DEF Takes
<1> DEFINE s == Captured(old, src, relink)
<1>2. /\ IsSnapshot(old.snapshot) /\ Clean(old.snapshot) /\ old.version \in Nat
      /\ old.status \in {"NONE", "ACTIVE", "FINAL"} /\ old.finalizedAt \in Nat
  BY DEF Good, IsRecord
<1>3. IsSnapshot(s) /\ Grows(old.snapshot, s)
  BY <1>2, BuildTyped, BuildGrows DEF Captured
<1>4. CASE new = old
  BY <1>4 DEF Succeeds, TeamStands
<1>5. CASE new # old
  <2> DEFINE status == StatusAfter(old, finalize, relink)
             finalizedAt == CASE Closing(old, finalize) -> at
                              [] Reopening(old, relink) -> 0
                              [] OTHER -> old.finalizedAt
  <2>1. new = [status |-> status, version |-> old.version + 1, snapshot |-> s,
               finalizedAt |-> finalizedAt]
    BY <1>1, <1>5 DEF Written
  <2>2. status \in {"ACTIVE", "FINAL"}
    BY <1>2 DEF StatusAfter, Reopening, Closing
  <2>3. finalizedAt \in Nat
    BY <1>2 DEF Closing, Reopening
  <2>4. old.status = "FINAL" => /\ relink => status = "ACTIVE"
                                /\ ~relink => status = "FINAL" /\ finalizedAt = old.finalizedAt
    BY DEF StatusAfter, Reopening, Closing
  <2>5. old.status = "FINAL" /\ ~relink /\ Listed(old.snapshot) # {}
          => TeamOf(s) = TeamOf(old.snapshot) /\ Listed(s) # {}
    <3> SUFFICES ASSUME old.status = "FINAL", ~relink, Listed(old.snapshot) # {}
                 PROVE  TeamOf(s) = TeamOf(old.snapshot) /\ Listed(s) # {}
      OBVIOUS
    <3>1. s = Build(src, old.snapshot, TRUE, old.finalizedAt)
      BY DEF Captured
    <3> HIDE DEF s
    <3> QED BY <1>2, <3>1, BuildKeepsTeam
  <2> HIDE DEF s, status, finalizedAt
  <2>6. /\ new.status = status /\ new.version = old.version + 1 /\ new.snapshot = s
        /\ new.finalizedAt = finalizedAt
        /\ DOMAIN new = {"status", "version", "snapshot", "finalizedAt"}
    BY <2>1
  <2>7. Good(new)
    <3>1. Counted(new)
      BY <1>2, <2>1, <2>6 DEF Counted
    <3>2. IsRecord(new)
      BY <1>2, <1>3, <2>2, <2>3, <2>6 DEF IsRecord
    <3> QED BY <1>3, <2>6, <3>1, <3>2 DEF Good, Grows
  <2>8. Succeeds(old, new)
    BY <1>3, <2>6, <2>7 DEF Succeeds
  <2>9. TeamStands(old, new)
    BY <1>3, <2>4, <2>5, <2>6 DEF TeamStands, Grows
  <2> QED BY <2>4, <2>6, <2>8, <2>9
<1> QED BY <1>4, <1>5

(* Two captures in a row, neither of which reopens the record, keep the    *)
(* team as one does.                                                       *)
LEMMA CapturesSucceed ==
  ASSUME NEW old, Good(old), NEW first, NEW second,
         Takes(old, first, FALSE), Takes(first, second, FALSE)
  PROVE  Succeeds(old, first) /\ Succeeds(first, second) /\ TeamStands(old, second)
<1>1. /\ Succeeds(old, first) /\ TeamStands(old, first)
      /\ old.status = "FINAL" => first.status = "FINAL"
  BY CaptureSucceeds
<1>2. Good(first)
  BY <1>1 DEF Succeeds
<1>3. Succeeds(first, second) /\ TeamStands(first, second)
  BY <1>2, CaptureSucceeds
<1> QED BY <1>1, <1>3 DEF TeamStands

(* The version after c, with snapshot s.                                   *)
LEMMA NextVersion ==
  ASSUME NEW c, NEW s, Counted(c)
  PROVE  [c EXCEPT !.version = @ + 1, !.snapshot = s]
         = [status |-> c.status, version |-> c.version + 1,
            snapshot |-> s, finalizedAt |-> c.finalizedAt]
<1>1. PICK a, b, d, e : c = [status |-> a, version |-> b, snapshot |-> d, finalizedAt |-> e]
  BY DEF Counted
<1>2. c.status = a /\ c.version = b /\ c.finalizedAt = e
  BY <1>1
<1>3. [c EXCEPT !.version = b + 1]
        = [status |-> a, version |-> b + 1, snapshot |-> d, finalizedAt |-> e]
  BY <1>1
<1>4. [c EXCEPT !.version = b + 1, !.snapshot = s]
        = [[c EXCEPT !.version = b + 1] EXCEPT !.snapshot = s]
  OBVIOUS
<1>5. [[status |-> a, version |-> b + 1, snapshot |-> d, finalizedAt |-> e] EXCEPT !.snapshot = s]
        = [status |-> a, version |-> b + 1, snapshot |-> s, finalizedAt |-> e]
  OBVIOUS
<1> QED BY <1>2, <1>3, <1>4, <1>5

(* A correction builds what a capture of the record as it stands would,    *)
(* and counts one more.                                                    *)
LEMMA CorrectionSucceeds ==
  ASSUME NEW old, Good(old), NEW src \in SourceRecord, NEW new, NEW s,
         s = Build(src, old.snapshot, old.status = "FINAL", old.finalizedAt),
         NEW t, t = [s EXCEPT !.corrections = @ + 1],
         new = [status |-> old.status, version |-> old.version + 1, snapshot |-> t,
                finalizedAt |-> old.finalizedAt]
  PROVE  Succeeds(old, new) /\ TeamStands(old, new)
<1>1. /\ IsSnapshot(old.snapshot) /\ Clean(old.snapshot) /\ old.version \in Nat
      /\ old.status \in {"NONE", "ACTIVE", "FINAL"} /\ old.finalizedAt \in Nat /\ Counted(old)
  BY DEF Good, IsRecord
<1>2. IsSnapshot(s) /\ Grows(old.snapshot, s)
  BY <1>1, BuildTyped, BuildGrows
<1>3. /\ DOMAIN t = DOMAIN s
      /\ t.people = s.people /\ t.evidence = s.evidence /\ t.ended = s.ended /\ t.hidden = s.hidden
      /\ t.corrections = s.corrections + 1
  BY <1>2 DEF IsSnapshot
<1>4. IsSnapshot(t)
  BY <1>2, <1>3 DEF IsSnapshot
<1>5. Listed(t) = Listed(s) /\ Named(t) = Named(s) /\ HiddenIn(t) = HiddenIn(s) /\ TeamOf(t) = TeamOf(s)
  BY <1>3 DEF Listed, Named, HiddenIn, TeamOf
<1>6. Grows(old.snapshot, t)
  BY <1>2, <1>3, <1>5 DEF Grows, Clean
<1>7. /\ new.status = old.status /\ new.version = old.version + 1 /\ new.snapshot = t
      /\ new.finalizedAt = old.finalizedAt
      /\ DOMAIN new = {"status", "version", "snapshot", "finalizedAt"}
  OBVIOUS
<1>8. Good(new)
  <2>1. Counted(new)
    BY <1>1, <1>7 DEF Counted
  <2>2. IsRecord(new)
    BY <1>1, <1>4, <1>7 DEF IsRecord
  <2> QED BY <1>6, <1>7, <2>1, <2>2 DEF Good, Grows
<1>9. Succeeds(old, new)
  BY <1>6, <1>7, <1>8 DEF Succeeds
<1>10. TeamStands(old, new)
  <2> SUFFICES ASSUME old.status = "FINAL", Listed(old.snapshot) # {}
               PROVE  /\ TeamOf(t) = TeamOf(old.snapshot) /\ Listed(t) # {}
                      /\ t.hidden = old.snapshot.hidden
    BY <1>7 DEF TeamStands
  <2>1. s = Build(src, old.snapshot, TRUE, old.finalizedAt)
    OBVIOUS
  <2>2. /\ TeamOf(Build(src, old.snapshot, TRUE, old.finalizedAt)) = TeamOf(old.snapshot)
        /\ Listed(Build(src, old.snapshot, TRUE, old.finalizedAt)) # {}
    BY <1>1, BuildKeepsTeam
  <2> QED BY <1>5, <1>6, <2>1, <2>2 DEF Grows
<1> QED BY <1>9, <1>10

-----------------------------------------------------------------------------
(* log is the history of record c: every version, each with the hash of    *)
(* the one before it, and none names anybody whom the record hides.        *)
IsLog(log) ==
  \A v \in DOMAIN log : IsSnapshot(log[v].snapshot) /\ IsSnapshot(log[v].previous)

Chain(log, c) ==
  /\ DOMAIN log = 1 .. c.version
  /\ c.version > 0 => log[c.version].snapshot = c.snapshot
  /\ c.version = 0 => c.snapshot = Blank
  /\ \A v \in 1 .. c.version :
       log[v].previous = IF v = 1 THEN Blank ELSE log[v - 1].snapshot

Unnamed(log, c) ==
  \A v \in 1 .. c.version : Named(log[v].snapshot) \cap HiddenIn(c.snapshot) = {}

Book(log, c) == IsLog(log) /\ Chain(log, c) /\ Unnamed(log, c)

(* longer, the history of d, goes on from log, the history of c.           *)
Adds(log, c, longer, d) ==
  /\ c.version <= d.version
  /\ \A v \in 1 .. c.version : longer[v] = log[v]
  /\ d.snapshot.hidden = c.snapshot.hidden
  /\ \A v \in (c.version + 1) .. d.version :
       v > 1 => Named(longer[v - 1].snapshot) \subseteq Named(longer[v].snapshot)

(* The version that follows is logged behind the ones before it.           *)
LEMMA LoggedIsBook ==
  ASSUME NEW log, NEW old, NEW new, Good(old), Book(log, old), Succeeds(old, new)
  PROVE  /\ Book(Logged(log, old, new), new)
         /\ Adds(log, old, Logged(log, old, new), new)
<1>1. CASE new = old
  <2>1. Logged(log, old, new) = log
    BY <1>1 DEF Logged
  <2>2. old.version \in Nat
    BY DEF Good, Counted
  <2> QED BY <1>1, <2>1, <2>2 DEF Adds
<1>2. CASE new # old
  <2> DEFINE longer == Logged(log, old, new)
  <2>1. /\ old.version \in Nat /\ new.version = old.version + 1
        /\ Grows(old.snapshot, new.snapshot) /\ Chain(log, old)
        /\ IsSnapshot(old.snapshot) /\ IsSnapshot(new.snapshot)
    BY <1>2 DEF Good, Counted, Succeeds, IsRecord, Book
  <2>2. longer = [v \in (1 .. old.version) \union {new.version} |->
                    IF v = new.version
                      THEN [snapshot |-> new.snapshot, previous |-> old.snapshot]
                      ELSE log[v]]
    BY <2>1 DEF Logged, Chain
  <2>3. DOMAIN longer = 1 .. new.version
    BY <2>1, <2>2
  <2>4. longer[new.version].snapshot = new.snapshot /\ longer[new.version].previous = old.snapshot
    BY <2>1, <2>2
  <2>5. \A v \in 1 .. old.version : longer[v] = log[v]
    BY <2>1, <2>2
  <2> HIDE DEF longer
  <2>6. ASSUME NEW v \in 1 .. new.version
        PROVE  longer[v].previous = IF v = 1 THEN Blank ELSE longer[v - 1].snapshot
    <3>1. CASE v = new.version /\ v = 1
      <4>1. old.version = 0
        <5>1. new.version = 1
          BY <3>1
        <5> QED BY <5>1, <2>1, SMT
      <4>2. old.snapshot = Blank
        BY <2>1, <4>1 DEF Chain
      <4> QED BY <3>1, <4>2, <2>4
    <3>2. CASE v = new.version /\ v # 1
      <4>1. v - 1 = old.version /\ old.version \in 1 .. old.version
        BY <3>2, <2>1
      <4> QED BY <4>1, <3>2, <2>1, <2>4, <2>5 DEF Chain
    <3>3. CASE v # new.version
      <4>1. v \in 1 .. old.version
        BY <3>3, <2>1
      <4>2. v # 1 => v - 1 \in 1 .. old.version
        BY <4>1, <2>1
      <4> QED BY <2>1, <4>1, <4>2, <2>5 DEF Chain
    <3> QED BY <3>1, <3>2, <3>3
  <2>7. Chain(longer, new)
    <3>1. new.version > 0 /\ new.version # 0
      BY <2>1
    <3> QED BY <2>3, <2>4, <2>6, <3>1 DEF Chain
  <2>8. \A v \in 1 .. new.version : v = new.version \/ v \in 1 .. old.version
    BY <2>1
  <2>9. IsLog(longer)
    BY <2>1, <2>3, <2>4, <2>5, <2>8 DEF IsLog, Book, Chain
  <2>10. HiddenIn(new.snapshot) = HiddenIn(old.snapshot)
    BY <2>1 DEF Grows, HiddenIn
  <2>11. Unnamed(longer, new)
    <3> SUFFICES ASSUME NEW v \in 1 .. new.version
                 PROVE  Named(longer[v].snapshot) \cap HiddenIn(new.snapshot) = {}
      BY DEF Unnamed
    <3>1. CASE v = new.version
      BY <2>1, <2>4, <3>1 DEF Grows, Clean
    <3>2. CASE v \in 1 .. old.version
      BY <2>5, <2>10, <3>2 DEF Book, Unnamed
    <3> QED BY <2>8, <3>1, <3>2
  <2>12. ASSUME NEW v \in (old.version + 1) .. new.version, v > 1
         PROVE  Named(longer[v - 1].snapshot) \subseteq Named(longer[v].snapshot)
    <3>1. v = new.version /\ v - 1 = old.version /\ old.version \in 1 .. old.version
      BY <2>1, <2>12
    <3>2. longer[v - 1].snapshot = old.snapshot
      BY <2>1, <2>5, <3>1 DEF Chain
    <3> QED BY <2>1, <2>4, <3>1, <3>2 DEF Grows
  <2>13. Adds(log, old, longer, new)
    BY <2>1, <2>5, <2>12 DEF Adds, Grows
  <2> QED BY <2>7, <2>9, <2>11, <2>13 DEF Book, longer
<1> QED BY <1>1, <1>2

(* Two versions in one transaction.                                        *)
LEMMA LoggedTwice ==
  ASSUME NEW log, NEW old, NEW first, NEW second, Good(old), Book(log, old),
         Succeeds(old, first), Succeeds(first, second)
  PROVE  /\ Book(Logged(Logged(log, old, first), first, second), second)
         /\ Adds(log, old, Logged(Logged(log, old, first), first, second), second)
         /\ second = old \/ second.version > old.version
<1> DEFINE longer == Logged(log, old, first)
           longest == Logged(longer, first, second)
<1>1. Good(first) /\ Good(second)
  BY DEF Succeeds
<1>2. Book(longer, first) /\ Adds(log, old, longer, first)
  BY LoggedIsBook
<1>3. Book(longest, second) /\ Adds(longer, first, longest, second)
  <2> HIDE DEF longer
  <2> QED BY <1>1, <1>2, LoggedIsBook
<1>4. old.version \in Nat /\ first.version \in Nat /\ second.version \in Nat
  BY <1>1 DEF Good, Counted
<1> HIDE DEF longer, longest
<1>5. Adds(log, old, longest, second)
  <2>1. old.version <= second.version
    BY <1>2, <1>3, <1>4 DEF Adds
  <2>2. \A v \in 1 .. old.version : v \in 1 .. first.version
    BY <1>2, <1>4 DEF Adds
  <2>3. \A v \in 1 .. old.version : longest[v] = log[v]
    BY <1>2, <1>3, <2>2 DEF Adds
  <2>4. ASSUME NEW v \in (old.version + 1) .. second.version, v > 1
        PROVE  Named(longest[v - 1].snapshot) \subseteq Named(longest[v].snapshot)
    <3>1. CASE v \in (first.version + 1) .. second.version
      BY <1>3, <2>4, <3>1 DEF Adds
    <3>2. CASE v \notin (first.version + 1) .. second.version
      <4>1. /\ v \in (old.version + 1) .. first.version /\ v \in 1 .. first.version
            /\ v - 1 \in 1 .. first.version
        BY <1>4, <2>4, <3>2
      <4>2. Named(longer[v - 1].snapshot) \subseteq Named(longer[v].snapshot)
        BY <1>2, <2>4, <4>1 DEF Adds
      <4>3. longest[v] = longer[v] /\ longest[v - 1] = longer[v - 1]
        BY <1>3, <4>1 DEF Adds
      <4> QED BY <4>2, <4>3
    <3> QED BY <3>1, <3>2
  <2> QED BY <1>2, <1>3, <2>1, <2>3, <2>4 DEF Adds
<1>6. second = old \/ second.version > old.version
  BY <1>4 DEF Succeeds
<1> QED BY <1>3, <1>5, <1>6 DEF longest, longer

-----------------------------------------------------------------------------
(* The invariant.  What a capture under way has read is the record, or an  *)
(* older version, and its snapshot was built from that.                    *)
BuiltFrom(c, snapshot) == \E src \in SourceRecord : snapshot = Captured(c, src, FALSE)

SeenIn(q) ==
  /\ Good(q.seen)
  /\ q.seen.version <= record[q.pair].version
  /\ q.seen.version = record[q.pair].version => q.seen = record[q.pair]
  /\ BuiltFrom(q.seen, q.snapshot)

SourcesOK ==
  /\ link \in [Projects -> Programs \union {NoProgram}]
  /\ team \in [Projects -> SUBSET Users]
  /\ submitted \in [Projects -> Submissions]
  /\ rejected \in [Projects -> SUBSET Items]
  /\ holders \in [Pairs -> SUBSET Users]
  /\ ended \subseteq Programs
  /\ acts \in Nat

Books ==
  /\ DOMAIN record = Pairs
  /\ DOMAIN events = Pairs
  /\ \A r \in Pairs : Good(record[r]) /\ Book(events[r], record[r])

RequestsOK ==
  /\ DOMAIN req = Slots
  /\ \A s \in Slots : IsRequest(req[s]) /\ (req[s].op = "capture" => SeenIn(req[s]))

Inv == SourcesOK /\ Books /\ RequestsOK

(* What a step does to the record of r and its history.                    *)
Recorded(r) ==
  /\ Good(record'[r])
  /\ Book(events'[r], record'[r])
  /\ Adds(events[r], record[r], events'[r], record'[r])
  /\ record'[r] = record[r] \/ record'[r].version > record[r].version
  /\ TeamStands(record[r], record'[r])

Records ==
  /\ DOMAIN record' = Pairs
  /\ DOMAIN events' = Pairs
  /\ \A r \in Pairs : Recorded(r)

(* A record that is left alone is a record as recorded.                    *)
LEMMA SameRecorded ==
  ASSUME Books, NEW r \in Pairs, record'[r] = record[r], events'[r] = events[r]
  PROVE  Recorded(r)
<1>1. Good(record[r]) /\ Book(events[r], record[r]) /\ record[r].version \in Nat
  BY DEF Books, Good, Counted
<1>2. Adds(events[r], record[r], events[r], record[r])
  BY <1>1 DEF Adds
<1>3. TeamStands(record[r], record[r])
  BY DEF TeamStands
<1> QED BY <1>1, <1>2, <1>3 DEF Recorded

(* Two captures in one transaction are recorded one after the other.       *)
LEMMA TwiceRecorded ==
  ASSUME Books, NEW r \in Pairs, NEW first, NEW second,
         Succeeds(record[r], first), Succeeds(first, second), TeamStands(record[r], second),
         record'[r] = second,
         events'[r] = Logged(Logged(events[r], record[r], first), first, second)
  PROVE  Recorded(r)
<1>1. Good(record[r]) /\ Book(events[r], record[r])
  BY DEF Books
<1>2. /\ Book(events'[r], second) /\ Adds(events[r], record[r], events'[r], second)
      /\ second = record[r] \/ second.version > record[r].version
  BY <1>1, LoggedTwice
<1>3. Good(second)
  BY DEF Succeeds
<1> QED BY <1>2, <1>3 DEF Recorded

(* A transaction that writes the records of pairs, once or twice.          *)
LEMMA BatchRecorded ==
  ASSUME Books, NEW pairs, NEW First, NEW Second,
         \A r \in Pairs : r \in pairs =>
           /\ Succeeds(record[r], First[r]) /\ Succeeds(First[r], Second[r])
           /\ TeamStands(record[r], Second[r]),
         record' = [r \in Pairs |-> IF r \in pairs THEN Second[r] ELSE record[r]],
         events' = [r \in Pairs |->
                      IF r \in pairs
                        THEN Logged(Logged(events[r], record[r], First[r]), First[r], Second[r])
                        ELSE events[r]]
  PROVE  Records
<1>1. ASSUME NEW r \in Pairs PROVE Recorded(r)
  <2>1. CASE r \in pairs
    <3>1. /\ Succeeds(record[r], First[r]) /\ Succeeds(First[r], Second[r])
          /\ TeamStands(record[r], Second[r])
      BY <2>1
    <3>2. record'[r] = Second[r]
      BY <2>1
    <3>3. events'[r] = Logged(Logged(events[r], record[r], First[r]), First[r], Second[r])
      BY <2>1
    <3> QED BY <3>1, <3>2, <3>3, TwiceRecorded
  <2>2. CASE r \notin pairs
    BY <2>2, SameRecorded
  <2> QED BY <2>1, <2>2
<1>2. DOMAIN record' = Pairs /\ DOMAIN events' = Pairs
  OBVIOUS
<1> QED BY <1>1, <1>2 DEF Records

(* Written once: logging a version again changes nothing.                  *)
LEMMA OnceRecorded ==
  ASSUME Books, NEW pairs, NEW New,
         \A r \in Pairs : Succeeds(record[r], New[r]) /\ TeamStands(record[r], New[r]),
         record' = [r \in Pairs |-> IF r \in pairs THEN New[r] ELSE record[r]],
         events' = [r \in Pairs |->
                      IF r \in pairs
                        THEN Logged(Logged(events[r], record[r], New[r]), New[r], New[r])
                        ELSE events[r]]
  PROVE  Records
<1>1. \A r \in Pairs : r \in pairs =>
        /\ Succeeds(record[r], New[r]) /\ Succeeds(New[r], New[r])
        /\ TeamStands(record[r], New[r])
  BY DEF Succeeds
<1> QED BY <1>1, BatchRecorded

(* A step that writes no record leaves all of them alone.                  *)
LEMMA QuietRecorded ==
  ASSUME Books, UNCHANGED <<record, events>>
  PROVE  Records
<1>1. \A r \in Pairs : Recorded(r)
  BY SameRecorded
<1> QED BY <1>1 DEF Records, Books

-----------------------------------------------------------------------------
(* What a capture reads is a source, whatever its handler overrides.       *)
LEMMA Overrides ==
  ASSUME NEW src \in SourceRecord, NEW b \in BOOLEAN, NEW S \in SUBSET Users
  PROVE  /\ [src EXCEPT !.linked = b] \in SourceRecord
         /\ [src EXCEPT !.ended = b] \in SourceRecord
         /\ [src EXCEPT !.team = @ \ S] \in SourceRecord
         /\ [src EXCEPT !.holders = @ \union S] \in SourceRecord
BY DEF SourceRecord

(* What a capture reads of the live rows.                                  *)
LEMMA SourceTyped ==
  ASSUME SourcesOK, NEW r \in Pairs
  PROVE  Source(r) \in SourceRecord
<1>1. r[2] \in Projects
  BY DEF Pairs
<1>2. /\ (link[r[2]] = r[1]) \in BOOLEAN /\ (r[1] \in ended) \in BOOLEAN
  OBVIOUS
<1>3. /\ team[r[2]] \in SUBSET Users /\ submitted[r[2]] \in Submissions
      /\ holders[r] \in SUBSET Users
  BY <1>1 DEF SourcesOK
<1> QED BY <1>2, <1>3 DEF Source, SourceRecord

(* A capture takes its snapshot from such a source.                        *)
LEMMA CaptureTakes ==
  ASSUME SourcesOK, NEW old, NEW src \in SourceRecord, NEW finalize \in BOOLEAN, NEW relink
  PROVE  Takes(old, Capture(old, src, finalize, relink), relink)
BY DEF Takes, Capture, SourcesOK

-----------------------------------------------------------------------------
(* A project enters its program: a final record is reopened.               *)
LEMMA LinkRecords ==
  ASSUME SourcesOK, Books, NEW s \in Slots, Link(s)
  PROVE  Records
<1> DEFINE new(x) == Capture(record[x], [Source(x) EXCEPT !.linked = TRUE], FALSE, TRUE)
<1>1. record' = [x \in Pairs |-> IF x \in {req[s].pair} THEN new(x) ELSE record[x]]
  BY DEF Link, Write, WriteTwice
<1>2. events' = [x \in Pairs |-> IF x \in {req[s].pair}
                   THEN Logged(Logged(events[x], record[x], new(x)), new(x), new(x))
                   ELSE events[x]]
  BY DEF Link, Write, WriteTwice
<1>3. ASSUME NEW x \in Pairs
      PROVE  Succeeds(record[x], new(x)) /\ TeamStands(record[x], new(x))
  <2>1. Good(record[x])
    BY DEF Books
  <2>2. [Source(x) EXCEPT !.linked = TRUE] \in SourceRecord
    BY SourceTyped, Overrides
  <2>3. Takes(record[x], new(x), TRUE)
    BY <2>2, CaptureTakes
  <2> HIDE DEF new
  <2> QED BY <2>1, <2>3, CaptureSucceeds
<1> HIDE DEF new
<1> DEFINE New == [x \in Pairs |-> new(x)]
<1>4. record' = [x \in Pairs |-> IF x \in {req[s].pair} THEN New[x] ELSE record[x]]
  BY <1>1
<1>5. events' = [x \in Pairs |-> IF x \in {req[s].pair}
                   THEN Logged(Logged(events[x], record[x], New[x]), New[x], New[x])
                   ELSE events[x]]
  BY <1>2
<1>6. \A x \in Pairs : Succeeds(record[x], New[x]) /\ TeamStands(record[x], New[x])
  BY <1>3
<1> HIDE DEF New
<1> QED BY <1>4, <1>5, <1>6, OnceRecorded

(* A project moves from one program to another.                            *)
LEMMA MoveRecords ==
  ASSUME SourcesOK, Books, NEW s \in Slots, Move(s)
  PROVE  Records
<1> DEFINE out == req[s].pair
           in == <<req[s].to, out[2]>>
           new(x) == IF x = out THEN Capture(record[x], Source(x), TRUE, FALSE)
                     ELSE Capture(record[x], [Source(x) EXCEPT !.linked = TRUE], FALSE, TRUE)
<1>1. record' = [x \in Pairs |-> IF x \in {out, in} THEN new(x) ELSE record[x]]
  BY DEF Move, Write, WriteTwice
<1>2. events' = [x \in Pairs |-> IF x \in {out, in}
                   THEN Logged(Logged(events[x], record[x], new(x)), new(x), new(x))
                   ELSE events[x]]
  BY DEF Move, Write, WriteTwice
<1>3. ASSUME NEW x \in Pairs
      PROVE  Succeeds(record[x], new(x)) /\ TeamStands(record[x], new(x))
  <2>1. Good(record[x])
    BY DEF Books
  <2>2. Source(x) \in SourceRecord /\ [Source(x) EXCEPT !.linked = TRUE] \in SourceRecord
    BY SourceTyped, Overrides
  <2>3. /\ Takes(record[x], Capture(record[x], Source(x), TRUE, FALSE), FALSE)
        /\ Takes(record[x], Capture(record[x], [Source(x) EXCEPT !.linked = TRUE], FALSE, TRUE), TRUE)
    BY <2>2, CaptureTakes
  <2>4. Takes(record[x], new(x), FALSE) \/ Takes(record[x], new(x), TRUE)
    BY <2>3
  <2> HIDE DEF new
  <2> QED BY <2>1, <2>4, CaptureSucceeds
<1> HIDE DEF new
<1> DEFINE New == [x \in Pairs |-> new(x)]
<1>4. record' = [x \in Pairs |-> IF x \in {out, in} THEN New[x] ELSE record[x]]
  BY <1>1
<1>5. events' = [x \in Pairs |-> IF x \in {out, in}
                   THEN Logged(Logged(events[x], record[x], New[x]), New[x], New[x])
                   ELSE events[x]]
  BY <1>2
<1>6. \A x \in Pairs : Succeeds(record[x], New[x]) /\ TeamStands(record[x], New[x])
  BY <1>3
<1> HIDE DEF New
<1> QED BY <1>4, <1>5, <1>6, OnceRecorded

(* A program ends: what is open is finalized.                              *)
LEMMA EndProgramRecords ==
  ASSUME SourcesOK, Books, NEW s \in Slots, EndProgram(s)
  PROVE  Records
<1> DEFINE pairs == {req[s].program} \X req[s].projects
           new(x) == Capture(record[x], [Source(x) EXCEPT !.ended = TRUE], TRUE, FALSE)
<1>1. record' = [x \in Pairs |-> IF x \in pairs THEN new(x) ELSE record[x]]
  BY DEF EndProgram, Write, WriteTwice
<1>2. events' = [x \in Pairs |-> IF x \in pairs
                   THEN Logged(Logged(events[x], record[x], new(x)), new(x), new(x))
                   ELSE events[x]]
  BY DEF EndProgram, Write, WriteTwice
<1>3. ASSUME NEW x \in Pairs
      PROVE  Succeeds(record[x], new(x)) /\ TeamStands(record[x], new(x))
  <2>1. Good(record[x])
    BY DEF Books
  <2>2. [Source(x) EXCEPT !.ended = TRUE] \in SourceRecord
    BY SourceTyped, Overrides
  <2>3. Takes(record[x], new(x), FALSE)
    BY <2>2, CaptureTakes
  <2> HIDE DEF new
  <2> QED BY <2>1, <2>3, CaptureSucceeds
<1> HIDE DEF new
<1> DEFINE New == [x \in Pairs |-> new(x)]
<1>4. record' = [x \in Pairs |-> IF x \in pairs THEN New[x] ELSE record[x]]
  BY <1>1
<1>5. events' = [x \in Pairs |-> IF x \in pairs
                   THEN Logged(Logged(events[x], record[x], New[x]), New[x], New[x])
                   ELSE events[x]]
  BY <1>2
<1>6. \A x \in Pairs : Succeeds(record[x], New[x]) /\ TeamStands(record[x], New[x])
  BY <1>3
<1> HIDE DEF New, pairs
<1> QED BY <1>4, <1>5, <1>6, OnceRecorded

(* A program goes on after it had ended: its records are reopened.         *)
LEMMA ResumeProgramRecords ==
  ASSUME SourcesOK, Books, NEW s \in Slots, ResumeProgram(s)
  PROVE  Records
<1> DEFINE pairs == {req[s].program} \X req[s].projects
           new(x) == Capture(record[x], [Source(x) EXCEPT !.ended = FALSE], FALSE, TRUE)
<1>1. record' = [x \in Pairs |-> IF x \in pairs THEN new(x) ELSE record[x]]
  BY DEF ResumeProgram, Write, WriteTwice
<1>2. events' = [x \in Pairs |-> IF x \in pairs
                   THEN Logged(Logged(events[x], record[x], new(x)), new(x), new(x))
                   ELSE events[x]]
  BY DEF ResumeProgram, Write, WriteTwice
<1>3. ASSUME NEW x \in Pairs
      PROVE  Succeeds(record[x], new(x)) /\ TeamStands(record[x], new(x))
  <2>1. Good(record[x])
    BY DEF Books
  <2>2. [Source(x) EXCEPT !.ended = FALSE] \in SourceRecord
    BY SourceTyped, Overrides
  <2>3. Takes(record[x], new(x), TRUE)
    BY <2>2, CaptureTakes
  <2> HIDE DEF new
  <2> QED BY <2>1, <2>3, CaptureSucceeds
<1> HIDE DEF new
<1> DEFINE New == [x \in Pairs |-> new(x)]
<1>4. record' = [x \in Pairs |-> IF x \in pairs THEN New[x] ELSE record[x]]
  BY <1>1
<1>5. events' = [x \in Pairs |-> IF x \in pairs
                   THEN Logged(Logged(events[x], record[x], New[x]), New[x], New[x])
                   ELSE events[x]]
  BY <1>2
<1>6. \A x \in Pairs : Succeeds(record[x], New[x]) /\ TeamStands(record[x], New[x])
  BY <1>3
<1> HIDE DEF New, pairs
<1> QED BY <1>4, <1>5, <1>6, OnceRecorded

(* A project is taken out of its program: captured, then finalized.        *)
LEMMA RemoveRecords ==
  ASSUME SourcesOK, Books, NEW s \in Slots, Remove(s)
  PROVE  Records
<1> DEFINE first(x) == Capture(record[x], Source(x), FALSE, FALSE)
           second(x) == Capture(first(x), [Source(x) EXCEPT !.linked = FALSE], TRUE, FALSE)
<1>1. record' = [x \in Pairs |-> IF x \in {req[s].pair} THEN second(x) ELSE record[x]]
  BY DEF Remove, WriteTwice
<1>2. events' = [x \in Pairs |-> IF x \in {req[s].pair}
                   THEN Logged(Logged(events[x], record[x], first(x)), first(x), second(x))
                   ELSE events[x]]
  BY DEF Remove, WriteTwice
<1>3. ASSUME NEW x \in Pairs
      PROVE  /\ Succeeds(record[x], first(x)) /\ Succeeds(first(x), second(x))
             /\ TeamStands(record[x], second(x))
  <2>1. Good(record[x])
    BY DEF Books
  <2>2. Source(x) \in SourceRecord /\ [Source(x) EXCEPT !.linked = FALSE] \in SourceRecord
    BY SourceTyped, Overrides
  <2>3. Takes(record[x], first(x), FALSE) /\ Takes(first(x), second(x), FALSE)
    BY <2>2, CaptureTakes
  <2> HIDE DEF first, second
  <2> QED BY <2>1, <2>3, CapturesSucceed
<1> HIDE DEF first, second
<1> DEFINE First == [x \in Pairs |-> first(x)]
           Second == [x \in Pairs |-> second(x)]
<1>4. record' = [x \in Pairs |-> IF x \in {req[s].pair} THEN Second[x] ELSE record[x]]
  BY <1>1
<1>5. events' = [x \in Pairs |-> IF x \in {req[s].pair}
                   THEN Logged(Logged(events[x], record[x], First[x]), First[x], Second[x])
                   ELSE events[x]]
  BY <1>2
<1>6. \A x \in Pairs : x \in {req[s].pair} =>
        /\ Succeeds(record[x], First[x]) /\ Succeeds(First[x], Second[x])
        /\ TeamStands(record[x], Second[x])
  BY <1>3
<1> HIDE DEF First, Second
<1> QED BY <1>4, <1>5, <1>6, BatchRecorded

(* A participant leaves the program and every team in it.                  *)
LEMMA RemoveParticipantRecords ==
  ASSUME SourcesOK, Books, NEW p \in Programs, NEW u \in Users, RemoveParticipant(p, u)
  PROVE  Records
<1> DEFINE teams == {j \in Projects : link[j] = p /\ u \in team[j]}
           pairs == {p} \X teams
           first(x) == Capture(record[x], Source(x), FALSE, FALSE)
           second(x) == Capture(first(x), [Source(x) EXCEPT !.team = @ \ {u}], FALSE, FALSE)
<1>1. record' = [x \in Pairs |-> IF x \in pairs THEN second(x) ELSE record[x]]
  BY DEF RemoveParticipant, WriteTwice
<1>2. events' = [x \in Pairs |-> IF x \in pairs
                   THEN Logged(Logged(events[x], record[x], first(x)), first(x), second(x))
                   ELSE events[x]]
  BY DEF RemoveParticipant, WriteTwice
<1>3. ASSUME NEW x \in Pairs
      PROVE  /\ Succeeds(record[x], first(x)) /\ Succeeds(first(x), second(x))
             /\ TeamStands(record[x], second(x))
  <2>1. Good(record[x])
    BY DEF Books
  <2>2. Source(x) \in SourceRecord /\ [Source(x) EXCEPT !.team = @ \ {u}] \in SourceRecord
    <3>1. Source(x) \in SourceRecord /\ {u} \in SUBSET Users
      BY SourceTyped
    <3> QED BY <3>1, Overrides
  <2>3. Takes(record[x], first(x), FALSE) /\ Takes(first(x), second(x), FALSE)
    BY <2>2, CaptureTakes
  <2> HIDE DEF first, second
  <2> QED BY <2>1, <2>3, CapturesSucceed
<1> HIDE DEF first, second
<1> DEFINE First == [x \in Pairs |-> first(x)]
           Second == [x \in Pairs |-> second(x)]
<1>4. record' = [x \in Pairs |-> IF x \in pairs THEN Second[x] ELSE record[x]]
  BY <1>1
<1>5. events' = [x \in Pairs |-> IF x \in pairs
                   THEN Logged(Logged(events[x], record[x], First[x]), First[x], Second[x])
                   ELSE events[x]]
  BY <1>2
<1>6. \A x \in Pairs : x \in pairs =>
        /\ Succeeds(record[x], First[x]) /\ Succeeds(First[x], Second[x])
        /\ TeamStands(record[x], Second[x])
  BY <1>3
<1> HIDE DEF pairs, First, Second
<1> QED BY <1>4, <1>5, <1>6, BatchRecorded

(* A correction adds one version.                                          *)
LEMMA CorrectRecords ==
  ASSUME SourcesOK, Books, NEW r \in Pairs, Correct(r)
  PROVE  Records
<1> DEFINE fixed(x) == [Fresh(x) EXCEPT !.corrections = @ + 1]
           new(x) == [record[x] EXCEPT !.version = @ + 1, !.snapshot = fixed(x)]
<1>1. record' = [x \in Pairs |-> IF x \in {r} THEN new(x) ELSE record[x]]
  BY DEF Correct, Write, WriteTwice
<1>2. events' = [x \in Pairs |-> IF x \in {r}
                   THEN Logged(Logged(events[x], record[x], new(x)), new(x), new(x))
                   ELSE events[x]]
  BY DEF Correct, Write, WriteTwice
<1>3. ASSUME NEW x \in Pairs
      PROVE  Succeeds(record[x], new(x)) /\ TeamStands(record[x], new(x))
  <2>1. Good(record[x]) /\ Counted(record[x])
    BY DEF Books, Good
  <2>2. Source(x) \in SourceRecord
    BY SourceTyped
  <2>3. Fresh(x) = Build(Source(x), record[x].snapshot, record[x].status = "FINAL",
                         record[x].finalizedAt)
    BY DEF Fresh
  <2> HIDE DEF fixed
  <2>4. new(x) = [status |-> record[x].status, version |-> record[x].version + 1,
                  snapshot |-> fixed(x), finalizedAt |-> record[x].finalizedAt]
    BY <2>1, NextVersion
  <2>5. fixed(x) = [Fresh(x) EXCEPT !.corrections = @ + 1]
    BY DEF fixed
  <2> HIDE DEF new
  <2> QED BY <2>1, <2>2, <2>3, <2>4, <2>5, CorrectionSucceeds
<1> HIDE DEF new
<1> DEFINE New == [x \in Pairs |-> new(x)]
<1>4. record' = [x \in Pairs |-> IF x \in {r} THEN New[x] ELSE record[x]]
  BY <1>1
<1>5. events' = [x \in Pairs |-> IF x \in {r}
                   THEN Logged(Logged(events[x], record[x], New[x]), New[x], New[x])
                   ELSE events[x]]
  BY <1>2
<1>6. \A x \in Pairs : Succeeds(record[x], New[x]) /\ TeamStands(record[x], New[x])
  BY <1>3
<1> HIDE DEF New
<1> QED BY <1>4, <1>5, <1>6, OnceRecorded

(* A capture that writes found no version after the one it had read, so    *)
(* what it read is still the record.                                       *)
LEMMA CaptureWriteRecords ==
  ASSUME Inv, NEW s \in Slots, CaptureWrite(s)
  PROVE  Records
<1> DEFINE c == req[s]
           new == Written(c.seen, c.snapshot, c.finalize, FALSE, c.at)
<1>1. /\ c.op = "capture" /\ SeenIn(c) /\ IsRequest(c)
  BY DEF CaptureWrite, Serving, Inv, RequestsOK
<1>2. c.pair \in Pairs /\ c.finalize \in BOOLEAN /\ c.at \in Nat
  BY <1>1 DEF IsRequest
<1>3. CASE new = c.seen
  <2>1. UNCHANGED <<record, events>>
    BY <1>3 DEF CaptureWrite
  <2> QED BY <2>1, QuietRecorded DEF Inv
<1>4. CASE new # c.seen
  <2>1. /\ FreeVersion(c.pair, new.version)
        /\ record' = [record EXCEPT ![c.pair] = new]
        /\ events' = [events EXCEPT ![c.pair] = Logged(@, c.seen, new)]
    BY <1>4 DEF CaptureWrite
  <2>2. /\ Good(c.seen) /\ Good(record[c.pair]) /\ Book(events[c.pair], record[c.pair])
        /\ DOMAIN record = Pairs /\ DOMAIN events = Pairs
    BY <1>1, <1>2 DEF SeenIn, Inv, Books
  <2>3. Takes(c.seen, new, FALSE)
    BY <1>1, <1>2 DEF SeenIn, BuiltFrom, Takes
  <2> HIDE DEF new, c
  <2>4. Succeeds(c.seen, new) /\ TeamStands(c.seen, new)
    BY <2>2, <2>3, CaptureSucceeds
  <2>5. new.version = c.seen.version + 1
    BY <1>4, <2>4 DEF Succeeds
  <2>6. c.seen = record[c.pair]
    <3>1. new.version \notin 1 .. record[c.pair].version
      BY <2>1, <2>2 DEF FreeVersion, Book, Chain
    <3>2. c.seen.version \in Nat /\ record[c.pair].version \in Nat
      BY <2>2 DEF Good, Counted
    <3> QED BY <1>1, <2>5, <3>1, <3>2 DEF SeenIn
  <2>7. Logged(Logged(events[c.pair], c.seen, new), new, new)
          = Logged(events[c.pair], c.seen, new)
    BY DEF Logged
  <2>8. ASSUME NEW r \in Pairs PROVE Recorded(r)
    <3>1. CASE r = c.pair
      <4>1. Succeeds(record[r], new) /\ Succeeds(new, new) /\ TeamStands(record[r], new)
        BY <2>4, <2>6, <3>1 DEF Succeeds
      <4>2. record'[r] = new
        BY <2>1, <2>2, <3>1
      <4>3. events'[r] = Logged(Logged(events[r], record[r], new), new, new)
        BY <2>1, <2>2, <2>6, <2>7, <3>1
      <4> QED BY <4>1, <4>2, <4>3, TwiceRecorded DEF Inv
    <3>2. CASE r # c.pair
      <4>1. record'[r] = record[r] /\ events'[r] = events[r]
        BY <2>1, <2>2, <3>2
      <4> QED BY <4>1, SameRecorded DEF Inv
    <3> QED BY <3>1, <3>2
  <2>9. DOMAIN record' = Pairs /\ DOMAIN events' = Pairs
    BY <2>1, <2>2
  <2> QED BY <2>8, <2>9 DEF Records
<1> QED BY <1>3, <1>4

-----------------------------------------------------------------------------
(* A redaction: one more person is hidden.                                 *)
LEMMA Appended ==
  ASSUME NEW h \in Seq(Users), NEW u \in Users, NEW hidden, hidden = Append(h, u)
  PROVE  /\ hidden \in Seq(Users)
         /\ Len(h) \in Nat /\ Len(hidden) = Len(h) + 1
         /\ hidden[Len(h) + 1] = u
         /\ \A n \in 1 .. Len(h) : hidden[n] = h[n]
         /\ Out(hidden) = Out(h) \union {u}
<1>1. /\ hidden \in Seq(Users)
      /\ Len(h) \in Nat /\ Len(hidden) = Len(h) + 1
      /\ hidden[Len(h) + 1] = u
      /\ \A n \in 1 .. Len(h) : hidden[n] = h[n]
  OBVIOUS
<1>2. 1 .. Len(hidden) = (1 .. Len(h)) \union {Len(h) + 1}
  BY <1>1
<1>3. Out(hidden) = Out(h) \union {u}
  BY <1>1, <1>2 DEF Out
<1> QED BY <1>1, <1>3

(* What a snapshot names and lists once people are hidden in it.           *)
LEMMA HideTyped ==
  ASSUME NEW s, IsSnapshot(s), NEW hidden \in Seq(Users), NEW t, t = Hide(s, hidden)
  PROVE  /\ IsSnapshot(t)
         /\ t.people = Redacted(s.people, hidden) /\ t.hidden = hidden
         /\ Named(t) = Named(s) \ Out(hidden)
         /\ Listed(t) \cap Nat = (Listed(s) \cap Nat) \union Nth(s.people, hidden)
<1> DEFINE shown == Redacted(s.people, hidden)
<1>1. IsPeople(s.people)
  BY DEF IsSnapshot, IsPeople
<1>2. IsPeople(shown)
  BY <1>1, RedactedTyped
<1>3. /\ DOMAIN shown \cap Users = (DOMAIN s.people \cap Users) \ Out(hidden)
      /\ DOMAIN shown \cap Nat = (DOMAIN s.people \cap Nat) \union Nth(s.people, hidden)
  BY <1>1, RedactedLists
<1>4. t = [s EXCEPT !.people = shown, !.hidden = hidden]
  BY DEF Hide
<1> HIDE DEF shown
<1>5. DOMAIN s = {"people", "evidence", "corrections", "ended", "hidden"}
  BY DEF IsSnapshot
<1>6. /\ DOMAIN t = DOMAIN s
      /\ t.people = shown /\ t.hidden = hidden
      /\ t.evidence = s.evidence /\ t.corrections = s.corrections /\ t.ended = s.ended
  BY <1>4, <1>5
<1>7. IsSnapshot(t)
  BY <1>2, <1>6 DEF IsSnapshot, IsPeople
<1>8. Listed(t) = DOMAIN shown
  BY <1>6 DEF Listed
<1> QED BY <1>3, <1>6, <1>7, <1>8 DEF Named, Listed, shown

(* In after u is n, on the team or off it as in before.                    *)
Replaced(before, after, u, n) ==
  /\ n \notin TeamOf(before) \union Users
  /\ TeamOf(after) = IF u \in TeamOf(before) THEN (TeamOf(before) \ {u}) \union {n}
                     ELSE TeamOf(before)

(* Whoever is redacted becomes the next pseudonym, if a row lists them.    *)
LEMMA RedactionHides ==
  ASSUME NEW s, IsSnapshot(s), Clean(s), NEW u \in Users,
         NEW hidden, hidden = Append(s.hidden, u), NEW t, t = Hide(s, hidden)
  PROVE  /\ IsSnapshot(t) /\ Clean(t)
         /\ HiddenIn(t) = HiddenIn(s) \union {u}
         /\ Replaced(s, t, u, Len(s.hidden) + 1)
<1> DEFINE N == Len(s.hidden) + 1
           shown == Redacted(s.people, hidden)
           nth == Nth(s.people, hidden)
<1>1. IsPeople(s.people) /\ s.hidden \in Seq(Users)
  BY DEF IsSnapshot, IsPeople
<1>2. /\ hidden \in Seq(Users) /\ Len(s.hidden) \in Nat /\ Len(hidden) = N /\ hidden[N] = u
      /\ \A n \in 1 .. Len(s.hidden) : hidden[n] = s.hidden[n]
      /\ Out(hidden) = Out(s.hidden) \union {u}
  <2>1. s.hidden \in Seq(Users) /\ u \in Users
    BY <1>1
  <2>2. hidden \in Seq(Users)
    BY <2>1, Appended
  <2>3. Len(s.hidden) \in Nat /\ Len(hidden) = Len(s.hidden) + 1
    BY <2>1, Appended
  <2>4. hidden[Len(s.hidden) + 1] = u
    BY <2>1, Appended
  <2>5. \A n \in 1 .. Len(s.hidden) : hidden[n] = s.hidden[n]
    BY <2>1, Appended
  <2>6. Out(hidden) = Out(s.hidden) \union {u}
    BY <2>1, Appended
  <2> QED BY <2>2, <2>3, <2>4, <2>5, <2>6
<1>3. /\ IsSnapshot(t) /\ t.people = shown /\ t.hidden = hidden
      /\ Named(t) = Named(s) \ Out(hidden)
      /\ Listed(t) \cap Nat = (Listed(s) \cap Nat) \union nth
  <2>1. hidden \in Seq(Users)
    BY <1>2
  <2>2. IsSnapshot(t)
    BY <2>1, HideTyped
  <2>3. t.people = Redacted(s.people, hidden)
    BY DEF Hide, IsSnapshot
  <2>4. t.hidden = hidden
    BY <2>1, HideTyped
  <2>5. Named(t) = Named(s) \ Out(hidden)
    BY <2>1, HideTyped
  <2>6. Listed(t) \cap Nat = (Listed(s) \cap Nat) \union Nth(s.people, hidden)
    BY <2>1, HideTyped
  <2> QED BY <2>2, <2>3, <2>4, <2>5, <2>6
<1>4. Out(s.hidden) = HiddenIn(s) /\ Out(hidden) = HiddenIn(t)
  BY <1>3 DEF Out, HiddenIn
<1>5. nth = IF u \in DOMAIN s.people THEN {N} ELSE {}
  <2>1. u \in DOMAIN s.people => N \in nth
    BY <1>1, <1>2 DEF Nth
  <2>2. ASSUME NEW n \in nth PROVE n = N /\ u \in DOMAIN s.people
    <3>1. n \in 1 .. N /\ hidden[n] \in DOMAIN s.people
      BY <1>2 DEF Nth
    <3>2. CASE n \in 1 .. Len(s.hidden)
      <4>1. s.hidden[n] \in HiddenIn(s) /\ s.hidden[n] \in Named(s)
        BY <1>1, <1>2, <3>1, <3>2 DEF HiddenIn, Named, Listed
      <4> QED BY <4>1 DEF Clean
    <3>3. CASE n \notin 1 .. Len(s.hidden)
      BY <1>2, <3>1, <3>3
    <3> QED BY <3>2, <3>3
  <2> QED BY <2>1, <2>2
<1>6. N \notin DOMAIN s.people /\ N \notin Users
  BY <1>2, PeopleAssumption DEF Clean, Listed
<1>7. Clean(t)
  <2>1. Named(t) \cap HiddenIn(t) = {}
    BY <1>3, <1>4
  <2>2. Listed(t) \cap Nat \subseteq 1 .. Len(t.hidden)
    BY <1>2, <1>3, <1>5 DEF Clean
  <2> QED BY <2>1, <2>2 DEF Clean
<1>8. /\ DOMAIN shown = (DOMAIN s.people \ Out(hidden)) \union nth
      /\ \A id \in DOMAIN shown :
           shown[id].on = RowsOf(s.people, id).on
                          + (IF id \in nth THEN s.people[hidden[id]].on ELSE 0)
  <2>1. hidden \in Seq(Users) /\ IsPeople(s.people)
    BY <1>1, <1>2
  <2>2. DOMAIN Redacted(s.people, hidden) = (DOMAIN s.people \ Out(hidden)) \union Nth(s.people, hidden)
    BY <2>1, RedactedLists
  <2>3. \A id \in DOMAIN Redacted(s.people, hidden) :
          Redacted(s.people, hidden)[id].on
            = RowsOf(s.people, id).on
              + (IF id \in Nth(s.people, hidden) THEN s.people[hidden[id]].on ELSE 0)
    BY <2>1, RedactedLists
  <2> QED BY <2>2, <2>3
<1> HIDE DEF shown, nth
<1>9. DOMAIN shown = (DOMAIN s.people \ {u}) \union nth
  <2>1. DOMAIN s.people \cap Out(s.hidden) = {}
    <3>1. Out(s.hidden) \subseteq Users
      BY <1>1 DEF Out
    <3> QED BY <1>4, <3>1 DEF Clean, Named, Listed
  <2> QED BY <1>2, <1>5, <1>8, <2>1
<1>10. u \in DOMAIN s.people => N \in nth /\ shown[N].on = s.people[u].on
  <2> SUFFICES ASSUME u \in DOMAIN s.people
               PROVE  N \in nth /\ shown[N].on = s.people[u].on
    OBVIOUS
  <2>1. shown[N].on = RowsOf(s.people, N).on + s.people[u].on
    BY <1>2, <1>5, <1>8
  <2>2. RowsOf(s.people, N).on = 0
    BY <1>6 DEF RowsOf
  <2>3. s.people[u].on \in Nat
    BY <1>1 DEF IsPeople, Counts
  <2> QED BY <1>5, <2>1, <2>2, <2>3
<1>11. ASSUME NEW id \in DOMAIN s.people \ {u} PROVE shown[id].on = s.people[id].on
  <2>1. id # N /\ id \in DOMAIN shown
    BY <1>6, <1>9
  <2>2. shown[id].on = s.people[id].on + 0
    BY <1>5, <1>8, <2>1 DEF RowsOf
  <2>3. s.people[id].on \in Nat
    BY <1>1 DEF IsPeople, Counts
  <2> QED BY <2>2, <2>3
<1>12. /\ TeamOf(s) = {id \in DOMAIN s.people : s.people[id].on > 0}
       /\ TeamOf(t) = {id \in (DOMAIN s.people \ {u}) \union nth : shown[id].on > 0}
  BY <1>3, <1>9 DEF TeamOf, Listed
<1>13. TeamOf(t) = IF u \in TeamOf(s) THEN (TeamOf(s) \ {u}) \union {N} ELSE TeamOf(s)
  <2> HIDE DEF N
  <2>1. CASE u \in DOMAIN s.people
    BY <1>5, <1>6, <1>10, <1>11, <1>12, <2>1
  <2>2. CASE u \notin DOMAIN s.people
    BY <1>5, <1>6, <1>11, <1>12, <2>2
  <2> QED BY <2>1, <2>2
<1>14. N \notin TeamOf(s)
  BY <1>6, <1>12
<1> QED BY <1>2, <1>3, <1>4, <1>6, <1>7, <1>13, <1>14 DEF Replaced

(* A record that is not there yet is a good start.                         *)
LEMMA BlankTyped == IsSnapshot(Blank) /\ Clean(Blank) /\ Good(Missing)
<1>1. IsPeople(NoRows) /\ DOMAIN NoRows = {}
  BY DEF IsPeople, NoRows
<1>2. IsSnapshot(Blank)
  BY <1>1 DEF IsSnapshot, IsPeople, Blank
<1>3. Clean(Blank)
  BY <1>1 DEF Clean, Named, Listed, HiddenIn, Blank
<1>4. Good(Missing)
  BY <1>2, <1>3 DEF Good, IsRecord, Counted, Missing
<1> QED BY <1>2, <1>3, <1>4

(* past is log with the people of hidden taken out of every snapshot, and  *)
(* every previous hash computed anew.                                      *)
Rehashed(past, page, log, hidden) ==
  /\ DOMAIN page = DOMAIN log
  /\ \A v \in DOMAIN log : page[v] = Hide(log[v].snapshot, hidden)
  /\ DOMAIN past = DOMAIN log
  /\ \A v \in DOMAIN log :
       past[v].snapshot = page[v] /\ past[v].previous = IF v = 1 THEN Blank ELSE page[v - 1]

(* past names who log named, but for u.                                    *)
Without(past, log, last, u) ==
  \A v \in 1 .. last : Named(past[v].snapshot) = Named(log[v].snapshot) \ {u}

(* It is the history of the record without the one person more that is     *)
(* hidden.                                                                 *)
LEMMA HiddenIsBook ==
  ASSUME NEW log, NEW old, NEW u, NEW hidden \in Seq(Users), NEW page, NEW past, NEW clean,
         Book(log, old), old.version \in Nat, old.version > 0,
         Out(hidden) = HiddenIn(old.snapshot) \union {u},
         HiddenIn(clean.snapshot) = Out(hidden),
         Rehashed(past, page, log, hidden),
         clean.version = old.version, clean.snapshot = Hide(old.snapshot, hidden)
  PROVE  /\ Book(past, clean)
         /\ Without(past, log, old.version, u)
<1>1. /\ Chain(log, old) /\ IsLog(log) /\ Unnamed(log, old)
      /\ DOMAIN log = 1 .. old.version
      /\ DOMAIN page = 1 .. old.version /\ DOMAIN past = 1 .. old.version
      /\ \A v \in 1 .. old.version :
           /\ page[v] = Hide(log[v].snapshot, hidden)
           /\ past[v].snapshot = page[v]
           /\ past[v].previous = IF v = 1 THEN Blank ELSE page[v - 1]
  BY DEF Book, Chain, Rehashed
<1>2. \A v \in 1 .. old.version : past[v].snapshot = page[v]
  BY <1>1
<1>3. past[old.version].snapshot = clean.snapshot
  <2>1. old.version \in 1 .. old.version
    OBVIOUS
  <2>2. log[old.version].snapshot = old.snapshot
    BY <1>1 DEF Chain
  <2>3. page[old.version] = Hide(log[old.version].snapshot, hidden)
    BY <2>1, <1>1
  <2> QED BY <2>1, <2>2, <2>3, <1>2
<1>4. ASSUME NEW v \in 1 .. old.version
      PROVE  /\ IsSnapshot(page[v])
             /\ Named(page[v]) = Named(log[v].snapshot) \ {u}
  <2>1. IsSnapshot(log[v].snapshot) /\ Named(log[v].snapshot) \cap HiddenIn(old.snapshot) = {}
    BY <1>1 DEF IsLog, Unnamed
  <2>2. page[v] = Hide(log[v].snapshot, hidden)
    BY <1>1
  <2>3. IsSnapshot(page[v]) /\ Named(page[v]) = Named(log[v].snapshot) \ Out(hidden)
    BY <2>1, <2>2, HideTyped
  <2> QED BY <2>1, <2>3
<1>5. ASSUME NEW v \in 1 .. old.version
      PROVE  /\ past[v].previous = IF v = 1 THEN Blank ELSE past[v - 1].snapshot
             /\ IsSnapshot(past[v].previous)
  <2>1. past[v].previous = IF v = 1 THEN Blank ELSE page[v - 1]
    BY <1>1
  <2>2. v # 1 => v - 1 \in 1 .. old.version
    OBVIOUS
  <2>3. v # 1 => past[v - 1].snapshot = page[v - 1] /\ IsSnapshot(page[v - 1])
    BY <2>2, <1>2, <1>4
  <2> QED BY <2>1, <2>3, BlankTyped
<1>6. clean.version # 0
  OBVIOUS
<1>7. Chain(past, clean)
  BY <1>1, <1>3, <1>5, <1>6 DEF Chain
<1>8. IsLog(past)
  BY <1>1, <1>2, <1>4, <1>5 DEF IsLog
<1>9. Unnamed(past, clean)
  <2> SUFFICES ASSUME NEW v \in 1 .. old.version
               PROVE  Named(past[v].snapshot) \cap HiddenIn(clean.snapshot) = {}
    BY DEF Unnamed
  <2>1. Named(past[v].snapshot) = Named(log[v].snapshot) \ {u}
    BY <1>2, <1>4
  <2>2. Named(log[v].snapshot) \cap HiddenIn(old.snapshot) = {}
    BY <1>1 DEF Unnamed
  <2> QED BY <2>1, <2>2
<1> QED BY <1>2, <1>4, <1>7, <1>8, <1>9 DEF Book, Without

(* What a redaction of u does to the record of r and its history.          *)
Rewritten(r, u) ==
  /\ DOMAIN record' = Pairs /\ DOMAIN events' = Pairs
  /\ \A x \in Pairs \ {r} : record'[x] = record[x] /\ events'[x] = events[x]
  /\ Good(record'[r]) /\ Book(events'[r], record'[r])
  /\ u \notin HiddenIn(record[r].snapshot)
  /\ HiddenIn(record'[r].snapshot) = HiddenIn(record[r].snapshot) \union {u}
  /\ record[r].version > 0 /\ record'[r].version = record[r].version + 1
  /\ Without(events'[r], events[r], record[r].version, u)
  /\ Named(events'[r][record[r].version + 1].snapshot) = Named(record[r].snapshot) \ {u}
  /\ record'[r].finalizedAt = record[r].finalizedAt
  /\ \E n : Replaced(record[r].snapshot, record'[r].snapshot, u, n)

(* The handler rewrites all versions of one record so that none names      *)
(* the person.                                                             *)
LEMMA RedactRewrites ==
  ASSUME Books, NEW r \in Pairs, NEW u \in Users, Redact(r, u)
  PROVE  Rewritten(r, u)
<1> DEFINE old == record[r]
           hidden == Append(old.snapshot.hidden, u)
           hide == Hide(old.snapshot, hidden)
           page == [v \in DOMAIN events[r] |-> Hide(events[r][v].snapshot, hidden)]
           past == [v \in DOMAIN page |->
                      [snapshot |-> page[v], previous |-> IF v = 1 THEN Blank ELSE page[v - 1]]]
           clean == [old EXCEPT !.snapshot = hide]
           new == [clean EXCEPT !.version = @ + 1]
<1>1. /\ Good(old) /\ Counted(old) /\ Book(events[r], old) /\ Chain(events[r], old)
      /\ old.version \in Nat /\ IsRecord(old) /\ IsSnapshot(old.snapshot) /\ Clean(old.snapshot)
      /\ old.snapshot.hidden \in Seq(Users)
  BY DEF Books, Good, Counted, Book, IsRecord, IsSnapshot
<1>2. old.version > 0
  BY DEF Redact
<1>3. u \notin HiddenIn(old.snapshot)
  BY DEF Redact, HiddenIn
<1>4. record' = [record EXCEPT ![r] = new] /\ events' = [events EXCEPT ![r] = Logged(past, clean, new)]
  BY DEF Redact
<1>5. PICK a, b, d, e : old = [status |-> a, version |-> b, snapshot |-> d, finalizedAt |-> e]
  BY <1>1 DEF Counted
<1>6. a = old.status /\ b = old.version /\ e = old.finalizedAt /\ b \in Nat
  BY <1>1, <1>5
<1>7. clean = [status |-> a, version |-> b, snapshot |-> hide, finalizedAt |-> e]
  <2> HIDE DEF hide, old
  <2> QED BY <1>5
<1>8. new = [status |-> a, version |-> b + 1, snapshot |-> hide, finalizedAt |-> e]
  <2>1. clean.version = b
    BY <1>7
  <2> HIDE DEF clean, hide
  <2>2. [clean EXCEPT !.version = b + 1]
          = [status |-> a, version |-> b + 1, snapshot |-> hide, finalizedAt |-> e]
    BY <1>7
  <2>3. new = [clean EXCEPT !.version = clean.version + 1]
    OBVIOUS
  <2> HIDE DEF new
  <2> QED BY <2>1, <2>2, <2>3
<1>9. /\ hidden \in Seq(Users)
      /\ Out(hidden) = HiddenIn(old.snapshot) \union {u}
  <2>1. Out(old.snapshot.hidden) = HiddenIn(old.snapshot)
    BY DEF Out, HiddenIn
  <2> HIDE DEF old
  <2>2. hidden \in Seq(Users)
    BY <1>1, Appended
  <2>3. Out(hidden) = Out(old.snapshot.hidden) \union {u}
    BY <1>1, Appended
  <2> QED BY <2>1, <2>2, <2>3
<1>10. /\ IsSnapshot(hide) /\ Clean(hide)
       /\ HiddenIn(hide) = HiddenIn(old.snapshot) \union {u}
       /\ Replaced(old.snapshot, hide, u, Len(old.snapshot.hidden) + 1)
  <2> DEFINE s == old.snapshot
  <2>1. IsSnapshot(s) /\ Clean(s)
    BY <1>1
  <2>2. hidden = Append(s.hidden, u) /\ hide = Hide(s, hidden)
    OBVIOUS
  <2> HIDE DEF s, hidden, hide
  <2>3. IsSnapshot(hide)
    BY <2>1, <2>2, RedactionHides
  <2>4. Clean(hide)
    BY <2>1, <2>2, RedactionHides
  <2>5. HiddenIn(hide) = HiddenIn(s) \union {u}
    BY <2>1, <2>2, RedactionHides
  <2>6. Replaced(s, hide, u, Len(s.hidden) + 1)
    BY <2>1, <2>2, RedactionHides
  <2> QED BY <2>3, <2>4, <2>5, <2>6 DEF s
<1> HIDE DEF hide
<1>11. /\ clean.version = old.version /\ clean.snapshot = hide /\ Good(clean)
       /\ new.version = old.version + 1 /\ new.snapshot = hide /\ Good(new)
       /\ new.finalizedAt = old.finalizedAt
  <2>1. /\ clean.status = a /\ clean.version = b /\ clean.snapshot = hide /\ clean.finalizedAt = e
        /\ DOMAIN clean = {"status", "version", "snapshot", "finalizedAt"}
    <3> HIDE DEF clean
    <3> QED BY <1>7
  <2>2. /\ new.status = a /\ new.version = b + 1 /\ new.snapshot = hide /\ new.finalizedAt = e
        /\ DOMAIN new = {"status", "version", "snapshot", "finalizedAt"}
    <3> HIDE DEF new
    <3> QED BY <1>8
  <2> HIDE DEF clean, new, old
  <2>3. Counted(clean) /\ Counted(new)
    BY <1>6, <1>7, <1>8, <2>1, <2>2 DEF Counted
  <2>4. IsRecord(clean) /\ IsRecord(new)
    BY <1>1, <1>6, <1>10, <2>1, <2>2 DEF IsRecord
  <2> QED BY <1>6, <1>10, <2>1, <2>2, <2>3, <2>4 DEF Good
<1>12. Book(past, clean) /\ Without(past, events[r], old.version, u)
  <2>1. /\ DOMAIN page = DOMAIN events[r]
        /\ \A v \in DOMAIN events[r] : page[v] = Hide(events[r][v].snapshot, hidden)
    <3> HIDE DEF hidden
    <3> QED OBVIOUS
  <2>2. Rehashed(past, page, events[r], hidden)
    <3> HIDE DEF page
    <3> QED BY <2>1 DEF Rehashed
  <2>3. clean.snapshot = Hide(old.snapshot, hidden) /\ HiddenIn(clean.snapshot) = Out(hidden)
    BY <1>9, <1>10, <1>11 DEF hide
  <2>4. clean.version = old.version
    BY <1>11
  <2>5. /\ Book(events[r], old) /\ old.version \in Nat /\ old.version > 0
        /\ hidden \in Seq(Users) /\ Out(hidden) = HiddenIn(old.snapshot) \union {u}
    BY <1>1, <1>2, <1>9
  <2> HIDE DEF page, past, clean, hidden, old, new
  <2>6. Book(past, clean)
    BY <2>2, <2>3, <2>4, <2>5, HiddenIsBook
  <2>7. Without(past, events[r], old.version, u)
    BY <2>2, <2>3, <2>4, <2>5, HiddenIsBook
  <2> QED BY <2>6, <2>7
<1> HIDE DEF past, clean, new
<1>13. Succeeds(clean, new)
  BY <1>10, <1>11 DEF Succeeds, Grows
<1>14. Book(Logged(past, clean, new), new) /\ Adds(past, clean, Logged(past, clean, new), new)
  BY <1>11, <1>12, <1>13, LoggedIsBook
<1>15. record'[r] = new /\ events'[r] = Logged(past, clean, new)
  BY <1>4 DEF Books
<1>16. Without(events'[r], events[r], old.version, u)
  BY <1>11, <1>12, <1>14, <1>15 DEF Adds, Without
<1>17. Named(events'[r][old.version + 1].snapshot) = Named(old.snapshot) \ {u}
  <2>1. events'[r][old.version + 1].snapshot = hide
    BY <1>1, <1>11, <1>14, <1>15 DEF Book, Chain
  <2>2. Named(hide) = Named(old.snapshot) \ Out(hidden)
    <3> HIDE DEF hidden, old
    <3> QED BY <1>1, <1>9, HideTyped DEF hide
  <2> QED BY <1>1, <1>9, <2>1, <2>2 DEF Clean
<1>18. \A x \in Pairs \ {r} : record'[x] = record[x] /\ events'[x] = events[x]
  BY <1>4 DEF Books
<1>19. DOMAIN record' = Pairs /\ DOMAIN events' = Pairs
  BY <1>4 DEF Books
<1> QED BY <1>2, <1>3, <1>10, <1>11, <1>14, <1>15, <1>16, <1>17, <1>18, <1>19 DEF Rewritten

-----------------------------------------------------------------------------
(* Every step adds versions, or redacts somebody.                          *)
BookStep == Records \/ \E r \in Pairs, u \in Users : Rewritten(r, u)

(* Every step adds to the histories or redacts one person in one of        *)
(* them.                                                                   *)
LEMMA BooksStep ==
  ASSUME Inv, [Next]_vars
  PROVE  BookStep
<1>1. SourcesOK /\ Books
  BY DEF Inv
<1>2. CASE UNCHANGED <<record, events>>
  BY <1>1, <1>2, QuietRecorded DEF BookStep
<1>3. CASE StudentNext
  <2>1. UNCHANGED <<record, events>>
    BY <1>3 DEF StudentNext, JoinBegin, LeaveBegin, SubmitEvidence
  <2> QED BY <1>2, <2>1
<1>4. CASE StaffNext
  <2>1. CASE \E p \in Programs, u \in Users : RemoveParticipant(p, u)
    BY <1>1, <2>1, RemoveParticipantRecords DEF BookStep
  <2>2. CASE \E r \in Pairs, u \in Users : Redact(r, u)
    BY <1>1, <2>2, RedactRewrites DEF BookStep
  <2>3. CASE \E r \in Pairs : Correct(r)
    BY <1>1, <2>3, CorrectRecords DEF BookStep
  <2>4. CASE /\ ~ \E p \in Programs, u \in Users : RemoveParticipant(p, u)
             /\ ~ \E r \in Pairs, u \in Users : Redact(r, u)
             /\ ~ \E r \in Pairs : Correct(r)
    <3>1. UNCHANGED <<record, events>>
      BY <1>4, <2>4 DEF StaffNext, Act, LinkBegin, RemoveBegin, BackfillBegin, MoveBegin, Assign,
                        EndBegin, ResumeBegin
    <3> QED BY <1>2, <3>1
  <2> QED BY <2>1, <2>2, <2>3, <2>4
<1>5. ASSUME NEW s \in Slots, RequestNext(s)
      PROVE  BookStep
  <2>1. CASE CaptureBegin(s) \/ JoinTeam(s) \/ LeaveTeam(s) \/ RequestFails(s)
    <3>1. UNCHANGED <<record, events>>
      BY <2>1 DEF CaptureBegin, JoinTeam, LeaveTeam, RequestFails
    <3> QED BY <1>2, <3>1
  <2>2. CASE CaptureWrite(s)
    BY <2>2, CaptureWriteRecords DEF BookStep
  <2>3. CASE Link(s)
    BY <1>1, <2>3, LinkRecords DEF BookStep
  <2>4. CASE Remove(s)
    BY <1>1, <2>4, RemoveRecords DEF BookStep
  <2>5. CASE Move(s)
    BY <1>1, <2>5, MoveRecords DEF BookStep
  <2>6. CASE EndProgram(s)
    BY <1>1, <2>6, EndProgramRecords DEF BookStep
  <2>7. CASE ResumeProgram(s)
    BY <1>1, <2>7, ResumeProgramRecords DEF BookStep
  <2> QED BY <1>5, <2>1, <2>2, <2>3, <2>4, <2>5, <2>6, <2>7 DEF RequestNext
<1>6. CASE UNCHANGED vars
  BY <1>2, <1>6 DEF vars
<1> QED BY <1>3, <1>4, <1>5, <1>6 DEF Next

(* So books stay books, and no version is ever taken back.                 *)
LEMMA StepBooks ==
  ASSUME Books, BookStep
  PROVE  /\ Books'
         /\ \A r \in Pairs : record'[r] = record[r] \/ record'[r].version > record[r].version
<1>1. CASE Records
  BY <1>1 DEF Records, Recorded, Books
<1>2. ASSUME NEW r \in Pairs, NEW u \in Users, Rewritten(r, u)
      PROVE  /\ Books'
             /\ \A x \in Pairs : record'[x] = record[x] \/ record'[x].version > record[x].version
  <2>1. ASSUME NEW x \in Pairs
        PROVE  /\ Good(record'[x]) /\ Book(events'[x], record'[x])
               /\ record'[x] = record[x] \/ record'[x].version > record[x].version
    <3>1. CASE x = r
      <4>1. record[r].version \in Nat
        BY DEF Books, Good, Counted
      <4> QED BY <1>2, <3>1, <4>1 DEF Rewritten
    <3>2. CASE x # r
      BY <1>2, <3>2 DEF Rewritten, Books
    <3> QED BY <3>1, <3>2
  <2>2. DOMAIN record' = Pairs /\ DOMAIN events' = Pairs
    BY <1>2 DEF Rewritten
  <2> QED BY <2>1, <2>2 DEF Books
<1> QED BY <1>1, <1>2 DEF BookStep

-----------------------------------------------------------------------------
(* The rows the records are made of keep their types.                      *)
LEMMA SubmitTyped ==
  ASSUME NEW f \in Submissions, NEW e \in Items, NEW n \in Nat
  PROVE  [x \in DOMAIN f \union {e} |-> IF x = e THEN n ELSE f[x]] \in Submissions
<1>1. PICK S \in SUBSET Items : f \in [S -> Nat]
  BY DEF Submissions
<1>2. [x \in DOMAIN f \union {e} |-> IF x = e THEN n ELSE f[x]] \in [S \union {e} -> Nat]
  BY <1>1
<1>3. S \union {e} \in SUBSET Items
  BY <1>1
<1> QED BY <1>2, <1>3 DEF Submissions

(* What students do keeps the live rows well-typed.                        *)
LEMMA StudentSources ==
  ASSUME SourcesOK, StudentNext
  PROVE  SourcesOK'
<1>1. ASSUME NEW s \in Slots, NEW j \in Projects, NEW u \in Users,
             JoinBegin(s, j, u) \/ LeaveBegin(s, j, u)
      PROVE  SourcesOK'
  BY <1>1 DEF JoinBegin, LeaveBegin, Acting, SourcesOK, sources
<1>2. ASSUME NEW j \in Projects, NEW e \in Items, SubmitEvidence(j, e)
      PROVE  SourcesOK'
  <2>1. acts' \in Nat
    BY <1>2 DEF SubmitEvidence, Acting, SourcesOK
  <2>2. submitted[j] \in Submissions
    BY DEF SourcesOK
  <2> DEFINE later == [x \in DOMAIN submitted[j] \union {e} |-> IF x = e THEN acts' ELSE submitted[j][x]]
  <2>3. later \in Submissions
    BY <2>1, <2>2, SubmitTyped
  <2>4. submitted' = [submitted EXCEPT ![j] = later]
    BY <1>2 DEF SubmitEvidence
  <2> HIDE DEF later
  <2>5. submitted' \in [Projects -> Submissions]
    BY <2>3, <2>4 DEF SourcesOK
  <2>6. rejected' \in [Projects -> SUBSET Items]
    BY <1>2 DEF SubmitEvidence, SourcesOK
  <2> QED BY <1>2, <2>1, <2>5, <2>6 DEF SubmitEvidence, SourcesOK
<1> QED BY <1>1, <1>2 DEF StudentNext

(* So does what the staff does in one step.                                *)
LEMMA StaffSources ==
  ASSUME SourcesOK, StaffNext
  PROVE  SourcesOK'
<1>1. ASSUME UNCHANGED sources, acts' \in Nat
      PROVE  SourcesOK'
  BY <1>1 DEF SourcesOK, sources
<1>2. acts \in Nat /\ (Acting => acts' \in Nat)
  BY DEF SourcesOK, Acting
<1>3. ASSUME NEW s \in Slots, NEW r \in Pairs, NEW issued, NEW refused, Act(s, r, issued, refused)
      PROVE  SourcesOK'
  BY <1>1, <1>2, <1>3 DEF Act
<1>4. ASSUME NEW s \in Slots, NEW r \in Pairs,
             LinkBegin(s, r) \/ RemoveBegin(s, r) \/ BackfillBegin(s, r)
      PROVE  SourcesOK'
  BY <1>1, <1>2, <1>4 DEF LinkBegin, RemoveBegin, BackfillBegin
<1>5. ASSUME NEW s \in Slots, NEW r \in Pairs, NEW p \in Programs, MoveBegin(s, r, p)
      PROVE  SourcesOK'
  BY <1>1, <1>2, <1>5 DEF MoveBegin
<1>6. ASSUME NEW s \in Slots, NEW j \in Projects, NEW u \in Users, Assign(s, j, u)
      PROVE  SourcesOK'
  <2>1. team' \in [Projects -> SUBSET Users]
    <3>1. \/ team' = [team EXCEPT ![j] = @ \ {u}]
          \/ team' = [team EXCEPT ![j] = @ \union {u}]
      BY <1>6 DEF Assign
    <3> QED BY <3>1 DEF SourcesOK
  <2> QED BY <1>2, <1>6, <2>1 DEF Assign, SourcesOK
<1>7. ASSUME NEW s \in Slots, NEW p \in Programs, EndBegin(s, p) \/ ResumeBegin(s, p)
      PROVE  SourcesOK'
  BY <1>1, <1>2, <1>7 DEF EndBegin, ResumeBegin
<1>8. ASSUME NEW p \in Programs, NEW u \in Users, RemoveParticipant(p, u)
      PROVE  SourcesOK'
  <2>1. team' \in [Projects -> SUBSET Users]
    BY <1>8 DEF RemoveParticipant, SourcesOK
  <2>2. Acting /\ UNCHANGED <<link, submitted, rejected, holders, ended>>
    BY <1>8 DEF RemoveParticipant
  <2> QED BY <1>2, <2>1, <2>2 DEF SourcesOK
<1>9. ASSUME NEW r \in Pairs, NEW u \in Users, Redact(r, u)
      PROVE  SourcesOK'
  BY <1>1, <1>2, <1>9 DEF Redact
<1>10. ASSUME NEW r \in Pairs, Correct(r)
       PROVE  SourcesOK'
  BY <1>1, <1>2, <1>10 DEF Correct
<1> QED BY <1>3, <1>4, <1>5, <1>6, <1>7, <1>8, <1>9, <1>10 DEF StaffNext

(* So do the requests that take several.                                   *)
LEMMA RequestSources ==
  ASSUME SourcesOK, RequestsOK, NEW s \in Slots, RequestNext(s)
  PROVE  SourcesOK'
<1>1. IsRequest(req[s])
  BY DEF RequestsOK
<1>2. CASE CaptureBegin(s) \/ RequestFails(s)
  BY <1>2 DEF CaptureBegin, RequestFails, SourcesOK, sources
<1>3. CASE CaptureWrite(s)
  <2>1. /\ req[s].pair \in Pairs /\ req[s].issued \subseteq Users /\ req[s].refused \subseteq Items
    BY <1>1, <1>3 DEF CaptureWrite, Serving, IsRequest
  <2>2. /\ holders' = [holders EXCEPT ![req[s].pair] = @ \union req[s].issued]
        /\ rejected' = [rejected EXCEPT ![req[s].pair[2]] = @ \union req[s].refused]
        /\ UNCHANGED <<link, team, submitted, ended, acts>>
    BY <1>3 DEF CaptureWrite
  <2>3. holders' \in [Pairs -> SUBSET Users]
    BY <2>1, <2>2 DEF SourcesOK
  <2>4. rejected' \in [Projects -> SUBSET Items]
    BY <2>1, <2>2 DEF SourcesOK
  <2> QED BY <2>2, <2>3, <2>4 DEF SourcesOK
<1>4. CASE JoinTeam(s) \/ LeaveTeam(s)
  <2>1. req[s].user \in Users
    BY <1>1, <1>4 DEF JoinTeam, LeaveTeam, Serving, IsRequest
  <2>2. \/ team' = [team EXCEPT ![req[s].project] = @ \union {req[s].user}]
        \/ team' = [team EXCEPT ![req[s].project] = @ \ {req[s].user}]
    BY <1>4 DEF JoinTeam, LeaveTeam
  <2>3. UNCHANGED <<link, submitted, rejected, holders, ended, acts>>
    BY <1>4 DEF JoinTeam, LeaveTeam
  <2>4. team' \in [Projects -> SUBSET Users]
    BY <2>1, <2>2 DEF SourcesOK
  <2> QED BY <2>3, <2>4 DEF SourcesOK
<1>5. CASE Link(s)
  <2>1. req[s].pair[1] \in Programs
    BY <1>1, <1>5 DEF Link, Serving, IsRequest, Pairs
  <2>2. /\ link' = [link EXCEPT ![req[s].pair[2]] = req[s].pair[1]]
        /\ UNCHANGED <<team, submitted, rejected, holders, ended, acts>>
    BY <1>5 DEF Link
  <2> QED BY <2>1, <2>2 DEF SourcesOK
<1>6. CASE Remove(s)
  <2>1. /\ link' = [link EXCEPT ![req[s].pair[2]] = NoProgram]
        /\ UNCHANGED <<team, submitted, rejected, holders, ended, acts>>
    BY <1>6 DEF Remove
  <2> QED BY <2>1 DEF SourcesOK
<1>7. CASE Move(s)
  <2>1. req[s].to \in Programs
    BY <1>1, <1>7 DEF Move, Serving, IsRequest
  <2>2. /\ link' = [link EXCEPT ![req[s].pair[2]] = req[s].to]
        /\ UNCHANGED <<team, submitted, rejected, holders, ended, acts>>
    BY <1>7 DEF Move
  <2> QED BY <2>1, <2>2 DEF SourcesOK
<1>8. CASE EndProgram(s)
  <2>1. req[s].program \in Programs
    BY <1>1, <1>8 DEF EndProgram, Serving, IsRequest
  <2>2. /\ ended' = ended \union {req[s].program}
        /\ UNCHANGED <<link, team, submitted, rejected, holders, acts>>
    BY <1>8 DEF EndProgram
  <2> QED BY <2>1, <2>2 DEF SourcesOK
<1>9. CASE ResumeProgram(s)
  <2>1. /\ ended' = ended \ {req[s].program}
        /\ UNCHANGED <<link, team, submitted, rejected, holders, acts>>
    BY <1>9 DEF ResumeProgram
  <2> QED BY <2>1 DEF SourcesOK
<1> QED BY <1>2, <1>3, <1>4, <1>5, <1>6, <1>7, <1>8, <1>9 DEF RequestNext

(* So does every step.                                                     *)
LEMMA SourcesNext ==
  ASSUME SourcesOK, RequestsOK, [Next]_vars
  PROVE  SourcesOK'
<1>1. CASE UNCHANGED vars
  BY <1>1 DEF vars, sources, SourcesOK
<1> QED BY <1>1, StudentSources, StaffSources, RequestSources DEF Next

-----------------------------------------------------------------------------
(* The requests.                                                           *)
Unread(q) == IsRequest(q) /\ q.op # "capture"
Later == \A r \in Pairs : record'[r] = record[r] \/ record'[r].version > record[r].version

(* What a capture has read stays the record or an older version.           *)
LEMMA RequestsKept ==
  ASSUME Inv, Books', Later, DOMAIN req' = Slots,
         \A s \in Slots : req'[s] = req[s] \/ Unread(req'[s])
  PROVE  RequestsOK'
<1> SUFFICES ASSUME NEW s \in Slots
             PROVE  IsRequest(req'[s]) /\ (req'[s].op = "capture" => SeenIn(req[s])')
  BY DEF RequestsOK
<1>1. CASE Unread(req'[s])
  BY <1>1 DEF Unread
<1>2. CASE req'[s] = req[s] /\ req[s].op # "capture"
  BY <1>2 DEF Inv, RequestsOK
<1>3. CASE req'[s] = req[s] /\ req[s].op = "capture"
  <2>1. IsRequest(req[s]) /\ SeenIn(req[s])
    BY <1>3 DEF Inv, RequestsOK
  <2>2. req[s].pair \in Pairs
    BY <1>3, <2>1 DEF IsRequest
  <2>3. /\ record[req[s].pair].version \in Nat /\ record'[req[s].pair].version \in Nat
        /\ req[s].seen.version \in Nat
    BY <2>1, <2>2 DEF Inv, Books, Good, Counted, SeenIn
  <2>4. \/ record'[req[s].pair] = record[req[s].pair]
        \/ record'[req[s].pair].version > record[req[s].pair].version
    BY <2>2 DEF Later
  <2>5. SeenIn(req[s])'
    BY <1>3, <2>1, <2>3, <2>4 DEF SeenIn
  <2> QED BY <1>3, <2>1, <2>5
<1> QED BY <1>1, <1>2, <1>3

(* A free slot carries nothing a capture has read.                         *)
LEMMA IdleTyped == Unread(Idle)
BY DEF Unread, IsRequest, Idle

(* A request that ends carries nothing, either.                            *)
LEMMA EndUnread ==
  ASSUME RequestsOK, NEW s \in Slots, End(s)
  PROVE  DOMAIN req' = Slots /\ \A t \in Slots : req'[t] = req[t] \/ Unread(req'[t])
BY IdleTyped DEF RequestsOK, End

(* Nor does one that has read no record yet.                               *)
LEMMA StartUnread ==
  ASSUME RequestsOK, NEW s \in Slots, NEW request, Start(s, request), Unread(request)
  PROVE  DOMAIN req' = Slots /\ \A t \in Slots : req'[t] = req[t] \/ Unread(req'[t])
BY DEF RequestsOK, Start

(* A capture begins with the record as it is.                              *)
LEMMA ReadSeen ==
  ASSUME Inv, NEW s \in Slots, NEW r \in Pairs, NEW issued \in SUBSET Users,
         NEW refused \in SUBSET Items, NEW finalize \in BOOLEAN,
         req' = [req EXCEPT ![s] = Read(r, issued, refused, finalize)],
         UNCHANGED <<record, events>>
  PROVE  RequestsOK'
<1> DEFINE src == [Source(r) EXCEPT !.holders = @ \union issued]
           snapshot == Captured(record[r], src, FALSE)
           q == Read(r, issued, refused, finalize)
<1>1. Good(record[r]) /\ IsRecord(record[r]) /\ IsSnapshot(record[r].snapshot)
      /\ record[r].version \in Nat /\ acts \in Nat /\ SourcesOK
  BY DEF Inv, Books, Good, IsRecord, SourcesOK
<1>2. src \in SourceRecord
  <2>1. Source(r) \in SourceRecord
    BY <1>1, SourceTyped
  <2> QED BY <2>1, Overrides
<1> HIDE DEF src
<1>3. IsSnapshot(snapshot)
  BY <1>1, <1>2, BuildTyped DEF Captured
<1>4. q = [op |-> "capture", pair |-> r, issued |-> issued, refused |-> refused,
           finalize |-> finalize, seen |-> record[r], at |-> acts, snapshot |-> snapshot]
  BY DEF Read, src
<1> HIDE DEF q
<1>5. /\ q.op = "capture" /\ q.pair = r /\ q.issued = issued /\ q.refused = refused
      /\ q.finalize = finalize /\ q.seen = record[r] /\ q.at = acts /\ q.snapshot = snapshot
  BY <1>4
<1>6. IsRequest(q)
  <2> HIDE DEF snapshot
  <2> QED BY <1>1, <1>3, <1>5 DEF IsRequest
<1>7. SeenIn(q)
  <2>1. BuiltFrom(record[r], snapshot)
    BY <1>2 DEF BuiltFrom
  <2> HIDE DEF snapshot
  <2> QED BY <1>1, <1>5, <2>1 DEF SeenIn
<1>8. ASSUME NEW t \in Slots
      PROVE  IsRequest(req'[t]) /\ (req'[t].op = "capture" => SeenIn(req[t])')
  <2>1. CASE t = s
    <3>1. req'[t] = q
      BY <2>1 DEF Inv, RequestsOK, q
    <3> QED BY <1>6, <1>7, <3>1 DEF SeenIn
  <2>2. CASE t # s
    <3>1. req'[t] = req[t]
      BY <2>2 DEF Inv, RequestsOK
    <3> QED BY <3>1 DEF Inv, RequestsOK, SeenIn
  <2> QED BY <2>1, <2>2
<1>9. DOMAIN req' = Slots
  BY DEF Inv, RequestsOK
<1> QED BY <1>8, <1>9 DEF RequestsOK

(* What a capture under way has read stays the record or becomes an        *)
(* older version.                                                          *)
LEMMA RequestsNext ==
  ASSUME Inv, Books', Later, [Next]_vars
  PROVE  RequestsOK'
<1> DEFINE Same == DOMAIN req' = Slots /\ \A t \in Slots : req'[t] = req[t] \/ Unread(req'[t])
<1>1. Same => RequestsOK'
  BY RequestsKept
<1>2. CASE UNCHANGED req
  BY <1>1, <1>2 DEF Inv, RequestsOK
<1>3. ASSUME NEW s \in Slots, End(s)
      PROVE  RequestsOK'
  BY <1>1, <1>3, EndUnread DEF Inv
<1>4. ASSUME NEW s \in Slots, NEW q, Start(s, q), Unread(q)
      PROVE  RequestsOK'
  BY <1>1, <1>4, StartUnread DEF Inv
<1>5. CASE StudentNext
  <2>1. ASSUME NEW s \in Slots, NEW j \in Projects, NEW u \in Users,
               JoinBegin(s, j, u) \/ LeaveBegin(s, j, u)
        PROVE  RequestsOK'
    <3>1. /\ Unread([op |-> "join", project |-> j, user |-> u])
          /\ Unread([op |-> "leave", project |-> j, user |-> u])
      BY DEF Unread, IsRequest
    <3> QED BY <1>4, <2>1, <3>1 DEF JoinBegin, LeaveBegin
  <2>2. ASSUME NEW j \in Projects, NEW e \in Items, SubmitEvidence(j, e)
        PROVE  RequestsOK'
    BY <1>2, <2>2 DEF SubmitEvidence
  <2> QED BY <1>5, <2>1, <2>2 DEF StudentNext
<1>6. CASE StaffNext
  <2>1. ASSUME NEW s \in Slots, NEW r \in Pairs, NEW issued \in AtMostOne(Users),
               NEW refused \in AtMostOne(Items), Act(s, r, issued, refused)
        PROVE  RequestsOK'
    <3>1. issued \in SUBSET Users /\ refused \in SUBSET Items
      BY DEF AtMostOne
    <3>2. /\ req' = [req EXCEPT ![s] = Read(r, issued, refused, FALSE)]
          /\ UNCHANGED <<record, events>>
      BY <2>1 DEF Act
    <3> QED BY <3>1, <3>2, ReadSeen
  <2>2. ASSUME NEW s \in Slots, NEW r \in Pairs,
               LinkBegin(s, r) \/ RemoveBegin(s, r) \/ BackfillBegin(s, r)
        PROVE  RequestsOK'
    <3>1. /\ Unread([op |-> "link", pair |-> r]) /\ Unread([op |-> "remove", pair |-> r])
          /\ Unread([op |-> "owed", pair |-> r, finalize |-> Departed(r)])
      BY DEF Unread, IsRequest, Departed
    <3> QED BY <1>4, <2>2, <3>1 DEF LinkBegin, RemoveBegin, BackfillBegin
  <2>3. ASSUME NEW s \in Slots, NEW r \in Pairs, NEW p \in Programs, MoveBegin(s, r, p)
        PROVE  RequestsOK'
    <3>1. Unread([op |-> "move", pair |-> r, to |-> p])
      BY DEF Unread, IsRequest
    <3> QED BY <1>4, <2>3, <3>1 DEF MoveBegin
  <2>4. ASSUME NEW s \in Slots, NEW j \in Projects, NEW u \in Users, Assign(s, j, u)
        PROVE  RequestsOK'
    <3>1. <<link[j], j>> \in Pairs
      BY <2>4 DEF Assign, Pairs
    <3>2. Unread([op |-> "owed", pair |-> <<link[j], j>>, finalize |-> FALSE])
      BY <3>1 DEF Unread, IsRequest
    <3> QED BY <1>4, <2>4, <3>2 DEF Assign
  <2>5. ASSUME NEW s \in Slots, NEW p \in Programs, EndBegin(s, p) \/ ResumeBegin(s, p)
        PROVE  RequestsOK'
    <3>1. InProgram(p) \union StillOpen(p) \subseteq Projects /\ InProgram(p) \subseteq Projects
      BY DEF InProgram, StillOpen
    <3>2. /\ Unread([op |-> "end", program |-> p, projects |-> InProgram(p) \union StillOpen(p)])
          /\ Unread([op |-> "resume", program |-> p, projects |-> InProgram(p)])
      BY <3>1 DEF Unread, IsRequest
    <3> QED BY <1>4, <2>5, <3>2 DEF EndBegin, ResumeBegin
  <2>6. ASSUME \/ \E p \in Programs, u \in Users : RemoveParticipant(p, u)
               \/ \E r \in Pairs, u \in Users : Redact(r, u)
               \/ \E r \in Pairs : Correct(r)
        PROVE  RequestsOK'
    BY <1>2, <2>6 DEF RemoveParticipant, Redact, Correct
  <2> QED BY <1>6, <2>1, <2>2, <2>3, <2>4, <2>5, <2>6 DEF StaffNext
<1>7. ASSUME NEW s \in Slots, RequestNext(s)
      PROVE  RequestsOK'
  <2>1. CASE CaptureBegin(s)
    <3>1. req[s].pair \in Pairs /\ req[s].finalize \in BOOLEAN
      BY <2>1 DEF CaptureBegin, Serving, Inv, RequestsOK, IsRequest
    <3>2. /\ req' = [req EXCEPT ![s] = Read(req[s].pair, {}, {}, req[s].finalize)]
          /\ UNCHANGED <<record, events>>
      BY <2>1 DEF CaptureBegin
    <3> QED BY <3>1, <3>2, ReadSeen
  <2>2. CASE ~CaptureBegin(s)
    <3>1. End(s)
      BY <1>7, <2>2 DEF RequestNext, CaptureWrite, JoinTeam, LeaveTeam, Link, Remove, Move,
                        EndProgram, ResumeProgram, RequestFails
    <3> QED BY <1>3, <3>1
  <2> QED BY <2>1, <2>2
<1>8. CASE UNCHANGED vars
  BY <1>2, <1>8 DEF vars
<1> QED BY <1>5, <1>6, <1>7, <1>8 DEF Next

-----------------------------------------------------------------------------
(* The invariant holds at first.                                           *)
LEMMA InvInit == Init => Inv
<1> SUFFICES ASSUME Init PROVE Inv
  OBVIOUS
<1>1. ASSUME NEW r \in Pairs
      PROVE  Good(record[r]) /\ Book(events[r], record[r])
  <2>1. record[r] = Missing /\ DOMAIN events[r] = {}
    BY DEF Init
  <2>2. Missing.version = 0 /\ Missing.snapshot = Blank
    BY DEF Missing
  <2>3. Chain(events[r], record[r])
    BY <2>1, <2>2 DEF Chain
  <2>4. IsLog(events[r]) /\ Unnamed(events[r], record[r])
    BY <2>1, <2>2 DEF IsLog, Unnamed
  <2> QED BY <2>1, <2>3, <2>4, BlankTyped DEF Book
<1>2. Books
  BY <1>1 DEF Books, Init
<1>3. RequestsOK
  BY IdleTyped DEF RequestsOK, Init, Unread
<1>4. SourcesOK
  <2>1. [e \in {} |-> 0] \in Submissions
    <3>1. [e \in {} |-> 0] \in [{} -> Nat] /\ {} \in SUBSET Items
      OBVIOUS
    <3> QED BY <3>1 DEF Submissions
  <2> QED BY <2>1 DEF SourcesOK, Init
<1> QED BY <1>2, <1>3, <1>4 DEF Inv

(* Every step keeps the invariant and is one for the books.                *)
LEMMA InvNext ==
  ASSUME Inv, [Next]_vars
  PROVE  Inv' /\ BookStep
<1>1. BookStep
  BY BooksStep
<1>2. Books' /\ Later
  BY <1>1, StepBooks DEF Inv, Later
<1>3. SourcesOK'
  BY SourcesNext DEF Inv
<1>4. RequestsOK'
  BY <1>2, RequestsNext
<1> QED BY <1>1, <1>2, <1>3, <1>4 DEF Inv

(* So it holds in every reachable state.                                   *)
LEMMA InvAlways == Spec => []Inv
<1>1. Inv /\ [Next]_vars => Inv'
  BY InvNext
<1> QED BY <1>1, InvInit, PTL DEF Spec

(* The invariant implies the types.                                        *)
LEMMA InvImpliesTypeOK == Inv => TypeOK
<1> SUFFICES ASSUME Inv PROVE TypeOK
  OBVIOUS
<1>1. DOMAIN submitted = Projects /\ \A j \in Projects : \E S \in SUBSET Items : submitted[j] \in [S -> Nat]
  <2>1. submitted \in [Projects -> Submissions]
    BY DEF Inv, SourcesOK
  <2>2. \A f \in Submissions : \E S \in SUBSET Items : f \in [S -> Nat]
    BY DEF Submissions
  <2> QED BY <2>1, <2>2
<1>2. \A r \in Pairs : IsRecord(record[r])
  BY DEF Inv, Books, Good
<1>3. \A r \in Pairs : \A v \in DOMAIN events[r] :
        IsSnapshot(events[r][v].snapshot) /\ IsSnapshot(events[r][v].previous)
  BY DEF Inv, Books, Book, IsLog
<1>4. DOMAIN req = Slots /\ \A s \in Slots : IsRequest(req[s])
  BY DEF Inv, RequestsOK
<1>5. DOMAIN record = Pairs /\ DOMAIN events = Pairs
  BY DEF Inv, Books
<1>6. /\ link \in [Projects -> Programs \union {NoProgram}]
      /\ team \in [Projects -> SUBSET Users]
      /\ rejected \in [Projects -> SUBSET Items]
      /\ holders \in [Pairs -> SUBSET Users]
      /\ ended \subseteq Programs
      /\ acts \in Nat
  BY DEF Inv, SourcesOK
<1> QED BY <1>1, <1>2, <1>3, <1>4, <1>5, <1>6 DEF TypeOK

(* Every record, every version of its history and every request is what    *)
(* the handlers of records/ and programs/ take it for.                     *)
THEOREM TypeCorrect == Spec => []TypeOK
BY InvAlways, InvImpliesTypeOK, PTL

(* Books are chains of versions.                                           *)
LEMMA InvImpliesChainIntact == Inv => ChainIntact
<1> SUFFICES ASSUME Inv, NEW r \in Pairs
             PROVE  /\ DOMAIN events[r] = 1 .. record[r].version
                    /\ record[r].version > 0 =>
                         events[r][record[r].version].snapshot = record[r].snapshot
                    /\ \A v \in DOMAIN events[r] :
                         events[r][v].previous = IF v = 1 THEN Blank ELSE events[r][v - 1].snapshot
  BY DEF ChainIntact
<1>1. Chain(events[r], record[r])
  BY DEF Inv, Books, Book
<1> QED BY <1>1 DEF Chain

(* Whatever captures, corrections and redactions do to a record, and       *)
(* whatever lock each of them takes, its events are consecutive versions,  *)
(* the last of them is the record, and each hash is the next one's         *)
(* previousHash.                                                           *)
THEOREM HistoryIsChain == Spec => []ChainIntact
BY InvAlways, InvImpliesChainIntact, PTL

-----------------------------------------------------------------------------
(* A record that stays final keeps its team.                               *)
LEMMA TeamIsFinite ==
  ASSUME NEW s, IsSnapshot(s), Clean(s)
  PROVE  IsFiniteSet(TeamOf(s))
<1>1. Listed(s) \subseteq Users \union Nat /\ Listed(s) \cap Nat \subseteq 1 .. Len(s.hidden)
  BY DEF IsSnapshot, Ids, Clean, Listed
<1>2. Len(s.hidden) \in Nat
  BY DEF IsSnapshot
<1>3. IsFiniteSet(Users) /\ IsFiniteSet(1 .. Len(s.hidden))
  BY <1>2, PeopleAssumption, FS_Interval
<1>4. IsFiniteSet(Users \union (1 .. Len(s.hidden)))
  BY <1>3, FS_Union
<1>5. TeamOf(s) \subseteq Users \union (1 .. Len(s.hidden))
  BY <1>1 DEF TeamOf
<1> QED BY <1>4, <1>5, FS_Subset

(* A redaction replaces one member of a team by one pseudonym.             *)
LEMMA ReplacedCounts ==
  ASSUME NEW before, NEW after, NEW u \in Users, NEW n, Replaced(before, after, u, n),
         IsFiniteSet(TeamOf(before))
  PROVE  /\ Cardinality(TeamOf(after)) = Cardinality(TeamOf(before))
         /\ TeamOf(after) \cap Users = (TeamOf(before) \cap Users) \ {u}
<1> DEFINE T == TeamOf(before)
           U == T \ {u}
<1>1. CASE u \in T
  <2>1. n \notin T /\ n \notin Users /\ TeamOf(after) = U \union {n}
    BY <1>1 DEF Replaced
  <2>2. IsFiniteSet(U) /\ Cardinality(U) = Cardinality(T) - 1
    <3> HIDE DEF T
    <3> QED BY <1>1, FS_RemoveElement DEF T
  <2>3. Cardinality(U \union {n}) = Cardinality(U) + 1
    <3>1. n \notin U
      BY <2>1
    <3> HIDE DEF U
    <3> QED BY <2>2, <3>1, FS_AddElement
  <2>4. Cardinality(T) \in Nat
    BY FS_CardinalityType
  <2> HIDE DEF T
  <2> QED BY <2>1, <2>2, <2>3, <2>4 DEF T
<1>2. CASE u \notin T
  BY <1>2 DEF Replaced
<1> QED BY <1>1, <1>2

(* While a record stays final, captures keep its team and a redaction      *)
(* its number.                                                             *)
LEMMA StepKeepsTeam ==
  ASSUME Inv, BookStep, NEW r \in Pairs,
         record[r].status = "FINAL", record'[r].status = "FINAL", Listed(record[r].snapshot) # {}
  PROVE  LET before == record[r].snapshot
             after == record'[r].snapshot
         IN /\ TeamOf(after) \cap Users = (TeamOf(before) \cap Users) \ HiddenIn(after)
            /\ Cardinality(TeamOf(after)) = Cardinality(TeamOf(before))
            /\ record'[r].finalizedAt = record[r].finalizedAt
<1> DEFINE before == record[r].snapshot
           after == record'[r].snapshot
<1>1. IsSnapshot(before) /\ Clean(before)
  BY DEF Inv, Books, Good, IsRecord
<1>2. (TeamOf(before) \cap Users) \cap HiddenIn(before) = {}
  BY <1>1 DEF Clean, TeamOf, Named
<1>3. IsFiniteSet(TeamOf(before))
  BY <1>1, TeamIsFinite
<1>4. ASSUME record'[r] = record[r]
      PROVE  /\ TeamOf(after) \cap Users = (TeamOf(before) \cap Users) \ HiddenIn(after)
             /\ Cardinality(TeamOf(after)) = Cardinality(TeamOf(before))
             /\ record'[r].finalizedAt = record[r].finalizedAt
  BY <1>2, <1>4
<1>5. CASE Records
  <2>1. /\ TeamOf(after) = TeamOf(before) /\ after.hidden = before.hidden
        /\ record'[r].finalizedAt = record[r].finalizedAt
    BY <1>5 DEF Records, Recorded, TeamStands
  <2>2. HiddenIn(after) = HiddenIn(before)
    BY <2>1 DEF HiddenIn
  <2> QED BY <1>2, <2>1, <2>2
<1>6. ASSUME NEW x \in Pairs, NEW u \in Users, Rewritten(x, u)
      PROVE  /\ TeamOf(after) \cap Users = (TeamOf(before) \cap Users) \ HiddenIn(after)
             /\ Cardinality(TeamOf(after)) = Cardinality(TeamOf(before))
             /\ record'[r].finalizedAt = record[r].finalizedAt
  <2>1. CASE x # r
    BY <1>4, <1>6, <2>1 DEF Rewritten
  <2>2. CASE x = r
    <3>1. /\ HiddenIn(after) = HiddenIn(before) \union {u}
          /\ record'[r].finalizedAt = record[r].finalizedAt
          /\ \E n : Replaced(before, after, u, n)
      BY <1>6, <2>2 DEF Rewritten
    <3> HIDE DEF before, after
    <3>2. /\ Cardinality(TeamOf(after)) = Cardinality(TeamOf(before))
          /\ TeamOf(after) \cap Users = (TeamOf(before) \cap Users) \ {u}
      BY <1>3, <3>1, ReplacedCounts
    <3> QED BY <1>2, <3>1, <3>2
  <2> QED BY <2>1, <2>2
<1> QED BY <1>5, <1>6 DEF BookStep

(* Whatever happens to a project whose record was finalized, and whichever *)
(* handler writes the record again, the team it was finalized with stays,  *)
(* and a redaction puts a pseudonym in the place of a member.              *)
THEOREM FinalTeamStands == Spec => FinalTeamKept
<1>1. ASSUME Inv, [Next]_vars
      PROVE  \A r \in Pairs :
               record[r].status = "FINAL" /\ record'[r].status = "FINAL"
               /\ Listed(record[r].snapshot) # {} =>
                 LET before == record[r].snapshot
                     after == record'[r].snapshot
                 IN /\ TeamOf(after) \cap Users = (TeamOf(before) \cap Users) \ HiddenIn(after)
                    /\ Cardinality(TeamOf(after)) = Cardinality(TeamOf(before))
                    /\ record'[r].finalizedAt = record[r].finalizedAt
  BY <1>1, InvNext, StepKeepsTeam
<1> QED BY <1>1, InvAlways, PTL DEF Spec, FinalTeamKept

-----------------------------------------------------------------------------
(* The records implement the history that is promised of them.             *)
PagesOf(log, c) == [v \in 1 .. c.version |-> Named(log[v].snapshot)]

(* The pages of a history, one for each version.                           *)
LEMMA PagesTyped ==
  ASSUME NEW log, NEW c, c.version \in Nat
  PROVE  /\ PagesOf(log, c) \in Seq(SUBSET Users)
         /\ Len(PagesOf(log, c)) = c.version
         /\ \A v \in 1 .. c.version : PagesOf(log, c)[v] = Named(log[v].snapshot)
         /\ PagesOf(log, c) = <<>> <=> c.version = 0
<1> DEFINE n == c.version
           p == PagesOf(log, c)
<1>1. \A v \in 1 .. n : p[v] = Named(log[v].snapshot)
  BY DEF PagesOf
<1>2. p \in [1 .. n -> SUBSET Users] /\ DOMAIN p = 1 .. n
  BY DEF PagesOf, Named
<1>3. p \in Seq(SUBSET Users)
  <2> HIDE DEF p
  <2> QED BY <1>2
<1>4. Len(p) = n
  <2> HIDE DEF p
  <2> QED BY <1>2, <1>3
<1>5. p = <<>> <=> n = 0
  <2> HIDE DEF p
  <2> QED BY <1>3, <1>4
<1> QED BY <1>1, <1>3, <1>4, <1>5

(* Adding versions extends the pages of a record.                          *)
LEMMA AddsExtends ==
  ASSUME NEW log, NEW c, NEW longer, NEW d, c.version \in Nat, d.version \in Nat,
         Adds(log, c, longer, d), Unnamed(longer, d)
  PROVE  /\ History!Extends(PagesOf(log, c), PagesOf(longer, d), HiddenIn(c.snapshot))
         /\ HiddenIn(d.snapshot) = HiddenIn(c.snapshot)
<1> DEFINE p == PagesOf(log, c)
           q == PagesOf(longer, d)
<1>1. HiddenIn(d.snapshot) = HiddenIn(c.snapshot)
  BY DEF Adds, HiddenIn
<1>2. /\ Len(p) = c.version /\ \A v \in 1 .. c.version : p[v] = Named(log[v].snapshot)
      /\ Len(q) = d.version /\ \A v \in 1 .. d.version : q[v] = Named(longer[v].snapshot)
  BY PagesTyped
<1> HIDE DEF p, q
<1>3. Len(q) >= Len(p)
  BY <1>2 DEF Adds
<1>4. \A v \in 1 .. Len(p) : q[v] = p[v]
  BY <1>2 DEF Adds
<1>5. ASSUME NEW v \in Len(p) + 1 .. Len(q)
      PROVE  /\ q[v] \cap HiddenIn(c.snapshot) = {}
             /\ (IF v = 1 THEN {} ELSE q[v - 1]) \subseteq q[v]
  <2>1. v \in 1 .. d.version /\ v \in (c.version + 1) .. d.version
        /\ (v # 1 => v > 1 /\ v - 1 \in 1 .. d.version)
    BY <1>2
  <2>2. q[v] \cap HiddenIn(c.snapshot) = {}
    BY <1>1, <1>2, <2>1 DEF Unnamed
  <2>3. CASE v = 1
    BY <2>2, <2>3
  <2>4. CASE v # 1
    <3>1. Named(longer[v - 1].snapshot) \subseteq Named(longer[v].snapshot)
      BY <2>1, <2>4 DEF Adds
    <3> QED BY <1>2, <2>1, <2>2, <2>4, <3>1
  <2> QED BY <2>3, <2>4
<1>6. History!Extends(p, q, HiddenIn(c.snapshot))
  BY <1>3, <1>4, <1>5 DEF History!Extends
<1> QED BY <1>1, <1>6 DEF p, q

(* A redaction takes the person out of every page and adds one.            *)
LEMMA RewrittenPages ==
  ASSUME Books, NEW r \in Pairs, NEW u \in Users, Rewritten(r, u)
  PROVE  LET p == PagesOf(events[r], record[r])
             q == PagesOf(events'[r], record'[r])
         IN /\ p # <<>>
            /\ q = [v \in 1 .. Len(p) + 1 |-> (IF v <= Len(p) THEN p[v] ELSE History!Last(p)) \ {u}]
<1> DEFINE n == record[r].version
           p == PagesOf(events[r], record[r])
           q == PagesOf(events'[r], record'[r])
<1>1. /\ n \in Nat /\ n > 0 /\ record'[r].version = n + 1 /\ Chain(events[r], record[r])
      /\ Without(events'[r], events[r], n, u)
      /\ Named(events'[r][n + 1].snapshot) = Named(record[r].snapshot) \ {u}
  BY DEF Rewritten, Books, Good, Counted, Book
<1>2. /\ Len(p) = n /\ p # <<>>
      /\ \A v \in 1 .. n : p[v] = Named(events[r][v].snapshot)
  BY <1>1, PagesTyped
<1>3. q = [v \in 1 .. n + 1 |-> Named(events'[r][v].snapshot)]
  BY <1>1 DEF PagesOf
<1> HIDE DEF p, q
<1>4. History!Last(p) = Named(record[r].snapshot)
  <2>1. n \in 1 .. n
    BY <1>1
  <2>2. p[n] = Named(record[r].snapshot)
    BY <1>1, <1>2, <2>1 DEF Chain
  <2> QED BY <1>2, <2>2 DEF History!Last
<1>5. ASSUME NEW v \in 1 .. n + 1
      PROVE  Named(events'[r][v].snapshot)
             = (IF v <= n THEN p[v] ELSE Named(record[r].snapshot)) \ {u}
  <2>1. CASE v <= n
    <3>1. v \in 1 .. n
      BY <1>1, <2>1
    <3> QED BY <1>1, <1>2, <2>1, <3>1 DEF Without
  <2>2. CASE ~(v <= n)
    <3>1. v = n + 1
      BY <1>1, <2>2
    <3> QED BY <1>1, <2>2, <3>1
  <2> QED BY <2>1, <2>2
<1>6. q = [v \in 1 .. n + 1 |-> (IF v <= n THEN p[v] ELSE Named(record[r].snapshot)) \ {u}]
  BY <1>3, <1>5
<1> QED BY <1>1, <1>2, <1>4, <1>6 DEF p, q

(* What is done to the books is done to their pages: added, or redacted.   *)
LEMMA StepOfHistory ==
  ASSUME Inv, Inv', BookStep
  PROVE  History!HistoryNext
<1> DEFINE pages == [r \in Pairs |-> [v \in 1 .. record[r].version |-> Named(events[r][v].snapshot)]]
           later == [r \in Pairs |-> [v \in 1 .. record'[r].version |-> Named(events'[r][v].snapshot)]]
           hidden == [r \in Pairs |-> HiddenIn(record[r].snapshot)]
           gone == [r \in Pairs |-> HiddenIn(record'[r].snapshot)]
<1>1. \A r \in Pairs :
        /\ pages[r] = PagesOf(events[r], record[r]) /\ later[r] = PagesOf(events'[r], record'[r])
        /\ hidden[r] = HiddenIn(record[r].snapshot) /\ gone[r] = HiddenIn(record'[r].snapshot)
  BY DEF PagesOf
<1>2. Books /\ \A r \in Pairs : record[r].version \in Nat /\ record'[r].version \in Nat
  BY DEF Inv, Books, Good, Counted
<1>3. CASE Records
  <2>1. ASSUME NEW r \in Pairs
        PROVE  /\ History!Extends(pages[r], later[r], hidden[r])
               /\ gone[r] = hidden[r]
    <3>1. Adds(events[r], record[r], events'[r], record'[r]) /\ Unnamed(events'[r], record'[r])
      BY <1>3 DEF Records, Recorded, Book
    <3>2. /\ History!Extends(PagesOf(events[r], record[r]), PagesOf(events'[r], record'[r]),
                             HiddenIn(record[r].snapshot))
          /\ HiddenIn(record'[r].snapshot) = HiddenIn(record[r].snapshot)
      BY <1>2, <3>1, AddsExtends
    <3> HIDE DEF pages, later, hidden, gone
    <3> QED BY <1>1, <3>2
  <2>2. gone = hidden
    BY <2>1
  <2>3. History!AddVersions
    BY <2>1, <2>2 DEF History!AddVersions
  <2> QED BY <2>3 DEF History!HistoryNext
<1>4. ASSUME NEW r \in Pairs, NEW u \in Users, Rewritten(r, u)
      PROVE  History!HistoryNext
  <2>1. /\ pages[r] # <<>>
        /\ later[r] = [v \in 1 .. Len(pages[r]) + 1 |->
                         (IF v <= Len(pages[r]) THEN pages[r][v] ELSE History!Last(pages[r])) \ {u}]
    <3> HIDE DEF pages, later, hidden, gone
    <3> QED BY <1>1, <1>2, <1>4, RewrittenPages
  <2>2. u \notin hidden[r] /\ gone[r] = hidden[r] \union {u}
    BY <1>4 DEF Rewritten
  <2>3. \A x \in Pairs \ {r} : later[x] = pages[x] /\ gone[x] = hidden[x]
    BY <1>4 DEF Rewritten
  <2>4. gone = [hidden EXCEPT ![r] = @ \union {u}]
    <3>1. DOMAIN hidden = Pairs /\ DOMAIN gone = Pairs
      OBVIOUS
    <3>2. gone = [x \in Pairs |-> gone[x]] /\ hidden = [x \in Pairs |-> hidden[x]]
      OBVIOUS
    <3> HIDE DEF hidden, gone
    <3> QED BY <2>2, <2>3, <3>1, <3>2
  <2>5. later = [pages EXCEPT ![r] =
                   [v \in 1 .. Len(@) + 1 |->
                      (IF v <= Len(@) THEN @[v] ELSE History!Last(@)) \ {u}]]
    <3>1. DOMAIN pages = Pairs /\ DOMAIN later = Pairs
      OBVIOUS
    <3>2. later = [x \in Pairs |-> later[x]] /\ pages = [x \in Pairs |-> pages[x]]
      OBVIOUS
    <3> HIDE DEF pages, later
    <3> QED BY <2>1, <2>3, <3>1, <3>2
  <2>6. History!Redact(r, u)
    BY <2>1, <2>2, <2>4, <2>5 DEF History!Redact
  <2> QED BY <2>6 DEF History!HistoryNext
<1> QED BY <1>3, <1>4 DEF BookStep

(* At first there is no page.                                              *)
LEMMA HistoryStarts == Init => History!HistoryInit
<1> SUFFICES ASSUME Init PROVE History!HistoryInit
  OBVIOUS
<1>1. \A r \in Pairs : record[r] = Missing
  BY DEF Init
<1>2. Missing.version = 0 /\ Missing.snapshot.hidden = <<>>
  BY DEF Missing, Blank
<1>3. ASSUME NEW r \in Pairs
      PROVE  /\ [v \in 1 .. record[r].version |-> Named(events[r][v].snapshot)] = <<>>
             /\ HiddenIn(record[r].snapshot) = {}
  <2>1. PagesOf(events[r], record[r]) = <<>>
    BY <1>1, <1>2, PagesTyped
  <2>2. HiddenIn(record[r].snapshot) = {}
    BY <1>1, <1>2 DEF HiddenIn
  <2> QED BY <2>1, <2>2 DEF PagesOf
<1> QED BY <1>3 DEF History!HistoryInit

(* Seen through the people its versions name, a record is only ever added  *)
(* to, or rid of one person in all its versions at once: nothing that was  *)
(* recorded is rewritten, nobody named drops out, and whoever was redacted *)
(* is never named again.                                                   *)
THEOREM KeepsHistory == Spec => ImplementsHistory
<1>1. Inv /\ [Next]_vars => History!HistoryNext
  <2> SUFFICES ASSUME Inv, [Next]_vars PROVE History!HistoryNext
    OBVIOUS
  <2> QED BY InvNext, StepOfHistory
<1> QED BY <1>1, HistoryStarts, InvAlways, PTL
        DEF Spec, ImplementsHistory, History!HistorySpec
=============================================================================
