-------------------------- MODULE DraftAutosaveProofs --------------------------
(***************************************************************************)
(* Theorems about DraftAutosave for any settings, questions, acts of the   *)
(* user and failures.  What the properties say of a page at rest follows   *)
(* from what the page, the save that runs and the draft know of each other *)
(* while it runs: PageInv, DraftInv, LeaveInv and PublishInv.              *)
(***************************************************************************)
EXTENDS DraftAutosave, FiniteSetTheorems, TLAPS

USE FormAssumption, BoundsAssumption

Field == [key : Keys \cup {DefaultKey}, id : Nat, label : Labels \cup {Blank}]
Form == [title : BOOLEAN, settings : Settings, fields : Seq(Field)]
Payload == SUBSET [title : BOOLEAN, settings : Settings]
Wordings == SUBSET Seq([id : Nat, label : Labels \cup {Blank}])
Snapshot == [payload : Payload, fields : Wordings]
Page == [form : Form, programId : Nat, saved : Snapshot,
         phase : {"idle", "saving", "saved", "error"}, error : SUBSET Snapshot]
PageRef == [form : Form, programId : Nat, saved : Snapshot]
Request == [kind : {"create", "read", "patch", "put"}, form : Form, id : Nat, base : Snapshot]
Row == [payload : Payload, rows : Seq(Field), status : {"draft", "active"},
        published : BOOLEAN, gone : BOOLEAN]
Publishing == [at : {"flush", "status", "publish", "published"}, id : Nat, forms : SUBSET Form]

(* Two forms are alike for the server when they differ at most in the ids  *)
(* and keys of their questions.                                            *)
Like(f, g) == f.title = g.title /\ f.settings = g.settings /\ Words(f.fields) = Words(g.fields)

(* What draft d holds of the form f, but for the parts u nobody is sure of.*)
HasSettings(d, u, f) == "settings" \notin u => d.payload = draftPayload(f)
HasQuestions(d, u, f) ==
  "questions" \notin u /\ fieldPayload(f) # {} /\ f.fields # <<>> => Words(d.rows) = Words(f.fields)
Covers(d, u, f) == HasSettings(d, u, f) /\ HasQuestions(d, u, f)

(* What the page has noted as saved, s, is in draft d.                     *)
MirrorsQuestions(d, u, s) ==
  "questions" \notin u => \A w \in s.fields : w # <<>> => draftToFieldPayload(d.rows) = w
Mirrors(d, u, s) ==
  /\ "settings" \notin u /\ s.payload # {} => d.payload = s.payload
  /\ MirrorsQuestions(d, u, s)

(* Draft d is fit for a publication during which the page held the forms.  *)
Flushed(d, u, forms) ==
  /\ \E f \in forms : HasSettings(d, u, f)
  /\ \A f \in forms : forms = {f} => HasQuestions(d, u, f)

------------------------------------------------------------------------------
(* A form has no questions when it is the empty sequence.                  *)
LEMMA NoQuestions ==
  ASSUME NEW fields \in Seq(Field), fields # <<>>
  PROVE  DOMAIN fields # {} /\ 1 \in DOMAIN fields
<1>1. Len(fields) \in Nat /\ Len(fields) # 0
  OBVIOUS
<1>2. DOMAIN fields = 1..Len(fields)
  OBVIOUS
<1>3. 1 \in 1..Len(fields)
  BY <1>1
<1> QED BY <1>2, <1>3

(* Questions with the same words are equally many and equally labelled.    *)
LEMMA SameWords ==
  ASSUME NEW a \in Seq(Field), NEW b \in Seq(Field)
  PROVE  /\ Words(a) = Words(b) =>
              Len(a) = Len(b) /\ DOMAIN a = DOMAIN b /\ \A i \in DOMAIN a : a[i].label = b[i].label
         /\ DOMAIN a = DOMAIN b /\ (\A i \in DOMAIN a : a[i].label = b[i].label)
              => Words(a) = Words(b)
<1>1. DOMAIN a = 1..Len(a) /\ DOMAIN b = 1..Len(b) /\ Len(a) \in Nat /\ Len(b) \in Nat
  OBVIOUS
<1>2. ASSUME Words(a) = Words(b)
      PROVE  DOMAIN a = DOMAIN b /\ \A i \in DOMAIN a : a[i].label = b[i].label
  <2>1. DOMAIN Words(a) = DOMAIN a /\ DOMAIN Words(b) = DOMAIN b
    BY DEF Words
  <2>2. DOMAIN a = DOMAIN b
    BY <1>2, <2>1
  <2>3. ASSUME NEW i \in DOMAIN a PROVE a[i].label = b[i].label
    <3>1. Words(a)[i] = a[i].label /\ Words(b)[i] = b[i].label
      BY <2>2 DEF Words
    <3> QED BY <3>1, <1>2
  <2> QED BY <2>2, <2>3
<1>3. DOMAIN a = DOMAIN b => Len(a) = Len(b)
  <2>1. \A m, n \in Nat : 1..m = 1..n => m <= n
    <3> SUFFICES ASSUME NEW m \in Nat, NEW n \in Nat, 1..m = 1..n, m > n PROVE FALSE
      OBVIOUS
    <3>1. m \in 1..m /\ m \notin 1..n
      OBVIOUS
    <3> QED BY <3>1
  <2>2. \A m, n \in Nat : 1..m = 1..n => m = n
    BY <2>1
  <2> QED BY <1>1, <2>2
<1>4. DOMAIN a = DOMAIN b /\ (\A i \in DOMAIN a : a[i].label = b[i].label) => Words(a) = Words(b)
  BY DEF Words
<1> QED BY <1>2, <1>3, <1>4

(* What is sent of a form is typed.                                        *)
LEMMA SentTyped ==
  ASSUME NEW f \in Form
  PROVE  /\ draftPayload(f) \in Payload /\ draftPayload(f) # {}
         /\ fieldPayload(f) \in Wordings
         /\ fieldPayload(f) # {} => fieldPayload(f) = {draftToFieldPayload(f.fields)}
         /\ snapshotOf(f) \in Snapshot
         /\ snapshotOf(f).payload = draftPayload(f) /\ snapshotOf(f).fields = fieldPayload(f)
<1>1. draftPayload(f) \in Payload /\ draftPayload(f) # {}
  <2>1. f.title \in BOOLEAN /\ f.settings \in Settings
    BY DEF Form
  <2>2. [title |-> f.title, settings |-> f.settings] \in [title : BOOLEAN, settings : Settings]
    BY <2>1
  <2> QED BY <2>2, Zenon DEF draftPayload, Payload
<1>2. f.fields \in Seq(Field)
  BY DEF Form
<1>3. draftToFieldPayload(f.fields) \in Seq([id : Nat, label : Labels \cup {Blank}])
  <2>1. \A x \in Field : [id |-> x.id, label |-> x.label] \in [id : Nat, label : Labels \cup {Blank}]
    BY DEF Field
  <2>2. \A i \in DOMAIN f.fields : f.fields[i] \in Field
    BY <1>2
  <2>3. DOMAIN f.fields = 1..Len(f.fields) /\ Len(f.fields) \in Nat
    BY <1>2
  <2> QED BY <2>1, <2>2, <2>3 DEF draftToFieldPayload
<1>4. /\ fieldPayload(f) \in Wordings
      /\ fieldPayload(f) # {} => fieldPayload(f) = {draftToFieldPayload(f.fields)}
  BY <1>3 DEF fieldPayload, Wordings
<1> QED BY <1>1, <1>4 DEF snapshotOf, Snapshot

(* Forms that are alike are sent alike, but for the ids.                   *)
LEMMA LikeSent ==
  ASSUME NEW f \in Form, NEW g \in Form, Like(f, g)
  PROVE  draftPayload(f) = draftPayload(g) /\ (fieldPayload(f) = {}) = (fieldPayload(g) = {})
<1>1. f.fields \in Seq(Field) /\ g.fields \in Seq(Field)
  BY DEF Form
<1>2. DOMAIN f.fields = DOMAIN g.fields /\ \A i \in DOMAIN f.fields : f.fields[i].label = g.fields[i].label
  BY <1>1, SameWords DEF Like
<1>3. validateDraftFields(f) <=> validateDraftFields(g)
  BY <1>2 DEF validateDraftFields
<1> QED BY <1>3 DEF Like, draftPayload, fieldPayload, takesApplications

(* A draft that covers a form covers those that are alike.                 *)
LEMMA LikeCovered ==
  ASSUME NEW f \in Form, NEW g \in Form, Like(f, g), NEW d, NEW u
  PROVE  /\ HasSettings(d, u, f) => HasSettings(d, u, g)
         /\ HasQuestions(d, u, f) => HasQuestions(d, u, g)
<1>1. f.fields \in Seq(Field) /\ g.fields \in Seq(Field)
  BY DEF Form
<1>2. g.fields # <<>> => f.fields # <<>>
  BY <1>1, SameWords DEF Like
<1> QED BY <1>2, LikeSent DEF HasSettings, HasQuestions, Like

(* The rows a server stores for the questions it is sent.                  *)
LEMMA RowsTyped ==
  ASSUME NEW fields \in Seq(Field), NEW known, NEW first \in Nat
  PROVE  /\ Rows(fields, known, first) \in Seq(Field)
         /\ Words(Rows(fields, known, first)) = Words(fields)
         /\ Fresh(fields, known) \in Nat
<1> DEFINE fresh(i) == Cardinality({j \in 1..(i - 1) : fields[j].id \notin known})
           row(i) == IF fields[i].id \in known THEN fields[i]
                     ELSE [fields[i] EXCEPT !.id = first + fresh(i)]
<1>1. ASSUME NEW i \in DOMAIN fields PROVE row(i) \in Field /\ row(i).label = fields[i].label
  <2>1. fields[i] \in Field
    BY <1>1
  <2>2. fresh(i) \in Nat
    <3>1. i \in Int
      BY <1>1
    <3>2. IsFiniteSet(1..(i - 1))
      BY <3>1, FS_Interval
    <3> QED BY <3>2, FS_Subset, FS_CardinalityType
  <2>3. \A n \in Nat : [fields[i] EXCEPT !.id = n] \in Field /\ [fields[i] EXCEPT !.id = n].label = fields[i].label
    BY <2>1 DEF Field
  <2>4. first + fresh(i) \in Nat
    <3> HIDE DEF fresh
    <3> QED BY <2>2
  <2> HIDE DEF fresh
  <2> QED BY <2>1, <2>3, <2>4
<1>2. Rows(fields, known, first) = [i \in DOMAIN fields |-> row(i)]
  BY DEF Rows
<1>3. DOMAIN fields = 1..Len(fields) /\ Len(fields) \in Nat
  OBVIOUS
<1> HIDE DEF row
<1>4. Rows(fields, known, first) \in Seq(Field)
  BY <1>1, <1>2, <1>3
<1>5. Words(Rows(fields, known, first)) = Words(fields)
  BY <1>1, <1>2, <1>4, SameWords
<1>6. Fresh(fields, known) \in Nat
  <2>1. IsFiniteSet(DOMAIN fields)
    BY <1>3, FS_Interval
  <2>2. {i \in DOMAIN fields : fields[i].id \notin known} \in SUBSET DOMAIN fields
    OBVIOUS
  <2> QED BY <2>1, <2>2, FS_Subset, FS_CardinalityType DEF Fresh
<1> QED BY <1>4, <1>5, <1>6

(* Adopting the ids of stored rows leaves the words alone.                 *)
LEMMA AdoptTyped ==
  ASSUME NEW fields \in Seq(Field), NEW sent \in Seq(Field), NEW stored \in Seq(Field)
  PROVE  /\ adoptFieldIds(fields, sent, stored) \in Seq(Field)
         /\ Words(adoptFieldIds(fields, sent, stored)) = Words(fields)
<1> DEFINE same(i) == {j \in DOMAIN sent : sent[j].key = fields[i].key}
           adopted(i) == IF fields[i].id # NoId \/ same(i) = {} \/ Len(stored) # Len(sent) THEN fields[i]
                         ELSE [fields[i] EXCEPT !.id = stored[CHOOSE j \in same(i) : TRUE].id]
<1>1. ASSUME NEW i \in DOMAIN fields
      PROVE  adopted(i) \in Field /\ adopted(i).label = fields[i].label
  <2>1. fields[i] \in Field
    BY <1>1
  <2>2. \A n \in Nat : [fields[i] EXCEPT !.id = n] \in Field /\ [fields[i] EXCEPT !.id = n].label = fields[i].label
    BY <2>1 DEF Field
  <2>3. ASSUME same(i) # {}, Len(stored) = Len(sent)
        PROVE  stored[CHOOSE j \in same(i) : TRUE].id \in Nat
    <3>1. (CHOOSE j \in same(i) : TRUE) \in same(i)
      BY <2>3
    <3>2. DOMAIN sent = DOMAIN stored
      BY <2>3, DOMAIN sent = 1..Len(sent), DOMAIN stored = 1..Len(stored)
    <3>3. (CHOOSE j \in same(i) : TRUE) \in DOMAIN stored
      BY <3>1, <3>2
    <3>4. stored[CHOOSE j \in same(i) : TRUE] \in Field
      <4> HIDE DEF same
      <4> QED BY <3>3
    <3> HIDE DEF same
    <3> QED BY <3>4 DEF Field
  <2> HIDE DEF same
  <2> QED BY <2>1, <2>2, <2>3
<1>2. adoptFieldIds(fields, sent, stored) = [i \in DOMAIN fields |-> adopted(i)]
  BY DEF adoptFieldIds
<1>3. DOMAIN fields = 1..Len(fields) /\ Len(fields) \in Nat
  OBVIOUS
<1> HIDE DEF adopted
<1>4. adoptFieldIds(fields, sent, stored) \in Seq(Field)
  BY <1>1, <1>2, <1>3
<1> QED BY <1>1, <1>2, <1>4, SameWords

(* What the page notes after it read rows that say what it sent is those   *)
(* rows.                                                                   *)
LEMMA StoredIsRead ==
  ASSUME NEW sent \in Seq(Field), NEW stored \in Seq(Field)
  PROVE  /\ Stored(sent, stored) \in Wordings
         /\ Words(sent) = Words(stored) => Stored(sent, stored) = {draftToFieldPayload(stored)}
<1> DEFINE read == [i \in DOMAIN sent |-> [sent[i] EXCEPT !.id = stored[i].id]]
<1>1. CASE Len(stored) # Len(sent)
  BY <1>1, SameWords DEF Stored, Wordings
<1>2. CASE Len(stored) = Len(sent)
  <2>1. DOMAIN sent = DOMAIN stored /\ DOMAIN sent = 1..Len(sent)
    BY <1>2
  <2>2. ASSUME NEW i \in DOMAIN sent
        PROVE  /\ read[i] \in Field /\ read[i].id = stored[i].id /\ read[i].label = sent[i].label
    <3>1. sent[i] \in Field /\ stored[i] \in Field
      <4>1. i \in DOMAIN stored
        BY <2>1
      <4> HIDE DEF read
      <4> QED BY <4>1
    <3>2. \A n \in Nat : /\ [sent[i] EXCEPT !.id = n] \in Field
                         /\ [sent[i] EXCEPT !.id = n].id = n
                         /\ [sent[i] EXCEPT !.id = n].label = sent[i].label
      BY <3>1 DEF Field
    <3>3. stored[i].id \in Nat
      BY <3>1 DEF Field
    <3>4. read[i] = [sent[i] EXCEPT !.id = stored[i].id]
      OBVIOUS
    <3> HIDE DEF read
    <3> QED BY <3>2, <3>3, <3>4
  <2>3. DOMAIN read = DOMAIN sent
    OBVIOUS
  <2>4. Stored(sent, stored) = {draftToFieldPayload(read)}
    BY <1>2 DEF Stored
  <2> HIDE DEF read
  <2>5. draftToFieldPayload(read) \in Seq([id : Nat, label : Labels \cup {Blank}])
    BY <2>1, <2>2, <2>3 DEF draftToFieldPayload, Field
  <2>6. ASSUME Words(sent) = Words(stored)
        PROVE  draftToFieldPayload(read) = draftToFieldPayload(stored)
    <3>1. \A i \in DOMAIN sent : sent[i].label = stored[i].label
      BY <2>6, SameWords
    <3> QED BY <2>1, <2>2, <2>3, <3>1 DEF draftToFieldPayload
  <2> QED BY <2>4, <2>5, <2>6 DEF Wordings
<1> QED BY <1>1, <1>2

(* What a save sends next of a form whose draft holds base, or why nothing.*)
LEMMA ChangedCases ==
  ASSUME NEW form \in Form, NEW id \in Nat, NEW base \in Snapshot
  PROVE  LET next == Changed(form, id, base)
         IN  \/ /\ next = Idle
                /\ draftPayload(form) = base.payload
                /\ fieldPayload(form) = {} \/ fieldPayload(form) = base.fields
             \/ /\ next \in Request /\ next # Idle
                /\ next.kind \in {"patch", "put"}
                /\ next.form = form /\ next.id = id /\ next.base = base
                /\ next.kind = "put" => draftPayload(form) = base.payload
<1> DEFINE with(k) == [kind |-> k, form |-> form, id |-> id, base |-> base]
<1>1. \A k \in {"patch", "put"} :
        /\ with(k) \in Request /\ with(k) # Idle
        /\ with(k).kind = k /\ with(k).form = form /\ with(k).id = id /\ with(k).base = base
  BY DEF Request, Idle
<1>2. snapshotOf(form).payload = draftPayload(form) /\ snapshotOf(form).fields = fieldPayload(form)
  BY SentTyped
<1>3. \/ Changed(form, id, base) = with("patch")
      \/ Changed(form, id, base) = with("put") /\ draftPayload(form) = base.payload
      \/ /\ Changed(form, id, base) = Idle
         /\ draftPayload(form) = base.payload
         /\ fieldPayload(form) = {} \/ fieldPayload(form) = base.fields
  BY <1>2 DEF Changed
<1> HIDE DEF with
<1> QED BY <1>1, <1>3

(* The first request of a save for the ref r, or why there is none.        *)
LEMMA SaveOnceCases ==
  ASSUME NEW r \in PageRef
  PROVE  LET next == saveOnce(r)
         IN  \/ /\ next = Idle
                /\ r.programId = NoId => ~r.form.title
                /\ r.programId # NoId =>
                     /\ draftPayload(r.form) = r.saved.payload
                     /\ fieldPayload(r.form) = {} \/ fieldPayload(r.form) = r.saved.fields
             \/ /\ next \in Request /\ next # Idle
                /\ next.kind \in {"create", "patch", "put"}
                /\ next.form = r.form /\ next.base = r.saved
                /\ next.kind # "create" => next.id = r.programId /\ r.programId # NoId
                /\ next.kind = "put" => draftPayload(r.form) = r.saved.payload
<1>1. r.form \in Form /\ r.programId \in Nat /\ r.saved \in Snapshot
  BY DEF PageRef
<1>2. CASE r.programId # NoId
  BY <1>1, <1>2, ChangedCases DEF saveOnce
<1>3. CASE r.programId = NoId /\ ~r.form.title
  BY <1>3 DEF saveOnce
<1>4. CASE r.programId = NoId /\ r.form.title
  <2> DEFINE made == [kind |-> "create", form |-> r.form, id |-> NoId, base |-> r.saved]
  <2>1. saveOnce(r) = made
    BY <1>4 DEF saveOnce
  <2>2. /\ made \in Request /\ made # Idle /\ made.kind = "create"
        /\ made.form = r.form /\ made.base = r.saved
    BY <1>1 DEF Request, Idle, NoId
  <2> QED BY <2>1, <2>2
<1> QED BY <1>2, <1>3, <1>4

(* What is sent of questions is not empty when they are not.               *)
LEMMA QuestionsSent ==
  ASSUME NEW fields \in Seq(Field), fields # <<>>
  PROVE  draftToFieldPayload(fields) # <<>>
<1>1. DOMAIN fields # {}
  BY NoQuestions
<1>2. DOMAIN draftToFieldPayload(fields) = DOMAIN fields
  BY DEF draftToFieldPayload
<1>3. <<>> \in Seq(Field) /\ Len(<<>>) = 0 /\ DOMAIN <<>> = 1..Len(<<>>)
  OBVIOUS
<1>4. DOMAIN <<>> = {}
  BY <1>3
<1> QED BY <1>1, <1>2, <1>4, Zenon

(* When a save finds nothing to send, the draft covers the form.           *)
LEMMA NothingLeft ==
  ASSUME NEW f \in Form, NEW d, NEW u, NEW s, d.rows \in Seq(Field), Mirrors(d, u, s),
         draftPayload(f) = s.payload, fieldPayload(f) = {} \/ fieldPayload(f) = s.fields
  PROVE  Covers(d, u, f)
<1>1. HasSettings(d, u, f)
  BY SentTyped DEF Mirrors, HasSettings
<1>2. ASSUME "questions" \notin u, fieldPayload(f) # {}, f.fields # <<>>
      PROVE  Words(d.rows) = Words(f.fields)
  <2> DEFINE w == draftToFieldPayload(f.fields)
  <2>1. f.fields \in Seq(Field)
    BY DEF Form
  <2>2. w \in s.fields
    BY <1>2, SentTyped
  <2>4. DOMAIN w = DOMAIN f.fields /\ \A i \in DOMAIN f.fields : w[i].label = f.fields[i].label
    BY DEF draftToFieldPayload
  <2>5. w # <<>>
    BY <1>2, <2>1, QuestionsSent
  <2>6. draftToFieldPayload(d.rows) = w
    BY <1>2, <2>2, <2>5 DEF Mirrors, MirrorsQuestions
  <2>7. /\ DOMAIN draftToFieldPayload(d.rows) = DOMAIN d.rows
        /\ \A i \in DOMAIN d.rows : draftToFieldPayload(d.rows)[i].label = d.rows[i].label
    BY DEF draftToFieldPayload
  <2> HIDE DEF w
  <2>8. DOMAIN d.rows = DOMAIN f.fields
    BY <2>4, <2>6, <2>7
  <2>9. ASSUME NEW i \in DOMAIN d.rows PROVE d.rows[i].label = f.fields[i].label
    BY <2>4, <2>6, <2>7, <2>8
  <2> QED BY <2>1, <2>8, <2>9, SameWords
<1> QED BY <1>1, <1>2 DEF Covers, HasQuestions

(* A draft whose rows are kept, or which had none, holds the questions it  *)
(* held.                                                                   *)
LEMMA RowsKept ==
  ASSUME NEW d, NEW e, NEW u, NEW v, d.rows \in Seq(Field),
         e.rows = d.rows \/ d.rows = <<>>,
         "questions" \in u => "questions" \in v
  PROVE  /\ \A f \in Form : HasQuestions(d, u, f) => HasQuestions(e, v, f)
         /\ \A s \in Snapshot : MirrorsQuestions(d, u, s) => MirrorsQuestions(e, v, s)
<1>1. CASE e.rows = d.rows
  BY <1>1 DEF HasQuestions, MirrorsQuestions
<1>2. CASE d.rows = <<>>
  <2>1. draftToFieldPayload(d.rows) = <<>>
    BY <1>2 DEF draftToFieldPayload
  <2>2. ASSUME NEW f \in Form, f.fields # <<>> PROVE Words(d.rows) # Words(f.fields)
    <3>1. f.fields \in Seq(Field)
      BY DEF Form
    <3>2. DOMAIN f.fields # {}
      BY <2>2, <3>1, NoQuestions
    <3>3. DOMAIN d.rows = {}
      BY <1>2
    <3> QED BY <3>1, <3>2, <3>3, SameWords
  <2>3. ASSUME NEW s \in Snapshot, MirrorsQuestions(d, u, s) PROVE MirrorsQuestions(e, v, s)
    BY <2>1, <2>3 DEF MirrorsQuestions
  <2> QED BY <2>2, <2>3 DEF HasQuestions
<1> QED BY <1>1, <1>2

------------------------------------------------------------------------------
PageTyped ==
  /\ view \in Page /\ latest \in PageRef
  /\ view.programId <= Len(drafts) /\ latest.programId <= Len(drafts)
  /\ mounted => (view.phase = "saving") = (task # Idle)
SaveTyped ==
  /\ task \in {Idle} \cup Request
  /\ task.kind \in {"read", "patch", "put"} => task.id \in 1..Len(drafts)
ServerTyped == drafts \in Seq(Row) /\ nextId \in Nat
PublishTyped == publish \in {NotPublishing} \cup Publishing
FlagsTyped ==
  /\ timer \in BOOLEAN /\ again \in BOOLEAN /\ mounted \in BOOLEAN /\ stopped \in BOOLEAN
  /\ missed \in BOOLEAN
  /\ acts \in 0..MaxActs /\ failures \in 0..MaxFailures
  /\ unsure \subseteq {"settings", "questions"}
Typed == PageTyped /\ SaveTyped /\ ServerTyped /\ PublishTyped

(* The page and a running save know the same: the ref holds the form and   *)
(* what is saved, the save started from the latter, and a save of a draft  *)
(* the page knows does not forget which draft it is.                       *)
PageInv ==
  /\ Like(view.form, latest.form)
  /\ mounted => view.saved = latest.saved
  /\ task # Idle => task.base = latest.saved
  /\ task.kind = "put" => draftPayload(task.form) = task.base.payload
  /\ task.kind \in {"patch", "put"} /\ view.programId # NoId => latest.programId # NoId

(* The only draft mirrors what the page has noted as saved; while it is    *)
(* read back it holds what was sent, and the page does not know of it.     *)
DraftInv ==
  /\ drafts = <<>> => latest.saved = NoSnapshot
  /\ Len(drafts) = 1 => Mirrors(drafts[1], unsure, latest.saved)
  /\ Len(drafts) = 1 /\ task.kind = "read" =>
       /\ drafts[1].payload = draftPayload(task.form)
       /\ Words(drafts[1].rows) = Words(task.form.fields)
       /\ view.programId = NoId

(* Once the page is left, the save that runs takes the last form or will   *)
(* start over with it, and when none runs the draft covers that form.      *)
LeaveInv ==
  ~mounted /\ ~stopped /\ latest.form.title /\ ~missed /\ Len(drafts) <= 1 =>
    /\ task # Idle => again \/ task.form = latest.form
    /\ task = Idle => Len(drafts) = 1 /\ Covers(drafts[1], unsure, latest.form)

(* A publication remembers the form there is; while it waits, a save runs  *)
(* that takes a form it remembers or will start over; when it goes on, the *)
(* draft holds such a form, and a save that runs again takes one, too.     *)
PublishInv ==
  publish # NotPublishing =>
    /\ view.programId # NoId /\ publish.id \in 1..Len(drafts)
    /\ \E f \in publish.forms : Like(f, latest.form)
    /\ publish.at = "flush" => task # Idle
    /\ task # Idle /\ (publish.at = "flush" => ~again)
         => \E f \in publish.forms : Like(f, task.form)
    /\ publish.at # "flush" /\ Len(drafts) = 1 => Flushed(drafts[1], unsure, publish.forms)

StateInv == Typed /\ PageInv /\ DraftInv /\ LeaveInv /\ PublishInv
Inv == FlagsTyped /\ StateInv

------------------------------------------------------------------------------
(* What the handlers do to the drafts.                                     *)
LEMMA DefaultTyped == DefaultForm \in Seq(Field) /\ Len(DefaultForm) \in Nat
<1>1. Default \in Labels
  BY DEF Default
<1>2. Question(DefaultKey, Default) \in Field
  BY <1>1 DEF Question, Field, NoId
<1> QED BY <1>2 DEF DefaultForm

(* A program that is made comes last and holds what was sent.              *)
LEMMA MadeRow ==
  ASSUME ServerTyped, NEW form \in Form, createProgram(form)
  PROVE  LET n == Len(drafts) + 1
         IN  /\ ServerTyped' /\ Len(drafts') = n
             /\ drafts'[n].payload = draftPayload(form)
             /\ fieldPayload(form) # {} => Words(drafts'[n].rows) = Words(form.fields)
<1> DEFINE fields == IF ~takesApplications(form) THEN <<>>
                     ELSE IF fieldPayload(form) # {} THEN form.fields ELSE DefaultForm
           row == [payload |-> draftPayload(form), rows |-> Rows(fields, {}, nextId),
                   status |-> "draft", published |-> FALSE, gone |-> FALSE]
<1>1. fields \in Seq(Field)
  <2>1. form.fields \in Seq(Field) /\ <<>> \in Seq(Field)
    BY DEF Form
  <2> QED BY <2>1, DefaultTyped
<1>2. fieldPayload(form) # {} => fields = form.fields
  BY DEF fieldPayload
<1>3. drafts' = Append(drafts, row) /\ nextId' = nextId + Fresh(fields, {})
  BY DEF createProgram
<1> HIDE DEF fields
<1>4. /\ Rows(fields, {}, nextId) \in Seq(Field) /\ Fresh(fields, {}) \in Nat
      /\ Words(Rows(fields, {}, nextId)) = Words(fields)
  BY <1>1, RowsTyped DEF ServerTyped
<1>5. /\ row \in Row /\ row.payload = draftPayload(form)
      /\ row.rows = Rows(fields, {}, nextId)
  BY <1>4, SentTyped DEF Row
<1> HIDE DEF row
<1>6. /\ drafts' \in Seq(Row) /\ Len(drafts') = Len(drafts) + 1
      /\ drafts'[Len(drafts) + 1] = row
  BY <1>3, <1>5 DEF ServerTyped
<1>7. nextId' \in Nat
  BY <1>3, <1>4 DEF ServerTyped
<1> QED BY <1>2, <1>4, <1>5, <1>6, <1>7 DEF ServerTyped

(* A row written in its place.                                             *)
LEMMA RowWritten ==
  ASSUME drafts \in Seq(Row), NEW id \in 1..Len(drafts), NEW row \in Row,
         drafts' = [drafts EXCEPT ![id] = row]
  PROVE  /\ drafts' \in Seq(Row) /\ Len(drafts') = Len(drafts) /\ drafts'[id] = row
         /\ drafts[id] \in Row
OBVIOUS

(* A program that is patched holds the settings that were sent, and the    *)
(* questions it had, if any.                                               *)
LEMMA PatchedRow ==
  ASSUME ServerTyped, NEW form \in Form, NEW id \in 1..Len(drafts), updateProgram(form, id)
  PROVE  /\ ServerTyped' /\ Len(drafts') = Len(drafts)
         /\ drafts'[id].payload = draftPayload(form)
         /\ drafts'[id].rows = drafts[id].rows \/ drafts[id].rows = <<>>
         /\ drafts[id].rows \in Seq(Field)
<1> DEFINE needs == takesApplications(form) /\ drafts[id].rows = <<>>
                    /\ \A p \in drafts[id].payload : p.settings \notin Recruiting
           rows == IF needs THEN Rows(DefaultForm, {}, nextId) ELSE drafts[id].rows
           row == [drafts[id] EXCEPT !.payload = draftPayload(form), !.status = "draft", !.rows = rows]
<1>1. drafts[id] \in Row
  BY DEF ServerTyped
<1>2. drafts[id].rows \in Seq(Field)
  BY <1>1 DEF Row
<1>3. rows \in Seq(Field)
  BY <1>2, DefaultTyped, RowsTyped DEF ServerTyped
<1>4. drafts' = [drafts EXCEPT ![id] = row]
  BY <1>1 DEF updateProgram, ServerTyped
<1>5. nextId' \in Nat
  BY DefaultTyped DEF updateProgram, ServerTyped
<1>6. rows = drafts[id].rows \/ drafts[id].rows = <<>>
  OBVIOUS
<1> HIDE DEF rows
<1>7. row \in Row /\ row.payload = draftPayload(form) /\ row.rows = rows
  BY <1>1, <1>3, SentTyped DEF Row
<1> HIDE DEF row
<1> QED BY <1>2, <1>4, <1>5, <1>6, <1>7, RowWritten DEF ServerTyped

(* A form that is replaced holds the questions that were sent.             *)
LEMMA ReplacedRow ==
  ASSUME ServerTyped, NEW form \in Form, NEW id \in 1..Len(drafts), replaceApplicationFields(form, id)
  PROVE  /\ ServerTyped' /\ Len(drafts') = Len(drafts)
         /\ drafts'[id].payload = drafts[id].payload
         /\ Words(drafts'[id].rows) = Words(form.fields)
<1> DEFINE known == Ids(drafts[id].rows)
           rows == Rows(form.fields, known, nextId)
           row == [drafts[id] EXCEPT !.rows = rows]
<1>1. drafts[id] \in Row /\ form.fields \in Seq(Field)
  BY DEF ServerTyped, Form
<1>2. drafts' = [drafts EXCEPT ![id] = row] /\ nextId' = nextId + Fresh(form.fields, known)
  BY <1>1 DEF replaceApplicationFields, ServerTyped
<1>3. /\ rows \in Seq(Field) /\ Words(rows) = Words(form.fields)
      /\ Fresh(form.fields, known) \in Nat
  BY <1>1, RowsTyped DEF ServerTyped
<1> HIDE DEF known, rows
<1>4. row \in Row /\ row.payload = drafts[id].payload /\ row.rows = rows
  BY <1>1, <1>3 DEF Row
<1>5. nextId' \in Nat
  BY <1>2, <1>3 DEF ServerTyped
<1> HIDE DEF row
<1> QED BY <1>2, <1>3, <1>4, <1>5, RowWritten DEF ServerTyped

------------------------------------------------------------------------------
(* What the timer is set to is a truth value.                              *)
LEMMA DirtyTyped ==
  ASSUME NEW v \in Page
  PROVE  dirty(v) \in BOOLEAN /\ (dirty(v) /\ ~blockedByError(v)) \in BOOLEAN
<1>1. v.form.title \in BOOLEAN
  BY DEF Page, Form
<1> QED BY <1>1 DEF dirty

(* The parts of a publication.                                             *)
LEMMA PublicationParts ==
  ASSUME PublishTyped
  PROVE  /\ publish # NotPublishing => publish \in Publishing
         /\ publish = NotPublishing <=> publish.at = "none"
         /\ publish \in Publishing =>
              /\ publish.at \in {"flush", "status", "publish", "published"}
              /\ publish.forms \subseteq Form
              /\ \A a \in {"flush", "status", "publish", "published"} :
                   LET next == [publish EXCEPT !.at = a]
                   IN  /\ next \in Publishing /\ next.at = a
                       /\ next.id = publish.id /\ next.forms = publish.forms
              /\ \A F \in SUBSET Form :
                   LET next == [publish EXCEPT !.forms = F]
                   IN  /\ next \in Publishing /\ next.forms = F
                       /\ next.id = publish.id /\ next.at = publish.at
BY DEF PublishTyped, Publishing, NotPublishing

(* The page shows the state it has, or an edit of the form.                *)
LEMMA ShownStep ==
  ASSUME FlagsTyped, StateInv, mounted, NEW v \in Page, Shown(v),
         v.programId = view.programId, v.saved = view.saved, v.phase = view.phase,
         UNCHANGED <<task, again, mounted, stopped, server, history>>,
         \/ publish = NotPublishing /\ publish' = publish
         \/ /\ publish # NotPublishing
            /\ \E F \in SUBSET Form : /\ publish' = [publish EXCEPT !.forms = F]
                                      /\ publish.forms \subseteq F
                                      /\ \E f \in F : Like(f, v.form)
  PROVE  StateInv' /\ timer' \in BOOLEAN
<1>1. /\ view' = v /\ latest' = Ref(v) /\ drafts' = drafts /\ nextId' = nextId
      /\ task' = task /\ again' = again /\ mounted' = mounted /\ unsure' = unsure
  BY DEF Shown, server, history
<1>2. /\ latest' \in PageRef /\ latest'.form = v.form
      /\ latest'.programId = view.programId /\ latest'.saved = latest.saved
  BY <1>1 DEF Ref, Page, PageRef, StateInv, PageInv
<1>3. timer' \in BOOLEAN
  BY DirtyTyped DEF Shown, FlagsTyped
<1>4. PageTyped'
  BY <1>1, <1>2 DEF PageTyped, StateInv, Typed
<1>5. SaveTyped' /\ ServerTyped'
  BY <1>1 DEF SaveTyped, ServerTyped, StateInv, Typed
<1>6. PublishTyped'
  BY PublicationParts DEF PublishTyped, StateInv, Typed
<1>7. PageInv'
  BY <1>1, <1>2 DEF PageInv, StateInv, Like
<1>8. DraftInv'
  BY <1>1, <1>2 DEF DraftInv, StateInv
<1>9. LeaveInv'
  BY <1>1 DEF LeaveInv
<1>10. PublishInv'
  <2>1. CASE publish = NotPublishing /\ publish' = publish
    BY <2>1 DEF PublishInv
  <2>2. CASE publish # NotPublishing
    <3>1. PICK F \in SUBSET Form : /\ publish' = [publish EXCEPT !.forms = F]
                                   /\ publish.forms \subseteq F
                                   /\ \E f \in F : Like(f, v.form)
      BY <2>2
    <3>2. /\ publish'.forms = F /\ publish'.id = publish.id /\ publish'.at = publish.at
      BY <2>2, <3>1, PublicationParts DEF StateInv, Typed
    <3>3. Flushed(drafts[1], unsure, publish.forms) => Flushed(drafts[1], unsure, F)
      BY <3>1 DEF Flushed
    <3> HIDE DEF Like, Flushed
    <3> QED BY <2>2, <1>1, <1>2, <3>1, <3>2, <3>3 DEF PublishInv, StateInv
  <2> QED BY <2>1, <2>2
<1> QED BY <1>3, <1>4, <1>5, <1>6, <1>7, <1>8, <1>9, <1>10 DEF StateInv, Typed

(* The page after a save, and while one runs.                              *)
LEMMA PhaseTyped ==
  ASSUME NEW v \in Page, NEW r
  PROVE  /\ Done(v, r) \in Page /\ Done(v, r).phase # "saving"
         /\ Done(v, r).form = v.form /\ Done(v, r).programId = v.programId
         /\ Done(v, r).saved = v.saved
         /\ LET saving == [v EXCEPT !.phase = "saving"]
            IN  /\ saving \in Page /\ saving.phase = "saving"
                /\ saving.form = v.form /\ saving.programId = v.programId
                /\ saving.saved = v.saved
<1> DEFINE phase == IF r.programId # NoId THEN "saved" ELSE "idle"
<1>1. Done(v, r) = [v EXCEPT !.phase = phase, !.error = {}]
  BY DEF Done
<1>2. phase \in {"saved", "idle"}
  OBVIOUS
<1> HIDE DEF phase
<1> QED BY <1>1, <1>2 DEF Page

(* A draft that covers one of the forms a publication remembers is fit for *)
(* it.                                                                     *)
LEMMA CoveredIsFlushed ==
  ASSUME NEW d, NEW u, NEW forms \in SUBSET Form, NEW g \in Form, Covers(d, u, g),
         \E f \in forms : Like(f, g)
  PROVE  Flushed(d, u, forms)
<1>1. PICK f \in forms : Like(f, g)
  OBVIOUS
<1>2. Like(g, f)
  BY <1>1 DEF Like
<1>3. HasSettings(d, u, f) /\ HasQuestions(d, u, f)
  BY <1>1, <1>2, LikeCovered DEF Covers
<1> QED BY <1>1, <1>3 DEF Flushed

(* When a save of the ref r finds nothing to send, the only draft covers   *)
(* the form: it has noted everything there is.                             *)
LEMMA NothingToSave ==
  ASSUME NEW r \in PageRef, saveOnce(r) = Idle, NEW d, NEW u, d.rows \in Seq(Field),
         Mirrors(d, u, r.saved), r.programId # NoId \/ r.form.title
  PROVE  Covers(d, u, r.form)
<1>1. r.form \in Form
  BY DEF PageRef
<1>2. r.programId # NoId
  BY SaveOnceCases
<1>3. /\ draftPayload(r.form) = r.saved.payload
      /\ fieldPayload(r.form) = {} \/ fieldPayload(r.form) = r.saved.fields
  BY <1>2, SaveOnceCases
<1> QED BY <1>1, <1>3, NothingLeft

(* None, one or more drafts.                                               *)
LEMMA FewDrafts ==
  ASSUME NEW ds \in Seq(Row)
  PROVE  /\ Len(ds) \in Nat
         /\ Len(ds) <= 1 => Len(ds) = 0 \/ Len(ds) = 1
         /\ ds = <<>> <=> Len(ds) = 0
         /\ \A i \in 1..Len(ds) : ds[i] \in Row
         /\ Len(ds) = 1 => ds[1] \in Row /\ ds[1].rows \in Seq(Field)
<1>1. Len(ds) \in Nat
  OBVIOUS
<1>2. \A n \in Nat : n <= 1 => n = 0 \/ n = 1
  OBVIOUS
<1>3. \A i \in 1..Len(ds) : ds[i] \in Row
  OBVIOUS
<1>4. \A d \in Row : d.rows \in Seq(Field)
  BY DEF Row
<1>5. Len(ds) = 1 => 1 \in 1..Len(ds)
  OBVIOUS
<1>6. ds = <<>> <=> Len(ds) = 0
  OBVIOUS
<1> QED BY <1>1, <1>2, <1>3, <1>4, <1>5, <1>6

(* The only draft is the first.                                            *)
LEMMA OneDraft ==
  ASSUME NEW ds \in Seq(Row), NEW i \in 1..Len(ds)
  PROVE  ds[i] \in Row /\ ds[i].rows \in Seq(Field) /\ (Len(ds) = 1 => i = 1)
<1>1. ds[i] \in Row
  OBVIOUS
<1>2. Len(ds) = 1 => i = 1
  OBVIOUS
<1> QED BY <1>1, <1>2 DEF Row

(* A flush, by the timer, a button, the publication p or the page that is  *)
(* left.                                                                   *)
LEMMA FlushStep ==
  ASSUME FlagsTyped, StateInv, NEW p, FlushFor(p),
         UNCHANGED <<latest, server, history, stopped>>,
         mounted' \in BOOLEAN, mounted' => mounted,
         \/ p = publish
         \/ /\ p \in Publishing /\ p.at = "flush" /\ p.id \in 1..Len(drafts)
            /\ view.programId # NoId /\ view.form.title
            /\ \E f \in p.forms : Like(f, latest.form)
  PROVE  StateInv' /\ again' \in BOOLEAN
<1> USE DEF StateInv, Typed
<1> DEFINE first == saveOnce(latest)
<1>0. /\ latest' = latest /\ drafts' = drafts /\ nextId' = nextId /\ unsure' = unsure
      /\ missed' = missed /\ stopped' = stopped
  BY DEF server, history
<1>1. /\ latest \in PageRef /\ view \in Page /\ latest.form \in Form
      /\ drafts \in Seq(Row) /\ latest.programId <= Len(drafts)
  BY DEF PageTyped, PageRef, ServerTyped
<1>2. ServerTyped' /\ (drafts = <<>> => latest.saved = NoSnapshot)'
  BY <1>0 DEF ServerTyped, DraftInv
<1>3. Len(drafts) = 1 => Mirrors(drafts[1], unsure, latest.saved) /\ drafts[1].rows \in Seq(Field)
  BY <1>1, FewDrafts DEF DraftInv
<1>4. CASE task # Idle
  <2>1. again' = TRUE /\ publish' = p /\ task' = task /\ view' = view
    BY <1>4 DEF FlushFor
  <2>2. PageTyped' /\ SaveTyped' /\ PublishTyped'
    BY <1>0, <2>1 DEF PageTyped, SaveTyped, PublishTyped
  <2>3. PageInv' /\ DraftInv'
    <3> HIDE DEF Like, Mirrors
    <3> QED BY <1>0, <2>1 DEF PageInv, DraftInv
  <2>4. LeaveInv'
    BY <1>4, <2>1 DEF LeaveInv
  <2>5. PublishInv'
    BY <1>0, <1>4, <2>1, PublicationParts DEF PublishInv, NotPublishing
  <2> QED BY <1>2, <2>1, <2>2, <2>3, <2>4, <2>5
<1>5. CASE task = Idle
  <2>1. /\ again' = FALSE /\ task' = first
        /\ view' = IF first = Idle THEN Done(view, latest) ELSE [view EXCEPT !.phase = "saving"]
        /\ publish' = IF first = Idle /\ p.at = "flush" THEN [p EXCEPT !.at = "status"] ELSE p
    BY <1>5 DEF FlushFor
  <2>2. \/ first = Idle
        \/ /\ first \in Request /\ first # Idle
           /\ first.kind \in {"create", "patch", "put"}
           /\ first.form = latest.form /\ first.base = latest.saved
           /\ first.kind # "create" => first.id = latest.programId /\ latest.programId # NoId
           /\ first.kind = "put" => draftPayload(latest.form) = latest.saved.payload
    BY <1>1, SaveOnceCases
  <2>3. Len(drafts) = 1 /\ first = Idle /\ (latest.programId # NoId \/ latest.form.title)
          => Covers(drafts[1], unsure, latest.form)
    BY <1>1, <1>3, NothingToSave
  <2>4. first = Idle /\ latest.form.title => latest.programId # NoId
    BY <1>1, SaveOnceCases
  <2> HIDE DEF first
  <2>5. /\ view' \in Page /\ view'.form = view.form /\ view'.programId = view.programId
        /\ view'.saved = view.saved /\ (view'.phase = "saving") = (task' # Idle)
    BY <1>1, <2>1, PhaseTyped
  <2>6. PageTyped'
    BY <1>0, <2>5 DEF PageTyped
  <2>7. SaveTyped'
    <3>1. first.kind # "create" /\ first # Idle => first.id \in 1..Len(drafts)
      BY <1>1, <2>2 DEF NoId, PageRef
    <3> QED BY <1>0, <2>1, <2>2, <3>1 DEF SaveTyped, Idle
  <2>8. PageInv'
    <3>1. Idle.kind = "none"
      BY DEF Idle
    <3> HIDE DEF Like
    <3> QED BY <1>0, <2>1, <2>2, <2>5, <3>1 DEF PageInv
  <2>9. DraftInv'
    <3>1. task'.kind # "read"
      BY <2>1, <2>2 DEF Idle
    <3> HIDE DEF Mirrors
    <3> QED BY <1>0, <3>1 DEF DraftInv
  <2>10. LeaveInv'
    <3>1. Len(drafts) \in Nat
      BY <1>1, FewDrafts
    <3>2. latest.programId # NoId => Len(drafts) # 0
      BY <1>1, <3>1 DEF PageRef, NoId
    <3>3. Len(drafts) <= 1 => Len(drafts) = 0 \/ Len(drafts) = 1
      BY <1>1, FewDrafts
    <3>4. CASE first = Idle
      <4> HIDE DEF Covers
      <4> QED BY <1>0, <2>1, <2>3, <2>4, <3>2, <3>3, <3>4 DEF LeaveInv
    <3>5. CASE first # Idle
      BY <1>0, <2>1, <2>2, <3>5 DEF LeaveInv
    <3> QED BY <3>4, <3>5
  <2>11. PublishTyped' /\ PublishInv'
    <3>1. CASE p = publish
      <4>1. publish # NotPublishing => publish.at # "flush"
        BY <1>5 DEF PublishInv
      <4>2. publish' = publish
        BY <2>1, <3>1, <4>1 DEF NotPublishing
      <4> HIDE DEF Like, Flushed
      <4> QED BY <1>0, <2>1, <2>2, <2>5, <4>1, <4>2 DEF PublishInv, PublishTyped
    <3>2. CASE /\ p \in Publishing /\ p.at = "flush" /\ p.id \in 1..Len(drafts)
               /\ view.programId # NoId /\ view.form.title
               /\ \E f \in p.forms : Like(f, latest.form)
      <4>1. latest.form.title
        BY <3>2 DEF PageInv, Like
      <4>2. p.forms \in SUBSET Form
        BY <3>2 DEF Publishing
      <4>3. Len(drafts) = 1 /\ first = Idle => Flushed(drafts[1], unsure, p.forms)
        BY <1>1, <2>3, <3>2, <4>1, <4>2, CoveredIsFlushed
      <4>4. LET next == [p EXCEPT !.at = "status"]
            IN  next \in Publishing /\ next.at = "status" /\ next.id = p.id /\ next.forms = p.forms
        BY <3>2 DEF Publishing
      <4>5. CASE first = Idle
        <5>1. /\ publish' \in Publishing /\ publish'.at = "status"
              /\ publish'.id = p.id /\ publish'.forms = p.forms
          BY <2>1, <3>2, <4>4, <4>5
        <5> HIDE DEF Like, Flushed
        <5> QED BY <1>0, <2>1, <2>5, <3>2, <4>3, <4>5, <5>1 DEF PublishInv, PublishTyped
      <4>6. CASE first # Idle
        <5>1. publish' = p
          BY <2>1, <4>6
        <5> HIDE DEF Like, Flushed
        <5> QED BY <1>0, <2>1, <2>2, <2>5, <3>2, <4>6, <5>1 DEF PublishInv, PublishTyped
      <4> QED BY <4>5, <4>6
    <3> QED BY <3>1, <3>2
  <2> QED BY <1>2, <2>1, <2>6, <2>7, <2>8, <2>9, <2>10, <2>11
<1> QED BY <1>4, <1>5

(* A request was answered: the save goes on with c, starts over or ends,   *)
(* and leaves the ref r and the page v.                                    *)
LEMMA ContinueStep ==
  ASSUME FlagsTyped, StateInv, NEW c, NEW r \in PageRef, NEW v \in Page, Continue(c, r, v),
         task # Idle, UNCHANGED <<mounted, stopped, missed>>,
         ServerTyped', Len(drafts') >= 1, Len(drafts) <= Len(drafts'),
         r.form = latest.form, Like(v.form, r.form), v.saved = r.saved, v.phase = view.phase,
         r.programId <= Len(drafts'), v.programId <= Len(drafts'),
         view.programId # NoId => v.programId # NoId,
         \/ c = Idle
         \/ /\ c \in Request /\ c # Idle /\ c.kind = "put" /\ c.form = task.form
            /\ c.base = r.saved
            /\ c.id \in 1..Len(drafts') /\ draftPayload(c.form) = c.base.payload
            /\ v.programId # NoId => r.programId # NoId,
         Len(drafts') = 1 =>
           /\ Mirrors(drafts'[1], unsure', r.saved)
           /\ c = Idle => Covers(drafts'[1], unsure', task.form)
           /\ publish # NotPublishing =>
                /\ r.programId # NoId
                /\ publish.at # "flush" => Flushed(drafts'[1], unsure', publish.forms)
  PROVE  StateInv' /\ again' \in BOOLEAN
<1> DEFINE restart == c = Idle /\ again
           next == IF restart THEN saveOnce(r) ELSE c
           Noted == Len(drafts') = 1 => /\ Mirrors(drafts'[1], unsure', r.saved)
                                        /\ c = Idle => Covers(drafts'[1], unsure', task.form)
           Ready == Len(drafts') = 1 /\ publish # NotPublishing =>
                      /\ r.programId # NoId
                      /\ publish.at # "flush" => Flushed(drafts'[1], unsure', publish.forms)
<1>a. Noted /\ Ready
  OBVIOUS
<1> HIDE DEF Noted, Ready
<1>b. /\ PageTyped /\ SaveTyped /\ ServerTyped /\ PublishTyped
      /\ PageInv /\ DraftInv /\ LeaveInv /\ PublishInv
  BY DEF StateInv, Typed
<1>1. /\ task' = next /\ again' = (IF restart THEN FALSE ELSE again) /\ latest' = r
      /\ view' = (IF ~mounted THEN view ELSE IF next = Idle THEN Done(v, r) ELSE v)
      /\ publish' = (IF next = Idle /\ publish.at = "flush" THEN [publish EXCEPT !.at = "status"]
                     ELSE publish)
      /\ mounted' = mounted /\ stopped' = stopped /\ missed' = missed
  BY DEF Continue, Ended
<1>2. again' \in BOOLEAN
  BY <1>1 DEF FlagsTyped
<1>3. /\ r.form \in Form /\ r.programId \in Nat /\ v.programId \in Nat /\ view.programId \in Nat
      /\ view \in Page
      /\ Len(drafts) \in Nat /\ Len(drafts') \in Nat
  BY <1>b, FewDrafts DEF PageRef, Page, PageTyped, ServerTyped
<1>4. /\ Len(drafts') = 1 => drafts'[1].rows \in Seq(Field)
      /\ drafts' # <<>> /\ (Len(drafts') <= 1 => Len(drafts') = 1 /\ Len(drafts) <= 1)
  BY <1>3, FewDrafts DEF ServerTyped
<1>5. \/ next = Idle
      \/ /\ next \in Request /\ next # Idle /\ next.base = r.saved
         /\ next.kind \in {"create", "patch", "put"}
         /\ next.kind = "put" => draftPayload(next.form) = next.base.payload
         /\ next.kind # "create" => /\ next.id \in 1..Len(drafts')
                                    /\ v.programId # NoId => r.programId # NoId
         /\ next.form = IF restart THEN r.form ELSE task.form
  <2>1. CASE restart
    <3>1. r.programId # NoId => r.programId \in 1..Len(drafts')
      BY <1>3 DEF NoId
    <3> QED BY <2>1, <3>1, SaveOnceCases
  <2>2. CASE ~restart
    BY <2>2
  <2> QED BY <2>1, <2>2
<1>6. Len(drafts') = 1 /\ next = Idle =>
        \/ ~again /\ Covers(drafts'[1], unsure', task.form)
        \/ again /\ (r.programId # NoId \/ r.form.title => Covers(drafts'[1], unsure', r.form))
  <2> SUFFICES ASSUME Len(drafts') = 1, next = Idle
               PROVE  \/ ~again /\ Covers(drafts'[1], unsure', task.form)
                      \/ again /\ (r.programId # NoId \/ r.form.title
                                     => Covers(drafts'[1], unsure', r.form))
    OBVIOUS
  <2>1. CASE restart
    <3>1. saveOnce(r) = Idle
      BY <2>1
    <3>2. Mirrors(drafts'[1], unsure', r.saved) /\ drafts'[1].rows \in Seq(Field)
      BY <1>a, <1>4 DEF Noted
    <3> QED BY <2>1, <3>1, <3>2, NothingToSave
  <2>2. CASE ~restart
    <3>1. c = Idle /\ ~again
      BY <2>2
    <3> QED BY <1>a, <3>1 DEF Noted
  <2> QED BY <2>1, <2>2
<1> HIDE DEF next
<1>7. PageTyped'
  <2>1. CASE ~mounted
    BY <1>1, <1>3, <1>b, <2>1 DEF PageTyped
  <2>2. CASE mounted
    <3>1. v.phase = "saving"
      BY <1>b, <2>2 DEF PageTyped
    <3>2. /\ view' \in Page /\ view'.programId = v.programId
          /\ (view'.phase = "saving") = (next # Idle)
      BY <1>1, <2>2, <3>1, PhaseTyped
    <3> QED BY <1>1, <1>3, <3>2 DEF PageTyped
  <2> QED BY <2>1, <2>2
<1>8. SaveTyped'
  BY <1>1, <1>5 DEF SaveTyped, Idle
<1>9. PublishTyped' /\ (publish' # NotPublishing <=> publish # NotPublishing)
  BY <1>1, <1>b, PublicationParts DEF PublishTyped, Publishing, NotPublishing
<1>10. /\ view'.programId # NoId => (next # Idle /\ next.kind # "create" => r.programId # NoId)
       /\ view.programId # NoId => view'.programId # NoId
       /\ Like(view'.form, r.form) /\ (mounted => view'.saved = r.saved)
  <2>1. CASE ~mounted
    <3>1. Like(view.form, r.form)
      BY <1>b DEF PageInv
    <3> HIDE DEF Like
    <3> QED BY <1>1, <1>5, <2>1, <3>1
  <2>2. CASE mounted
    <3>1. /\ view'.programId = v.programId /\ view'.form = v.form /\ view'.saved = v.saved
      BY <1>1, <2>2, PhaseTyped
    <3> HIDE DEF Like
    <3> QED BY <1>5, <3>1
  <2> QED BY <2>1, <2>2
<1>11. PageInv'
  <2>1. Idle.kind = "none"
    BY DEF Idle
  <2> HIDE DEF Like
  <2> QED BY <1>1, <1>5, <1>10, <2>1 DEF PageInv
<1>12. DraftInv'
  <2>1. next.kind # "read"
    BY <1>5 DEF Idle
  <2> HIDE DEF Mirrors
  <2> QED BY <1>1, <1>4, <1>a, <2>1 DEF DraftInv, Noted
<1>13. LeaveInv'
  <2> SUFFICES ASSUME ~mounted, ~stopped, r.form.title, ~missed, Len(drafts') <= 1
               PROVE  /\ next # Idle => again' \/ next.form = r.form
                      /\ next = Idle => Len(drafts') = 1 /\ Covers(drafts'[1], unsure', r.form)
    BY <1>1 DEF LeaveInv
  <2>1. again \/ task.form = r.form
    BY <1>4, <1>b DEF LeaveInv
  <2>2. next # Idle => again' \/ next.form = r.form
    BY <1>1, <1>5, <2>1
  <2>3. next = Idle => Covers(drafts'[1], unsure', r.form)
    BY <1>4, <1>6, <2>1
  <2> QED BY <1>4, <2>2, <2>3
<1>14. PublishInv'
  <2> SUFFICES ASSUME publish # NotPublishing PROVE PublishInv'
    BY <1>9 DEF PublishInv
  <2>1. publish \in Publishing /\ publish.forms \in SUBSET Form
    BY <1>b, PublicationParts
  <2>2. publish'.forms = publish.forms /\ publish'.id = publish.id
    BY <1>1, <2>1, PublicationParts, <1>b
  <2>3. /\ view'.programId # NoId /\ publish'.id \in 1..Len(drafts')
        /\ \E f \in publish'.forms : Like(f, r.form)
    BY <1>3, <1>10, <1>b, <2>2 DEF PublishInv
  <2>4. next # Idle /\ (publish.at = "flush" => ~again')
           => \E f \in publish.forms : Like(f, next.form)
    <3> HIDE DEF Like
    <3> QED BY <1>1, <1>5, <1>b, <2>2, <2>3 DEF PublishInv
  <2>5. Len(drafts') = 1 /\ publish.at = "flush" /\ next = Idle
           => Flushed(drafts'[1], unsure', publish.forms)
    <3> SUFFICES ASSUME Len(drafts') = 1, publish.at = "flush", next = Idle
                 PROVE  Flushed(drafts'[1], unsure', publish.forms)
      OBVIOUS
    <3>1. CASE ~again
      <4>1. \E f \in publish.forms : Like(f, task.form)
        BY <1>b, <3>1 DEF PublishInv
      <4>2. task.form \in Form
        BY <1>b DEF SaveTyped, Request
      <4> QED BY <1>6, <2>1, <3>1, <4>1, <4>2, CoveredIsFlushed
    <3>2. CASE again
      <4>1. r.programId # NoId
        BY <1>a DEF Ready
      <4> QED BY <1>3, <1>6, <2>1, <2>2, <2>3, <3>2, <4>1, CoveredIsFlushed
    <3> QED BY <3>1, <3>2
  <2>6. CASE next = Idle /\ publish.at = "flush"
    <3>1. publish'.at = "status"
      BY <1>1, <1>b, <2>1, <2>6, PublicationParts
    <3> HIDE DEF Like, Flushed
    <3> QED BY <1>1, <2>2, <2>3, <2>5, <2>6, <3>1 DEF PublishInv
  <2>7. CASE ~(next = Idle /\ publish.at = "flush")
    <3>1. publish' = publish
      BY <1>1, <2>7
    <3> HIDE DEF Like, Flushed
    <3> QED BY <1>1, <1>a, <2>3, <2>4, <2>7, <3>1 DEF PublishInv, Ready
  <2> QED BY <2>6, <2>7
<1> QED BY <1>2, <1>7, <1>8, <1>9, <1>11, <1>12, <1>13, <1>14 DEF StateInv, Typed

(* A request failed, whatever it did to the drafts.                        *)
LEMMA FailStep ==
  ASSUME FlagsTyped, StateInv, Failed, task # Idle,
         ServerTyped', Len(drafts) <= Len(drafts'),
         Len(drafts') = 1 =>
           /\ Mirrors(drafts'[1], unsure', latest.saved)
           /\ publish # NotPublishing /\ publish.at # "flush"
                => Flushed(drafts'[1], unsure', publish.forms)
  PROVE  StateInv' /\ missed' \in BOOLEAN /\ UNCHANGED <<timer, again, mounted, stopped, acts>>
<1> DEFINE Ready == Len(drafts') = 1 =>
                      /\ Mirrors(drafts'[1], unsure', latest.saved)
                      /\ publish # NotPublishing /\ publish.at # "flush"
                           => Flushed(drafts'[1], unsure', publish.forms)
           error == [view EXCEPT !.phase = "error", !.error = {snapshotOf(latest.form)}]
<1>a. Ready
  OBVIOUS
<1> HIDE DEF Ready
<1>b. /\ PageTyped /\ SaveTyped /\ ServerTyped /\ PublishTyped /\ PageInv /\ DraftInv /\ PublishInv
  BY DEF StateInv, Typed
<1>1. /\ task' = Idle /\ latest' = latest /\ mounted' = mounted /\ missed' = (missed \/ ~mounted)
      /\ view' = IF mounted THEN error ELSE view
      /\ publish' = IF publish.at # "flush" THEN publish ELSE NotPublishing
      /\ UNCHANGED <<timer, again, mounted, stopped, acts>>
  BY DEF Failed, Ended
<1>2. missed' \in BOOLEAN
  BY <1>1 DEF FlagsTyped
<1>3. /\ view \in Page /\ latest.form \in Form /\ view.programId \in Nat /\ latest.programId \in Nat
      /\ Len(drafts) \in Nat /\ Len(drafts') \in Nat
      /\ drafts' = <<>> => drafts = <<>>
  <2>1. /\ view \in Page /\ latest.form \in Form /\ view.programId \in Nat /\ latest.programId \in Nat
    BY <1>b DEF PageTyped, Page, PageRef
  <2>2. /\ Len(drafts) \in Nat /\ Len(drafts') \in Nat
        /\ drafts' = <<>> <=> Len(drafts') = 0
        /\ drafts = <<>> <=> Len(drafts) = 0
    BY <1>b, FewDrafts DEF ServerTyped
  <2> QED BY <2>1, <2>2
<1>4. /\ error \in Page /\ error.phase = "error" /\ error.form = view.form
      /\ error.programId = view.programId /\ error.saved = view.saved
  <2>1. {snapshotOf(latest.form)} \subseteq Snapshot
    BY <1>3, SentTyped
  <2> QED BY <1>3, <2>1 DEF Page
<1> HIDE DEF error
<1>5. /\ view' \in Page /\ view'.form = view.form /\ view'.programId = view.programId
      /\ view'.saved = view.saved /\ (mounted => view'.phase # "saving")
  BY <1>1, <1>3, <1>4
<1>6. PageTyped' /\ SaveTyped'
  BY <1>1, <1>3, <1>5, <1>b DEF PageTyped, SaveTyped, Idle
<1>7. PublishTyped'
  BY <1>1, <1>b DEF PublishTyped
<1>8. PageInv'
  <2>1. Idle.kind = "none"
    BY DEF Idle
  <2> HIDE DEF Like
  <2> QED BY <1>1, <1>5, <1>b, <2>1 DEF PageInv
<1>9. DraftInv'
  <2>1. Idle.kind = "none"
    BY DEF Idle
  <2> HIDE DEF Mirrors
  <2> QED BY <1>1, <1>3, <1>a, <1>b, <2>1 DEF DraftInv, Ready
<1>10. LeaveInv'
  <2>1. ~mounted => missed' = TRUE
    BY <1>1
  <2>2. ~mounted' => missed'
    BY <1>1, <2>1
  <2> QED BY <2>2 DEF LeaveInv
<1>11. PublishInv'
  <2> SUFFICES ASSUME publish # NotPublishing, publish' = publish, publish.at # "flush"
               PROVE  PublishInv'
    BY <1>1, <1>b DEF PublishInv
  <2>1. publish.id \in 1..Len(drafts')
    BY <1>3, <1>b DEF PublishInv
  <2> HIDE DEF Like, Flushed
  <2> QED BY <1>1, <1>5, <1>a, <1>b, <2>1 DEF PublishInv, Ready
<1> QED BY <1>1, <1>2, <1>6, <1>7, <1>8, <1>9, <1>10, <1>11 DEF StateInv, Typed

------------------------------------------------------------------------------
(* The form with the ids of stored rows is like the form.                  *)
LEMMA SetFormTyped ==
  ASSUME NEW v \in Page, NEW sent \in Seq(Field), NEW stored \in Seq(Field)
  PROVE  LET w == setForm(v, sent, stored)
         IN  /\ w \in Page /\ Like(w.form, v.form) /\ w.phase = v.phase
             /\ w.programId = v.programId /\ w.saved = v.saved
<1> DEFINE ids == adoptFieldIds(v.form.fields, sent, stored)
           form == [v.form EXCEPT !.fields = ids]
<1>1. v.form \in Form /\ v.form.fields \in Seq(Field)
  BY DEF Page, Form
<1>2. ids \in Seq(Field) /\ Words(ids) = Words(v.form.fields)
  BY <1>1, AdoptTyped
<1>3. setForm(v, sent, stored) = [v EXCEPT !.form = form]
  BY DEF setForm, Page
<1> HIDE DEF ids
<1>4. form \in Form /\ Like(form, v.form)
  BY <1>1, <1>2 DEF Form, Like
<1> HIDE DEF form
<1> QED BY <1>3, <1>4 DEF Page

(* A request that runs.                                                    *)
LEMMA TaskParts ==
  ASSUME StateInv, task.kind # "none"
  PROVE  /\ task \in Request /\ task # Idle
         /\ task.form \in Form /\ task.form.fields \in Seq(Field)
         /\ task.id \in Nat /\ task.base \in Snapshot /\ task.base = latest.saved
<1>1. task # Idle
  BY DEF Idle
<1> QED BY <1>1 DEF StateInv, Typed, SaveTyped, PageInv, Request, Form

(* The program was made.                                                   *)
LEMMA CreatedStep == FlagsTyped /\ StateInv /\ Created => StateInv' /\ FlagsTyped'
<1> SUFFICES ASSUME FlagsTyped, StateInv, Created PROVE StateInv' /\ FlagsTyped'
  OBVIOUS
<1> DEFINE form == task.form
           id == Len(drafts) + 1
           new == [payload |-> draftPayload(form), fields |-> {}]
<1>b. /\ PageTyped /\ SaveTyped /\ ServerTyped /\ PublishTyped
      /\ PageInv /\ DraftInv /\ LeaveInv /\ PublishInv
  BY DEF StateInv, Typed
<1>1. /\ task.kind = "create" /\ createProgram(form) /\ task \in Request /\ task # Idle /\ form \in Form
      /\ UNCHANGED <<deps, timer, mounted, stopped, budget, history>>
  BY TaskParts DEF Created
<1>2. /\ snapshotOf(form).payload = draftPayload(form) /\ snapshotOf(form).fields = fieldPayload(form)
      /\ draftPayload(form) \in Payload
  BY <1>1, SentTyped
<1>3. /\ ServerTyped' /\ Len(drafts') = id
      /\ drafts'[id].payload = draftPayload(form)
      /\ fieldPayload(form) # {} => Words(drafts'[id].rows) = Words(form.fields)
  BY <1>1, <1>b, MadeRow
<1>4. /\ Len(drafts) \in Nat /\ id \in Nat /\ id >= 1 /\ drafts' # <<>>
      /\ view \in Page /\ latest \in PageRef /\ view.programId \in Nat /\ latest.programId \in Nat
      /\ id = 1 => drafts = <<>>
  BY <1>3, <1>b, FewDrafts DEF ServerTyped, PageTyped, Page, PageRef
<1>5. id = 1 => publish = NotPublishing /\ view.programId = NoId
  BY <1>4, <1>b DEF PublishInv, PageTyped, NoId
<1>6. FlagsTyped' <=> again' \in BOOLEAN
  BY <1>1 DEF FlagsTyped, budget, history
<1> HIDE DEF id, form
<1>7. CASE fieldPayload(form) # {}
  <2> DEFINE read == [task EXCEPT !.kind = "read", !.id = id]
  <2>1. /\ latest' = [latest EXCEPT !.programId = id]
        /\ task' = read
        /\ view' = view /\ again' = again /\ publish' = publish
    BY <1>2, <1>7 DEF Created, form, id
  <2>2. /\ read \in Request /\ read.kind = "read" /\ read.id = id /\ read # Idle
        /\ read.form = form /\ read.base = task.base
    BY <1>1, <1>4 DEF Request, Idle, form
  <2> HIDE DEF read
  <2>3. /\ latest' \in PageRef /\ latest'.form = latest.form
        /\ latest'.programId = id /\ latest'.saved = latest.saved
    BY <1>4, <2>1 DEF PageRef
  <2>4. mounted' = mounted /\ stopped' = stopped /\ unsure' = unsure /\ missed' = missed
    BY <1>1 DEF history
  <2>5. PageTyped' /\ SaveTyped' /\ PublishTyped'
    <3>1. id <= Len(drafts') /\ view.programId <= Len(drafts') /\ id \in 1..Len(drafts')
      BY <1>3, <1>4, <1>b DEF PageTyped, id
    <3> QED BY <1>1, <1>b, <2>1, <2>2, <2>3, <2>4, <3>1 DEF PageTyped, SaveTyped, PublishTyped
  <2>6. PageInv'
    <3> HIDE DEF Like
    <3> QED BY <1>1, <1>b, <2>1, <2>2, <2>3, <2>4 DEF PageInv
  <2>7. DraftInv'
    <3>1. id = 1 => Mirrors(drafts'[1], unsure', latest'.saved)
      BY <1>4, <1>b, <2>3 DEF DraftInv, Mirrors, MirrorsQuestions, NoSnapshot
    <3> HIDE DEF Mirrors
    <3> QED BY <1>3, <1>4, <1>5, <1>7, <2>1, <2>2, <3>1 DEF DraftInv
  <2>8. LeaveInv'
    <3>1. Len(drafts') <= 1 => Len(drafts) <= 1
      BY <1>3, <1>4 DEF id
    <3> QED BY <1>1, <1>b, <2>1, <2>2, <2>3, <2>4, <3>1 DEF LeaveInv, form
  <2>9. PublishInv'
    <3>1. publish # NotPublishing => publish.id \in 1..Len(drafts')
      BY <1>3, <1>4, <1>b DEF PublishInv, id
    <3> HIDE DEF Like, Flushed
    <3> QED BY <1>1, <1>3, <1>5, <1>b, <2>1, <2>2, <2>3, <2>4, <3>1 DEF PublishInv, form
  <2> QED BY <1>3, <1>6, <2>1, <2>5, <2>6, <2>7, <2>8, <2>9 DEF StateInv, Typed, FlagsTyped
<1>8. CASE fieldPayload(form) = {}
  <2> DEFINE r == [latest EXCEPT !.programId = id, !.saved = new]
             v == [view EXCEPT !.programId = id, !.saved = new]
  <2>1. Continue(Idle, r, v)
    BY <1>2, <1>8 DEF Created, form, id
  <2>2. new \in Snapshot /\ new.payload = draftPayload(form) /\ new.fields = {}
    BY <1>2 DEF Snapshot, Wordings
  <2> HIDE DEF new
  <2>3. /\ r \in PageRef /\ r.form = latest.form /\ r.programId = id /\ r.saved = new
        /\ v \in Page /\ v.form = view.form /\ v.phase = view.phase
        /\ v.programId = id /\ v.saved = new
    BY <1>4, <2>2 DEF Page, PageRef
  <2> HIDE DEF r, v
  <2>4. Like(v.form, r.form)
    BY <1>b, <2>3 DEF PageInv
  <2>5. id = 1 => /\ Mirrors(drafts'[1], unsure', r.saved)
                  /\ Covers(drafts'[1], unsure', form)
    BY <1>3, <1>8, <2>2, <2>3 DEF Mirrors, MirrorsQuestions, Covers, HasSettings, HasQuestions
  <2>6. UNCHANGED <<mounted, stopped, missed>>
    BY <1>1 DEF history
  <2>7. Len(drafts') >= 1 /\ Len(drafts) <= Len(drafts') /\ id <= Len(drafts') /\ id # NoId
    BY <1>3, <1>4 DEF id, NoId
  <2>8. StateInv' /\ again' \in BOOLEAN
    <3> HIDE DEF Like, Mirrors, Covers
    <3> QED BY <1>1, <1>3, <1>5, <2>1, <2>3, <2>4, <2>5, <2>6, <2>7, ContinueStep DEF form
  <2> QED BY <1>6, <2>8
<1> QED BY <1>7, <1>8

(* The form was read back.                                                 *)
LEMMA FormReadStep == FlagsTyped /\ StateInv /\ FormRead => StateInv' /\ FlagsTyped'
<1> SUFFICES ASSUME FlagsTyped, StateInv, FormRead PROVE StateInv' /\ FlagsTyped'
  OBVIOUS
<1> DEFINE sent == task.form.fields
           stored == drafts[task.id].rows
           new == [payload |-> draftPayload(task.form), fields |-> Stored(sent, stored)]
           shown == setForm(view, sent, stored)
           r == [latest EXCEPT !.saved = new]
           v == [shown EXCEPT !.programId = task.id, !.saved = new]
<1>b. /\ PageTyped /\ SaveTyped /\ ServerTyped /\ PublishTyped
      /\ PageInv /\ DraftInv /\ LeaveInv /\ PublishInv
  BY DEF StateInv, Typed
<1>1. /\ task.kind = "read" /\ Continue(Idle, r, v)
      /\ UNCHANGED <<deps, timer, mounted, stopped, server, budget, history>>
  BY DEF FormRead
<1>2. /\ task # Idle /\ task.form \in Form /\ sent \in Seq(Field) /\ task.id \in 1..Len(drafts)
  BY <1>1, <1>b, TaskParts DEF SaveTyped
<1>3. /\ drafts' = drafts /\ nextId' = nextId /\ unsure' = unsure
      /\ UNCHANGED <<mounted, stopped, missed>>
  BY <1>1 DEF server, history
<1>4. stored \in Seq(Field) /\ Len(drafts) \in Nat /\ (Len(drafts) = 1 => task.id = 1)
  <2>1. drafts \in Seq(Row)
    BY <1>b DEF ServerTyped
  <2>2. Len(drafts) \in Nat
    BY <2>1, FewDrafts
  <2>3. stored \in Seq(Field) /\ (Len(drafts) = 1 => task.id = 1)
    BY <1>2, <2>1, OneDraft
  <2> QED BY <2>2, <2>3
<1>5. /\ new \in Snapshot /\ new.payload = draftPayload(task.form)
      /\ new.fields = Stored(sent, stored)
  BY <1>2, <1>4, SentTyped, StoredIsRead DEF Snapshot
<1>6. /\ shown \in Page /\ Like(shown.form, view.form) /\ shown.phase = view.phase
      /\ latest \in PageRef /\ task.id \in Nat
  BY <1>2, <1>4, <1>b, SetFormTyped DEF PageTyped
<1>7. Len(drafts) = 1 =>
        /\ Mirrors(drafts[1], unsure, new) /\ Covers(drafts[1], unsure, task.form)
        /\ view.programId = NoId
  <2> SUFFICES ASSUME Len(drafts) = 1
               PROVE  /\ Mirrors(drafts[1], unsure, new) /\ Covers(drafts[1], unsure, task.form)
                      /\ view.programId = NoId
    OBVIOUS
  <2>1. /\ drafts[1].payload = draftPayload(task.form)
        /\ Words(drafts[1].rows) = Words(sent) /\ view.programId = NoId /\ stored = drafts[1].rows
    BY <1>1, <1>4, <1>b DEF DraftInv
  <2>2. Stored(sent, stored) = {draftToFieldPayload(drafts[1].rows)}
    BY <1>2, <1>4, <2>1, StoredIsRead
  <2> HIDE DEF new, sent
  <2>3. Mirrors(drafts[1], unsure, new)
    BY <1>5, <2>1, <2>2 DEF Mirrors, MirrorsQuestions
  <2>4. Covers(drafts[1], unsure, task.form)
    BY <2>1 DEF Covers, HasSettings, HasQuestions, sent
  <2> QED BY <2>1, <2>3, <2>4
<1> HIDE DEF new, shown
<1>8. /\ r \in PageRef /\ r.form = latest.form /\ r.programId = latest.programId /\ r.saved = new
      /\ v \in Page /\ v.form = shown.form /\ v.phase = view.phase
      /\ v.programId = task.id /\ v.saved = new
  BY <1>5, <1>6 DEF Page, PageRef
<1> HIDE DEF r, v
<1>9. Like(v.form, r.form)
  BY <1>6, <1>8, <1>b DEF PageInv, Like
<1>10. Len(drafts) = 1 => publish = NotPublishing
  BY <1>7, <1>b DEF PublishInv
<1>11. /\ Len(drafts') >= 1 /\ Len(drafts) <= Len(drafts') /\ ServerTyped'
       /\ r.programId <= Len(drafts') /\ v.programId <= Len(drafts') /\ v.programId # NoId
  BY <1>2, <1>3, <1>4, <1>8, <1>b DEF ServerTyped, PageTyped, NoId
<1>12. StateInv' /\ again' \in BOOLEAN
  <2> HIDE DEF Like, Mirrors, Covers
  <2> QED BY <1>1, <1>2, <1>3, <1>7, <1>8, <1>9, <1>10, <1>11, ContinueStep
<1> QED BY <1>1, <1>12 DEF FlagsTyped, budget, history

(* What a patch does to the only draft, whether its answer arrives or not. *)
LEMMA PatchedDraft ==
  ASSUME StateInv, task.kind = "patch", updateProgram(task.form, task.id),
         unsure' \in {unsure \ {"settings"}, unsure \cup {"settings"}}
  PROVE  /\ ServerTyped' /\ Len(drafts') = Len(drafts)
         /\ Len(drafts) = 1 =>
              /\ drafts'[1].payload = draftPayload(task.form) /\ drafts'[1].rows \in Seq(Field)
              /\ MirrorsQuestions(drafts'[1], unsure', latest.saved)
              /\ publish # NotPublishing /\ publish.at # "flush"
                   => Flushed(drafts'[1], unsure', publish.forms)
<1>b. /\ PageTyped /\ SaveTyped /\ ServerTyped /\ PublishTyped /\ DraftInv /\ PublishInv
  BY DEF StateInv, Typed
<1>1. task.id \in 1..Len(drafts) /\ task.form \in Form /\ latest.saved \in Snapshot
  BY <1>b, TaskParts DEF SaveTyped, PageTyped, PageRef
<1>2. /\ ServerTyped' /\ Len(drafts') = Len(drafts)
      /\ drafts'[task.id].payload = draftPayload(task.form)
      /\ drafts'[task.id].rows = drafts[task.id].rows \/ drafts[task.id].rows = <<>>
      /\ drafts[task.id].rows \in Seq(Field)
  BY <1>1, <1>b, PatchedRow
<1>3. ASSUME Len(drafts) = 1
      PROVE  /\ drafts'[1].payload = draftPayload(task.form) /\ drafts'[1].rows \in Seq(Field)
             /\ MirrorsQuestions(drafts'[1], unsure', latest.saved)
             /\ publish # NotPublishing /\ publish.at # "flush"
                  => Flushed(drafts'[1], unsure', publish.forms)
  <2>1. task.id = 1 /\ drafts'[1].rows \in Seq(Field)
    BY <1>1, <1>2, <1>3, FewDrafts DEF ServerTyped
  <2>2. "questions" \in unsure => "questions" \in unsure'
    OBVIOUS
  <2>3. /\ \A f \in Form : HasQuestions(drafts[1], unsure, f) => HasQuestions(drafts'[1], unsure', f)
        /\ MirrorsQuestions(drafts[1], unsure, latest.saved)
             => MirrorsQuestions(drafts'[1], unsure', latest.saved)
    BY <1>1, <1>2, <2>1, <2>2, RowsKept
  <2>4. MirrorsQuestions(drafts[1], unsure, latest.saved)
    BY <1>3, <1>b DEF DraftInv, Mirrors
  <2>5. ASSUME publish # NotPublishing, publish.at # "flush"
        PROVE  Flushed(drafts'[1], unsure', publish.forms)
    <3>1. publish.forms \subseteq Form
      BY <1>b, <2>5, PublicationParts
    <3>2. task # Idle
      BY TaskParts
    <3>3. PICK f \in publish.forms : Like(f, task.form)
      BY <1>b, <2>5, <3>2 DEF PublishInv
    <3>4. HasSettings(drafts'[1], unsure', f)
      BY <1>1, <1>2, <2>1, <3>1, <3>3, LikeSent DEF HasSettings
    <3>5. Flushed(drafts[1], unsure, publish.forms)
      BY <1>3, <1>b, <2>5 DEF PublishInv
    <3> QED BY <2>3, <3>1, <3>4, <3>5 DEF Flushed
  <2> QED BY <1>2, <2>1, <2>3, <2>4, <2>5
<1> QED BY <1>2, <1>3

(* The settings were patched; the save goes on with the questions.         *)
LEMMA PatchedStep == FlagsTyped /\ StateInv /\ Patched => StateInv' /\ FlagsTyped'
<1> SUFFICES ASSUME FlagsTyped, StateInv, Patched PROVE StateInv' /\ FlagsTyped'
  OBVIOUS
<1> DEFINE new == [task.base EXCEPT !.payload = draftPayload(task.form)]
           c == Changed(task.form, task.id, new)
           r == [latest EXCEPT !.saved = new]
           v == [view EXCEPT !.saved = new]
<1>b. PageTyped /\ SaveTyped /\ ServerTyped /\ PublishTyped /\ PageInv /\ PublishInv
  BY DEF StateInv, Typed
<1>1. /\ task.kind = "patch" /\ updateProgram(task.form, task.id) /\ unsure' = unsure \ {"settings"}
      /\ UNCHANGED <<deps, timer, mounted, stopped, budget, missed>>
  BY DEF Patched
<1>2. /\ task # Idle /\ task.form \in Form /\ task.base \in Snapshot /\ task.base = latest.saved
      /\ task.id \in 1..Len(drafts) /\ task.id \in Nat
  BY <1>1, <1>b, TaskParts DEF SaveTyped
<1>3. Continue(c, r, v)
  BY <1>2, SentTyped DEF Patched
<1>4. /\ ServerTyped' /\ Len(drafts') = Len(drafts)
      /\ Len(drafts) = 1 =>
           /\ drafts'[1].payload = draftPayload(task.form) /\ drafts'[1].rows \in Seq(Field)
           /\ MirrorsQuestions(drafts'[1], unsure', latest.saved)
           /\ publish # NotPublishing /\ publish.at # "flush"
                => Flushed(drafts'[1], unsure', publish.forms)
  BY <1>1, PatchedDraft
<1>5. new \in Snapshot /\ new.payload = draftPayload(task.form) /\ new.fields = latest.saved.fields
  BY <1>2, SentTyped DEF Snapshot
<1> HIDE DEF new
<1>6. /\ r \in PageRef /\ r.form = latest.form /\ r.programId = latest.programId /\ r.saved = new
      /\ v \in Page /\ v.form = view.form /\ v.phase = view.phase
      /\ v.programId = view.programId /\ v.saved = new
  BY <1>5, <1>b DEF Page, PageRef, PageTyped
<1>7. \/ /\ c = Idle
         /\ fieldPayload(task.form) = {} \/ fieldPayload(task.form) = new.fields
      \/ /\ c \in Request /\ c # Idle /\ c.kind = "put"
         /\ c.form = task.form /\ c.id = task.id /\ c.base = new
         /\ draftPayload(c.form) = c.base.payload
  <2>1. c = Idle \/ c.kind = "put"
    BY <1>2, <1>5, SentTyped DEF Changed
  <2>2. \/ /\ c = Idle
           /\ fieldPayload(task.form) = {} \/ fieldPayload(task.form) = new.fields
        \/ /\ c \in Request /\ c # Idle
           /\ c.form = task.form /\ c.id = task.id /\ c.base = new
           /\ c.kind = "put" => draftPayload(task.form) = new.payload
    BY <1>2, <1>5, ChangedCases
  <2> HIDE DEF c
  <2> QED BY <2>1, <2>2
<1> HIDE DEF c, r, v
<1>8. Len(drafts) = 1 => /\ Mirrors(drafts'[1], unsure', new)
                         /\ c = Idle => Covers(drafts'[1], unsure', task.form)
  <2> SUFFICES ASSUME Len(drafts) = 1
               PROVE  /\ Mirrors(drafts'[1], unsure', new)
                      /\ c = Idle => Covers(drafts'[1], unsure', task.form)
    OBVIOUS
  <2>1. Mirrors(drafts'[1], unsure', new)
    BY <1>4, <1>5 DEF Mirrors, MirrorsQuestions
  <2>2. c = Idle => fieldPayload(task.form) = {} \/ fieldPayload(task.form) = new.fields
    BY <1>7
  <2> QED BY <1>2, <1>4, <1>5, <2>1, <2>2, NothingLeft
<1>9. Like(v.form, r.form)
  BY <1>6, <1>b DEF PageInv
<1>10. view.programId # NoId => latest.programId # NoId
  BY <1>1, <1>b DEF PageInv
<1>11. publish # NotPublishing => r.programId # NoId
  BY <1>6, <1>10, <1>b DEF PublishInv
<1>12. /\ Len(drafts') >= 1 /\ Len(drafts) <= Len(drafts') /\ task.id \in 1..Len(drafts')
       /\ r.programId <= Len(drafts') /\ v.programId <= Len(drafts')
  <2>1. Len(drafts) \in Nat
    BY <1>b, FewDrafts DEF ServerTyped
  <2> QED BY <1>2, <1>4, <1>6, <1>b, <2>1 DEF PageTyped
<1>13. StateInv' /\ again' \in BOOLEAN
  <2> HIDE DEF Like, Mirrors, Covers
  <2>1. UNCHANGED <<mounted, stopped, missed>>
    BY <1>1
  <2>2. \/ c = Idle
        \/ /\ c \in Request /\ c # Idle /\ c.kind = "put" /\ c.form = task.form
           /\ c.base = r.saved
           /\ c.id \in 1..Len(drafts') /\ draftPayload(c.form) = c.base.payload
           /\ v.programId # NoId => r.programId # NoId
    BY <1>6, <1>7, <1>10, <1>12
  <2> QED BY <1>2, <1>3, <1>4, <1>6, <1>8, <1>9, <1>11, <1>12, <2>1, <2>2, ContinueStep
<1> QED BY <1>1, <1>13 DEF FlagsTyped, budget

(* What a replaced form does to the only draft, whether its answer arrives *)
(* or not.                                                                 *)
LEMMA ReplacedDraft ==
  ASSUME StateInv, task.kind = "put", replaceApplicationFields(task.form, task.id),
         unsure' \in {unsure \ {"questions"}, unsure \cup {"questions"}}
  PROVE  /\ ServerTyped' /\ Len(drafts') = Len(drafts) /\ drafts'[task.id].rows \in Seq(Field)
         /\ Words(drafts'[task.id].rows) = Words(task.form.fields)
         /\ Len(drafts) = 1 =>
              /\ task.id = 1 /\ drafts'[1].payload = drafts[1].payload
              /\ HasSettings(drafts'[1], unsure', task.form)
              /\ publish # NotPublishing /\ publish.at # "flush"
                   => Flushed(drafts'[1], unsure', publish.forms)
<1>b. /\ PageTyped /\ SaveTyped /\ ServerTyped /\ PublishTyped
      /\ PageInv /\ DraftInv /\ PublishInv
  BY DEF StateInv, Typed
<1>1. /\ task.id \in 1..Len(drafts) /\ task.form \in Form /\ task # Idle
      /\ latest.saved.payload = draftPayload(task.form)
  BY <1>b, TaskParts DEF SaveTyped, PageInv
<1>2. /\ ServerTyped' /\ Len(drafts') = Len(drafts)
      /\ drafts'[task.id].payload = drafts[task.id].payload
      /\ Words(drafts'[task.id].rows) = Words(task.form.fields)
  BY <1>1, <1>b, ReplacedRow
<1>3. drafts'[task.id].rows \in Seq(Field) /\ (Len(drafts) = 1 => task.id = 1)
  <2>1. drafts' \in Seq(Row)
    BY <1>2 DEF ServerTyped
  <2>2. task.id \in 1..Len(drafts')
    BY <1>1, <1>2
  <2> QED BY <1>2, <2>1, <2>2, OneDraft
<1>4. ASSUME Len(drafts) = 1
      PROVE  /\ HasSettings(drafts'[1], unsure', task.form)
             /\ publish # NotPublishing /\ publish.at # "flush"
                  => Flushed(drafts'[1], unsure', publish.forms)
  <2>1. "settings" \in unsure <=> "settings" \in unsure'
    OBVIOUS
  <2>2. Mirrors(drafts[1], unsure, latest.saved) /\ draftPayload(task.form) # {}
    BY <1>1, <1>4, <1>b, SentTyped DEF DraftInv
  <2>3. drafts'[1].payload = drafts[1].payload /\ Words(drafts'[1].rows) = Words(task.form.fields)
    BY <1>2, <1>3, <1>4
  <2>4. HasSettings(drafts'[1], unsure', task.form)
    BY <1>1, <2>1, <2>2, <2>3 DEF Mirrors, HasSettings
  <2>5. ASSUME publish # NotPublishing, publish.at # "flush"
        PROVE  Flushed(drafts'[1], unsure', publish.forms)
    <3>1. publish.forms \in SUBSET Form
      BY <1>b, <2>5, PublicationParts
    <3>2. \E f \in publish.forms : Like(f, task.form)
      BY <1>1, <1>b, <2>5 DEF PublishInv
    <3>3. Covers(drafts'[1], unsure', task.form)
      BY <2>3, <2>4 DEF Covers, HasQuestions
    <3> QED BY <1>1, <3>1, <3>2, <3>3, CoveredIsFlushed
  <2> QED BY <2>4, <2>5
<1> QED BY <1>2, <1>3, <1>4

(* The questions were replaced.                                            *)
LEMMA PutStep == FlagsTyped /\ StateInv /\ Put => StateInv' /\ FlagsTyped'
<1> SUFFICES ASSUME FlagsTyped, StateInv, Put PROVE StateInv' /\ FlagsTyped'
  OBVIOUS
<1> DEFINE sent == task.form.fields
           stored == drafts'[task.id].rows
           new == [latest.saved EXCEPT !.fields = Stored(sent, stored)]
           shown == setForm(view, sent, stored)
           r == [latest EXCEPT !.saved = new]
           v == [shown EXCEPT !.saved = new]
<1>b. PageTyped /\ SaveTyped /\ ServerTyped /\ PublishTyped /\ PageInv /\ DraftInv /\ PublishInv
  BY DEF StateInv, Typed
<1>1. /\ task.kind = "put" /\ Continue(Idle, r, v)
      /\ replaceApplicationFields(task.form, task.id) /\ unsure' = unsure \ {"questions"}
      /\ UNCHANGED <<deps, timer, mounted, stopped, budget, missed>>
  BY DEF Put
<1>2. /\ task # Idle /\ task.form \in Form /\ sent \in Seq(Field) /\ task.id \in 1..Len(drafts)
      /\ latest.saved \in Snapshot
  BY <1>1, <1>b, TaskParts DEF SaveTyped
<1>3. /\ ServerTyped' /\ Len(drafts') = Len(drafts) /\ stored \in Seq(Field)
      /\ Words(stored) = Words(sent)
      /\ Len(drafts) = 1 =>
           /\ task.id = 1 /\ drafts'[1].payload = drafts[1].payload
           /\ HasSettings(drafts'[1], unsure', task.form)
           /\ publish # NotPublishing /\ publish.at # "flush"
                => Flushed(drafts'[1], unsure', publish.forms)
  <2> HIDE DEF new, shown, r, v
  <2> QED BY <1>1, ReplacedDraft
<1>4. Stored(sent, stored) \in Wordings /\ Stored(sent, stored) = {draftToFieldPayload(stored)}
  <2> HIDE DEF sent, stored, new, shown, r, v
  <2> QED BY <1>2, <1>3, StoredIsRead
<1>5. /\ new \in Snapshot /\ new.payload = latest.saved.payload
      /\ new.fields = {draftToFieldPayload(stored)}
  BY <1>2, <1>4 DEF Snapshot
<1>6. /\ shown \in Page /\ Like(shown.form, view.form) /\ shown.phase = view.phase
      /\ shown.programId = view.programId /\ latest \in PageRef
  <2>1. view \in Page /\ latest \in PageRef
    BY <1>b DEF PageTyped
  <2> HIDE DEF sent, stored
  <2> QED BY <1>2, <1>3, <2>1, SetFormTyped
<1> HIDE DEF new, shown
<1>7. /\ r \in PageRef /\ r.form = latest.form /\ r.programId = latest.programId /\ r.saved = new
      /\ v \in Page /\ v.form = shown.form /\ v.phase = view.phase
      /\ v.programId = view.programId /\ v.saved = new
  BY <1>5, <1>6 DEF Page, PageRef
<1> HIDE DEF r, v
<1>8. Len(drafts) = 1 => /\ Mirrors(drafts'[1], unsure', new)
                         /\ Covers(drafts'[1], unsure', task.form)
  <2> SUFFICES ASSUME Len(drafts) = 1
               PROVE  /\ Mirrors(drafts'[1], unsure', new)
                      /\ Covers(drafts'[1], unsure', task.form)
    OBVIOUS
  <2>1. Mirrors(drafts[1], unsure, latest.saved) /\ ("settings" \in unsure <=> "settings" \in unsure')
    BY <1>1, <1>b DEF DraftInv
  <2>2. /\ drafts'[1].payload = drafts[1].payload /\ Words(drafts'[1].rows) = Words(sent)
        /\ drafts'[1].rows = stored
    BY <1>3
  <2>3. Mirrors(drafts'[1], unsure', new)
    BY <1>5, <2>1, <2>2 DEF Mirrors, MirrorsQuestions
  <2>4. Covers(drafts'[1], unsure', task.form)
    BY <1>3, <2>2 DEF Covers, HasQuestions
  <2> QED BY <2>3, <2>4
<1>9. Like(v.form, r.form)
  BY <1>6, <1>7, <1>b DEF PageInv, Like
<1>10. publish # NotPublishing => r.programId # NoId
  BY <1>1, <1>7, <1>b DEF PublishInv, PageInv
<1>11. /\ Len(drafts') >= 1 /\ Len(drafts) <= Len(drafts')
       /\ r.programId <= Len(drafts') /\ v.programId <= Len(drafts')
  <2>1. Len(drafts) \in Nat
    BY <1>b, FewDrafts DEF ServerTyped
  <2> QED BY <1>2, <1>3, <1>7, <1>b, <2>1 DEF PageTyped
<1>12. StateInv' /\ again' \in BOOLEAN
  <2> HIDE DEF Like, Mirrors, Covers
  <2>1. UNCHANGED <<mounted, stopped, missed>>
    BY <1>1
  <2> QED BY <1>1, <1>2, <1>3, <1>7, <1>8, <1>9, <1>10, <1>11, <2>1, ContinueStep
<1> QED BY <1>1, <1>12 DEF FlagsTyped, budget

(* Numbers that grow by one.                                               *)
LEMMA OneMore ==
  /\ \A n \in 0..MaxFailures : n < MaxFailures => n + 1 \in 0..MaxFailures
  /\ \A n \in 0..MaxActs : n < MaxActs => n + 1 \in 0..MaxActs
  /\ \A n \in Nat : n <= n + 1 /\ (n + 1 = 1 => n = 0)
OBVIOUS

(* A request fails and has done nothing.                                   *)
LEMMA NothingDone ==
  ASSUME FlagsTyped, StateInv, Failed, task # Idle, UNCHANGED <<server, unsure>>,
         failures' \in 0..MaxFailures
  PROVE  StateInv' /\ FlagsTyped'
<1>1. drafts' = drafts /\ nextId' = nextId /\ unsure' = unsure
  BY DEF server
<1>2. ServerTyped' /\ Len(drafts) \in Nat
  BY <1>1, FewDrafts DEF StateInv, Typed, ServerTyped
<1>3. publish # NotPublishing /\ publish.at # "flush" => publish' = publish
  BY DEF Failed, Ended
<1>4. Len(drafts) = 1 =>
        /\ Mirrors(drafts[1], unsure, latest.saved)
        /\ publish # NotPublishing /\ publish.at # "flush"
             => Flushed(drafts[1], unsure, publish.forms)
  BY DEF StateInv, DraftInv, PublishInv
<1>5. StateInv' /\ missed' \in BOOLEAN /\ UNCHANGED <<timer, again, mounted, stopped, acts>>
  <2> HIDE DEF Mirrors, Flushed
  <2> QED BY <1>1, <1>2, <1>3, <1>4, FailStep
<1> QED BY <1>1, <1>5 DEF FlagsTyped

(* The server cannot accept the request.                                   *)
LEMMA RejectedStep == FlagsTyped /\ StateInv /\ Rejected => StateInv' /\ FlagsTyped'
<1> SUFFICES ASSUME FlagsTyped, StateInv, Rejected PROVE StateInv' /\ FlagsTyped'
  OBVIOUS
<1>1. Failed /\ UNCHANGED <<server, unsure>> /\ failures' = failures /\ task # Idle
  BY DEF Rejected, Idle
<1>2. failures' \in 0..MaxFailures
  BY <1>1 DEF FlagsTyped
<1> QED BY <1>1, <1>2, NothingDone

(* It is refused, or never arrives.                                        *)
LEMMA RefusedStep == FlagsTyped /\ StateInv /\ Refused => StateInv' /\ FlagsTyped'
<1> SUFFICES ASSUME FlagsTyped, StateInv, Refused PROVE StateInv' /\ FlagsTyped'
  OBVIOUS
<1>1. Failed /\ UNCHANGED <<server, unsure>> /\ task # Idle
  BY DEF Refused
<1>2. failures' \in 0..MaxFailures
  BY OneMore DEF Refused, FlagsTyped
<1> QED BY <1>1, <1>2, NothingDone

(* It is carried out and the answer is lost.                               *)
LEMMA AnswerLostStep == FlagsTyped /\ StateInv /\ AnswerLost => StateInv' /\ FlagsTyped'
<1> SUFFICES ASSUME FlagsTyped, StateInv, AnswerLost PROVE StateInv' /\ FlagsTyped'
  OBVIOUS
<1>b. PageTyped /\ SaveTyped /\ ServerTyped /\ PublishTyped /\ PageInv /\ DraftInv /\ PublishInv
  BY DEF StateInv, Typed
<1>1. Failed /\ task # Idle /\ task.form \in Form
  BY TaskParts DEF AnswerLost
<1>2. failures' \in 0..MaxFailures /\ unsure' \subseteq {"settings", "questions"}
  <2>1. failures' \in 0..MaxFailures
    <3>1. failures \in 0..MaxFailures /\ failures < MaxFailures /\ failures' = failures + 1
      BY DEF AnswerLost, FlagsTyped
    <3> QED BY <3>1, OneMore
  <2>2. unsure' \in {unsure, unsure \cup {"settings"}, unsure \cup {"questions"}}
    BY DEF AnswerLost
  <2> QED BY <2>1, <2>2 DEF FlagsTyped
<1>3. publish # NotPublishing /\ publish.at # "flush" => publish' = publish
  BY <1>1 DEF Failed, Ended
<1>4. Len(drafts) \in Nat
  BY <1>b, FewDrafts DEF ServerTyped
<1>5. /\ ServerTyped' /\ Len(drafts) <= Len(drafts')
      /\ Len(drafts') = 1 =>
           /\ Mirrors(drafts'[1], unsure', latest.saved)
           /\ publish # NotPublishing /\ publish.at # "flush"
                => Flushed(drafts'[1], unsure', publish.forms)
  <2>1. CASE task.kind = "create" /\ createProgram(task.form) /\ unsure' = unsure
    <3>1. ServerTyped' /\ Len(drafts') = Len(drafts) + 1
      BY <1>1, <1>b, <2>1, MadeRow
    <3>2. Len(drafts') = 1 => Len(drafts) = 0
      BY <1>4, <3>1, OneMore
    <3>3. Len(drafts') = 1 => drafts = <<>> /\ publish = NotPublishing
      BY <3>2, <1>b, FewDrafts DEF ServerTyped, PublishInv
    <3>4. Len(drafts') = 1 => Mirrors(drafts'[1], unsure', latest.saved)
      BY <3>3, <1>b DEF DraftInv, NoSnapshot, Mirrors, MirrorsQuestions
    <3>5. Len(drafts) <= Len(drafts')
      BY <1>4, <3>1, OneMore
    <3> QED BY <3>1, <3>3, <3>4, <3>5
  <2>2. CASE /\ task.kind = "patch" /\ updateProgram(task.form, task.id)
             /\ unsure' = unsure \cup {"settings"}
    <3>1. /\ ServerTyped' /\ Len(drafts') = Len(drafts)
          /\ Len(drafts) = 1 =>
               /\ MirrorsQuestions(drafts'[1], unsure', latest.saved)
               /\ publish # NotPublishing /\ publish.at # "flush"
                    => Flushed(drafts'[1], unsure', publish.forms)
      BY <2>2, PatchedDraft
    <3>2. MirrorsQuestions(drafts'[1], unsure', latest.saved)
            => Mirrors(drafts'[1], unsure', latest.saved)
      BY <2>2 DEF Mirrors
    <3> QED BY <1>3, <1>4, <3>1, <3>2
  <2>3. CASE /\ task.kind = "put" /\ replaceApplicationFields(task.form, task.id)
             /\ unsure' = unsure \cup {"questions"}
    <3>1. /\ ServerTyped' /\ Len(drafts') = Len(drafts)
          /\ Len(drafts) = 1 =>
               /\ drafts'[1].payload = drafts[1].payload
               /\ publish # NotPublishing /\ publish.at # "flush"
                    => Flushed(drafts'[1], unsure', publish.forms)
      BY <2>3, ReplacedDraft
    <3>2. Len(drafts) = 1 => Mirrors(drafts[1], unsure, latest.saved)
      BY <1>b DEF DraftInv
    <3>3. Len(drafts) = 1 => Mirrors(drafts'[1], unsure', latest.saved)
      BY <2>3, <3>1, <3>2 DEF Mirrors, MirrorsQuestions
    <3> QED BY <1>3, <1>4, <3>1, <3>3
  <2> QED BY <2>1, <2>2, <2>3 DEF AnswerLost
<1>6. StateInv' /\ missed' \in BOOLEAN /\ UNCHANGED <<timer, again, mounted, stopped, acts>>
  <2> HIDE DEF Mirrors, Flushed
  <2> QED BY <1>1, <1>5, FailStep
<1> QED BY <1>2, <1>6 DEF FlagsTyped


------------------------------------------------------------------------------
(* The form is edited.                                                     *)
LEMMA EditStep ==
  ASSUME FlagsTyped, StateInv, NEW form \in Form, Edit(form)
  PROVE  StateInv' /\ FlagsTyped'
<1> DEFINE v == [view EXCEPT !.form = form]
<1>1. /\ mounted /\ acts < MaxActs /\ acts' = acts + 1 /\ Shown(v)
      /\ publish' = IF publish.at = "none" THEN publish
                    ELSE [publish EXCEPT !.forms = @ \cup {form}]
      /\ UNCHANGED <<task, again, mounted, stopped, server, failures, history>>
  BY DEF Edit
<1>2. view \in Page /\ PublishTyped
  BY DEF StateInv, Typed, PageTyped
<1>3. /\ v \in Page /\ v.form = form /\ v.programId = view.programId
      /\ v.saved = view.saved /\ v.phase = view.phase
  BY <1>2 DEF Page
<1> HIDE DEF v
<1>4. \/ publish = NotPublishing /\ publish' = publish
      \/ /\ publish # NotPublishing
         /\ \E F \in SUBSET Form : /\ publish' = [publish EXCEPT !.forms = F]
                                   /\ publish.forms \subseteq F
                                   /\ \E f \in F : Like(f, v.form)
  <2>1. CASE publish.at = "none"
    BY <1>1, <1>2, <2>1, PublicationParts
  <2>2. CASE publish.at # "none"
    <3> DEFINE F == publish.forms \cup {form}
    <3>1. publish # NotPublishing /\ F \in SUBSET Form
      BY <1>2, <2>2, PublicationParts
    <3>2. publish' = [publish EXCEPT !.forms = F]
      BY <1>1, <2>2
    <3>3. publish.forms \subseteq F /\ Like(form, v.form) /\ form \in F
      BY <1>3 DEF Like
    <3> HIDE DEF F, Like
    <3> QED BY <3>1, <3>2, <3>3
  <2> QED BY <2>1, <2>2
<1>5. StateInv' /\ timer' \in BOOLEAN
  <2> HIDE DEF Like
  <2>1. UNCHANGED <<task, again, mounted, stopped, server, history>>
    BY <1>1
  <2> QED BY <1>1, <1>3, <1>4, <2>1, ShownStep
<1>6. acts' \in 0..MaxActs
  BY <1>1, OneMore DEF FlagsTyped
<1> QED BY <1>1, <1>5, <1>6 DEF FlagsTyped, history

(* Every edit leaves a form.                                               *)
LEMMA EditsStep ==
  ASSUME FlagsTyped, StateInv,
         EditTitle \/ EditSettings \/ AddQuestion \/ EditQuestion \/ RemoveQuestion \/ MoveQuestion
  PROVE  StateInv' /\ FlagsTyped'
<1> DEFINE f == view.form
           q == f.fields
<1>1. f \in Form /\ f.title \in BOOLEAN /\ q \in Seq(Field) /\ Len(q) \in Nat
  BY DEF StateInv, Typed, PageTyped, Page, Form
<1>2. \A s \in Seq(Field) : [f EXCEPT !.fields = s] \in Form
  BY <1>1 DEF Form
<1> SUFFICES \E form \in Form : Edit(form)
  BY EditStep
<1>3. CASE EditTitle
  <2>1. [f EXCEPT !.title = ~@] \in Form
    BY <1>1 DEF Form
  <2> QED BY <1>3, <2>1 DEF EditTitle
<1>4. CASE EditSettings
  <2>1. \A s \in Settings : [f EXCEPT !.settings = s] \in Form
    BY <1>1 DEF Form
  <2> QED BY <1>4, <2>1 DEF EditSettings
<1>5. CASE AddQuestion
  <2>1. PICK k \in Keys : Edit([f EXCEPT !.fields = Append(@, Question(k, Blank))])
    BY <1>5 DEF AddQuestion
  <2>2. Question(k, Blank) \in Field
    BY DEF Question, Field, NoId
  <2>3. Append(q, Question(k, Blank)) \in Seq(Field)
    BY <1>1, <2>2
  <2> QED BY <1>2, <2>1, <2>3
<1>6. CASE EditQuestion
  <2>1. PICK i \in DOMAIN q, l \in Labels : Edit([f EXCEPT !.fields[i].label = l])
    BY <1>6 DEF EditQuestion
  <2>2. [q[i] EXCEPT !.label = l] \in Field
    <3>1. q[i] \in Field
      BY <1>1
    <3> QED BY <3>1 DEF Field
  <2>3. [q EXCEPT ![i] = [q[i] EXCEPT !.label = l]] \in Seq(Field)
    BY <1>1, <2>2
  <2>4. [f EXCEPT !.fields[i].label = l] = [f EXCEPT !.fields = [q EXCEPT ![i] = [q[i] EXCEPT !.label = l]]]
    OBVIOUS
  <2> QED BY <1>2, <2>1, <2>3, <2>4
<1>7. CASE RemoveQuestion
  <2>1. PICK i \in DOMAIN q :
          Edit([f EXCEPT !.fields = SubSeq(@, 1, i - 1) \o SubSeq(@, i + 1, Len(@))])
    BY <1>7 DEF RemoveQuestion
  <2>2. SubSeq(q, 1, i - 1) \in Seq(Field) /\ SubSeq(q, i + 1, Len(q)) \in Seq(Field)
    BY <1>1
  <2>3. SubSeq(q, 1, i - 1) \o SubSeq(q, i + 1, Len(q)) \in Seq(Field)
    BY <2>2
  <2> QED BY <1>2, <2>1, <2>3
<1>8. CASE MoveQuestion
  <2>1. PICK i \in 1..(Len(q) - 1) :
          Edit([f EXCEPT !.fields =
            [j \in DOMAIN @ |-> IF j = i THEN @[i + 1] ELSE IF j = i + 1 THEN @[i] ELSE @[j]]])
    BY <1>8 DEF MoveQuestion
  <2> DEFINE moved == [j \in DOMAIN q |-> IF j = i THEN q[i + 1] ELSE IF j = i + 1 THEN q[i] ELSE q[j]]
  <2>2. DOMAIN q = 1..Len(q) /\ i \in DOMAIN q /\ i + 1 \in DOMAIN q
    BY <1>1
  <2>3. \A j \in DOMAIN q : moved[j] \in Field
    BY <1>1, <2>2
  <2>4. moved \in Seq(Field)
    BY <1>1, <2>2, <2>3
  <2> QED BY <1>2, <2>1, <2>4
<1> QED BY <1>3, <1>4, <1>5, <1>6, <1>7, <1>8

(* The save button: a flush.                                               *)
LEMMA SaveNowStep == FlagsTyped /\ StateInv /\ SaveNow => StateInv' /\ FlagsTyped'
<1> SUFFICES ASSUME FlagsTyped, StateInv, SaveNow PROVE StateInv' /\ FlagsTyped'
  OBVIOUS
<1>1. /\ FlushFor(publish) /\ acts < MaxActs /\ acts' = acts + 1
      /\ UNCHANGED <<latest, deps, timer, mounted, stopped, server, failures, history>>
  BY DEF SaveNow, flush
<1>2. UNCHANGED <<latest, server, history, stopped>> /\ mounted' = mounted /\ mounted' \in BOOLEAN
  BY <1>1 DEF FlagsTyped
<1>3. StateInv' /\ again' \in BOOLEAN
  BY <1>1, <1>2, FlushStep
<1>4. acts' \in 0..MaxActs
  BY <1>1, OneMore DEF FlagsTyped
<1> QED BY <1>1, <1>3, <1>4 DEF FlagsTyped, history

(* A publication starts with a flush that remembers the form.              *)
LEMMA PublishStep == FlagsTyped /\ StateInv /\ Publish => StateInv' /\ FlagsTyped'
<1> SUFFICES ASSUME FlagsTyped, StateInv, Publish PROVE StateInv' /\ FlagsTyped'
  OBVIOUS
<1> DEFINE p == [at |-> "flush", id |-> view.programId, forms |-> {view.form}]
<1>1. /\ FlushFor(p) /\ acts < MaxActs /\ acts' = acts + 1
      /\ view.programId # NoId /\ view.form.title
      /\ UNCHANGED <<latest, deps, timer, mounted, stopped, server, failures, history>>
  BY DEF Publish
<1>2. UNCHANGED <<latest, server, history, stopped>> /\ mounted' = mounted /\ mounted' \in BOOLEAN
  BY <1>1 DEF FlagsTyped
<1>3. /\ view.form \in Form /\ view.programId \in Nat /\ view.programId <= Len(drafts)
      /\ Len(drafts) \in Nat /\ Like(view.form, latest.form)
  BY FewDrafts DEF StateInv, Typed, PageTyped, Page, ServerTyped, PageInv
<1>4. view.programId \in 1..Len(drafts)
  BY <1>1, <1>3 DEF NoId
<1>5. /\ p \in Publishing /\ p.at = "flush" /\ p.id \in 1..Len(drafts)
      /\ \E f \in p.forms : Like(f, latest.form)
  <2>1. p \in Publishing /\ p.at = "flush" /\ p.id = view.programId /\ view.form \in p.forms
    BY <1>3 DEF Publishing
  <2> HIDE DEF p, Like
  <2> QED BY <1>3, <1>4, <2>1
<1>6. StateInv' /\ again' \in BOOLEAN
  <2> HIDE DEF p, Like
  <2> QED BY <1>1, <1>2, <1>5, FlushStep
<1>7. acts' \in 0..MaxActs
  BY <1>1, OneMore DEF FlagsTyped
<1> QED BY <1>1, <1>6, <1>7 DEF FlagsTyped, history

(* The page is left, with a flush.                                         *)
LEMMA LeaveStep == FlagsTyped /\ StateInv /\ Leave => StateInv' /\ FlagsTyped'
<1> SUFFICES ASSUME FlagsTyped, StateInv, Leave PROVE StateInv' /\ FlagsTyped'
  OBVIOUS
<1>1. /\ FlushFor(publish) /\ mounted' = FALSE /\ timer' = FALSE
      /\ UNCHANGED <<latest, server, history, stopped>> /\ UNCHANGED <<stopped, budget, history>>
  BY DEF Leave, flush
<1>2. StateInv' /\ again' \in BOOLEAN
  BY <1>1, FlushStep
<1> QED BY <1>1, <1>2 DEF FlagsTyped, history, budget

(* The timer fires: a flush.                                               *)
LEMMA TimerStep == FlagsTyped /\ StateInv /\ TimerFires => StateInv' /\ FlagsTyped'
<1> SUFFICES ASSUME FlagsTyped, StateInv, TimerFires PROVE StateInv' /\ FlagsTyped'
  OBVIOUS
<1>1. /\ FlushFor(publish) /\ timer' = FALSE
      /\ UNCHANGED <<latest, deps, mounted, stopped, server, budget, history>>
  BY DEF TimerFires, flush
<1>2. UNCHANGED <<latest, server, history, stopped>> /\ mounted' = mounted /\ mounted' \in BOOLEAN
  BY <1>1 DEF FlagsTyped
<1>3. StateInv' /\ again' \in BOOLEAN
  BY <1>1, <1>2, FlushStep
<1> QED BY <1>1, <1>3 DEF FlagsTyped, history, budget

(* React renders what it holds.                                            *)
LEMMA RenderStep == FlagsTyped /\ StateInv /\ Render => StateInv' /\ FlagsTyped'
<1> SUFFICES ASSUME FlagsTyped, StateInv, Render PROVE StateInv' /\ FlagsTyped'
  OBVIOUS
<1>1. /\ mounted /\ Shown(view)
      /\ UNCHANGED <<task, again, mounted, stopped, publish, server, budget, history>>
  BY DEF Render
<1>2. view \in Page /\ PublishTyped /\ PublishInv /\ Like(view.form, latest.form)
  BY DEF StateInv, Typed, PageTyped, PageInv
<1>3. publish # NotPublishing =>
        \E F \in SUBSET Form : /\ publish' = [publish EXCEPT !.forms = F]
                               /\ publish.forms \subseteq F
                               /\ \E f \in F : Like(f, view.form)
  <2> SUFFICES ASSUME publish # NotPublishing
               PROVE  \E F \in SUBSET Form : /\ publish' = [publish EXCEPT !.forms = F]
                                             /\ publish.forms \subseteq F
                                             /\ \E f \in F : Like(f, view.form)
    OBVIOUS
  <2>1. publish \in Publishing /\ publish.forms \in SUBSET Form
    BY <1>2, PublicationParts
  <2>2. publish' = [publish EXCEPT !.forms = publish.forms]
    BY <1>1, <2>1 DEF Publishing
  <2>3. \E f \in publish.forms : Like(f, view.form)
    BY <1>2 DEF PublishInv, Like
  <2> HIDE DEF Like
  <2> QED BY <2>1, <2>2, <2>3
<1>4. StateInv' /\ timer' \in BOOLEAN
  <2> HIDE DEF Like
  <2>1. UNCHANGED <<task, again, mounted, stopped, server, history>> /\ publish' = publish
    BY <1>1
  <2> QED BY <1>1, <1>2, <1>3, <2>1, ShownStep
<1> QED BY <1>1, <1>4 DEF FlagsTyped, budget, history

------------------------------------------------------------------------------
(* A step that leaves settings and questions of all drafts alone, such as  *)
(* one that sets a flag.                                                   *)
SameContents ==
  /\ drafts' \in Seq(Row) /\ Len(drafts') = Len(drafts)
  /\ \A i \in 1..Len(drafts) :
       drafts'[i].payload = drafts[i].payload /\ drafts'[i].rows = drafts[i].rows

(* Writing a row with the contents of the one it replaces is such a step.  *)
LEMMA FlagWritten ==
  ASSUME drafts \in Seq(Row), NEW id \in 1..Len(drafts), NEW row \in Row,
         row.payload = drafts[id].payload, row.rows = drafts[id].rows,
         drafts' = [drafts EXCEPT ![id] = row]
  PROVE  SameContents
<1>1. drafts' \in Seq(Row) /\ Len(drafts') = Len(drafts)
  OBVIOUS
<1>2. \A i \in 1..Len(drafts) : drafts'[i] = IF i = id THEN row ELSE drafts[i]
  OBVIOUS
<1> QED BY <1>1, <1>2 DEF SameContents

(* The rows with another flag.                                             *)
LEMMA FlagsOfRow ==
  ASSUME NEW row \in Row
  PROVE  /\ \A s \in {"draft", "active"} :
              LET next == [row EXCEPT !.status = s]
              IN  next \in Row /\ next.payload = row.payload /\ next.rows = row.rows
         /\ LET next == [row EXCEPT !.published = TRUE]
            IN  next \in Row /\ next.payload = row.payload /\ next.rows = row.rows
         /\ LET next == [row EXCEPT !.gone = TRUE]
            IN  next \in Row /\ next.payload = row.payload /\ next.rows = row.rows
BY DEF Row

(* A flag changes, or nothing.                                             *)
LEMMA FlagChanged ==
  ASSUME drafts \in Seq(Row), NEW id \in 1..Len(drafts),
         \/ drafts' = drafts
         \/ \E s \in {"draft", "active"} : drafts' = [drafts EXCEPT ![id].status = s]
         \/ drafts' = [drafts EXCEPT ![id].published = TRUE]
         \/ drafts' = [drafts EXCEPT ![id].gone = TRUE]
  PROVE  SameContents
<1>1. drafts[id] \in Row
  OBVIOUS
<1>2. CASE drafts' = drafts
  BY <1>2 DEF SameContents
<1>3. CASE \E s \in {"draft", "active"} : drafts' = [drafts EXCEPT ![id].status = s]
  <2>1. PICK s \in {"draft", "active"} : drafts' = [drafts EXCEPT ![id] = [drafts[id] EXCEPT !.status = s]]
    BY <1>3
  <2> QED BY <1>1, <2>1, FlagsOfRow, FlagWritten
<1>4. CASE drafts' = [drafts EXCEPT ![id].published = TRUE]
  <2>1. drafts' = [drafts EXCEPT ![id] = [drafts[id] EXCEPT !.published = TRUE]]
    BY <1>4
  <2> QED BY <1>1, <2>1, FlagsOfRow, FlagWritten
<1>5. CASE drafts' = [drafts EXCEPT ![id].gone = TRUE]
  <2>1. drafts' = [drafts EXCEPT ![id] = [drafts[id] EXCEPT !.gone = TRUE]]
    BY <1>5
  <2> QED BY <1>1, <2>1, FlagsOfRow, FlagWritten
<1> QED BY <1>2, <1>3, <1>4, <1>5

(* A publication ends, stays where it is or goes on.                       *)
Onwards ==
  \/ publish' = NotPublishing
  \/ publish' = publish
  \/ /\ publish.at \in {"status", "publish"}
     /\ \E a \in {"publish", "published"} : publish' = [publish EXCEPT !.at = a]

(* The draft is deleted, or its publication goes on: the page and the save *)
(* that runs keep what they know.                                          *)
LEMMA ContentsKept ==
  ASSUME FlagsTyped, StateInv, SameContents,
         UNCHANGED <<view, latest, task, again, nextId, unsure, missed>>,
         UNCHANGED <<mounted, stopped>> \/ (mounted' = FALSE /\ stopped' = TRUE),
         Onwards
  PROVE  StateInv'
<1>b. /\ PageTyped /\ SaveTyped /\ ServerTyped /\ PublishTyped
      /\ PageInv /\ DraftInv /\ LeaveInv /\ PublishInv
  BY DEF StateInv, Typed
<1>1. Len(drafts') = Len(drafts) /\ ServerTyped'
  BY <1>b DEF SameContents, ServerTyped
<1>2. drafts' = <<>> <=> drafts = <<>>
  BY <1>1, <1>b, FewDrafts DEF ServerTyped
<1>3. Len(drafts) = 1 =>
        drafts'[1].payload = drafts[1].payload /\ drafts'[1].rows = drafts[1].rows
  <2>1. Len(drafts) = 1 => 1 \in 1..Len(drafts)
    OBVIOUS
  <2> QED BY <2>1 DEF SameContents
<1>4. mounted' => mounted
  OBVIOUS
<1>5. PageTyped' /\ SaveTyped' /\ PageInv'
  <2>1. PageTyped' /\ SaveTyped'
    BY <1>1, <1>4, <1>b DEF PageTyped, SaveTyped
  <2>2. PageInv'
    BY <1>4, <1>b DEF PageInv, Like
  <2> QED BY <2>1, <2>2
<1>6. PublishTyped' /\ (publish' # NotPublishing =>
                         /\ publish # NotPublishing
                         /\ publish'.at = "flush" <=> publish.at = "flush"
                         /\ publish'.id = publish.id /\ publish'.forms = publish.forms)
  <2>1. CASE publish' = NotPublishing
    BY <2>1 DEF PublishTyped
  <2>2. CASE publish' = publish
    BY <1>b, <2>2 DEF PublishTyped
  <2>3. CASE /\ publish.at \in {"status", "publish"}
             /\ \E a \in {"publish", "published"} : publish' = [publish EXCEPT !.at = a]
    BY <1>b, <2>3, PublicationParts DEF PublishTyped
  <2> QED BY <2>1, <2>2, <2>3 DEF Onwards
<1>7. DraftInv'
  <2>1. Len(drafts) = 1 /\ Mirrors(drafts[1], unsure, latest.saved)
          => Mirrors(drafts'[1], unsure, latest.saved)
    BY <1>3 DEF Mirrors, MirrorsQuestions
  <2> HIDE DEF Mirrors
  <2> QED BY <1>1, <1>2, <1>3, <1>b, <2>1 DEF DraftInv
<1>8. LeaveInv'
  <2>1. Len(drafts) = 1 /\ Covers(drafts[1], unsure, latest.form)
          => Covers(drafts'[1], unsure, latest.form)
    BY <1>3 DEF Covers, HasSettings, HasQuestions
  <2>2. ~mounted' /\ ~stopped' => ~mounted /\ ~stopped
    OBVIOUS
  <2> HIDE DEF Covers
  <2> QED BY <1>1, <1>b, <2>1, <2>2 DEF LeaveInv
<1>9. PublishInv'
  <2>1. Len(drafts) = 1 /\ Flushed(drafts[1], unsure, publish.forms)
          => Flushed(drafts'[1], unsure, publish.forms)
    BY <1>3 DEF Flushed, HasSettings, HasQuestions
  <2> HIDE DEF Like, Flushed
  <2> QED BY <1>1, <1>6, <1>b, <2>1 DEF PublishInv
<1> QED BY <1>1, <1>5, <1>6, <1>7, <1>8, <1>9 DEF StateInv, Typed

(* The draft is deleted.                                                   *)
LEMMA DeleteStep == FlagsTyped /\ StateInv /\ Delete => StateInv' /\ FlagsTyped'
<1> SUFFICES ASSUME FlagsTyped, StateInv, Delete PROVE StateInv' /\ FlagsTyped'
  OBVIOUS
<1>b. PageTyped /\ ServerTyped /\ PublishTyped
  BY DEF StateInv, Typed
<1>1. /\ view.programId # NoId
      /\ drafts' = [drafts EXCEPT ![view.programId].gone = TRUE]
      /\ UNCHANGED <<view, latest, deps, timer, task, again, mounted, stopped, publish, nextId,
                     budget, history>>
  BY DEF Delete
<1>2. view.programId \in 1..Len(drafts) /\ drafts \in Seq(Row)
  <2>1. view.programId \in Nat /\ view.programId <= Len(drafts) /\ Len(drafts) \in Nat
    BY <1>b, FewDrafts DEF PageTyped, Page, ServerTyped
  <2> QED BY <1>1, <1>b, <2>1 DEF NoId, ServerTyped
<1>3. SameContents
  BY <1>1, <1>2, FlagChanged
<1>4. StateInv'
  BY <1>1, <1>3, ContentsKept DEF history, Onwards
<1> QED BY <1>1, <1>4 DEF FlagsTyped, budget, history

(* The page goes away, and with it a publication that is over.             *)
LEMMA GoAwayStep ==
  ASSUME FlagsTyped, StateInv, GoAway, publish' \in {publish, NotPublishing}
  PROVE  StateInv' /\ FlagsTyped'
<1>1. /\ stopped' = TRUE /\ mounted' = FALSE /\ timer' = FALSE /\ drafts' = drafts
      /\ UNCHANGED <<view, latest, deps, task, again, nextId, budget, history>>
  BY DEF GoAway, server
<1>2. SameContents
  BY <1>1 DEF SameContents, StateInv, Typed, ServerTyped
<1>3. StateInv'
  BY <1>1, <1>2, ContentsKept DEF history, Onwards
<1> QED BY <1>1, <1>3 DEF FlagsTyped, budget, history

(* The status is set, the draft is published, or that fails, and the page  *)
(* hears of it or of a deletion.                                           *)
LEMMA PublicationStep == FlagsTyped /\ StateInv /\ Publication => StateInv' /\ FlagsTyped'
<1> SUFFICES ASSUME FlagsTyped, StateInv, Publication PROVE StateInv' /\ FlagsTyped'
  OBVIOUS
<1>b. ServerTyped /\ PublishTyped /\ PublishInv
  BY DEF StateInv, Typed
<1>1. publish.at \in {"status", "publish", "published"}
        => publish.id \in 1..Len(drafts) /\ drafts \in Seq(Row)
  BY <1>b, PublicationParts DEF ServerTyped, PublishInv
<1>2. CASE StatusSet
  <2>1. /\ publish.at = "status" /\ publish' = [publish EXCEPT !.at = "publish"]
        /\ drafts' = drafts \/ drafts' = [drafts EXCEPT ![publish.id].status = "active"]
        /\ UNCHANGED <<view, latest, deps, timer, task, again, mounted, stopped, nextId,
                       budget, history>>
    BY <1>2 DEF StatusSet
  <2>2. SameContents
    BY <1>1, <2>1, FlagChanged
  <2>u. /\ UNCHANGED <<view, latest, task, again, nextId, unsure, missed>>
        /\ UNCHANGED <<mounted, stopped>> \/ (mounted' = FALSE /\ stopped' = TRUE)
        /\ Onwards
    BY <2>1 DEF history, Onwards
  <2>3. StateInv'
    BY <2>2, <2>u, ContentsKept
  <2> QED BY <2>1, <2>3 DEF FlagsTyped, budget, history
<1>3. CASE Published
  <2>1. /\ publish.at = "publish" /\ publish' = [publish EXCEPT !.at = "published"]
        /\ drafts' = [drafts EXCEPT ![publish.id].published = TRUE]
        /\ UNCHANGED <<view, latest, deps, timer, task, again, mounted, stopped, nextId,
                       budget, history>>
    BY <1>3 DEF Published
  <2>2. SameContents
    BY <1>1, <2>1, FlagChanged
  <2>3. StateInv'
    BY <2>1, <2>2, ContentsKept DEF history, Onwards
  <2> QED BY <2>1, <2>3 DEF FlagsTyped, budget, history
<1>4. CASE PublishFails
  <2>1. /\ publish.at \in {"status", "publish", "published"} /\ publish' = NotPublishing
        /\ failures < MaxFailures /\ failures' = failures + 1
        /\ drafts' = drafts \/ drafts' = [drafts EXCEPT ![publish.id].status = "draft"]
        /\ UNCHANGED <<view, latest, deps, timer, task, again, mounted, stopped, nextId,
                       acts, history>>
    BY <1>4 DEF PublishFails
  <2>2. SameContents
    BY <1>1, <2>1, FlagChanged
  <2>u. /\ UNCHANGED <<view, latest, task, again, nextId, unsure, missed>>
        /\ UNCHANGED <<mounted, stopped>> \/ (mounted' = FALSE /\ stopped' = TRUE)
        /\ Onwards
    BY <2>1 DEF history, Onwards
  <2>3. StateInv'
    BY <2>2, <2>u, ContentsKept
  <2>4. failures' \in 0..MaxFailures
    BY <2>1, OneMore DEF FlagsTyped
  <2> QED BY <2>1, <2>3, <2>4 DEF FlagsTyped, history
<1>5. CASE Announced
  BY <1>5, GoAwayStep DEF Announced
<1>6. CASE Deleted
  BY <1>6, GoAwayStep DEF Deleted
<1> QED BY <1>2, <1>3, <1>4, <1>5, <1>6 DEF Publication

------------------------------------------------------------------------------
(* A page that was just opened.                                            *)
LEMMA InitInv == Init => Inv
<1> SUFFICES ASSUME Init PROVE Inv
  OBVIOUS
<1>1. /\ task = Idle /\ again = FALSE /\ mounted = TRUE /\ stopped = FALSE
      /\ publish = NotPublishing
      /\ acts = 0 /\ failures = 0 /\ unsure = {} /\ missed = FALSE
  BY DEF Init
<1> DEFINE blank(s) == [title |-> FALSE, settings |-> s, fields |-> DefaultForm]
           questions(s) == IF s \in Recruiting THEN Rows(DefaultForm, {}, 1) ELSE <<>>
           stored(s) == [blank(s) EXCEPT !.title = TRUE, !.fields = questions(s)]
           empty(s) == [form |-> blank(s), programId |-> NoId, saved |-> NoSnapshot,
                        phase |-> "idle", error |-> {}]
           resumed(s) == [form |-> stored(s), programId |-> 1, saved |-> snapshotOf(stored(s)),
                          phase |-> "saved", error |-> {}]
           row(s) == [payload |-> draftPayload(stored(s)), rows |-> stored(s).fields,
                      status |-> "draft", published |-> FALSE, gone |-> FALSE]
<1>2. PICK s \in Settings : Opened(empty(s), <<>>, 0) \/ Opened(resumed(s), <<row(s)>>, 1)
  BY DEF Init
<1>3. blank(s) \in Form /\ stored(s) \in Form /\ stored(s).fields \in Seq(Field)
  <2>1. DefaultForm \in Seq(Field) /\ Rows(DefaultForm, {}, 1) \in Seq(Field) /\ <<>> \in Seq(Field)
    BY DefaultTyped, RowsTyped
  <2>2. blank(s) \in Form
    BY <2>1 DEF Form
  <2>3. questions(s) \in Seq(Field)
    BY <2>1
  <2> HIDE DEF questions, blank
  <2>4. stored(s) \in Form /\ stored(s).fields = questions(s)
    BY <2>2, <2>3 DEF Form
  <2> QED BY <2>2, <2>3, <2>4
<1> HIDE DEF blank, stored
<1>4. /\ snapshotOf(stored(s)) \in Snapshot /\ NoSnapshot \in Snapshot
      /\ draftPayload(stored(s)) \in Payload
      /\ snapshotOf(stored(s)).payload = draftPayload(stored(s))
      /\ snapshotOf(stored(s)).fields \subseteq {draftToFieldPayload(stored(s).fields)}
  <2>1. NoSnapshot \in Snapshot
    BY DEF NoSnapshot, Snapshot, Payload, Wordings
  <2> QED BY <1>3, <2>1, SentTyped
<1>5. /\ empty(s) \in Page /\ empty(s).programId = NoId /\ empty(s).saved = NoSnapshot
      /\ empty(s).phase # "saving"
      /\ resumed(s) \in Page /\ resumed(s).programId = 1 /\ resumed(s).phase # "saving"
      /\ resumed(s).saved = snapshotOf(stored(s))
  BY <1>3, <1>4 DEF Page, NoId
<1>6. row(s) \in Row /\ row(s).payload = draftPayload(stored(s)) /\ row(s).rows = stored(s).fields
  BY <1>3, <1>4 DEF Row
<1> HIDE DEF empty, resumed, row
<1>7. \E v \in Page, made \in Seq(Row), n \in Nat :
        /\ Opened(v, made, n) /\ v.programId <= Len(made) /\ v.phase # "saving"
        /\ made = <<>> => v.saved = NoSnapshot
        /\ Len(made) = 1 => Mirrors(made[1], {}, v.saved)
  <2>1. CASE Opened(empty(s), <<>>, 0)
    <3>1. <<>> \in Seq(Row) /\ Len(<<>>) = 0 /\ 0 \in Nat
      OBVIOUS
    <3> HIDE DEF Mirrors
    <3>2. /\ Opened(empty(s), <<>>, 0) /\ empty(s).programId <= Len(<<>>) /\ empty(s).phase # "saving"
          /\ <<>> = <<>> => empty(s).saved = NoSnapshot
          /\ Len(<<>>) = 1 => Mirrors(<<>>[1], {}, empty(s).saved)
      BY <1>5, <2>1, <3>1 DEF NoId
    <3> QED BY <1>5, <3>1, <3>2
  <2>2. CASE Opened(resumed(s), <<row(s)>>, 1)
    <3>1. <<row(s)>> \in Seq(Row) /\ Len(<<row(s)>>) = 1 /\ <<row(s)>>[1] = row(s) /\ 1 \in Nat
      BY <1>6
    <3>2. Mirrors(row(s), {}, resumed(s).saved)
      BY <1>4, <1>5, <1>6 DEF Mirrors, MirrorsQuestions
    <3> HIDE DEF Mirrors
    <3>3. <<row(s)>> # <<>>
      OBVIOUS
    <3>4. /\ Opened(resumed(s), <<row(s)>>, 1) /\ resumed(s).programId <= Len(<<row(s)>>)
          /\ resumed(s).phase # "saving"
          /\ <<row(s)>> = <<>> => resumed(s).saved = NoSnapshot
          /\ Len(<<row(s)>>) = 1 => Mirrors(<<row(s)>>[1], {}, resumed(s).saved)
      BY <1>5, <2>2, <3>1, <3>2, <3>3
    <3> QED BY <1>5, <3>1, <3>4, Zenon
  <2> QED BY <1>2, <2>1, <2>2
<1>8. PICK v \in Page, made \in Seq(Row), n \in Nat :
        /\ Opened(v, made, n) /\ v.programId <= Len(made) /\ v.phase # "saving"
        /\ made = <<>> => v.saved = NoSnapshot
        /\ Len(made) = 1 => Mirrors(made[1], {}, v.saved)
  BY <1>7
<1>9. /\ view = v /\ drafts = made /\ nextId = n + 1
      /\ latest.form = v.form /\ latest.programId = v.programId /\ latest.saved = v.saved
      /\ latest \in PageRef /\ timer \in BOOLEAN
  BY <1>8, DirtyTyped DEF Opened, Ref, Page, PageRef
<1>10. Idle.kind = "none"
  BY DEF Idle
<1>11. FlagsTyped
  <2>1. 0 \in 0..MaxActs /\ 0 \in 0..MaxFailures
    OBVIOUS
  <2> QED BY <1>1, <1>9, <2>1, Zenon DEF FlagsTyped
<1>12. Typed
  BY <1>1, <1>8, <1>9, <1>10 DEF Typed, PageTyped, SaveTyped, ServerTyped, PublishTyped
<1>13. PageInv
  BY <1>1, <1>9, <1>10 DEF PageInv, Like
<1>14. DraftInv
  <2> HIDE DEF Mirrors
  <2> QED BY <1>1, <1>8, <1>9, <1>10 DEF DraftInv
<1>15. LeaveInv /\ PublishInv
  BY <1>1 DEF LeaveInv, PublishInv
<1> QED BY <1>11, <1>12, <1>13, <1>14, <1>15 DEF Inv, StateInv

(* A step that changes nothing.                                            *)
LEMMA SameState == Inv /\ UNCHANGED vars => Inv'
<1> SUFFICES ASSUME Inv, UNCHANGED vars PROVE Inv'
  OBVIOUS
<1>1. /\ view' = view /\ latest' = latest /\ deps' = deps /\ timer' = timer /\ task' = task
      /\ again' = again /\ mounted' = mounted /\ stopped' = stopped /\ publish' = publish
      /\ drafts' = drafts /\ nextId' = nextId /\ acts' = acts /\ failures' = failures
      /\ unsure' = unsure /\ missed' = missed
  BY DEF vars, server, budget, history
<1>2. FlagsTyped' /\ Typed'
  BY <1>1 DEF Inv, FlagsTyped, StateInv, Typed, PageTyped, SaveTyped, ServerTyped, PublishTyped
<1> HIDE DEF Like, Mirrors, Covers, Flushed
<1>3. PageInv' /\ DraftInv' /\ LeaveInv' /\ PublishInv'
  BY <1>1 DEF Inv, StateInv, PageInv, DraftInv, LeaveInv, PublishInv
<1> QED BY <1>2, <1>3 DEF Inv, StateInv

(* Every step keeps the invariant.                                         *)
LEMMA Inductive == Inv /\ [Next]_vars => Inv'
<1> SUFFICES ASSUME Inv, [Next]_vars PROVE Inv'
  OBVIOUS
<1>1. FlagsTyped /\ StateInv
  BY DEF Inv
<1>2. CASE EditTitle \/ EditSettings \/ AddQuestion \/ EditQuestion \/ RemoveQuestion \/ MoveQuestion
  BY <1>1, <1>2, EditsStep DEF Inv
<1>3. CASE SaveNow
  BY <1>1, <1>3, SaveNowStep DEF Inv
<1>4. CASE Publish
  BY <1>1, <1>4, PublishStep DEF Inv
<1>5. CASE Leave
  BY <1>1, <1>5, LeaveStep DEF Inv
<1>6. CASE Delete
  BY <1>1, <1>6, DeleteStep DEF Inv
<1>7. CASE Render
  BY <1>1, <1>7, RenderStep DEF Inv
<1>8. CASE TimerFires
  BY <1>1, <1>8, TimerStep DEF Inv
<1>9. CASE Answer
  BY <1>1, <1>9, CreatedStep, FormReadStep, PatchedStep, PutStep, RejectedStep, RefusedStep,
     AnswerLostStep DEF Inv, Answer
<1>10. CASE Publication
  BY <1>1, <1>10, PublicationStep DEF Inv
<1>11. CASE UNCHANGED vars
  BY <1>11, SameState
<1> QED BY <1>2, <1>3, <1>4, <1>5, <1>6, <1>7, <1>8, <1>9, <1>10, <1>11 DEF Next, User

(* The invariant holds in every reachable state.                           *)
LEMMA Invariance == Spec => []Inv
BY InitInv, Inductive, PTL DEF Spec

------------------------------------------------------------------------------
(* Every variable stays in its range, and an open page says that it saves  *)
(* exactly while a save runs.                                              *)
THEOREM TypeCorrect == Spec => []TypeOK
<1>1. Inv => TypeOK
  <2> SUFFICES ASSUME Inv PROVE TypeOK
    OBVIOUS
  <2>1. /\ PageTyped /\ SaveTyped /\ ServerTyped /\ FlagsTyped
    BY DEF Inv, StateInv, Typed
  <2>2. /\ view.form \in Form /\ view.programId \in Nat /\ latest.programId \in Nat
        /\ view.programId <= Len(drafts) /\ latest.programId <= Len(drafts) /\ Len(drafts) \in Nat
        /\ mounted => (view.phase = "saving") = (task # Idle)
    BY <2>1, FewDrafts DEF PageTyped, Page, PageRef, ServerTyped
  <2>3. view.programId \in 0..Len(drafts) /\ latest.programId \in 0..Len(drafts)
    BY <2>2
  <2>4. view.form.title \in BOOLEAN /\ view.form.settings \in Settings /\ view.form.fields \in Seq(Field)
    BY <2>2 DEF Form
  <2>5. \A i \in DOMAIN view.form.fields : view.form.fields[i] \in Field
    BY <2>4
  <2>6. task.kind \in {"none", "create", "read", "patch", "put"}
    BY <2>1 DEF SaveTyped, Request, Idle
  <2> QED BY <2>1, <2>2, <2>3, <2>4, <2>5, <2>6 DEF TypeOK, FlagsTyped, Field
<1> QED BY <1>1, Invariance, PTL

(* When the page says that everything is saved, the draft on the server is *)
(* the form, question for question and id for id (useProgramAutosave.ts,   *)
(* dirty and commit): unless an answer was lost that nothing has confirmed *)
(* since, or the page has made a second draft.                             *)
THEOREM SavedDraftsAreStored == Spec => []SavedIsStored
<1>1. Inv => SavedIsStored
  <2> SUFFICES ASSUME Inv, Settled, view.programId # NoId, ~dirty(view), unsure = {}, Len(drafts) = 1
               PROVE  Exact(drafts[view.programId], view.form)
    BY DEF SavedIsStored
  <2> DEFINE f == view.form
             w == draftToFieldPayload(f.fields)
             d == drafts[1]
  <2>1. PageTyped /\ ServerTyped /\ PageInv /\ DraftInv
    BY DEF Inv, StateInv, Typed
  <2>2. f \in Form /\ f.fields \in Seq(Field) /\ view.programId \in Nat /\ view.programId <= 1
    BY <2>1 DEF PageTyped, Page, Form
  <2>3. view.programId = 1
    BY <2>2 DEF NoId
  <2>4. view.saved = latest.saved /\ Mirrors(d, {}, latest.saved) /\ d.rows \in Seq(Field)
    BY <2>1, FewDrafts DEF Settled, PageInv, DraftInv, ServerTyped
  <2>5. /\ draftPayload(f) = view.saved.payload
        /\ fieldPayload(f) = {} \/ fieldPayload(f) = view.saved.fields
    BY <2>2, SentTyped DEF dirty
  <2> HIDE DEF d, f
  <2>6. Covers(d, {}, f)
    BY <2>2, <2>4, <2>5, NothingLeft
  <2>7. Keeps(d, f)
    BY <2>6 DEF Covers, HasSettings, HasQuestions, Keeps
  <2>8. ASSUME fieldPayload(f) # {}, f.fields # <<>>, NEW i \in DOMAIN d.rows
        PROVE  d.rows[i].id = f.fields[i].id
    <3>1. w \in latest.saved.fields /\ w # <<>>
      BY <2>2, <2>4, <2>5, <2>8, SentTyped, QuestionsSent
    <3>2. draftToFieldPayload(d.rows) = w
      BY <2>4, <3>1 DEF Mirrors, MirrorsQuestions
    <3>3. DOMAIN d.rows = DOMAIN f.fields
      <4>1. DOMAIN draftToFieldPayload(d.rows) = DOMAIN d.rows /\ DOMAIN w = DOMAIN f.fields
        BY DEF draftToFieldPayload
      <4> HIDE DEF w
      <4> QED BY <3>2, <4>1
    <3>4. draftToFieldPayload(d.rows)[i].id = d.rows[i].id /\ w[i].id = f.fields[i].id
      BY <2>8, <3>3 DEF draftToFieldPayload
    <3> HIDE DEF w
    <3> QED BY <3>2, <3>4
  <2>9. Exact(d, f)
    BY <2>7, <2>8 DEF Exact
  <2> QED BY <2>3, <2>9 DEF d, f
<1> QED BY <1>1, Invariance, PTL

(* Leaving saves what is pending (the cleanup that calls flush): once the  *)
(* last save is over, the draft has the settings the page had when it was  *)
(* left, unless a request failed, the title was too short, the page has    *)
(* made a second draft, or the draft was published or deleted.             *)
THEOREM LeavingSavesPending == Spec => []LeavingSaves
<1>1. Inv => LeavingSaves
  <2> SUFFICES ASSUME Inv, ~mounted, task = Idle, ~stopped, latest.form.title, ~missed, unsure = {},
                      Len(drafts) <= 1
               PROVE  \E d \in 1..Len(drafts) : Keeps(drafts[d], latest.form)
    BY DEF LeavingSaves
  <2>1. Len(drafts) = 1 /\ Covers(drafts[1], {}, latest.form)
    BY DEF Inv, StateInv, LeaveInv
  <2>2. Keeps(drafts[1], latest.form)
    BY <2>1 DEF Covers, HasSettings, HasQuestions, Keeps
  <2>3. 1 \in 1..Len(drafts)
    BY <2>1
  <2> QED BY <2>2, <2>3
<1> QED BY <1>1, Invariance, PTL

(* A draft is published with what it held when the button was pressed, or  *)
(* something written since: the flush that the publication waits for       *)
(* (ProgramWizardPage.tsx) covers an edit made while a save was running.   *)
THEOREM PublicationsAreFlushed == Spec => []PublishedIsFlushed
<1>1. Inv => PublishedIsFlushed
  <2> SUFFICES ASSUME Inv, publish.at \in {"status", "publish", "published"}, Len(drafts) = 1, unsure = {}
               PROVE  /\ \E f \in publish.forms : drafts[publish.id].payload = draftPayload(f)
                      /\ \A f \in publish.forms :
                           publish.forms = {f} => Keeps(drafts[publish.id], f)
    BY DEF PublishedIsFlushed
  <2>1. PublishTyped /\ PublishInv
    BY DEF Inv, StateInv, Typed
  <2>2. publish # NotPublishing /\ publish.id = 1
    BY <2>1, PublicationParts DEF PublishInv, NotPublishing
  <2>3. Flushed(drafts[1], {}, publish.forms)
    BY <2>1, <2>2 DEF PublishInv
  <2>4. \E f \in publish.forms : drafts[1].payload = draftPayload(f)
    BY <2>3 DEF Flushed, HasSettings
  <2>5. ASSUME NEW f \in publish.forms, publish.forms = {f} PROVE Keeps(drafts[1], f)
    <3>1. drafts[1].payload = draftPayload(f)
      BY <2>4, <2>5
    <3>2. HasQuestions(drafts[1], {}, f)
      BY <2>3, <2>5 DEF Flushed
    <3> QED BY <3>1, <3>2 DEF HasQuestions, Keeps
  <2> QED BY <2>2, <2>4, <2>5
<1> QED BY <1>1, Invariance, PTL

=============================================================================
