---------------------------- MODULE DraftAutosave ----------------------------
(***************************************************************************)
(* The wizard that writes a new program and keeps it on the server as a    *)
(* draft: src/frontend/src/hooks/useProgramAutosave.ts, the page that uses *)
(* it (ProgramWizardPage.tsx) and the handlers it calls.                   *)
(*                                                                         *)
(* A step is one task of the browser's event loop with the promise         *)
(* callbacks that follow it: a keystroke, a timer, the answer to a         *)
(* request, a render.  "view" is the state React holds with every queued   *)
(* update applied; "latest" is the ref the save reads.  An effect copies   *)
(* the one to the other after every render, and the save writes the ref    *)
(* in between.  What an event handler changes is rendered in the same      *)
(* step; what an answer changes is rendered in a step of its own (Render). *)
(*                                                                         *)
(* A request of a save and its answer are one step: only this page writes  *)
(* a draft, one save at a time, so the moment between them at which the    *)
(* server acts is not observable.  A deletion or a publication goes on     *)
(* beside the saves, and its answer is a step of its own.                  *)
(* A form is a title that is long enough or not, one value for all other   *)
(* settings, and the questions of the application form.                    *)
(***************************************************************************)
EXTENDS Integers, Sequences, FiniteSets

CONSTANTS
  Settings,     \* values of everything but the title and the questions
  Recruiting,   \* those whose recruitment mode takes applications
  Keys,         \* keys newFieldKey gives the questions added in the page
  DefaultKey,   \* the key of the question a new form starts with
  Labels,       \* wordings of a question
  MaxActs,      \* bound: what the user does in the page
  MaxFailures   \* bound: requests that are refused or whose answer is lost

Blank == ""     \* the wording of a question that was just added

ASSUME FormAssumption ==
  /\ Recruiting \subseteq Settings
  /\ DefaultKey \notin Keys
  /\ Labels # {} /\ Blank \notin Labels
ASSUME BoundsAssumption == MaxActs \in Nat /\ MaxFailures \in Nat

VARIABLES
  view,      \* React's state: form, programId, saved, phase, error
  latest,    \* the ref: form, programId, saved
  deps,      \* what the effect of the timer last ran for
  timer,     \* the timer of the next save is running
  task,      \* the request a running save waits for, Idle when none runs
  again,     \* the ref that makes a running save start over
  mounted,   \* the page is open
  stopped,   \* the ref set once the draft is published or deleted
  publish,   \* the publication under way
  drafts,    \* the programs this page made, in order
  nextId,    \* the next id of a question the server stores
  acts, failures,
  unsure,    \* history: parts written by a request whose answer was lost
  missed     \* history: a request failed after the page was left

budget == <<acts, failures>>
history == <<unsure, missed>>
server == <<drafts, nextId>>
vars == <<view, latest, deps, timer, task, again, mounted, stopped, publish,
          server, budget, history>>

NoId == 0
Question(k, l) == [key |-> k, id |-> NoId, label |-> l]
Default == CHOOSE l \in Labels : TRUE
Idle == [kind |-> "none"]
NotPublishing == [at |-> "none"]

(* What is sent and compared.  A null is the empty set, another value the  *)
(* set that holds it.                                                      *)
takesApplications(form) == form.settings \in Recruiting
validateDraftFields(form) == \A i \in DOMAIN form.fields : form.fields[i].label # Blank
draftToFieldPayload(fields) ==
  [i \in DOMAIN fields |-> [id |-> fields[i].id, label |-> fields[i].label]]
fieldPayload(form) ==
  IF takesApplications(form) /\ validateDraftFields(form)
  THEN {draftToFieldPayload(form.fields)} ELSE {}
draftPayload(form) == {[title |-> form.title, settings |-> form.settings]}
snapshotOf(form) == [payload |-> draftPayload(form), fields |-> fieldPayload(form)]
NoSnapshot == [payload |-> {}, fields |-> {}]

dirty(v) ==
  IF v.programId = NoId THEN v.form.title
  ELSE LET snap == snapshotOf(v.form)
       IN  \/ snap.payload # v.saved.payload
           \/ snap.fields # {} /\ snap.fields # v.saved.fields
blockedByError(v) == v.phase = "error" /\ v.error = {snapshotOf(v.form)}
(* Mutant: the timer is only set when there is something new to save.     *)
DepsWithoutKey(v) == <<dirty(v), blockedByError(v)>>
Deps(v) == <<snapshotOf(v.form), dirty(v), blockedByError(v)>>
Ref(v) == [form |-> v.form, programId |-> v.programId, saved |-> v.saved]

------------------------------------------------------------------------------
(* The page shows v: the effects of the hook run.                          *)
Shown(v) ==
  /\ view' = v
  /\ latest' = Ref(v)
  /\ deps' = Deps(v)
  /\ timer' = IF Deps(v) # deps THEN dirty(v) /\ ~blockedByError(v) ELSE timer

(* The first request of saveOnce for the ref r, Idle when it has nothing   *)
(* to send.                                                                *)
Changed(form, id, base) ==
  LET snap == snapshotOf(form)
  IN  IF snap.payload # base.payload
      THEN [kind |-> "patch", form |-> form, id |-> id, base |-> base]
      ELSE IF snap.fields # {} /\ snap.fields # base.fields
      THEN [kind |-> "put", form |-> form, id |-> id, base |-> base]
      ELSE Idle

saveOnce(r) ==
  IF r.programId # NoId THEN Changed(r.form, r.programId, r.saved)
  ELSE IF r.form.title
  THEN [kind |-> "create", form |-> r.form, id |-> NoId, base |-> r.saved]
  ELSE Idle

Done(v, r) ==
  [v EXCEPT !.phase = IF r.programId # NoId THEN "saved" ELSE "idle", !.error = {}]

(* The running task ends: a publication that waited for it goes on.        *)
Ended(ok) ==
  publish' = IF publish.at # "flush" THEN publish
             ELSE IF ok THEN [publish EXCEPT !.at = "status"] ELSE NotPublishing

(* A step of the save is over and left the ref r and the state v: it goes  *)
(* on with the request c, or starts over when "again" is set, or ends.     *)
Continue(c, r, v) ==
  LET restart == c = Idle /\ again
      next == IF restart THEN saveOnce(r) ELSE c
  IN  /\ task' = next
      /\ again' = IF restart THEN FALSE ELSE again
      /\ latest' = r
      /\ view' = IF ~mounted THEN view ELSE IF next = Idle THEN Done(v, r) ELSE v
      /\ IF next = Idle THEN Ended(TRUE) ELSE UNCHANGED publish

(* Mutant: a flush during a save leaves it to that save.                   *)
FlushJoinsOnly(p) ==
  LET first == saveOnce(latest)
  IN  IF task # Idle
      THEN UNCHANGED <<task, again, view>> /\ publish' = p
      ELSE /\ again' = FALSE
           /\ task' = first
           /\ view' = IF first = Idle THEN Done(view, latest)
                      ELSE [view EXCEPT !.phase = "saving"]
           /\ publish' = IF first = Idle /\ p.at = "flush"
                         THEN [p EXCEPT !.at = "status"] ELSE p

(* flush() called by a publication p.                                      *)
FlushFor(p) ==
  LET first == saveOnce(latest)
  IN  IF task # Idle
      THEN again' = TRUE /\ publish' = p /\ UNCHANGED <<task, view>>
      ELSE /\ again' = FALSE
           /\ task' = first
           /\ view' = IF first = Idle THEN Done(view, latest)
                      ELSE [view EXCEPT !.phase = "saving"]
           /\ publish' = IF first = Idle /\ p.at = "flush"
                         THEN [p EXCEPT !.at = "status"] ELSE p
flush == FlushFor(publish)

------------------------------------------------------------------------------
(* The handlers.  A row of a form is a question with the id it is stored   *)
(* under; its key, which the server never sees, is history.                *)
Rows(fields, known, first) ==
  [i \in DOMAIN fields |->
     LET fresh == Cardinality({j \in 1..(i - 1) : fields[j].id \notin known})
     IN  IF fields[i].id \in known THEN fields[i]
         ELSE [fields[i] EXCEPT !.id = first + fresh]]
Ids(rows) == {rows[i].id : i \in DOMAIN rows}
Fresh(fields, known) == Cardinality({i \in DOMAIN fields : fields[i].id \notin known})

DefaultForm == <<Question(DefaultKey, Default)>>

createProgram(form) ==
  LET fields == IF ~takesApplications(form) THEN <<>>
                ELSE IF fieldPayload(form) # {} THEN form.fields ELSE DefaultForm
  IN  /\ drafts' = Append(drafts,
           [payload |-> draftPayload(form), rows |-> Rows(fields, {}, nextId),
            status |-> "draft", published |-> FALSE, gone |-> FALSE])
      /\ nextId' = nextId + Fresh(fields, {})

CanPatch(form, id) == form.title /\ ~drafts[id].gone
updateProgram(form, id) ==
  LET needsDefaultForm == takesApplications(form) /\ drafts[id].rows = <<>>
                          /\ \A p \in drafts[id].payload : p.settings \notin Recruiting
  IN  /\ drafts' = [drafts EXCEPT ![id].payload = draftPayload(form),
                                  ![id].status = "draft",
                                  ![id].rows = IF needsDefaultForm
                                               THEN Rows(DefaultForm, {}, nextId) ELSE @]
      /\ nextId' = IF needsDefaultForm THEN nextId + Len(DefaultForm) ELSE nextId

CanPut(id) ==
  /\ ~drafts[id].gone
  /\ \A p \in drafts[id].payload : p.settings \in Recruiting
replaceApplicationFields(form, id) ==
  LET known == Ids(drafts[id].rows)
  IN  /\ drafts' = [drafts EXCEPT ![id].rows = Rows(form.fields, known, nextId)]
      /\ nextId' = nextId + Fresh(form.fields, known)

(* The ids of the stored rows for the questions that were sent, by key.    *)
adoptFieldIds(fields, sent, stored) ==
  [i \in DOMAIN fields |->
     LET same == {j \in DOMAIN sent : sent[j].key = fields[i].key}
     IN  IF fields[i].id # NoId \/ same = {} \/ Len(stored) # Len(sent) THEN fields[i]
         ELSE [fields[i] EXCEPT !.id = stored[CHOOSE j \in same : TRUE].id]]
Stored(sent, stored) ==
  IF Len(stored) # Len(sent) THEN {}
  ELSE {draftToFieldPayload([i \in DOMAIN sent |-> [sent[i] EXCEPT !.id = stored[i].id]])}

(* React's setForm, setSaved and setProgramId, which an answer may queue.  *)
setForm(v, sent, stored) ==
  [v EXCEPT !.form.fields = adoptFieldIds(v.form.fields, sent, stored)]

------------------------------------------------------------------------------
(* What the user does.                                                     *)
Edit(form) ==
  /\ mounted /\ ~stopped /\ acts < MaxActs
  /\ form # view.form
  /\ acts' = acts + 1
  /\ Shown([view EXCEPT !.form = form])
  /\ publish' = IF publish.at = "none" THEN publish
                ELSE [publish EXCEPT !.forms = @ \cup {form}]
  /\ UNCHANGED <<task, again, mounted, stopped, server, failures, history>>

EditTitle == Edit([view.form EXCEPT !.title = ~@])
EditSettings == \E s \in Settings : Edit([view.form EXCEPT !.settings = s])
AddQuestion ==
  \E k \in Keys \ {view.form.fields[i].key : i \in DOMAIN view.form.fields} :
    Edit([view.form EXCEPT !.fields = Append(@, Question(k, Blank))])
EditQuestion ==
  \E i \in DOMAIN view.form.fields, l \in Labels :
    Edit([view.form EXCEPT !.fields[i].label = l])
RemoveQuestion ==
  \E i \in DOMAIN view.form.fields :
    Edit([view.form EXCEPT !.fields = SubSeq(@, 1, i - 1) \o SubSeq(@, i + 1, Len(@))])
MoveQuestion ==
  \E i \in 1..(Len(view.form.fields) - 1) :
    Edit([view.form EXCEPT !.fields =
      [j \in DOMAIN @ |-> IF j = i THEN @[i + 1] ELSE IF j = i + 1 THEN @[i] ELSE @[j]]])

(* The save and retry buttons, and a page that goes to the background.     *)
SaveNow ==
  /\ mounted /\ ~stopped /\ acts < MaxActs
  /\ acts' = acts + 1
  /\ flush
  /\ UNCHANGED <<latest, deps, timer, mounted, stopped, server, failures, history>>

(* The publish button: flush, then the status, then the publication.       *)
Publish ==
  /\ mounted /\ ~stopped /\ acts < MaxActs
  /\ publish.at = "none"
  /\ view.programId # NoId /\ ~drafts[view.programId].gone
  /\ view.form.title
  /\ takesApplications(view.form) => validateDraftFields(view.form)
  /\ acts' = acts + 1
  /\ FlushFor([at |-> "flush", id |-> view.programId, forms |-> {view.form}])
  /\ UNCHANGED <<latest, deps, timer, mounted, stopped, server, failures, history>>

(* The link back to the list: the effect of the hook is cleaned up.  When  *)
(* the page goes away after Deleted or Announced, "stopped" makes this     *)
(* flush return at once.                                                   *)
Leave ==
  /\ mounted
  /\ mounted' = FALSE
  /\ timer' = FALSE
  /\ flush
  /\ UNCHANGED <<latest, deps, stopped, server, budget, history>>

(* The delete button, which with that of a publication is off while either *)
(* is under way: the server deletes the draft ...                          *)
Delete ==
  /\ mounted /\ ~stopped
  /\ view.programId # NoId /\ ~drafts[view.programId].gone
  /\ publish.at = "none"
  /\ drafts' = [drafts EXCEPT ![view.programId].gone = TRUE]
  /\ UNCHANGED <<view, latest, deps, timer, task, again, mounted, stopped, publish, nextId,
                 budget, history>>

(* The page stops the autosave and goes to the program, or to the list.    *)
GoAway ==
  /\ stopped' = TRUE
  /\ mounted' = FALSE
  /\ timer' = FALSE
  /\ UNCHANGED <<view, latest, deps, task, again, server, budget, history>>

(* ... and its answer, which may never come.                               *)
Deleted ==
  /\ ~stopped
  /\ view.programId # NoId /\ drafts[view.programId].gone
  /\ GoAway
  /\ UNCHANGED publish

------------------------------------------------------------------------------
(* What the browser does.                                                  *)
Render ==
  /\ mounted
  /\ Ref(view) # latest \/ Deps(view) # deps
  /\ Shown(view)
  /\ UNCHANGED <<task, again, mounted, stopped, publish, server, budget, history>>

TimerFires ==
  /\ timer
  /\ timer' = FALSE
  /\ flush
  /\ UNCHANGED <<latest, deps, mounted, stopped, server, budget, history>>

(* The program is made.  The page learns its id only after the form was    *)
(* read back, when there is one.                                           *)
Created ==
  /\ task.kind = "create"
  /\ createProgram(task.form)
  /\ LET id == Len(drafts) + 1
         snap == snapshotOf(task.form)
         new == [payload |-> snap.payload, fields |-> {}]
     IN  IF snap.fields # {}
         THEN /\ latest' = [latest EXCEPT !.programId = id]
              /\ task' = [task EXCEPT !.kind = "read", !.id = id]
              /\ UNCHANGED <<view, again, publish>>
         ELSE Continue(Idle, [latest EXCEPT !.programId = id, !.saved = new],
                       [view EXCEPT !.programId = id, !.saved = new])
  /\ UNCHANGED <<deps, timer, mounted, stopped, budget, history>>

FormRead ==
  /\ task.kind = "read"
  /\ LET sent == task.form.fields
         stored == drafts[task.id].rows
         new == [payload |-> draftPayload(task.form), fields |-> Stored(sent, stored)]
     IN  Continue(Idle, [latest EXCEPT !.saved = new],
                  [setForm(view, sent, stored) EXCEPT !.programId = task.id, !.saved = new])
  /\ UNCHANGED <<deps, timer, mounted, stopped, server, budget, history>>

(* Mutant: what is marked as saved is the form as it is when the answer    *)
(* arrives.                                                                *)
PatchedLatest ==
  /\ task.kind = "patch"
  /\ CanPatch(task.form, task.id)
  /\ updateProgram(task.form, task.id)
  /\ unsure' = unsure \ {"settings"}
  /\ LET snap == snapshotOf(latest.form)
         new == [task.base EXCEPT !.payload = snap.payload]
         next == Changed(task.form, task.id, new)
     IN  Continue(next, [latest EXCEPT !.saved = new], [view EXCEPT !.saved = new])
  /\ UNCHANGED <<deps, timer, mounted, stopped, budget, missed>>

Patched ==
  /\ task.kind = "patch"
  /\ CanPatch(task.form, task.id)
  /\ updateProgram(task.form, task.id)
  /\ unsure' = unsure \ {"settings"}
  /\ LET snap == snapshotOf(task.form)
         new == [task.base EXCEPT !.payload = snap.payload]
         next == Changed(task.form, task.id, new)
     IN  Continue(next, [latest EXCEPT !.saved = new], [view EXCEPT !.saved = new])
  /\ UNCHANGED <<deps, timer, mounted, stopped, budget, missed>>

Put ==
  /\ task.kind = "put"
  /\ CanPut(task.id)
  /\ replaceApplicationFields(task.form, task.id)
  /\ unsure' = unsure \ {"questions"}
  /\ LET sent == task.form.fields
         stored == drafts'[task.id].rows
         new == [latest.saved EXCEPT !.fields = Stored(sent, stored)]
     IN  Continue(Idle, [latest EXCEPT !.saved = new],
                  [setForm(view, sent, stored) EXCEPT !.saved = new])
  /\ UNCHANGED <<deps, timer, mounted, stopped, budget, missed>>

(* Mutant: the error is kept and the indicator goes on saying "saving".    *)
FailedSilently ==
  /\ task' = Idle
  /\ view' = IF mounted THEN [view EXCEPT !.error = {snapshotOf(latest.form)}] ELSE view
  /\ Ended(FALSE)
  /\ missed' = (missed \/ ~mounted)
  /\ UNCHANGED <<latest, deps, timer, again, mounted, stopped, acts>>

(* A request fails: the task ends with the error, "again" stays as it is.  *)
Failed ==
  /\ task' = Idle
  /\ view' = IF mounted
             THEN [view EXCEPT !.phase = "error", !.error = {snapshotOf(latest.form)}]
             ELSE view
  /\ Ended(FALSE)
  /\ missed' = (missed \/ ~mounted)
  /\ UNCHANGED <<latest, deps, timer, again, mounted, stopped, acts>>

(* The server cannot accept it: the title is too short, the program is     *)
(* gone or takes no applications.                                          *)
Rejected ==
  /\ \/ task.kind = "patch" /\ ~CanPatch(task.form, task.id)
     \/ task.kind = "put" /\ ~CanPut(task.id)
  /\ Failed
  /\ UNCHANGED <<server, failures, unsure>>

(* It is refused for another reason, or never arrives.                     *)
Refused ==
  /\ task # Idle /\ failures < MaxFailures
  /\ failures' = failures + 1
  /\ Failed
  /\ UNCHANGED <<server, unsure>>

(* It is carried out and the answer is lost.                               *)
AnswerLost ==
  /\ failures < MaxFailures
  /\ \/ task.kind = "create" /\ createProgram(task.form) /\ unsure' = unsure
     \/ /\ task.kind = "patch" /\ CanPatch(task.form, task.id)
        /\ updateProgram(task.form, task.id)
        /\ unsure' = unsure \cup {"settings"}
     \/ /\ task.kind = "put" /\ CanPut(task.id)
        /\ replaceApplicationFields(task.form, task.id)
        /\ unsure' = unsure \cup {"questions"}
  /\ failures' = failures + 1
  /\ Failed

(* The publication goes on: updateProgram with the status, then publish.   *)
StatusSet ==
  /\ publish.at = "status"
  /\ ~drafts[publish.id].gone
  /\ \E statusChanged \in BOOLEAN :
       drafts' = IF statusChanged
                 THEN [drafts EXCEPT ![publish.id].status = "active"] ELSE drafts
  /\ publish' = [publish EXCEPT !.at = "publish"]
  /\ UNCHANGED <<view, latest, deps, timer, task, again, mounted, stopped, nextId,
                 budget, history>>

Published ==
  /\ publish.at = "publish"
  /\ drafts' = [drafts EXCEPT ![publish.id].published = TRUE]
  /\ publish' = [publish EXCEPT !.at = "published"]
  /\ UNCHANGED <<view, latest, deps, timer, task, again, mounted, stopped, nextId,
                 budget, history>>

Announced ==
  /\ publish.at = "published"
  /\ publish' = NotPublishing
  /\ GoAway

(* On failure, and when the answer is lost, the status is put back.        *)
PublishFails ==
  /\ publish.at \in {"status", "publish", "published"} /\ failures < MaxFailures
  /\ failures' = failures + 1
  /\ drafts' = IF publish.at # "status"
               THEN [drafts EXCEPT ![publish.id].status = "draft"] ELSE drafts
  /\ publish' = NotPublishing
  /\ UNCHANGED <<view, latest, deps, timer, task, again, mounted, stopped, nextId,
                 acts, history>>

------------------------------------------------------------------------------
(* A new program after chooseMode, or a draft that is resumed.             *)
Opened(v, made, rows) ==
  /\ view = v
  /\ latest = Ref(v)
  /\ deps = Deps(v)
  /\ timer = (dirty(v) /\ ~blockedByError(v))
  /\ drafts = made
  /\ nextId = rows + 1

Init ==
  /\ \E s \in Settings :
       LET form == [title |-> FALSE, settings |-> s, fields |-> DefaultForm]
           stored == [form EXCEPT !.title = TRUE,
                        !.fields = IF s \in Recruiting THEN Rows(DefaultForm, {}, 1) ELSE <<>>]
       IN  \/ Opened([form |-> form, programId |-> NoId, saved |-> NoSnapshot,
                      phase |-> "idle", error |-> {}], <<>>, 0)
           \/ Opened([form |-> stored, programId |-> 1, saved |-> snapshotOf(stored),
                      phase |-> "saved", error |-> {}],
                     <<[payload |-> draftPayload(stored), rows |-> stored.fields,
                        status |-> "draft", published |-> FALSE, gone |-> FALSE]>>, 1)
  /\ task = Idle /\ again = FALSE
  /\ mounted = TRUE /\ stopped = FALSE
  /\ publish = NotPublishing
  /\ acts = 0 /\ failures = 0 /\ unsure = {} /\ missed = FALSE

User == EditTitle \/ EditSettings \/ AddQuestion \/ EditQuestion \/ RemoveQuestion
        \/ MoveQuestion \/ SaveNow \/ Publish \/ Leave \/ Delete
Answer == Created \/ FormRead \/ Patched \/ Put \/ Rejected \/ Refused \/ AnswerLost
Publication == StatusSet \/ Published \/ Announced \/ PublishFails \/ Deleted

Next == User \/ Render \/ TimerFires \/ Answer \/ Publication

Spec == Init /\ [][Next]_vars

(* Timers fire, React renders, and every request is answered or fails: the *)
(* browser gives up on one that is not.  Nothing is assumed of the user.   *)
FairSpec == /\ Spec
            /\ WF_vars(Render)
            /\ WF_vars(TimerFires)
            /\ WF_vars(Answer)

------------------------------------------------------------------------------
(* Every variable stays in its range, and an open page shows that it saves *)
(* exactly while a save runs.                                              *)
TypeOK ==
  /\ view.form.title \in BOOLEAN /\ view.form.settings \in Settings
  /\ \A i \in DOMAIN view.form.fields :
       view.form.fields[i] \in [key : Keys \cup {DefaultKey}, id : Nat, label : Labels \cup {Blank}]
  /\ view.programId \in 0..Len(drafts) /\ latest.programId \in 0..Len(drafts)
  /\ task.kind \in {"none", "create", "read", "patch", "put"}
  /\ mounted => (view.phase = "saving") = (task # Idle)
  /\ timer \in BOOLEAN /\ again \in BOOLEAN /\ mounted \in BOOLEAN /\ stopped \in BOOLEAN
  /\ acts \in 0..MaxActs /\ failures \in 0..MaxFailures
  /\ unsure \subseteq {"settings", "questions"}

Settled == mounted /\ task = Idle /\ Ref(view) = latest /\ Deps(view) = deps

(* The draft holds the form, word for word, as far as it can be sent.  The *)
(* empty form is left out: the server gives a draft that starts to take    *)
(* applications a default question, which the page does not hear of.       *)
Words(fields) == [i \in DOMAIN fields |-> fields[i].label]
Keeps(d, form) ==
  /\ d.payload = draftPayload(form)
  /\ fieldPayload(form) # {} /\ form.fields # <<>> => Words(d.rows) = Words(form.fields)
Exact(d, form) ==
  /\ Keeps(d, form)
  /\ fieldPayload(form) # {} /\ form.fields # <<>>
       => \A i \in DOMAIN d.rows : d.rows[i].id = form.fields[i].id

(* When the page says that everything is saved, the draft on the server is *)
(* the form, question for question and id for id (useProgramAutosave.ts,   *)
(* dirty and commit): unless an answer was lost that nothing has confirmed *)
(* since, or the page has made a second draft.                             *)
SavedIsStored ==
  Settled /\ view.programId # NoId /\ ~dirty(view) /\ unsure = {} /\ Len(drafts) = 1
    => Exact(drafts[view.programId], view.form)

(* Leaving saves what is pending (the cleanup that calls flush): once the  *)
(* last save is over, some draft has the settings the page had when it was *)
(* left, unless a request failed, the title was too short, the page has    *)
(* made a second draft or the draft was published or deleted.              *)
LeavingSaves ==
  ~mounted /\ task = Idle /\ ~stopped /\ latest.form.title /\ ~missed /\ unsure = {}
  /\ Len(drafts) <= 1
    => \E d \in 1..Len(drafts) : Keeps(drafts[d], latest.form)

(* A draft is published with what it held when the button was pressed, or  *)
(* something written since: the flush that it waits for (ProgramWizardPage.tsx)      *)
(* covers an edit made while a save was running.                           *)
PublishedIsFlushed ==
  publish.at \in {"status", "publish", "published"} /\ Len(drafts) = 1 /\ unsure = {}
    => /\ \E f \in publish.forms : drafts[publish.id].payload = draftPayload(f)
       /\ \A f \in publish.forms : publish.forms = {f} => Keeps(drafts[publish.id], f)

(* An edit of the settings does not stay unsaved while the page is open:   *)
(* either a save takes it or the page shows the error of the last one.     *)
EditsAreSaved ==
  mounted /\ view.form.title
    ~> \/ ~mounted \/ ~view.form.title
       \/ view.phase = "error"
       \/ view.saved.payload = draftPayload(view.form)
=============================================================================
