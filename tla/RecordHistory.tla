--------------------------- MODULE RecordHistory ----------------------------
(***************************************************************************)
(* What the official records of an organization promise, seen only through *)
(* who each version names (docs/OFFICIAL-PROJECT-RECORDS.md, sections 3.1  *)
(* and 3.3): versions are added and never rewritten, whoever a version     *)
(* names stays named in the versions after it, and the one thing that may  *)
(* change the past is a redaction, which takes a person out of every       *)
(* version at once and out of all that follow.                             *)
(***************************************************************************)
EXTENDS Naturals, Sequences

CONSTANTS Keys, Users   \* the records and the people they may name

VARIABLES
  pages,   \* for each record, the people named by version 1, 2, ...
  hidden   \* for each record, the people redacted from it

history == <<pages, hidden>>

HistoryInit ==
  /\ pages = [k \in Keys |-> <<>>]
  /\ hidden = [k \in Keys |-> {}]

Last(book) == IF book = <<>> THEN {} ELSE book[Len(book)]

(* Versions are added to book, naming at least everybody named so far and  *)
(* nobody who was redacted.                                                *)
Extends(book, longer, out) ==
  /\ Len(longer) >= Len(book)
  /\ \A v \in 1 .. Len(book) : longer[v] = book[v]
  /\ \A v \in Len(book) + 1 .. Len(longer) :
       /\ longer[v] \cap out = {}
       /\ (IF v = 1 THEN {} ELSE longer[v - 1]) \subseteq longer[v]

(* One transaction may add versions to several records, and more than one  *)
(* to the same record.                                                     *)
AddVersions ==
  /\ \A k \in Keys : Extends(pages[k], pages'[k], hidden[k])
  /\ UNCHANGED hidden

Redact(k, u) ==
  /\ u \notin hidden[k]
  /\ pages[k] # <<>>
  /\ hidden' = [hidden EXCEPT ![k] = @ \union {u}]
  /\ pages' = [pages EXCEPT ![k] =
                 [v \in 1 .. Len(@) + 1 |->
                    (IF v <= Len(@) THEN @[v] ELSE Last(@)) \ {u}]]

HistoryNext == AddVersions \/ \E k \in Keys, u \in Users : Redact(k, u)

HistorySpec == HistoryInit /\ [][HistoryNext]_history
=============================================================================
