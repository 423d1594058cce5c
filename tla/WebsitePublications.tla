-------------------------- MODULE WebsitePublications --------------------------
(***************************************************************************)
(* The platform website (platform_publication.py): drafts are private and  *)
(* edited under a revision the editor must have seen; the public page      *)
(* receives a snapshot of the draft, and can go back to the snapshot       *)
(* before.  Requests are transactions of SnapshotDB; the page an operator  *)
(* has open shows the revision and the text of the draft as they were.     *)
(***************************************************************************)
EXTENDS Naturals, FiniteSets, SnapshotDB

CONSTANTS
  Publication, \* the row of one publication
  Operator,
  Text,        \* drafts' contents
  NoText,
  MaxRevision  \* a bound: revisions of a publication

ASSUME PublicationAssumption ==
  /\ Publication \in Row /\ NoText \notin Text /\ MaxRevision \in Nat \ {0}

PublicationRow ==
  [text : Text, revision : 1 .. MaxRevision, archived : BOOLEAN,
   published : Text \cup {NoText}, previous : Text \cup {NoText}]

ASSUME AbsentPublicationAssumption == Absent \notin PublicationRow

NoPage == [text |-> NoText, revision |-> 0]

VARIABLES
  page,    \* page[o]: what the operator o has open
  shown    \* shown[t]: the page the request t was sent from, NoPage before

pubVars == <<page, shown>>

PublicationInit ==
  /\ page = [o \in Operator |-> NoPage]
  /\ shown = [t \in Txn |-> NoPage]

-----------------------------------------------------------------------------
Draft(t) == view[t][Publication]

\* get_publications.
OpenPage(o) ==
  /\ db[Publication] # Absent
  /\ page' = [page EXCEPT ![o] = [text |-> db[Publication].text,
                                  revision |-> db[Publication].revision]]
  /\ UNCHANGED <<dbVars, shown>>

\* A click: the request begins, and carries the revision of the page.
Click(t, o) ==
  /\ page[o] # NoPage /\ shown[t] = NoPage
  /\ BeginTxn(t) /\ shown' = [shown EXCEPT ![t] = page[o]]
  /\ UNCHANGED page

Answered(t) == shown' = [shown EXCEPT ![t] = NoPage] /\ UNCHANGED page

\* save_publication of a new draft.
NewDraft(t, text) ==
  /\ t \in active /\ shown[t] = NoPage /\ Draft(t) = Absent
  /\ CommitWith(t, [x \in {Publication} |->
       [text |-> text, revision |-> 1, archived |-> FALSE,
        published |-> NoText, previous |-> NoText]])
  /\ Answered(t)

\* _lock_revision.
LockRevision(t) ==
  /\ t \in active /\ Draft(t) # Absent /\ CanWrite(t, Publication)
  /\ shown[t].revision = Draft(t).revision

\* Mutant: a save keeps the revision.
SaveUnderRevision(t, row) ==
  /\ LockRevision(t)
  /\ CommitWith(t, [x \in {Publication} |-> row])
  /\ Answered(t)

Save(t, row) ==
  /\ LockRevision(t) /\ Draft(t).revision < MaxRevision
  /\ CommitWith(t, [x \in {Publication} |-> [row EXCEPT !.revision = @ + 1]])
  /\ Answered(t)

SaveDraft(t, text) == Save(t, [Draft(t) EXCEPT !.text = text])

Published(row, text) ==
  [row EXCEPT !.previous = row.published, !.published = text, !.archived = FALSE]

Publish(t) == Save(t, Published(Draft(t), Draft(t).text))

Archive(t) == Save(t, [Draft(t) EXCEPT !.archived = TRUE])

Revert(t) ==
  /\ Draft(t) # Absent /\ Draft(t).previous # NoText
  /\ Save(t, Published(Draft(t), Draft(t).previous))

PublicationStep ==
  \/ \E o \in Operator : OpenPage(o) \/ \E t \in Txn : Click(t, o)
  \/ \E t \in Txn :
       \/ \E text \in Text : NewDraft(t, text) \/ SaveDraft(t, text)
       \/ Publish(t) \/ Archive(t) \/ Revert(t)

-----------------------------------------------------------------------------
\* Nobody overwrites or publishes a draft unseen: who saves, publishes, archives
\* or reverts had the very text on the page that the draft has by then, however
\* many operators edit at the same time.
SeenBeforeChanged ==
  [][\A t \in active \ active' :
       db[Publication] # Absent /\ db'[Publication] # db[Publication] =>
         shown[t].text = db[Publication].text]_<<dbVars, pubVars>>
===============================================================================
