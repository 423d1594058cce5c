------------------------ MODULE PlatformServicesProofs ------------------------
(***************************************************************************)
(* Machine-checked proofs about PlatformServices, for every number of      *)
(* requests, proposals, operators, organizations and users: ORVEXA's tasks *)
(* are carried out once, the website's drafts are not changed unseen, and  *)
(* conversations follow the accounts; for every number of workers and      *)
(* logins, the sign-in throttle counts what is tried.  And, for every book *)
(* of contacts, every set of conversations and every caller, what the      *)
(* access rules of ContactScope and DiscussAccess keep.                    *)
(***************************************************************************)
EXTENDS PlatformServices, ContactScope, DiscussAccess, SnapshotProofs

TaskRow == Proposal \cup Invoice \cup {Records}
DiscussRow == User \cup Channel \cup Membership

(* ORVEXA: the rows, and what they say of the invoices of a proposal.      *)
TaskRowsOK(rows) ==
  /\ \A p \in Proposal : rows[p] \in ProposalRow \cup {Absent}
  /\ \A i \in Invoice : rows[i] \in InvoiceRow \cup {Absent}
  /\ rows[Records] \in 1 .. LastRevision

OnceOnly(rows) ==
  \A i, j \in Invoice :
    rows[i] # Absent /\ rows[j] # Absent /\ rows[i].of = rows[j].of => i = j

CarriedOut(rows) ==
  \A i \in Invoice : rows[i] # Absent =>
    rows[rows[i].of] # Absent /\ rows[rows[i].of].state = "done"

(* The website: a page that shows the revision of the draft shows its text.*)
DraftOK(rows) == rows[Publication] \in PublicationRow \cup {Absent}

Page == [text : Text \cup {NoText}, revision : 0 .. MaxRevision]

Faithful(pg, row) ==
  pg.revision > 0 =>
    /\ row # Absent /\ pg.revision <= row.revision
    /\ pg.revision = row.revision => pg.text = row.text

PagesFaithful(row) ==
  /\ page \in [Operator -> Page] /\ shown \in [Txn -> Page]
  /\ \A o \in Operator : Faithful(page[o], row)
  /\ \A t \in Txn : Faithful(shown[t], row)

(* The inductive invariant.                                                *)
IInv ==
  /\ Discipline
  /\ TaskRowsOK(db) /\ \A t \in active : TaskRowsOK(view[t])
  /\ expired \subseteq Proposal
  /\ OnceOnly(db) /\ CarriedOut(db)
  /\ DraftOK(db) /\ \A t \in active : DraftOK(view[t])
  /\ PagesFaithful(db[Publication])

-----------------------------------------------------------------------------
LEMMA RowsApart ==
  /\ TaskRow \subseteq Row /\ DiscussRow \subseteq Row /\ Publication \in Row
  /\ Publication \notin TaskRow \cup DiscussRow /\ TaskRow \cap DiscussRow = {}
  /\ Records \notin Proposal \cup Invoice /\ Proposal \cap Invoice = {}
BY PlatformRowAssumption, TaskAssumption DEF TaskRow, DiscussRow

-----------------------------------------------------------------------------
(* ORVEXA's operations by what they leave of their rows.                   *)
DoneRow(row, i) == [row EXCEPT !.state = "done", !.result = i]
CancelledRow(row) == [row EXCEPT !.state = "cancelled"]
ClearedRow(row) == [row EXCEPT !.result = Absent]
RemovedRow(row) == [row EXCEPT !.removed = TRUE]

TaskRowsKept(S) == \A r \in TaskRow \ S : db'[r] = db[r]

PrepareLeaves(p) ==
  /\ TaskRowsKept({p}) /\ db[p] = Absent
  /\ db'[p] \in ProposalRow /\ db'[p].state = "pending"

CancelLeaves(p) ==
  /\ TaskRowsKept({p}) /\ db[p] \in ProposalRow /\ db[p].state # "done"
  /\ db'[p] = CancelledRow(db[p])

ConfirmLeaves(p, i) ==
  /\ TaskRowsKept({p, i}) /\ db[p] \in ProposalRow /\ db[p].state = "pending"
  /\ db[i] = Absent
  /\ db'[p] = DoneRow(db[p], i) /\ db'[i] = [of |-> p, removed |-> FALSE]

RemoveLeaves(i, P) ==
  /\ TaskRowsKept({i} \cup P) /\ db[i] \in InvoiceRow
  /\ db'[i] = RemovedRow(db[i])
  /\ \A p \in P : db[p] \in ProposalRow /\ db'[p] = ClearedRow(db[p])

EditLeaves ==
  TaskRowsKept({Records}) /\ db'[Records] \in 1 .. LastRevision

TaskLeaves ==
  \/ \E p \in Proposal : PrepareLeaves(p) \/ CancelLeaves(p)
  \/ \E p \in Proposal, i \in Invoice : ConfirmLeaves(p, i)
  \/ \E i \in Invoice, P \in SUBSET Proposal : RemoveLeaves(i, P)
  \/ EditLeaves

LEMMA PrepareFacts ==
  ASSUME IInv, NEW t \in Txn, NEW p \in Proposal, PrepareInvoice(t, p)
  PROVE  Commits(t, TaskRow) /\ PrepareLeaves(p) /\ expired' = expired
<1> DEFINE new == [x \in {p} |->
             [state |-> "pending", revision |-> view[t][Records], result |-> Absent]]
<1>1. t \in active /\ CommitWith(t, new) /\ view[t][p] = Absent /\ expired' = expired
  BY DEF PrepareInvoice, Requested, Exists
<1>2. DOMAIN new = {p} /\ p \in TaskRow
      /\ new[p] = [state |-> "pending", revision |-> view[t][Records], result |-> Absent]
  BY DEF TaskRow
<1>3. new[p] \in ProposalRow /\ new[p].state = "pending"
  BY <1>1, <1>2 DEF IInv, TaskRowsOK, ProposalRow
<1> HIDE DEF new
<1>4. /\ Commits(t, TaskRow) /\ view[t][p] = db[p] /\ db'[p] = new[p]
      /\ TaskRowsKept({p})
  BY <1>1, <1>2, RowsApart, CommitRows DEF IInv, TaskRowsKept
<1>5. QED
  BY <1>1, <1>3, <1>4 DEF PrepareLeaves

LEMMA CancelFacts ==
  ASSUME IInv, NEW t \in Txn, NEW p \in Proposal, Cancel(t, p)
  PROVE  Commits(t, TaskRow) /\ CancelLeaves(p) /\ expired' = expired
<1> DEFINE new == [x \in {p} |-> CancelledRow(view[t][p])]
<1>1. t \in active /\ CommitWith(t, new) /\ view[t][p] # Absent
      /\ view[t][p].state # "done" /\ expired' = expired
  BY DEF Cancel, Found, Requested, Exists, CancelledRow
<1>2. DOMAIN new = {p} /\ p \in TaskRow /\ new[p] = CancelledRow(view[t][p])
  BY DEF TaskRow
<1>3. view[t][p] \in ProposalRow
  BY <1>1 DEF IInv, TaskRowsOK
<1> HIDE DEF new
<1>4. /\ Commits(t, TaskRow) /\ view[t][p] = db[p] /\ db'[p] = new[p]
      /\ TaskRowsKept({p})
  BY <1>1, <1>2, RowsApart, CommitRows DEF IInv, TaskRowsKept
<1>5. QED
  BY <1>1, <1>2, <1>3, <1>4 DEF CancelLeaves

LEMMA ConfirmFacts ==
  ASSUME IInv, NEW t \in Txn, NEW p \in Proposal, NEW i \in Invoice, Confirm(t, p, i)
  PROVE  Commits(t, TaskRow) /\ ConfirmLeaves(p, i) /\ expired' = expired
<1> DEFINE new == [x \in {p, i} |->
             IF x = i THEN [of |-> p, removed |-> FALSE] ELSE DoneRow(view[t][p], i)]
<1>1. t \in active /\ CommitWith(t, new) /\ view[t][p] # Absent
      /\ view[t][p].state = "pending" /\ view[t][i] = Absent /\ expired' = expired
  BY DEF Confirm, Found, Confirmable, Requested, Exists, DoneRow
<1>2. DOMAIN new = {p, i} /\ p \in TaskRow /\ i \in TaskRow /\ p # i
  BY RowsApart DEF TaskRow
<1>3. new[p] = DoneRow(view[t][p], i) /\ new[i] = [of |-> p, removed |-> FALSE]
  BY <1>2
<1>4. view[t][p] \in ProposalRow
  BY <1>1 DEF IInv, TaskRowsOK
<1> HIDE DEF new
<1>5. /\ Commits(t, TaskRow) /\ view[t][p] = db[p] /\ view[t][i] = db[i]
      /\ db'[p] = new[p] /\ db'[i] = new[i]
      /\ TaskRowsKept({p, i})
  BY <1>1, <1>2, RowsApart, CommitRows DEF IInv, TaskRowsKept
<1>6. QED
  BY <1>1, <1>3, <1>4, <1>5 DEF ConfirmLeaves

LEMMA RemoveFacts ==
  ASSUME IInv, NEW t \in Txn, NEW i \in Invoice, RemoveInvoice(t, i)
  PROVE  /\ Commits(t, TaskRow) /\ expired' = expired
         /\ \E P \in SUBSET Proposal : RemoveLeaves(i, P)
<1> DEFINE P == {p \in Proposal : Exists(t, p) /\ view[t][p].result = i}
           new == [x \in {i} \cup P |->
             IF x = i THEN RemovedRow(view[t][i]) ELSE ClearedRow(view[t][x])]
<1>1. t \in active /\ CommitWith(t, new) /\ view[t][i] # Absent /\ expired' = expired
  BY DEF RemoveInvoice, Requested, Exists, RemovedRow, ClearedRow
<1>2. DOMAIN new = {i} \cup P /\ P \subseteq TaskRow /\ i \in TaskRow /\ i \notin P
  BY RowsApart DEF TaskRow
<1>3. new[i] = RemovedRow(view[t][i]) /\ \A p \in P : new[p] = ClearedRow(view[t][p])
  BY <1>2
<1>4. view[t][i] \in InvoiceRow /\ \A p \in P : view[t][p] \in ProposalRow
  BY <1>1 DEF IInv, TaskRowsOK, Exists
<1>5. P \in SUBSET Proposal
  OBVIOUS
<1> HIDE DEF P, new
<1>6. /\ Commits(t, TaskRow) /\ view[t][i] = db[i] /\ db'[i] = new[i]
      /\ \A p \in P : view[t][p] = db[p] /\ db'[p] = new[p]
      /\ TaskRowsKept({i} \cup P)
  BY <1>1, <1>2, RowsApart, CommitRows DEF IInv, TaskRowsKept
<1>7. RemoveLeaves(i, P)
  BY <1>3, <1>4, <1>6 DEF RemoveLeaves
<1>8. QED
  BY <1>1, <1>5, <1>6, <1>7

LEMMA EditFacts ==
  ASSUME IInv, NEW t \in Txn, EditRecords(t)
  PROVE  Commits(t, TaskRow) /\ EditLeaves /\ expired' = expired
<1> DEFINE new == [x \in {Records} |-> view[t][Records] + 1]
<1>1. t \in active /\ CommitWith(t, new) /\ view[t][Records] < LastRevision
      /\ expired' = expired
  BY DEF EditRecords, Requested
<1>2. DOMAIN new = {Records} /\ Records \in TaskRow /\ new[Records] = view[t][Records] + 1
  BY DEF TaskRow
<1>3. new[Records] \in 1 .. LastRevision
  BY <1>1, <1>2, TaskAssumption DEF IInv, TaskRowsOK
<1> HIDE DEF new
<1>4. /\ Commits(t, TaskRow) /\ db'[Records] = new[Records] /\ TaskRowsKept({Records})
  BY <1>1, <1>2, RowsApart, CommitRows DEF IInv, TaskRowsKept
<1>5. QED
  BY <1>1, <1>3, <1>4 DEF EditLeaves

LEMMA TaskStepFacts ==
  ASSUME IInv, TaskStep
  PROVE  \/ UNCHANGED dbVars /\ expired' \subseteq Proposal
         \/ /\ \E t \in active : Commits(t, TaskRow)
            /\ TaskLeaves /\ expired' = expired
<1>1. ASSUME NEW t \in Txn, NEW p \in Proposal, PrepareInvoice(t, p) \/ Cancel(t, p)
      PROVE  (\E u \in active : Commits(u, TaskRow)) /\ TaskLeaves /\ expired' = expired
  BY <1>1, PrepareFacts, CancelFacts DEF Commits, TaskLeaves
<1>2. ASSUME NEW t \in Txn, NEW p \in Proposal, NEW i \in Invoice, Confirm(t, p, i)
      PROVE  (\E u \in active : Commits(u, TaskRow)) /\ TaskLeaves /\ expired' = expired
  BY <1>2, ConfirmFacts DEF Commits, TaskLeaves
<1>3. ASSUME NEW t \in Txn, EditRecords(t)
      PROVE  (\E u \in active : Commits(u, TaskRow)) /\ TaskLeaves /\ expired' = expired
  BY <1>3, EditFacts DEF Commits, TaskLeaves
<1>4. ASSUME NEW t \in Txn, NEW i \in Invoice, RemoveInvoice(t, i)
      PROVE  (\E u \in active : Commits(u, TaskRow)) /\ TaskLeaves /\ expired' = expired
  BY <1>4, RemoveFacts DEF Commits, TaskLeaves
<1>5. ASSUME NEW p \in Proposal, TenMinutesPass(p)
      PROVE  UNCHANGED dbVars /\ expired' \subseteq Proposal
  BY <1>5 DEF TenMinutesPass, IInv
<1>6. QED
  BY <1>1, <1>2, <1>3, <1>4, <1>5 DEF TaskStep

(* What each operation leaves keeps a proposal carried out once at most.   *)
LEMMA TaskLeavesKeeps ==
  ASSUME IInv, TaskLeaves
  PROVE  TaskRowsOK(db') /\ OnceOnly(db') /\ CarriedOut(db')
<1> USE RowsApart DEF TaskRow
<1>0. TaskRowsOK(db) /\ OnceOnly(db) /\ CarriedOut(db)
  BY DEF IInv
<1>1. \A i \in Invoice : db[i] # Absent => db[i].of \in Proposal
  BY <1>0 DEF TaskRowsOK, InvoiceRow
<1>2. ASSUME \A i \in Invoice : db'[i] = Absent <=> db[i] = Absent,
             \A i \in Invoice : db[i] # Absent => db'[i].of = db[i].of,
             \A p \in Proposal : db[p] # Absent /\ db[p].state = "done" =>
                                   db'[p] # Absent /\ db'[p].state = "done"
      PROVE  OnceOnly(db') /\ CarriedOut(db')
  BY <1>0, <1>1, <1>2 DEF OnceOnly, CarriedOut
<1>3. ASSUME NEW p \in Proposal, PrepareLeaves(p)
      PROVE  TaskRowsOK(db') /\ OnceOnly(db') /\ CarriedOut(db')
  <2>1. TaskRowsOK(db')
    BY <1>0, <1>3 DEF TaskRowsOK, PrepareLeaves, TaskRowsKept
  <2>2. /\ \A i \in Invoice : db'[i] = db[i]
        /\ \A q \in Proposal : db[q] # Absent => db'[q] = db[q]
    BY <1>3 DEF PrepareLeaves, TaskRowsKept
  <2>3. QED
    BY <1>2, <2>1, <2>2
<1>4. ASSUME NEW p \in Proposal, CancelLeaves(p)
      PROVE  TaskRowsOK(db') /\ OnceOnly(db') /\ CarriedOut(db')
  <2>1. db'[p] \in ProposalRow
    BY <1>4 DEF CancelLeaves, CancelledRow, ProposalRow
  <2>2. TaskRowsOK(db')
    BY <1>0, <1>4, <2>1 DEF TaskRowsOK, CancelLeaves, TaskRowsKept
  <2>3. /\ \A i \in Invoice : db'[i] = db[i]
        /\ \A q \in Proposal : db[q].state = "done" => db'[q] = db[q]
    BY <1>4 DEF CancelLeaves, TaskRowsKept
  <2>4. QED
    BY <1>2, <2>2, <2>3
<1>5. ASSUME NEW p \in Proposal, NEW i \in Invoice, ConfirmLeaves(p, i)
      PROVE  TaskRowsOK(db') /\ OnceOnly(db') /\ CarriedOut(db')
  <2>1. db'[p] \in ProposalRow /\ db'[p].state = "done"
    BY <1>5 DEF ConfirmLeaves, DoneRow, ProposalRow
  <2>2. db'[i] \in InvoiceRow /\ db'[i].of = p
    BY <1>5 DEF ConfirmLeaves, InvoiceRow
  <2>3. TaskRowsOK(db')
    BY <1>0, <1>5, <2>1, <2>2 DEF TaskRowsOK, ConfirmLeaves, TaskRowsKept
  <2>4. \A j \in Invoice \ {i} : db'[j] = db[j] /\ (db[j] # Absent => db[j].of # p)
    BY <1>0, <1>5 DEF ConfirmLeaves, TaskRowsKept, CarriedOut
  <2>5. OnceOnly(db')
    BY <1>0, <2>2, <2>4 DEF OnceOnly
  <2>6. \A q \in Proposal \ {p} : db'[q] = db[q]
    BY <1>5 DEF ConfirmLeaves, TaskRowsKept
  <2>7. db'[p] # Absent
    BY <2>1, AbsentTaskAssumption
  <2>8. CarriedOut(db')
    BY <1>0, <1>1, <2>1, <2>2, <2>4, <2>6, <2>7 DEF CarriedOut
  <2>9. QED
    BY <2>3, <2>5, <2>8
<1>6. ASSUME NEW i \in Invoice, NEW P \in SUBSET Proposal, RemoveLeaves(i, P)
      PROVE  TaskRowsOK(db') /\ OnceOnly(db') /\ CarriedOut(db')
  <2>1. db[i] \in InvoiceRow /\ db'[i] = RemovedRow(db[i])
    BY <1>6 DEF RemoveLeaves
  <2>2. db'[i] \in InvoiceRow /\ db'[i].of = db[i].of
    BY <2>1 DEF RemovedRow, InvoiceRow
  <2>3. \A p \in P : db[p] \in ProposalRow /\ db'[p] = ClearedRow(db[p])
    BY <1>6 DEF RemoveLeaves
  <2>4. \A p \in P : db'[p] \in ProposalRow /\ db'[p].state = db[p].state
    BY <2>3 DEF ClearedRow, ProposalRow
  <2>5. /\ \A j \in Invoice \ {i} : db'[j] = db[j]
        /\ \A p \in Proposal \ P : db'[p] = db[p]
        /\ db'[Records] = db[Records]
    BY <1>6 DEF RemoveLeaves, TaskRowsKept
  <2>6. TaskRowsOK(db')
    BY <1>0, <2>2, <2>4, <2>5 DEF TaskRowsOK
  <2>7. /\ \A j \in Invoice : db'[j] = Absent <=> db[j] = Absent
        /\ \A j \in Invoice : db'[j].of = db[j].of
    BY <2>1, <2>2, <2>5, AbsentTaskAssumption
  <2>8. \A p \in Proposal : db[p] # Absent /\ db[p].state = "done" =>
                              db'[p] # Absent /\ db'[p].state = "done"
    BY <2>4, <2>5, AbsentTaskAssumption
  <2>9. QED
    BY <1>2, <2>6, <2>7, <2>8
<1>7. ASSUME EditLeaves
      PROVE  TaskRowsOK(db') /\ OnceOnly(db') /\ CarriedOut(db')
  <2>1. \A r \in Proposal \cup Invoice : db'[r] = db[r]
    BY <1>7 DEF EditLeaves, TaskRowsKept
  <2>2. TaskRowsOK(db')
    BY <1>0, <1>7, <2>1 DEF TaskRowsOK, EditLeaves
  <2>3. QED
    BY <1>2, <2>1, <2>2
<1>8. QED
  BY <1>3, <1>4, <1>5, <1>6, <1>7 DEF TaskLeaves

-----------------------------------------------------------------------------
(* The website's operations by what they leave of the draft and the pages. *)
DraftLeaves(t, row) ==
  /\ Commits(t, {Publication}) /\ db'[Publication] = row /\ row \in PublicationRow
  /\ Answered(t)

NewDraftLeaves(t, row) ==
  DraftLeaves(t, row) /\ db[Publication] = Absent

SaveLeaves(t, row) ==
  /\ DraftLeaves(t, row)
  /\ db[Publication] \in PublicationRow
  /\ shown[t].revision = db[Publication].revision
  /\ row.revision = db[Publication].revision + 1

LEMMA NewDraftFacts ==
  ASSUME IInv, NEW t \in Txn, NEW text \in Text, NewDraft(t, text)
  PROVE  \E row : NewDraftLeaves(t, row)
<1> DEFINE row == [text |-> text, revision |-> 1, archived |-> FALSE,
                   published |-> NoText, previous |-> NoText]
           new == [x \in {Publication} |-> row]
<1>1. t \in active /\ CommitWith(t, new) /\ view[t][Publication] = Absent /\ Answered(t)
  BY DEF NewDraft, Draft
<1>2. DOMAIN new = {Publication} /\ new[Publication] = row
  OBVIOUS
<1>3. row \in PublicationRow
  BY PublicationAssumption DEF PublicationRow
<1> HIDE DEF row, new
<1>4. /\ Commits(t, {Publication}) /\ view[t][Publication] = db[Publication]
      /\ db'[Publication] = row
  BY <1>1, <1>2, RowsApart, CommitRows DEF IInv
<1>5. QED
  BY <1>1, <1>3, <1>4 DEF NewDraftLeaves, DraftLeaves

LEMMA SaveFacts ==
  ASSUME IInv, NEW t \in Txn, NEW row, Save(t, row),
         Draft(t) \in PublicationRow => row \in PublicationRow /\ row.revision = Draft(t).revision
  PROVE  \E next : SaveLeaves(t, next)
<1> DEFINE next == [row EXCEPT !.revision = @ + 1]
           new == [x \in {Publication} |-> next]
<1>1. t \in active /\ CommitWith(t, new) /\ Answered(t)
      /\ view[t][Publication] # Absent
      /\ shown[t].revision = view[t][Publication].revision
      /\ view[t][Publication].revision < MaxRevision
  BY DEF Save, LockRevision, Draft
<1>2. DOMAIN new = {Publication} /\ new[Publication] = next
  OBVIOUS
<1>3. view[t][Publication] \in PublicationRow
  BY <1>1 DEF IInv, DraftOK
<1>4. row \in PublicationRow /\ row.revision = view[t][Publication].revision
  BY <1>3 DEF Draft
<1>5. next \in PublicationRow /\ next.revision = view[t][Publication].revision + 1
  BY <1>1, <1>4, PublicationAssumption DEF PublicationRow
<1> HIDE DEF next, new
<1>6. /\ Commits(t, {Publication}) /\ view[t][Publication] = db[Publication]
      /\ db'[Publication] = next
  BY <1>1, <1>2, RowsApart, CommitRows DEF IInv
<1>7. SaveLeaves(t, next)
  BY <1>1, <1>3, <1>5, <1>6 DEF SaveLeaves, DraftLeaves
<1>8. QED
  BY <1>7

LEMMA PublicationStepFacts ==
  ASSUME IInv, PublicationStep
  PROVE  \/ \E o \in Operator : OpenPage(o) \/ \E t \in Txn : Click(t, o)
         \/ \E t \in Txn : \E row : NewDraftLeaves(t, row) \/ SaveLeaves(t, row)
<1>1. ASSUME NEW t \in Txn, NEW text \in Text, SaveDraft(t, text)
      PROVE  \E row : SaveLeaves(t, row)
  <2>1. Draft(t) \in PublicationRow =>
          /\ [Draft(t) EXCEPT !.text = text] \in PublicationRow
          /\ [Draft(t) EXCEPT !.text = text].revision = Draft(t).revision
    BY DEF PublicationRow
  <2>2. QED
    BY <1>1, <2>1, SaveFacts DEF SaveDraft
<1>2. ASSUME NEW t \in Txn, Publish(t)
      PROVE  \E row : SaveLeaves(t, row)
  <2>1. Draft(t) \in PublicationRow =>
          /\ Published(Draft(t), Draft(t).text) \in PublicationRow
          /\ Published(Draft(t), Draft(t).text).revision = Draft(t).revision
    BY DEF PublicationRow, Published
  <2>2. QED
    BY <1>2, <2>1, SaveFacts DEF Publish
<1>3. ASSUME NEW t \in Txn, Archive(t)
      PROVE  \E row : SaveLeaves(t, row)
  <2>1. Draft(t) \in PublicationRow =>
          /\ [Draft(t) EXCEPT !.archived = TRUE] \in PublicationRow
          /\ [Draft(t) EXCEPT !.archived = TRUE].revision = Draft(t).revision
    BY DEF PublicationRow
  <2>2. QED
    BY <1>3, <2>1, SaveFacts DEF Archive
<1>4. ASSUME NEW t \in Txn, Revert(t)
      PROVE  \E row : SaveLeaves(t, row)
  <2>1. Draft(t).previous # NoText /\ Draft(t) \in PublicationRow =>
          /\ Published(Draft(t), Draft(t).previous) \in PublicationRow
          /\ Published(Draft(t), Draft(t).previous).revision = Draft(t).revision
    BY DEF PublicationRow, Published
  <2>2. QED
    BY <1>4, <2>1, SaveFacts DEF Revert
<1>5. QED
  BY <1>1, <1>2, <1>3, <1>4, NewDraftFacts DEF PublicationStep

(* A page opened now shows the draft; saving makes every open page stale.  *)
LEMMA PagesKeepFaithful ==
  ASSUME IInv, PublicationStep
  PROVE  DraftOK(db') /\ PagesFaithful(db[Publication])'
<1>0. DraftOK(db) /\ PagesFaithful(db[Publication])
  BY DEF IInv
<1>1. NoPage \in Page /\ NoPage.revision = 0
  BY PublicationAssumption DEF NoPage, Page
<1>2. ASSUME NEW o \in Operator, OpenPage(o)
      PROVE  DraftOK(db') /\ PagesFaithful(db[Publication])'
  <2> DEFINE now == [text |-> db[Publication].text, revision |-> db[Publication].revision]
  <2>1. db[Publication] \in PublicationRow /\ db' = db /\ shown' = shown
    BY <1>0, <1>2 DEF OpenPage, dbVars, DraftOK
  <2>2. now \in Page /\ Faithful(now, db[Publication])
    BY <2>1, AbsentPublicationAssumption, PublicationAssumption
       DEF Page, PublicationRow, Faithful
  <2>3. page' = [page EXCEPT ![o] = now]
    BY <1>2 DEF OpenPage
  <2> HIDE DEF now
  <2>4. page' \in [Operator -> Page] /\ \A q \in Operator : Faithful(page'[q], db[Publication])
    BY <1>0, <2>2, <2>3 DEF PagesFaithful
  <2>5. QED
    BY <1>0, <2>1, <2>4 DEF PagesFaithful, DraftOK
<1>3. ASSUME NEW o \in Operator, NEW t \in Txn, Click(t, o)
      PROVE  DraftOK(db') /\ PagesFaithful(db[Publication])'
  <2>1. db' = db /\ page' = page /\ shown' = [shown EXCEPT ![t] = page[o]]
    BY <1>3 DEF Click, BeginTxn
  <2>2. shown' \in [Txn -> Page] /\ \A u \in Txn : Faithful(shown'[u], db[Publication])
    BY <1>0, <2>1 DEF PagesFaithful
  <2>3. QED
    BY <1>0, <2>1, <2>2 DEF PagesFaithful, DraftOK
<1>4. ASSUME NEW t \in Txn, NEW row, DraftLeaves(t, row),
             \A pg \in Page : Faithful(pg, db[Publication]) => Faithful(pg, row)
      PROVE  DraftOK(db') /\ PagesFaithful(db[Publication])'
  <2>1. db'[Publication] = row /\ row \in PublicationRow /\ page' = page
        /\ shown' = [shown EXCEPT ![t] = NoPage]
    BY <1>4 DEF DraftLeaves, Answered
  <2>2. shown' \in [Txn -> Page]
        /\ \A u \in Txn : shown'[u] = shown[u] \/ shown'[u] = NoPage
    BY <1>0, <1>1, <2>1 DEF PagesFaithful
  <2>3. Faithful(NoPage, row)
    BY <1>1 DEF Faithful
  <2>4. \A o \in Operator : Faithful(page[o], row)
    BY <1>0, <1>4 DEF PagesFaithful
  <2>5. \A u \in Txn : Faithful(shown'[u], row)
    BY <1>0, <1>4, <2>2, <2>3 DEF PagesFaithful
  <2>6. QED
    BY <1>0, <2>1, <2>2, <2>4, <2>5 DEF PagesFaithful, DraftOK
<1>5. ASSUME NEW t \in Txn, NEW row, NewDraftLeaves(t, row)
      PROVE  DraftOK(db') /\ PagesFaithful(db[Publication])'
  <2>1. \A pg \in Page : Faithful(pg, db[Publication]) => Faithful(pg, row)
    BY <1>5 DEF NewDraftLeaves, Faithful
  <2>2. QED
    BY <1>4, <1>5, <2>1 DEF NewDraftLeaves
<1>6. ASSUME NEW t \in Txn, NEW row, SaveLeaves(t, row)
      PROVE  DraftOK(db') /\ PagesFaithful(db[Publication])'
  <2>1. /\ row \in PublicationRow /\ row # Absent
        /\ db[Publication].revision \in Nat /\ row.revision = db[Publication].revision + 1
    BY <1>6, AbsentPublicationAssumption DEF SaveLeaves, DraftLeaves, PublicationRow
  <2>2. \A pg \in Page : pg.revision \in Nat
    BY PublicationAssumption DEF Page
  <2>3. \A pg \in Page : Faithful(pg, db[Publication]) => Faithful(pg, row)
    BY <2>1, <2>2 DEF Faithful
  <2>4. QED
    BY <1>4, <1>6, <2>3 DEF SaveLeaves
<1>7. QED
  BY <1>2, <1>3, <1>5, <1>6, PublicationStepFacts

-----------------------------------------------------------------------------
(* Discuss: every operation commits rows of its own only, and all but the  *)
(* change of an account leave the accounts alone.                          *)
LEMMA SyncDomain ==
  ASSUME NEW rows
  PROVE  DOMAIN SyncWrites(rows) \subseteq Membership
BY DEF SyncWrites

(* The synchronization takes out of a channel in use whoever is not        *)
(* entitled, and lets nobody else in anywhere.                             *)
LEMMA SyncTakesOut ==
  ASSUME NEW rows, NEW c \in Channel, NEW v \in User, rows[c] # Absent, rows[c].active,
         v \notin Entitled(rows, c), rows[Member(c, v)] # Absent
  PROVE  /\ Member(c, v) \in DOMAIN SyncWrites(rows)
         /\ SyncWrites(rows)[Member(c, v)] = Absent
<1> DEFINE m == Member(c, v)
           synced == [d \in {d \in Channel : rows[d] # Absent} |-> SyncedMembers(rows, d)]
           wrong == {x \in Membership :
                       /\ x[2] \in DOMAIN synced
                       /\ (rows[x] # Absent) # (x[3] \in synced[x[2]])}
<1>1. m \in Membership /\ m[2] = c /\ m[3] = v
  BY DEF Membership, Member
<1>2. c \in DOMAIN synced /\ v \notin synced[c]
  BY DEF SyncedMembers
<1>3. SyncWrites(rows) = [x \in wrong |-> IF rows[x] = Absent THEN "in" ELSE Absent]
  BY DEF SyncWrites
<1> HIDE DEF synced
<1>4. m \in wrong
  BY <1>1, <1>2
<1> HIDE DEF wrong, m
<1>5. QED
  BY <1>3, <1>4 DEF m

LEMMA SyncLetsIn ==
  ASSUME NEW rows, NEW c \in Channel, NEW v \in User,
         Member(c, v) \in DOMAIN SyncWrites(rows),
         SyncWrites(rows)[Member(c, v)] # Absent
  PROVE  v \in Entitled(rows, c)
<1> DEFINE m == Member(c, v)
           synced == [d \in {d \in Channel : rows[d] # Absent} |-> SyncedMembers(rows, d)]
           wrong == {x \in Membership :
                       /\ x[2] \in DOMAIN synced
                       /\ (rows[x] # Absent) # (x[3] \in synced[x[2]])}
<1>1. m[2] = c /\ m[3] = v
  BY DEF Member
<1>2. SyncWrites(rows) = [x \in wrong |-> IF rows[x] = Absent THEN "in" ELSE Absent]
  BY DEF SyncWrites
<1>3. \A d \in DOMAIN synced : synced[d] = SyncedMembers(rows, d)
  OBVIOUS
<1> HIDE DEF synced
<1>4. m \in wrong /\ rows[m] = Absent
  BY <1>2
<1>5. c \in DOMAIN synced /\ v \in synced[c]
  BY <1>1, <1>4
<1>6. v \in SyncedMembers(rows, c) /\ v \notin MembersOf(rows, c)
  BY <1>3, <1>4, <1>5 DEF MembersOf
<1>7. QED
  BY <1>6 DEF SyncedMembers

LEMMA ServeRows ==
  ASSUME Discipline, NEW t \in active, NEW new, DOMAIN new \subseteq DiscussRow,
         Serve(t, new)
  PROVE  /\ Commits(t, DiscussRow)
         /\ \A r \in DOMAIN new : view[t][r] = db[r] /\ db'[r] = new[r]
         /\ \A r \in DiscussRow \ DOMAIN new : db'[r] = db[r]
BY RowsApart, CommitRows DEF Serve

(* Whether one is entitled depends on his account and on whose the channel is. *)
LEMMA EntitledDepends ==
  ASSUME NEW rows, NEW other, NEW c \in Channel, NEW u \in User,
         rows[u] = other[u], rows[c].org = other[c].org, u \in Entitled(rows, c)
  PROVE  u \in Entitled(other, c)
BY DEF Entitled, OwnerOf, Eligible

LEMMA MemberRows ==
  /\ \A c \in Channel, u \in User :
       Member(c, u) \in DiscussRow /\ Member(c, u) \notin User \cup Channel
  /\ \A c, d, u, v : Member(c, u) = Member(d, v) => c = d /\ u = v
BY DiscussRowAssumption DEF Member, Membership, DiscussRow

(* The property of a request that ends, by account and conversation.       *)
Seen(t, c, u) == {u, c, Member(c, u)} \cap missed[t] = {}

Admits(c, u) == Stray(db', c, u) /\ u \notin MembersOf(db, c)

Retains(c, u) ==
  /\ Stray(db', c, u) /\ u \in MembersOf(db, c)
  /\ db'[c].active /\ \E v \in User : db'[v] # db[v]

Revokes(t) ==
  \A c \in Channel, u \in User : Seen(t, c, u) => ~Admits(c, u) /\ ~Retains(c, u)

(* Whoever a request lets in, it enters on rows it saw as they are.        *)
LEMMA Entered ==
  ASSUME IInv, NEW t \in active, NEW new, DOMAIN new \subseteq DiscussRow, Serve(t, new),
         NEW c \in Channel, NEW u \in User, Seen(t, c, u)
  PROVE  /\ Commits(t, DiscussRow)
         /\ \A r \in {u, c, Member(c, u)} :
              view[t][r] = db[r] /\ db'[r] = IF r \in DOMAIN new THEN new[r] ELSE db[r]
         /\ Admits(c, u) => Member(c, u) \in DOMAIN new /\ new[Member(c, u)] # Absent
<1>1. /\ Commits(t, DiscussRow)
      /\ \A r \in DOMAIN new : view[t][r] = db[r] /\ db'[r] = new[r]
      /\ \A r \in DiscussRow \ DOMAIN new : db'[r] = db[r]
  BY ServeRows DEF IInv
<1>2. {u, c, Member(c, u)} \subseteq DiscussRow
  BY MemberRows DEF DiscussRow
<1>3. ASSUME NEW r \in {u, c, Member(c, u)} PROVE view[t][r] = db[r]
  <2>1. r \in Row /\ r \notin missed[t] /\ r \notin wrote[t]
    BY <1>2, RowsApart DEF Seen, IInv, Discipline
  <2>2. QED
    BY <2>1 DEF IInv, Discipline, ViewsCurrent
<1>4. \A r \in {u, c, Member(c, u)} : db'[r] = IF r \in DOMAIN new THEN new[r] ELSE db[r]
  BY <1>1, <1>2
<1>5. Admits(c, u) => db[Member(c, u)] = Absent /\ db'[Member(c, u)] # Absent
  BY DEF Admits, Stray, MembersOf
<1>6. QED
  BY <1>1, <1>3, <1>4, <1>5

LEMMA WriteUserFacts ==
  ASSUME IInv, NEW t \in Txn, NEW a \in User, NEW profile \in Profile, WriteUser(t, a, profile)
  PROVE  Commits(t, DiscussRow) /\ Revokes(t)
<1> DEFINE after == [view[t] EXCEPT ![a] = profile]
           sync == SyncWrites(after)
           new == [x \in {a} \cup DOMAIN sync |-> IF x = a THEN profile ELSE sync[x]]
<1>1. t \in active /\ Serve(t, new)
  BY DEF WriteUser, Asked
<1>2. DOMAIN sync \subseteq Membership /\ a \notin Membership
  BY SyncDomain, DiscussRowAssumption
<1>3. after[a] = profile /\ \A r \in Row \ {a} : after[r] = view[t][r]
  BY RowsApart DEF IInv, Discipline, DiscussRow
<1> HIDE DEF after
<1>4. /\ DOMAIN new = {a} \cup DOMAIN sync /\ DOMAIN new \subseteq DiscussRow
      /\ new[a] = profile /\ \A m \in DOMAIN sync : new[m] = sync[m]
  BY <1>2 DEF DiscussRow
<1> HIDE DEF new, sync
<1>5. Commits(t, DiscussRow)
  BY <1>1, <1>4, ServeRows DEF IInv
<1>6. ASSUME NEW c \in Channel, NEW u \in User, Seen(t, c, u)
      PROVE  ~Admits(c, u) /\ ~Retains(c, u)
  <2> DEFINE m == Member(c, u)
  <2>1. /\ \A r \in {u, c, m} :
             view[t][r] = db[r] /\ db'[r] = IF r \in DOMAIN new THEN new[r] ELSE db[r]
        /\ Admits(c, u) => m \in DOMAIN new /\ new[m] # Absent
    BY <1>1, <1>4, <1>6, Entered
  <2>2. {u, c, m} \subseteq Row /\ m \notin User /\ c \notin User
        /\ u \notin DOMAIN sync /\ c \notin DOMAIN sync
    BY <1>2, MemberRows, RowsApart, DiscussRowAssumption DEF DiscussRow
  <2>3. db'[u] = after[u] /\ db'[c] = after[c]
    BY <1>3, <1>4, <2>1, <2>2
  <2>4. after[m] = db[m]
    BY <1>3, <2>1, <2>2
  <2> HIDE DEF m
  <2>5. ASSUME Admits(c, u) PROVE FALSE
    <3>1. m \in DOMAIN sync /\ sync[m] # Absent
      BY <1>4, <2>1, <2>2, <2>5
    <3>2. u \in Entitled(after, c)
      BY <3>1, SyncLetsIn DEF sync, m
    <3>3. u \in Entitled(db', c)
      BY <2>3, <3>2, EntitledDepends
    <3>4. QED
      BY <2>5, <3>3 DEF Admits, Stray
  <2>6. ASSUME Retains(c, u) PROVE FALSE
    <3>1. /\ db'[c] # Absent /\ db'[c].active /\ u \notin Entitled(db', c)
          /\ db[m] # Absent /\ db'[m] # Absent
      BY <2>6 DEF Retains, Stray, MembersOf, m
    <3>2. u \notin Entitled(after, c)
      BY <2>3, <3>1, EntitledDepends
    <3>3. m \in DOMAIN sync /\ sync[m] = Absent
      BY <2>3, <2>4, <3>1, <3>2, SyncTakesOut DEF sync, m
    <3>4. QED
      BY <1>4, <2>1, <3>1, <3>3
  <2>7. QED
    BY <2>5, <2>6
<1>7. QED
  BY <1>5, <1>6 DEF Revokes

(* The operations other than the change of an account: no account changes, *)
(* so all that matters is whom they let in.                                *)
LEMMA ConversationFacts ==
  ASSUME IInv, NEW t \in Txn, NEW new, t \in active, Serve(t, new),
         DOMAIN new \subseteq Channel \cup Membership,
         \A c \in Channel, u \in User :
           Member(c, u) \in DOMAIN new /\ new[Member(c, u)] # Absent =>
             IF c \in DOMAIN new THEN u \in Eligible(view[t], new[c].org)
             ELSE u \in Entitled(view[t], c)
  PROVE  Commits(t, DiscussRow) /\ Revokes(t)
<1>1. DOMAIN new \subseteq DiscussRow /\ User \subseteq DiscussRow \ DOMAIN new
  BY DiscussRowAssumption DEF DiscussRow
<1>2. /\ Commits(t, DiscussRow)
      /\ \A v \in User : db'[v] = db[v]
  BY <1>1, ServeRows DEF IInv
<1>3. ASSUME NEW c \in Channel, NEW u \in User, Seen(t, c, u), Admits(c, u)
      PROVE  FALSE
  <2>1. /\ \A r \in {u, c, Member(c, u)} :
             view[t][r] = db[r] /\ db'[r] = IF r \in DOMAIN new THEN new[r] ELSE db[r]
        /\ Member(c, u) \in DOMAIN new /\ new[Member(c, u)] # Absent
    BY <1>1, <1>3, Entered
  <2>2. db'[u] = view[t][u]
    BY <1>2, <2>1
  <2>3. CASE c \in DOMAIN new
    <3>1. u \in Eligible(view[t], new[c].org) /\ db'[c] = new[c]
      BY <2>1, <2>3
    <3>2. u \in Entitled(db', c)
      BY <2>2, <3>1 DEF Entitled, OwnerOf, Eligible
    <3>3. QED
      BY <1>3, <3>2 DEF Admits, Stray
  <2>4. CASE c \notin DOMAIN new
    <3>1. u \in Entitled(view[t], c) /\ db'[c] = view[t][c]
      BY <2>1, <2>4
    <3>2. u \in Entitled(db', c)
      BY <2>2, <3>1, EntitledDepends
    <3>3. QED
      BY <1>3, <3>2 DEF Admits, Stray
  <2>5. QED
    BY <2>3, <2>4
<1>4. QED
  BY <1>2, <1>3 DEF Revokes, Retains

LEMMA DiscussStepFacts ==
  ASSUME IInv, DiscussStep
  PROVE  \E t \in Txn : Commits(t, DiscussRow) /\ Revokes(t)
<1>1. \A c \in Channel, u \in User : Member(c, u) \in Membership /\ Member(c, u) \notin Channel
  BY DiscussRowAssumption DEF Membership
<1>2. ASSUME NEW t \in Txn, NEW c \in Channel, NEW u \in User, AddMember(t, c, u)
      PROVE  Commits(t, DiscussRow) /\ Revokes(t)
  <2> DEFINE new == [x \in {Member(c, u)} |-> "in"]
  <2>1. t \in active /\ Serve(t, new) /\ u \in Entitled(view[t], c)
    BY <1>2 DEF AddMember, Asked
  <2>2. DOMAIN new = {Member(c, u)} /\ DOMAIN new \subseteq Channel \cup Membership
        /\ DOMAIN new \cap Channel = {}
    BY <1>1
  <2> HIDE DEF new
  <2>3. QED
    BY <2>1, <2>2, MemberRows, ConversationFacts
<1>3. ASSUME NEW t \in Txn, NEW c \in Channel, NEW u \in User, Leave(t, c, u)
      PROVE  Commits(t, DiscussRow) /\ Revokes(t)
  <2> DEFINE new == [x \in {Member(c, u)} |-> Absent]
  <2>1. t \in active /\ Serve(t, new)
    BY <1>3 DEF Leave, Asked
  <2>2. DOMAIN new \subseteq Channel \cup Membership /\ \A x \in DOMAIN new : new[x] = Absent
    BY <1>1
  <2> HIDE DEF new
  <2>3. QED
    BY <2>1, <2>2, ConversationFacts
<1>4. ASSUME NEW t \in Txn, NEW c \in Channel, ArchiveChannel(t, c)
      PROVE  Commits(t, DiscussRow) /\ Revokes(t)
  <2> DEFINE new == [x \in {c} |-> [view[t][c] EXCEPT !.active = ~@]]
  <2>1. t \in active /\ Serve(t, new)
    BY <1>4 DEF ArchiveChannel, Asked
  <2>2. DOMAIN new = {c}
    OBVIOUS
  <2> HIDE DEF new
  <2>3. QED
    BY <1>1, <2>1, <2>2, ConversationFacts
<1>5. ASSUME NEW t \in Txn, NEW c \in Chat, NEW o \in Organization,
             NEW people \in SUBSET User, OpenChat(t, c, o, people)
      PROVE  Commits(t, DiscussRow) /\ Revokes(t)
  <2> DEFINE new == [x \in {c} \cup {Member(c, u) : u \in people} |->
                      IF x = c THEN [org |-> o, active |-> TRUE] ELSE "in"]
  <2>1. t \in active /\ Serve(t, new) /\ people \subseteq Eligible(view[t], o)
    BY <1>5 DEF OpenChat, Asked
  <2>2. c \in Channel
    BY DEF Channel
  <2>3. /\ DOMAIN new = {c} \cup {Member(c, u) : u \in people} /\ new[c].org = o
        /\ DOMAIN new \subseteq Channel \cup Membership
    BY <1>1, <2>2
  <2> HIDE DEF new
  <2>4. ASSUME NEW d \in Channel, NEW u \in User, Member(d, u) \in DOMAIN new
        PROVE  d = c /\ u \in people
    BY <1>1, <2>2, <2>3, <2>4, MemberRows
  <2>5. QED
    BY <2>1, <2>3, <2>4, ConversationFacts
<1>6. QED
  BY <1>2, <1>3, <1>4, <1>5, WriteUserFacts, DiscussBounds DEF DiscussStep

-----------------------------------------------------------------------------
LEMMA Initially == Init => IInv
<1> SUFFICES ASSUME Init PROVE IInv
  OBVIOUS
<1>1. PICK profiles \in [User -> Profile] :
        DBInitWith([r \in Row |-> IF r = Records THEN 1 ELSE InitialRow(profiles, r)])
  BY DEF Init
<1>2. \A r \in Row \ DiscussRow : InitialRow(profiles, r) = Absent
  BY DEF DiscussRow, InitialRow, Channel
<1>3. /\ \A r \in Proposal \cup Invoice \cup {Publication} : db[r] = Absent
      /\ db[Records] = 1 /\ active = {}
  BY <1>1, <1>2, RowsApart, PlatformRowAssumption DEF DBInitWith, TaskRow
<1>4. Discipline
  BY <1>1, DisciplineInit
<1>5. PagesFaithful(db[Publication])
  BY PublicationAssumption
     DEF Init, PublicationInit, PagesFaithful, Page, NoPage, Faithful
<1>6. QED
  BY <1>3, <1>4, <1>5, TaskAssumption
     DEF Init, IInv, TaskRowsOK, OnceOnly, CarriedOut, DraftOK

(* A step as the invariant sees it: nothing of these services changes, a   *)
(* request begins or ends unanswered, or a service commits rows of its own.*)
Step ==
  \/ UNCHANGED <<dbVars, pubVars>> /\ expired' \subseteq Proposal
  \/ \E t \in Txn : Begin(t)
  \/ \E t \in Txn : Abort(t)
  \/ /\ \E t \in active : Commits(t, TaskRow)
     /\ TaskLeaves /\ expired' = expired /\ UNCHANGED pubVars
  \/ PublicationStep /\ expired' = expired
  \/ DiscussStep /\ UNCHANGED <<expired, pubVars>>

LEMMA NextIsStep ==
  ASSUME IInv, [Next]_vars
  PROVE  Step
<1>1. CASE UNCHANGED vars \/ ThrottleRuns(ThrottleNext)
  BY <1>1 DEF vars, ThrottleRuns, IInv, Step
<1>2. CASE OrvexaRuns
  BY <1>2, TaskStepFacts DEF OrvexaRuns, Step
<1>3. CASE WebsiteRuns \/ DiscussRuns \/ RequestRuns
  BY <1>3 DEF WebsiteRuns, DiscussRuns, RequestRuns, Step
<1>4. QED
  BY <1>1, <1>2, <1>3 DEF Next

(* A commit of rows of one service leaves the others as they were.         *)
LEMMA TaskRowsAside ==
  ASSUME IInv, NEW t \in Txn, NEW S, Commits(t, S), S \cap TaskRow = {}
  PROVE  /\ TaskRowsOK(db') /\ OnceOnly(db') /\ CarriedOut(db')
         /\ \A u \in active' : TaskRowsOK(view'[u])
<1>1. \A r \in TaskRow : db'[r] = db[r]
  BY RowsApart DEF Commits
<1>2. TaskRowsOK(db')
  BY <1>1 DEF IInv, TaskRowsOK, TaskRow
<1>3. \A i \in Invoice : db[i] # Absent => db[i].of \in Proposal
  BY DEF IInv, TaskRowsOK, InvoiceRow
<1>4. OnceOnly(db') /\ CarriedOut(db')
  BY <1>1, <1>3 DEF IInv, OnceOnly, CarriedOut, TaskRow
<1>5. QED
  BY <1>2, <1>4 DEF Commits, IInv

LEMMA DraftAside ==
  ASSUME IInv, NEW t \in Txn, NEW S, Commits(t, S), Publication \notin S, UNCHANGED pubVars
  PROVE  /\ DraftOK(db') /\ PagesFaithful(db[Publication])'
         /\ \A u \in active' : DraftOK(view'[u])
<1>1. db'[Publication] = db[Publication]
  BY RowsApart DEF Commits
<1>2. QED
  BY <1>1 DEF Commits, IInv, DraftOK, PagesFaithful, pubVars

(* An answered request shows no page any more.                             *)
LEMMA AnsweredPages ==
  ASSUME IInv, NEW t \in Txn, Answered(t), db' = db
  PROVE  PagesFaithful(db[Publication])'
<1>1. PagesFaithful(db[Publication]) /\ page' = page /\ shown' = [shown EXCEPT ![t] = NoPage]
  BY DEF IInv, Answered
<1>2. NoPage \in Page /\ Faithful(NoPage, db[Publication])
  BY PublicationAssumption DEF NoPage, Page, Faithful
<1>3. /\ shown' \in [Txn -> Page]
      /\ \A u \in Txn : shown'[u] = shown[u] \/ shown'[u] = NoPage
  BY <1>1, <1>2 DEF PagesFaithful
<1>4. \A u \in Txn : Faithful(shown'[u], db[Publication])
  BY <1>1, <1>2, <1>3 DEF PagesFaithful
<1>5. QED
  BY <1>1, <1>3, <1>4 DEF PagesFaithful

(* The rows of a step that commits nothing.                                *)
LEMMA NothingCommitted ==
  ASSUME IInv, db' = db, \A u \in active' : view'[u] = db \/ (u \in active /\ view'[u] = view[u])
  PROVE  /\ TaskRowsOK(db') /\ \A u \in active' : TaskRowsOK(view'[u])
         /\ OnceOnly(db') /\ CarriedOut(db')
         /\ DraftOK(db') /\ \A u \in active' : DraftOK(view'[u])
BY DEF IInv, TaskRowsOK, OnceOnly, CarriedOut, DraftOK

LEMMA StepKeeps ==
  ASSUME IInv, Step
  PROVE  IInv'
<1> DEFINE Goal == /\ Discipline'
                   /\ TaskRowsOK(db') /\ \A u \in active' : TaskRowsOK(view'[u])
                   /\ expired' \subseteq Proposal
                   /\ OnceOnly(db') /\ CarriedOut(db')
                   /\ DraftOK(db') /\ \A u \in active' : DraftOK(view'[u])
                   /\ PagesFaithful(db[Publication])'
<1>1. ASSUME UNCHANGED <<dbVars, pubVars>>, expired' \subseteq Proposal PROVE Goal
  <2>1. Discipline' /\ PagesFaithful(db[Publication])'
    BY <1>1, DisciplineStutter DEF dbVars, pubVars, IInv, PagesFaithful
  <2>2. QED
    BY <1>1, <2>1, NothingCommitted DEF dbVars
<1>2. ASSUME NEW t \in Txn, Begin(t) PROVE Goal
  <2>1. Discipline' /\ PagesFaithful(db[Publication])'
    BY <1>2, DisciplineBegin DEF Begin, BeginTxn, pubVars, IInv, PagesFaithful
  <2>2. /\ db' = db /\ expired' = expired
        /\ \A u \in active' : view'[u] = db \/ (u \in active /\ view'[u] = view[u])
    BY <1>2 DEF Begin, BeginTxn, IInv, Discipline
  <2>3. QED
    BY <2>1, <2>2, NothingCommitted DEF IInv
<1>3. ASSUME NEW t \in Txn, Abort(t) PROVE Goal
  <2>1. /\ db' = db /\ expired' = expired
        /\ \A u \in active' : u \in active /\ view'[u] = view[u]
    BY <1>3 DEF Abort, AbortTxn, EndTxn, IInv, Discipline
  <2>2. Discipline' /\ PagesFaithful(db[Publication])'
    BY <1>3, <2>1, DisciplineAbort, AnsweredPages DEF Abort, IInv
  <2>3. QED
    BY <2>1, <2>2, NothingCommitted DEF IInv
<1>4. ASSUME NEW t \in active, Commits(t, TaskRow), TaskLeaves, expired' = expired,
             UNCHANGED pubVars
      PROVE  Goal
  <2>1. t \in Txn /\ Discipline' /\ \A u \in active' : u \in active /\ view'[u] = view[u]
    BY <1>4 DEF Commits, IInv, Discipline
  <2>2. TaskRowsOK(db') /\ OnceOnly(db') /\ CarriedOut(db')
    BY <1>4, TaskLeavesKeeps
  <2>3. /\ DraftOK(db') /\ PagesFaithful(db[Publication])'
        /\ \A u \in active' : DraftOK(view'[u])
    BY <1>4, <2>1, RowsApart, DraftAside
  <2>4. \A u \in active' : TaskRowsOK(view'[u])
    BY <2>1 DEF IInv
  <2>5. QED
    BY <1>4, <2>1, <2>2, <2>3, <2>4 DEF IInv
<1>5. ASSUME PublicationStep, expired' = expired PROVE Goal
  <2>1. DraftOK(db') /\ PagesFaithful(db[Publication])'
    BY <1>5, PagesKeepFaithful
  <2>2. ASSUME NEW o \in Operator, OpenPage(o) PROVE Goal
    BY <1>5, <2>1, <2>2, DisciplineStutter, NothingCommitted DEF OpenPage, dbVars, IInv
  <2>3. ASSUME NEW t \in Txn, NEW o \in Operator, Click(t, o) PROVE Goal
    <3>1. /\ db' = db /\ Discipline'
          /\ \A u \in active' : view'[u] = db \/ (u \in active /\ view'[u] = view[u])
      BY <2>3, DisciplineBegin DEF Click, BeginTxn, IInv, Discipline
    <3>2. QED
      BY <1>5, <2>1, <3>1, NothingCommitted DEF IInv
  <2>4. ASSUME NEW t \in Txn, NEW row, DraftLeaves(t, row) PROVE Goal
    <3>1. /\ Commits(t, {Publication}) /\ db'[Publication] = row
          /\ row \in PublicationRow
      BY <2>4 DEF DraftLeaves
    <3>2. Discipline' /\ \A u \in active' : u \in active /\ view'[u] = view[u]
      BY <3>1 DEF Commits
    <3>3. /\ TaskRowsOK(db') /\ OnceOnly(db') /\ CarriedOut(db')
          /\ \A u \in active' : TaskRowsOK(view'[u])
      BY <3>1, RowsApart, TaskRowsAside
    <3>4. \A u \in active' : DraftOK(view'[u])
      BY <3>2 DEF IInv
    <3>5. QED
      BY <1>5, <2>1, <3>2, <3>3, <3>4 DEF IInv
  <2>5. QED
    BY <1>5, <2>2, <2>3, <2>4, PublicationStepFacts DEF NewDraftLeaves, SaveLeaves
<1>6. ASSUME DiscussStep, UNCHANGED <<expired, pubVars>> PROVE Goal
  <2>1. PICK t \in Txn : Commits(t, DiscussRow)
    BY <1>6, DiscussStepFacts
  <2>2. /\ TaskRowsOK(db') /\ OnceOnly(db') /\ CarriedOut(db')
        /\ \A u \in active' : TaskRowsOK(view'[u])
    BY <2>1, RowsApart, TaskRowsAside
  <2>3. /\ DraftOK(db') /\ PagesFaithful(db[Publication])'
        /\ \A u \in active' : DraftOK(view'[u])
    BY <1>6, <2>1, RowsApart, DraftAside
  <2>4. QED
    BY <1>6, <2>1, <2>2, <2>3 DEF Commits, IInv
<1>7. Goal
  BY <1>1, <1>2, <1>3, <1>4, <1>5, <1>6 DEF Step
<1>8. QED
  BY <1>7 DEF IInv, TaskRowsOK, OnceOnly, CarriedOut, DraftOK

(* The invariant of every reachable state.                                 *)
THEOREM InductiveInvariant == Spec => []IInv
<1>1. IInv /\ [Next]_vars => IInv'
  BY NextIsStep, StepKeeps
<1>2. QED
  BY Initially, <1>1, PTL DEF Spec

LEMMA AtMostOne ==
  ASSUME NEW S, \A x, y \in S : x = y
  PROVE  Cardinality(S) <= 1
<1>1. CASE S = {}
  BY <1>1, FS_EmptySet
<1>2. ASSUME NEW x \in S PROVE Cardinality(S) <= 1
  <2>1. S = {x}
    BY <1>2
  <2>2. Cardinality({x}) = 1
    BY FS_Singleton
  <2>3. QED
    BY <2>1, <2>2
<1>3. QED
  BY <1>1, <1>2

(* A proposal is carried out once at most, wherever and however often it   *)
(* is confirmed, cancelled or its invoice removed (confirm_task).          *)
THEOREM TasksCarriedOutOnce == Spec => []OneInvoicePerTask
<1>1. IInv => OneInvoicePerTask
  <2> SUFFICES ASSUME IInv PROVE OneInvoicePerTask
    OBVIOUS
  <2>1. TaskTypeOK
    BY DEF IInv, TaskRowsOK, TaskTypeOK
  <2>2. ASSUME NEW p \in Proposal
        PROVE  /\ Cardinality(InvoicesOf(p)) <= 1
               /\ InvoicesOf(p) # {} => db[p].state = "done"
    <3>1. \A i, j \in InvoicesOf(p) : i = j
      BY DEF IInv, OnceOnly, InvoicesOf
    <3>2. InvoicesOf(p) # {} => db[p].state = "done"
      BY DEF IInv, CarriedOut, InvoicesOf
    <3>3. QED
      BY <3>1, <3>2, AtMostOne
  <2>3. QED
    BY <2>1, <2>2 DEF OneInvoicePerTask
<1>2. QED
  BY InductiveInvariant, <1>1, PTL

-----------------------------------------------------------------------------
LEMMA ChangedAsSeen ==
  ASSUME IInv, Step, NEW t \in active \ active',
         db[Publication] # Absent, db'[Publication] # db[Publication]
  PROVE  shown[t].text = db[Publication].text
<1>1. CASE db' = db
  BY <1>1
<1>2. ASSUME NEW u \in Txn, NEW S, Commits(u, S), Publication \notin S PROVE FALSE
  BY <1>2, RowsApart DEF Commits
<1>3. CASE (\E u \in active : Commits(u, TaskRow)) \/ DiscussStep
  <2>1. active \subseteq Txn
    BY DEF IInv, Discipline
  <2>2. PICK u \in Txn : Commits(u, TaskRow) \/ Commits(u, DiscussRow)
    BY <1>3, <2>1, DiscussStepFacts
  <2>3. QED
    BY <1>2, <2>2, RowsApart
<1>4. ASSUME PublicationStep PROVE shown[t].text = db[Publication].text
  <2>1. ASSUME NEW u \in Txn, NEW row, SaveLeaves(u, row)
        PROVE  shown[t].text = db[Publication].text
    <3>1. t = u
      BY <2>1 DEF SaveLeaves, DraftLeaves, Commits
    <3>2. /\ shown[t].revision = db[Publication].revision
          /\ db[Publication].revision \in 1 .. MaxRevision
      BY <2>1, <3>1 DEF SaveLeaves, PublicationRow
    <3>3. Faithful(shown[t], db[Publication])
      BY <2>1, <3>1 DEF IInv, PagesFaithful
    <3>4. QED
      BY <3>2, <3>3, PublicationAssumption DEF Faithful
  <2>2. QED
    BY <1>1, <1>4, <2>1, PublicationStepFacts
       DEF OpenPage, Click, BeginTxn, dbVars, NewDraftLeaves
<1>5. QED
  BY <1>1, <1>3, <1>4 DEF Step, Begin, BeginTxn, Abort, AbortTxn, dbVars

(* Nobody changes a draft without having had its very text on the page     *)
(* (_lock_revision and the operations that go through it).                 *)
THEOREM DraftsChangedAsSeen == Spec => SeenBeforeChanged
<1> DEFINE A == \A t \in active \ active' :
                  db[Publication] # Absent /\ db'[Publication] # db[Publication] =>
                    shown[t].text = db[Publication].text
<1>1. IInv /\ [Next]_vars => [A]_<<dbVars, pubVars>>
  BY NextIsStep, ChangedAsSeen
<1>2. QED
  BY InductiveInvariant, <1>1, PTL DEF Spec, SeenBeforeChanged

LEMMA StepRevokes ==
  ASSUME IInv, Step, NEW t \in active \ active'
  PROVE  Revokes(t)
<1>1. ASSUME \A r \in DiscussRow : db'[r] = db[r] PROVE Revokes(t)
  <2>1. ASSUME NEW c \in Channel, NEW u \in User PROVE ~Admits(c, u) /\ ~Retains(c, u)
    <3>1. Member(c, u) \in DiscussRow /\ u \in DiscussRow
      BY MemberRows DEF DiscussRow
    <3>2. db'[Member(c, u)] = db[Member(c, u)] /\ \A v \in User : db'[v] = db[v]
      BY <1>1, <3>1 DEF DiscussRow
    <3>3. QED
      BY <3>2 DEF Admits, Retains, Stray, MembersOf
  <2>2. QED
    BY <2>1 DEF Revokes
<1>2. CASE db' = db
  BY <1>1, <1>2
<1>3. ASSUME NEW s \in Txn, NEW S, Commits(s, S), S \cap DiscussRow = {} PROVE Revokes(t)
  BY <1>1, <1>3, RowsApart DEF Commits
<1>4. CASE \E s \in active : Commits(s, TaskRow)
  BY <1>3, <1>4, RowsApart DEF IInv, Discipline
<1>5. CASE PublicationStep
  <2>1. ASSUME NEW s \in Txn, NEW row, DraftLeaves(s, row) PROVE Revokes(t)
    BY <1>3, <2>1, RowsApart DEF DraftLeaves
  <2>2. QED
    BY <1>2, <1>5, <2>1, PublicationStepFacts
       DEF OpenPage, Click, BeginTxn, dbVars, NewDraftLeaves, SaveLeaves
<1>6. CASE DiscussStep
  BY <1>6, DiscussStepFacts DEF Commits
<1>7. QED
  BY <1>2, <1>4, <1>5, <1>6 DEF Step, Begin, BeginTxn, Abort, AbortTxn, dbVars

(* A request that changes an account leaves nobody in a conversation in    *)
(* use whom it is not for, whatever an earlier race had left, and no       *)
(* request lets such a one into any conversation, unless others committed  *)
(* that account, conversation or membership since its snapshot             *)
(* (_sync_company_channels, channel_get, _add_members).                    *)
THEOREM AccountChangeRevokes == Spec => UserChangeRevokes
<1> DEFINE A == \A t \in active \ active', c \in Channel, u \in User :
                  /\ Stray(db', c, u)
                  /\ \/ u \notin MembersOf(db, c)
                     \/ db'[c].active /\ \E v \in User : db'[v] # db[v]
                  => {u, c, Member(c, u)} \cap missed[t] # {}
<1>1. ASSUME IInv, [Next]_vars, NEW t \in active \ active', NEW c \in Channel, NEW u \in User,
             {u, c, Member(c, u)} \cap missed[t] = {}, Stray(db', c, u)
      PROVE  ~(\/ u \notin MembersOf(db, c)
               \/ db'[c].active /\ \E v \in User : db'[v] # db[v])
  BY <1>1, NextIsStep, StepRevokes DEF Revokes, Seen, Admits, Retains
<1>2. IInv /\ [Next]_vars => [A]_dbVars
  BY <1>1
<1>3. QED
  BY InductiveInvariant, <1>2, PTL DEF Spec, UserChangeRevokes

-----------------------------------------------------------------------------
(* The throttle: the workers whose wrong password was counted in tries and *)
(* is neither registered nor given up, and those who passed the check and  *)
(* have not tried their password.                                          *)
InFlight(l) == {w \in Worker : login[w] = l /\ failed[w] /\ step[w] \in {"begin", "commit"}}
Untried(l)  == {w \in Worker : login[w] = l /\ step[w] = "password"}

(* Before the cooldown every wrong password is in the counter, in flight or*)
(* given up; during it nobody else passes the check.                       *)
Accounted(l) ==
  IF Blocked(l)
  THEN tries[l] + Cardinality(Untried(l)) <= LoginLimit + (Cardinality(Worker) - 1) + lost[l]
  ELSE /\ tries[l] <= (LoginLimit - 1) + Cardinality(InFlight(l)) + lost[l]
       /\ counter[l] # NoCounter =>
            tries[l] <= counter[l].failures + Cardinality(InFlight(l)) + lost[l]

(* What a transaction may prune is on no cooldown, unless it missed it.    *)
PrunesUnblocked ==
  \A w \in Worker : step[w] = "commit" => \A k \in old[w] \ stale[w] : ~Blocked(k)

ThrottleInv ==
  /\ ThrottleTypeOK
  /\ \A w \in Worker : key[w] \in {Address, login[w]}
  /\ PrunesUnblocked
  /\ \A l \in Login : Accounted(l)

LEMMA ThrottleFacts ==
  /\ Address \notin Login /\ IsFiniteSet(Worker)
  /\ LoginLimit \in Nat /\ LoginLimit >= 1 /\ AddressLimit \in Nat /\ AddressLimit >= 1
  /\ Block \in Nat /\ Block >= 1 /\ Window \in Nat
  /\ NoCounter \notin CounterRow
BY ThrottleAssumption, NoCounterAssumption

(* One worker more or less.                                                *)
LEMMA OneMore ==
  ASSUME NEW S \in SUBSET Worker, NEW T \in SUBSET Worker, NEW w \in Worker,
         w \notin S, T = S \cup {w}
  PROVE  Cardinality(T) = Cardinality(S) + 1
<1>1. IsFiniteSet(S)
  BY ThrottleFacts, FS_Subset
<1>2. QED
  BY <1>1, FS_AddElement

LEMMA Sizes ==
  ASSUME NEW S \in SUBSET Worker
  PROVE  Cardinality(S) \in Nat /\ Cardinality(S) <= Cardinality(Worker)
         /\ Cardinality(Worker) \in Nat
BY ThrottleFacts, FS_Subset, FS_CardinalityType

LEMMA SizesApart ==
  ASSUME NEW S \in SUBSET Worker, NEW T \in SUBSET Worker, S \cap T = {}
  PROVE  Cardinality(S) + Cardinality(T) <= Cardinality(Worker)
<1>1. IsFiniteSet(S) /\ IsFiniteSet(T) /\ IsFiniteSet(S \cup T) /\ S \cup T \in SUBSET Worker
  BY ThrottleFacts, FS_Subset
<1>2. Cardinality(S \cup T) = Cardinality(S) + Cardinality(T) - Cardinality(S \cap T)
  BY <1>1, FS_Union
<1>3. Cardinality(S \cap T) = 0
  BY FS_EmptySet
<1>4. QED
  BY <1>1, <1>2, <1>3, Sizes

LEMMA ThrottleStarts == ThrottleInit => ThrottleInv
<1> SUFFICES ASSUME ThrottleInit PROVE ThrottleInv
  OBVIOUS
<1>1. ThrottleTypeOK
  BY DEF ThrottleInit, ThrottleTypeOK, Key
<1>2. ASSUME NEW l \in Login PROVE Accounted(l)
  <2>1. InFlight(l) \in SUBSET Worker /\ ~Blocked(l) /\ counter[l] = NoCounter
    BY DEF InFlight, ThrottleInit, Key, Blocked
  <2>2. tries[l] = 0 /\ lost[l] = 0
    BY DEF ThrottleInit
  <2>3. QED
    BY <2>1, <2>2, Sizes, ThrottleFacts DEF Accounted
<1>3. QED
  BY <1>1, <1>2 DEF ThrottleInv, PrunesUnblocked, ThrottleInit

(* A counter is a row of numbers.                                          *)
LEMMA CounterFields ==
  ASSUME ThrottleTypeOK, NEW k \in Key, counter[k] # NoCounter
  PROVE  /\ counter[k] \in CounterRow
         /\ counter[k].failures \in Nat /\ counter[k].failures >= 1
         /\ counter[k].age \in Nat /\ counter[k].left \in Nat /\ counter[k].left <= Block
<1>1. counter[k] \in CounterRow
  BY DEF ThrottleTypeOK
<1>2. QED
  BY <1>1, ThrottleFacts DEF CounterRow

LEMMA RegisteredType ==
  ASSUME ThrottleTypeOK, NEW k \in Key
  PROVE  /\ Registered(k) \in CounterRow
         /\ Registered(k).failures =
              (IF CountsAnew(k) THEN 1
               ELSE IF counter[k].failures + 1 > Limit(k) THEN Limit(k) ELSE counter[k].failures + 1)
         /\ Registered(k).left =
              (IF (IF CountsAnew(k) THEN 1 ELSE counter[k].failures + 1) >= Limit(k) THEN Block
               ELSE IF counter[k] = NoCounter THEN 0 ELSE counter[k].left)
<1> DEFINE n == IF CountsAnew(k) THEN 1 ELSE counter[k].failures + 1
           f == IF n > Limit(k) THEN Limit(k) ELSE n
           a == IF CountsAnew(k) THEN 0 ELSE counter[k].age
           d == IF n >= Limit(k) THEN Block ELSE IF counter[k] = NoCounter THEN 0 ELSE counter[k].left
<1>1. Registered(k) = [failures |-> f, age |-> a, left |-> d]
  BY DEF Registered
<1>2. Limit(k) \in 1 .. LoginLimit + AddressLimit
  BY ThrottleFacts DEF Limit
<1>3. n \in Nat /\ n >= 1
  BY CounterFields DEF CountsAnew
<1>4. f \in 1 .. LoginLimit + AddressLimit
  BY <1>2, <1>3, ThrottleFacts
<1>5. a \in 0 .. Window + 1
  <2>1. CASE CountsAnew(k)
    BY <2>1, ThrottleFacts
  <2>2. CASE ~CountsAnew(k)
    BY <2>2, CounterFields, ThrottleFacts DEF CountsAnew
  <2>3. QED
    BY <2>1, <2>2
<1>6. d \in 0 .. Block
  <2>1. counter[k] # NoCounter => counter[k].left \in 0 .. Block
    BY CounterFields, ThrottleFacts
  <2>2. QED
    BY <2>1, ThrottleFacts
<1>7. Registered(k) \in CounterRow
  BY <1>1, <1>4, <1>5, <1>6 DEF CounterRow
<1>8. Registered(k).failures = f /\ Registered(k).left = d
  BY <1>1
<1>9. f = IF CountsAnew(k) THEN 1
          ELSE IF counter[k].failures + 1 > Limit(k) THEN Limit(k) ELSE counter[k].failures + 1
  BY <1>2
<1>10. QED
  BY <1>7, <1>8, <1>9

(* Steps of a worker that commit nothing.                                  *)
LEMMA CheckKeeps ==
  ASSUME ThrottleInv, NEW w \in Worker, NEW l0 \in Login, CheckCooldown(w, l0)
  PROVE  ThrottleInv'
<1> USE DEF CheckCooldown
<1>1. ThrottleTypeOK'
  BY DEF ThrottleInv, ThrottleTypeOK, Key
<1>2. (\A v \in Worker : key[v] \in {Address, login[v]})' /\ PrunesUnblocked'
  BY DEF ThrottleInv, ThrottleTypeOK, PrunesUnblocked, Blocked
<1>3. ASSUME NEW l \in Login PROVE Accounted(l)'
  <2>1. InFlight(l)' = InFlight(l)
    BY DEF InFlight, ThrottleInv, ThrottleTypeOK
  <2>2. Blocked(l) => Untried(l)' = Untried(l)
    BY DEF Untried, ThrottleInv, ThrottleTypeOK
  <2>3. (Blocked(l)' <=> Blocked(l)) /\ UNCHANGED <<counter, tries, lost>>
    BY DEF Blocked
  <2>4. QED
    BY <2>1, <2>2, <2>3 DEF Accounted, ThrottleInv
<1>4. QED
  BY <1>1, <1>2, <1>3 DEF ThrottleInv

LEMMA PasswordKeeps ==
  ASSUME ThrottleInv, NEW w \in Worker, CheckPassword(w)
  PROVE  ThrottleInv'
<1> USE DEF CheckPassword
<1>0. ThrottleTypeOK
  BY DEF ThrottleInv
<1>1. PICK wrong \in BOOLEAN :
        /\ failed' = [failed EXCEPT ![w] = wrong]
        /\ tries' = IF wrong THEN [tries EXCEPT ![login[w]] = @ + 1] ELSE tries
  OBVIOUS
<1>2. ThrottleTypeOK'
  <2>1. tries' \in [Login -> Nat]
    BY <1>0, <1>1 DEF ThrottleTypeOK
  <2>2. QED
    BY <1>0, <1>1, <2>1 DEF ThrottleTypeOK
<1>3. (\A v \in Worker : key[v] \in {Address, login[v]})' /\ PrunesUnblocked'
  BY DEF ThrottleInv, ThrottleTypeOK, PrunesUnblocked, Blocked
<1>4. ASSUME NEW l \in Login PROVE Accounted(l)'
  <2>1. (Blocked(l)' <=> Blocked(l)) /\ UNCHANGED <<counter, lost, login>>
    BY DEF Blocked
  <2>2. Accounted(l)
    BY DEF ThrottleInv
  <2>3. /\ InFlight(l) \in SUBSET Worker /\ InFlight(l)' \in SUBSET Worker
        /\ Untried(l) \in SUBSET Worker /\ Untried(l)' \in SUBSET Worker
    BY DEF InFlight, Untried
  <2>4. tries[l] \in Nat /\ lost[l] \in Nat
    BY <1>0 DEF ThrottleTypeOK
  <2>5. counter[l] # NoCounter => counter[l].failures \in Nat
    BY <1>0, CounterFields DEF Key
  <2>6. CASE login[w] # l
    <3>1. InFlight(l)' = InFlight(l) /\ Untried(l)' = Untried(l)
      BY <1>0, <1>1, <2>6 DEF InFlight, Untried, ThrottleTypeOK
    <3>2. tries'[l] = tries[l]
      BY <1>0, <1>1, <2>6 DEF ThrottleTypeOK
    <3>3. QED
      BY <2>1, <2>2, <3>1, <3>2 DEF Accounted
  <2>7. CASE login[w] = l
    <3>1. w \notin Untried(l)' /\ Untried(l) = Untried(l)' \cup {w}
      BY <1>0, <1>1, <2>7 DEF Untried, ThrottleTypeOK
    <3>2. Cardinality(Untried(l)) = Cardinality(Untried(l)') + 1
      BY <2>3, <3>1, OneMore
    <3>3. CASE wrong
      <4>1. w \notin InFlight(l) /\ InFlight(l)' = InFlight(l) \cup {w}
        BY <1>0, <1>1, <2>7, <3>3 DEF InFlight, ThrottleTypeOK
      <4>2. Cardinality(InFlight(l)') = Cardinality(InFlight(l)) + 1
        BY <2>3, <4>1, OneMore
      <4>3. tries'[l] = tries[l] + 1
        BY <1>0, <1>1, <2>7, <3>3 DEF ThrottleTypeOK
      <4>4. QED
        BY <2>1, <2>2, <2>3, <2>4, <2>5, <3>2, <4>2, <4>3, Sizes, ThrottleFacts DEF Accounted
    <3>4. CASE ~wrong
      <4>1. InFlight(l)' = InFlight(l)
        BY <1>0, <1>1, <2>7, <3>4 DEF InFlight, ThrottleTypeOK
      <4>2. tries' = tries
        BY <1>1, <3>4
      <4>3. QED
        BY <2>1, <2>2, <2>3, <2>4, <2>5, <3>2, <4>1, <4>2, Sizes, ThrottleFacts DEF Accounted
    <3>5. QED
      BY <3>3, <3>4
  <2>8. QED
    BY <2>6, <2>7
<1>5. QED
  BY <1>2, <1>3, <1>4 DEF ThrottleInv

LEMMA BeginKeeps ==
  ASSUME ThrottleInv, NEW w \in Worker, BeginUpdate(w)
  PROVE  ThrottleInv'
<1> USE DEF BeginUpdate
<1>1. ThrottleTypeOK'
  BY DEF ThrottleInv, ThrottleTypeOK, Old
<1>2. (\A v \in Worker : key[v] \in {Address, login[v]})'
  BY DEF ThrottleInv
<1>3. PrunesUnblocked'
  BY DEF ThrottleInv, ThrottleTypeOK, PrunesUnblocked, Blocked, Old
<1>4. ASSUME NEW l \in Login PROVE Accounted(l)'
  <2>1. InFlight(l)' = InFlight(l) /\ Untried(l)' = Untried(l)
    BY DEF InFlight, Untried, ThrottleInv, ThrottleTypeOK
  <2>2. (Blocked(l)' <=> Blocked(l)) /\ UNCHANGED <<counter, tries, lost>>
    BY DEF Blocked
  <2>3. QED
    BY <2>1, <2>2 DEF Accounted, ThrottleInv
<1>5. QED
  BY <1>1, <1>2, <1>3, <1>4 DEF ThrottleInv

(* Steps that end an update: what NextKey leaves of the workers in flight. *)
LEMMA NextKeyFacts ==
  ASSUME ThrottleInv, NEW w \in Worker, step[w] = "commit", NextKey(w),
         UNCHANGED <<login, failed>>, NEW l \in Login
  PROVE  /\ Untried(l)' = Untried(l) /\ w \notin Untried(l)
         /\ InFlight(l) \in SUBSET Worker /\ InFlight(l)' \in SUBSET Worker
         /\ Untried(l) \in SUBSET Worker /\ InFlight(l) \cap Untried(l) = {}
         /\ key[w] = l /\ failed[w] =>
              Cardinality(InFlight(l)) = Cardinality(InFlight(l)') + 1
         /\ key[w] # l \/ ~failed[w] => InFlight(l)' = InFlight(l)
<1> USE DEF NextKey
<1>0. ThrottleTypeOK /\ key[w] \in {Address, login[w]}
  BY DEF ThrottleInv
<1>1. Untried(l)' = Untried(l) /\ w \notin Untried(l) /\ InFlight(l) \cap Untried(l) = {}
  BY <1>0 DEF Untried, InFlight, ThrottleTypeOK
<1>2. InFlight(l) \in SUBSET Worker /\ InFlight(l)' \in SUBSET Worker /\ Untried(l) \in SUBSET Worker
  BY DEF InFlight, Untried
<1>3. ASSUME key[w] = l, failed[w]
      PROVE  Cardinality(InFlight(l)) = Cardinality(InFlight(l)') + 1
  <2>1. w \notin InFlight(l)' /\ InFlight(l) = InFlight(l)' \cup {w}
    BY <1>0, <1>3, ThrottleFacts DEF InFlight, ThrottleTypeOK
  <2>2. QED
    BY <1>2, <2>1, OneMore
<1>4. ASSUME key[w] # l \/ ~failed[w] PROVE InFlight(l)' = InFlight(l)
  BY <1>0, <1>4, ThrottleFacts DEF InFlight, ThrottleTypeOK
<1>5. QED
  BY <1>1, <1>2, <1>3, <1>4

LEMMA NextKeyTypes ==
  ASSUME ThrottleInv, NEW w \in Worker, NextKey(w), UNCHANGED login
  PROVE  /\ step' \in [Worker -> {"idle", "password", "begin", "commit"}]
         /\ key' \in [Worker -> Key] /\ second' \in [Worker -> BOOLEAN]
         /\ \A v \in Worker : key'[v] \in {Address, login'[v]}
         /\ \A v \in Worker : step'[v] = "commit" => v # w /\ step[v] = "commit"
BY DEF NextKey, ThrottleInv, ThrottleTypeOK, Key

LEMMA RefusedKeeps ==
  ASSUME ThrottleInv, NEW w \in Worker, UpdateRefused(w)
  PROVE  ThrottleInv'
<1>0. ThrottleTypeOK /\ step[w] = "commit" /\ UNCHANGED <<counter, login, failed, stale, old, tries>>
  BY DEF ThrottleInv, UpdateRefused, Refused
<1>1. \A l \in Login : (Blocked(l)' <=> Blocked(l))
  BY <1>0 DEF Blocked
<1>2. CASE ~second[w]
  <2> USE <1>2 DEF UpdateRefused
  <2>1. ThrottleTypeOK' /\ PrunesUnblocked' /\ UNCHANGED <<key, lost>>
    BY <1>0 DEF ThrottleTypeOK, ThrottleInv, PrunesUnblocked, Blocked
  <2>2. \A l \in Login : InFlight(l)' = InFlight(l) /\ Untried(l)' = Untried(l)
    BY <1>0 DEF InFlight, Untried, ThrottleTypeOK
  <2>3. QED
    BY <1>0, <1>1, <2>1, <2>2 DEF ThrottleInv, Accounted
<1>3. CASE second[w]
  <2>1. /\ NextKey(w)
        /\ lost' = IF key[w] # Address /\ failed[w] THEN [lost EXCEPT ![key[w]] = @ + 1] ELSE lost
    BY <1>3 DEF UpdateRefused, GiveUp
  <2>2. lost' \in [Login -> Nat]
    BY <1>0, <2>1 DEF ThrottleTypeOK, Key
  <2>3. ThrottleTypeOK'
    BY <1>0, <2>1, <2>2, NextKeyTypes DEF ThrottleTypeOK
  <2>4. PrunesUnblocked'
    BY <1>0, <2>1, NextKeyTypes DEF ThrottleInv, PrunesUnblocked, Blocked
  <2>5. ASSUME NEW l \in Login PROVE Accounted(l)'
    <3>1. lost'[l] = IF key[w] = l /\ failed[w] THEN lost[l] + 1 ELSE lost[l]
      BY <1>0, <2>1, ThrottleFacts DEF ThrottleTypeOK, Key
    <3>2. tries[l] \in Nat /\ lost[l] \in Nat /\ Accounted(l)
      BY <1>0 DEF ThrottleTypeOK, ThrottleInv
    <3>3. counter[l] # NoCounter => counter[l].failures \in Nat
      BY <1>0, CounterFields DEF Key
    <3>4. QED
      BY <1>0, <1>1, <2>1, <3>1, <3>2, <3>3, NextKeyFacts, Sizes, ThrottleFacts DEF Accounted
  <2>6. QED
    BY <1>0, <2>1, <2>3, <2>4, <2>5, NextKeyTypes DEF ThrottleInv
<1>4. QED
  BY <1>2, <1>3

LEMMA CommitKeeps ==
  ASSUME ThrottleInv, NEW w \in Worker, NEW written, written \in Writes(w), CommitUpdate(w, written)
  PROVE  ThrottleInv'
<1> DEFINE k == key[w]
           pruned == written \ {k}
<1>0. ThrottleTypeOK /\ step[w] = "commit" /\ UNCHANGED <<login, failed, old>> /\ NextKey(w)
      /\ k \in Key /\ k \in written /\ pruned \subseteq old[w] \ stale[w]
  BY DEF ThrottleInv, CommitUpdate, ThrottleTypeOK, Writes
<1>1. /\ counter' = [x \in Key |-> IF x \in pruned THEN NoCounter
                                  ELSE IF x # k THEN counter[x]
                                  ELSE IF failed[w] THEN Registered(k) ELSE NoCounter]
      /\ stale' = [v \in Worker |-> stale[v] \cup written]
      /\ tries' = IF k = Address THEN tries
                  ELSE [tries EXCEPT ![k] = IF ~failed[w] THEN 0
                                            ELSE IF CountsAnew(k) THEN 1 ELSE @]
      /\ lost' = IF k = Address \/ (failed[w] /\ ~CountsAnew(k)) THEN lost
                 ELSE [lost EXCEPT ![k] = 0]
  BY DEF CommitUpdate
<1>2. ThrottleTypeOK'
  <2>1. counter' \in [Key -> CounterRow \cup {NoCounter}]
    BY <1>0, <1>1, RegisteredType DEF ThrottleTypeOK
  <2>2. written \subseteq Key
    BY <1>0 DEF ThrottleTypeOK
  <2>3. stale' \in [Worker -> SUBSET Key]
    BY <1>0, <1>1, <2>2 DEF ThrottleTypeOK
  <2>4. tries' \in [Login -> Nat] /\ lost' \in [Login -> Nat]
    BY <1>0, <1>1 DEF ThrottleTypeOK
  <2>5. QED
    BY <1>0, <2>1, <2>3, <2>4, NextKeyTypes DEF ThrottleTypeOK
<1>3. PrunesUnblocked'
  <2> SUFFICES ASSUME NEW v \in Worker, step'[v] = "commit", NEW x \in old'[v] \ stale'[v]
               PROVE  ~Blocked(x)'
    BY DEF PrunesUnblocked
  <2>1. step[v] = "commit" /\ x \in old[v] \ stale[v] /\ x \notin written
    BY <1>0, <1>1, NextKeyTypes
  <2>2. x \in Key
    BY <1>0, <2>1 DEF ThrottleTypeOK
  <2>3. counter'[x] = counter[x]
    BY <1>0, <1>1, <2>1, <2>2
  <2>4. QED
    BY <2>1, <2>3 DEF ThrottleInv, PrunesUnblocked, Blocked
<1>4. ASSUME NEW l \in Login PROVE Accounted(l)'
  <2>1. l \in Key /\ Accounted(l) /\ tries[l] \in Nat /\ lost[l] \in Nat
    BY <1>0 DEF ThrottleInv, ThrottleTypeOK, Key
  <2>2. counter[l] # NoCounter =>
          counter[l].failures \in Nat /\ counter[l].failures >= 1 /\ counter[l].left \in Nat
    BY <1>0, <2>1, CounterFields
  <2>3. CASE l = k
    <3>1. /\ counter'[l] = IF failed[w] THEN Registered(l) ELSE NoCounter
          /\ tries'[l] = IF ~failed[w] THEN 0 ELSE IF CountsAnew(l) THEN 1 ELSE tries[l]
          /\ lost'[l] = IF failed[w] /\ ~CountsAnew(l) THEN lost[l] ELSE 0
      BY <1>0, <1>1, <2>1, <2>3, ThrottleFacts DEF ThrottleTypeOK
    <3>2. /\ Untried(l)' = Untried(l) /\ w \notin Untried(l)
          /\ InFlight(l) \in SUBSET Worker /\ InFlight(l)' \in SUBSET Worker
          /\ Untried(l) \in SUBSET Worker /\ InFlight(l) \cap Untried(l) = {}
          /\ failed[w] => Cardinality(InFlight(l)) = Cardinality(InFlight(l)') + 1
      BY <1>0, <2>3, NextKeyFacts
    <3>3. Cardinality(InFlight(l)) \in Nat /\ Cardinality(InFlight(l)') \in Nat
          /\ Cardinality(Untried(l)) \in Nat /\ Cardinality(Worker) \in Nat
          /\ Cardinality(InFlight(l)) + Cardinality(Untried(l)) <= Cardinality(Worker)
      BY <3>2, Sizes, SizesApart
    <3>4. Cardinality(Untried(l)) + 1 <= Cardinality(Worker)
      <4>1. Untried(l) \cup {w} \in SUBSET Worker
        BY <3>2
      <4>2. Cardinality(Untried(l) \cup {w}) = Cardinality(Untried(l)) + 1
        BY <3>2, <4>1, OneMore
      <4>3. QED
        BY <4>1, <4>2, Sizes
    <3>5. CASE ~failed[w]
      <4>1. ~Blocked(l)' /\ counter'[l] = NoCounter
        BY <3>1, <3>5 DEF Blocked
      <4>2. QED
        BY <3>1, <3>3, <3>5, <4>1, ThrottleFacts DEF Accounted
    <3>6. CASE failed[w]
      <4>1. /\ counter'[l] # NoCounter /\ Limit(l) = LoginLimit
            /\ counter'[l].failures =
                 (IF CountsAnew(l) THEN 1
                  ELSE IF counter[l].failures + 1 > LoginLimit THEN LoginLimit
                  ELSE counter[l].failures + 1)
            /\ counter'[l].left =
                 (IF (IF CountsAnew(l) THEN 1 ELSE counter[l].failures + 1) >= LoginLimit THEN Block
                  ELSE IF counter[l] = NoCounter THEN 0 ELSE counter[l].left)
        BY <1>0, <2>1, <3>1, <3>6, RegisteredType, ThrottleFacts DEF Limit
      <4>2. Blocked(l)' <=> counter'[l].left > 0
        BY <4>1 DEF Blocked
      <4>3. CASE CountsAnew(l)
        <5>1. tries'[l] = 1 /\ lost'[l] = 0 /\ counter'[l].failures = 1
          BY <3>1, <3>6, <4>1, <4>3
        <5>2. ~Blocked(l)' => LoginLimit >= 2
          BY <4>1, <4>2, <4>3, ThrottleFacts
        <5>3. QED
          BY <3>2, <3>3, <3>4, <4>1, <5>1, <5>2, ThrottleFacts DEF Accounted
      <4>4. CASE ~CountsAnew(l)
        <5>1. tries'[l] = tries[l] /\ lost'[l] = lost[l] /\ counter[l] # NoCounter
          BY <3>1, <3>6, <4>4 DEF CountsAnew
        <5>2. CASE Blocked(l)
          <6>1. Blocked(l)'
            BY <4>1, <4>2, <4>4, <5>1, <5>2, ThrottleFacts DEF Blocked
          <6>2. QED
            BY <2>1, <3>2, <5>1, <5>2, <6>1 DEF Accounted
        <5>3. CASE ~Blocked(l)
          <6>1. /\ tries[l] <= (LoginLimit - 1) + Cardinality(InFlight(l)) + lost[l]
                /\ tries[l] <= counter[l].failures + Cardinality(InFlight(l)) + lost[l]
            BY <2>1, <5>1, <5>3 DEF Accounted
          <6>2. CASE counter[l].failures + 1 >= LoginLimit
            <7>1. Blocked(l)'
              BY <4>1, <4>2, <4>4, <6>2, ThrottleFacts
            <7>2. QED
              BY <2>1, <3>2, <3>3, <3>6, <5>1, <6>1, <7>1, ThrottleFacts DEF Accounted
          <6>3. CASE ~(counter[l].failures + 1 >= LoginLimit)
            <7>1. counter'[l].failures = counter[l].failures + 1 /\ counter[l].left = 0
              BY <2>2, <4>1, <4>4, <5>1, <5>3, <6>3, ThrottleFacts DEF Blocked
            <7>2. ~Blocked(l)'
              BY <4>1, <4>2, <4>4, <5>1, <6>3, <7>1
            <7>3. QED
              BY <2>1, <2>2, <3>2, <3>3, <3>6, <5>1, <6>1, <6>3, <7>1, <7>2,
                 ThrottleFacts DEF Accounted
          <6>4. QED
            BY <6>2, <6>3
        <5>4. QED
          BY <5>2, <5>3
      <4>5. QED
        BY <4>3, <4>4
    <3>7. QED
      BY <3>5, <3>6
  <2>4. CASE l # k
    <3>1. tries'[l] = tries[l] /\ lost'[l] = lost[l]
      BY <1>0, <1>1, <2>4 DEF ThrottleTypeOK, Key
    <3>2. Untried(l)' = Untried(l) /\ InFlight(l)' = InFlight(l)
      BY <1>0, <2>4, NextKeyFacts
    <3>3. CASE l \in pruned
      <4>1. ~Blocked(l) /\ counter'[l] = NoCounter
        BY <1>0, <1>1, <2>1, <3>3 DEF ThrottleInv, PrunesUnblocked
      <4>2. QED
        BY <2>1, <3>1, <3>2, <4>1 DEF Accounted, Blocked
    <3>4. CASE l \notin pruned
      <4>1. counter'[l] = counter[l]
        BY <1>1, <2>1, <2>4, <3>4
      <4>2. QED
        BY <2>1, <3>1, <3>2, <4>1 DEF Accounted, Blocked
    <3>5. QED
      BY <3>3, <3>4
  <2>5. QED
    BY <2>3, <2>4
<1>5. QED
  BY <1>0, <1>2, <1>3, <1>4, NextKeyTypes DEF ThrottleInv

LEMMA TickKeeps ==
  ASSUME ThrottleInv, Tick
  PROVE  ThrottleInv'
<1>0. ThrottleTypeOK /\ UNCHANGED <<step, login, failed, key, second, stale, old>>
  BY DEF ThrottleInv, Tick
<1>1. ASSUME NEW k \in Key, counter[k] # NoCounter
      PROVE  /\ counter'[k] \in CounterRow /\ counter'[k].failures = counter[k].failures
             /\ counter'[k].left = IF counter[k].left = 0 THEN 0 ELSE counter[k].left - 1
  <2>1. counter'[k] = [counter[k] EXCEPT !.age = IF @ > Window THEN @ ELSE @ + 1,
                                        !.left = IF @ = 0 THEN 0 ELSE @ - 1]
    BY <1>1 DEF Tick
  <2>2. counter[k] \in CounterRow /\ counter[k].age \in 0 .. Window + 1 /\ counter[k].left \in 0 .. Block
    BY <1>0, <1>1, CounterFields DEF CounterRow
  <2>3. (IF counter[k].age > Window THEN counter[k].age ELSE counter[k].age + 1) \in 0 .. Window + 1
    BY <2>2, ThrottleFacts
  <2>4. (IF counter[k].left = 0 THEN 0 ELSE counter[k].left - 1) \in 0 .. Block
    BY <2>2, ThrottleFacts
  <2>5. QED
    BY <2>1, <2>2, <2>3, <2>4 DEF CounterRow
<1>2. \A k \in Key : counter[k] = NoCounter => counter'[k] = NoCounter
  BY DEF Tick
<1>3. \A k \in Key : Blocked(k)' <=> Blocked(k) /\ counter[k].left # 1
  <2> SUFFICES ASSUME NEW k \in Key PROVE Blocked(k)' <=> Blocked(k) /\ counter[k].left # 1
    OBVIOUS
  <2>1. counter[k] # NoCounter => counter[k].left \in Nat /\ counter'[k] # NoCounter
    BY <1>0, <1>1, CounterFields, ThrottleFacts
  <2>2. QED
    BY <1>1, <1>2, <2>1 DEF Blocked
<1>4. /\ tries' = [l \in Login |-> IF Blocked(l) /\ counter[l].left = 1 THEN 0 ELSE tries[l]]
      /\ lost' = [l \in Login |-> IF Blocked(l) /\ counter[l].left = 1 THEN 0 ELSE lost[l]]
  BY DEF Tick
<1>5. ThrottleTypeOK'
  <2>1. counter' \in [Key -> CounterRow \cup {NoCounter}]
    BY <1>1, <1>2 DEF Tick
  <2>2. tries' \in [Login -> Nat] /\ lost' \in [Login -> Nat]
    BY <1>0, <1>4 DEF ThrottleTypeOK
  <2>3. QED
    BY <1>0, <2>1, <2>2 DEF ThrottleTypeOK
<1>6. PrunesUnblocked'
  BY <1>0, <1>3 DEF ThrottleInv, ThrottleTypeOK, PrunesUnblocked
<1>7. ASSUME NEW l \in Login PROVE Accounted(l)'
  <2>1. InFlight(l)' = InFlight(l) /\ Untried(l)' = Untried(l) /\ InFlight(l) \in SUBSET Worker
    BY <1>0 DEF InFlight, Untried
  <2>2. l \in Key /\ Accounted(l)
    BY DEF Key, ThrottleInv
  <2>3. counter[l] # NoCounter => counter[l].failures \in Nat
    BY <1>0, <2>2, CounterFields
  <2>4. Cardinality(InFlight(l)) \in Nat
    BY <2>1, Sizes
  <2>5. CASE Blocked(l) /\ counter[l].left = 1
    <3>1. ~Blocked(l)' /\ tries'[l] = 0 /\ lost'[l] = 0 /\ counter'[l].failures \in Nat
      BY <1>1, <1>3, <1>4, <2>2, <2>3, <2>5 DEF Blocked
    <3>2. QED
      BY <2>1, <2>4, <3>1, ThrottleFacts DEF Accounted
  <2>6. CASE ~(Blocked(l) /\ counter[l].left = 1)
    <3>1. (Blocked(l)' <=> Blocked(l)) /\ tries'[l] = tries[l] /\ lost'[l] = lost[l]
      BY <1>3, <1>4, <2>2, <2>6
    <3>2. counter'[l] # NoCounter =>
            counter[l] # NoCounter /\ counter'[l].failures = counter[l].failures
      BY <1>1, <1>2, <2>2
    <3>3. QED
      BY <2>1, <2>2, <3>1, <3>2 DEF Accounted
  <2>7. QED
    BY <2>5, <2>6
<1>8. QED
  BY <1>0, <1>5, <1>6, <1>7 DEF ThrottleInv

LEMMA ThrottleKeeps ==
  ASSUME ThrottleInv, ThrottleNext \/ UNCHANGED throttleVars
  PROVE  ThrottleInv'
<1>1. ASSUME NEW w \in Worker, Attempt(w) PROVE ThrottleInv'
  <2>1. CASE RegisterFailure(w) \/ RegisterSuccess(w)
    BY <2>1, CommitKeeps DEF RegisterFailure, RegisterSuccess, Writes
  <2>2. QED
    BY <1>1, <2>1, CheckKeeps, PasswordKeeps, BeginKeeps, RefusedKeeps DEF Attempt
<1>2. CASE UNCHANGED throttleVars
  BY <1>2 DEF throttleVars, ThrottleInv, ThrottleTypeOK, PrunesUnblocked, Accounted, Blocked,
              InFlight, Untried
<1>3. QED
  BY <1>1, <1>2, TickKeeps DEF ThrottleNext

(* However many workers try a login at once, the wrong passwords tried     *)
(* before its cooldown begins exceed the limit by no more than the other   *)
(* workers and the updates that were given up, whatever other logins are   *)
(* tried and whichever counters are pruned (_tcsi_commit).                 *)
THEOREM FewTriesBeforeCooldown == Spec => []LimitHolds
<1>1. ThrottleInv => LimitHolds
  <2> SUFFICES ASSUME ThrottleInv, NEW l \in Login
               PROVE  tries[l] <= LoginLimit + (Cardinality(Worker) - 1) + lost[l]
    BY DEF LimitHolds, ThrottleInv
  <2>1. Accounted(l) /\ tries[l] \in Nat /\ lost[l] \in Nat
    BY DEF ThrottleInv, ThrottleTypeOK
  <2>2. InFlight(l) \in SUBSET Worker /\ Untried(l) \in SUBSET Worker
    BY DEF InFlight, Untried
  <2>3. QED
    BY <2>1, <2>2, Sizes, ThrottleFacts DEF Accounted
<1>2. ThrottleInv /\ [Next]_vars => ThrottleInv'
  <2> SUFFICES ASSUME ThrottleInv, [Next]_vars PROVE ThrottleInv'
    OBVIOUS
  <2>1. ThrottleNext \/ UNCHANGED throttleVars
    BY DEF Next, ThrottleRuns, OrvexaRuns, WebsiteRuns, DiscussRuns, RequestRuns, vars
  <2>2. QED
    BY <2>1, ThrottleKeeps
<1>3. Init => ThrottleInv
  BY ThrottleStarts DEF Init
<1>4. QED
  BY <1>1, <1>2, <1>3, PTL DEF Spec

-----------------------------------------------------------------------------
(* Contacts.                                                               *)
(* A tenant's user, and a book in which his profile is an identity of the  *)
(* companies he may work in.                                               *)
Tenant(caller) ==
  /\ caller.role = "internal" /\ ~caller.trusted
  /\ Unassigned \notin caller.active \cup caller.companies

ProfileOf(caller, book) ==
  /\ caller.profile \in Contact
  /\ \E a \in book[caller.profile].accounts :
       a.companies = caller.companies /\ ~a.owner /\ ~a.root

(* A business contact is in the company of the contact above it.           *)
BusinessTreesAligned(book) ==
  \A d \in Contact :
    ~IsIdentity(book[d]) /\ book[d].parent # NoParent =>
      book[book[d].parent].company = book[d].company

-----------------------------------------------------------------------------
(* Whatever a tenant's user may change he may also see, contacts and bank  *)
(* accounts alike: no rule lets him write what is hidden from him.         *)
THEOREM WritableIsReadable ==
  ASSUME NEW caller, NEW book, caller.role = "internal"
  PROVE  /\ Writable(caller, book) \subseteq Readable(caller, book)
         /\ BankWritable(caller, book) \subseteq BankReadable(caller, book)
<1>1. Writable(caller, book) \subseteq Readable(caller, book)
  BY DEF Writable, Readable, AvailableTo, Administers
<1>2. BankWritable(caller, book) \subseteq BankReadable(caller, book)
  <2>1. ASSUME NEW c \in Contact, book[c].entityOf \cap Scope(caller) # {}
        PROVE  AvailableTo(book[c], Scope(caller))
    BY <2>1 DEF AvailableTo, IsIdentity, IdentityCompanies
  <2> QED BY <2>1 DEF BankWritable, BankReadable, AvailableTo
<1> QED BY <1>1, <1>2

(* The descendants of a contact contain their own children.                *)
LEMMA TreeClosed ==
  ASSUME NEW book, NEW c, NEW d \in Contact, book[d].parent \in Tree(book, c)
  PROVE  d \in Tree(book, c)
BY DEF Tree

LEMMA TreeHasRoot == ASSUME NEW book, NEW c \in Contact PROVE c \in Tree(book, c)
BY DEF Tree

(* A write a tenant's user is allowed changes the company of no business   *)
(* contact, in the whole tree below the written contact.                   *)
LEMMA BusinessStays ==
  ASSUME NEW caller, NEW book, NEW c \in Contact, NEW values,
         Tenant(caller), TreeWriteAllowed(caller, book, c, values),
         "company" \in DOMAIN values,
         NEW d \in Tree(book, c), ~IsIdentity(book[d])
  PROVE  book[d].company = values.company
<1>1. ~Unchecked(caller) BY DEF Tenant, Unchecked
<1>2. ~Misaligned(book[d], values.company)
  <2>1. CASE d = c BY <2>1, <1>1 DEF TreeWriteAllowed, WriteAllowed
  <2>2. CASE d # c
    <3>1. WriteAllowed(caller, book, d, [f \in {"company"} |-> values.company])
      BY <2>2 DEF TreeWriteAllowed
    <3> QED BY <3>1, <1>1 DEF WriteAllowed
  <2> QED BY <2>1, <2>2
<1> QED BY <1>2 DEF Misaligned, IsIdentity

(* A tenant's user never takes over or gives away a business contact: what *)
(* his write moves to another company is a user's own profile, and it goes *)
(* to a company he works in.                                               *)
THEOREM NoTakeover ==
  ASSUME NEW Company, NEW Account,
         NEW book \in [Contact -> ContactRow(Company, Account)],
         NEW caller, NEW c \in Contact, NEW values,
         Tenant(caller), TreeWriteAllowed(caller, book, c, values),
         NEW d \in Contact, Written(book, c, values)[d].company # book[d].company
  PROVE  IsIdentity(book[d]) /\ Written(book, c, values)[d].company \in caller.active
<1>1. /\ "company" \in DOMAIN values /\ d \in Tree(book, c)
      /\ Written(book, c, values)[d].company = values.company
  BY DEF Written, ContactRow
<1>2. values.company \in caller.active
  BY <1>1 DEF Tenant, Unchecked, TreeWriteAllowed, WriteAllowed, ValuesAllowed
<1>3. IsIdentity(book[d])
  BY <1>1, BusinessStays
<1> QED BY <1>1, <1>2, <1>3

(* A write a tenant's user is allowed leaves every business contact in the *)
(* company of the contact above it, also where it hangs a contact under    *)
(* another one or carries a profile, and all below it, to another company. *)
THEOREM WriteKeepsTreesAligned ==
  ASSUME NEW Company, NEW Account,
         NEW book \in [Contact -> ContactRow(Company, Account)],
         NEW caller, NEW c \in Contact, NEW values,
         Tenant(caller), ProfileOf(caller, book),
         "parent" \in DOMAIN values => values.parent \in Contact \cup {NoParent},
         TreeWriteAllowed(caller, book, c, values), BusinessTreesAligned(book)
  PROVE  BusinessTreesAligned(Written(book, c, values))
<1> DEFINE after == Written(book, c, values)
           moved == "company" \in DOMAIN values
<1>1. ASSUME NEW d \in Contact
      PROVE  /\ after[d].company = IF moved /\ d \in Tree(book, c)
                                   THEN values.company ELSE book[d].company
             /\ after[d].parent = IF "parent" \in DOMAIN values /\ d = c
                                  THEN values.parent ELSE book[d].parent
             /\ IsIdentity(after[d]) = IsIdentity(book[d])
  BY DEF Written, ContactRow, IsIdentity
<1> SUFFICES ASSUME NEW d \in Contact, ~IsIdentity(after[d]), after[d].parent # NoParent
             PROVE  after[after[d].parent].company = after[d].company
  BY DEF BusinessTreesAligned
<1>2. ~IsIdentity(book[d]) BY <1>1
<1>3. after[d].company = book[d].company
  BY <1>1, <1>2, BusinessStays
<1>4. CASE "parent" \in DOMAIN values /\ d = c
  <2>1. values.parent \in Contact /\ after[d].parent = values.parent
    BY <1>1, <1>4, ContactAssumption
  <2>2. ~Unchecked(caller) BY DEF Tenant, Unchecked
  <2>3. book[c].company # Unassigned
    <3>1. c \in Writable(caller, book) BY <2>2 DEF TreeWriteAllowed, WriteAllowed
    <3>2. c # caller.profile BY <1>2, <1>4 DEF ProfileOf, IsIdentity
    <3>3. Owned(book[c], Scope(caller))
      BY <1>2, <1>4, <3>1, <3>2 DEF Writable, Tenant, Administers
    <3> QED BY <3>3 DEF Owned, Scope, Tenant
  <2>4. book[values.parent].company = IF moved THEN values.company ELSE book[c].company
    BY <1>4, <2>1, <2>2, <2>3 DEF TreeWriteAllowed, WriteAllowed, ValuesAllowed
  <2>5. moved => book[c].company = values.company
    BY <1>2, <1>4, TreeHasRoot, BusinessStays
  <2> QED BY <1>1, <1>3, <1>4, <2>1, <2>4, <2>5
<1>5. CASE ~("parent" \in DOMAIN values /\ d = c)
  <2>1. after[d].parent = book[d].parent BY <1>1, <1>5
  <2>2. book[d].parent \in Contact /\ book[book[d].parent].company = book[d].company
    BY <1>2, <2>1, ContactAssumption DEF BusinessTreesAligned, ContactRow
  <2>3. CASE moved /\ book[d].parent \in Tree(book, c)
    <3>1. d \in Tree(book, c) BY <2>3, TreeClosed
    <3> QED BY <1>1, <2>1, <2>2, <2>3, <3>1
  <2>4. CASE ~(moved /\ book[d].parent \in Tree(book, c))
    BY <1>1, <1>3, <2>1, <2>2, <2>4
  <2> QED BY <2>3, <2>4
<1> QED BY <1>4, <1>5

(* A contact a tenant's user creates is his company's own: he may read and *)
(* change what he has created, and it leaves every business contact in the *)
(* company of the contact above it (create against the record rules).      *)
THEOREM CreatedIsOwned ==
  ASSUME NEW Company, NEW Account,
         NEW book \in [Contact -> ContactRow(Company, Account)],
         NEW caller, NEW n \in Contact, NEW values,
         Tenant(caller), caller.active \subseteq caller.companies,
         "parent" \in DOMAIN values => values.parent \in (Contact \ {n}) \cup {NoParent},
         \A d \in Contact : book[d].parent # n,
         CreateAllowed(caller, book, values), BusinessTreesAligned(book)
  PROVE  LET after == Created(book, n, WithCompany(caller, values)) IN
         /\ n \in Readable(caller, after) \cap Writable(caller, after)
         /\ BusinessTreesAligned(after)
<1> DEFINE stored == WithCompany(caller, values)
           after == Created(book, n, stored)
<1>1. ~Unchecked(caller) BY DEF Tenant, Unchecked
<1>2. /\ "company" \in DOMAIN stored
      /\ "parent" \in DOMAIN stored <=> "parent" \in DOMAIN values
      /\ "parent" \in DOMAIN values => stored.parent = values.parent
  BY <1>1 DEF WithCompany
<1>3. ValuesAllowed(caller, book, Unassigned, stored) BY DEF CreateAllowed
<1>4. /\ stored.company \in caller.active
      /\ "parent" \in DOMAIN stored /\ stored.parent # NoParent =>
           book[stored.parent].company = stored.company
  BY <1>1, <1>2, <1>3 DEF ValuesAllowed
<1> HIDE DEF stored
<1>5. /\ \A d \in Contact \ {n} : after[d] = book[d]
      /\ after[n].company = stored.company /\ ~IsIdentity(after[n])
      /\ after[n].parent = IF "parent" \in DOMAIN stored THEN stored.parent ELSE NoParent
  BY DEF Created, IsIdentity
<1> HIDE DEF after
<1>6. n \in Readable(caller, after) \cap Writable(caller, after)
  <2>1. Owned(after[n], Scope(caller))
    BY <1>4, <1>5 DEF Owned, Scope
  <2> QED BY <2>1 DEF Readable, Writable, AvailableTo, Tenant
<1>7. ASSUME NEW d \in Contact, ~IsIdentity(after[d]), after[d].parent # NoParent
      PROVE  after[after[d].parent].company = after[d].company
  <2>1. CASE d = n
    <3>1. /\ "parent" \in DOMAIN stored /\ stored.parent # NoParent
          /\ after[d].parent = stored.parent
      BY <1>5, <1>7, <2>1
    <3>2. stored.parent \in Contact \ {n}
      BY <1>2, <3>1
    <3> QED BY <1>4, <1>5, <2>1, <3>1, <3>2
  <2>2. CASE d # n
    <3>1. after[d] = book[d] /\ book[d].parent \in Contact \ {n}
      BY <1>5, <1>7, <2>2 DEF ContactRow
    <3> QED BY <1>5, <1>7, <3>1 DEF BusinessTreesAligned
  <2> QED BY <2>1, <2>2
<1> QED BY <1>6, <1>7 DEF BusinessTreesAligned, after, stored

-----------------------------------------------------------------------------
(* The upgrade that shares contacts takes no contact away from anybody and *)
(* changes nobody's ownership, and afterwards a company may read every     *)
(* unowned business contact its documents name.                            *)
THEOREM BackfillOnlyShares ==
  ASSUME NEW Company, NEW Account,
         NEW book \in [Contact -> ContactRow(Company, Account)],
         NEW refs \in SUBSET (Contact \X Company), NEW d \in Contact
  PROVE  /\ Backfilled(book, refs)[d].company = book[d].company
         /\ \A companies : AvailableTo(book[d], companies) =>
              AvailableTo(Backfilled(book, refs)[d], companies)
         /\ \A o \in Company :
              /\ <<d, o>> \in refs
              /\ book[d].company = Unassigned /\ ~IsIdentity(book[d])
              => AvailableTo(Backfilled(book, refs)[d], {o})
<1> DEFINE after == Backfilled(book, refs)[d]
<1>1. /\ after.company = book[d].company /\ after.accounts = book[d].accounts
      /\ after.entityOf = book[d].entityOf /\ book[d].shared \subseteq after.shared
  BY DEF Backfilled, ContactRow
<1>2. \A companies : AvailableTo(book[d], companies) => AvailableTo(after, companies)
  BY <1>1 DEF AvailableTo, Owned, IsIdentity, IdentityCompanies
<1>3. ASSUME NEW o \in Company, <<d, o>> \in refs,
             book[d].company = Unassigned, ~IsIdentity(book[d])
      PROVE  AvailableTo(after, {o})
  <2>1. d \in Above(book, d) BY TreeHasRoot DEF Above
  <2>2. o \in Grants(book, refs, d) BY <1>3, <2>1 DEF Grants
  <2>3. o \in after.shared BY <1>3, <2>2 DEF Backfilled, ContactRow
  <2> QED BY <1>1, <1>3, <2>3 DEF AvailableTo, IsIdentity
<1> QED BY <1>1, <1>2, <1>3

(* What the forms let a user of the company name in a document is what the *)
(* scheduled task that repeats it, which has no user, accepts: no contact  *)
(* of an accepted document but the assistant is refused later, as long as  *)
(* nobody changes the contact.                                             *)
THEOREM AcceptedDocumentRuns ==
  ASSUME NEW Company, NEW caller \in CallerRow(Company), NEW book,
         NEW candidates, NEW names, NEW company, NEW stored \in SUBSET Contact,
         Tenant(caller), ProfileOf(caller, book), company \in caller.companies,
         DocumentAccepted(caller, book, candidates, names, company, stored)
  PROVE  PartnersInScope(book, company, stored \ {Assistant})
<1> SUFFICES ASSUME NEW c \in stored \ {Assistant}
             PROVE  AvailableTo(book[c], {company})
  BY DEF PartnersInScope
<1> DEFINE there == [caller EXCEPT !.active = {company}]
<1>1. /\ there.role = "internal" /\ there.companies = caller.companies
      /\ there.profile = caller.profile /\ Scope(there) = {company}
  BY DEF CallerRow, Tenant, Scope
<1>2. c \in Readable(there, book)
  BY DEF DocumentAccepted, ReadableIn, Tenant, Unchecked
<1>3. AvailableTo(book[c], {company}) \/ c = caller.profile
  BY <1>1, <1>2 DEF Readable
<1>4. ASSUME c = caller.profile PROVE AvailableTo(book[c], {company})
  BY <1>4 DEF ProfileOf, AvailableTo, IsIdentity, IdentityCompanies
<1> QED BY <1>3, <1>4

(* Nothing the bus delivers names a contact hidden from its receiver: the  *)
(* payload, broadcast alike to everybody in a conversation, is cut down at *)
(* each receiver's end, and no call of a removed member is left.           *)
THEOREM ReceivedIsVisible ==
  ASSUME NEW caller, NEW book, NEW data, NEW kind, caller.role = "internal",
         NEW MemberRow, NEW CallRow, NEW MessageRow,
         data \in PayloadRow(MemberRow, CallRow, MessageRow),
         kind \in {"mail.record/insert", "discuss.channel/new_message"}
  PROVE  LET received == Received(caller, book, kind, data) IN
         /\ Named(received) \subseteq Readable(caller, book)
         /\ \A m \in received.messages :
              m.address => m.author \in Readable(caller, book) \cup {NoParent}
<1> DEFINE visible == Readable(caller, book)
           hidden == Named(data) \ visible
           received == ScopedStore(data, visible)
<1>1. Received(caller, book, kind, data) = received BY DEF Received
<1>2. /\ received.partners = data.partners \ hidden
      /\ received.mentions = data.mentions \ hidden
      /\ received.messages = {FormattedMessage(hidden, m) : m \in data.messages}
      /\ \A row \in received.members : row \in data.members /\ row[2] \notin hidden
  BY DEF ScopedStore, PayloadRow
<1>3. received.partners \cup received.mentions \subseteq visible
  BY <1>2 DEF Named
<1>4. \A row \in received.members : row[2] \in visible
  BY <1>2 DEF Named
<1>5. ASSUME NEW m \in received.messages
      PROVE  /\ m.author \in visible \cup {NoParent} /\ m.recipients \subseteq visible
             /\ m.address => m.author \in visible \cup {NoParent}
  <2>1. PICK n \in data.messages : m = FormattedMessage(hidden, n) BY <1>2
  <2>2. n.author \in Named(data) \cup {NoParent} /\ n.recipients \subseteq Named(data)
    BY DEF Named
  <2> QED BY <2>1, <2>2 DEF FormattedMessage
<1>6. Named(received) \subseteq visible
  BY <1>3, <1>4, <1>5 DEF Named
<1> QED BY <1>1, <1>5, <1>6

-----------------------------------------------------------------------------
(* Conversations.                                                          *)
LEMMA AccessInScope ==
  ASSUME NEW v, NEW channels, ~v.root, AccessAllowed(v, channels), NEW c \in channels
  PROVE  InScope(v, c) /\ v.user \in c.readers
BY DEF AccessAllowed, ScopeAllowed

(* What the bus delivers to a user names only conversations of an          *)
(* organization he is working in, that are open and that he may read,      *)
(* however the payload names them: itself, by a thread, or through the     *)
(* rows of messages, members and calls.                                    *)
THEOREM DeliveredInScope ==
  ASSUME NEW v, NEW notes, NEW linkOf, NEW rows, ~v.root,
         NEW note \in Delivered(v, notes, linkOf, rows), note.structured,
         note.kind # "discuss.channel/delete",
         NEW id \in NamedConversations(note, linkOf) \ {NoChannel}
  PROVE  /\ id \in DOMAIN rows /\ ~rows[id].quarantined
         /\ rows[id].company \in ScopedCompanies(v) /\ v.user \in rows[id].readers
<1>1. note \in notes /\ NoteDelivered(v, note, linkOf, rows)
      /\ ~PollFails(v, notes, linkOf, rows)
  BY DEF Delivered
<1>2. id \in DOMAIN rows BY <1>1 DEF PollFails, Checked
<1>3. AccessAllowed(v, {rows[i] : i \in NamedConversations(note, linkOf) \ {NoChannel}})
  BY <1>1 DEF NoteDelivered, Checked
<1>4. InScope(v, rows[id]) /\ v.user \in rows[id].readers
  BY <1>3, AccessInScope
<1> QED BY <1>2, <1>4 DEF InScope

(* The owners and the support staff of the platform and the users of the   *)
(* organizations never reach one and the same conversation.                *)
THEOREM StaffApart ==
  ASSUME NEW v, NEW w, v.owner \/ v.staff, ~(w.owner \/ w.staff),
         NEW c, InScope(v, c)
  PROVE  ~InScope(w, c)
BY DEF InScope, ScopedCompanies

(* A message that hangs in a conversation stays in it, whichever of its    *)
(* fields a user writes.                                                   *)
THEOREM MessageStays ==
  ASSUME NEW v, NEW names, NEW m, NEW n, NEW rows, ~v.root,
         MessageWriteAllowed(v, names, m, n, rows),
         "model" \notin names => n.model = m.model,
         "res_id" \notin names => n.res = m.res,
         Link(m, DOMAIN rows) # NoChannel
  PROVE  Link(n, DOMAIN rows) = Link(m, DOMAIN rows)
<1>1. "model" \notin names /\ "res_id" \notin names BY DEF MessageWriteAllowed
<1> QED BY <1>1 DEF Link

(* A file a user writes hangs afterwards in no conversation, or in one of  *)
(* an organization he is working in and may read, and he could read the    *)
(* one it hung in before.                                                  *)
THEOREM FileStaysInScope ==
  ASSUME NEW v, NEW names, NEW m, NEW n, NEW rows, ~v.root,
         FileWriteAllowed(v, names, m, n, rows),
         "model" \notin names => n.model = m.model,
         "res_id" \notin names => n.res = m.res,
         NEW c \in Linked(m, rows) \cup Linked(n, rows)
  PROVE  InScope(v, c) /\ v.user \in c.readers
<1>1. CASE c \in Linked(m, rows)
  BY <1>1, AccessInScope DEF FileWriteAllowed
<1>2. CASE c \in Linked(n, rows) /\ names \cap {"model", "res_id"} # {}
  <2>1. PICK id \in {Link(n, DOMAIN rows)} \ {NoChannel} : c = rows[id]
    BY <1>2 DEF Linked
  <2>2. n.model = "discuss.channel" /\ n.res \in DOMAIN rows /\ id = n.res
    BY <2>1 DEF Link
  <2>3. c \in Target(n, rows) BY <2>1, <2>2 DEF Target
  <2> QED BY <1>2, <2>2, <2>3, AccessInScope DEF FileWriteAllowed
<1>3. CASE c \in Linked(n, rows) /\ names \cap {"model", "res_id"} = {}
  <2>1. n.model = m.model /\ n.res = m.res BY <1>3
  <2>2. Link(n, DOMAIN rows) = Link(m, DOMAIN rows) BY <2>1 DEF Link
  <2>3. c \in Linked(m, rows) BY <1>3, <2>2 DEF Linked
  <2> QED BY <2>3, <1>1
<1> QED BY <1>1, <1>2, <1>3

(* A conversation from before the boundary existed is opened to one        *)
(* organization only if every user of every participant is in it and in no *)
(* other; the users of the platform or of another organization are not     *)
(* admitted to what was said there.                                        *)
THEOREM LegacyKeptWithinOne ==
  ASSUME NEW c, ~Installed(c).quarantined,
         NEW p \in c.people, NEW a \in p.accounts
  PROVE  a.companies = {Installed(c).company} /\ ~a.share
<1>1. Retained(c) BY DEF Installed
<1>2. PICK o \in LegacyCompanies(c) : LegacyCompanies(c) = {o}
  BY <1>1 DEF Retained, Single
<1>3. Installed(c).company = o BY <1>1, <1>2 DEF Installed
<1>4. Single(a.companies) /\ ~a.share BY <1>1 DEF Retained, Settled
<1>5. a.companies \subseteq LegacyCompanies(c) BY DEF LegacyCompanies
<1> QED BY <1>2, <1>3, <1>4, <1>5 DEF Single

(* A conversation a user opens belongs to an organization he is working    *)
(* in, that of its parent if it has one.                                   *)
THEOREM CreatedWhereWorking ==
  ASSUME NEW v, NEW names, NEW parents, ~v.root, ConversationCreateAllowed(v, names, parents)
  PROVE  CreatedCompany(v, parents) \in ScopedCompanies(v)
<1>1. CASE parents = {} BY <1>1 DEF ConversationCreateAllowed, CreatedCompany
<1>2. CASE parents # {}
  <2>1. (CHOOSE p \in parents : TRUE) \in parents BY <1>2
  <2>2. InScope(v, CHOOSE p \in parents : TRUE)
    BY <2>1, AccessInScope DEF ConversationCreateAllowed
  <2> QED BY <1>2, <2>2 DEF CreatedCompany, InScope
<1> QED BY <1>1, <1>2

(* Who starts a message or a file in a conversation may read it there.     *)
THEOREM WrittenIsReadable ==
  ASSUME NEW v, NEW names, NEW m, NEW rows, ~v.root, HangAllowed(v, names, m, rows)
  PROVE  MessageReadAllowed(v, m, rows)
<1>1. CASE Linked(m, rows) = {}
  BY <1>1 DEF MessageReadAllowed, AccessAllowed, ScopeAllowed
<1>2. CASE Linked(m, rows) # {}
  <2>1. m.model = "discuss.channel" BY <1>2 DEF Linked, Link
  <2>2. Linked(m, rows) \subseteq Target(m, rows) BY DEF Linked, Link, Target
  <2>3. AccessAllowed(v, Target(m, rows)) BY <2>1 DEF HangAllowed
  <2> QED BY <1>2, <2>2, <2>3 DEF MessageReadAllowed, AccessAllowed, ScopeAllowed
<1> QED BY <1>1, <1>2

(* Those who may be addressed in a conversation or brought into it and     *)
(* those in whose scope it is are the same, though two rules of the code   *)
(* tell: whoever is addressed, brought in or subscribed by his group has it*)
(* in scope once he works in its company, and an enabled account that has  *)
(* it in scope may be addressed, unless the mark of an owner is all he has *)
(* of one.  So a membership that outlived a move of its account opens      *)
(* nothing.                                                                *)
THEOREM AddressedHaveItInScope ==
  ASSUME NEW Company, NEW Name, NEW accounts \in SUBSET ViewerRow(Company, Name),
         \A a \in accounts : ~a.root /\ (a.owner => a.flagged),
         NEW v, NEW c, NEW bot, NEW people, NEW guests, NEW invited, ~v.root,
         NEW groupMembers, NEW members, c.company # NoCompany,
         LET eligible == EligibleAccounts(accounts, c) IN
           \/ PostAllowed(v, c, eligible, bot, people)
           \/ AddMembersAllowed(v, c, invited, eligible, bot, people, guests)
  PROVE  /\ \A a \in (people \ {bot})
                  \cup AutoSubscribed(groupMembers, EligibleAccounts(accounts, c), members) :
              InScope([a EXCEPT !.active = {c.company}, !.signedIn = TRUE], c)
         /\ \A a \in accounts :
              InScope(a, c) /\ (a.flagged => a.owner \/ a.staff) =>
                a \in EligibleAccounts(accounts, c)
<1>1. people \subseteq EligibleAccounts(accounts, c) \cup {bot}
  BY DEF PostAllowed, AddMembersAllowed, ParticipantsAllowed
<1>2. ASSUME NEW a \in EligibleAccounts(accounts, c)
      PROVE  InScope([a EXCEPT !.active = {c.company}, !.signedIn = TRUE], c)
  <2> DEFINE b == [a EXCEPT !.active = {c.company}, !.signedIn = TRUE]
  <2>1. a \in ViewerRow(Company, Name) /\ (a.owner => a.flagged)
    BY DEF EligibleAccounts
  <2>2. /\ b.active = {c.company} /\ b.signedIn /\ b.internal = a.internal
        /\ b.owner = a.owner /\ b.staff = a.staff /\ b.companies = a.companies
    BY <2>1 DEF ViewerRow
  <2> HIDE DEF b
  <2>3. InScope(b, c)
    BY <1>2, <2>1, <2>2 DEF EligibleAccounts, InScope, ScopedCompanies
  <2> QED BY <2>3 DEF b
<1>3. ASSUME NEW a \in accounts, InScope(a, c), a.flagged => a.owner \/ a.staff
      PROVE  a \in EligibleAccounts(accounts, c)
  BY <1>3 DEF EligibleAccounts, InScope, ScopedCompanies
<1> QED BY <1>1, <1>2, <1>3 DEF AutoSubscribed

===============================================================================
