----------------------------- MODULE OrvexaTasks -----------------------------
(***************************************************************************)
(* ORVEXA's task proposals (orvexa.py): a draft-invoice command is         *)
(* prepared as a proposal that remembers the revisions of the records it   *)
(* shows, and confirmed, cancelled or repeated later, by as many requests  *)
(* as the browser sends.  Requests are transactions of SnapshotDB.         *)
(*                                                                         *)
(* The customer, the product and the journal are one row, Records, of      *)
(* which only the revision counts.                                         *)
(***************************************************************************)
EXTENDS Naturals, FiniteSets, SnapshotDB

CONSTANTS
  Proposal,
  Invoice,       \* identities of the invoices that confirmations create
  Records,       \* the records a proposal refers to
  LastRevision   \* a bound: revisions of the records

ASSUME TaskAssumption ==
  /\ Proposal \cup Invoice \cup {Records} \subseteq Row
  /\ Proposal \cap Invoice = {} /\ Records \notin Proposal \cup Invoice
  /\ LastRevision \in Nat \ {0}

ProposalRow == [state : {"pending", "done", "cancelled"}, revision : 1 .. LastRevision,
                result : Invoice \cup {Absent}]

\* An invoice that was deleted keeps its row, marked removed.
InvoiceRow == [of : Proposal, removed : BOOLEAN]

ASSUME AbsentTaskAssumption == Absent \notin ProposalRow \cup InvoiceRow

VARIABLE expired   \* proposals whose ten minutes are over

Requested(t) == t \in active

-----------------------------------------------------------------------------
\* request_task, the draft command: the review and what it was based on.
PrepareInvoice(t, p) ==
  /\ Requested(t) /\ ~Exists(t, p)
  /\ CommitWith(t, [x \in {p} |->
       [state |-> "pending", revision |-> view[t][Records], result |-> Absent]])
  /\ UNCHANGED expired

\* confirm_task reads the proposal under a row lock.
Found(t, p) == Requested(t) /\ Exists(t, p) /\ CanWrite(t, p)

Cancel(t, p) ==
  /\ Found(t, p) /\ view[t][p].state # "done"
  /\ CommitWith(t, [x \in {p} |-> [view[t][p] EXCEPT !.state = "cancelled"]])
  /\ UNCHANGED expired

Confirmable(t, p) ==
  /\ view[t][p].state = "pending" /\ p \notin expired
  /\ view[t][p].revision = view[t][Records]

\* Mutant: the invoice is created and the proposal stays pending.
ConfirmKeepingPending(t, p, i) ==
  /\ Found(t, p) /\ Confirmable(t, p) /\ ~Exists(t, i)
  /\ CommitWith(t, [x \in {p, i} |->
       IF x = i THEN [of |-> p, removed |-> FALSE]
       ELSE [view[t][p] EXCEPT !.result = i]])
  /\ UNCHANGED expired

Confirm(t, p, i) ==
  /\ Found(t, p) /\ Confirmable(t, p) /\ ~Exists(t, i)
  /\ CommitWith(t, [x \in {p, i} |->
       IF x = i THEN [of |-> p, removed |-> FALSE]
       ELSE [view[t][p] EXCEPT !.state = "done", !.result = i]])
  /\ UNCHANGED expired

\* Native operations: the user deletes the draft (result_id is set to null) or
\* edits the records.
RemoveInvoice(t, i) ==
  /\ Requested(t) /\ Exists(t, i) /\ ~view[t][i].removed
  /\ LET pointing == {p \in Proposal : Exists(t, p) /\ view[t][p].result = i} IN
     CommitWith(t, [x \in {i} \cup pointing |->
       IF x = i THEN [view[t][i] EXCEPT !.removed = TRUE]
       ELSE [view[t][x] EXCEPT !.result = Absent]])
  /\ UNCHANGED expired

EditRecords(t) ==
  /\ Requested(t) /\ view[t][Records] < LastRevision
  /\ CommitWith(t, [x \in {Records} |-> view[t][Records] + 1])
  /\ UNCHANGED expired

TenMinutesPass(p) ==
  /\ db[p] # Absent /\ p \notin expired
  /\ expired' = expired \cup {p}
  /\ UNCHANGED dbVars

TaskStep ==
  \/ \E t \in Txn, p \in Proposal :
       \/ PrepareInvoice(t, p) \/ Cancel(t, p)
       \/ \E i \in Invoice : Confirm(t, p, i)
  \/ \E t \in Txn : EditRecords(t) \/ \E i \in Invoice : RemoveInvoice(t, i)
  \/ \E p \in Proposal : TenMinutesPass(p)

-----------------------------------------------------------------------------
TaskTypeOK ==
  /\ \A p \in Proposal : db[p] \in ProposalRow \cup {Absent}
  /\ \A i \in Invoice : db[i] \in InvoiceRow \cup {Absent}
  /\ db[Records] \in 1 .. LastRevision /\ expired \subseteq Proposal

InvoicesOf(p) == {i \in Invoice : db[i] # Absent /\ db[i].of = p}

\* A proposal is carried out once, however often and at how many places it is
\* confirmed or cancelled at the same time, and not again once its invoice was
\* removed; one that is cancelled or pending has no invoice.
OneInvoicePerTask ==
  /\ TaskTypeOK
  /\ \A p \in Proposal :
       /\ Cardinality(InvoicesOf(p)) <= 1
       /\ InvoicesOf(p) # {} => db[p].state = "done"
===============================================================================
