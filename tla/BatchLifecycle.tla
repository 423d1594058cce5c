---------------------------- MODULE BatchLifecycle ----------------------------
(***************************************************************************)
(* What payment_batch.py promises to whoever looks at the committed        *)
(* batches: no requests, snapshots or locks, only the batches with their   *)
(* lines, changed by one step at a time.  PaymentBatch implements this     *)
(* specification.                                                          *)
(***************************************************************************)
EXTENDS Integers

CONSTANTS
  Batch,    \* payment batches
  Line,     \* payment batch lines
  Admin,    \* the administrators
  Nobody,   \* no user
  Absent    \* the value of a row that does not exist

VARIABLES
  batches,  \* batches[b]: Absent, or the state, creator and approver of b
  lines     \* lines[l]: Absent, or the batch, document and amount of l, and
            \* whether it carries a payment

tables == <<batches, lines>>

Start ==
  /\ batches = [b \in Batch |-> Absent]
  /\ lines = [l \in Line |-> Absent]

LinesOf(b) == {l \in Line : lines[l] # Absent /\ lines[l].batch = b}

(* There is something to pay, and none of it is nothing.                   *)
Payable(b) == LinesOf(b) # {} /\ \A l \in LinesOf(b) : lines[l].amount > 0

In(b, states) == batches[b] # Absent /\ batches[b].state \in states

(* b goes to another state and keeps everything else.                      *)
Turn(b, state) == batches' = [batches EXCEPT ![b].state = state]

-----------------------------------------------------------------------------
Create(b) ==
  /\ batches[b] = Absent
  /\ \A c \in Batch \ {b} : batches'[c] = batches[c]
  /\ batches'[b] # Absent
  /\ batches'[b].state = "draft" /\ batches'[b].approver = Nobody
  /\ UNCHANGED lines

(* A line that a draft may have: no payment was made for it.               *)
OfDraft(line) == line # Absent => In(line.batch, {"draft"}) /\ ~line.paid

(* Lines are added, changed, moved and dropped among drafts only.          *)
EditLines ==
  /\ \A l \in Line : lines'[l] # lines[l] => OfDraft(lines[l]) /\ OfDraft(lines'[l])
  /\ UNCHANGED batches

Submit(b) ==
  /\ In(b, {"draft"}) /\ Payable(b)
  /\ \E state \in {"pending", "approved"} : Turn(b, state)
  /\ UNCHANGED lines

(* Only an administrator approves, and never a batch of their own.         *)
Approve(b) ==
  /\ In(b, {"pending"})
  /\ \E admin \in Admin \ {batches[b].creator} :
       batches' = [batches EXCEPT ![b].state = "approved", ![b].approver = admin]
  /\ UNCHANGED lines

Cancel(b) ==
  /\ In(b, {"draft", "pending", "approved"})
  /\ Turn(b, "cancelled")
  /\ UNCHANGED lines

(* All lines of the batch are paid in the step that posts it, the lines as *)
(* they are in the books, and no other line is.                            *)
Post(b) ==
  /\ In(b, {"draft", "approved"}) /\ Payable(b)
  /\ \A l \in LinesOf(b) : ~lines[l].paid
  /\ Turn(b, "posted")
  /\ lines' = [l \in Line |-> IF l \in LinesOf(b) THEN [lines[l] EXCEPT !.paid = TRUE]
                              ELSE lines[l]]

(* A batch goes with all of its lines.                                     *)
Delete(b) ==
  /\ batches[b] # Absent
  /\ batches' = [batches EXCEPT ![b] = Absent]
  /\ lines' = [l \in Line |-> IF l \in LinesOf(b) THEN Absent ELSE lines[l]]

Change ==
  \/ EditLines
  \/ \E b \in Batch :
       Create(b) \/ Submit(b) \/ Approve(b) \/ Cancel(b) \/ Post(b) \/ Delete(b)

Lifecycle == Start /\ [][Change]_tables
===============================================================================
