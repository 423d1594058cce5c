----------------------------- MODULE PaymentBatch -----------------------------
(***************************************************************************)
(* Payment batches (payment_batch.py): lines are collected on a draft, the *)
(* batch is submitted, approved by an administrator when its total is over *)
(* the company's threshold, and posted, which makes one payment per line.  *)
(*                                                                         *)
(* A request is a transaction of SnapshotDB that serves one button or one  *)
(* record edit and commits.  Every one of them first takes _lock_for_posting, a        *)
(* no-change UPDATE of the batch row, so that an edit of a line alone also *)
(* makes concurrent requests on the same batch fail.  Posting takes one    *)
(* step per line.  What a payment does to the open balance of its document *)
(* is Odoo's payment register (external): it refuses a settled document    *)
(* and leaves what exceeds the balance as an outstanding credit.           *)
(* Currencies, dates, instruments and periods are left out; an edit of the *)
(* batch's own fields locks its row as WriteLine does and changes nothing  *)
(* that is modelled.                                                       *)
(***************************************************************************)
EXTENDS Integers, FiniteSets, Folds, SnapshotDB

CONSTANTS
  Batch,       \* payment batches
  Line,        \* payment batch lines
  Document,    \* posted invoices and bills
  Company,     \* the row of res_company with the approval policy
  Advance,     \* the document of a line that pays none
  User,        \* users who may post
  Admin,       \* those of them who are administrators
  Nobody,      \* no user
  Amount,      \* amounts a line may carry
  Total,       \* the total of every document
  Threshold    \* approval thresholds; one no total reaches stands for "off"

ASSUME RowAssumption ==
  /\ Row = Batch \cup Line \cup Document \cup {Company}
  /\ Batch \cap Line = {} /\ Batch \cap Document = {} /\ Line \cap Document = {}
  /\ Company \notin Batch \cup Line \cup Document /\ IsFiniteSet(Line)
ASSUME AdvanceAssumption == Advance \notin Document
ASSUME UserAssumption == Admin \subseteq User /\ Nobody \notin User
ASSUME AmountAssumption ==
  Amount \subseteq Nat /\ Threshold \subseteq Nat /\ Total \in Nat

BatchRow == [state : {"draft", "pending", "approved", "posted", "cancelled"},
             creator : User, approver : User \cup {Nobody}]
LineRow == [batch : Batch, document : Document \cup {Advance},
            amount : Amount, paid : BOOLEAN]

(* residual is what remains open; over is what was paid beyond it.         *)
DocumentRow == [residual : 0 .. Total, over : Nat]

ASSUME AbsentAssumption == Absent \notin BatchRow \cup LineRow

VARIABLES
  phase,    \* phase[t]: "idle", "open" or "posting"
  target,   \* target[t]: the batch being posted
  todo      \* todo[t]: its lines that still have no payment

vars == <<dbVars, phase, target, todo>>

Init ==
  /\ \E threshold \in Threshold :
       DBInitWith([r \in Row |->
         IF r \in Document THEN [residual |-> Total, over |-> 0]
         ELSE IF r = Company THEN threshold
         ELSE Absent])
  /\ phase = [t \in Txn |-> "idle"]
  /\ target = [t \in Txn |-> Nobody]
  /\ todo = [t \in Txn |-> {}]

-----------------------------------------------------------------------------
LinesOf(rows, b) == {l \in Line : rows[l] # Absent /\ rows[l].batch = b}

TotalAmount(rows, b) ==
  MapThenFoldSet(LAMBDA x, y : x + y, 0, LAMBDA l : rows[l].amount,
                 LAMBDA S : CHOOSE l \in S : TRUE, LinesOf(rows, b))

RequiresApproval(rows, b) == TotalAmount(rows, b) > rows[Company]

State(t, b) == view[t][b].state

Open(t) == phase[t] = "open"

One(r, value) == [x \in {r} |-> value]

(* The rows a request writes together with the batch it locks.             *)
WithBatch(t, b, new) ==
  [r \in DOMAIN new \cup {b} |-> IF r \in DOMAIN new THEN new[r] ELSE view[t][r]]

Finish(t) ==
  /\ phase' = [phase EXCEPT ![t] = "idle"]
  /\ target' = [target EXCEPT ![t] = Nobody]
  /\ todo' = [todo EXCEPT ![t] = {}]

(* The request writes these rows and is done.                              *)
Serve(t, new) == CommitWith(t, new) /\ Finish(t)

Begin(t) ==
  /\ BeginTxn(t)
  /\ phase' = [phase EXCEPT ![t] = "open"]
  /\ UNCHANGED <<target, todo>>

Abort(t) == AbortTxn(t) /\ Finish(t)

-----------------------------------------------------------------------------
(* Editing a draft.                                                        *)
CreateBatch(t, b, u) ==
  /\ Open(t)
  /\ ~Exists(t, b)
  /\ Serve(t, One(b, [state |-> "draft", creator |-> u, approver |-> Nobody]))

CreateLine(t, l, b, d, amount) ==
  /\ Open(t)
  /\ ~Exists(t, l)
  /\ Exists(t, b) /\ State(t, b) = "draft"
  /\ Serve(t, WithBatch(t, b, One(l, [batch |-> b, document |-> d,
                                      amount |-> amount, paid |-> FALSE])))

(* Mutant: an edit of a line leaves the version of its batch alone.        *)
WriteLineUnlocked(t, l, b, d, amount) ==
  /\ Open(t)
  /\ Exists(t, l) /\ Exists(t, b)
  /\ State(t, view[t][l].batch) = "draft" /\ State(t, b) = "draft"
  /\ Serve(t, One(l, [view[t][l] EXCEPT !.batch = b, !.document = d, !.amount = amount]))

(* The write locks the batch the line leaves and the one it moves to.      *)
WriteLine(t, l, b, d, amount) ==
  LET line == [view[t][l] EXCEPT !.batch = b, !.document = d, !.amount = amount] IN
  /\ Open(t)
  /\ Exists(t, l) /\ Exists(t, b)
  /\ State(t, view[t][l].batch) = "draft" /\ State(t, b) = "draft"
  /\ Serve(t, [r \in {l, b, view[t][l].batch} |-> IF r = l THEN line ELSE view[t][r]])

UnlinkLine(t, l) ==
  /\ Open(t)
  /\ Exists(t, l)
  /\ State(t, view[t][l].batch) = "draft"
  /\ Serve(t, WithBatch(t, view[t][l].batch, One(l, Absent)))

(* Deleting the batch, in any state, deletes its lines; the payments stay. *)
UnlinkBatch(t, b) ==
  /\ Open(t)
  /\ Exists(t, b)
  /\ Serve(t, [r \in {b} \cup LinesOf(view[t], b) |-> Absent])

-----------------------------------------------------------------------------
(* _check_lines_before_submit: every line is compared with the balance its *)
(* document has now, before any line is paid.                              *)
CheckLines(t, b) ==
  \A l \in LinesOf(view[t], b) :
    LET row == view[t][l] IN
    /\ row.amount > 0
    /\ row.document # Advance => row.amount <= view[t][row.document].residual

(* The state action_submit gives a draft, or "draft" when it refuses.      *)
SubmittedState(t, b) ==
  IF LinesOf(view[t], b) = {} \/ ~CheckLines(t, b) THEN "draft"
  ELSE IF RequiresApproval(view[t], b) THEN "pending" ELSE "approved"

ActionSubmit(t, b) ==
  /\ Open(t)
  /\ Exists(t, b) /\ State(t, b) = "draft"
  /\ SubmittedState(t, b) # "draft"
  /\ Serve(t, One(b, [view[t][b] EXCEPT !.state = SubmittedState(t, b)]))

(* Mutant: an administrator may approve a batch of their own.              *)
ActionApproveOwn(t, b, admin) ==
  /\ Open(t)
  /\ Exists(t, b) /\ State(t, b) = "pending"
  /\ Serve(t, One(b, [view[t][b] EXCEPT !.state = "approved", !.approver = admin]))

ActionApprove(t, b, admin) ==
  /\ Open(t)
  /\ Exists(t, b) /\ State(t, b) = "pending"
  /\ view[t][b].creator # admin
  /\ Serve(t, One(b, [view[t][b] EXCEPT !.state = "approved", !.approver = admin]))

ActionCancel(t, b) ==
  /\ Open(t)
  /\ Exists(t, b) /\ State(t, b) \in {"draft", "pending", "approved"}
  /\ Serve(t, One(b, [view[t][b] EXCEPT !.state = "cancelled"]))

(* From here the request pays the lines it read, one by one.               *)
EnterLoop(t, b) ==
  /\ Put(t, b, [view[t][b] EXCEPT !.state = "approved"])
  /\ phase' = [phase EXCEPT ![t] = "posting"]
  /\ target' = [target EXCEPT ![t] = b]
  /\ todo' = [todo EXCEPT ![t] = LinesOf(view[t], b)]
  /\ UNCHANGED <<db, active, shared, missed>>

MayPost(t, b) ==
  /\ Open(t)
  /\ Exists(t, b)
  /\ State(t, b) \in {"draft", "approved"}
  /\ \A l \in LinesOf(view[t], b) : ~view[t][l].paid
  /\ State(t, b) = "draft" => SubmittedState(t, b) = "approved"

(* Mutant: the balances were checked at submission, never again.           *)
StartPostUnchecked(t, b) ==
  /\ MayPost(t, b)
  /\ RequiresApproval(view[t], b) => view[t][b].approver # Nobody
  /\ EnterLoop(t, b)

(* action_post up to its loop.  A draft is submitted on the way, and both  *)
(* the approval, under the policy of now, and the lines are checked again. *)
StartPost(t, b) ==
  /\ MayPost(t, b)
  /\ RequiresApproval(view[t], b) => view[t][b].approver # Nobody
  /\ CheckLines(t, b)
  /\ EnterLoop(t, b)

(* The balance of a document after a payment of amount.                    *)
Settle(document, amount) ==
  IF amount <= document.residual
  THEN [document EXCEPT !.residual = @ - amount]
  ELSE [residual |-> 0, over |-> document.over + amount - document.residual]

(* Mutant: a line its document has no room for by now is passed over.      *)
PostLineSkipping(t, l) ==
  /\ l \in todo[t]
  /\ IF /\ view[t][l].document # Advance
        /\ view[t][view[t][l].document].residual < view[t][l].amount
     THEN UNCHANGED <<view, wrote>>
     ELSE PutAll(t, [r \in {l} \cup ({view[t][l].document} \cap Document) |->
                       IF r = l THEN [view[t][l] EXCEPT !.paid = TRUE]
                       ELSE Settle(view[t][r], view[t][l].amount)])
  /\ todo' = [todo EXCEPT ![t] = @ \ {l}]
  /\ UNCHANGED <<db, active, shared, missed, phase, target>>

(* _post_line: one payment for the line, reconciled with its document.     *)
PostLine(t, l) ==
  /\ l \in todo[t]
  /\ view[t][l].document # Advance => view[t][view[t][l].document].residual > 0
  /\ PutAll(t, [r \in {l} \cup ({view[t][l].document} \cap Document) |->
                  IF r = l THEN [view[t][l] EXCEPT !.paid = TRUE]
                  ELSE Settle(view[t][r], view[t][l].amount)])
  /\ todo' = [todo EXCEPT ![t] = @ \ {l}]
  /\ UNCHANGED <<db, active, shared, missed, phase, target>>

FinishPost(t) ==
  /\ phase[t] = "posting"
  /\ todo[t] = {}
  /\ Serve(t, One(target[t], [view[t][target[t]] EXCEPT !.state = "posted"]))

-----------------------------------------------------------------------------
(* What other requests do to the same rows: a payment registered on a      *)
(* document outside any batch, of any amount the policy lets pass, more    *)
(* than the balance included; and a change of the approval policy.         *)
RegisterPayment(t, d, amount) ==
  /\ Open(t)
  /\ amount > 0 /\ amount <= view[t][Company]
  /\ view[t][d].residual > 0
  /\ Serve(t, One(d, Settle(view[t][d], amount)))

SetThreshold(t, threshold) ==
  /\ Open(t)
  /\ Serve(t, One(Company, threshold))

LineStep(t, l) ==
  \/ \E amount \in Amount, b \in Batch, d \in Document \cup {Advance} :
       CreateLine(t, l, b, d, amount) \/ WriteLine(t, l, b, d, amount)
  \/ UnlinkLine(t, l)
  \/ PostLine(t, l)

BatchStep(t, b) ==
  \/ \E u \in User : CreateBatch(t, b, u)
  \/ UnlinkBatch(t, b)
  \/ ActionSubmit(t, b)
  \/ \E admin \in Admin : ActionApprove(t, b, admin)
  \/ ActionCancel(t, b)
  \/ StartPost(t, b)

Next ==
  \E t \in Txn :
    \/ Begin(t)
    \/ \E l \in Line : LineStep(t, l)
    \/ \E b \in Batch : BatchStep(t, b)
    \/ FinishPost(t)
    \/ \E d \in Document, amount \in Amount : RegisterPayment(t, d, amount)
    \/ \E threshold \in Threshold : SetThreshold(t, threshold)
    \/ Abort(t)

Spec == Init /\ [][Next]_vars

-----------------------------------------------------------------------------
RowTypeOK(rows) ==
  /\ \A b \in Batch : rows[b] \in BatchRow \cup {Absent}
  /\ \A l \in Line : rows[l] \in LineRow \cup {Absent}
  /\ \A d \in Document : rows[d] \in DocumentRow
  /\ rows[Company] \in Threshold

(* The tables and the requests are well formed; no balance falls below     *)
(* zero, whatever is paid on the document.                                 *)
TypeOK ==
  /\ RowTypeOK(db)
  /\ \A t \in active : RowTypeOK(view[t])
  /\ phase \in [Txn -> {"idle", "open", "posting"}]
  /\ \A t \in Txn : /\ phase[t] = "idle" <=> t \notin active
                    /\ todo[t] # {} => phase[t] = "posting"
                    /\ phase[t] = "posting" => target[t] \in Batch

(* Posting is all or nothing and pays every line once: a posted batch has  *)
(* lines and all of them carry a payment, any other batch carries none,    *)
(* also when lines were added or dropped while it was being posted.        *)
PostedInFull ==
  /\ TypeOK
  /\ \A b \in Batch : db[b] # Absent =>
       IF db[b].state = "posted"
       THEN LinesOf(db, b) # {} /\ \A l \in LinesOf(db, b) : db[l].paid
       ELSE \A l \in LinesOf(db, b) : ~db[l].paid

SameLine(old, new) == new # Absent /\ [old EXCEPT !.paid = new.paid] = new

(* "A submitted payment batch cannot be edited": what was submitted is     *)
(* what gets approved and posted, although the editor, the submitter and   *)
(* the approver each worked on a snapshot of their own.                    *)
SubmittedLinesFrozen ==
  [][\A b \in Batch :
       /\ db[b] # Absent /\ db'[b] # Absent
       /\ db[b].state # "draft" \/ db'[b].state # "draft"
       => /\ LinesOf(db', b) = LinesOf(db, b)
          /\ \A l \in LinesOf(db, b) : SameLine(db[l], db'[l])]_vars

(* "A submitted payment batch cannot be edited", and posting pays what was *)
(* submitted, all of it or nothing: although every request works on a      *)
(* snapshot of its own, whoever looks at the committed batches and lines   *)
(* sees them change as BatchLifecycle allows, one request at its commit.   *)
Tables == INSTANCE BatchLifecycle WITH
  batches <- [b \in Batch |-> db[b]],
  lines <- [l \in Line |-> db[l]]

ImplementsBatchLifecycle == Tables!Lifecycle

(* "Payments above the company threshold only post through an              *)
(* administrator-approved batch": a batch that becomes posted either totals*)
(* at most the threshold its poster read, or was approved by an            *)
(* administrator who did not create it.                                    *)
ApprovalCoversTotal ==
  [][\A b \in Batch, t \in active \ active' :
       /\ b \in wrote[t]
       /\ db'[b] # Absent /\ db'[b].state = "posted"
       /\ db[b] # db'[b]
       => \/ TotalAmount(db', b) <= view[t][Company]
          \/ db'[b].approver \in Admin \ {db'[b].creator}]_vars

(* Two lines of the batch request t posts pay d at its commit.             *)
PaidTwice(t, d) ==
  \E k, l \in Line : /\ k # l
                     /\ db'[k] # Absent /\ db'[l] # Absent
                     /\ db'[k].batch = target[t] /\ db'[l].batch = target[t]
                     /\ db'[k].document = d /\ db'[l].document = d
                     /\ db'[k].paid /\ db'[l].paid

(* One payment of more than d's balance, taken off the balance of now.     *)
PaidInExcess(d) ==
  \E amount \in Amount : /\ amount > db[d].residual
                         /\ db'[d] = Settle(db[d], amount)

(* A document is never paid beyond its balance because somebody relied on a*)
(* balance that was gone: a batch goes over it only by two lines of its own*)
(* on that document, which _check_lines_before_submit compares one by one, *)
(* and a payment by hand only as one amount above the balance of now.      *)
OverpaidKnowingly ==
  [][\A d \in Document :
       db'[d].over > db[d].over =>
         \E t \in active \ active' :
           IF phase[t] = "posting" THEN PaidTwice(t, d) ELSE PaidInExcess(d)]_vars
===============================================================================
