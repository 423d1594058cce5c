-------------------------- MODULE PaymentBatchProofs --------------------------
(***************************************************************************)
(* Machine-checked proofs about PaymentBatch, for every number of requests,*)
(* batches, lines and documents, every amount and every policy.            *)
(***************************************************************************)
EXTENDS PaymentBatch, SnapshotProofs

LineIn(rows, l, b) == rows[l] # Absent /\ rows[l].batch = b

LockDiscipline ==
  /\ active \subseteq Txn
  /\ DOMAIN db = Row
  /\ DOMAIN view = Txn /\ \A t \in Txn : DOMAIN view[t] = Row
  /\ wrote \in [Txn -> SUBSET Row]
  /\ shared = [t \in Txn |-> {}]
  /\ missed \in [Txn -> SUBSET Row]
  /\ SnapshotInv

(* Only a request that posts holds rows beyond its one statement.          *)
Requests ==
  /\ DOMAIN phase = Txn /\ DOMAIN target = Txn /\ DOMAIN todo = Txn
  /\ \A t \in Txn : phase[t] # "posting" => wrote[t] = {}

(* The committed batches and lines.                                        *)
LinesHaveBatches == \A l \in Line : db[l] # Absent => db[l].batch \in Batch /\ db[db[l].batch] # Absent

PaidWhenPosted ==
  \A b \in Batch : db[b] # Absent =>
    IF db[b].state = "posted"
    THEN LinesOf(db, b) # {} /\ \A l \in LinesOf(db, b) : db[l].paid
    ELSE \A l \in LinesOf(db, b) : ~db[l].paid

SubmittedHasLines ==
  \A b \in Batch : db[b] # Absent /\ db[b].state \in {"pending", "approved"} => LinesOf(db, b) # {}

Books == LinesHaveBatches /\ PaidWhenPosted /\ SubmittedHasLines

(* Who has missed no change of a batch knows its lines.  This is what every*)
(* edit of a line writing the row of its batch gives.                      *)
LinesKnown(t) ==
  \A b \in Batch, l \in Line :
    /\ b \notin missed[t] /\ l \notin wrote[t]
    /\ LineIn(view[t], l, b) \/ LineIn(db, l, b)
    => view[t][l] = db[l]

(* A request that posts holds its batch and has paid the lines it wrote;   *)
(* what it has still to pay are the other lines of the batch.              *)
PostingLines(t) ==
  LET b == target[t] IN
  /\ b \in Batch /\ b \in wrote[t]
  /\ wrote[t] \subseteq {b} \cup Line \cup Document
  /\ view[t][b] # Absent
  /\ db[b] # Absent /\ db[b].state \in {"draft", "approved"}
  /\ view[t][b] = [db[b] EXCEPT !.state = "approved"]
  /\ LinesOf(view[t], b) # {}
  /\ \A l \in LinesOf(view[t], b) : view[t][l].amount > 0
  /\ todo[t] \subseteq LinesOf(view[t], b)
  /\ \A l \in LinesOf(view[t], b) : view[t][l].paid <=> l \notin todo[t]
  /\ \A l \in wrote[t] \cap Line :
       LineIn(view[t], l, b) /\ LineIn(db, l, b) /\ SameLine(db[l], view[t][l])

(* A document none of its lines was paid on has room for each of them, and *)
(* one paid beyond its balance was paid by two of its lines.               *)
PaidOn(t, l, d) ==
  LineIn(view[t], l, target[t]) /\ view[t][l].document = d /\ view[t][l].paid

PostingDocuments(t) ==
  \A d \in Document :
    /\ \/ \E l \in Line : PaidOn(t, l, d)
       \/ \A l \in Line : LineIn(view[t], l, target[t]) /\ view[t][l].document = d
                            => view[t][l].amount <= view[t][d].residual
    /\ d \in wrote[t] /\ view[t][d].over > db[d].over =>
         \E k, l \in Line : k # l /\ PaidOn(t, k, d) /\ PaidOn(t, l, d)

Posting(t) == phase[t] = "posting" => PostingLines(t) /\ PostingDocuments(t)

IInv ==
  /\ LockDiscipline /\ TypeOK /\ Requests /\ Books
  /\ \A t \in active : LinesKnown(t) /\ Posting(t)

-----------------------------------------------------------------------------
(* Who approves a batch is an administrator who did not create it.         *)
ApprovedByAnother(row) ==
  row # Absent => row.approver = Nobody \/ row.approver \in Admin \ {row.creator}

(* What the operations do: a batch is created or takes a step towards      *)
(* posting; a line is created, changed, moved or removed among batches that*)
(* are drafts, whose rows are written with it; or a document or the policy *)
(* changes.                                                                *)
Turns(rows, b, row) ==
  \/ rows[b] = Absent /\ row.state = "draft" /\ row.approver = Nobody
  \/ /\ rows[b] # Absent /\ rows[b].state = "draft"
     /\ \E state \in {"pending", "approved"} : row = [rows[b] EXCEPT !.state = state]
     /\ LinesOf(rows, b) # {} /\ \A l \in LinesOf(rows, b) : rows[l].amount > 0
  \/ /\ rows[b] # Absent /\ rows[b].state = "pending"
     /\ \E admin \in Admin \ {rows[b].creator} :
          row = [rows[b] EXCEPT !.state = "approved", !.approver = admin]
  \/ /\ rows[b] # Absent /\ rows[b].state \in {"draft", "pending", "approved"}
     /\ row = [rows[b] EXCEPT !.state = "cancelled"]

BatchEffect(t, b, row) ==
  /\ CommitWith(t, One(b, row))
  /\ Turns(view[t], b, row)
  /\ row \in BatchRow
  /\ IF view[t][b] = Absent THEN row.state = "draft"
     ELSE /\ view[t][b].state # "posted" /\ row.state \in {"pending", "approved", "cancelled"}
          /\ row.state \in {"pending", "approved"} =>
               view[t][b].state = "pending" \/ LinesOf(view[t], b) # {}
  /\ \/ ApprovedByAnother(row)
     \/ /\ view[t][b] # Absent
        /\ row.creator = view[t][b].creator /\ row.approver = view[t][b].approver

LineEffect(t, l, row, drafts) ==
  /\ CommitWith(t, [r \in drafts \cup {l} |-> IF r = l THEN row ELSE view[t][r]])
  /\ row \in LineRow \cup {Absent}
  /\ \A b \in drafts :
       /\ view[t][b].state = "draft"
       /\ view[t][b] # Absent \/ (view[t][l] # Absent /\ view[t][l].batch = b)
  /\ view[t][l] # Absent => view[t][l].batch \in drafts
  /\ row # Absent =>
       /\ row.batch \in drafts
       /\ row.paid <=> view[t][l] # Absent /\ view[t][l].paid

OtherEffect(t, r, row) ==
  /\ CommitWith(t, One(r, row))
  /\ r \in Document =>
       /\ row \in DocumentRow
       /\ row.over > view[t][r].over =>
            \E amount \in Amount : /\ amount > view[t][r].residual
                                   /\ row = Settle(view[t][r], amount)
  /\ r = Company => row \in Threshold

Effect(t) ==
  \/ Begin(t)
  \/ Abort(t)
  \/ \E b \in Batch, row \in BatchRow : Open(t) /\ BatchEffect(t, b, row) /\ Finish(t)
  \/ \E l \in Line, row \in LineRow \cup {Absent}, drafts \in SUBSET Batch :
       Open(t) /\ LineEffect(t, l, row, drafts) /\ Finish(t)
  \/ \E r \in Document \cup {Company} : \E row : Open(t) /\ OtherEffect(t, r, row) /\ Finish(t)
  \/ \E b \in Batch : UnlinkBatch(t, b)
  \/ \E b \in Batch : StartPost(t, b)
  \/ \E l \in Line : PostLine(t, l)
  \/ FinishPost(t)

(* What a step never does, see SubmittedLinesFrozen and                    *)
(* OverpaidKnowingly.                                                      *)
LinesFrozen ==
  \A b \in Batch :
    /\ db[b] # Absent /\ db'[b] # Absent
    /\ db[b].state # "draft" \/ db'[b].state # "draft"
    => /\ LinesOf(db', b) = LinesOf(db, b)
       /\ \A l \in LinesOf(db, b) : SameLine(db[l], db'[l])

OverBounded ==
  \A d \in Document :
    db'[d].over > db[d].over =>
      \E t \in active \ active' :
        IF phase[t] = "posting" THEN PaidTwice(t, d) ELSE PaidInExcess(d)

LEMMA SettleFits ==
  ASSUME NEW row \in DocumentRow, NEW amount \in Nat
  PROVE  /\ Settle(row, amount) \in DocumentRow
         /\ Settle(row, amount).over > row.over => row.residual < amount
BY AmountAssumption DEF Settle, DocumentRow

LEMMA LineStepEffect ==
  ASSUME TypeOK, NEW t \in Txn, NEW l \in Line, LineStep(t, l)
  PROVE  Effect(t)
<1> USE AbsentAssumption, RowAssumption
<1>1. ASSUME NEW row \in LineRow \cup {Absent}, NEW drafts \in SUBSET Batch,
             Open(t), LineEffect(t, l, row, drafts), Finish(t)
      PROVE  Effect(t)
  BY <1>1 DEF Effect
<1>2. Open(t) => view[t][l] \in LineRow \cup {Absent}
  BY DEF Open, TypeOK, RowTypeOK
<1>3. ASSUME NEW amount \in Amount, NEW b \in Batch, NEW d \in Document \cup {Advance},
             CreateLine(t, l, b, d, amount)
      PROVE  Effect(t)
  <2> DEFINE row == [batch |-> b, document |-> d, amount |-> amount, paid |-> FALSE]
             new == WithBatch(t, b, One(l, row))
  <2>1. Open(t) /\ view[t][l] = Absent /\ view[t][b] # Absent /\ view[t][b].state = "draft"
        /\ CommitWith(t, new) /\ Finish(t)
    BY <1>3 DEF CreateLine, Exists, State, Serve
  <2>2. row \in LineRow
    BY DEF LineRow
  <2>3. new = [r \in {b} \cup {l} |-> IF r = l THEN row ELSE view[t][r]]
    BY DEF WithBatch, One
  <2>4. row.batch = b /\ row.paid = FALSE
    OBVIOUS
  <2> HIDE DEF row, new
  <2>5. LineEffect(t, l, row, {b})
    BY <2>1, <2>2, <2>3, <2>4 DEF LineEffect
  <2>6. QED
    BY <1>1, <2>1, <2>2, <2>5
<1>4. ASSUME NEW amount \in Amount, NEW b \in Batch, NEW d \in Document \cup {Advance},
             WriteLine(t, l, b, d, amount)
      PROVE  Effect(t)
  <2> DEFINE row == [view[t][l] EXCEPT !.batch = b, !.document = d, !.amount = amount]
             old == view[t][l].batch
             new == [r \in {l, b, old} |-> IF r = l THEN row ELSE view[t][r]]
  <2>1. Open(t) /\ view[t][l] # Absent /\ view[t][b] # Absent /\ view[t][old].state = "draft"
        /\ view[t][b].state = "draft" /\ CommitWith(t, new) /\ Finish(t)
    BY <1>4 DEF WriteLine, Exists, State, Serve
  <2>2. view[t][l] \in LineRow
    BY <1>2, <2>1
  <2>3. row \in LineRow /\ row.batch = b /\ row.paid = view[t][l].paid /\ old \in Batch
    BY <2>2 DEF LineRow
  <2>4. new = [r \in {b, old} \cup {l} |-> IF r = l THEN row ELSE view[t][r]]
    OBVIOUS
  <2> HIDE DEF row, new, old
  <2>5. old = view[t][l].batch
    BY DEF old
  <2>6. CommitWith(t, [r \in {b, old} \cup {l} |-> IF r = l THEN row ELSE view[t][r]])
    BY <2>1, <2>4
  <2>7. LineEffect(t, l, row, {b, old})
    BY <2>1, <2>2, <2>3, <2>5, <2>6 DEF LineEffect
  <2>8. QED
    BY <1>1, <2>1, <2>3, <2>7
<1>5. CASE UnlinkLine(t, l)
  <2> DEFINE old == view[t][l].batch
             new == WithBatch(t, old, One(l, Absent))
  <2>1. Open(t) /\ view[t][l] # Absent /\ view[t][old].state = "draft"
        /\ CommitWith(t, new) /\ Finish(t)
    BY <1>5 DEF UnlinkLine, Exists, State, Serve
  <2>2. view[t][l] \in LineRow /\ old \in Batch
    BY <1>2, <2>1 DEF LineRow
  <2>3. new = [r \in {old} \cup {l} |-> IF r = l THEN Absent ELSE view[t][r]]
    BY DEF WithBatch, One
  <2> HIDE DEF new, old
  <2>4. LineEffect(t, l, Absent, {old})
    BY <2>1, <2>2, <2>3 DEF LineEffect, old
  <2>5. QED
    BY <1>1, <2>1, <2>2, <2>4
<1>6. CASE PostLine(t, l)
  BY <1>6 DEF Effect
<1>7. QED
  BY <1>3, <1>4, <1>5, <1>6 DEF LineStep

LEMMA BatchStepEffect ==
  ASSUME TypeOK, NEW t \in Txn, NEW b \in Batch, BatchStep(t, b)
  PROVE  Effect(t)
<1> USE AbsentAssumption, RowAssumption
<1>1. ASSUME NEW row, Open(t), BatchEffect(t, b, row), Finish(t)
      PROVE  Effect(t)
  BY <1>1 DEF Effect, BatchEffect
<1>2. Open(t) => view[t][b] \in BatchRow \cup {Absent}
  BY DEF Open, TypeOK, RowTypeOK
<1>3. ASSUME NEW u \in User, CreateBatch(t, b, u)
      PROVE  Effect(t)
  <2>1. BatchEffect(t, b, [state |-> "draft", creator |-> u, approver |-> Nobody])
    BY <1>3 DEF CreateBatch, Serve, Exists, BatchEffect, Turns, BatchRow, ApprovedByAnother
  <2>2. QED
    BY <1>1, <1>3, <2>1 DEF CreateBatch, Serve
<1>4. CASE ActionSubmit(t, b)
  <2> DEFINE state == SubmittedState(t, b)
  <2>1. /\ LinesOf(view[t], b) # {} /\ \A l \in LinesOf(view[t], b) : view[t][l].amount > 0
        /\ state \in {"pending", "approved"}
    BY <1>4 DEF ActionSubmit, SubmittedState, CheckLines
  <2>2. /\ view[t][b] # Absent /\ view[t][b].state = "draft" /\ Open(t) /\ Finish(t)
        /\ CommitWith(t, One(b, [view[t][b] EXCEPT !.state = state]))
    BY <1>4 DEF ActionSubmit, Serve, Exists, State
  <2> HIDE DEF state
  <2>3. Turns(view[t], b, [view[t][b] EXCEPT !.state = state])
    BY <2>1, <2>2 DEF Turns
  <2>4. BatchEffect(t, b, [view[t][b] EXCEPT !.state = state])
    BY <1>2, <2>1, <2>2, <2>3 DEF BatchEffect, BatchRow, ApprovedByAnother
  <2>5. QED
    BY <1>1, <2>2, <2>4
<1>5. ASSUME NEW admin \in Admin, ActionApprove(t, b, admin)
      PROVE  Effect(t)
  <2>1. BatchEffect(t, b, [view[t][b] EXCEPT !.state = "approved", !.approver = admin])
    BY <1>2, <1>5, UserAssumption DEF ActionApprove, Serve, Exists, State, BatchEffect, Turns,
       BatchRow, ApprovedByAnother
  <2>2. QED
    BY <1>1, <1>5, <2>1 DEF ActionApprove, Serve
<1>6. CASE ActionCancel(t, b)
  <2>1. BatchEffect(t, b, [view[t][b] EXCEPT !.state = "cancelled"])
    BY <1>2, <1>6 DEF ActionCancel, Serve, Exists, State, BatchEffect, Turns, BatchRow,
       ApprovedByAnother
  <2>2. QED
    BY <1>1, <1>6, <2>1 DEF ActionCancel, Serve
<1>7. CASE UnlinkBatch(t, b) \/ StartPost(t, b)
  BY <1>7 DEF Effect
<1>8. QED
  BY <1>3, <1>4, <1>5, <1>6, <1>7 DEF BatchStep

LEMMA NextEffect ==
  ASSUME TypeOK, Next
  PROVE  \E t \in Txn : Effect(t)
<1>1. PICK t \in Txn :
        \/ Begin(t) \/ Abort(t) \/ FinishPost(t)
        \/ \E l \in Line : LineStep(t, l)
        \/ \E b \in Batch : BatchStep(t, b)
        \/ \E d \in Document, amount \in Amount : RegisterPayment(t, d, amount)
        \/ \E threshold \in Threshold : SetThreshold(t, threshold)
  BY DEF Next
<1>2. ASSUME NEW d \in Document, NEW amount \in Amount, RegisterPayment(t, d, amount)
      PROVE  Effect(t)
  <2>1. view[t][d] \in DocumentRow /\ amount \in Nat
    BY <1>2, AmountAssumption DEF RegisterPayment, Open, TypeOK, RowTypeOK
  <2>2. /\ Settle(view[t][d], amount) \in DocumentRow
        /\ Settle(view[t][d], amount).over > view[t][d].over => amount > view[t][d].residual
    <3>1. view[t][d].residual \in Int
      BY <2>1, AmountAssumption DEF DocumentRow
    <3>2. QED
      BY <2>1, <3>1, SettleFits
  <2>3. OtherEffect(t, d, Settle(view[t][d], amount))
    BY <1>2, <2>2, RowAssumption DEF RegisterPayment, Serve, OtherEffect
  <2>4. QED
    BY <1>2, <2>3 DEF RegisterPayment, Serve, Effect
<1>3. ASSUME NEW threshold \in Threshold, SetThreshold(t, threshold)
      PROVE  Effect(t)
  <2>1. OtherEffect(t, Company, threshold)
    BY <1>3, RowAssumption DEF SetThreshold, Serve, OtherEffect
  <2>2. QED
    BY <1>3, <2>1 DEF SetThreshold, Serve, Effect
<1>4. QED
  BY <1>1, <1>2, <1>3, LineStepEffect, BatchStepEffect DEF Effect

-----------------------------------------------------------------------------
(* A commit publishes what its request wrote, the last statement over the  *)
(* earlier ones; every other request keeps its view and has missed it.     *)
LEMMA CommitOfAll ==
  ASSUME LockDiscipline, NEW t \in active, NEW new, DOMAIN new \subseteq Row, CommitWith(t, new)
  PROVE  /\ \A r \in DOMAIN new : r \notin missed[t]
         /\ \A r \in DOMAIN new \ wrote[t] : view[t][r] = db[r]
         /\ \A r \in DOMAIN new : db'[r] = new[r]
         /\ \A r \in wrote[t] \ DOMAIN new : db'[r] = view[t][r]
         /\ \A r \in Row \ (wrote[t] \cup DOMAIN new) : db'[r] = db[r]
         /\ active' = active \ {t}
         /\ \A u \in active' :
              /\ view'[u] = view[u] /\ wrote'[u] = wrote[u]
              /\ missed'[u] = missed[u] \cup (wrote[t] \cup DOMAIN new)
              /\ wrote[u] \cap (wrote[t] \cup DOMAIN new) = {}
         /\ wrote' = [wrote EXCEPT ![t] = {}]
         /\ LockDiscipline'
<1>1. t \in Txn /\ active' = active \ {t} /\ wrote[t] \subseteq Row
  BY DEF LockDiscipline, CommitWith, EndTxn
<1>2. \A r \in DOMAIN new : r \notin missed[t] /\ \A u \in Txn \ {t} : r \notin wrote[u]
  BY DEF CommitWith, CanWrite
<1>3. \A r \in DOMAIN new \ wrote[t] : view[t][r] = db[r]
  BY <1>2 DEF LockDiscipline, SnapshotInv, ViewsCurrent
<1>4. /\ DOMAIN db' = Row
      /\ \A r \in DOMAIN new : db'[r] = new[r]
      /\ \A r \in wrote[t] \ DOMAIN new : db'[r] = view[t][r]
      /\ \A r \in Row \ (wrote[t] \cup DOMAIN new) : db'[r] = db[r]
  BY <1>1 DEF CommitWith
<1>5. wrote' = [wrote EXCEPT ![t] = {}] /\ shared' = [u \in Txn |-> {}]
  BY <1>1 DEF LockDiscipline, CommitWith, EndTxn
<1>6. /\ DOMAIN view' = Txn /\ view'[t] = EmptyView
      /\ \A u \in Txn \ {t} : view'[u] = view[u]
  BY <1>1 DEF LockDiscipline, CommitWith, EndTxn
<1>7. missed' = [u \in Txn |-> IF u \in active \ {t}
                              THEN missed[u] \cup (wrote[t] \cup DOMAIN new) ELSE {}]
  BY DEF CommitWith
<1>8. \A u \in Txn \ {t} : wrote'[u] = wrote[u] /\ wrote[u] \cap (wrote[t] \cup DOMAIN new) = {}
  BY <1>1, <1>2, <1>5 DEF LockDiscipline, SnapshotInv, RowLocksExclusive
<1>9. wrote'[t] = {} /\ wrote' \in [Txn -> SUBSET Row] /\ missed' \in [Txn -> SUBSET Row]
  BY <1>1, <1>5, <1>7 DEF LockDiscipline
<1>10. \A u \in Txn : DOMAIN view'[u] = Row
  BY <1>6 DEF LockDiscipline, EmptyView
<1>11. IdleClean'
  BY <1>1, <1>5, <1>6, <1>7, <1>8, <1>9 DEF LockDiscipline, SnapshotInv, IdleClean
<1>12. RowLocksExclusive'
  BY <1>5, <1>8, <1>9 DEF LockDiscipline, SnapshotInv, RowLocksExclusive
<1>13. LockedRowsCurrent'
  BY <1>5, <1>7, <1>8, <1>9 DEF LockDiscipline, SnapshotInv, LockedRowsCurrent
<1>14. ViewsCurrent'
  <2> SUFFICES ASSUME NEW u \in active', NEW r \in Row, r \notin missed'[u], r \notin wrote'[u]
               PROVE  view'[u][r] = db'[r]
    BY DEF ViewsCurrent
  <2>1. u \in Txn \ {t} /\ u \in active
    BY <1>1 DEF LockDiscipline
  <2>2. r \notin missed[u] /\ r \notin wrote[u] /\ r \notin wrote[t] \cup DOMAIN new
    BY <1>1, <1>7, <1>8, <2>1
  <2>3. view[u][r] = db[r]
    BY <2>1, <2>2 DEF LockDiscipline, SnapshotInv, ViewsCurrent
  <2>4. QED
    BY <1>4, <1>6, <2>1, <2>2, <2>3
<1>15. LockDiscipline'
  BY <1>1, <1>4, <1>5, <1>6, <1>9, <1>10, <1>11, <1>12, <1>13, <1>14
     DEF LockDiscipline, SnapshotInv
<1>16. \A u \in active' : /\ view'[u] = view[u] /\ wrote'[u] = wrote[u]
                          /\ missed'[u] = missed[u] \cup (wrote[t] \cup DOMAIN new)
                          /\ wrote[u] \cap (wrote[t] \cup DOMAIN new) = {}
  BY <1>1, <1>6, <1>7, <1>8 DEF LockDiscipline
<1>17. QED
  BY <1>1, <1>2, <1>3, <1>4, <1>5, <1>15, <1>16

(* The rows of a request that holds none until then.                       *)
LEMMA OpenCommit ==
  ASSUME IInv, NEW t \in Txn, Open(t), NEW new, DOMAIN new \subseteq Row, CommitWith(t, new)
  PROVE  /\ t \in active /\ wrote[t] = {}
         /\ \A r \in DOMAIN new : r \notin missed[t] /\ view[t][r] = db[r] /\ db'[r] = new[r]
         /\ \A r \in Row \ DOMAIN new : db'[r] = db[r]
<1>1. t \in active /\ wrote[t] = {}
  BY DEF IInv, Requests, Open, TypeOK
<1>2. QED
  BY <1>1, CommitOfAll DEF IInv

(* What a commit leaves of the other requests, if a line changes only with *)
(* the rows of the batches it was in and is in.                            *)
LinesWithBatches(rows) ==
  \A l \in Line, b \in Batch :
    b \notin rows /\ (LineIn(db, l, b) \/ LineIn(db', l, b)) => db'[l] = db[l]

LEMMA TypeKept ==
  ASSUME RowTypeOK(db'), \A u \in active' : RowTypeOK(view'[u]),
         phase' \in [Txn -> {"idle", "open", "posting"}],
         \A u \in Txn : /\ phase'[u] = "idle" <=> u \notin active'
                        /\ todo'[u] # {} => phase'[u] = "posting"
                        /\ phase'[u] = "posting" => target'[u] \in Batch
  PROVE  TypeOK'
BY DEF TypeOK

LEMMA CommitOthers ==
  ASSUME IInv, NEW t \in active, NEW new, DOMAIN new \subseteq Row, CommitWith(t, new), Finish(t),
         LinesWithBatches(wrote[t] \cup DOMAIN new), RowTypeOK(db'), Books'
  PROVE  IInv'
<1> DEFINE W == wrote[t] \cup DOMAIN new
<1>1. /\ t \in Txn /\ active' = active \ {t} /\ LockDiscipline'
      /\ \A u \in active' : /\ view'[u] = view[u] /\ wrote'[u] = wrote[u]
                            /\ missed'[u] = missed[u] \cup W /\ wrote[u] \cap W = {}
      /\ \A r \in Row \ W : db'[r] = db[r]
      /\ wrote' = [wrote EXCEPT ![t] = {}]
  BY CommitOfAll DEF IInv, LockDiscipline
<1>2. LinesWithBatches(W)
  OBVIOUS
<1> HIDE DEF W
<1>3. /\ DOMAIN phase' = Txn /\ DOMAIN target' = Txn /\ DOMAIN todo' = Txn
      /\ phase'[t] = "idle" /\ todo'[t] = {}
      /\ \A u \in Txn \ {t} : /\ phase'[u] = phase[u] /\ target'[u] = target[u]
                              /\ todo'[u] = todo[u]
  BY <1>1 DEF Finish, IInv, Requests
<1>4. TypeOK'
  <2>1. \A u \in active' : RowTypeOK(view'[u])
    BY <1>1 DEF IInv, TypeOK, RowTypeOK
  <2>2. phase' \in [Txn -> {"idle", "open", "posting"}]
    BY <1>1 DEF IInv, TypeOK, Finish
  <2>3. \A u \in Txn : /\ phase'[u] = "idle" <=> u \notin active'
                       /\ todo'[u] # {} => phase'[u] = "posting"
                       /\ phase'[u] = "posting" => target'[u] \in Batch
    BY <1>1, <1>3 DEF IInv, TypeOK
  <2>4. QED
    BY <2>1, <2>2, <2>3, TypeKept
<1>5. Requests'
  BY <1>1, <1>3 DEF IInv, LockDiscipline, Requests
<1>6. ASSUME NEW u \in active' PROVE LinesKnown(u)'
  <2> SUFFICES ASSUME NEW b \in Batch, NEW l \in Line, b \notin missed'[u], l \notin wrote'[u],
                      LineIn(view'[u], l, b) \/ LineIn(db', l, b)
               PROVE  view'[u][l] = db'[l]
    BY DEF LinesKnown
  <2>1. u \in active /\ b \notin missed[u] /\ b \notin W /\ l \notin wrote[u] /\ view'[u] = view[u]
    BY <1>1, <1>6
  <2>2. LineIn(view[u], l, b) \/ LineIn(db, l, b) => view[u][l] = db[l]
    BY <2>1 DEF IInv, LinesKnown
  <2>3. LineIn(db, l, b) \/ LineIn(db', l, b) => db'[l] = db[l]
    BY <1>2, <2>1 DEF LinesWithBatches
  <2>4. QED
    BY <2>1, <2>2, <2>3 DEF LineIn
<1>7. ASSUME NEW u \in active', phase'[u] = "posting"
      PROVE  PostingLines(u)' /\ PostingDocuments(u)'
  <2> DEFINE b == target[u]
  <2>1. u \in active /\ u \in Txn \ {t} /\ phase[u] = "posting" /\ target'[u] = b /\ todo'[u] = todo[u]
        /\ view'[u] = view[u] /\ wrote'[u] = wrote[u] /\ wrote[u] \cap W = {}
    BY <1>1, <1>3, <1>7 DEF IInv, LockDiscipline
  <2>2. PostingLines(u) /\ PostingDocuments(u)
    BY <2>1 DEF IInv, Posting
  <2>3. b \in Batch /\ b \in wrote[u] /\ wrote[u] \subseteq Row
    BY <2>1, <2>2 DEF PostingLines, IInv, LockDiscipline
  <2>4. \A r \in wrote[u] : db'[r] = db[r]
    BY <1>1, <2>1, <2>3
  <2> HIDE DEF b
  <2>5. PostingLines(u)'
    BY <2>1, <2>2, <2>3, <2>4 DEF PostingLines, LineIn, LinesOf, SameLine, b
  <2>6. PostingDocuments(u)'
    BY <2>1, <2>2, <2>4 DEF PostingDocuments, PaidOn, LineIn, b
  <2>7. QED
    BY <2>5, <2>6
<1>8. QED
  BY <1>1, <1>4, <1>5, <1>6, <1>7 DEF IInv, Posting

(* What a further write of a request that posts leaves of everyone: its own*)
(* view and its locks, nothing else.                                       *)
LEMMA WriteOthers ==
  ASSUME IInv, NEW t \in active, NEW rows \in SUBSET Row,
         UNCHANGED <<db, active, shared, missed>>,
         \A r \in rows : CanWrite(t, r),
         DOMAIN view' = Txn, DOMAIN view'[t] = Row,
         \A r \in Row \ rows : view'[t][r] = view[t][r],
         wrote' = [wrote EXCEPT ![t] = @ \cup rows],
         phase' \in [Txn -> {"idle", "open", "posting"}], DOMAIN target' = Txn, DOMAIN todo' = Txn,
         \A u \in Txn \ {t} : /\ view'[u] = view[u] /\ phase'[u] = phase[u]
                              /\ target'[u] = target[u] /\ todo'[u] = todo[u],
         phase'[t] = "posting", RowTypeOK(view'[t]), PostingLines(t)', PostingDocuments(t)'
  PROVE  IInv'
<1>1. /\ t \in Txn
      /\ wrote'[t] = wrote[t] \cup rows /\ \A u \in Txn \ {t} : wrote'[u] = wrote[u]
      /\ wrote' \in [Txn -> SUBSET Row]
  BY DEF IInv, LockDiscipline
<1>2. \A r \in rows : r \notin missed[t] /\ \A u \in Txn \ {t} : r \notin wrote[u]
  BY DEF CanWrite
<1>3. LockDiscipline'
  <2>1. IdleClean'
    BY <1>1 DEF IInv, LockDiscipline, SnapshotInv, IdleClean, EmptyView
  <2>2. RowLocksExclusive'
    BY <1>1, <1>2 DEF IInv, LockDiscipline, SnapshotInv, RowLocksExclusive
  <2>3. LockedRowsCurrent'
    BY <1>1, <1>2 DEF IInv, LockDiscipline, SnapshotInv, LockedRowsCurrent
  <2>4. ViewsCurrent'
    BY <1>1, <1>2 DEF IInv, LockDiscipline, SnapshotInv, ViewsCurrent
  <2>5. QED
    BY <1>1, <2>1, <2>2, <2>3, <2>4 DEF IInv, LockDiscipline, SnapshotInv
<1>4. TypeOK'
  <2>1. \A u \in active' : RowTypeOK(view'[u])
    BY <1>1 DEF IInv, LockDiscipline, TypeOK
  <2>2. RowTypeOK(db')
    BY DEF IInv, TypeOK
  <2>3. phase' \in [Txn -> {"idle", "open", "posting"}]
    OBVIOUS
  <2>4. \A u \in Txn : /\ phase'[u] = "idle" <=> u \notin active'
                       /\ todo'[u] # {} => phase'[u] = "posting"
                       /\ phase'[u] = "posting" => target'[u] \in Batch
    BY <1>1 DEF IInv, TypeOK, PostingLines
  <2>5. QED
    BY <2>1, <2>2, <2>3, <2>4, TypeKept
<1>5. Requests'
  BY <1>1 DEF IInv, Requests
<1>6. Books'
  BY DEF IInv, Books, LinesHaveBatches, PaidWhenPosted, SubmittedHasLines, LinesOf
<1>7. ASSUME NEW u \in active' PROVE LinesKnown(u)'
  <2>1. u \in Txn /\ LinesKnown(u) /\ missed'[u] = missed[u] /\ db' = db
    BY <1>7 DEF IInv, LockDiscipline
  <2>2. \A l \in Line : l \notin wrote'[u] => l \notin wrote[u] /\ view'[u][l] = view[u][l]
    BY <1>1, <2>1, RowAssumption
  <2>3. QED
    BY <2>1, <2>2 DEF LinesKnown, LineIn
<1>8. ASSUME NEW u \in active' PROVE Posting(u)'
  <2>1. CASE u = t
    BY <2>1 DEF Posting
  <2>2. CASE u # t
    <3>1. /\ u \in Txn /\ Posting(u) /\ wrote'[u] = wrote[u] /\ view'[u] = view[u] /\ db' = db
          /\ phase'[u] = phase[u] /\ target'[u] = target[u] /\ todo'[u] = todo[u]
      BY <1>1, <1>8, <2>2 DEF IInv, LockDiscipline
    <3>2. QED
      BY <3>1 DEF Posting, PostingLines, PostingDocuments, PaidOn, LineIn, LinesOf, SameLine
  <2>3. QED
    BY <2>1, <2>2
<1>9. QED
  BY <1>3, <1>4, <1>5, <1>6, <1>7, <1>8 DEF IInv

-----------------------------------------------------------------------------
LEMMA FrozenIf ==
  ASSUME TypeOK,
         \A b \in Batch, l \in Line :
           /\ db[b] # Absent /\ db'[b] # Absent
           /\ db[b].state # "draft" \/ db'[b].state # "draft"
           /\ LineIn(db, l, b) \/ LineIn(db', l, b)
           => LineIn(db, l, b) /\ LineIn(db', l, b) /\ (db'[l] = db[l] \/ SameLine(db[l], db'[l]))
  PROVE  LinesFrozen
<1> SUFFICES ASSUME NEW b \in Batch, db[b] # Absent, db'[b] # Absent,
                    db[b].state # "draft" \/ db'[b].state # "draft"
             PROVE  /\ LinesOf(db', b) = LinesOf(db, b)
                    /\ \A l \in LinesOf(db, b) : SameLine(db[l], db'[l])
  BY DEF LinesFrozen
<1>1. LinesOf(db', b) = LinesOf(db, b)
  BY DEF LineIn, LinesOf
<1>2. ASSUME NEW l \in LinesOf(db, b) PROVE SameLine(db[l], db'[l])
  <2>1. l \in Line /\ db[l] \in LineRow /\ db[l] # Absent /\ db[l].batch = b
    BY <1>2 DEF LinesOf, TypeOK, RowTypeOK
  <2>2. CASE db'[l] = db[l]
    BY <2>1, <2>2 DEF SameLine, LineRow
  <2>3. QED
    BY <2>1, <2>2 DEF LineIn
<1>3. QED
  BY <1>1, <1>2

LEMMA BoundedIf ==
  ASSUME TypeOK, \A d \in Document : db'[d].over = db[d].over
  PROVE  OverBounded
<1>1. \A d \in Document : db[d].over \in Nat
  BY DEF TypeOK, RowTypeOK, DocumentRow
<1>2. QED
  BY <1>1 DEF OverBounded

LEMMA NothingCommitted ==
  ASSUME TypeOK, db' = db
  PROVE  LinesFrozen /\ OverBounded
BY FrozenIf, BoundedIf

LEMMA BeginKeeps ==
  ASSUME IInv, NEW t \in Txn, Begin(t)
  PROVE  IInv'
<1>1. /\ t \notin active /\ active' = active \cup {t} /\ view' = [view EXCEPT ![t] = db]
      /\ UNCHANGED <<db, wrote, shared, missed, target, todo>>
      /\ phase' = [phase EXCEPT ![t] = "open"]
  BY DEF Begin, BeginTxn
<1>2. /\ view'[t] = db /\ \A u \in Txn \ {t} : view'[u] = view[u] /\ phase'[u] = phase[u]
      /\ phase'[t] = "open" /\ wrote[t] = {} /\ missed[t] = {} /\ shared[t] = {}
  BY <1>1 DEF IInv, LockDiscipline, Requests, SnapshotInv, IdleClean
<1>3. LockDiscipline'
  <2>1. IdleClean' /\ RowLocksExclusive' /\ LockedRowsCurrent' /\ ViewsCurrent'
    BY <1>1, <1>2 DEF IInv, LockDiscipline, SnapshotInv, IdleClean, RowLocksExclusive,
                      LockedRowsCurrent, ViewsCurrent
  <2>2. QED
    BY <1>1, <1>2, <2>1 DEF IInv, LockDiscipline, SnapshotInv
<1>4. TypeOK'
  <2>1. RowTypeOK(db') /\ \A u \in active' : RowTypeOK(view'[u])
    BY <1>1, <1>2 DEF IInv, LockDiscipline, TypeOK
  <2>2. phase' \in [Txn -> {"idle", "open", "posting"}]
    BY <1>1 DEF IInv, TypeOK
  <2>3. \A u \in Txn : /\ phase'[u] = "idle" <=> u \notin active'
                       /\ todo'[u] # {} => phase'[u] = "posting"
                       /\ phase'[u] = "posting" => target'[u] \in Batch
    BY <1>1, <1>2 DEF IInv, TypeOK
  <2>4. QED
    BY <2>1, <2>2, <2>3, TypeKept
<1>5. Requests'
  BY <1>1, <1>2 DEF IInv, Requests
<1>6. Books'
  BY <1>1 DEF IInv, Books, LinesHaveBatches, PaidWhenPosted, SubmittedHasLines, LinesOf
<1>7. ASSUME NEW u \in active' PROVE LinesKnown(u)' /\ Posting(u)'
  <2>1. CASE u = t
    BY <1>1, <1>2, <2>1 DEF LinesKnown, Posting
  <2>2. CASE u # t
    BY <1>1, <1>2, <1>7, <2>2 DEF IInv, LockDiscipline, LinesKnown, LineIn, Posting, PostingLines,
                                  PostingDocuments, PaidOn, LinesOf, SameLine
  <2>3. QED
    BY <2>1, <2>2
<1>8. QED
  BY <1>3, <1>4, <1>5, <1>6, <1>7 DEF IInv

LEMMA AbortKeeps ==
  ASSUME IInv, NEW t \in Txn, Abort(t)
  PROVE  IInv'
<1>1. /\ t \in active /\ active' = active \ {t} /\ view' = [view EXCEPT ![t] = EmptyView]
      /\ wrote' = [wrote EXCEPT ![t] = {}] /\ shared' = [shared EXCEPT ![t] = {}]
      /\ missed' = [missed EXCEPT ![t] = {}] /\ db' = db
      /\ phase' = [phase EXCEPT ![t] = "idle"] /\ todo' = [todo EXCEPT ![t] = {}]
      /\ target' = [target EXCEPT ![t] = Nobody]
  BY DEF Abort, AbortTxn, EndTxn, Finish
<1>2. /\ \A u \in Txn \ {t} : /\ view'[u] = view[u] /\ phase'[u] = phase[u]
                              /\ wrote'[u] = wrote[u] /\ missed'[u] = missed[u]
                              /\ target'[u] = target[u] /\ todo'[u] = todo[u]
      /\ phase'[t] = "idle" /\ wrote'[t] = {} /\ missed'[t] = {} /\ view'[t] = EmptyView
      /\ shared' = [u \in Txn |-> {}] /\ todo'[t] = {}
  BY <1>1 DEF IInv, LockDiscipline, Requests
<1>3. LockDiscipline'
  <2>1. IdleClean' /\ RowLocksExclusive' /\ LockedRowsCurrent' /\ ViewsCurrent'
    BY <1>1, <1>2 DEF IInv, LockDiscipline, SnapshotInv, IdleClean, RowLocksExclusive,
                      LockedRowsCurrent, ViewsCurrent
  <2>2. DOMAIN view' = Txn /\ \A u \in Txn : DOMAIN view'[u] = Row
    BY <1>1 DEF IInv, LockDiscipline, EmptyView
  <2>3. QED
    BY <1>1, <1>2, <2>1, <2>2 DEF IInv, LockDiscipline, SnapshotInv
<1>4. TypeOK'
  <2>1. RowTypeOK(db') /\ \A u \in active' : RowTypeOK(view'[u])
    BY <1>1, <1>2 DEF IInv, LockDiscipline, TypeOK
  <2>2. phase' \in [Txn -> {"idle", "open", "posting"}]
    BY <1>1 DEF IInv, TypeOK
  <2>3. \A u \in Txn : /\ phase'[u] = "idle" <=> u \notin active'
                       /\ todo'[u] # {} => phase'[u] = "posting"
                       /\ phase'[u] = "posting" => target'[u] \in Batch
    BY <1>1, <1>2 DEF IInv, TypeOK
  <2>4. QED
    BY <2>1, <2>2, <2>3, TypeKept
<1>5. Requests'
  BY <1>1, <1>2 DEF IInv, Requests
<1>6. Books'
  BY <1>1 DEF IInv, Books, LinesHaveBatches, PaidWhenPosted, SubmittedHasLines, LinesOf
<1>7. ASSUME NEW u \in active' PROVE LinesKnown(u)' /\ Posting(u)'
  BY <1>1, <1>2, <1>7 DEF IInv, LockDiscipline, LinesKnown, LineIn, Posting, PostingLines,
                          PostingDocuments, PaidOn, LinesOf, SameLine
<1>8. QED
  BY <1>3, <1>4, <1>5, <1>6, <1>7 DEF IInv

(* A step of the batch: its lines stay what the request read.              *)
LEMMA BatchKeeps ==
  ASSUME IInv, NEW t \in Txn, NEW b \in Batch, NEW row, Open(t), BatchEffect(t, b, row), Finish(t)
  PROVE  IInv' /\ LinesFrozen /\ OverBounded
<1> USE RowAssumption, AbsentAssumption
<1>1. DOMAIN One(b, row) = {b} /\ One(b, row)[b] = row /\ CommitWith(t, One(b, row))
  BY DEF One, BatchEffect
<1>2. /\ t \in active /\ wrote[t] = {} /\ b \notin missed[t] /\ view[t][b] = db[b] /\ db'[b] = row
      /\ \A r \in Row \ {b} : db'[r] = db[r]
  BY <1>1, OpenCommit
<1>3. \A l \in Line : db'[l] = db[l]
  BY <1>2
<1>4. RowTypeOK(db')
  BY <1>2 DEF IInv, TypeOK, RowTypeOK, BatchEffect
<1>5. LinesOf(view[t], b) = LinesOf(db, b)
  BY <1>2 DEF IInv, LinesKnown, LineIn, LinesOf
<1>6. \A c \in Batch : LinesOf(db', c) = LinesOf(db, c)
  BY <1>3 DEF LinesOf
<1>7. row # Absent
  BY DEF BatchEffect
<1>8. Books'
  <2>1. LinesHaveBatches'
    BY <1>2, <1>3, <1>7 DEF IInv, Books, LinesHaveBatches
  <2>2. ASSUME NEW c \in Batch, db'[c] # Absent
        PROVE  /\ IF db'[c].state = "posted"
                  THEN LinesOf(db', c) # {} /\ \A l \in LinesOf(db', c) : db'[l].paid
                  ELSE \A l \in LinesOf(db', c) : ~db'[l].paid
               /\ db'[c].state \in {"pending", "approved"} => LinesOf(db', c) # {}
    <3>1. CASE c # b
      BY <1>2, <1>3, <1>6, <2>2, <3>1 DEF IInv, Books, PaidWhenPosted, SubmittedHasLines, LinesOf
    <3>2. CASE c = b /\ db[b] = Absent
      <4>1. LinesOf(db, b) = {}
        BY <3>2 DEF IInv, Books, LinesHaveBatches, LinesOf
      <4>2. row.state = "draft"
        BY <1>2, <3>2 DEF BatchEffect
      <4>3. QED
        BY <1>2, <1>6, <3>2, <4>1, <4>2
    <3>3. CASE c = b /\ db[b] # Absent
      <4>1. /\ db[b].state # "posted" /\ row.state \in {"pending", "approved", "cancelled"}
            /\ row.state \in {"pending", "approved"} => db[b].state = "pending" \/ LinesOf(db, b) # {}
        BY <1>2, <1>5, <3>3 DEF BatchEffect
      <4>2. \A l \in LinesOf(db, b) : l \in Line /\ ~db[l].paid
        BY <3>3, <4>1 DEF IInv, Books, PaidWhenPosted, LinesOf
      <4>3. db[b].state = "pending" => LinesOf(db, b) # {}
        BY <3>3 DEF IInv, Books, SubmittedHasLines
      <4>4. QED
        BY <1>2, <1>3, <1>6, <3>3, <4>1, <4>2, <4>3
    <3>4. QED
      BY <3>1, <3>2, <3>3
  <2>3. PaidWhenPosted' /\ SubmittedHasLines'
    BY <2>2 DEF PaidWhenPosted, SubmittedHasLines
  <2>4. QED
    BY <2>1, <2>3 DEF Books
<1>9. LinesWithBatches(wrote[t] \cup DOMAIN One(b, row))
  BY <1>3 DEF LinesWithBatches
<1>10. LinesFrozen
  BY <1>3, FrozenIf DEF IInv, LineIn
<1>11. OverBounded
  BY <1>2, BoundedIf DEF IInv
<1>12. QED
  BY <1>1, <1>2, <1>4, <1>8, <1>9, <1>10, <1>11, CommitOthers

(* An edit of a line: only lines of drafts change.                         *)
LEMMA LineFacts ==
  ASSUME IInv, NEW t \in Txn, NEW l \in Line, NEW row, NEW drafts \in SUBSET Batch,
         Open(t), LineEffect(t, l, row, drafts)
  PROVE  /\ t \in active /\ wrote[t] = {} /\ db'[l] = row /\ \A r \in Row \ {l} : db'[r] = db[r]
         /\ row \in LineRow \cup {Absent}
         /\ db[l] # Absent => db[l].batch \in drafts
         /\ row # Absent => row.batch \in drafts /\ (row.paid <=> db[l] # Absent /\ db[l].paid)
         /\ \A b \in drafts : b \in Batch /\ db[b] # Absent /\ db[b].state = "draft"
<1> USE RowAssumption, AbsentAssumption
<1> DEFINE new == [r \in drafts \cup {l} |-> IF r = l THEN row ELSE view[t][r]]
<1>1. /\ DOMAIN new = drafts \cup {l} /\ new[l] = row /\ DOMAIN new \subseteq Row
      /\ \A b \in drafts : new[b] = view[t][b]
      /\ CommitWith(t, new)
  BY DEF LineEffect
<1> HIDE DEF new
<1>2. /\ t \in active /\ wrote[t] = {} /\ view[t][l] = db[l] /\ db'[l] = row
      /\ \A b \in drafts : view[t][b] = db[b]
      /\ \A r \in Row \ {l} : db'[r] = db[r]
  BY <1>1, OpenCommit
<1>3. /\ row \in LineRow \cup {Absent}
      /\ db[l] # Absent => db[l].batch \in drafts
      /\ row # Absent => row.batch \in drafts /\ (row.paid <=> db[l] # Absent /\ db[l].paid)
  BY <1>2 DEF LineEffect
<1>4. \A b \in drafts : b \in Batch /\ db[b] # Absent /\ db[b].state = "draft"
  BY <1>2 DEF LineEffect, IInv, Books, LinesHaveBatches
<1>5. QED
  BY <1>2, <1>3, <1>4

LEMMA LineKeeps ==
  ASSUME IInv, NEW t \in Txn, NEW l \in Line, NEW row, NEW drafts \in SUBSET Batch,
         Open(t), LineEffect(t, l, row, drafts), Finish(t)
  PROVE  IInv' /\ LinesFrozen /\ OverBounded
<1> USE RowAssumption, AbsentAssumption
<1> DEFINE new == [r \in drafts \cup {l} |-> IF r = l THEN row ELSE view[t][r]]
<1>1. /\ DOMAIN new = drafts \cup {l} /\ new[l] = row /\ DOMAIN new \subseteq Row
      /\ \A b \in drafts : new[b] = view[t][b]
      /\ CommitWith(t, new)
  BY DEF LineEffect
<1> HIDE DEF new
<1>2. /\ t \in active /\ wrote[t] = {} /\ db'[l] = row
      /\ \A r \in Row \ {l} : db'[r] = db[r]
  BY LineFacts
<1>3. /\ row \in LineRow \cup {Absent}
      /\ db[l] # Absent => db[l].batch \in drafts
      /\ row # Absent => row.batch \in drafts /\ (row.paid <=> db[l] # Absent /\ db[l].paid)
  BY LineFacts
<1>4. \A b \in drafts : b \in Batch /\ db[b] # Absent /\ db[b].state = "draft"
  BY LineFacts
<1>5. \A k \in Line \ {l} : db'[k] = db[k]
  BY <1>2
<1>6. \A b \in Batch : db'[b] = db[b]
  BY <1>2
<1>7. RowTypeOK(db')
  BY <1>2, <1>3 DEF IInv, TypeOK, RowTypeOK
<1>8. ASSUME NEW k \in Line, NEW b \in Batch \ drafts, LineIn(db, k, b) \/ LineIn(db', k, b)
      PROVE  db'[k] = db[k]
  BY <1>2, <1>3, <1>5, <1>8 DEF LineIn
<1>9. \A b \in Batch \ drafts : LinesOf(db', b) = LinesOf(db, b)
  BY <1>8 DEF LineIn, LinesOf
<1>10. \A b \in drafts : \A k \in LinesOf(db', b) : ~db'[k].paid
  <2>1. \A b \in drafts : \A k \in LinesOf(db, b) : ~db[k].paid
    BY <1>4 DEF IInv, Books, PaidWhenPosted
  <2>2. db[l] # Absent => ~db[l].paid
    BY <1>3, <2>1 DEF LinesOf
  <2>3. QED
    BY <1>2, <1>3, <1>5, <2>1, <2>2 DEF LinesOf
<1>11. Books'
  <2>1. LinesHaveBatches'
    BY <1>2, <1>3, <1>4, <1>5, <1>6 DEF IInv, Books, LinesHaveBatches
  <2>2. ASSUME NEW b \in Batch, db'[b] # Absent
        PROVE  /\ IF db'[b].state = "posted"
                  THEN LinesOf(db', b) # {} /\ \A k \in LinesOf(db', b) : db'[k].paid
                  ELSE \A k \in LinesOf(db', b) : ~db'[k].paid
               /\ db'[b].state \in {"pending", "approved"} => LinesOf(db', b) # {}
    <3>1. CASE b \in drafts
      BY <1>4, <1>6, <1>10, <3>1
    <3>2. CASE b \notin drafts
      <4>1. \A k \in LinesOf(db, b) : db'[k] = db[k]
        BY <1>8, <3>2 DEF LineIn, LinesOf
      <4>2. QED
        BY <1>6, <1>9, <2>2, <3>2, <4>1 DEF IInv, Books, PaidWhenPosted, SubmittedHasLines
    <3>3. QED
      BY <3>1, <3>2
  <2>3. PaidWhenPosted' /\ SubmittedHasLines'
    BY <2>2 DEF PaidWhenPosted, SubmittedHasLines
  <2>4. QED
    BY <2>1, <2>3 DEF Books
<1>12. LinesWithBatches(wrote[t] \cup DOMAIN new)
  BY <1>1, <1>8 DEF LinesWithBatches
<1>13. LinesFrozen
  BY <1>4, <1>6, <1>8, FrozenIf DEF IInv, LineIn
<1>14. OverBounded
  BY <1>2, BoundedIf DEF IInv
<1>15. QED
  BY <1>1, <1>2, <1>7, <1>11, <1>12, <1>13, <1>14, CommitOthers

(* A payment outside any batch, or a change of the policy.                 *)
LEMMA OtherKeeps ==
  ASSUME IInv, NEW t \in Txn, NEW q \in Document \cup {Company}, NEW row,
         Open(t), OtherEffect(t, q, row), Finish(t)
  PROVE  IInv' /\ LinesFrozen /\ OverBounded
<1> USE RowAssumption, AbsentAssumption
<1>1. DOMAIN One(q, row) = {q} /\ One(q, row)[q] = row /\ CommitWith(t, One(q, row))
  BY DEF One, OtherEffect
<1>2. /\ t \in active /\ wrote[t] = {} /\ db'[q] = row
      /\ \A r \in Row \ {q} : db'[r] = db[r]
  BY <1>1, OpenCommit
<1>3. \A r \in Batch \cup Line : db'[r] = db[r]
  BY <1>2
<1>4. RowTypeOK(db')
  BY <1>2 DEF IInv, TypeOK, RowTypeOK, OtherEffect
<1>5. Books'
  BY <1>3 DEF IInv, Books, LinesHaveBatches, PaidWhenPosted, SubmittedHasLines, LinesOf
<1>6. LinesWithBatches(wrote[t] \cup DOMAIN One(q, row))
  BY <1>3 DEF LinesWithBatches
<1>7. LinesFrozen
  BY <1>3, FrozenIf DEF IInv, LineIn
<1>8. view[t][q] = db[q] /\ phase[t] = "open" /\ t \in active \ active'
  <2>1. active' = active \ {t}
    BY <1>1 DEF CommitWith, EndTxn
  <2>2. QED
    BY <1>1, <1>2, <2>1, OpenCommit DEF Open
<1>9. OverBounded
  <2> SUFFICES ASSUME NEW d \in Document, db'[d].over > db[d].over
               PROVE  PaidInExcess(d)
    BY <1>8 DEF OverBounded
  <2>1. db[d].over \in Nat
    BY DEF IInv, TypeOK, RowTypeOK, DocumentRow
  <2>2. d = q
    BY <1>2, <2>1
  <2>3. QED
    BY <1>2, <1>8, <2>2 DEF OtherEffect, PaidInExcess
<1>10. QED
  BY <1>1, <1>2, <1>4, <1>5, <1>6, <1>7, <1>9, CommitOthers

(* A batch is deleted with the lines the request knows of, which are all.  *)
LEMMA UnlinkKeeps ==
  ASSUME IInv, NEW t \in Txn, NEW b \in Batch, UnlinkBatch(t, b)
  PROVE  IInv' /\ LinesFrozen /\ OverBounded
<1> USE RowAssumption, AbsentAssumption
<1> DEFINE new == [r \in {b} \cup LinesOf(view[t], b) |-> Absent]
<1>1. /\ DOMAIN new = {b} \cup LinesOf(view[t], b) /\ DOMAIN new \subseteq Row
      /\ \A r \in DOMAIN new : new[r] = Absent
      /\ Open(t) /\ CommitWith(t, new) /\ Finish(t)
  BY DEF UnlinkBatch, Serve, LinesOf
<1> HIDE DEF new
<1>2. /\ t \in active /\ wrote[t] = {} /\ b \notin missed[t]
      /\ \A r \in DOMAIN new : db'[r] = Absent
      /\ \A r \in Row \ DOMAIN new : db'[r] = db[r]
  BY <1>1, OpenCommit
<1>3. LinesOf(view[t], b) = LinesOf(db, b)
  BY <1>2 DEF IInv, LinesKnown, LineIn, LinesOf
<1>4. /\ \A l \in LinesOf(db, b) : db'[l] = Absent
      /\ \A l \in Line \ LinesOf(db, b) : db'[l] = db[l]
      /\ db'[b] = Absent /\ \A c \in Batch \ {b} : db'[c] = db[c]
      /\ \A r \in Document \cup {Company} : db'[r] = db[r]
  BY <1>1, <1>2, <1>3 DEF LinesOf
<1>5. RowTypeOK(db')
  <2>1. \A l \in Line : db'[l] \in LineRow \cup {Absent}
    BY <1>4 DEF IInv, TypeOK, RowTypeOK
  <2>2. QED
    BY <1>4, <2>1 DEF IInv, TypeOK, RowTypeOK
<1>6. ASSUME NEW c \in Batch \ {b}, NEW l \in Line, LineIn(db, l, c) \/ LineIn(db', l, c)
      PROVE  db'[l] = db[l]
  BY <1>4, <1>6 DEF LineIn, LinesOf
<1>7. \A c \in Batch \ {b} : LinesOf(db', c) = LinesOf(db, c)
  BY <1>6 DEF LineIn, LinesOf
<1>8. Books'
  <2>1. LinesHaveBatches'
    BY <1>4 DEF IInv, Books, LinesHaveBatches, LinesOf
  <2>2. ASSUME NEW c \in Batch, db'[c] # Absent
        PROVE  /\ IF db'[c].state = "posted"
                  THEN LinesOf(db', c) # {} /\ \A k \in LinesOf(db', c) : db'[k].paid
                  ELSE \A k \in LinesOf(db', c) : ~db'[k].paid
               /\ db'[c].state \in {"pending", "approved"} => LinesOf(db', c) # {}
    <3>1. c # b /\ db'[c] = db[c]
      BY <1>4, <2>2
    <3>2. \A k \in LinesOf(db, c) : db'[k] = db[k]
      BY <1>6, <3>1 DEF LineIn, LinesOf
    <3>3. QED
      BY <1>7, <2>2, <3>1, <3>2 DEF IInv, Books, PaidWhenPosted, SubmittedHasLines
  <2>3. PaidWhenPosted' /\ SubmittedHasLines'
    BY <2>2 DEF PaidWhenPosted, SubmittedHasLines
  <2>4. QED
    BY <2>1, <2>3 DEF Books
<1>9. LinesWithBatches(wrote[t] \cup DOMAIN new)
  BY <1>1, <1>6 DEF LinesWithBatches
<1>10. LinesFrozen
  BY <1>4, <1>6, FrozenIf DEF IInv, LineIn
<1>11. OverBounded
  BY <1>4, BoundedIf DEF IInv
<1>12. QED
  BY <1>1, <1>2, <1>5, <1>8, <1>9, <1>10, <1>11, CommitOthers

(* Posting starts: the batch is held and every line has room.              *)
LEMMA StartKeeps ==
  ASSUME IInv, NEW t \in Txn, NEW b \in Batch, StartPost(t, b)
  PROVE  IInv'
<1> USE RowAssumption, AbsentAssumption
<1> DEFINE row == [view[t][b] EXCEPT !.state = "approved"]
<1>1. /\ Open(t) /\ view[t][b] # Absent /\ view[t][b].state \in {"draft", "approved"}
      /\ \A l \in LinesOf(view[t], b) : ~view[t][l].paid
      /\ view[t][b].state = "draft" => SubmittedState(t, b) = "approved"
      /\ CheckLines(t, b) /\ EnterLoop(t, b)
  BY DEF StartPost, MayPost, Exists, State
<1>2. /\ CanWrite(t, b) /\ view' = [view EXCEPT ![t][b] = row]
      /\ wrote' = [wrote EXCEPT ![t] = @ \cup {b}]
      /\ phase' = [phase EXCEPT ![t] = "posting"] /\ target' = [target EXCEPT ![t] = b]
      /\ todo' = [todo EXCEPT ![t] = LinesOf(view[t], b)]
      /\ UNCHANGED <<db, active, shared, missed>>
  BY <1>1 DEF EnterLoop, Put
<1>3. t \in active /\ wrote[t] = {} /\ b \in Row /\ b \notin missed[t] /\ view[t][b] = db[b]
  BY <1>1, <1>2 DEF Open, IInv, LockDiscipline, TypeOK, Requests, SnapshotInv, ViewsCurrent,
     CanWrite
<1>4. /\ view[t][b] \in BatchRow /\ row \in BatchRow
  BY <1>1, <1>3 DEF IInv, TypeOK, RowTypeOK, BatchRow
<1> HIDE DEF row
<1>5. /\ DOMAIN view' = Txn /\ DOMAIN view'[t] = Row /\ view'[t][b] = row
      /\ \A r \in Row \ {b} : view'[t][r] = view[t][r]
      /\ \A u \in Txn \ {t} : view'[u] = view[u]
  BY <1>2, <1>3 DEF IInv, LockDiscipline
<1>6. /\ phase' \in [Txn -> {"idle", "open", "posting"}] /\ phase'[t] = "posting"
      /\ DOMAIN target' = Txn /\ target'[t] = b
      /\ DOMAIN todo' = Txn /\ todo'[t] = LinesOf(view[t], b)
      /\ \A u \in Txn \ {t} : phase'[u] = phase[u] /\ target'[u] = target[u] /\ todo'[u] = todo[u]
      /\ wrote'[t] = {b}
  BY <1>2, <1>3 DEF IInv, Requests, TypeOK, LockDiscipline
<1>7. RowTypeOK(view'[t])
  BY <1>3, <1>4, <1>5 DEF IInv, TypeOK, RowTypeOK
<1>8. \A l \in Line : view'[t][l] = view[t][l]
  BY <1>5
<1>9. LinesOf(view[t], b) # {}
  <2>1. CASE view[t][b].state = "draft"
    BY <1>1, <2>1 DEF SubmittedState
  <2>2. CASE view[t][b].state = "approved"
    <3>1. LinesOf(db, b) # {}
      BY <1>1, <1>3, <2>2 DEF IInv, Books, SubmittedHasLines
    <3>2. LinesOf(view[t], b) = LinesOf(db, b)
      BY <1>3 DEF IInv, LinesKnown, LineIn, LinesOf
    <3>3. QED
      BY <3>1, <3>2
  <2>3. QED
    BY <1>1, <2>1, <2>2
<1>10. LinesOf(view'[t], b) = LinesOf(view[t], b)
  BY <1>8 DEF LinesOf
<1>11. PostingLines(t)'
  <2>1. /\ wrote'[t] \cap Line = {} /\ row # Absent /\ db' = db
        /\ row = [db[b] EXCEPT !.state = "approved"]
    BY <1>2, <1>3, <1>4, <1>6 DEF row
  <2>2. \A l \in LinesOf(view'[t], b) : l \in Line /\ ~view'[t][l].paid /\ view'[t][l].amount > 0
    BY <1>1, <1>8, <1>10 DEF LinesOf, CheckLines
  <2>3. QED
    BY <1>1, <1>3, <1>5, <1>6, <1>9, <1>10, <2>1, <2>2 DEF PostingLines
<1>12. PostingDocuments(t)'
  <2>1. ASSUME NEW d \in Document, NEW l \in Line, LineIn(view'[t], l, b), view'[t][l].document = d
        PROVE  view'[t][l].amount <= view'[t][d].residual
    <3>1. l \in LinesOf(view[t], b) /\ view[t][l].document = d /\ d # Advance
      BY <1>8, <2>1, AdvanceAssumption DEF LineIn, LinesOf
    <3>2. view[t][l].amount <= view[t][d].residual
      BY <1>1, <3>1 DEF CheckLines
    <3>3. QED
      BY <1>5, <1>8, <3>2
  <2>2. \A d \in Document : d \notin wrote'[t]
    BY <1>6
  <2>3. QED
    BY <1>6, <2>1, <2>2 DEF PostingDocuments
<1>13. QED
  <2>1. {b} \in SUBSET Row /\ \A r \in {b} : CanWrite(t, r)
    BY <1>2
  <2>2. UNCHANGED <<db, active, shared, missed>>
    BY <1>2
  <2>3. wrote' = [wrote EXCEPT ![t] = @ \cup {b}]
    BY <1>2
  <2>4. QED
    BY <1>3, <1>5, <1>6, <1>7, <1>11, <1>12, <2>1, <2>2, <2>3, WriteOthers

(* A line is paid: it was not, and neither was any line of its document    *)
(* when the document no longer held what the line asks for.                *)
LEMMA PostKeeps ==
  ASSUME IInv, NEW t \in Txn, NEW l \in Line, PostLine(t, l)
  PROVE  IInv'
<1> USE RowAssumption, AbsentAssumption
<1> DEFINE b == target[t]
           docs == {view[t][l].document} \cap Document
           paid == [view[t][l] EXCEPT !.paid = TRUE]
           new == [r \in {l} \cup docs |-> IF r = l THEN paid
                                           ELSE Settle(view[t][r], view[t][l].amount)]
<1>1. /\ l \in todo[t] /\ PutAll(t, new)
      /\ todo' = [todo EXCEPT ![t] = @ \ {l}]
      /\ UNCHANGED <<db, active, shared, missed, phase, target>>
  BY DEF PostLine
<1>2. phase[t] = "posting" /\ t \in active
  BY <1>1 DEF IInv, TypeOK
<1>3. PostingLines(t) /\ PostingDocuments(t) /\ LinesKnown(t)
  BY <1>2 DEF IInv, Posting
<1>4. LineIn(view[t], l, b) /\ view[t][l] \in LineRow /\ ~view[t][l].paid /\ l \in LinesOf(view[t], b)
  BY <1>1, <1>2, <1>3 DEF PostingLines, LineIn, LinesOf, IInv, TypeOK, RowTypeOK
<1>5. paid \in LineRow /\ paid.batch = b /\ paid.paid /\ paid.document = view[t][l].document
      /\ paid.amount = view[t][l].amount /\ SameLine(view[t][l], paid) /\ paid # Absent
  BY <1>4 DEF LineRow, LineIn, SameLine
<1>6. \A d \in docs : /\ d \in Document /\ d # l /\ view[t][l].document = d
                      /\ view[t][d] \in DocumentRow /\ view[t][l].amount \in Nat
  BY <1>2, <1>4, AmountAssumption DEF IInv, TypeOK, RowTypeOK, LineRow
<1>7. DOMAIN new = {l} \cup docs /\ new[l] = paid
      /\ \A d \in docs : new[d] = Settle(view[t][d], view[t][l].amount)
  BY <1>6
<1>8. docs \subseteq Document /\ \A d \in Document : d \in docs <=> view[t][l].document = d
  OBVIOUS
<1> HIDE DEF new, paid, docs
<1>9. {l} \cup docs \in SUBSET Row /\ \A r \in {l} \cup docs : CanWrite(t, r)
  BY <1>1, <1>7, <1>8 DEF PutAll
<1>10. /\ DOMAIN view' = Txn /\ DOMAIN view'[t] = Row
       /\ \A r \in Row \ ({l} \cup docs) : view'[t][r] = view[t][r]
       /\ \A u \in Txn \ {t} : view'[u] = view[u]
       /\ view'[t][l] = paid
       /\ \A d \in docs : view'[t][d] = Settle(view[t][d], view[t][l].amount)
  BY <1>1, <1>7, <1>9 DEF PutAll, IInv, LockDiscipline
<1>11. wrote' = [wrote EXCEPT ![t] = @ \cup ({l} \cup docs)]
       /\ wrote'[t] = wrote[t] \cup {l} \cup docs
  BY <1>1, <1>7 DEF PutAll, IInv, LockDiscipline
<1>12. /\ DOMAIN todo' = Txn /\ todo'[t] = todo[t] \ {l}
       /\ \A u \in Txn \ {t} : todo'[u] = todo[u]
       /\ phase' = phase /\ target' = target /\ phase \in [Txn -> {"idle", "open", "posting"}]
       /\ DOMAIN target = Txn
  BY <1>1 DEF IInv, Requests, TypeOK
<1>13. \A k \in Line \ {l} : view'[t][k] = view[t][k]
  BY <1>8, <1>10
<1>14. \A c \in Batch : view'[t][c] = view[t][c]
  BY <1>8, <1>10
<1>15. RowTypeOK(view'[t])
  <2>1. RowTypeOK(view[t])
    BY <1>2 DEF IInv, TypeOK
  <2>2. \A k \in Line : view'[t][k] \in LineRow \cup {Absent}
    BY <1>5, <1>10, <1>13, <2>1 DEF RowTypeOK
  <2>3. \A d \in Document : view'[t][d] \in DocumentRow
    BY <1>6, <1>8, <1>10, <2>1, SettleFits DEF RowTypeOK
  <2>4. view'[t][Company] = view[t][Company]
    BY <1>8, <1>10
  <2>5. QED
    BY <1>14, <2>1, <2>2, <2>3, <2>4 DEF RowTypeOK
<1>16. \A k \in Line : LineIn(view'[t], k, b) <=> LineIn(view[t], k, b)
  BY <1>4, <1>5, <1>10, <1>13 DEF LineIn
<1>17. LinesOf(view'[t], b) = LinesOf(view[t], b)
  BY <1>16 DEF LineIn, LinesOf
<1>18. PostingLines(t)'
  <2>1. b \in Batch /\ b \in wrote[t] /\ wrote'[t] \subseteq {b} \cup Line \cup Document
    BY <1>3, <1>8, <1>11 DEF PostingLines
  <2>2. /\ view'[t][b] # Absent /\ db'[b] # Absent /\ db'[b].state \in {"draft", "approved"}
        /\ view'[t][b] = [db'[b] EXCEPT !.state = "approved"]
        /\ LinesOf(view'[t], b) # {} /\ todo'[t] \subseteq LinesOf(view'[t], b)
    BY <1>1, <1>3, <1>12, <1>14, <1>17, <2>1 DEF PostingLines
  <2>3. \A k \in LinesOf(view'[t], b) :
          (view'[t][k].paid <=> k \notin todo'[t]) /\ view'[t][k].amount > 0
    <3>1. \A k \in LinesOf(view[t], b) :
            k \in Line /\ (view[t][k].paid <=> k \notin todo[t]) /\ view[t][k].amount > 0
      BY <1>3 DEF PostingLines, LinesOf
    <3>2. QED
      BY <1>5, <1>10, <1>12, <1>13, <1>17, <3>1
  <2>4. ASSUME NEW k \in wrote'[t] \cap Line
        PROVE  LineIn(view'[t], k, b) /\ LineIn(db, k, b) /\ SameLine(db[k], view'[t][k])
    <3>1. CASE k \in wrote[t]
      <4>1. LineIn(view[t], k, b) /\ LineIn(db, k, b) /\ SameLine(db[k], view[t][k])
        BY <1>3, <3>1 DEF PostingLines
      <4>2. CASE k # l
        BY <1>13, <1>16, <4>1, <4>2
      <4>3. CASE k = l
        <5>1. db[l] \in LineRow
          BY <4>1, <4>3 DEF LineIn, IInv, TypeOK, RowTypeOK
        <5>2. SameLine(db[l], paid)
          BY <1>4, <1>5, <4>1, <4>3, <5>1 DEF SameLine, LineRow, paid
        <5>3. QED
          BY <1>10, <1>16, <4>1, <4>3, <5>2
      <4>4. QED
        BY <4>2, <4>3
    <3>2. CASE k \notin wrote[t]
      <4>1. k = l
        BY <1>8, <1>11, <3>2
      <4>2. b \notin missed[t] /\ b \in Batch
        BY <1>3, <2>1 DEF IInv, LockDiscipline, SnapshotInv, LockedRowsCurrent
      <4>3. view[t][l] = db[l]
        BY <1>3, <1>4, <3>2, <4>1, <4>2 DEF LinesKnown
      <4>4. QED
        BY <1>4, <1>5, <1>10, <1>16, <4>1, <4>3 DEF LineIn
    <3>3. QED
      BY <3>1, <3>2
  <2>5. db' = db /\ target'[t] = b
    BY <1>1, <1>12
  <2>6. b \in wrote'[t]
    BY <1>11, <2>1
  <2>7. QED
    BY <2>1, <2>2, <2>3, <2>4, <2>5, <2>6 DEF PostingLines
<1>19. \A k \in Line, d \in Document : PaidOn(t, k, d) => PaidOn(t, k, d)' /\ k # l
  BY <1>1, <1>4, <1>12, <1>13, <1>16 DEF PaidOn
<1>20. \A d \in docs : PaidOn(t, l, d)'
  BY <1>4, <1>5, <1>6, <1>10, <1>12, <1>16 DEF PaidOn
<1>21. PostingDocuments(t)'
  <2> SUFFICES ASSUME NEW d \in Document
               PROVE  /\ \/ \E k \in Line : PaidOn(t, k, d)'
                         \/ \A k \in Line : LineIn(view'[t], k, b) /\ view'[t][k].document = d
                                              => view'[t][k].amount <= view'[t][d].residual
                      /\ d \in wrote'[t] /\ view'[t][d].over > db[d].over =>
                           \E j, k \in Line : j # k /\ PaidOn(t, j, d)' /\ PaidOn(t, k, d)'
    BY <1>1, <1>12 DEF PostingDocuments, PaidOn
  <2>1. CASE d \notin docs
    <3>1. view'[t][d] = view[t][d] /\ (d \in wrote'[t] <=> d \in wrote[t])
      BY <1>8, <1>10, <1>11, <2>1
    <3>2. \A k \in Line : LineIn(view'[t], k, b) /\ view'[t][k].document = d =>
             LineIn(view[t], k, b) /\ view[t][k].document = d /\ view'[t][k].amount = view[t][k].amount
      BY <1>5, <1>8, <1>10, <1>13, <1>16, <2>1
    <3>3. QED
      BY <1>3, <1>19, <3>1, <3>2 DEF PostingDocuments
  <2>2. CASE d \in docs
    <3>1. view'[t][d] = Settle(view[t][d], view[t][l].amount) /\ view[t][l].document = d
          /\ view[t][d] \in DocumentRow /\ view[t][l].amount \in Nat
      BY <1>6, <1>10, <2>2
    <3>2. CASE view'[t][d].over > view[t][d].over
      <4>1. view[t][d].residual < view[t][l].amount
        BY <3>1, <3>2, SettleFits
      <4>2. ~(view[t][l].amount <= view[t][d].residual)
        BY <3>1, <4>1 DEF DocumentRow
      <4>3. PICK k \in Line : PaidOn(t, k, d)
        BY <1>3, <1>4, <3>1, <4>2 DEF PostingDocuments
      <4>4. QED
        BY <1>19, <1>20, <2>2, <4>3
    <3>3. CASE ~(view'[t][d].over > view[t][d].over)
      <4>1. view'[t][d].over > db[d].over => view[t][d].over > db[d].over
        <5>1. view'[t][d] \in DocumentRow /\ db[d] \in DocumentRow
          BY <1>15 DEF RowTypeOK, IInv, TypeOK
        <5>2. view'[t][d].over \in Nat /\ view[t][d].over \in Nat /\ db[d].over \in Nat
          BY <3>1, <5>1 DEF DocumentRow
        <5>3. QED
          BY <3>3, <5>2
      <4>2. view'[t][d].over > db[d].over => d \in wrote[t]
        <5>1. SUFFICES ASSUME d \notin wrote[t], view[t][d].over > db[d].over PROVE FALSE
          BY <4>1
        <5>2. d \notin missed[t]
          BY <1>9, <2>2 DEF CanWrite
        <5>3. view[t][d] = db[d]
          BY <1>2, <5>1, <5>2 DEF IInv, LockDiscipline, SnapshotInv, ViewsCurrent
        <5>4. db[d].over \in Nat
          BY DEF IInv, TypeOK, RowTypeOK, DocumentRow
        <5>5. QED
          BY <5>1, <5>3, <5>4
      <4>3. QED
        BY <1>3, <1>19, <1>20, <2>2, <4>1, <4>2 DEF PostingDocuments
    <3>4. QED
      BY <3>2, <3>3
  <2>3. QED
    BY <2>1, <2>2
<1>22. UNCHANGED <<db, active, shared, missed>>
  BY <1>1
<1>23. phase'[t] = "posting" /\ phase' \in [Txn -> {"idle", "open", "posting"}] /\ DOMAIN target' = Txn
       /\ \A u \in Txn \ {t} : /\ view'[u] = view[u] /\ phase'[u] = phase[u]
                               /\ target'[u] = target[u] /\ todo'[u] = todo[u]
  BY <1>2, <1>10, <1>12
<1>24. QED
  BY <1>2, <1>9, <1>10, <1>11, <1>12, <1>15, <1>18, <1>21, <1>22, <1>23, WriteOthers

(* What posting commits: the batch, the lines as the request sees them and *)
(* the balances it wrote; every line of the batch is paid.                 *)
LEMMA FinishFacts ==
  ASSUME IInv, NEW t \in Txn, FinishPost(t)
  PROVE  /\ t \in active /\ PostingLines(t) /\ PostingDocuments(t)
         /\ \E row \in BatchRow : row.state = "posted" /\ db'[target[t]] = row
                                  /\ row = [db[target[t]] EXCEPT !.state = "posted"]
                                  /\ CommitWith(t, One(target[t], row)) /\ Finish(t)
         /\ \A c \in Batch \ {target[t]} : db'[c] = db[c]
         /\ \A l \in Line : LineIn(db, l, target[t]) \/ LineIn(db', l, target[t])
                            \/ LineIn(view[t], l, target[t]) =>
              /\ LineIn(db, l, target[t]) /\ LineIn(view[t], l, target[t])
              /\ db'[l] = view[t][l] /\ SameLine(db[l], db'[l]) /\ db'[l].paid
              /\ db[l].amount > 0
         /\ \A l \in Line : ~LineIn(db, l, target[t]) => db'[l] = db[l]
         /\ \A d \in Document : db'[d] = IF d \in wrote[t] THEN view[t][d] ELSE db[d]
         /\ db'[Company] = db[Company]
<1> USE RowAssumption, AbsentAssumption
<1> DEFINE b == target[t]
           row == [view[t][b] EXCEPT !.state = "posted"]
<1>1. phase[t] = "posting" /\ todo[t] = {} /\ CommitWith(t, One(b, row)) /\ Finish(t)
  BY DEF FinishPost, Serve
<1>2. t \in active
  BY <1>1 DEF IInv, TypeOK
<1>3. PostingLines(t) /\ PostingDocuments(t) /\ LinesKnown(t)
  BY <1>1, <1>2 DEF IInv, Posting
<1>4. b \in Batch /\ b \in wrote[t] /\ b \notin missed[t] /\ view[t][b] \in BatchRow
  BY <1>2, <1>3 DEF PostingLines, IInv, LockDiscipline, SnapshotInv, LockedRowsCurrent, TypeOK,
     RowTypeOK
<1>5. row \in BatchRow /\ row.state = "posted" /\ row = [db[b] EXCEPT !.state = "posted"]
  <2>1. db[b] \in BatchRow /\ view[t][b] = [db[b] EXCEPT !.state = "approved"]
    BY <1>3, <1>4 DEF PostingLines, IInv, TypeOK, RowTypeOK
  <2>2. QED
    BY <1>4, <2>1 DEF BatchRow
<1> HIDE DEF row
<1>6. DOMAIN One(b, row) = {b} /\ One(b, row)[b] = row
  BY DEF One
<1>7. /\ db'[b] = row
      /\ \A r \in wrote[t] \ {b} : db'[r] = view[t][r]
      /\ \A r \in Row \ (wrote[t] \cup {b}) : db'[r] = db[r]
  BY <1>1, <1>2, <1>4, <1>6, CommitOfAll DEF IInv
<1>8. wrote[t] \subseteq {b} \cup Line \cup Document
  BY <1>3 DEF PostingLines
<1>9. ASSUME NEW l \in wrote[t] \cap Line
      PROVE  LineIn(view[t], l, b) /\ LineIn(db, l, b) /\ SameLine(db[l], view[t][l]) /\ db'[l] = view[t][l]
  BY <1>3, <1>4, <1>7 DEF PostingLines
<1>10. \A l \in Line \ wrote[t] : db'[l] = db[l]
  BY <1>4, <1>7
<1>11. ASSUME NEW l \in Line, l \notin wrote[t], LineIn(db, l, b) \/ LineIn(view[t], l, b)
       PROVE  view[t][l] = db[l] /\ LineIn(db, l, b) /\ LineIn(view[t], l, b)
  BY <1>3, <1>4, <1>11 DEF LinesKnown, LineIn
<1>12. ASSUME NEW l \in Line, LineIn(db, l, b) \/ LineIn(db', l, b) \/ LineIn(view[t], l, b)
       PROVE  /\ LineIn(db, l, b) /\ LineIn(view[t], l, b)
              /\ db'[l] = view[t][l] /\ SameLine(db[l], db'[l]) /\ db'[l].paid
              /\ db[l].amount > 0
  <2>1. LineIn(db, l, b) /\ LineIn(view[t], l, b) /\ db'[l] = view[t][l]
    BY <1>9, <1>10, <1>11, <1>12 DEF LineIn
  <2>2. view[t][l].paid /\ view[t][l].amount > 0
    BY <1>1, <1>3, <2>1 DEF PostingLines, LineIn, LinesOf
  <2>3. SameLine(db[l], db'[l])
    <3>1. CASE l \in wrote[t]
      BY <1>9, <3>1
    <3>2. CASE l \notin wrote[t]
      <4>1. db'[l] = db[l] /\ db[l] \in LineRow
        BY <1>10, <2>1, <3>2 DEF LineIn, IInv, TypeOK, RowTypeOK
      <4>2. QED
        BY <4>1 DEF SameLine, LineRow
    <3>3. QED
      BY <3>1, <3>2
  <2>4. db[l].amount = view[t][l].amount
    <3>1. db[l] \in LineRow
      BY <2>1 DEF LineIn, IInv, TypeOK, RowTypeOK
    <3>2. QED
      BY <2>1, <2>3, <3>1 DEF SameLine, LineRow
  <2>5. QED
    BY <2>1, <2>2, <2>3, <2>4
<1>13. \A l \in Line : ~LineIn(db, l, b) => db'[l] = db[l]
  BY <1>9, <1>10
<1>14. \A c \in Batch \ {b} : db'[c] = db[c]
  BY <1>7, <1>8
<1>15. \A d \in Document : db'[d] = IF d \in wrote[t] THEN view[t][d] ELSE db[d]
  BY <1>4, <1>7
<1>16. db'[Company] = db[Company]
  BY <1>4, <1>7, <1>8
<1>17. QED
  BY <1>1, <1>2, <1>3, <1>5, <1>7, <1>12, <1>13, <1>14, <1>15, <1>16

LEMMA FinishKeeps ==
  ASSUME IInv, NEW t \in Txn, FinishPost(t)
  PROVE  IInv' /\ LinesFrozen /\ OverBounded
<1> USE RowAssumption, AbsentAssumption
<1> DEFINE b == target[t]
<1>1. t \in active /\ PostingLines(t) /\ b \in Batch
  BY FinishFacts DEF PostingLines
<1>2. PICK row \in BatchRow : row.state = "posted" /\ db'[b] = row
                              /\ CommitWith(t, One(b, row)) /\ Finish(t)
  BY FinishFacts
<1>3. /\ \A c \in Batch \ {b} : db'[c] = db[c]
      /\ \A l \in Line : LineIn(db, l, b) \/ LineIn(db', l, b) =>
           /\ LineIn(db, l, b) /\ LineIn(view[t], l, b)
           /\ db'[l] = view[t][l] /\ db'[l].paid
      /\ \A l \in Line : ~LineIn(db, l, b) => db'[l] = db[l]
      /\ \A d \in Document : db'[d] = IF d \in wrote[t] THEN view[t][d] ELSE db[d]
      /\ db'[Company] = db[Company]
  BY FinishFacts
<1>4. LinesOf(view[t], b) # {} /\ b \in wrote[t]
  BY <1>1 DEF PostingLines
<1>5. RowTypeOK(db) /\ RowTypeOK(view[t])
  BY <1>1 DEF IInv, TypeOK
<1> HIDE DEF b
<1>6. RowTypeOK(db')
  <2>1. \A l \in Line : db'[l] \in LineRow \cup {Absent}
    BY <1>3, <1>5 DEF RowTypeOK
  <2>2. \A d \in Document : db'[d] \in DocumentRow
    BY <1>3, <1>5 DEF RowTypeOK
  <2>3. QED
    BY <1>2, <1>3, <1>5, <2>1, <2>2 DEF RowTypeOK
<1>7. \A l \in Line : LineIn(view[t], l, b) => LineIn(db', l, b)
  <2>1. \A l \in Line : LineIn(view[t], l, b) => LineIn(db, l, b)
    BY FinishFacts DEF b
  <2>2. QED
    BY <1>3, <2>1 DEF LineIn
<1>8. LinesOf(db', b) # {} /\ \A l \in LinesOf(db', b) : db'[l].paid
  BY <1>3, <1>4, <1>7 DEF LineIn, LinesOf
<1>9. ASSUME NEW c \in Batch \ {b}, NEW l \in Line, LineIn(db, l, c) \/ LineIn(db', l, c)
      PROVE  db'[l] = db[l]
  BY <1>3, <1>9 DEF LineIn
<1>10. \A c \in Batch \ {b} : LinesOf(db', c) = LinesOf(db, c)
  BY <1>9 DEF LineIn, LinesOf
<1>11. Books'
  <2>1. LinesHaveBatches'
    <3> SUFFICES ASSUME NEW l \in Line, db'[l] # Absent
                 PROVE  db'[l].batch \in Batch /\ db'[db'[l].batch] # Absent
      BY DEF LinesHaveBatches
    <3>1. CASE LineIn(db, l, b)
      BY <1>1, <1>2, <1>3, <3>1 DEF LineIn
    <3>2. CASE ~LineIn(db, l, b)
      <4>1. db'[l] = db[l] /\ db[l].batch \in Batch /\ db[db[l].batch] # Absent
        BY <1>3, <3>2 DEF IInv, Books, LinesHaveBatches
      <4>2. QED
        BY <1>2, <1>3, <4>1
    <3>3. QED
      BY <3>1, <3>2
  <2>2. ASSUME NEW c \in Batch, db'[c] # Absent
        PROVE  /\ IF db'[c].state = "posted"
                  THEN LinesOf(db', c) # {} /\ \A k \in LinesOf(db', c) : db'[k].paid
                  ELSE \A k \in LinesOf(db', c) : ~db'[k].paid
               /\ db'[c].state \in {"pending", "approved"} => LinesOf(db', c) # {}
    <3>1. CASE c = b
      BY <1>2, <1>8, <3>1
    <3>2. CASE c # b
      <4>1. \A k \in LinesOf(db, c) : db'[k] = db[k]
        BY <1>9, <3>2 DEF LineIn, LinesOf
      <4>2. QED
        BY <1>3, <1>10, <2>2, <3>2, <4>1 DEF IInv, Books, PaidWhenPosted, SubmittedHasLines
    <3>3. QED
      BY <3>1, <3>2
  <2>3. PaidWhenPosted' /\ SubmittedHasLines'
    BY <2>2 DEF PaidWhenPosted, SubmittedHasLines
  <2>4. QED
    BY <2>1, <2>3 DEF Books
<1>12. DOMAIN One(b, row) = {b} /\ DOMAIN One(b, row) \subseteq Row
  BY <1>1 DEF One
<1>13. LinesWithBatches(wrote[t] \cup DOMAIN One(b, row))
  BY <1>4, <1>9 DEF LinesWithBatches
<1>14. LinesFrozen
  <2>1. \A l \in Line : LineIn(db, l, b) \/ LineIn(db', l, b) =>
          LineIn(db, l, b) /\ LineIn(db', l, b) /\ SameLine(db[l], db'[l])
    BY <1>3, <1>7, FinishFacts DEF b
  <2>2. QED
    BY <1>9, <2>1, FrozenIf DEF IInv, LineIn
<1>15. OverBounded
  <2> SUFFICES ASSUME NEW d \in Document, db'[d].over > db[d].over
               PROVE  PaidTwice(t, d)
    <3>1. t \in active \ active' /\ phase[t] = "posting"
      BY <1>1, <1>2 DEF FinishPost, CommitWith, EndTxn
    <3>2. QED
      BY <3>1 DEF OverBounded
  <2>1. d \in wrote[t] /\ view[t][d].over > db[d].over
    <3>1. db[d].over \in Nat
      BY <1>5 DEF RowTypeOK, DocumentRow
    <3>2. QED
      BY <1>3, <3>1
  <2>2. PICK k, l \in Line : k # l /\ PaidOn(t, k, d) /\ PaidOn(t, l, d)
    BY <2>1, FinishFacts DEF PostingDocuments
  <2>3. LineIn(view[t], k, b) /\ LineIn(view[t], l, b)
        /\ view[t][k].document = d /\ view[t][l].document = d
    BY <2>2 DEF PaidOn, b
  <2>4. \A m \in Line : LineIn(view[t], m, b) =>
          db'[m] = view[t][m] /\ db'[m] # Absent /\ db'[m].batch = b /\ db'[m].paid
    BY <1>3, <1>7 DEF LineIn
  <2>5. QED
    BY <2>2, <2>3, <2>4 DEF PaidTwice, b
<1>16. QED
  BY <1>1, <1>2, <1>6, <1>11, <1>12, <1>13, <1>14, <1>15, CommitOthers

-----------------------------------------------------------------------------
LEMMA InitIInv ==
  ASSUME Init
  PROVE  IInv
<1> USE RowAssumption, AbsentAssumption
<1>1. PICK threshold \in Threshold :
        DBInitWith([r \in Row |-> IF r \in Document THEN [residual |-> Total, over |-> 0]
                                  ELSE IF r = Company THEN threshold ELSE Absent])
  BY DEF Init
<1>2. /\ DOMAIN db = Row /\ active = {}
      /\ \A d \in Document : db[d] = [residual |-> Total, over |-> 0]
      /\ db[Company] = threshold /\ \A r \in Batch \cup Line : db[r] = Absent
      /\ view = [t \in Txn |-> EmptyView] /\ wrote = [t \in Txn |-> {}]
      /\ shared = [t \in Txn |-> {}] /\ missed = [t \in Txn |-> {}]
  BY <1>1 DEF DBInitWith
<1>3. LockDiscipline
  BY <1>2 DEF LockDiscipline, EmptyView, SnapshotInv, IdleClean, RowLocksExclusive,
              LockedRowsCurrent, ViewsCurrent
<1>4. TypeOK
  <2>1. RowTypeOK(db)
    BY <1>2, AmountAssumption DEF RowTypeOK, DocumentRow
  <2>2. QED
    BY <1>2, <2>1 DEF TypeOK, Init
<1>5. Requests /\ Books
  BY <1>2 DEF Init, Requests, Books, LinesHaveBatches, PaidWhenPosted, SubmittedHasLines
<1>6. QED
  BY <1>2, <1>3, <1>4, <1>5 DEF IInv

(* Every step keeps the inductive invariant, the lines of submitted batches*)
(* and the bound on what is paid beyond a balance.                         *)
LEMMA NextKeeps ==
  ASSUME IInv, [Next]_vars
  PROVE  IInv' /\ LinesFrozen /\ OverBounded
<1>1. CASE UNCHANGED vars
  <2>1. IInv'
    BY <1>1 DEF vars, dbVars, IInv, LockDiscipline, SnapshotInv, IdleClean, RowLocksExclusive,
                LockedRowsCurrent, ViewsCurrent, TypeOK, RowTypeOK, Requests, Books,
                LinesHaveBatches, PaidWhenPosted, SubmittedHasLines, LinesOf, LinesKnown, LineIn,
                Posting, PostingLines, PostingDocuments, PaidOn, SameLine
  <2>2. db' = db
    BY <1>1 DEF vars, dbVars
  <2>3. QED
    BY <2>1, <2>2, NothingCommitted DEF IInv
<1>2. CASE Next
  <2>1. PICK t \in Txn : Effect(t)
    BY <1>2, NextEffect DEF IInv
  <2>2. CASE Begin(t) \/ Abort(t) \/ (\E b \in Batch : StartPost(t, b)) \/ \E l \in Line : PostLine(t, l)
    <3>1. db' = db
      BY <2>2 DEF Begin, BeginTxn, Abort, AbortTxn, StartPost, EnterLoop, PostLine
    <3>2. IInv'
      BY <2>2, BeginKeeps, AbortKeeps, StartKeeps, PostKeeps
    <3>3. QED
      BY <3>1, <3>2, NothingCommitted DEF IInv
  <2>3. QED
    BY <2>1, <2>2, BatchKeeps, LineKeeps, OtherKeeps, UnlinkKeeps, FinishKeeps DEF Effect
<1>3. QED
  BY <1>1, <1>2

-----------------------------------------------------------------------------
(* The inductive invariant: requests hold what they post, know the lines of*)
(* the batches they have missed no change of, and no posted batch has an   *)
(* unpaid line.                                                            *)
THEOREM InductiveInvariant == Spec => []IInv
<1>1. Init => IInv
  BY InitIInv
<1>2. IInv /\ [Next]_vars => IInv'
  BY NextKeeps
<1>3. QED
  BY <1>1, <1>2, PTL DEF Spec

(* action_post is all or nothing and pays every line of the batch, also    *)
(* against lines added or dropped meanwhile: the tables are well formed and*)
(* a batch is posted with all its lines paid, or none of them is.          *)
THEOREM BatchesPostInFull == Spec => []PostedInFull
<1>1. IInv => PostedInFull
  BY DEF IInv, Books, PaidWhenPosted, PostedInFull
<1>2. QED
  BY <1>1, InductiveInvariant, PTL

(* The row lock every edit takes: what was submitted is what is approved   *)
(* and posted, whatever snapshot the requests worked on.                   *)
THEOREM SubmittedLinesStay == Spec => SubmittedLinesFrozen
<1>1. IInv /\ [Next]_vars => [LinesFrozen]_vars
  BY NextKeeps
<1>2. QED
  BY <1>1, InductiveInvariant, PTL DEF Spec, SubmittedLinesFrozen, LinesFrozen

(* The check of the lines at posting and the locked balances: a batch goes *)
(* beyond a balance only by two lines of its own, a payment by hand only by*)
(* an amount above the balance it was taken off.                           *)
THEOREM OverpaymentIsNeverStale == Spec => OverpaidKnowingly
<1>1. IInv /\ [Next]_vars => [OverBounded]_vars
  BY NextKeeps
<1>2. QED
  BY <1>1, InductiveInvariant, PTL DEF Spec, OverpaidKnowingly, OverBounded
-----------------------------------------------------------------------------
(* The committed batches and lines behave as BatchLifecycle: a request     *)
(* takes its one step at its commit.                                       *)
LEMMA LifecycleInit == Init => Tables!Start
<1> SUFFICES ASSUME Init PROVE Tables!Start
  OBVIOUS
<1>1. PICK threshold \in Threshold :
        DBInitWith([r \in Row |-> IF r \in Document THEN [residual |-> Total, over |-> 0]
                                  ELSE IF r = Company THEN threshold ELSE Absent])
  BY DEF Init
<1>2. \A r \in Batch \cup Line : db[r] = Absent
  BY <1>1, RowAssumption DEF DBInitWith
<1>3. QED
  BY <1>2 DEF Tables!Start

(* The abstract lines of a batch are the committed ones.                   *)
LEMMA LinesInTables ==
  ASSUME NEW b \in Batch
  PROVE  Tables!LinesOf(b) = LinesOf(db, b)
BY DEF Tables!LinesOf, LinesOf

LEMMA NothingShown ==
  ASSUME \A r \in Batch \cup Line : db'[r] = db[r]
  PROVE  UNCHANGED Tables!tables
<1>1. [b \in Batch |-> db'[b]] = [b \in Batch |-> db[b]]
  OBVIOUS
<1>2. [l \in Line |-> db'[l]] = [l \in Line |-> db[l]]
  OBVIOUS
<1>3. QED
  BY <1>1, <1>2 DEF Tables!tables

(* A batch is created, submitted, approved or cancelled.                   *)
LEMMA BatchShows ==
  ASSUME IInv, NEW t \in Txn, NEW b \in Batch, NEW row \in BatchRow,
         Open(t), BatchEffect(t, b, row), Finish(t)
  PROVE  Tables!Change
<1> USE RowAssumption, AbsentAssumption
<1>1. DOMAIN One(b, row) = {b} /\ One(b, row)[b] = row /\ CommitWith(t, One(b, row))
  BY DEF One, BatchEffect
<1>2. /\ t \in active /\ wrote[t] = {} /\ b \notin missed[t] /\ view[t][b] = db[b] /\ db'[b] = row
      /\ \A r \in Row \ {b} : db'[r] = db[r]
  BY <1>1, OpenCommit
<1>3. /\ [l \in Line |-> db'[l]] = [l \in Line |-> db[l]]
      /\ \A c \in Batch \ {b} : db'[c] = db[c]
  BY <1>2
<1>4. \A l \in Line : LineIn(view[t], l, b) \/ LineIn(db, l, b) => view[t][l] = db[l]
  BY <1>2 DEF IInv, LinesKnown
<1>5. LinesOf(view[t], b) = LinesOf(db, b)
  BY <1>4 DEF LineIn, LinesOf
<1>6. \A l \in LinesOf(db, b) : view[t][l] = db[l]
  BY <1>4 DEF LineIn, LinesOf
<1>7. Turns(db, b, row)
  <2>1. Turns(view[t], b, row)
    BY DEF BatchEffect
  <2>2. \A l \in LinesOf(db, b) : view[t][l].amount = db[l].amount
    BY <1>6
  <2>3. QED
    BY <1>2, <1>5, <2>1, <2>2 DEF Turns
<1>8. CASE db[b] = Absent /\ row.state = "draft" /\ row.approver = Nobody
  <2>1. Tables!Create(b)
    BY <1>2, <1>3, <1>8 DEF Tables!Create
  <2>2. QED
    BY <2>1 DEF Tables!Change
<1>9. ASSUME NEW state \in {"pending", "approved"}, db[b] # Absent, db[b].state = "draft",
             row = [db[b] EXCEPT !.state = state], LinesOf(db, b) # {},
             \A l \in LinesOf(db, b) : db[l].amount > 0
      PROVE  Tables!Change
  <2>1. Tables!In(b, {"draft"}) /\ Tables!Payable(b)
    <3>1. \A l \in LinesOf(db, b) : l \in Line
      BY DEF LinesOf
    <3>2. QED
      BY <1>9, <3>1, LinesInTables DEF Tables!In, Tables!Payable
  <2>2. Tables!Turn(b, state)
    BY <1>2, <1>3, <1>9 DEF Tables!Turn
  <2>3. Tables!Submit(b)
    BY <1>3, <2>1, <2>2 DEF Tables!Submit
  <2>4. QED
    BY <2>3 DEF Tables!Change
<1>10. ASSUME NEW admin \in Admin \ {db[b].creator}, db[b] # Absent, db[b].state = "pending",
              row = [db[b] EXCEPT !.state = "approved", !.approver = admin]
       PROVE  Tables!Change
  <2>1. Tables!In(b, {"pending"})
    BY <1>10 DEF Tables!In
  <2>2. [c \in Batch |-> db'[c]] =
          [[c \in Batch |-> db[c]] EXCEPT ![b].state = "approved", ![b].approver = admin]
    BY <1>2, <1>3, <1>10
  <2>3. Tables!Approve(b)
    BY <1>3, <1>10, <2>1, <2>2 DEF Tables!Approve
  <2>4. QED
    BY <2>3 DEF Tables!Change
<1>11. CASE /\ db[b] # Absent /\ db[b].state \in {"draft", "pending", "approved"}
            /\ row = [db[b] EXCEPT !.state = "cancelled"]
  <2>1. Tables!Cancel(b)
    BY <1>2, <1>3, <1>11 DEF Tables!Cancel, Tables!In, Tables!Turn
  <2>2. QED
    BY <2>1 DEF Tables!Change
<1>12. QED
  BY <1>7, <1>8, <1>9, <1>10, <1>11 DEF Turns

(* Lines of drafts are edited.                                             *)
LEMMA LineShows ==
  ASSUME IInv, NEW t \in Txn, NEW l \in Line, NEW row \in LineRow \cup {Absent},
         NEW drafts \in SUBSET Batch,
         Open(t), LineEffect(t, l, row, drafts), Finish(t)
  PROVE  Tables!Change
<1> USE RowAssumption, AbsentAssumption
<1>1. /\ db'[l] = row /\ \A r \in Row \ {l} : db'[r] = db[r]
      /\ db[l] # Absent => db[l].batch \in drafts
      /\ row # Absent => row.batch \in drafts /\ (row.paid <=> db[l] # Absent /\ db[l].paid)
      /\ \A b \in drafts : db[b] # Absent /\ db[b].state = "draft"
  BY LineFacts
<1>2. db[l] # Absent => ~db[l].paid
  BY <1>1 DEF IInv, Books, PaidWhenPosted, LinesOf
<1>3. Tables!OfDraft(db[l]) /\ Tables!OfDraft(row)
  BY <1>1, <1>2 DEF Tables!OfDraft, Tables!In
<1>4. [b \in Batch |-> db'[b]] = [b \in Batch |-> db[b]]
  BY <1>1
<1>5. \A k \in Line \ {l} : db'[k] = db[k]
  BY <1>1
<1>6. Tables!EditLines
  BY <1>1, <1>3, <1>4, <1>5 DEF Tables!EditLines, Tables!OfDraft, Tables!In
<1>7. QED
  BY <1>6 DEF Tables!Change

(* A batch goes with all its lines: those its request knows of.            *)
LEMMA UnlinkShows ==
  ASSUME IInv, NEW t \in Txn, NEW b \in Batch, UnlinkBatch(t, b)
  PROVE  Tables!Change
<1> USE RowAssumption, AbsentAssumption
<1> DEFINE new == [r \in {b} \cup LinesOf(view[t], b) |-> Absent]
<1>1. /\ DOMAIN new = {b} \cup LinesOf(view[t], b) /\ DOMAIN new \subseteq Row
      /\ \A r \in DOMAIN new : new[r] = Absent
      /\ Open(t) /\ CommitWith(t, new) /\ view[t][b] # Absent
  BY DEF UnlinkBatch, Serve, LinesOf, Exists
<1> HIDE DEF new
<1>2. /\ t \in active /\ wrote[t] = {} /\ b \notin missed[t] /\ view[t][b] = db[b]
      /\ \A r \in DOMAIN new : db'[r] = Absent
      /\ \A r \in Row \ DOMAIN new : db'[r] = db[r]
  BY <1>1, OpenCommit
<1>3. LinesOf(view[t], b) = LinesOf(db, b)
  BY <1>2 DEF IInv, LinesKnown, LineIn, LinesOf
<1>4. /\ \A l \in Line : db'[l] = IF l \in LinesOf(db, b) THEN Absent ELSE db[l]
      /\ \A c \in Batch : db'[c] = IF c = b THEN Absent ELSE db[c]
  BY <1>1, <1>2, <1>3 DEF LinesOf
<1>5. Tables!Delete(b)
  <2>1. [c \in Batch |-> db'[c]] = [[c \in Batch |-> db[c]] EXCEPT ![b] = Absent]
    BY <1>4
  <2>2. [l \in Line |-> db'[l]] = [l \in Line |-> IF l \in LinesOf(db, b) THEN Absent ELSE db[l]]
    BY <1>4
  <2>3. db[b] # Absent
    BY <1>1, <1>2
  <2>4. QED
    BY <2>1, <2>2, <2>3, LinesInTables DEF Tables!Delete
<1>6. QED
  BY <1>5 DEF Tables!Change

(* Posting shows in one step: the batch and all its payments.              *)
LEMMA FinishShows ==
  ASSUME IInv, NEW t \in Txn, FinishPost(t)
  PROVE  Tables!Change
<1> USE RowAssumption, AbsentAssumption
<1>0. PICK b \in Batch : b = target[t]
  BY FinishFacts DEF PostingLines
<1>1. /\ db[b] # Absent /\ db[b].state \in {"draft", "approved"}
      /\ LinesOf(view[t], b) # {}
  BY <1>0, FinishFacts DEF PostingLines
<1>2. /\ db'[b] = [db[b] EXCEPT !.state = "posted"]
      /\ \A c \in Batch \ {b} : db'[c] = db[c]
      /\ \A l \in Line : LineIn(db, l, b) \/ LineIn(view[t], l, b) =>
           /\ LineIn(db, l, b) /\ LineIn(view[t], l, b)
           /\ SameLine(db[l], db'[l]) /\ db'[l].paid /\ db[l].amount > 0
      /\ \A l \in Line : ~LineIn(db, l, b) => db'[l] = db[l]
  BY <1>0, FinishFacts
<1>3. \A l \in Line : l \in LinesOf(db, b) <=> LineIn(db, l, b)
  BY DEF LineIn, LinesOf
<1>4. \A l \in LinesOf(db, b) : db'[l] = [db[l] EXCEPT !.paid = TRUE]
  <2> SUFFICES ASSUME NEW l \in LinesOf(db, b) PROVE db'[l] = [db[l] EXCEPT !.paid = TRUE]
    OBVIOUS
  <2>1. l \in Line /\ LineIn(db, l, b)
    BY <1>3 DEF LinesOf
  <2>2. db[l] \in LineRow /\ SameLine(db[l], db'[l]) /\ db'[l].paid
    BY <1>2, <2>1 DEF LineIn, IInv, TypeOK, RowTypeOK
  <2>3. db'[l] \in LineRow
    <3>1. IInv'
      BY FinishKeeps
    <3>2. QED
      BY <2>1, <2>2, <3>1 DEF IInv, TypeOK, RowTypeOK, SameLine
  <2>4. db'[l].paid = TRUE
    BY <2>2, <2>3 DEF LineRow
  <2>5. QED
    BY <2>2, <2>4 DEF SameLine
<1>5. Tables!LinesOf(b) = LinesOf(db, b)
  BY LinesInTables
<1>6. \A l \in LinesOf(db, b) : l \in Line /\ db[l].amount > 0 /\ ~db[l].paid
  BY <1>1, <1>2, <1>3 DEF LinesOf, IInv, Books, PaidWhenPosted
<1>7. LinesOf(db, b) # {}
  <2>1. \A l \in LinesOf(view[t], b) : l \in Line /\ LineIn(view[t], l, b)
    BY DEF LineIn, LinesOf
  <2>2. QED
    BY <1>1, <1>2, <1>3, <2>1
<1>8. Tables!In(b, {"draft", "approved"}) /\ Tables!Payable(b)
  BY <1>1, <1>5, <1>6, <1>7 DEF Tables!In, Tables!Payable
<1>9. Tables!Turn(b, "posted")
  BY <1>1, <1>2 DEF Tables!Turn
<1>10. [l \in Line |-> db'[l]] =
         [l \in Line |-> IF l \in LinesOf(db, b) THEN [db[l] EXCEPT !.paid = TRUE] ELSE db[l]]
  BY <1>2, <1>3, <1>4
<1>11. Tables!Post(b)
  BY <1>5, <1>6, <1>8, <1>9, <1>10 DEF Tables!Post
<1>12. QED
  BY <1>11 DEF Tables!Change

LEMMA LifecycleStep ==
  ASSUME IInv, [Next]_vars
  PROVE  [Tables!Change]_(Tables!tables)
<1> USE RowAssumption
<1>1. CASE UNCHANGED vars
  BY <1>1, NothingShown DEF vars, dbVars
<1>2. CASE Next
  <2>1. PICK t \in Txn : Effect(t)
    BY <1>2, NextEffect DEF IInv
  <2>2. CASE Begin(t) \/ Abort(t) \/ (\E b \in Batch : StartPost(t, b)) \/ \E l \in Line : PostLine(t, l)
    <3>1. db' = db
      BY <2>2 DEF Begin, BeginTxn, Abort, AbortTxn, StartPost, EnterLoop, PostLine
    <3>2. QED
      BY <3>1, NothingShown
  <2>3. ASSUME NEW r \in Document \cup {Company}, NEW row, Open(t), OtherEffect(t, r, row), Finish(t)
        PROVE  UNCHANGED Tables!tables
    <3>1. DOMAIN One(r, row) = {r} /\ CommitWith(t, One(r, row))
      BY <2>3 DEF One, OtherEffect
    <3>2. \A q \in Row \ {r} : db'[q] = db[q]
      BY <2>3, <3>1, OpenCommit
    <3>3. QED
      BY <3>2, NothingShown
  <2>4. QED
    BY <2>1, <2>2, <2>3, BatchShows, LineShows, UnlinkShows, FinishShows DEF Effect
<1>3. QED
  BY <1>1, <1>2

(* What payment_batch.py promises to whoever reads the tables: batches move*)
(* from draft to posted or cancelled one legal step at a time, lines change*)
(* in drafts only, and posting pays all the lines of the batch at once.    *)
THEOREM BatchesFollowLifecycle == Spec => ImplementsBatchLifecycle
<1>1. IInv /\ [Next]_vars => [Tables!Change]_(Tables!tables)
  BY LifecycleStep
<1>2. QED
  BY <1>1, LifecycleInit, InductiveInvariant, PTL
  DEF Spec, ImplementsBatchLifecycle, Tables!Lifecycle

-----------------------------------------------------------------------------
(* The total of a batch as a sum over its lines: the recursion it stands   *)
(* for and that of the sum have the same solution.                         *)
AmountsOf(rows) == [l \in Line |-> rows[l].amount]

TotalStep(rows, g, s) == IF s = {} THEN 0 ELSE rows[AnyOf(s)].amount + g[s \ {AnyOf(s)}]
IsTotals(rows, S, g) == g = [s \in SUBSET S |-> TotalStep(rows, g, s)]
Totals(rows, S) == CHOOSE g : IsTotals(rows, S, g)

LEMMA TotalUnfolds ==
  ASSUME NEW rows, NEW b
  PROVE  TotalAmount(rows, b) = Totals(rows, LinesOf(rows, b))[LinesOf(rows, b)]
BY DEF TotalAmount, MapThenFoldSet, Totals, IsTotals, TotalStep, AnyOf

LEMMA TotalIsSum ==
  ASSUME NEW rows, NEW b
  PROVE  TotalAmount(rows, b) = SumOver(AmountsOf(rows), LinesOf(rows, b))
<1> DEFINE S == LinesOf(rows, b)
           f == AmountsOf(rows)
           g == Sums(f, S)
           h == Totals(rows, S)
<1>1. S \in SUBSET Line /\ IsFiniteSet(S)
  BY RowAssumption, FS_Subset DEF LinesOf
<1> HIDE DEF S
<1>2. \A s \in SUBSET S : \A k : TotalStep(rows, k, s) = SumStep(f, k, s)
  <2> SUFFICES ASSUME NEW s \in SUBSET S, s # {}, NEW k
               PROVE  TotalStep(rows, k, s) = SumStep(f, k, s)
    BY DEF TotalStep, SumStep
  <2>1. AnyOf(s) \in Line
    BY <1>1, AnyOfIn
  <2>2. f[AnyOf(s)] = rows[AnyOf(s)].amount
    BY <2>1 DEF AmountsOf
  <2>3. QED
    BY <2>2 DEF TotalStep, SumStep
<1> HIDE DEF f
<1>3. IsSums(f, S, g)
  BY <1>1, SumsExist
<1> HIDE DEF g
<1>4. IsTotals(rows, S, g)
  <2>1. \A s \in SUBSET S : TotalStep(rows, g, s) = SumStep(f, g, s)
    BY <1>2
  <2>2. QED
    BY <1>3, <2>1 DEF IsSums, IsTotals
<1>5. IsTotals(rows, S, h)
  BY <1>4 DEF Totals
<1> HIDE DEF h
<1>6. Solves(f, S, g) /\ Solves(f, S, h)
  <2>1. \A s \in SUBSET S : g[s] = SumStep(f, g, s)
    BY <1>3 DEF IsSums
  <2>2. \A s \in SUBSET S : h[s] = TotalStep(rows, h, s)
    BY <1>5 DEF IsTotals
  <2>3. \A s \in SUBSET S : h[s] = SumStep(f, h, s)
    BY <1>2, <2>2
  <2>4. QED
    BY <2>1, <2>3 DEF Solves
<1>7. g[S] = h[S]
  <2>1. \A s \in SUBSET S : g[s] = h[s]
    BY <1>1, <1>6, SumsUnique
  <2>2. QED
    BY <2>1
<1>8. TotalAmount(rows, b) = h[S]
  BY TotalUnfolds DEF h, S
<1>9. SumOver(f, S) = g[S]
  BY SumUnfolds DEF g
<1>10. QED
  BY <1>7, <1>8, <1>9 DEF S, f

LEMMA TotalType ==
  ASSUME NEW rows, RowTypeOK(rows), NEW b
  PROVE  TotalAmount(rows, b) \in Int
<1> DEFINE S == LinesOf(rows, b)
           f == AmountsOf(rows)
<1>1. IsFiniteSet(S)
  BY RowAssumption, FS_Subset DEF LinesOf
<1>2. \A l \in S : f[l] \in Int
  <2> SUFFICES ASSUME NEW l \in S PROVE f[l] \in Int
    OBVIOUS
  <2>1. l \in Line /\ rows[l] \in LineRow
    BY DEF LinesOf, RowTypeOK
  <2>2. rows[l].amount \in Int
    <3>1. rows[l].amount \in Amount
      BY <2>1 DEF LineRow
    <3>2. \A n \in Amount : n \in Int
      BY AmountAssumption
    <3>3. QED
      BY <3>1, <3>2
  <2>3. QED
    BY <2>1, <2>2 DEF AmountsOf
<1> HIDE DEF S, f
<1>3. SumOver(f, S) \in Int
  BY <1>1, <1>2, SumType
<1>4. QED
  BY <1>3, TotalIsSum DEF S, f

(* Two tables with the same lines in a batch give it the same total.       *)
LEMMA TotalSame ==
  ASSUME NEW old, NEW new, NEW b, LinesOf(new, b) = LinesOf(old, b),
         \A l \in LinesOf(old, b) : new[l].amount = old[l].amount
  PROVE  TotalAmount(new, b) = TotalAmount(old, b)
<1> DEFINE S == LinesOf(old, b)
           f == AmountsOf(old)
           h == AmountsOf(new)
<1>1. IsFiniteSet(S)
  BY RowAssumption, FS_Subset DEF LinesOf
<1>2. \A l \in S : f[l] = h[l]
  BY DEF LinesOf, AmountsOf
<1> HIDE DEF S, f, h
<1>3. SumOver(f, S) = SumOver(h, S)
  BY <1>1, <1>2, SumSame
<1>4. QED
  BY <1>3, TotalIsSum DEF S, f, h

-----------------------------------------------------------------------------
(* A request that posts has found the total within the policy of its       *)
(* snapshot, or the batch approved.                                        *)
WithinPolicy(rows, b) ==
  TotalAmount(rows, b) <= rows[Company] \/ rows[b].approver # Nobody

CoverInv ==
  /\ \A b \in Batch : ApprovedByAnother(db[b])
  /\ \A t \in active : \A b \in Batch : ApprovedByAnother(view[t][b])
  /\ \A t \in active : phase[t] = "posting" => WithinPolicy(view[t], target[t])

(* The invariant in the next state, with every operator applied to primed  *)
(* variables.                                                              *)
CoverNext ==
  /\ \A b \in Batch : ApprovedByAnother(db'[b])
  /\ \A t \in active' : \A b \in Batch : ApprovedByAnother(view'[t][b])
  /\ \A t \in active' : phase'[t] = "posting" => WithinPolicy(view'[t], target'[t])

LEMMA CoverPrimed == ASSUME CoverNext PROVE CoverInv'
BY DEF CoverNext, CoverInv, ApprovedByAnother, WithinPolicy, TotalAmount, LinesOf, MapThenFoldSet

LEMMA CoverStutter ==
  ASSUME CoverInv, UNCHANGED <<db, active, view, phase, target>>
  PROVE  CoverInv'
<1>1. CoverNext
  BY DEF CoverInv, CoverNext
<1>2. QED
  BY <1>1, CoverPrimed

(* A request that is done has committed rows with the approvals it read.   *)
LEMMA CommitCovers ==
  ASSUME IInv, CoverInv, NEW t \in Txn, t \in active, Finish(t),
         NEW new, DOMAIN new \subseteq Row, CommitWith(t, new),
         \A b \in Batch \cap DOMAIN new : ApprovedByAnother(new[b])
  PROVE  CoverInv' /\ active' = active \ {t}
<1> USE RowAssumption
<1>1. /\ \A r \in DOMAIN new : db'[r] = new[r]
      /\ \A r \in wrote[t] \ DOMAIN new : db'[r] = view[t][r]
      /\ \A r \in Row \ (wrote[t] \cup DOMAIN new) : db'[r] = db[r]
      /\ active' = active \ {t}
      /\ \A u \in active' : view'[u] = view[u]
  BY CommitOfAll DEF IInv
<1>2. \A u \in active' : phase'[u] = phase[u] /\ target'[u] = target[u]
  BY <1>1 DEF Finish, IInv, Requests, LockDiscipline
<1>3. ASSUME NEW b \in Batch PROVE ApprovedByAnother(db'[b])
  BY <1>1 DEF CoverInv
<1>4. CoverNext
  BY <1>1, <1>2, <1>3 DEF CoverInv, CoverNext
<1>5. QED
  BY <1>1, <1>4, CoverPrimed

LEMMA StartCovers ==
  ASSUME IInv, CoverInv, NEW t \in Txn, NEW b \in Batch, StartPost(t, b)
  PROVE  CoverInv'
<1> USE RowAssumption, AbsentAssumption
<1> DEFINE row == [view[t][b] EXCEPT !.state = "approved"]
<1>1. t \in active /\ view[t][b] # Absent
  BY DEF StartPost, MayPost, Open, Exists, IInv, TypeOK
<1>2. RowTypeOK(view[t]) /\ view[t][b] \in BatchRow /\ DOMAIN view[t] = Row /\ DOMAIN view = Txn
  BY <1>1 DEF IInv, TypeOK, RowTypeOK, LockDiscipline
<1>3. row.approver = view[t][b].approver /\ row.creator = view[t][b].creator
  BY <1>2 DEF BatchRow
<1> HIDE DEF row
<1>4. /\ view' = [view EXCEPT ![t][b] = row] /\ UNCHANGED <<db, active>>
      /\ phase' = [phase EXCEPT ![t] = "posting"] /\ target' = [target EXCEPT ![t] = b]
  BY DEF StartPost, EnterLoop, Put, row
<1>5. /\ view'[t][b] = row /\ \A r \in Row \ {b} : view'[t][r] = view[t][r]
      /\ \A u \in Txn \ {t} : view'[u] = view[u] /\ phase'[u] = phase[u] /\ target'[u] = target[u]
      /\ target'[t] = b
  BY <1>2, <1>4 DEF IInv, Requests
<1>6. ASSUME NEW c \in Batch PROVE ApprovedByAnother(view'[t][c])
  BY <1>1, <1>3, <1>5 DEF CoverInv, ApprovedByAnother
<1>7. TotalAmount(view'[t], b) = TotalAmount(view[t], b)
  <2>1. \A l \in Line : view'[t][l] = view[t][l]
    BY <1>5
  <2>2. LinesOf(view'[t], b) = LinesOf(view[t], b)
    BY <2>1 DEF LinesOf
  <2>3. \A l \in LinesOf(view[t], b) : view'[t][l].amount = view[t][l].amount
    BY <2>1 DEF LinesOf
  <2>4. QED
    BY <2>2, <2>3, TotalSame
<1>8. WithinPolicy(view'[t], b)
  <2>1. view'[t][Company] = view[t][Company] /\ view[t][Company] \in Int
    <3>1. view[t][Company] \in Threshold
      BY <1>2 DEF RowTypeOK
    <3>2. view[t][Company] \in Int
      BY <3>1, AmountAssumption
    <3>3. QED
      BY <1>5, <3>2
  <2>2. TotalAmount(view[t], b) > view[t][Company] => view[t][b].approver # Nobody
    BY DEF StartPost, RequiresApproval
  <2>3. TotalAmount(view[t], b) \in Int
    BY <1>2, TotalType
  <2>4. TotalAmount(view[t], b) <= view[t][Company] \/ view[t][b].approver # Nobody
    BY <2>1, <2>2, <2>3
  <2>5. QED
    BY <1>3, <1>5, <1>7, <2>1, <2>4 DEF WithinPolicy
<1>9. active \subseteq Txn
  BY DEF IInv, LockDiscipline
<1>10. CoverNext
  <2>1. ASSUME NEW u \in active, phase'[u] = "posting" PROVE WithinPolicy(view'[u], target'[u])
    BY <1>5, <1>8, <1>9, <2>1 DEF CoverInv
  <2>2. ASSUME NEW u \in active PROVE \A c \in Batch : ApprovedByAnother(view'[u][c])
    BY <1>5, <1>6, <1>9 DEF CoverInv
  <2>3. QED
    BY <1>4, <2>1, <2>2 DEF CoverInv, CoverNext
<1>11. QED
  BY <1>10, CoverPrimed

LEMMA PostCovers ==
  ASSUME IInv, CoverInv, NEW t \in Txn, NEW l \in Line, PostLine(t, l)
  PROVE  CoverInv'
<1> USE RowAssumption, AbsentAssumption
<1> DEFINE b == target[t]
           paid == [view[t][l] EXCEPT !.paid = TRUE]
           docs == {view[t][l].document} \cap Document
           new == [r \in {l} \cup docs |-> IF r = l THEN paid
                                           ELSE Settle(view[t][r], view[t][l].amount)]
<1>1. l \in todo[t] /\ PutAll(t, new) /\ UNCHANGED <<db, active, phase, target>>
  BY DEF PostLine
<1>2. phase[t] = "posting" /\ t \in active
  BY <1>1 DEF IInv, TypeOK
<1>3. b \in Batch /\ todo[t] \subseteq LinesOf(view[t], b)
  BY <1>2 DEF IInv, Posting, PostingLines
<1>4. view[t][l] \in LineRow /\ DOMAIN view = Txn
  BY <1>1, <1>2, <1>3 DEF LinesOf, IInv, TypeOK, RowTypeOK, LockDiscipline
<1>5. paid.batch = view[t][l].batch /\ paid.amount = view[t][l].amount /\ paid # Absent
  <2>1. paid \in LineRow
    BY <1>4 DEF LineRow
  <2>2. QED
    BY <1>4, <2>1 DEF LineRow
<1>6. /\ view'[t][l] = paid
      /\ \A r \in Row \ ({l} \cup Document) : view'[t][r] = view[t][r]
      /\ \A u \in Txn \ {t} : view'[u] = view[u]
  BY <1>1, <1>4 DEF PutAll
<1> HIDE DEF new, paid, docs
<1>7. \A k \in Line : /\ view'[t][k] # Absent <=> view[t][k] # Absent
                      /\ view'[t][k].batch = view[t][k].batch
                      /\ view'[t][k].amount = view[t][k].amount
  <2>1. ASSUME NEW k \in Line, k # l PROVE view'[t][k] = view[t][k]
    BY <1>6, <2>1
  <2>2. view[t][l] # Absent
    BY <1>4
  <2>3. QED
    BY <1>5, <1>6, <2>1, <2>2
<1>8. TotalAmount(view'[t], b) = TotalAmount(view[t], b)
  <2>1. LinesOf(view'[t], b) = LinesOf(view[t], b)
    BY <1>7 DEF LinesOf
  <2>2. \A k \in LinesOf(view[t], b) : view'[t][k].amount = view[t][k].amount
    BY <1>7 DEF LinesOf
  <2>3. QED
    BY <2>1, <2>2, TotalSame
<1>9. \A c \in Batch \cup {Company} : view'[t][c] = view[t][c]
  BY <1>6
<1>10. WithinPolicy(view'[t], b)
  <2>1. WithinPolicy(view[t], b)
    BY <1>2 DEF CoverInv
  <2>2. QED
    BY <1>3, <1>8, <1>9, <2>1 DEF WithinPolicy
<1>11. active \subseteq Txn
  BY DEF IInv, LockDiscipline
<1>12. CoverNext
  <2>1. ASSUME NEW u \in active, phase[u] = "posting" PROVE WithinPolicy(view'[u], target[u])
    BY <1>6, <1>10, <1>11, <2>1 DEF CoverInv
  <2>2. ASSUME NEW u \in active PROVE \A c \in Batch : ApprovedByAnother(view'[u][c])
    BY <1>6, <1>9, <1>11 DEF CoverInv
  <2>3. QED
    BY <1>1, <2>1, <2>2 DEF CoverInv, CoverNext
<1>13. QED
  BY <1>12, CoverPrimed

(* What the posting of a batch commits: the total and the approval it      *)
(* found when it began.                                                    *)
LEMMA FinishCovers ==
  ASSUME IInv, CoverInv, NEW t \in Txn, FinishPost(t)
  PROVE  /\ CoverInv' /\ active' = active \ {t}
         /\ \A b \in Batch \cap wrote[t] :
              \/ TotalAmount(db', b) <= view[t][Company]
              \/ db'[b].approver \in Admin \ {db'[b].creator}
<1> USE RowAssumption, AbsentAssumption
<1> DEFINE b == target[t]
           row == [view[t][b] EXCEPT !.state = "posted"]
<1>1. CommitWith(t, One(b, row)) /\ Finish(t) /\ phase[t] = "posting"
  BY DEF FinishPost, Serve
<1>2. t \in active /\ PostingLines(t) /\ b \in Batch
  BY FinishFacts DEF PostingLines
<1>3. view[t][b] \in BatchRow /\ view[t][b] # Absent /\ RowTypeOK(view[t])
  BY <1>2 DEF PostingLines, IInv, TypeOK, RowTypeOK
<1>4. row.approver = view[t][b].approver /\ row.creator = view[t][b].creator /\ row # Absent
  <2>1. row \in BatchRow
    BY <1>3 DEF BatchRow
  <2>2. QED
    BY <1>3, <2>1 DEF BatchRow
<1> HIDE DEF row
<1>5. DOMAIN One(b, row) = {b} /\ One(b, row)[b] = row
  BY DEF One
<1>6. ApprovedByAnother(view[t][b]) /\ WithinPolicy(view[t], b)
  BY <1>1, <1>2 DEF CoverInv
<1>7. ApprovedByAnother(row)
  BY <1>3, <1>4, <1>6 DEF ApprovedByAnother
<1>8. CoverInv' /\ active' = active \ {t}
  <2>1. DOMAIN One(b, row) \subseteq Row /\ \A c \in Batch \cap DOMAIN One(b, row) : ApprovedByAnother(One(b, row)[c])
    BY <1>2, <1>5, <1>7
  <2>2. QED
    BY <1>1, <1>2, <2>1, CommitCovers
<1>9. db'[b] = row
  BY <1>1, <1>2, <1>5, CommitOfAll DEF IInv
<1>10. \A l \in Line : LineIn(db, l, b) \/ LineIn(db', l, b) \/ LineIn(view[t], l, b) =>
         LineIn(db, l, b) /\ LineIn(view[t], l, b) /\ db'[l] = view[t][l]
  BY FinishFacts
<1>11. LinesOf(db', b) = LinesOf(view[t], b)
  <2>1. \A l \in Line : LineIn(db', l, b) <=> LineIn(view[t], l, b)
    BY <1>10 DEF LineIn
  <2>2. QED
    BY <2>1 DEF LineIn, LinesOf
<1>12. \A l \in LinesOf(view[t], b) : db'[l].amount = view[t][l].amount
  BY <1>10 DEF LineIn, LinesOf
<1>13. TotalAmount(db', b) = TotalAmount(view[t], b)
  BY <1>11, <1>12, TotalSame
<1>14. \/ TotalAmount(db', b) <= view[t][Company]
       \/ db'[b].approver \in Admin \ {db'[b].creator}
  BY <1>3, <1>4, <1>6, <1>9, <1>13 DEF WithinPolicy, ApprovedByAnother
<1>15. \A c \in Batch \cap wrote[t] : c = b
  BY <1>2 DEF PostingLines
<1>16. QED
  BY <1>8, <1>14, <1>15

(* See ApprovalCoversTotal.                                                *)
PostedAsApproved ==
  \A b \in Batch, t \in active \ active' :
    /\ b \in wrote[t]
    /\ db'[b] # Absent /\ db'[b].state = "posted"
    /\ db[b] # db'[b]
    => \/ TotalAmount(db', b) <= view[t][Company]
       \/ db'[b].approver \in Admin \ {db'[b].creator}

LEMMA CoverKeeps ==
  ASSUME IInv, CoverInv, [Next]_vars
  PROVE  CoverInv' /\ PostedAsApproved
<1> USE RowAssumption, AbsentAssumption
<1>1. CASE UNCHANGED vars
  BY <1>1, CoverStutter DEF vars, dbVars, PostedAsApproved
<1>2. CASE Next
  <2>1. PICK t \in Txn : Effect(t)
    BY <1>2, NextEffect DEF IInv
  <2>2. active \subseteq Txn /\ DOMAIN view = Txn /\ DOMAIN phase = Txn
    BY DEF IInv, LockDiscipline, Requests
  <2>3. ASSUME NEW new, Open(t), CommitWith(t, new), Finish(t), DOMAIN new \subseteq Row,
               \A b \in Batch \cap DOMAIN new : ApprovedByAnother(new[b])
        PROVE  CoverInv' /\ PostedAsApproved
    <3>1. t \in active /\ wrote[t] = {}
      BY <2>3 DEF Open, IInv, TypeOK, Requests
    <3>2. CoverInv' /\ active' = active \ {t}
      BY <2>3, <3>1, CommitCovers
    <3>3. QED
      BY <3>1, <3>2 DEF PostedAsApproved
  <2>4. Open(t) => t \in active /\ \A b \in Batch : ApprovedByAnother(view[t][b])
    BY DEF Open, IInv, TypeOK, CoverInv
  <2>5. CASE Begin(t)
    <3>1. /\ db' = db /\ active' = active \cup {t} /\ view'[t] = db /\ target' = target
          /\ \A u \in Txn \ {t} : view'[u] = view[u] /\ phase'[u] = phase[u]
          /\ phase'[t] = "open"
      BY <2>2, <2>5 DEF Begin, BeginTxn
    <3>2. CoverNext
      BY <2>2, <3>1 DEF CoverInv, CoverNext
    <3>3. QED
      BY <3>1, <3>2, CoverPrimed DEF PostedAsApproved
  <2>6. CASE Abort(t)
    <3>1. /\ db' = db /\ active' = active \ {t}
          /\ \A u \in active' : view'[u] = view[u] /\ phase'[u] = phase[u] /\ target'[u] = target[u]
      BY <2>2, <2>6 DEF Abort, AbortTxn, EndTxn, Finish, IInv, Requests
    <3>2. CoverNext
      BY <3>1 DEF CoverInv, CoverNext
    <3>3. QED
      BY <3>1, <3>2, CoverPrimed DEF PostedAsApproved
  <2>7. ASSUME NEW b \in Batch, NEW row \in BatchRow, Open(t), BatchEffect(t, b, row), Finish(t)
        PROVE  CoverInv' /\ PostedAsApproved
    <3>1. ApprovedByAnother(row)
      BY <2>4, <2>7 DEF BatchEffect, ApprovedByAnother
    <3>2. CommitWith(t, One(b, row)) /\ DOMAIN One(b, row) = {b} /\ One(b, row)[b] = row
      BY <2>7 DEF BatchEffect, One
    <3>3. QED
      BY <2>3, <2>7, <3>1, <3>2
  <2>8. ASSUME NEW l \in Line, NEW row \in LineRow \cup {Absent}, NEW drafts \in SUBSET Batch,
               Open(t), LineEffect(t, l, row, drafts), Finish(t)
        PROVE  CoverInv' /\ PostedAsApproved
    <3> DEFINE new == [r \in drafts \cup {l} |-> IF r = l THEN row ELSE view[t][r]]
    <3>1. CommitWith(t, new)
      BY <2>8 DEF LineEffect
    <3>2. DOMAIN new \subseteq Row /\ \A b \in Batch \cap DOMAIN new : ApprovedByAnother(new[b])
      BY <2>4, <2>8
    <3> HIDE DEF new
    <3>3. QED
      BY <2>3, <2>8, <3>1, <3>2
  <2>9. ASSUME NEW r \in Document \cup {Company}, NEW row, Open(t), OtherEffect(t, r, row), Finish(t)
        PROVE  CoverInv' /\ PostedAsApproved
    <3>1. CommitWith(t, One(r, row)) /\ DOMAIN One(r, row) = {r}
      BY <2>9 DEF OtherEffect, One
    <3>2. QED
      BY <2>3, <2>9, <3>1
  <2>10. ASSUME NEW b \in Batch, UnlinkBatch(t, b)
         PROVE  CoverInv' /\ PostedAsApproved
    <3> DEFINE new == [r \in {b} \cup LinesOf(view[t], b) |-> Absent]
    <3>1. Open(t) /\ CommitWith(t, new) /\ Finish(t)
      BY <2>10 DEF UnlinkBatch, Serve
    <3>2. DOMAIN new \subseteq Row /\ \A c \in Batch \cap DOMAIN new : ApprovedByAnother(new[c])
      BY DEF LinesOf, ApprovedByAnother
    <3> HIDE DEF new
    <3>3. QED
      BY <2>3, <3>1, <3>2
  <2>11. ASSUME (\E b \in Batch : StartPost(t, b)) \/ \E l \in Line : PostLine(t, l)
         PROVE  CoverInv' /\ PostedAsApproved
    <3>1. active' = active
      BY <2>11 DEF StartPost, EnterLoop, PostLine
    <3>2. CoverInv'
      BY <2>11, StartCovers, PostCovers
    <3>3. QED
      BY <3>1, <3>2 DEF PostedAsApproved
  <2>12. ASSUME FinishPost(t)
         PROVE  CoverInv' /\ PostedAsApproved
    BY <2>12, FinishCovers DEF PostedAsApproved
  <2>13. QED
    BY <2>1, <2>5, <2>6, <2>7, <2>8, <2>9, <2>10, <2>11, <2>12 DEF Effect
<1>3. QED
  BY <1>1, <1>2

(* "Payments above the company threshold only post through an              *)
(* administrator-approved batch": the total action_post compares with the  *)
(* policy is the total it commits, line edits in between notwithstanding,  *)
(* and an approved batch was approved by an administrator who did not      *)
(* create it.                                                              *)
THEOREM ApprovalCoversTheTotal == Spec => ApprovalCoversTotal
<1>1. Init => CoverInv
  <2> SUFFICES ASSUME Init PROVE CoverInv
    OBVIOUS
  <2>1. PICK threshold \in Threshold :
          DBInitWith([r \in Row |-> IF r \in Document THEN [residual |-> Total, over |-> 0]
                                    ELSE IF r = Company THEN threshold ELSE Absent])
    BY DEF Init
  <2>2. active = {} /\ \A b \in Batch : db[b] = Absent
    BY <2>1, RowAssumption DEF DBInitWith
  <2>3. QED
    BY <2>2 DEF CoverInv, ApprovedByAnother
<1>2. IInv /\ CoverInv /\ [Next]_vars => CoverInv' /\ [PostedAsApproved]_vars
  BY CoverKeeps
<1>3. QED
  BY <1>1, <1>2, InductiveInvariant, PTL DEF Spec, ApprovalCoversTotal, PostedAsApproved
===============================================================================
