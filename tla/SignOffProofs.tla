------------------------------ MODULE SignOffProofs ------------------------------
(***************************************************************************)
(* Machine-checked proofs about what people sign off: the bank             *)
(* reconciliations of BankSignOff, for every number of requests,           *)
(* reconciliations, lines and items; and the series of numbers and the     *)
(* year-end closes of DocumentSeries and YearEndClose, for every number of *)
(* requests, documents and closes, and every set of dates and codes.       *)
(***************************************************************************)
EXTENDS BankSignOff, YearEndClose, SnapshotProofs


(* A match in the books: an adjustment that is not reversed is the match   *)
(* its line records, and both ends of every pairing know of it.            *)
LiveMatches(rows) ==
  \A e \in Existing(rows, Adjustment) :
    ~rows[e].reversed => rows[rows[e].line] # Absent /\ rows[rows[e].line].match = e

Settled(rows) ==
  \A e \in Adjustment, i \in Item : e \in rows[i] <=> rows[e] # Absent /\ rows[e].settles = i

Cleared(rows) ==
  \A e \in Adjustment, l \in Line :
    rows[l] # Absent /\ rows[l].cleared = e <=> rows[e] # Absent /\ rows[e].clears = l

Recorded(rows) ==
  \A l \in Existing(rows, Line) : rows[l].match # None => rows[rows[l].match] # Absent

MatchesLive(rows) == LiveMatches(rows) /\ Settled(rows) /\ Cleared(rows) /\ Recorded(rows)

(* Who reads a match as reversed, however long ago, is right.              *)
ReversalsSeen ==
  \A t \in active, e \in Adjustment :
    view[t][e] # Absent /\ view[t][e].reversed => db[e] # Absent /\ db[e].reversed

RecordedSeen == \A t \in active : Recorded(view[t])

Balanced(rows) == \A r \in Rec : SignedOff(rows, r) => rows[r].statement = rows[r].ledger

(* The inductive invariant: requests read what is committed except where   *)
(* they missed a change, and a change is refused exactly there.            *)
IInv ==
  /\ Discipline /\ TypeOK /\ MatchesLive(db) /\ ReversalsSeen /\ RecordedSeen
  /\ Balanced(db)

-----------------------------------------------------------------------------
(* What the operations do: a reconciliation is written and, if that signs  *)
(* it off, its balance was checked; or a line is written that keeps what   *)
(* adjustments it has, and moves only outside of signed-off                *)
(* reconciliations; or a line is matched; or one adjustment is paired, or  *)
(* loses pairings, by its reversal or natively.                            *)
RecEffect(t, r, row) ==
  /\ CommitWith(t, One(r, row))
  /\ row \in RecRow
  /\ row.state = "reconciled" => row.statement = row.ledger /\ row.ledger = Ledger(view[t])

RecOf(t, l) == IF view[t][l] = Absent THEN None ELSE view[t][l].rec

LineEffect(t, l, row) ==
  /\ CommitWith(t, One(l, row))
  /\ row \in LineRow
  /\ view[t][l] = Absent => row.match = None /\ row.cleared = None
  /\ view[t][l] # Absent =>
       /\ row.match = view[t][l].match
       /\ row.cleared # view[t][l].cleared =>
            row.cleared \notin Adjustment /\ view[t][l].cleared \notin Adjustment
  /\ row.rec # RecOf(t, l) => ~SignedOff(view[t], RecOf(t, l)) /\ ~SignedOff(view[t], row.rec)

LoosenEffect(t, e, entry) ==
  /\ CommitWith(t, Unpaired(t, e, entry))
  /\ view[t][e] # Absent
  /\ entry \in AdjustmentRow
  /\ entry.line = view[t][e].line
  /\ view[t][e].reversed => entry.reversed
  /\ entry.settles \in {view[t][e].settles, None, Reversal}
  /\ entry.clears \in {view[t][e].clears, None, Reversal}

Effect(t) ==
  \/ BeginTxn(t)
  \/ AbortTxn(t)
  \/ \E r \in Rec, row \in RecRow : t \in active /\ RecEffect(t, r, row)
  \/ \E l \in Line, row \in LineRow : t \in active /\ LineEffect(t, l, row)
  \/ \E l \in Line, e \in Adjustment, i \in Item : Match(t, l, e, i)
  \/ \E e \in Adjustment, entry \in AdjustmentRow : t \in active /\ LoosenEffect(t, e, entry)
  \/ \E e \in Adjustment, i \in Item : SettleNatively(t, e, i)
  \/ \E e \in Adjustment, l \in Line : ClearNatively(t, e, l)

LEMMA LedgerType ==
  ASSUME NEW rows PROVE Ledger(rows) \in Nat
<1>1. Existing(rows, Line) \in SUBSET Line
  BY DEF Existing
<1>2. QED
  BY <1>1, FiniteAssumption, FS_Subset, FS_CardinalityType DEF Ledger

LEMMA RecStepEffect ==
  ASSUME TypeOK, NEW t \in Txn, NEW r \in Rec, RecStep(t, r)
  PROVE  t \in active /\ \E row \in RecRow : RecEffect(t, r, row)
<1> USE AbsentAssumption
<1>1. t \in active
  BY DEF RecStep, CreateRec, WriteRec, ComputeLedger, Reconcile, Reopen
<1>2. view[t][r] \in RecRow \cup {Absent} /\ r # None
  BY <1>1, NoneAssumption, RowAssumption DEF TypeOK, RowTypeOK
<1>3. ASSUME NEW row, RecEffect(t, r, row) PROVE \E x \in RecRow : RecEffect(t, r, x)
  BY <1>3 DEF RecEffect
<1>4. ASSUME NEW figure \in Figure, CreateRec(t, r, figure)
      PROVE  RecEffect(t, r, [state |-> "draft", statement |-> figure, ledger |-> 0])
  BY <1>4 DEF CreateRec, RecEffect, RecRow
<1>5. ASSUME NEW figure \in Figure, WriteRec(t, r, figure)
      PROVE  RecEffect(t, r, [view[t][r] EXCEPT !.statement = figure])
  BY <1>2, <1>5 DEF WriteRec, RecEffect, RecRow, SignedOff, Exists
<1>6. ASSUME ComputeLedger(t, r)
      PROVE  RecEffect(t, r, [view[t][r] EXCEPT !.ledger = Ledger(view[t])])
  BY <1>2, <1>6, LedgerType DEF ComputeLedger, RecEffect, RecRow, SignedOff, Exists
<1>7. ASSUME Reconcile(t, r)
      PROVE  RecEffect(t, r, [view[t][r] EXCEPT !.state = "reconciled"])
  BY <1>2, <1>7 DEF Reconcile, RecEffect, RecRow, Exists
<1>8. ASSUME Reopen(t, r)
      PROVE  RecEffect(t, r, [view[t][r] EXCEPT !.state = "reopened"])
  BY <1>2, <1>8 DEF Reopen, RecEffect, RecRow, SignedOff
<1>9. QED
  BY <1>1, <1>3, <1>4, <1>5, <1>6, <1>7, <1>8 DEF RecStep

LEMMA LineStepEffect ==
  ASSUME IInv, NEW t \in Txn, NEW l \in Line, LineStep(t, l)
  PROVE  Effect(t)
<1> USE AbsentAssumption, NoneAssumption, RowAssumption
<1>1. t \in active
  BY DEF LineStep, CreateLine, AttachLine, Match, MayMatch, ReverseMatch, PairLine
<1>2. view[t][l] \in LineRow \cup {Absent}
  BY <1>1 DEF IInv, TypeOK, RowTypeOK
<1>3. ASSUME NEW row, LineEffect(t, l, row) PROVE Effect(t)
  BY <1>1, <1>3 DEF LineEffect, Effect
<1>4. ASSUME NEW r \in Rec \cup {None}, CreateLine(t, l, r)
      PROVE  LineEffect(t, l, [rec |-> r, match |-> None, cleared |-> None])
  BY <1>4 DEF CreateLine, LineEffect, LineRow, Exists, RecOf, SignedOff
<1>5. ASSUME NEW r \in Rec \cup {None}, AttachLine(t, l, r)
      PROVE  LineEffect(t, l, [view[t][l] EXCEPT !.rec = r])
  BY <1>2, <1>5 DEF AttachLine, LineEffect, LineRow, Exists, RecOf
<1>6. ASSUME PairLine(t, l)
      PROVE  \E row : LineEffect(t, l, row)
  <2>1. ASSUME NEW x \in {None, Other}, NEW y \in {None, Other}, view[t][l] # Absent,
               view[t][l].cleared = x, CommitWith(t, One(l, [view[t][l] EXCEPT !.cleared = y]))
        PROVE  LineEffect(t, l, [view[t][l] EXCEPT !.cleared = y])
    BY <1>2, <2>1 DEF LineEffect, LineRow, RecOf
  <2>2. QED
    BY <1>6, <2>1 DEF PairLine, Exists
<1>7. ASSUME ReverseMatch(t, l)
      PROVE  Effect(t)
  <2> DEFINE e == view[t][l].match
             entry == [view[t][e] EXCEPT !.settles = Reversal, !.clears = Reversal,
                                         !.reversed = TRUE]
  <2>1. view[t][l] \in LineRow /\ e # None
    BY <1>2, <1>7 DEF ReverseMatch, Exists
  <2>2. e \in Adjustment /\ view[t][e] # Absent
    BY <1>1, <2>1 DEF LineRow, IInv, RecordedSeen, Recorded, Existing
  <2>3. view[t][e] \in AdjustmentRow
    BY <1>1, <2>2 DEF IInv, TypeOK, RowTypeOK
  <2>4. LoosenEffect(t, e, entry) /\ entry \in AdjustmentRow
    BY <1>7, <2>2, <2>3 DEF ReverseMatch, LoosenEffect, AdjustmentRow
  <2>5. QED
    BY <1>1, <2>2, <2>4 DEF Effect
<1>8. QED
  BY <1>3, <1>4, <1>5, <1>6, <1>7 DEF LineStep, Effect

LEMMA AdjustmentStepEffect ==
  ASSUME IInv, NEW t \in Txn, NEW e \in Adjustment, AdjustmentStep(t, e)
  PROVE  Effect(t)
<1> USE AbsentAssumption, NoneAssumption
<1>1. t \in active /\ view[t][e] # Absent
  BY Zenon DEF AdjustmentStep, UndoSettlement, UndoClearing, SettleNatively, ClearNatively,
         ReverseNatively, Exists
<1>2. view[t][e] \in AdjustmentRow
  BY <1>1 DEF IInv, TypeOK, RowTypeOK
<1>3. ASSUME NEW entry, LoosenEffect(t, e, entry) PROVE Effect(t)
  BY <1>1, <1>3 DEF LoosenEffect, Effect
<1>4. ASSUME UndoSettlement(t, e)
      PROVE  LoosenEffect(t, e, [view[t][e] EXCEPT !.settles = None])
  BY <1>1, <1>2, <1>4 DEF UndoSettlement, LoosenEffect, AdjustmentRow
<1>5. ASSUME UndoClearing(t, e)
      PROVE  LoosenEffect(t, e, [view[t][e] EXCEPT !.clears = None])
  BY <1>1, <1>2, <1>5 DEF UndoClearing, LoosenEffect, AdjustmentRow
<1>6. ASSUME ReverseNatively(t, e)
      PROVE  \E entry : LoosenEffect(t, e, entry)
  <2>0. PICK undone \in BOOLEAN :
          CommitWith(t, Unpaired(t, e, ReversedEntry(view[t][e], undone)))
    BY <1>6, Zenon DEF ReverseNatively
  <2> DEFINE entry == ReversedEntry(view[t][e], undone)
  <2>1. CommitWith(t, Unpaired(t, e, entry))
    BY <2>0
  <2>2. /\ entry \in AdjustmentRow /\ entry.line = view[t][e].line /\ entry.reversed
        /\ entry.settles \in {view[t][e].settles, None, Reversal}
        /\ entry.clears \in {view[t][e].clears, None, Reversal}
    BY <1>2 DEF AdjustmentRow, ReversedEntry
  <2> HIDE DEF entry
  <2>3. QED
    BY <1>1, <2>1, <2>2 DEF LoosenEffect
<1>7. QED
  BY <1>3, <1>4, <1>5, <1>6 DEF AdjustmentStep, Effect

LEMMA NextEffect ==
  ASSUME IInv, Next
  PROVE  \E t \in Txn : Effect(t)
BY RecStepEffect, LineStepEffect, AdjustmentStepEffect DEF Next, Step, Effect, IInv

-----------------------------------------------------------------------------
LEMMA CommitOne ==
  ASSUME Discipline, NEW t \in active, NEW r \in Row, NEW row, CommitWith(t, One(r, row))
  PROVE  /\ view[t][r] = db[r] /\ db'[r] = row
         /\ \A q \in Row \ {r} : db'[q] = db[q]
         /\ active' = active \ {t}
         /\ \A u \in active' : view'[u] = view[u]
         /\ Discipline'
<1>1. DOMAIN One(r, row) = {r} /\ One(r, row)[r] = row
  BY DEF One
<1>2. QED
  BY <1>1, CommitFacts

-----------------------------------------------------------------------------
(* What the writes of the pairings leave.                                  *)
MatchedRow(row, e) == [row EXCEPT !.match = e, !.cleared = e]

SettledBy(row, i) == [row EXCEPT !.settles = i]

ClearedBy(row, l) == [row EXCEPT !.clears = l]

WithCleared(row, e) == [row EXCEPT !.cleared = e]

NewEntry(l, i) == [line |-> l, settles |-> i, clears |-> l, reversed |-> FALSE]

Others(t) ==
  active' = active \ {t} /\ (\A u \in active' : view'[u] = view[u]) /\ Discipline'

LEMMA MatchFacts ==
  ASSUME IInv, NEW t \in Txn, NEW l \in Line, NEW e \in Adjustment, NEW i \in Item,
         Match(t, l, e, i)
  PROVE  /\ t \in active /\ db[l] \in LineRow /\ db[l].cleared = None /\ db[e] = Absent
         /\ db[l].match # None => db[db[l].match] # Absent /\ db[db[l].match].reversed
         /\ Cardinality(db[i]) < Capacity
         /\ db'[l] = MatchedRow(db[l], e)
         /\ db'[e] = NewEntry(l, i)
         /\ db'[i] = db[i] \cup {e}
         /\ \A q \in Row \ {l, e, i} : db'[q] = db[q]
         /\ Others(t)
<1> DEFINE new == [r \in {l, e, i} |-> IF r = l THEN MatchedRow(view[t][l], e)
                                       ELSE IF r = e THEN NewEntry(l, i)
                                       ELSE view[t][i] \cup {e}]
<1>1. t \in active /\ CommitWith(t, new)
  BY DEF Match, MayMatch, Allocate, MatchedRow, NewEntry
<1>2. l \in Row /\ e \in Row /\ i \in Row /\ l # i /\ l # e /\ e # i
  BY RowAssumption
<1>3. DOMAIN new = {l, e, i} /\ new[i] = view[t][i] \cup {e} /\ new[e] = NewEntry(l, i)
      /\ new[l] = MatchedRow(view[t][l], e)
  BY <1>2
<1> HIDE DEF new
<1>4. /\ view[t][l] = db[l] /\ view[t][i] = db[i] /\ view[t][e] = db[e]
      /\ db'[l] = new[l] /\ db'[e] = new[e] /\ db'[i] = new[i]
      /\ \A q \in Row \ {l, e, i} : db'[q] = db[q]
      /\ Others(t)
  BY <1>1, <1>2, <1>3, CommitFacts DEF IInv, Others
<1>5. db[l] \in LineRow /\ db[l].cleared = None /\ db[e] = Absent
      /\ Cardinality(db[i]) < Capacity
  BY <1>4 DEF Match, MayMatch, Exists, IsReconciled, HasRoom, IInv, TypeOK, RowTypeOK
<1>6. ASSUME db[l].match # None
      PROVE  db[db[l].match] # Absent /\ db[db[l].match].reversed
  <2>1. db[l].match \in Adjustment
    BY <1>5, <1>6 DEF LineRow
  <2>2. view[t][db[l].match].reversed
    BY <1>4, <1>6 DEF Match
  <2>3. view[t][db[l].match] # Absent
    BY <1>1, <1>4, <1>5, <1>6, AbsentAssumption DEF IInv, RecordedSeen, Recorded, Existing
  <2>4. QED
    BY <1>1, <2>1, <2>2, <2>3 DEF IInv, ReversalsSeen
<1>7. QED
  BY <1>1, <1>3, <1>4, <1>5, <1>6

(* An adjustment loses pairings: the items and lines it is no longer       *)
(* paired with forget it.                                                  *)
LEMMA LoosenFacts ==
  ASSUME IInv, NEW t \in active, NEW e \in Adjustment, NEW entry \in AdjustmentRow,
         LoosenEffect(t, e, entry)
  PROVE  /\ db[e] \in AdjustmentRow /\ db'[e] = entry
         /\ entry.line = db[e].line /\ (db[e].reversed => entry.reversed)
         /\ entry.settles \in {db[e].settles, None, Reversal}
         /\ entry.clears \in {db[e].clears, None, Reversal}
         /\ \A i \in Item :
              db'[i] = IF i = db[e].settles /\ i # entry.settles THEN db[i] \ {e} ELSE db[i]
         /\ \A l \in Line :
              db'[l] = IF l = db[e].clears /\ l # entry.clears
                       THEN WithCleared(db[l], None) ELSE db[l]
         /\ \A q \in Rec \cup (Adjustment \ {e}) : db'[q] = db[q]
         /\ Others(t)
<1> USE RowAssumption
<1> DEFINE old == view[t][e]
           items == {old.settles} \cap (Item \ {entry.settles})
           lines == {old.clears} \cap (Line \ {entry.clears})
           new == Unpaired(t, e, entry)
<1>1. /\ DOMAIN new = {e} \cup items \cup lines /\ DOMAIN new \subseteq Row
      /\ new[e] = entry
      /\ \A i \in items : new[i] = view[t][i] \ {e}
      /\ \A l \in lines : new[l] = WithCleared(view[t][l], None)
  BY DEF Unpaired, WithCleared
<1>2. CommitWith(t, new)
  BY DEF LoosenEffect
<1> HIDE DEF new
<1>3. /\ \A r \in DOMAIN new : view[t][r] = db[r] /\ db'[r] = new[r]
      /\ \A r \in Row \ DOMAIN new : db'[r] = db[r]
      /\ Others(t)
  BY <1>1, <1>2, CommitFacts DEF IInv, Others
<1>4. old = db[e] /\ db[e] # Absent /\ db'[e] = entry
  BY <1>1, <1>3 DEF LoosenEffect
<1>5. db[e] \in AdjustmentRow
  BY <1>4 DEF IInv, TypeOK, RowTypeOK
<1>6. ASSUME NEW i \in Item
      PROVE  db'[i] = IF i = db[e].settles /\ i # entry.settles THEN db[i] \ {e} ELSE db[i]
  <2>1. i \in items <=> i = db[e].settles /\ i # entry.settles
    BY <1>4
  <2>2. i \in DOMAIN new <=> i \in items
    BY <1>1
  <2>3. QED
    BY <1>1, <1>3, <2>1, <2>2
<1>7. ASSUME NEW l \in Line
      PROVE  db'[l] = IF l = db[e].clears /\ l # entry.clears
                      THEN WithCleared(db[l], None) ELSE db[l]
  <2>1. l \in lines <=> l = db[e].clears /\ l # entry.clears
    BY <1>4
  <2>2. l \in DOMAIN new <=> l \in lines
    BY <1>1
  <2>3. QED
    BY <1>1, <1>3, <2>1, <2>2
<1>8. \A q \in Rec \cup (Adjustment \ {e}) : db'[q] = db[q]
  BY <1>1, <1>3
<1>9. QED
  BY <1>3, <1>4, <1>5, <1>6, <1>7, <1>8 DEF LoosenEffect

LEMMA SettleFacts ==
  ASSUME IInv, NEW t \in Txn, NEW e \in Adjustment, NEW i \in Item, SettleNatively(t, e, i)
  PROVE  /\ t \in active /\ db[e] \in AdjustmentRow /\ db[e].settles = None
         /\ Cardinality(db[i]) < Capacity
         /\ db'[e] = SettledBy(db[e], i) /\ db'[i] = db[i] \cup {e}
         /\ \A q \in Row \ {e, i} : db'[q] = db[q]
         /\ Others(t)
<1> DEFINE new == [r \in {e, i} |-> IF r = e THEN SettledBy(view[t][e], i)
                                    ELSE view[t][i] \cup {e}]
<1>1. t \in active /\ CommitWith(t, new)
  BY DEF SettleNatively, SettledBy
<1>2. e \in Row /\ i \in Row /\ e # i
  BY RowAssumption
<1>3. DOMAIN new = {e, i} /\ new[e] = SettledBy(view[t][e], i)
      /\ new[i] = view[t][i] \cup {e}
  BY <1>2
<1> HIDE DEF new
<1>4. /\ view[t][e] = db[e] /\ view[t][i] = db[i] /\ db'[e] = new[e] /\ db'[i] = new[i]
      /\ \A q \in Row \ {e, i} : db'[q] = db[q]
      /\ Others(t)
  BY <1>1, <1>2, <1>3, CommitFacts DEF IInv, Others
<1>5. db[e] \in AdjustmentRow /\ db[e].settles = None /\ Cardinality(db[i]) < Capacity
  BY <1>4 DEF SettleNatively, Exists, HasRoom, IInv, TypeOK, RowTypeOK
<1>6. QED
  BY <1>1, <1>3, <1>4, <1>5

LEMMA ClearFacts ==
  ASSUME IInv, NEW t \in Txn, NEW e \in Adjustment, NEW l \in Line, ClearNatively(t, e, l)
  PROVE  /\ t \in active /\ db[e] \in AdjustmentRow /\ db[e].clears = None
         /\ db[l] \in LineRow /\ db[l].cleared = None
         /\ db'[e] = ClearedBy(db[e], l) /\ db'[l] = WithCleared(db[l], e)
         /\ \A q \in Row \ {e, l} : db'[q] = db[q]
         /\ Others(t)
<1> DEFINE new == [r \in {e, l} |-> IF r = e THEN ClearedBy(view[t][e], l)
                                    ELSE WithCleared(view[t][l], e)]
<1>1. t \in active /\ CommitWith(t, new)
  BY DEF ClearNatively, ClearedBy, WithCleared
<1>2. e \in Row /\ l \in Row /\ e # l
  BY RowAssumption
<1>3. DOMAIN new = {e, l} /\ new[e] = ClearedBy(view[t][e], l)
      /\ new[l] = WithCleared(view[t][l], e)
  BY <1>2
<1> HIDE DEF new
<1>4. /\ view[t][e] = db[e] /\ view[t][l] = db[l] /\ db'[e] = new[e] /\ db'[l] = new[l]
      /\ \A q \in Row \ {e, l} : db'[q] = db[q]
      /\ Others(t)
  BY <1>1, <1>2, <1>3, CommitFacts DEF IInv, Others
<1>5. db[e] \in AdjustmentRow /\ db[e].clears = None /\ db[l] \in LineRow /\ db[l].cleared = None
  BY <1>4 DEF ClearNatively, Exists, IsReconciled, IInv, TypeOK, RowTypeOK
<1>6. QED
  BY <1>1, <1>3, <1>4, <1>5

(* A row written by a line's request agrees with the committed line.       *)
LEMMA LineFacts ==
  ASSUME IInv, NEW t \in active, NEW l \in Line, NEW row \in LineRow, LineEffect(t, l, row)
  PROVE  /\ db'[l] = row /\ \A q \in Row \ {l} : db'[q] = db[q]
         /\ view[t][l] = db[l]
         /\ db[l] = Absent => row.match = None /\ row.cleared = None
         /\ db[l] # Absent =>
              /\ row.match = db[l].match
              /\ row.cleared # db[l].cleared =>
                   row.cleared \notin Adjustment /\ db[l].cleared \notin Adjustment
         /\ Others(t)
<1>1. CommitWith(t, One(l, row)) /\ l \in Row
  BY RowAssumption DEF LineEffect
<1>2. /\ view[t][l] = db[l] /\ db'[l] = row
      /\ \A q \in Row \ {l} : db'[q] = db[q]
      /\ Others(t)
  BY <1>1, CommitOne DEF IInv, Others
<1>3. QED
  BY <1>2 DEF LineEffect

LEMMA RecFacts ==
  ASSUME IInv, NEW t \in active, NEW r \in Rec, NEW row \in RecRow, RecEffect(t, r, row)
  PROVE  /\ db'[r] = row /\ \A q \in Row \ {r} : db'[q] = db[q]
         /\ row.state = "reconciled" => row.statement = row.ledger /\ row.ledger = Ledger(view[t])
         /\ Others(t)
<1>1. CommitWith(t, One(r, row)) /\ r \in Row
  BY RowAssumption DEF RecEffect
<1>2. QED
  BY <1>1, CommitOne DEF IInv, RecEffect, Others

-----------------------------------------------------------------------------
LEMMA Initially == Init => IInv
<1> SUFFICES ASSUME Init PROVE IInv
  OBVIOUS
<1> USE RowAssumption
<1>1. /\ \A r \in Rec \cup Line \cup Adjustment : db[r] = Absent
      /\ \A i \in Item : db[i] = {}
      /\ active = {}
  BY DEF Init, DBInitWith
<1>2. TypeOK
  BY <1>1, FS_EmptySet, BalanceAssumption DEF TypeOK, RowTypeOK
<1>3. Discipline
  BY DisciplineInit DEF Init
<1>4. MatchesLive(db) /\ Balanced(db)
  BY <1>1 DEF MatchesLive, LiveMatches, Settled, Cleared, Recorded, Balanced, Existing, SignedOff
<1>5. ReversalsSeen /\ RecordedSeen
  BY <1>1 DEF ReversalsSeen, RecordedSeen
<1>6. QED
  BY <1>2, <1>3, <1>4, <1>5 DEF IInv

(* The views of the requests that go on are the ones they had.             *)
LEMMA ViewsKept ==
  ASSUME TypeOK, NEW t, Others(t), RowTypeOK(db)'
  PROVE  TypeOK'
BY DEF TypeOK, RowTypeOK, Others

LEMMA RoomKept ==
  ASSUME NEW S, IsFiniteSet(S), NEW x
  PROVE  /\ Cardinality(S) < Capacity => Cardinality(S \cup {x}) <= Capacity
         /\ Cardinality(S) <= Capacity => Cardinality(S \ {x}) <= Capacity
<1>1. Cardinality(S) \in Nat /\ Capacity \in Nat
  BY FS_CardinalityType, BalanceAssumption
<1>2. Cardinality(S \cup {x}) = IF x \in S THEN Cardinality(S) ELSE Cardinality(S) + 1
  BY FS_AddElement
<1>3. Cardinality(S \ {x}) = IF x \in S THEN Cardinality(S) - 1 ELSE Cardinality(S)
  BY FS_RemoveElement
<1>4. QED
  BY <1>1, <1>2, <1>3

LEMMA ItemsFinite ==
  ASSUME IInv, NEW i \in Item
  PROVE  /\ db[i] \subseteq Adjustment /\ Cardinality(db[i]) <= Capacity /\ IsFiniteSet(db[i])
         /\ \A e : Cardinality(db[i] \ {e}) <= Capacity
         /\ \A e : Cardinality(db[i]) < Capacity => Cardinality(db[i] \cup {e}) <= Capacity
<1>1. db[i] \subseteq Adjustment /\ Cardinality(db[i]) <= Capacity /\ IsFiniteSet(db[i])
  BY FiniteAssumption, FS_Subset DEF IInv, TypeOK, RowTypeOK
<1>2. QED
  BY <1>1, RoomKept

LEMMA TypeStep ==
  ASSUME IInv, NEW t \in Txn, Effect(t)
  PROVE  TypeOK'
<1> USE RowAssumption, AbsentAssumption
<1>1. CASE BeginTxn(t)
  BY <1>1 DEF BeginTxn, IInv, Discipline, TypeOK, RowTypeOK
<1>2. CASE AbortTxn(t)
  BY <1>2 DEF AbortTxn, EndTxn, IInv, Discipline, TypeOK, RowTypeOK
<1>3. ASSUME t \in active, NEW r \in Rec, NEW row \in RecRow, RecEffect(t, r, row)
      PROVE  TypeOK'
  <2>1. RowTypeOK(db)'
    BY <1>3, RecFacts DEF IInv, TypeOK, RowTypeOK
  <2>2. QED
    BY <1>3, <2>1, RecFacts, ViewsKept DEF IInv
<1>4. ASSUME t \in active, NEW l \in Line, NEW row \in LineRow, LineEffect(t, l, row)
      PROVE  TypeOK'
  <2>1. RowTypeOK(db)'
    BY <1>4, LineFacts DEF IInv, TypeOK, RowTypeOK
  <2>2. QED
    BY <1>4, <2>1, LineFacts, ViewsKept DEF IInv
<1>5. ASSUME NEW l \in Line, NEW e \in Adjustment, NEW i \in Item, Match(t, l, e, i)
      PROVE  TypeOK'
  <2>1. /\ db[l] \in LineRow /\ Cardinality(db[i]) < Capacity
        /\ db'[l] = MatchedRow(db[l], e) /\ db'[e] = NewEntry(l, i) /\ db'[i] = db[i] \cup {e}
        /\ \A q \in Row \ {l, e, i} : db'[q] = db[q]
    BY <1>5, MatchFacts
  <2>2. db'[l] \in LineRow /\ db'[e] \in AdjustmentRow
    <3>1. MatchedRow(db[l], e) \in LineRow
      BY <2>1 DEF LineRow, MatchedRow
    <3>2. NewEntry(l, i) \in AdjustmentRow
      BY DEF AdjustmentRow, NewEntry
    <3>3. QED BY <2>1, <3>1, <3>2
  <2>3. db'[i] \subseteq Adjustment /\ Cardinality(db'[i]) <= Capacity
    BY <2>1, ItemsFinite
  <2>4. /\ \A q \in Rec \cup (Line \ {l}) \cup (Adjustment \ {e}) : db'[q] = db[q]
        /\ \A j \in Item \ {i} : db'[j] = db[j]
    BY <2>1
  <2>5. RowTypeOK(db)'
    BY <2>2, <2>3, <2>4 DEF IInv, TypeOK, RowTypeOK
  <2>6. QED
    BY <1>5, <2>5, MatchFacts, ViewsKept DEF IInv
<1>6. ASSUME t \in active, NEW e \in Adjustment, NEW entry \in AdjustmentRow,
             LoosenEffect(t, e, entry)
      PROVE  TypeOK'
  <2>1. ASSUME NEW i \in Item
        PROVE  db'[i] \subseteq Adjustment /\ Cardinality(db'[i]) <= Capacity
    <3>1. db'[i] = db[i] \ {e} \/ db'[i] = db[i]
      <4>1. db'[i] = IF i = db[e].settles /\ i # entry.settles THEN db[i] \ {e} ELSE db[i]
        BY <1>6, LoosenFacts
      <4>2. QED BY <4>1
    <3>2. QED
      BY <3>1, ItemsFinite
  <2>2. ASSUME NEW l \in Line PROVE db'[l] \in LineRow \cup {Absent}
    <3>0. db'[l] = IF l = db[e].clears /\ l # entry.clears
                   THEN WithCleared(db[l], None) ELSE db[l]
      BY <1>6, LoosenFacts
    <3>1. CASE l = db[e].clears /\ l # entry.clears
      <4>1. db[e] # Absent
        BY <1>6, LoosenFacts
      <4>2. db[l] # Absent /\ db[l] \in LineRow \cup {Absent}
        BY <3>1, <4>1 DEF IInv, MatchesLive, Cleared, TypeOK, RowTypeOK
      <4>3. db'[l] = WithCleared(db[l], None)
        BY <3>0, <3>1
      <4>4. QED
        BY <4>2, <4>3 DEF LineRow, WithCleared
    <3>2. CASE ~(l = db[e].clears /\ l # entry.clears)
      <4>1. db'[l] = db[l]
        BY <3>0, <3>2
      <4>2. QED
        BY <4>1 DEF IInv, TypeOK, RowTypeOK
    <3>3. QED BY <3>1, <3>2
  <2>3. /\ db'[e] \in AdjustmentRow
        /\ \A q \in Rec \cup (Adjustment \ {e}) : db'[q] = db[q]
    BY <1>6, LoosenFacts
  <2>4. RowTypeOK(db)'
    BY <2>1, <2>2, <2>3 DEF IInv, TypeOK, RowTypeOK
  <2>5. QED
    BY <1>6, <2>4, LoosenFacts, ViewsKept DEF IInv
<1>7. ASSUME NEW e \in Adjustment, NEW i \in Item, SettleNatively(t, e, i)
      PROVE  TypeOK'
  <2>1. /\ db[e] \in AdjustmentRow /\ Cardinality(db[i]) < Capacity
        /\ db'[e] = SettledBy(db[e], i) /\ db'[i] = db[i] \cup {e}
        /\ \A q \in Row \ {e, i} : db'[q] = db[q]
    BY <1>7, SettleFacts
  <2>2. db'[e] \in AdjustmentRow
    BY <2>1 DEF AdjustmentRow, SettledBy
  <2>3. db'[i] \subseteq Adjustment /\ Cardinality(db'[i]) <= Capacity
    BY <2>1, ItemsFinite
  <2>4. /\ \A q \in Rec \cup Line \cup (Adjustment \ {e}) : db'[q] = db[q]
        /\ \A j \in Item \ {i} : db'[j] = db[j]
    BY <2>1
  <2>5. RowTypeOK(db)'
    BY <2>2, <2>3, <2>4 DEF IInv, TypeOK, RowTypeOK
  <2>6. QED
    BY <1>7, <2>5, SettleFacts, ViewsKept DEF IInv
<1>8. ASSUME NEW e \in Adjustment, NEW l \in Line, ClearNatively(t, e, l)
      PROVE  TypeOK'
  <2>1. /\ db[e] \in AdjustmentRow /\ db[l] \in LineRow
        /\ db'[e] = ClearedBy(db[e], l) /\ db'[l] = WithCleared(db[l], e)
        /\ \A q \in Row \ {e, l} : db'[q] = db[q]
    BY <1>8, ClearFacts
  <2>2. db'[e] \in AdjustmentRow /\ db'[l] \in LineRow
    BY <2>1 DEF AdjustmentRow, LineRow, ClearedBy, WithCleared
  <2>3. \A q \in Rec \cup (Line \ {l}) \cup (Adjustment \ {e}) \cup Item : db'[q] = db[q]
    BY <2>1
  <2>4. RowTypeOK(db)'
    BY <2>2, <2>3 DEF IInv, TypeOK, RowTypeOK
  <2>5. QED
    BY <1>8, <2>4, ClearFacts, ViewsKept DEF IInv
<1>9. QED
  BY <1>1, <1>2, <1>3, <1>4, <1>5, <1>6, <1>7, <1>8 DEF Effect

LEMMA DisciplineStep ==
  ASSUME IInv, NEW t \in Txn, Effect(t)
  PROVE  Discipline'
BY DisciplineBegin, DisciplineAbort, RecFacts, LineFacts, MatchFacts, LoosenFacts, SettleFacts,
   ClearFacts DEF IInv, Effect, Others

(* A live match is the only one: who matches a line finds its last match   *)
(* reversed, and whoever undoes a pairing undoes both ends.                *)
LEMMA MatchesStep ==
  ASSUME IInv, NEW t \in Txn, Effect(t)
  PROVE  MatchesLive(db)'
<1> USE RowAssumption, NoneAssumption, AbsentAssumption
<1>0. RowTypeOK(db)
  BY DEF IInv, TypeOK
<1>1. ASSUME \A q \in Line \cup Item \cup Adjustment : db'[q] = db[q]
      PROVE  MatchesLive(db)'
  <2>1. LiveMatches(db)'
    <3> SUFFICES ASSUME NEW e \in Adjustment, db'[e] # Absent, ~db'[e].reversed
                 PROVE  db'[db'[e].line] # Absent /\ db'[db'[e].line].match = e
      BY DEF LiveMatches, Existing
    <3>1. db[e] \in AdjustmentRow /\ db'[e] = db[e]
      BY <1>0, <1>1 DEF RowTypeOK
    <3>2. db[e].line \in Line
      BY <3>1 DEF AdjustmentRow
    <3>3. QED
      BY <1>1, <3>1, <3>2 DEF IInv, MatchesLive, LiveMatches, Existing
  <2>2. Settled(db)' /\ Cleared(db)'
    BY <1>1 DEF IInv, MatchesLive, Settled, Cleared
  <2>3. Recorded(db)'
    <3> SUFFICES ASSUME NEW l \in Line, db'[l] # Absent, db'[l].match # None
                 PROVE  db'[db'[l].match] # Absent
      BY DEF Recorded, Existing
    <3>1. db[l] \in LineRow /\ db'[l] = db[l]
      BY <1>0, <1>1 DEF RowTypeOK
    <3>2. db[l].match \in Adjustment
      BY <3>1 DEF LineRow
    <3>3. QED
      BY <1>1, <3>1, <3>2 DEF IInv, MatchesLive, Recorded, Existing
  <2>4. QED
    BY <2>1, <2>2, <2>3 DEF MatchesLive
<1>2. CASE BeginTxn(t) \/ AbortTxn(t)
  BY <1>1, <1>2 DEF BeginTxn, AbortTxn
<1>3. ASSUME t \in active, NEW r \in Rec, NEW row \in RecRow, RecEffect(t, r, row)
      PROVE  MatchesLive(db)'
  BY <1>1, <1>3, RecFacts
\* What is left to show when every line that has a match keeps it, and no
\* adjustment disappears, moves to another line or is not reversed any more.
<1>4. ASSUME \A e \in Adjustment : db[e] # Absent =>
               /\ db'[e] # Absent /\ db'[e].line = db[e].line
               /\ db[e].reversed => db'[e].reversed,
             \A e \in Adjustment : db[e] = Absent => db'[e] = Absent,
             \A l \in Line : db[l] # Absent =>
               db'[l] # Absent /\ db'[l].match = db[l].match,
             \A l \in Line : db[l] = Absent /\ db'[l] # Absent => db'[l].match = None
      PROVE  LiveMatches(db)' /\ Recorded(db)'
  <2>1. ASSUME NEW e \in Adjustment, db'[e] # Absent, ~db'[e].reversed
        PROVE  db'[db'[e].line] # Absent /\ db'[db'[e].line].match = e
    <3>1. db[e] \in AdjustmentRow /\ ~db[e].reversed /\ db'[e].line = db[e].line
      BY <1>0, <1>4, <2>1 DEF RowTypeOK
    <3>2. db[e].line \in Line
      BY <3>1 DEF AdjustmentRow
    <3>3. db[db[e].line] # Absent /\ db[db[e].line].match = e
      BY <3>1 DEF IInv, MatchesLive, LiveMatches, Existing
    <3>4. QED
      BY <1>4, <3>1, <3>2, <3>3
  <2>2. ASSUME NEW l \in Line, db'[l] # Absent, db'[l].match # None
        PROVE  db'[db'[l].match] # Absent
    <3>1. db[l] \in LineRow /\ db'[l].match = db[l].match
      BY <1>0, <1>4, <2>2 DEF RowTypeOK
    <3>2. db[l].match \in Adjustment /\ db[db[l].match] # Absent
      BY <2>2, <3>1 DEF LineRow, IInv, MatchesLive, Recorded, Existing
    <3>3. QED
      BY <1>4, <3>1, <3>2
  <2>3. QED
    BY <2>1, <2>2 DEF LiveMatches, Recorded, Existing
<1>5. ASSUME t \in active, NEW l \in Line, NEW row \in LineRow, LineEffect(t, l, row)
      PROVE  MatchesLive(db)'
  <2>1. /\ db'[l] = row /\ \A q \in (Line \cup Item \cup Adjustment) \ {l} : db'[q] = db[q]
        /\ db[l] = Absent => row.match = None /\ row.cleared = None
        /\ db[l] # Absent =>
             /\ row.match = db[l].match
             /\ row.cleared # db[l].cleared =>
                  row.cleared \notin Adjustment /\ db[l].cleared \notin Adjustment
        /\ row # Absent
    BY <1>5, LineFacts
  <2>2. LiveMatches(db)' /\ Recorded(db)'
    BY <1>4, <2>1
  <2>3. Settled(db)'
    BY <2>1 DEF IInv, MatchesLive, Settled
  <2>4. ASSUME NEW e \in Adjustment, NEW k \in Line
        PROVE  db'[k] # Absent /\ db'[k].cleared = e <=> db[k] # Absent /\ db[k].cleared = e
    BY <2>1
  <2>5. Cleared(db)'
    BY <2>1, <2>4 DEF IInv, MatchesLive, Cleared
  <2>6. QED
    BY <2>2, <2>3, <2>5 DEF MatchesLive
<1>6. ASSUME NEW l \in Line, NEW e \in Adjustment, NEW i \in Item, Match(t, l, e, i)
      PROVE  MatchesLive(db)'
  <2>1. /\ db[l] \in LineRow /\ db[l].cleared = None /\ db[e] = Absent
        /\ db[l].match # None => db[db[l].match] # Absent /\ db[db[l].match].reversed
        /\ db'[l] = MatchedRow(db[l], e) /\ db'[e] = NewEntry(l, i) /\ db'[i] = db[i] \cup {e}
        /\ \A q \in (Line \cup Item \cup Adjustment) \ {l, e, i} : db'[q] = db[q]
    BY <1>6, MatchFacts
  <2>2. /\ db'[l] # Absent /\ db'[l].match = e /\ db'[l].cleared = e
        /\ db'[e] # Absent /\ db'[e].line = l /\ db'[e].settles = i /\ db'[e].clears = l
    <3>1. db'[l] # Absent /\ db'[l].match = e /\ db'[l].cleared = e
      <4>1. MatchedRow(db[l], e) \in LineRow
        BY <2>1 DEF LineRow, MatchedRow
      <4>2. MatchedRow(db[l], e).match = e /\ MatchedRow(db[l], e).cleared = e
        BY <2>1 DEF LineRow, MatchedRow
      <4>3. QED BY <2>1, <4>1, <4>2
    <3>2. NewEntry(l, i) \in AdjustmentRow
      BY DEF AdjustmentRow, NewEntry
    <3>3. /\ NewEntry(l, i).line = l /\ NewEntry(l, i).settles = i /\ NewEntry(l, i).clears = l
      BY DEF NewEntry
    <3>4. QED BY <2>1, <3>1, <3>2, <3>3
  <2>3. ASSUME NEW f \in Adjustment, db'[f] # Absent, ~db'[f].reversed
        PROVE  db'[db'[f].line] # Absent /\ db'[db'[f].line].match = f
    <3>1. CASE f = e
      BY <2>2, <3>1
    <3>2. CASE f # e
      <4>1. db'[f] = db[f] /\ db[f] \in AdjustmentRow
        BY <1>0, <2>1, <2>3, <3>2 DEF RowTypeOK
      <4>2. db[f].line \in Line /\ db[db[f].line] # Absent /\ db[db[f].line].match = f
        BY <2>3, <4>1 DEF AdjustmentRow, IInv, MatchesLive, LiveMatches, Existing
      <4>3. db[f].line # l
        <5>1. f # None
          OBVIOUS
        <5>2. QED
          BY <2>1, <2>3, <4>1, <4>2, <5>1
      <4>4. QED
        BY <2>1, <4>1, <4>2, <4>3
    <3>3. QED BY <3>1, <3>2
  <2>4. ASSUME NEW k \in Line, db'[k] # Absent, db'[k].match # None
        PROVE  db'[db'[k].match] # Absent
    <3>1. CASE k = l
      BY <2>2, <3>1
    <3>2. CASE k # l
      <4>1. db'[k] = db[k] /\ db[k] \in LineRow
        BY <1>0, <2>1, <2>4, <3>2 DEF RowTypeOK
      <4>2. db[k].match \in Adjustment /\ db[db[k].match] # Absent
        BY <2>4, <4>1 DEF LineRow, IInv, MatchesLive, Recorded, Existing
      <4>3. QED
        BY <2>1, <2>2, <4>1, <4>2
    <3>3. QED BY <3>1, <3>2
  <2>5. ASSUME NEW f \in Adjustment, NEW j \in Item
        PROVE  f \in db'[j] <=> db'[f] # Absent /\ db'[f].settles = j
    <3>1. f \in db[j] <=> db[f] # Absent /\ db[f].settles = j
      BY DEF IInv, MatchesLive, Settled
    <3>2. CASE f = e
      BY <2>1, <2>2, <3>1, <3>2
    <3>3. CASE f # e
      BY <2>1, <3>1, <3>3
    <3>4. QED BY <3>2, <3>3
  <2>6. ASSUME NEW f \in Adjustment, NEW k \in Line
        PROVE  db'[k] # Absent /\ db'[k].cleared = f <=> db'[f] # Absent /\ db'[f].clears = k
    <3>1. db[k] # Absent /\ db[k].cleared = f <=> db[f] # Absent /\ db[f].clears = k
      BY DEF IInv, MatchesLive, Cleared
    <3>2. CASE f = e
      BY <2>1, <2>2, <3>1, <3>2
    <3>3. CASE f # e
      BY <2>1, <2>2, <3>1, <3>3
    <3>4. QED BY <3>2, <3>3
  <2>7. QED
    BY <2>3, <2>4, <2>5, <2>6 DEF MatchesLive, LiveMatches, Settled, Cleared, Recorded, Existing
<1>7. ASSUME t \in active, NEW e \in Adjustment, NEW entry \in AdjustmentRow,
             LoosenEffect(t, e, entry)
      PROVE  MatchesLive(db)'
  <2>1. /\ db[e] \in AdjustmentRow /\ db'[e] = entry /\ db[e] # Absent /\ entry # Absent
        /\ entry.line = db[e].line /\ (db[e].reversed => entry.reversed)
        /\ entry.settles \in {db[e].settles, None, Reversal}
        /\ entry.clears \in {db[e].clears, None, Reversal}
        /\ \A q \in Adjustment \ {e} : db'[q] = db[q]
    BY <1>7, LoosenFacts
  <2>2. ASSUME NEW l \in Line
        PROVE  /\ db'[l] # Absent <=> db[l] # Absent
               /\ db[l] # Absent =>
                    /\ db'[l].match = db[l].match
                    /\ db'[l].cleared = IF l = db[e].clears /\ l # entry.clears THEN None
                                        ELSE db[l].cleared
    <3>1. db'[l] = IF l = db[e].clears /\ l # entry.clears
                   THEN WithCleared(db[l], None) ELSE db[l]
      BY <1>7, LoosenFacts
    <3>2. db[l] \in LineRow \cup {Absent}
      BY <1>0 DEF RowTypeOK
    <3>3. l = db[e].clears => db[l] # Absent
      BY <2>1 DEF IInv, MatchesLive, Cleared
    <3>4. db[l] # Absent =>
            /\ WithCleared(db[l], None) \in LineRow
            /\ WithCleared(db[l], None).match = db[l].match
            /\ WithCleared(db[l], None).cleared = None
      BY <3>2 DEF LineRow, WithCleared
    <3>5. QED
      BY <3>1, <3>3, <3>4
  <2>3. LiveMatches(db)' /\ Recorded(db)'
    <3>1. /\ \A f \in Adjustment : db[f] # Absent =>
               /\ db'[f] # Absent /\ db'[f].line = db[f].line
               /\ db[f].reversed => db'[f].reversed
          /\ \A f \in Adjustment : db[f] = Absent => db'[f] = Absent
      BY <2>1
    <3>2. /\ \A l \in Line : db[l] # Absent => db'[l] # Absent /\ db'[l].match = db[l].match
          /\ \A l \in Line : db[l] = Absent /\ db'[l] # Absent => db'[l].match = None
      BY <2>2
    <3>3. QED
      BY <1>4, <3>1, <3>2
  <2>4. ASSUME NEW f \in Adjustment, NEW j \in Item
        PROVE  f \in db'[j] <=> db'[f] # Absent /\ db'[f].settles = j
    <3>1. f \in db[j] <=> db[f] # Absent /\ db[f].settles = j
      BY DEF IInv, MatchesLive, Settled
    <3>2. db'[j] = IF j = db[e].settles /\ j # entry.settles THEN db[j] \ {e} ELSE db[j]
      BY <1>7, LoosenFacts
    <3>3. CASE f = e
      BY <2>1, <3>1, <3>2, <3>3
    <3>4. CASE f # e
      BY <2>1, <3>1, <3>2, <3>4
    <3>5. QED BY <3>3, <3>4
  <2>5. ASSUME NEW f \in Adjustment, NEW k \in Line
        PROVE  db'[k] # Absent /\ db'[k].cleared = f <=> db'[f] # Absent /\ db'[f].clears = k
    <3>1. db[k] # Absent /\ db[k].cleared = f <=> db[f] # Absent /\ db[f].clears = k
      BY DEF IInv, MatchesLive, Cleared
    <3>2. f # None
      OBVIOUS
    <3>3. CASE f = e
      BY <2>1, <2>2, <3>1, <3>2, <3>3
    <3>4. CASE f # e
      <4>1. k = db[e].clears => db[k].cleared = e
        BY <2>1 DEF IInv, MatchesLive, Cleared
      <4>2. QED
        BY <2>1, <2>2, <3>1, <3>2, <3>4, <4>1
    <3>5. QED BY <3>3, <3>4
  <2>6. QED
    BY <2>3, <2>4, <2>5 DEF MatchesLive, Settled, Cleared
<1>8. ASSUME NEW e \in Adjustment, NEW i \in Item, SettleNatively(t, e, i)
      PROVE  MatchesLive(db)'
  <2>1. /\ db[e] \in AdjustmentRow /\ db[e].settles = None /\ db[e] # Absent
        /\ db'[e] = SettledBy(db[e], i) /\ db'[i] = db[i] \cup {e}
        /\ \A q \in (Line \cup Item \cup Adjustment) \ {e, i} : db'[q] = db[q]
    BY <1>8, SettleFacts
  <2>2. /\ db'[e] # Absent /\ db'[e].line = db[e].line /\ db'[e].settles = i
        /\ db'[e].clears = db[e].clears /\ db'[e].reversed = db[e].reversed
    <3>1. SettledBy(db[e], i) \in AdjustmentRow
      BY <2>1 DEF AdjustmentRow, SettledBy
    <3>2. QED BY <2>1, <3>1 DEF AdjustmentRow, SettledBy
  <2>3. LiveMatches(db)' /\ Recorded(db)'
    BY <1>4, <2>1, <2>2
  <2>4. ASSUME NEW f \in Adjustment, NEW j \in Item
        PROVE  f \in db'[j] <=> db'[f] # Absent /\ db'[f].settles = j
    <3>1. f \in db[j] <=> db[f] # Absent /\ db[f].settles = j
      BY DEF IInv, MatchesLive, Settled
    <3>2. CASE f = e
      BY <2>1, <2>2, <3>1, <3>2
    <3>3. CASE f # e
      BY <2>1, <3>1, <3>3
    <3>4. QED BY <3>2, <3>3
  <2>5. ASSUME NEW f \in Adjustment, NEW k \in Line
        PROVE  db'[k] # Absent /\ db'[k].cleared = f <=> db'[f] # Absent /\ db'[f].clears = k
    <3>1. db[k] # Absent /\ db[k].cleared = f <=> db[f] # Absent /\ db[f].clears = k
      BY DEF IInv, MatchesLive, Cleared
    <3>2. db'[k] = db[k] /\ (f # e => db'[f] = db[f])
      BY <2>1
    <3>3. QED
      BY <2>1, <2>2, <3>1, <3>2
  <2>6. QED
    BY <2>3, <2>4, <2>5 DEF MatchesLive, Settled, Cleared
<1>9. ASSUME NEW e \in Adjustment, NEW l \in Line, ClearNatively(t, e, l)
      PROVE  MatchesLive(db)'
  <2>1. /\ db[e] \in AdjustmentRow /\ db[e].clears = None /\ db[e] # Absent
        /\ db[l] \in LineRow /\ db[l].cleared = None /\ db[l] # Absent
        /\ db'[e] = ClearedBy(db[e], l) /\ db'[l] = WithCleared(db[l], e)
        /\ \A q \in (Line \cup Item \cup Adjustment) \ {e, l} : db'[q] = db[q]
    BY <1>9, ClearFacts
  <2>2. /\ db'[e] # Absent /\ db'[e].line = db[e].line /\ db'[e].clears = l
        /\ db'[e].settles = db[e].settles /\ db'[e].reversed = db[e].reversed
        /\ db'[l] # Absent /\ db'[l].match = db[l].match /\ db'[l].cleared = e
    <3>1. ClearedBy(db[e], l) \in AdjustmentRow /\ WithCleared(db[l], e) \in LineRow
      BY <2>1 DEF AdjustmentRow, LineRow, ClearedBy, WithCleared
    <3>2. QED BY <2>1, <3>1 DEF AdjustmentRow, LineRow, ClearedBy, WithCleared
  <2>3. LiveMatches(db)' /\ Recorded(db)'
    BY <1>4, <2>1, <2>2
  <2>4. ASSUME NEW f \in Adjustment, NEW j \in Item
        PROVE  f \in db'[j] <=> db'[f] # Absent /\ db'[f].settles = j
    <3>1. f \in db[j] <=> db[f] # Absent /\ db[f].settles = j
      BY DEF IInv, MatchesLive, Settled
    <3>2. db'[j] = db[j] /\ (f # e => db'[f] = db[f])
      BY <2>1
    <3>3. QED
      BY <2>1, <2>2, <3>1, <3>2
  <2>5. ASSUME NEW f \in Adjustment, NEW k \in Line
        PROVE  db'[k] # Absent /\ db'[k].cleared = f <=> db'[f] # Absent /\ db'[f].clears = k
    <3>1. db[k] # Absent /\ db[k].cleared = f <=> db[f] # Absent /\ db[f].clears = k
      BY DEF IInv, MatchesLive, Cleared
    <3>2. (k # l => db'[k] = db[k]) /\ (f # e => db'[f] = db[f])
      BY <2>1
    <3>3. CASE f = e /\ k = l
      BY <2>2, <3>3
    <3>4. CASE f = e /\ k # l
      BY <2>1, <2>2, <3>1, <3>2, <3>4
    <3>5. CASE f # e /\ k = l
      <4>1. f # None
        OBVIOUS
      <4>2. QED BY <2>1, <2>2, <3>1, <3>2, <3>5, <4>1
    <3>6. CASE f # e /\ k # l
      BY <3>1, <3>2, <3>6
    <3>7. QED BY <3>3, <3>4, <3>5, <3>6
  <2>6. QED
    BY <2>3, <2>4, <2>5 DEF MatchesLive, Settled, Cleared
<1>10. QED
  BY <1>2, <1>3, <1>5, <1>6, <1>7, <1>8, <1>9 DEF Effect

(* What a request has read of a match stays so: adjustments are never      *)
(* deleted, and a reversal is never taken back.                            *)
LEMMA SeenStep ==
  ASSUME IInv, NEW t \in Txn, Effect(t)
  PROVE  ReversalsSeen' /\ RecordedSeen'
<1> USE RowAssumption, AbsentAssumption
<1>1. CASE BeginTxn(t)
  <2>1. /\ db' = db /\ active' = active \cup {t} /\ view'[t] = db
        /\ \A u \in active' \ {t} : u \in active /\ view'[u] = view[u]
    BY <1>1 DEF BeginTxn, IInv, Discipline
  <2>2. Recorded(db)
    BY DEF IInv, MatchesLive
  <2>3. RecordedSeen'
    BY <2>1, <2>2 DEF IInv, RecordedSeen, Recorded, Existing
  <2>4. ReversalsSeen'
    BY <2>1 DEF IInv, ReversalsSeen
  <2>5. QED BY <2>3, <2>4
<1>2. ASSUME \A u \in active' : u \in active /\ view'[u] = view[u],
             \A e \in Adjustment : db[e] # Absent /\ db[e].reversed =>
               db'[e] # Absent /\ db'[e].reversed
      PROVE  ReversalsSeen' /\ RecordedSeen'
  BY <1>2 DEF IInv, ReversalsSeen, RecordedSeen, Recorded, Existing
<1>3. CASE AbortTxn(t)
  <2>1. db' = db /\ \A u \in active' : u \in active /\ view'[u] = view[u]
    BY <1>3 DEF AbortTxn, EndTxn, IInv, Discipline
  <2>2. QED BY <1>2, <2>1
<1>4. ASSUME t \in active, NEW r \in Rec, NEW row \in RecRow, RecEffect(t, r, row)
      PROVE  ReversalsSeen' /\ RecordedSeen'
  BY <1>2, <1>4, RecFacts DEF Others
<1>5. ASSUME t \in active, NEW l \in Line, NEW row \in LineRow, LineEffect(t, l, row)
      PROVE  ReversalsSeen' /\ RecordedSeen'
  BY <1>2, <1>5, LineFacts DEF Others
<1>6. ASSUME NEW l \in Line, NEW e \in Adjustment, NEW i \in Item, Match(t, l, e, i)
      PROVE  ReversalsSeen' /\ RecordedSeen'
  BY <1>2, <1>6, MatchFacts DEF Others
<1>7. ASSUME t \in active, NEW e \in Adjustment, NEW entry \in AdjustmentRow,
             LoosenEffect(t, e, entry)
      PROVE  ReversalsSeen' /\ RecordedSeen'
  BY <1>2, <1>7, LoosenFacts DEF Others
<1>8. ASSUME NEW e \in Adjustment, NEW i \in Item, SettleNatively(t, e, i)
      PROVE  ReversalsSeen' /\ RecordedSeen'
  <2>1. db[e] \in AdjustmentRow /\ db'[e] = SettledBy(db[e], i)
        /\ \A f \in Adjustment \ {e} : db'[f] = db[f]
    BY <1>8, SettleFacts
  <2>2. db'[e] \in AdjustmentRow /\ db'[e].reversed = db[e].reversed
    BY <2>1 DEF AdjustmentRow, SettledBy, ClearedBy
  <2>3. QED
    BY <1>2, <1>8, <2>1, <2>2, SettleFacts DEF Others
<1>9. ASSUME NEW e \in Adjustment, NEW l \in Line, ClearNatively(t, e, l)
      PROVE  ReversalsSeen' /\ RecordedSeen'
  <2>1. db[e] \in AdjustmentRow /\ db'[e] = ClearedBy(db[e], l)
        /\ \A f \in Adjustment \ {e} : db'[f] = db[f]
    BY <1>9, ClearFacts
  <2>2. db'[e] \in AdjustmentRow /\ db'[e].reversed = db[e].reversed
    BY <2>1 DEF AdjustmentRow, SettledBy, ClearedBy
  <2>3. QED
    BY <1>2, <1>9, <2>1, <2>2, ClearFacts DEF Others
<1>10. QED
  BY <1>1, <1>3, <1>4, <1>5, <1>6, <1>7, <1>8, <1>9 DEF Effect

(* Only a reconciliation's own request writes its row.                     *)
LEMMA RecsKept ==
  ASSUME IInv, NEW t \in Txn, Effect(t),
         ~\E r \in Rec, row \in RecRow : t \in active /\ RecEffect(t, r, row)
  PROVE  \A r \in Rec : db'[r] = db[r]
<1> USE RowAssumption
<1>1. CASE BeginTxn(t) \/ AbortTxn(t)
  BY <1>1 DEF BeginTxn, AbortTxn
<1>2. ASSUME t \in active, NEW l \in Line, NEW row \in LineRow, LineEffect(t, l, row)
      PROVE  \A r \in Rec : db'[r] = db[r]
  BY <1>2, LineFacts
<1>3. ASSUME NEW l \in Line, NEW e \in Adjustment, NEW i \in Item, Match(t, l, e, i)
      PROVE  \A r \in Rec : db'[r] = db[r]
  BY <1>3, MatchFacts
<1>4. ASSUME t \in active, NEW e \in Adjustment, NEW entry \in AdjustmentRow,
             LoosenEffect(t, e, entry)
      PROVE  \A r \in Rec : db'[r] = db[r]
  BY <1>4, LoosenFacts
<1>5. ASSUME NEW e \in Adjustment, NEW i \in Item, SettleNatively(t, e, i)
      PROVE  \A r \in Rec : db'[r] = db[r]
  BY <1>5, SettleFacts
<1>6. ASSUME NEW e \in Adjustment, NEW l \in Line, ClearNatively(t, e, l)
      PROVE  \A r \in Rec : db'[r] = db[r]
  BY <1>6, ClearFacts
<1>7. QED
  BY <1>1, <1>2, <1>3, <1>4, <1>5, <1>6 DEF Effect

(* A reconciliation that is signed off was balanced when it was written.   *)
LEMMA BalancedStep ==
  ASSUME IInv, NEW t \in Txn, Effect(t)
  PROVE  Balanced(db)'
<1> USE RowAssumption DEF IInv, Balanced, SignedOff
<1>1. ASSUME t \in active, NEW r \in Rec, NEW row \in RecRow, RecEffect(t, r, row)
      PROVE  Balanced(db)'
  <2>1. /\ db'[r] = row /\ \A q \in Rec \ {r} : db'[q] = db[q]
        /\ row.state = "reconciled" => row.statement = row.ledger
    BY <1>1, RecFacts
  <2>2. QED
    BY <2>1
<1>2. ASSUME \A r \in Rec : db'[r] = db[r]
      PROVE  Balanced(db)'
  BY <1>2
<1>3. QED
  BY <1>1, <1>2, RecsKept

(* The invariant of every reachable state.                                 *)
THEOREM InductiveInvariant == Spec => []IInv
<1>1. IInv /\ [Next]_vars => IInv'
  <2> SUFFICES ASSUME IInv, [Next]_vars PROVE IInv'
    OBVIOUS
  <2>1. CASE Next
    <3>1. PICK t \in Txn : Effect(t)
      BY <2>1, NextEffect
    <3>2. QED
      BY <3>1, DisciplineStep, TypeStep, MatchesStep, SeenStep, BalancedStep DEF IInv
  <2>2. CASE UNCHANGED vars
    BY <2>2 DEF vars, dbVars, IInv, Discipline, IdleClean, ViewsCurrent, TypeOK, RowTypeOK,
                MatchesLive, LiveMatches, Settled, Cleared, Recorded, ReversalsSeen, RecordedSeen,
                Balanced, Existing, SignedOff
  <2>3. QED BY <2>1, <2>2
<1>2. QED
  BY Initially, <1>1, PTL DEF Spec

(* An adjusting entry that is not reversed is the one match its line       *)
(* records, and both ends of a pairing agree, whoever matches, reverses,   *)
(* pairs and undoes natively and in which order                            *)
(* (action_match_thirdcode_items, action_reverse_thirdcode_match,          *)
(* reconcile, remove_move_reconcile).                                      *)
THEOREM MatchesStayLive == Spec => []OneLiveMatch
<1>1. IInv => OneLiveMatch
  BY DEF IInv, MatchesLive, LiveMatches, Settled, Cleared, OneLiveMatch
<1>2. QED
  BY InductiveInvariant, <1>1, PTL

(* A signed-off reconciliation shows no difference (action_reconcile and   *)
(* the write guard of the reconciliation).                                 *)
THEOREM SignedOffStaysBalanced == Spec => []SignedOffBalanced
<1>1. IInv => SignedOffBalanced
  BY DEF IInv, Balanced, SignedOffBalanced
<1>2. QED
  BY InductiveInvariant, <1>1, PTL

-----------------------------------------------------------------------------
LEMMA LedgerChecked ==
  ASSUME IInv, NEW t \in Txn, Effect(t), NEW r \in Rec, NEW u \in active \ active',
         ~SignedOff(db, r), SignedOff(db', r)
  PROVE  db'[r].ledger = Ledger(view[u])
<1> USE RowAssumption
<1>1. PICK q \in Rec, row \in RecRow : t \in active /\ RecEffect(t, q, row)
  BY RecsKept DEF SignedOff
<1>2. /\ db'[q] = row /\ (r # q => db'[r] = db[r]) /\ u = t
      /\ row.state = "reconciled" => row.ledger = Ledger(view[t])
  BY <1>1, RecFacts DEF Others
<1>3. QED
  BY <1>2 DEF SignedOff

(* The balance a reconciliation is signed off with counts every bank entry *)
(* committed before the signing request began, and there is no difference  *)
(* then or later (action_reconcile).                                       *)
THEOREM LedgerIsCurrent == Spec => SignedOffOnCurrentLedger
<1> DEFINE A == \A r \in Rec : SignedOff(db', r) =>
                  /\ db'[r].statement = db'[r].ledger
                  /\ ~SignedOff(db, r) =>
                       \A t \in active \ active' : db'[r].ledger = Ledger(view[t])
<1>1. IInv /\ SignedOffBalanced' /\ [Next]_vars => [A]_vars
  <2> SUFFICES ASSUME IInv, SignedOffBalanced', Next, NEW r \in Rec, SignedOff(db', r)
               PROVE  /\ db'[r].statement = db'[r].ledger
                      /\ ~SignedOff(db, r) =>
                           \A t \in active \ active' : db'[r].ledger = Ledger(view[t])
    BY DEF A
  <2>1. db'[r].statement = db'[r].ledger BY DEF SignedOffBalanced
  <2>2. ~SignedOff(db, r) => \A t \in active \ active' : db'[r].ledger = Ledger(view[t])
    BY NextEffect, LedgerChecked
  <2> QED BY <2>1, <2>2
<1>2. QED
  BY InductiveInvariant, SignedOffStaysBalanced, <1>1, PTL DEF Spec, SignedOffOnCurrentLedger

(* A request that has not missed the sign-off reads it and is refused, so  *)
(* it leaves the lines of the reconciliation alone.                        *)
LEMMA LinesKept ==
  ASSUME IInv, NEW t \in Txn, Effect(t), NEW r \in Rec, NEW u \in active \ active',
         StaysSignedOff(r), r \notin missed[u]
  PROVE  LinesOf(db', r) = LinesOf(db, r)
<1> USE RowAssumption, NoneAssumption, AbsentAssumption
<1>1. ASSUME \A l \in Line : /\ db'[l] = Absent <=> db[l] = Absent
                             /\ db[l] # Absent => db'[l].rec = db[l].rec
      PROVE  LinesOf(db', r) = LinesOf(db, r)
  <2>1. \A l \in Line : l \in LinesOf(db', r) <=> l \in LinesOf(db, r)
    BY <1>1 DEF LinesOf, Existing
  <2>2. LinesOf(db', r) \subseteq Line /\ LinesOf(db, r) \subseteq Line
    BY DEF LinesOf, Existing
  <2>3. QED BY <2>1, <2>2
<1>2. CASE BeginTxn(t) \/ AbortTxn(t)
  BY <1>1, <1>2 DEF BeginTxn, AbortTxn
<1>3. ASSUME t \in active, NEW q \in Rec, NEW row \in RecRow, RecEffect(t, q, row)
      PROVE  LinesOf(db', r) = LinesOf(db, r)
  <2>1. \A l \in Line : db'[l] = db[l]
    BY <1>3, RecFacts
  <2>2. QED BY <1>1, <2>1
<1>4. ASSUME t \in active, NEW l \in Line, NEW row \in LineRow, LineEffect(t, l, row)
      PROVE  LinesOf(db', r) = LinesOf(db, r)
  <2>1. /\ db'[l] = row /\ \A k \in Line \ {l} : db'[k] = db[k]
        /\ view[t][l] = db[l] /\ u = t /\ row # Absent
    BY <1>4, LineFacts DEF Others
  <2>2. view[t][r] = db[r]
    BY <1>4, <2>1 DEF IInv, Discipline, ViewsCurrent
  <2>3. SignedOff(view[t], r)
    BY <2>2 DEF StaysSignedOff, SignedOff
  <2>4. row.rec # RecOf(t, l) => RecOf(t, l) # r /\ row.rec # r
    BY <1>4, <2>3 DEF LineEffect
  <2>5. l \in LinesOf(db', r) <=> l \in LinesOf(db, r)
    BY <2>1, <2>4 DEF LinesOf, Existing, RecOf
  <2>6. \A k \in Line \ {l} : k \in LinesOf(db', r) <=> k \in LinesOf(db, r)
    BY <2>1 DEF LinesOf, Existing
  <2>7. LinesOf(db', r) \subseteq Line /\ LinesOf(db, r) \subseteq Line
    BY DEF LinesOf, Existing
  <2>8. QED
    BY <2>5, <2>6, <2>7
<1>5. ASSUME NEW l \in Line, NEW e \in Adjustment, NEW i \in Item, Match(t, l, e, i)
      PROVE  LinesOf(db', r) = LinesOf(db, r)
  <2>1. /\ db[l] \in LineRow /\ db'[l] = MatchedRow(db[l], e)
        /\ \A k \in Line \ {l} : db'[k] = db[k]
    BY <1>5, MatchFacts
  <2>2. db'[l] \in LineRow /\ db'[l].rec = db[l].rec
    BY <2>1 DEF LineRow, MatchedRow
  <2>3. QED BY <1>1, <2>1, <2>2
<1>6. ASSUME t \in active, NEW e \in Adjustment, NEW entry \in AdjustmentRow,
             LoosenEffect(t, e, entry)
      PROVE  LinesOf(db', r) = LinesOf(db, r)
  <2> SUFFICES ASSUME NEW l \in Line
               PROVE  /\ db'[l] = Absent <=> db[l] = Absent
                      /\ db[l] # Absent => db'[l].rec = db[l].rec
    BY <1>1
  <2>1. db'[l] = IF l = db[e].clears /\ l # entry.clears
                 THEN WithCleared(db[l], None) ELSE db[l]
    BY <1>6, LoosenFacts
  <2>2. db[l] \in LineRow \cup {Absent}
    BY DEF IInv, TypeOK, RowTypeOK
  <2>3. db[e] # Absent
    BY <1>6, LoosenFacts
  <2>4. l = db[e].clears => db[l] # Absent
    BY <2>3 DEF IInv, MatchesLive, Cleared
  <2>5. db[l] # Absent =>
          WithCleared(db[l], None) \in LineRow /\ WithCleared(db[l], None).rec = db[l].rec
    BY <2>2 DEF LineRow, WithCleared
  <2>6. QED
    BY <2>1, <2>4, <2>5
<1>7. ASSUME NEW e \in Adjustment, NEW i \in Item, SettleNatively(t, e, i)
      PROVE  LinesOf(db', r) = LinesOf(db, r)
  <2>1. \A l \in Line : db'[l] = db[l]
    BY <1>7, SettleFacts
  <2>2. QED BY <1>1, <2>1
<1>8. ASSUME NEW e \in Adjustment, NEW l \in Line, ClearNatively(t, e, l)
      PROVE  LinesOf(db', r) = LinesOf(db, r)
  <2>1. /\ db[l] \in LineRow /\ db'[l] = WithCleared(db[l], e)
        /\ \A k \in Line \ {l} : db'[k] = db[k]
    BY <1>8, ClearFacts
  <2>2. db'[l] \in LineRow /\ db'[l].rec = db[l].rec
    BY <2>1 DEF LineRow, WithCleared
  <2>3. QED BY <1>1, <2>1, <2>2
<1>9. QED
  BY <1>2, <1>3, <1>4, <1>5, <1>6, <1>7, <1>8 DEF Effect

(* No line joins or leaves a signed-off reconciliation but by a request    *)
(* that began before the sign-off was committed (the guards of statement   *)
(* lines).                                                                 *)
THEOREM LinesStayWithSignOff == Spec => OnlyOverlappingLinesLate
<1> DEFINE A == \A r \in Rec, t \in active \ active' :
                  StaysSignedOff(r) /\ LinesOf(db', r) # LinesOf(db, r) => r \in missed[t]
<1>1. IInv /\ [Next]_vars => [A]_vars
  BY NextEffect, LinesKept
<1>2. QED
  BY InductiveInvariant, <1>1, PTL DEF Spec, OnlyOverlappingLinesLate

-----------------------------------------------------------------------------
(* What is invariant of the series: the locks of the requests in progress, *)
(* the tables, and what each request may rely on of what it saw.           *)
Bound == Cardinality(Document) + 1

SeriesLocks ==
  /\ active \subseteq Txn /\ busy \subseteq active /\ DOMAIN db = Row
  /\ DOMAIN view = Txn /\ \A t \in Txn : DOMAIN view[t] = Row
  /\ wrote \in [Txn -> SUBSET (Document \cup {Counter} \cup Close)] /\ missed \in [Txn -> SUBSET Row]
  /\ \A t \in Txn \ busy : wrote[t] = {}
  /\ \A t, u \in Txn : t # u => wrote[t] \cap wrote[u] = {}
  /\ \A t \in Txn : wrote[t] \cap missed[t] = {}
  /\ ViewsCurrent

SeriesTables(rows) ==
  /\ rows[Journal] \in Code
  /\ rows[Counter] \in (Nat \ {0}) \cup {Absent}
  /\ \A m \in Document :
       rows[m] # Absent => /\ rows[m] \in DocumentRow /\ rows[m].no \in 1 .. Bound
                           /\ rows[m].kind = "receipt" => rows[m].receipt # 0

(* The documents a request has posted, and the numbers in use.             *)
Own(t) == wrote[t] \cap Document
OwnNumbers(t) == {view[t][m].no : m \in Own(t)}
Numbers == {db[m].no : m \in PostedIn(db)}

(* A document that a request sees and has not posted itself is committed   *)
(* as it sees it, whatever happened since its snapshot.                    *)
SeenPosted ==
  \A t \in active : \A m \in Document \ wrote[t] :
    view[t][m] # Absent => db[m] = view[t][m]

(* What a request has posted is new, carries the code it sees, and a name  *)
(* nobody else uses, neither committed nor in progress.                    *)
SameName(a, b) == a.no = b.no /\ a.code = b.code

OwnNew ==
  \A t \in active : \A m \in Own(t) :
    /\ db[m] = Absent /\ view[t][m] # Absent
    /\ view[t][m].code = view[t][Journal]
    /\ \A n \in PostedIn(db) : ~SameName(view[t][m], db[n])
    /\ \A n \in Own(t) \ {m} : view[t][m].no # view[t][n].no
    /\ \A u \in active \ {t} : \A n \in Own(u) : ~SameName(view[t][m], view[u][n])

NamesUnique ==
  \A m, n \in PostedIn(db) : m # n => ~SameName(db[m], db[n])

(* Below a number in use every number is: below a committed one a committed*)
(* one, below one that a request sees a committed one or one of its own.   *)
NoHoles ==
  /\ \A m \in PostedIn(db) : 1 .. db[m].no \subseteq Numbers
  /\ \A t \in active : \A m \in PostedIn(view[t]) :
       1 .. view[t][m].no \subseteq Numbers \cup OwnNumbers(t)

(* Receipts: those of the books are counted up to the counter, those of a  *)
(* request from there to the counter as it has it.                         *)
NextOf(rows) == IF rows[Counter] = Absent THEN 1 ELSE rows[Counter]
ReceiptsIn(rows) == {m \in PostedIn(rows) : rows[m].kind = "receipt"}

Counted(rows, docs, from, to) ==
  /\ from <= to
  /\ \A m \in docs : from <= rows[m].receipt /\ rows[m].receipt < to
  /\ \A m, n \in docs : m # n => rows[m].receipt # rows[n].receipt
  /\ \A k \in from .. (to - 1) : \E m \in docs : rows[m].receipt = k

ReceiptsCounted ==
  /\ Counted(db, ReceiptsIn(db), 1, NextOf(db))
  /\ \A t \in active :
       IF Counter \in wrote[t]
       THEN Counted(view[t], ReceiptsIn(view[t]) \cap wrote[t], NextOf(db), NextOf(view[t]))
       ELSE ReceiptsIn(view[t]) \cap wrote[t] = {}

(* What a request with the view v has posted, the rows w, lies behind all  *)
(* it saw, and no name of its code was passed over in between.             *)
Ahead(v, w) ==
  /\ v[Journal] <= db[Journal]
  /\ \A m \in w \cap Document :
       /\ \A n \in PostedIn(v) \ w : v[n].no < v[m].no
       /\ \A k \in 1 .. v[m].no :
            \/ Named(db, v[Journal], k)
            \/ \E n \in w \cap Document : v[n].no = k
            \/ \E n \in PostedIn(v) \ w : k <= v[n].no

TakenInOrder == \A t \in active : Ahead(view[t], wrote[t])

SeriesInv ==
  /\ SeriesLocks /\ SeriesTables(db) /\ \A t \in active : SeriesTables(view[t])
  /\ SeenPosted /\ OwnNew /\ NamesUnique /\ NoHoles /\ ReceiptsCounted /\ TakenInOrder

(* What a step shows of the series is one step of NumberSeries, or nothing.*)
Shown == [Series!Number]_(Series!series)

(* What a request has posted of the closes: drafts of the books, with their*)
(* dates, each with an entry of its own that brought to zero what the view *)
(* had up to its date, but for what the request posted after it.           *)
Before(v, w, c) ==
  {n \in PostedIn(v) : v[n].date <= v[c].date /\ (n \in w => v[n].no <= v[v[c].move].no)}

Closing(rows, v, w) ==
  \A c \in w \cap Close :
    /\ rows[c] # Absent /\ rows[c].state = "draft"
    /\ v[c] # Absent /\ v[c].state = "posted" /\ v[c].date = rows[c].date
    /\ v[c].move \in w \cap Document
    /\ TotalOf(v, Before(v, w, c)) = 0

ClosesInProgress ==
  \A t \in active :
    /\ \A c \in Close : view[t][c] \in CloseRow \cup {Absent}
    /\ Closing(db, view[t], wrote[t])

(* What is invariant of the closes.                                        *)
CloseInv ==
  /\ CloseTypeOK /\ ClosesInProgress
  /\ DOMAIN reverses = Document
  /\ \A c, d \in Close : c # d /\ Live(db[c]) /\ Live(db[d]) => db[c].date # db[d].date
  /\ \A c \in Close : db[c] # Absent /\ db[c].move # NoMove /\ db[c].state # "posted" =>
       Reversed(db, db[c].move)

-----------------------------------------------------------------------------
(* Numbers: least and greatest elements, which CHOOSE finds.               *)
LEMMA LastExists ==
  ASSUME NEW K \in Nat, NEW S \in SUBSET (0 .. K), S # {}
  PROVE  \E n \in S : \A k \in S : n >= k
<1> DEFINE gaps == {K - n : n \in S}
<1>1. \A n \in S : n \in Nat /\ n <= K /\ K - n \in Nat OBVIOUS
<1>2. gaps \subseteq Nat /\ gaps # {} BY <1>1
<1>3. PICK x \in gaps : \A y \in gaps : x <= y
  <2> HIDE DEF gaps
  <2> QED BY <1>2, FirstExists
<1>4. PICK n \in S : x = K - n OBVIOUS
<1>5. ASSUME NEW k \in S PROVE n >= k
  <2>1. K - k \in gaps OBVIOUS
  <2>2. K - n <= K - k BY <1>3, <1>4, <2>1
  <2> HIDE DEF gaps
  <2> QED BY <2>2, <1>1
<1> QED BY <1>5

LEMMA MinFacts ==
  ASSUME NEW S \in SUBSET Nat, S # {}
  PROVE  Min(S) \in S /\ \A k \in S : Min(S) <= k
BY FirstExists DEF Min

LEMMA MaxFacts ==
  ASSUME NEW K \in Nat, NEW S \in SUBSET (0 .. K), S # {}
  PROVE  Max(S) \in S /\ \A k \in S : Max(S) >= k
BY LastExists DEF Max

LEMMA BoundType == Bound \in Nat \ {0} /\ Cardinality(Document) \in Nat
<1>1. Cardinality(Document) \in Nat
  BY SeriesInputAssumption, FS_CardinalityType
<1> QED BY <1>1 DEF Bound

LEMMA SeriesRows ==
  /\ Document \subseteq Row /\ Journal \in Row /\ Counter \in Row
  /\ Journal # Counter /\ Journal \notin Document /\ Counter \notin Document
BY SeriesRowAssumption

LEMMA CloseRows ==
  /\ Close \subseteq Row /\ Close \cap Document = {}
  /\ Journal \notin Close /\ Counter \notin Close
BY CloseRowAssumption

(* The number a document is posted under: behind all that its request sees,*)
(* not used with the same code, and with no number below it left unused.   *)
LEMMA NextNumberFacts ==
  ASSUME SeriesInv, NEW t \in active, NEW m \in Document,
         view[t][m] = Absent, db[m] = Absent
  PROVE  /\ NextNumber(t) \in 1 .. Bound
         /\ \A d \in PostedIn(view[t]) : view[t][d].no < NextNumber(t)
         /\ ~Named(db, view[t][Journal], NextNumber(t))
         /\ 1 .. (NextNumber(t) - 1) \subseteq Numbers \cup OwnNumbers(t)
         /\ LastNumber(t) \in Nat
         /\ LastNumber(t) = 0 \/ \E d \in PostedIn(view[t]) : view[t][d].no = LastNumber(t)
         /\ \A d \in PostedIn(view[t]) : view[t][d].no <= LastNumber(t)
         /\ \A k \in 1 .. (NextNumber(t) - 1) :
              k <= LastNumber(t) \/ Named(db, view[t][Journal], k)
         /\ LastNumber(t) < NextNumber(t)
<1> DEFINE seen == {0} \cup {view[t][d].no : d \in PostedIn(view[t])}
           last == LastNumber(t)
           free == {no \in 1 .. Cardinality(Document) + 1 :
                      no > last /\ ~Named(db, view[t][Journal], no)}
<1>1. \A d \in PostedIn(view[t]) : view[t][d].no \in 1 .. Bound
  BY DEF SeriesInv, SeriesTables, PostedIn
<1>2. seen \in SUBSET (0 .. Bound) /\ seen # {}
  BY <1>1, BoundType
<1>3. last = Max(seen) BY DEF LastNumber
<1>4. last \in seen /\ (\A k \in seen : last >= k) /\ last \in 0 .. Bound
  <2> HIDE DEF seen, last
  <2> QED BY <1>2, <1>3, BoundType, MaxFacts
<1> HIDE DEF last
<1>5. 1 .. last \subseteq Numbers \cup OwnNumbers(t)
  <2>1. CASE last = 0 BY <2>1
  <2>2. CASE last # 0
    <3>1. PICK d \in PostedIn(view[t]) : last = view[t][d].no BY <1>4, <2>2
    <3> QED BY <3>1 DEF SeriesInv, NoHoles
  <2> QED BY <2>1, <2>2
<1>6. \A k \in Nat : Named(db, view[t][Journal], k) => k \in Numbers
  BY DEF Named, Numbers
<1>7. free # {}
  <2> SUFFICES ASSUME free = {} PROVE FALSE OBVIOUS
  <2> DEFINE others == Document \ {m}
             num(d) == IF db[d] # Absent THEN db[d].no ELSE view[t][d].no
             holder == [k \in 1 .. Bound |-> CHOOSE d \in others : num(d) = k]
  <2>1. 1 .. Bound \subseteq Numbers \cup OwnNumbers(t)
    <3>1. ASSUME NEW k \in 1 .. Bound, k > last PROVE k \in Numbers
      <4>1. k \in 1 .. Cardinality(Document) + 1 BY DEF Bound
      <4>2. Named(db, view[t][Journal], k) BY <3>1, <4>1
      <4> QED BY <4>2, <1>6
    <3> QED BY <3>1, <1>4, <1>5
  <2>2. \A k \in 1 .. Bound : \E d \in others : num(d) = k
    <3> TAKE k \in 1 .. Bound
    <3>1. CASE k \in Numbers
      <4>1. PICK d \in PostedIn(db) : k = db[d].no BY <3>1 DEF Numbers
      <4> QED BY <4>1 DEF PostedIn
    <3>2. CASE k \in OwnNumbers(t)
      <4>1. PICK d \in Own(t) : k = view[t][d].no BY <3>2 DEF OwnNumbers
      <4>2. d \in Document /\ db[d] = Absent /\ view[t][d] # Absent
        BY DEF SeriesInv, OwnNew, Own
      <4> QED BY <4>1, <4>2
    <3> QED BY <2>1, <3>1, <3>2
  <2>3. \A k \in 1 .. Bound : holder[k] \in others /\ num(holder[k]) = k
    <3> TAKE k \in 1 .. Bound
    <3> DEFINE d == CHOOSE d \in others : num(d) = k
    <3>1. d \in others /\ num(d) = k BY <2>2
    <3> QED BY <3>1
  <2>4. /\ IsFiniteSet(others) /\ Cardinality(others) = Cardinality(Document) - 1
        /\ IsFiniteSet(1 .. Bound) /\ Cardinality(1 .. Bound) = Bound
    <3>1. IsFiniteSet(Document) BY SeriesInputAssumption
    <3>2. IsFiniteSet(others) /\ Cardinality(others) = Cardinality(Document) - 1
      BY <3>1, FS_RemoveElement
    <3>3. 1 \in Int /\ Bound \in Int /\ ~(1 > Bound) /\ Bound - 1 + 1 = Bound BY BoundType
    <3>4. IsFiniteSet(1 .. Bound) /\ Cardinality(1 .. Bound) = Bound
      BY <3>3, FS_Interval
    <3> QED BY <3>2, <3>4
  <2>5. holder \in [1 .. Bound -> others] BY <2>3
  <2> HIDE DEF holder, others, num
  <2>6. Cardinality(others) < Cardinality(1 .. Bound) BY <2>4, BoundType DEF Bound
  <2>7. \E k, l \in 1 .. Bound : k # l /\ holder[k] = holder[l]
    <3> DEFINE S == 1 .. Bound
    <3>1. IsFiniteSet(S) /\ Cardinality(others) < Cardinality(S) /\ holder \in [S -> others]
      BY <2>4, <2>5, <2>6
    <3> HIDE DEF S
    <3>2. \E k, l \in S : k # l /\ holder[k] = holder[l]
      BY <2>4, <3>1, FS_PigeonHole
    <3> QED BY <3>2 DEF S
  <2> QED BY <2>3, <2>7
<1>8. NextNumber(t) = Min(free) BY DEF NextNumber, last
<1>9. NextNumber(t) \in free /\ \A k \in free : NextNumber(t) <= k
  <2>1. free \subseteq Nat BY BoundType
  <2> HIDE DEF free
  <2> QED BY <1>7, <1>8, <2>1, MinFacts
<1>10. NextNumber(t) \in 1 .. Bound /\ NextNumber(t) > last
       /\ ~Named(db, view[t][Journal], NextNumber(t))
  BY <1>9 DEF Bound
<1>11. ASSUME NEW d \in PostedIn(view[t]) PROVE view[t][d].no < NextNumber(t)
  BY <1>1, <1>4, <1>10
<1>12. ASSUME NEW k \in 1 .. (NextNumber(t) - 1) PROVE k \in Numbers \cup OwnNumbers(t)
  <2>1. k \in 1 .. Bound /\ k < NextNumber(t) BY <1>10, BoundType
  <2>2. CASE k <= last BY <2>1, <2>2, <1>4, <1>5
  <2>3. CASE k > last
    <3>1. k \notin free BY <2>1, <1>9, <1>10
    <3>2. Named(db, view[t][Journal], k) BY <2>1, <2>3, <3>1 DEF Bound
    <3> QED BY <2>1, <3>2, <1>6
  <2> QED BY <2>1, <2>2, <2>3, <1>4
<1>13. ASSUME NEW k \in 1 .. (NextNumber(t) - 1), k > last PROVE Named(db, view[t][Journal], k)
  <2>1. k \in 1 .. Bound /\ k < NextNumber(t) BY <1>10, BoundType
  <2>2. k \notin free BY <2>1, <1>9, <1>10
  <2> QED BY <2>1, <2>2, <1>13 DEF Bound
<1>14. last \in Nat /\ (last = 0 \/ \E d \in PostedIn(view[t]) : view[t][d].no = last)
       /\ \A d \in PostedIn(view[t]) : view[t][d].no <= last
  <2>1. last \in Nat /\ last \in seen BY <1>4, BoundType
  <2>2. \A d \in PostedIn(view[t]) : view[t][d].no \in seen OBVIOUS
  <2>3. last = 0 \/ \E d \in PostedIn(view[t]) : view[t][d].no = last BY <2>1
  <2> HIDE DEF seen
  <2>4. \A d \in PostedIn(view[t]) : view[t][d].no <= last
    BY <1>4, <2>2
  <2> QED BY <2>1, <2>3, <2>4
<1>15. \A k \in 1 .. (NextNumber(t) - 1) : k <= last \/ Named(db, view[t][Journal], k)
  BY <1>10, <1>13, <1>14
<1> QED BY <1>10, <1>11, <1>12, <1>14, <1>15 DEF last

-----------------------------------------------------------------------------
(* A request commits the rows W, which then read as in rows.               *)
Publishes(t, W, rows) ==
  /\ t \in active /\ active' = active \ {t} /\ busy' = busy \ {t}
  /\ W \subseteq Row /\ DOMAIN db' = Row
  /\ \A r \in Row : db'[r] = IF r \in W THEN rows[r] ELSE db[r]
  /\ \A r \in W : \A u \in Txn \ {t} : r \notin wrote[u]
  /\ \A u \in Txn \ {t} : view'[u] = view[u] /\ wrote'[u] = wrote[u]
  /\ view' \in [Txn -> [Row -> {Absent}] \cup {view[u] : u \in Txn}]
  /\ wrote' = [wrote EXCEPT ![t] = {}]
  /\ missed' = [u \in Txn |-> IF u \in active \ {t} THEN missed[u] \cup W ELSE {}]

(* What it may publish: new documents, under names and receipts of their   *)
(* own and without holes, and the others as they are.                      *)
NewIn(W) == {m \in W \cap Document : db[m] = Absent}

GoodRows(W, rows) ==
  /\ Journal \in W => rows[Journal] \in Code /\ rows[Journal] = db[Journal] + 1 /\ W = {Journal}
  /\ Counter \in W => rows[Counter] \in (Nat \ {0}) \cup {Absent}
  /\ \A m \in (W \cap Document) \ NewIn(W) : rows[m] = db[m]
  /\ \A m \in NewIn(W) :
       /\ rows[m] \in DocumentRow /\ rows[m].no \in 1 .. Bound
       /\ rows[m].kind = "receipt" => rows[m].receipt # 0

GoodNames(t, W, rows) ==
  \A m \in NewIn(W) :
    /\ \A n \in PostedIn(db) : ~SameName(rows[m], db[n])
    /\ \A n \in NewIn(W) \ {m} : ~SameName(rows[m], rows[n])
    /\ \A u \in active \ {t} : \A n \in Own(u) : ~SameName(rows[m], view[u][n])
    /\ 1 .. rows[m].no \subseteq Numbers \cup {rows[n].no : n \in NewIn(W)}

GoodReceipts(W, rows) ==
  LET receipts == {m \in NewIn(W) : rows[m].kind = "receipt"} IN
  IF Counter \in W THEN Counted(rows, receipts, NextOf(db), NextOf(rows))
  ELSE receipts = {}

(* Behind one number in use they take the names of one code in a row.      *)
GoodOrder(W, rows) ==
  \E code \in 1 .. db[Journal], behind \in {0} \cup Numbers :
    \A m \in NewIn(W) :
      /\ rows[m].code = code /\ rows[m].no > behind
      /\ \A k \in behind + 1 .. rows[m].no :
           Named(db, code, k) \/ \E n \in NewIn(W) : rows[n].no = k

LEMMA Published ==
  ASSUME SeriesInv, NEW t, NEW W, NEW rows, Publishes(t, W, rows), GoodRows(W, rows)
  PROVE  /\ \A m \in NewIn(W) : db'[m] = rows[m] /\ db[m] = Absent /\ db'[m] # Absent
         /\ \A m \in Document \ NewIn(W) : db'[m] = db[m]
         /\ PostedIn(db') = PostedIn(db) \cup NewIn(W)
         /\ NewIn(W) \subseteq Document /\ NewIn(W) \cap PostedIn(db) = {}
<1>1. \A m \in NewIn(W) : db'[m] = rows[m] /\ db[m] = Absent /\ db'[m] # Absent
  BY SeriesRows, SeriesAbsentAssumption DEF Publishes, GoodRows, NewIn
<1>2. ASSUME NEW m \in Document \ NewIn(W) PROVE db'[m] = db[m]
  BY SeriesRows DEF Publishes, GoodRows, NewIn
<1>3. NewIn(W) \subseteq Document BY DEF NewIn
<1> QED BY <1>1, <1>2, <1>3 DEF PostedIn

LEMMA PublishedTables ==
  ASSUME SeriesInv, NEW t, NEW W, NEW rows, Publishes(t, W, rows), GoodRows(W, rows)
  PROVE  SeriesTables(db') /\ SeriesLocks'
<1>1. ASSUME NEW m \in Document, db'[m] # Absent
      PROVE  /\ db'[m] \in DocumentRow /\ db'[m].no \in 1 .. Bound
             /\ db'[m].kind = "receipt" => db'[m].receipt # 0
  <2>1. CASE m \in NewIn(W)
    BY <2>1, Published DEF GoodRows
  <2>2. CASE m \notin NewIn(W)
    <3>1. db'[m] = db[m] BY <2>2, Published
    <3> QED BY <1>1, <3>1 DEF SeriesInv, SeriesTables
  <2> QED BY <2>1, <2>2
<1>2. db'[Journal] \in Code /\ db'[Counter] \in (Nat \ {0}) \cup {Absent}
  BY SeriesRows DEF Publishes, GoodRows, SeriesInv, SeriesTables
<1>3. SeriesTables(db') BY <1>1, <1>2 DEF SeriesTables
<1>4. /\ active' \subseteq Txn /\ busy' \subseteq active' /\ t \in Txn /\ DOMAIN db' = Row
      /\ DOMAIN view' = Txn /\ \A u \in Txn : DOMAIN view'[u] = Row
      /\ wrote' \in [Txn -> SUBSET (Document \cup {Counter} \cup Close)]
      /\ \A u \in Txn \ busy' : wrote'[u] = {}
      /\ \A u, v \in Txn : u # v => wrote'[u] \cap wrote'[v] = {}
  <2>1. t \in Txn BY DEF Publishes, SeriesInv, SeriesLocks
  <2>2. active' \subseteq Txn /\ busy' \subseteq active' /\ DOMAIN db' = Row
    BY DEF Publishes, SeriesInv, SeriesLocks
  <2>3. DOMAIN view' = Txn BY DEF Publishes
  <2>4. \A u \in Txn : DOMAIN view'[u] = Row
    <3> TAKE u \in Txn
    <3>1. view'[u] \in [Row -> {Absent}] \cup {view[v] : v \in Txn} BY DEF Publishes
    <3> QED BY <3>1 DEF SeriesInv, SeriesLocks
  <2>5. wrote' = [wrote EXCEPT ![t] = {}] BY DEF Publishes
  <2>6. wrote' \in [Txn -> SUBSET (Document \cup {Counter} \cup Close)]
    BY <2>5 DEF SeriesInv, SeriesLocks
  <2>7. \A u \in Txn \ busy' : wrote'[u] = {}
    BY <2>1, <2>5 DEF Publishes, SeriesInv, SeriesLocks
  <2>8. \A u, v \in Txn : u # v => wrote'[u] \cap wrote'[v] = {}
    BY <2>1, <2>5 DEF SeriesInv, SeriesLocks
  <2> QED BY <2>1, <2>2, <2>3, <2>4, <2>6, <2>7, <2>8
<1>5. missed' \in [Txn -> SUBSET Row]
  BY DEF Publishes, SeriesInv, SeriesLocks
<1>6. ASSUME NEW u \in Txn PROVE wrote'[u] \cap missed'[u] = {}
  <2>1. CASE u = t BY <2>1, <1>4 DEF Publishes, SeriesInv, SeriesLocks
  <2>2. CASE u # t
    BY <2>2 DEF Publishes, SeriesInv, SeriesLocks
  <2> QED BY <2>1, <2>2
<1>7. ViewsCurrent'
  <2>1. ASSUME NEW u \in active', NEW r \in Row, r \notin missed'[u], r \notin wrote'[u]
        PROVE  view'[u][r] = db'[r]
    <3>1. u \in active \ {t} /\ u \in Txn /\ wrote'[u] = wrote[u] /\ view'[u] = view[u]
      BY DEF Publishes, SeriesInv, SeriesLocks
    <3>2. r \notin missed[u] /\ r \notin W BY <2>1, <3>1 DEF Publishes
    <3>3. view[u][r] = db[r] BY <2>1, <3>1, <3>2 DEF SeriesInv, SeriesLocks, ViewsCurrent
    <3> QED BY <3>1, <3>2, <3>3 DEF Publishes
  <2> QED BY <2>1 DEF ViewsCurrent
<1>8. SeriesLocks' BY <1>4, <1>5, <1>6, <1>7 DEF SeriesLocks
<1> QED BY <1>3, <1>8

LEMMA PublishedOthers ==
  ASSUME SeriesInv, NEW t, NEW W, NEW rows, Publishes(t, W, rows), GoodRows(W, rows),
         NEW u \in active'
  PROVE  /\ u \in active \ {t} /\ u \in Txn
         /\ view'[u] = view[u] /\ wrote'[u] = wrote[u]
         /\ Own(u) \cap NewIn(W) = {} /\ \A m \in Own(u) : m \in Document /\ db'[m] = db[m]
<1>1. u \in active \ {t} /\ u \in Txn BY DEF Publishes, SeriesInv, SeriesLocks
<1>2. view'[u] = view[u] /\ wrote'[u] = wrote[u] BY <1>1 DEF Publishes
<1>3. Own(u) \cap NewIn(W) = {} BY <1>1 DEF Own, NewIn, Publishes
<1>4. Own(u) \subseteq Document BY DEF Own
<1> QED BY <1>1, <1>2, <1>3, <1>4, Published

LEMMA PublishedNames ==
  ASSUME SeriesInv, NEW t, NEW W, NEW rows, Publishes(t, W, rows), GoodRows(W, rows),
         GoodNames(t, W, rows)
  PROVE  SeenPosted' /\ OwnNew' /\ NamesUnique' /\ NoHoles'
<1> USE Published
<1>1. SeenPosted'
  <2>1. ASSUME NEW u \in active', NEW m \in Document \ wrote'[u], view'[u][m] # Absent
        PROVE  db'[m] = view'[u][m]
    <3>1. u \in active /\ view'[u] = view[u] /\ wrote'[u] = wrote[u] BY PublishedOthers
    <3>2. db[m] = view[u][m] BY <2>1, <3>1 DEF SeriesInv, SeenPosted
    <3>3. m \notin NewIn(W) BY <2>1, <3>1, <3>2
    <3> QED BY <3>1, <3>2, <3>3
  <2> QED BY <2>1 DEF SeenPosted
<1>2. OwnNew'
  <2> SUFFICES ASSUME NEW u \in active', NEW m \in Own(u)
               PROVE  /\ db'[m] = Absent /\ view[u][m] # Absent
                      /\ view[u][m].code = view[u][Journal]
                      /\ \A n \in PostedIn(db') : ~SameName(view[u][m], db'[n])
                      /\ \A n \in Own(u) \ {m} : view[u][m].no # view[u][n].no
                      /\ \A v \in active' \ {u} : \A n \in Own(v) : ~SameName(view[u][m], view[v][n])
    <3>1. ASSUME NEW u \in active' PROVE view'[u] = view[u] /\ wrote'[u] = wrote[u]
      BY PublishedOthers
    <3>2. ASSUME NEW u \in active', NEW m \in Own(u)'
          PROVE  /\ db'[m] = Absent /\ view'[u][m] # Absent
                 /\ view'[u][m].code = view'[u][Journal]
                 /\ \A n \in PostedIn(db') : ~SameName(view'[u][m], db'[n])
                 /\ \A n \in Own(u)' \ {m} : view'[u][m].no # view'[u][n].no
                 /\ \A v \in active' \ {u} : \A n \in Own(v)' : ~SameName(view'[u][m], view'[v][n])
      <4>1. m \in Own(u) /\ view'[u] = view[u] /\ Own(u)' = Own(u)
        BY <3>1, <3>2 DEF Own
      <4>2. \A v \in active' : \A n \in Own(v)' : n \in Own(v) /\ view'[v][n] = view[v][n]
        BY <3>1 DEF Own
      <4> QED BY <4>1, <4>2
    <3> QED BY <3>2 DEF OwnNew, SameName, PostedIn
  <2>1. u \in active \ {t} /\ db'[m] = db[m] /\ active' = active \ {t}
    BY PublishedOthers DEF Publishes
  <2>2. /\ db[m] = Absent /\ view[u][m] # Absent
        /\ view[u][m].code = view[u][Journal]
        /\ \A n \in PostedIn(db) : ~SameName(view[u][m], db[n])
        /\ \A n \in Own(u) \ {m} : view[u][m].no # view[u][n].no
        /\ \A v \in active \ {u} : \A n \in Own(v) : ~SameName(view[u][m], view[v][n])
    BY <2>1 DEF SeriesInv, OwnNew
  <2>3. ASSUME NEW n \in PostedIn(db') PROVE ~SameName(view[u][m], db'[n])
    <3>1. CASE n \in PostedIn(db)
      <4>1. db'[n] = db[n] BY <3>1 DEF PostedIn
      <4> QED BY <3>1, <4>1, <2>2
    <3>2. CASE n \in NewIn(W)
      <4>1. ~SameName(rows[n], view[u][m]) BY <3>2, <2>1 DEF GoodNames
      <4> QED BY <3>2, <4>1 DEF SameName
    <3> QED BY <3>1, <3>2
  <2> QED BY <2>1, <2>2, <2>3
<1>3. NamesUnique'
  <2>1. ASSUME NEW m \in PostedIn(db'), NEW n \in PostedIn(db'), m # n
        PROVE  ~SameName(db'[m], db'[n])
    <3>1. \A d \in PostedIn(db) : db'[d] = db[d] BY DEF PostedIn
    <3>2. CASE m \in PostedIn(db) /\ n \in PostedIn(db)
      BY <2>1, <3>1, <3>2 DEF SeriesInv, NamesUnique
    <3>3. CASE m \in NewIn(W) /\ n \in PostedIn(db)
      BY <3>1, <3>3 DEF GoodNames
    <3>4. CASE m \in PostedIn(db) /\ n \in NewIn(W)
      <4>1. ~SameName(rows[n], db[m]) BY <3>4 DEF GoodNames
      <4> QED BY <3>1, <3>4, <4>1 DEF SameName
    <3>5. CASE m \in NewIn(W) /\ n \in NewIn(W)
      BY <2>1, <3>5 DEF GoodNames
    <3> QED BY <3>2, <3>3, <3>4, <3>5
  <2> QED BY <2>1 DEF NamesUnique
<1>4. Numbers' = Numbers \cup {rows[n].no : n \in NewIn(W)}
  <2>1. \A d \in PostedIn(db) : db'[d] = db[d] BY DEF PostedIn
  <2>2. Numbers' = {db'[m].no : m \in PostedIn(db')} BY DEF Numbers, PostedIn
  <2>3. Numbers' = {db'[m].no : m \in PostedIn(db)} \cup {db'[m].no : m \in NewIn(W)}
    BY <2>2
  <2>4. {db'[m].no : m \in PostedIn(db)} = Numbers BY <2>1 DEF Numbers
  <2>5. {db'[m].no : m \in NewIn(W)} = {rows[n].no : n \in NewIn(W)} OBVIOUS
  <2> QED BY <2>3, <2>4, <2>5
<1>5. NoHoles'
  <2>1. ASSUME NEW m \in PostedIn(db') PROVE 1 .. db'[m].no \subseteq Numbers'
    <3>1. CASE m \in PostedIn(db)
      <4>1. db'[m] = db[m] BY <3>1 DEF PostedIn
      <4> QED BY <3>1, <4>1, <1>4 DEF SeriesInv, NoHoles
    <3>2. CASE m \in NewIn(W) BY <3>2, <1>4 DEF GoodNames
    <3> QED BY <3>1, <3>2
  <2>2. ASSUME NEW u \in active', NEW m \in PostedIn(view'[u])
        PROVE  1 .. view'[u][m].no \subseteq Numbers' \cup OwnNumbers(u)'
    <3>1. u \in active /\ view'[u] = view[u] /\ OwnNumbers(u)' = OwnNumbers(u)
      BY PublishedOthers DEF OwnNumbers, Own
    <3>2. m \in PostedIn(view[u]) BY <2>2, <3>1
    <3> QED BY <3>1, <3>2, <1>4 DEF SeriesInv, NoHoles
  <2> QED BY <2>1, <2>2 DEF NoHoles, PostedIn
<1> QED BY <1>1, <1>2, <1>3, <1>5

LEMMA PublishedReceipts ==
  ASSUME SeriesInv, NEW t, NEW W, NEW rows, Publishes(t, W, rows), GoodRows(W, rows),
         GoodReceipts(W, rows)
  PROVE  ReceiptsCounted'
<1> USE Published
<1> DEFINE receipts == {m \in NewIn(W) : rows[m].kind = "receipt"}
           from == NextOf(db)
           to == NextOf(db')
<1>1. \A m \in PostedIn(db) : db'[m] = db[m] BY DEF PostedIn
<1>2. ReceiptsIn(db') = ReceiptsIn(db) \cup receipts
  BY <1>1 DEF ReceiptsIn
<1>3. Counted(db, ReceiptsIn(db), 1, from) /\ from \in Nat
  <2>1. db[Counter] \in (Nat \ {0}) \cup {Absent} BY DEF SeriesInv, SeriesTables
  <2> QED BY <2>1 DEF SeriesInv, ReceiptsCounted, NextOf
<1>4. to \in Nat
  <2>1. db'[Counter] \in (Nat \ {0}) \cup {Absent} BY PublishedTables DEF SeriesTables
  <2> QED BY <2>1 DEF NextOf
<1>5. \A m \in ReceiptsIn(db') : db'[m].receipt \in Nat
  BY PublishedTables DEF SeriesTables, ReceiptsIn, PostedIn, DocumentRow
<1>6. Counted(db', ReceiptsIn(db'), 1, to)
  <2>1. CASE Counter \in W
    <3>1. Counted(rows, receipts, from, to) /\ db'[Counter] = rows[Counter]
      BY <2>1, SeriesRows DEF GoodReceipts, Publishes, NextOf
    <3>2. Counted(db', receipts, from, to)
      BY <3>1 DEF Counted
    <3>3. Counted(db', ReceiptsIn(db), 1, from)
      <4>1. \A m \in ReceiptsIn(db) : db'[m] = db[m] BY <1>1 DEF ReceiptsIn
      <4> QED BY <4>1, <1>3 DEF Counted
    <3> HIDE DEF from, to, receipts
    <3>4. \A m, n \in ReceiptsIn(db') : m # n => db'[m].receipt # db'[n].receipt
      <4>1. \A m \in ReceiptsIn(db) : \A n \in receipts : db'[m].receipt < db'[n].receipt
        BY <3>2, <3>3, <1>2, <1>3, <1>5 DEF Counted
      <4>2. \A m \in ReceiptsIn(db) : \A n \in receipts : db'[m].receipt # db'[n].receipt
        BY <4>1, <1>2, <1>5
      <4> QED BY <3>2, <3>3, <4>2, <1>2 DEF Counted
    <3>5. \A k \in 1 .. (to - 1) : \E m \in ReceiptsIn(db') : db'[m].receipt = k
      BY <3>2, <3>3, <1>2, <1>3, <1>4 DEF Counted
    <3>6. \A m \in ReceiptsIn(db') : 1 <= db'[m].receipt /\ db'[m].receipt < to
      BY <3>2, <3>3, <1>2, <1>3, <1>4, <1>5 DEF Counted
    <3>7. 1 <= to BY <3>2, <3>3, <1>3, <1>4 DEF Counted
    <3> QED BY <3>4, <3>5, <3>6, <3>7 DEF Counted
  <2>2. CASE Counter \notin W
    <3>1. receipts = {} BY <2>2 DEF GoodReceipts
    <3>2. db'[Counter] = db[Counter] BY <2>2, SeriesRows DEF Publishes
    <3>3. to = from BY <3>2 DEF NextOf
    <3>4. ReceiptsIn(db') = ReceiptsIn(db) BY <1>2, <3>1
    <3>5. \A m \in ReceiptsIn(db) : db'[m] = db[m] BY <1>1 DEF ReceiptsIn
    <3> HIDE DEF from, to, receipts
    <3> QED BY <3>3, <3>4, <3>5, <1>3 DEF Counted
  <2> QED BY <2>1, <2>2
<1>7. ASSUME NEW u \in active'
      PROVE  IF Counter \in wrote'[u]
             THEN Counted(view'[u], ReceiptsIn(view'[u]) \cap wrote'[u], NextOf(db'), NextOf(view'[u]))
             ELSE ReceiptsIn(view'[u]) \cap wrote'[u] = {}
  <2>1. u \in active \ {t} /\ u \in Txn /\ view'[u] = view[u] /\ wrote'[u] = wrote[u]
    BY PublishedOthers
  <2>2. Counter \in wrote[u] => db'[Counter] = db[Counter]
    BY <2>1, SeriesRows DEF Publishes
  <2> QED BY <2>1, <2>2 DEF SeriesInv, ReceiptsCounted, NextOf
<1> QED BY <1>6, <1>7 DEF ReceiptsCounted, Counted, ReceiptsIn, PostedIn, NextOf

(* What is posted stays as it is.                                          *)
PostedStay == \A m \in PostedIn(db) : db'[m] = db[m]

LEMMA PublishedOrder ==
  ASSUME SeriesInv, NEW t, NEW W, NEW rows, Publishes(t, W, rows), GoodRows(W, rows)
  PROVE  TakenInOrder'
<1>1. db[Journal] <= db'[Journal] /\ db[Journal] \in Int /\ db'[Journal] \in Int
  <2>1. db[Journal] \in Code /\ db'[Journal] \in Code
    BY PublishedTables DEF SeriesInv, SeriesTables
  <2>2. db'[Journal] = db[Journal] \/ db'[Journal] = db[Journal] + 1
    BY SeriesRows DEF Publishes, GoodRows
  <2> QED BY <2>1, <2>2 DEF Code
<1>2. \A code, no : Named(db, code, no) => Named(db', code, no)
  <2>1. \A m \in PostedIn(db) : m \in PostedIn(db') /\ db'[m] = db[m]
    BY Published DEF PostedIn
  <2> QED BY <2>1 DEF Named
<1>3. ASSUME NEW u \in active' PROVE Ahead(view[u], wrote[u])'
  <2>1. u \in active /\ view'[u] = view[u] /\ wrote'[u] = wrote[u] BY PublishedOthers
  <2>2. Ahead(view[u], wrote[u]) BY <2>1 DEF SeriesInv, TakenInOrder
  <2>3. view[u][Journal] \in Int BY <2>1 DEF SeriesInv, SeriesTables, Code
  <2>4. view'[u][Journal] <= db'[Journal] BY <1>1, <2>1, <2>2, <2>3 DEF Ahead
  <2> QED BY <1>2, <2>1, <2>2, <2>4 DEF Ahead, PostedIn
<1> QED BY <1>3 DEF TakenInOrder

(* What a request commits is one step of NumberSeries.                     *)
LEMMA PublishShows ==
  ASSUME SeriesInv, NEW t, NEW W, NEW rows, Publishes(t, W, rows), GoodRows(W, rows),
         GoodNames(t, W, rows), GoodReceipts(W, rows), GoodOrder(W, rows)
  PROVE  Shown
<1> USE Published
<1> DEFINE from == NextOf(db)
           to == NextOf(db')
           receipts == {m \in NewIn(W) : rows[m].kind = "receipt"}
<1>1. Series!New = NewIn(W) /\ Series!Posted = PostedIn(db)
  BY DEF Series!New, Series!Posted, PostedIn
<1>2. \A code, no : Series!Taken(code, no) <=> Named(db, code, no)
  BY <1>1 DEF Series!Taken, Named, PostedIn
<1>3. CASE Journal \in W
  <2>1. W = {Journal} /\ rows[Journal] = db[Journal] + 1 /\ db[Journal] \in Nat \ {0}
    BY <1>3 DEF GoodRows, SeriesInv, SeriesTables, Code
  <2>2. NewIn(W) = {} /\ db'[Journal] = db[Journal] + 1 /\ db'[Counter] = db[Counter]
    BY <2>1, SeriesRows DEF NewIn, Publishes
  <2>3. 1 .. db'[Journal] = (1 .. db[Journal]) \cup {db'[Journal]}
        /\ db'[Journal] \in 1 .. db'[Journal]
    BY <2>1, <2>2
  <2>4. [m \in Document |-> db'[m]] = [m \in Document |-> db[m]] BY <2>2
  <2>5. Series!Recode BY <2>2, <2>3, <2>4 DEF Series!Recode
  <2> QED BY <2>5 DEF Shown, Series!Number
<1>4. CASE Journal \notin W
  <2>1. db'[Journal] = db[Journal] BY <1>4, SeriesRows DEF Publishes
  <2>2. PICK code \in 1 .. db[Journal], behind \in {0} \cup Numbers :
          \A m \in NewIn(W) :
            /\ rows[m].code = code /\ rows[m].no > behind
            /\ \A k \in behind + 1 .. rows[m].no :
                 Named(db, code, k) \/ \E n \in NewIn(W) : rows[n].no = k
    BY DEF GoodOrder
  <2>3. behind \in {0} \cup {[m \in Document |-> db[m]][n].no : n \in Series!Posted}
    <3>1. {[m \in Document |-> db[m]][n].no : n \in PostedIn(db)} = Numbers
      BY DEF Numbers, PostedIn
    <3> QED BY <1>1, <2>2, <3>1
  <2>4. Series!InARow(code, behind)
    <3>1. ASSUME NEW m \in NewIn(W)
          PROVE  /\ db'[m].code = code /\ db'[m].no > behind
                 /\ ~Named(db, code, db'[m].no)
                 /\ \A n \in NewIn(W) \ {m} : db'[n].no # db'[m].no
                 /\ \A k \in behind + 1 .. db'[m].no :
                      Named(db, code, k) \/ \E n \in NewIn(W) : db'[n].no = k
      <4>1. db'[m] = rows[m] /\ \A n \in NewIn(W) : db'[n] = rows[n] OBVIOUS
      <4>2. \A n \in PostedIn(db) : ~SameName(rows[m], db[n]) BY DEF GoodNames
      <4>3. ~Named(db, code, db'[m].no) BY <2>2, <4>1, <4>2 DEF Named, SameName
      <4>4. \A n \in NewIn(W) \ {m} : rows[n].no # rows[m].no
        BY <2>2 DEF GoodNames, SameName
      <4> QED BY <2>2, <4>1, <4>3, <4>4
    <3> QED BY <1>1, <1>2, <3>1 DEF Series!InARow
  <2>5. /\ to >= from /\ {db'[m].receipt : m \in receipts} = from .. (to - 1)
        /\ \A m, n \in receipts : m # n => db'[m].receipt # db'[n].receipt
    <3>1. from \in Nat /\ to \in Nat
      <4>1. SeriesTables(db) /\ SeriesTables(db') BY PublishedTables DEF SeriesInv
      <4> QED BY <4>1 DEF NextOf, SeriesTables
    <3>2. \A m \in receipts : db'[m] = rows[m] /\ rows[m].receipt \in Nat
      BY DEF GoodRows, DocumentRow
    <3>3. CASE Counter \in W
      <4>1. Counted(rows, receipts, from, to)
        BY <3>3, SeriesRows DEF GoodReceipts, Publishes, NextOf
      <4> HIDE DEF from, to, receipts
      <4> QED BY <3>1, <3>2, <4>1 DEF Counted
    <3>4. CASE Counter \notin W
      <4>1. receipts = {} BY <3>4 DEF GoodReceipts
      <4>2. to = from BY <3>4, SeriesRows DEF Publishes, NextOf
      <4> HIDE DEF from, to, receipts
      <4> QED BY <3>1, <4>1, <4>2
    <3> QED BY <3>3, <3>4
  <2>6. Series!Receipted
    <3> DEFINE docs == [d \in Document |-> db'[d]]
    <3>1. \A m \in NewIn(W) : docs[m] = db'[m] /\ db'[m] = rows[m] OBVIOUS
    <3>2. \A m \in receipts : docs[m] = db'[m] OBVIOUS
    <3>3. [d \in Document |-> db[d]]' = docs OBVIOUS
    <3> HIDE DEF docs
    <3>4. {m \in Series!New : docs[m].kind = "receipt"} = receipts
      BY <1>1, <3>1
    <3>5. {docs[m].receipt : m \in receipts} = {db'[m].receipt : m \in receipts} BY <3>2
    <3>6. \A m, n \in receipts : m # n => docs[m].receipt # docs[n].receipt BY <2>5, <3>2
    <3> HIDE DEF receipts
    <3>7. /\ to = (IF db[Counter] = Absent THEN 1 ELSE db[Counter])'
          /\ from = IF db[Counter] = Absent THEN 1 ELSE db[Counter]
      BY DEF NextOf
    <3> HIDE DEF to, from
    <3>8. {docs[m].receipt : m \in receipts} = from .. (to - 1) BY <2>5, <3>5
    <3>9. to >= from BY <2>5
    <3> QED BY <3>3, <3>4, <3>6, <3>7, <3>8, <3>9 DEF Series!Receipted
  <2>7. Series!New \cap Series!Posted = {} BY <1>1
  <2>8. Series!Post BY <2>1, <2>2, <2>3, <2>4, <2>6, <2>7 DEF Series!Post
  <2> QED BY <2>8 DEF Shown, Series!Number
<1> QED BY <1>3, <1>4

LEMMA PublishKeeps ==
  ASSUME SeriesInv, NEW t, NEW W, NEW rows, Publishes(t, W, rows), GoodRows(W, rows),
         GoodNames(t, W, rows), GoodReceipts(W, rows), GoodOrder(W, rows)
  PROVE  SeriesInv' /\ PostedStay /\ Shown
<1>1. SeriesTables(db)' BY PublishedTables DEF SeriesTables
<1>2. ASSUME NEW u \in active' PROVE SeriesTables(view[u])'
  <2>1. u \in active /\ view'[u] = view[u] BY PublishedOthers
  <2> QED BY <2>1 DEF SeriesInv, SeriesTables
<1>3. PostedStay
  <2>1. PostedIn(db) \subseteq Document BY DEF PostedIn
  <2> QED BY <2>1, Published DEF PostedStay
<1> QED
  BY <1>1, <1>2, <1>3, PublishedTables, PublishedNames, PublishedReceipts, PublishedOrder,
     PublishShows DEF SeriesInv

(* The part of the invariant that is about one request, with the view v    *)
(* and the rows w written by it.                                           *)
Mine(v, w) ==
  /\ SeriesTables(v)
  /\ \A m \in Document \ w : v[m] # Absent => db[m] = v[m]
  /\ \A m \in w \cap Document :
       /\ db[m] = Absent /\ v[m] # Absent /\ v[m].code = v[Journal]
       /\ \A n \in PostedIn(db) : ~SameName(v[m], db[n])
       /\ \A n \in (w \cap Document) \ {m} : v[m].no # v[n].no
  /\ \A m \in PostedIn(v) : 1 .. v[m].no \subseteq Numbers \cup {v[n].no : n \in w \cap Document}
  /\ IF Counter \in w THEN Counted(v, ReceiptsIn(v) \cap w, NextOf(db), NextOf(v))
     ELSE ReceiptsIn(v) \cap w = {}
  /\ Ahead(v, w)

LEMMA MineHolds ==
  ASSUME SeriesInv, NEW t \in active PROVE Mine(view[t], wrote[t])
<1>1. \A m \in wrote[t] \cap Document :
        /\ db[m] = Absent /\ view[t][m] # Absent /\ view[t][m].code = view[t][Journal]
        /\ \A n \in PostedIn(db) : ~SameName(view[t][m], db[n])
        /\ \A n \in (wrote[t] \cap Document) \ {m} : view[t][m].no # view[t][n].no
  BY DEF SeriesInv, OwnNew, Own
<1>2. \A m \in Document \ wrote[t] : view[t][m] # Absent => db[m] = view[t][m]
  BY DEF SeriesInv, SeenPosted
<1>3. \A m \in PostedIn(view[t]) :
        1 .. view[t][m].no \subseteq Numbers \cup {view[t][n].no : n \in wrote[t] \cap Document}
  BY DEF SeriesInv, NoHoles, OwnNumbers, Own
<1>4. IF Counter \in wrote[t]
      THEN Counted(view[t], ReceiptsIn(view[t]) \cap wrote[t], NextOf(db), NextOf(view[t]))
      ELSE ReceiptsIn(view[t]) \cap wrote[t] = {}
  BY DEF SeriesInv, ReceiptsCounted
<1>5. SeriesTables(view[t]) BY DEF SeriesInv
<1>6. Ahead(view[t], wrote[t]) BY DEF SeriesInv, TakenInOrder
<1> QED BY <1>1, <1>2, <1>3, <1>4, <1>5, <1>6 DEF Mine

(* A step of t that commits nothing.                                       *)
Alone(t) ==
  /\ db' = db
  /\ \A u \in active' \ {t} : u \in active /\ view'[u] = view[u] /\ wrote'[u] = wrote[u]
  /\ t \in active' => Mine(view'[t], wrote'[t])
  /\ t \in active' =>
       \A u \in active \ {t} : \A m \in wrote'[t] \cap Document : \A n \in Own(u) :
         ~SameName(view'[t][m], view[u][n])

LEMMA AloneKeeps ==
  ASSUME SeriesInv, NEW t, Alone(t), SeriesLocks'
  PROVE  SeriesInv' /\ PostedStay /\ Shown
<1>1. ASSUME NEW u \in active' PROVE Mine(view'[u], wrote'[u])
  <2>1. CASE u = t BY <2>1, <1>1 DEF Alone
  <2>2. CASE u # t
    <3>1. u \in active /\ view'[u] = view[u] /\ wrote'[u] = wrote[u]
      BY <1>1, <2>2 DEF Alone
    <3> QED BY <3>1, MineHolds
  <2> QED BY <2>1, <2>2
<1>2. db' = db BY DEF Alone
<1>3. \A u \in active' : Own(u)' = wrote'[u] \cap Document BY DEF Own
<1>4. /\ SeriesTables(db)' /\ NamesUnique' /\ Numbers' = Numbers
      /\ \A u \in active' : SeriesTables(view[u])'
  <2>1. SeriesTables(db)' BY <1>2 DEF SeriesInv, SeriesTables
  <2>2. NamesUnique' /\ Numbers' = Numbers
    BY <1>2 DEF SeriesInv, NamesUnique, SameName, Numbers, PostedIn
  <2>3. \A u \in active' : SeriesTables(view[u])' BY <1>1 DEF Mine, SeriesTables
  <2> QED BY <2>1, <2>2, <2>3
<1>5. SeenPosted' BY <1>1, <1>2 DEF SeenPosted, Mine
<1>6. OwnNew'
  <2>1. ASSUME NEW u \in active', NEW v \in active' \ {u},
               NEW m \in wrote'[u] \cap Document, NEW n \in wrote'[v] \cap Document
        PROVE  ~SameName(view'[u][m], view'[v][n])
    <3>1. CASE u = t
      <4>1. v \in active \ {t} /\ view'[v] = view[v] /\ n \in Own(v)
        BY <2>1, <3>1 DEF Alone, Own
      <4> QED BY <2>1, <3>1, <4>1 DEF Alone
    <3>2. CASE v = t
      <4>1. u \in active \ {t} /\ view'[u] = view[u] /\ m \in Own(u)
        BY <2>1, <3>2 DEF Alone, Own
      <4>2. ~SameName(view'[v][n], view'[u][m]) BY <2>1, <3>2, <4>1 DEF Alone
      <4> QED BY <4>2 DEF SameName
    <3>3. CASE u # t /\ v # t
      <4>1. /\ u \in active /\ view'[u] = view[u] /\ m \in Own(u)
            /\ v \in active \ {u} /\ view'[v] = view[v] /\ n \in Own(v)
        BY <2>1, <3>3 DEF Alone, Own
      <4> QED BY <4>1 DEF SeriesInv, OwnNew
    <3> QED BY <3>1, <3>2, <3>3
  <2>2. ASSUME NEW u \in active', NEW m \in wrote'[u] \cap Document
        PROVE  /\ db'[m] = Absent /\ view'[u][m] # Absent
               /\ view'[u][m].code = view'[u][Journal]
               /\ \A n \in PostedIn(db') : ~SameName(view'[u][m], db'[n])
               /\ \A n \in (wrote'[u] \cap Document) \ {m} : view'[u][m].no # view'[u][n].no
    BY <1>1, <1>2, <2>2 DEF Mine
  <2> QED BY <2>1, <2>2 DEF OwnNew, Own, SameName, PostedIn
<1>7. NoHoles'
  <2>1. \A m \in PostedIn(db) : 1 .. db[m].no \subseteq Numbers BY DEF SeriesInv, NoHoles
  <2>2. ASSUME NEW u \in active', NEW m \in PostedIn(view'[u])
        PROVE  1 .. view'[u][m].no \subseteq Numbers' \cup OwnNumbers(u)'
    <3>1. OwnNumbers(u)' = {view'[u][n].no : n \in wrote'[u] \cap Document}
      BY DEF OwnNumbers, Own
    <3> QED BY <1>1, <1>4, <2>2, <3>1 DEF Mine
  <2> QED BY <2>1, <2>2, <1>2, <1>4 DEF NoHoles, PostedIn
<1>8. ReceiptsCounted'
  <2>1. Counted(db, ReceiptsIn(db), 1, NextOf(db)) BY DEF SeriesInv, ReceiptsCounted
  <2>2. Counted(db, ReceiptsIn(db), 1, NextOf(db))'
    BY <2>1, <1>2 DEF Counted, ReceiptsIn, NextOf, PostedIn
  <2>3. ASSUME NEW u \in active'
        PROVE  IF Counter \in wrote'[u]
               THEN Counted(view'[u], ReceiptsIn(view'[u]) \cap wrote'[u],
                            NextOf(db'), NextOf(view'[u]))
               ELSE ReceiptsIn(view'[u]) \cap wrote'[u] = {}
    BY <1>1, <1>2 DEF Mine
  <2> QED BY <2>2, <2>3 DEF ReceiptsCounted, Counted, ReceiptsIn, PostedIn, NextOf
<1>9. PostedStay BY <1>2 DEF PostedStay
<1>10. TakenInOrder'
  <2>1. \A u \in active' : Ahead(view'[u], wrote'[u]) BY <1>1 DEF Mine
  <2> QED BY <1>2, <2>1 DEF TakenInOrder, Ahead, Named, PostedIn
<1>11. Shown BY <1>2 DEF Shown, Series!series
<1> QED BY <1>4, <1>5, <1>6, <1>7, <1>8, <1>9, <1>10, <1>11 DEF SeriesInv

LEMMA BeginKeeps ==
  ASSUME SeriesInv, NEW t \in Txn, Begin(t) PROVE SeriesInv' /\ PostedStay /\ Shown
<1> USE DEF Begin, BeginTxn
<1>1. wrote[t] = {} /\ t \notin busy /\ t \notin active /\ view'[t] = db
  BY DEF SeriesInv, SeriesLocks
<1>2. SeriesLocks'
  <2>1. /\ active' \subseteq Txn /\ busy' \subseteq active' /\ DOMAIN db' = Row
        /\ DOMAIN view' = Txn /\ \A u \in Txn : DOMAIN view'[u] = Row
    BY DEF SeriesInv, SeriesLocks
  <2>2. ViewsCurrent'
    BY <1>1 DEF SeriesInv, SeriesLocks, ViewsCurrent
  <2> QED BY <2>1, <2>2 DEF SeriesInv, SeriesLocks
<1>3. Mine(db, {})
  <2>1. \A m \in PostedIn(db) : 1 .. db[m].no \subseteq Numbers BY DEF SeriesInv, NoHoles
  <2>2. Ahead(db, {}) BY DEF Ahead, SeriesInv, SeriesTables, Code
  <2> QED BY <2>1, <2>2 DEF SeriesInv, Mine
<1>4. Alone(t)
  BY <1>1, <1>3 DEF Alone, SeriesInv, SeriesLocks
<1> QED BY <1>2, <1>4, AloneKeeps

LEMMA AbortKeeps ==
  ASSUME SeriesInv, NEW t \in Txn, Abort(t) PROVE SeriesInv' /\ PostedStay /\ Shown
<1> USE DEF Abort, AbortTxn, EndTxn
<1>1. SeriesLocks'
  <2>1. /\ active' \subseteq Txn /\ busy' \subseteq active' /\ DOMAIN db' = Row
        /\ DOMAIN view' = Txn
    BY DEF SeriesInv, SeriesLocks
  <2>2. \A u \in Txn : DOMAIN view'[u] = Row
    BY DEF SeriesInv, SeriesLocks, EmptyView
  <2>3. wrote' \in [Txn -> SUBSET (Document \cup {Counter} \cup Close)] /\ missed' \in [Txn -> SUBSET Row]
    BY DEF SeriesInv, SeriesLocks
  <2>4. /\ \A u \in Txn \ busy' : wrote'[u] = {}
        /\ \A u, v \in Txn : u # v => wrote'[u] \cap wrote'[v] = {}
        /\ \A u \in Txn : wrote'[u] \cap missed'[u] = {}
    BY DEF SeriesInv, SeriesLocks
  <2>5. ViewsCurrent'
    BY DEF SeriesInv, SeriesLocks, ViewsCurrent
  <2> QED BY <2>1, <2>2, <2>3, <2>4, <2>5 DEF SeriesLocks
<1>2. Alone(t)
  BY DEF Alone, SeriesInv, SeriesLocks
<1> QED BY <1>1, <1>2, AloneKeeps

LEMMA CommitKeeps ==
  ASSUME SeriesInv, NEW t \in Txn, Commit(t) PROVE SeriesInv' /\ PostedStay /\ Shown
<1> USE DEF Commit, CommitTxn, EndTxn
<1> DEFINE W == wrote[t]
           rows == view[t]
<1>1. t \in active /\ W \subseteq Document \cup {Counter} \cup Close /\ Mine(rows, W)
  BY MineHolds DEF SeriesInv, SeriesLocks
<1>2. Publishes(t, W, rows)
  <2>1. /\ active' = active \ {t} /\ busy' = busy \ {t}
        /\ \A r \in Row : db'[r] = IF r \in W THEN rows[r] ELSE db[r]
        /\ DOMAIN db' = Row
        /\ wrote' = [wrote EXCEPT ![t] = {}]
        /\ missed' = [u \in Txn |-> IF u \in active \ {t} THEN missed[u] \cup W ELSE {}]
    OBVIOUS
  <2>2. W \subseteq Row BY <1>1, SeriesRows, CloseRows
  <2>3. \A r \in W : \A u \in Txn \ {t} : r \notin wrote[u] BY DEF SeriesInv, SeriesLocks
  <2>4. \A u \in Txn \ {t} : view'[u] = view[u] /\ wrote'[u] = wrote[u]
    BY DEF SeriesInv, SeriesLocks
  <2>5. view' \in [Txn -> [Row -> {Absent}] \cup {view[u] : u \in Txn}]
    BY DEF SeriesInv, SeriesLocks, EmptyView
  <2> QED BY <1>1, <2>1, <2>2, <2>3, <2>4, <2>5 DEF Publishes
<1> HIDE DEF W, rows
<1>3. NewIn(W) = W \cap Document
  BY <1>1 DEF Mine, NewIn
<1>4. GoodRows(W, rows)
  <2>1. Journal \notin W BY <1>1, SeriesRows, CloseRows
  <2>2. SeriesTables(rows) /\ \A m \in W \cap Document : rows[m] # Absent BY <1>1 DEF Mine
  <2> QED BY <1>3, <2>1, <2>2 DEF GoodRows, SeriesTables
<1>5. GoodNames(t, W, rows)
  <2>1. ASSUME NEW m \in W \cap Document
        PROVE  /\ \A n \in PostedIn(db) : ~SameName(rows[m], db[n])
               /\ \A n \in (W \cap Document) \ {m} : ~SameName(rows[m], rows[n])
               /\ 1 .. rows[m].no \subseteq Numbers \cup {rows[n].no : n \in W \cap Document}
    <3>1. m \in PostedIn(rows) BY <1>1 DEF Mine, PostedIn
    <3> QED BY <1>1, <2>1, <3>1 DEF Mine, SameName
  <2>2. ASSUME NEW m \in W \cap Document, NEW u \in active \ {t}, NEW n \in Own(u)
        PROVE  ~SameName(rows[m], view[u][n])
    BY <1>1 DEF SeriesInv, OwnNew, Own, W, rows
  <2> QED BY <1>3, <2>1, <2>2 DEF GoodNames
<1>6. GoodReceipts(W, rows)
  <2>1. {m \in W \cap Document : rows[m].kind = "receipt"} = ReceiptsIn(rows) \cap W
    BY <1>1 DEF Mine, ReceiptsIn, PostedIn
  <2> QED BY <1>1, <1>3, <2>1 DEF GoodReceipts, Mine
<1>7. GoodOrder(W, rows)
  <2> DEFINE seen == {0} \cup {rows[n].no : n \in PostedIn(rows) \ W}
  <2>1. \A n \in PostedIn(rows) \ W : rows[n].no \in 1 .. Bound /\ rows[n].no \in Numbers
    BY <1>1 DEF Mine, SeriesTables, PostedIn, Numbers
  <2>2. seen \in SUBSET (0 .. Bound) /\ seen # {} BY <2>1, BoundType
  <2>3. PICK behind \in seen : \A k \in seen : behind >= k
    <3> HIDE DEF seen
    <3> QED BY <2>2, BoundType, LastExists
  <2>4. behind \in {0} \cup Numbers /\ behind \in Nat BY <2>1, <2>2
  <2>5. Ahead(rows, W) /\ rows[Journal] \in 1 .. db[Journal]
    BY <1>1 DEF Mine, Ahead, SeriesTables, Code, SeriesInv
  <2>6. ASSUME NEW m \in W \cap Document
        PROVE  /\ rows[m].code = rows[Journal] /\ rows[m].no > behind
               /\ \A k \in behind + 1 .. rows[m].no :
                    Named(db, rows[Journal], k) \/ \E n \in W \cap Document : rows[n].no = k
    <3>1. rows[m].code = rows[Journal] /\ rows[m].no \in 1 .. Bound
      BY <1>1 DEF Mine, SeriesTables
    <3>2. rows[m].no > behind
      <4>1. CASE behind = 0 BY <3>1, <4>1
      <4>2. CASE behind # 0 BY <2>3, <2>4, <2>5, <3>1, <4>2 DEF Ahead
      <4> QED BY <4>1, <4>2
    <3>3. ASSUME NEW k \in behind + 1 .. rows[m].no
          PROVE  Named(db, rows[Journal], k) \/ \E n \in W \cap Document : rows[n].no = k
      <4>1. k \in 1 .. rows[m].no /\ k > behind BY <2>4
      <4>2. \A n \in PostedIn(rows) \ W : ~(k <= rows[n].no)
        BY <2>1, <2>3, <2>4, <4>1
      <4> QED BY <2>5, <4>1, <4>2 DEF Ahead
    <3> QED BY <3>1, <3>2, <3>3
  <2> QED BY <1>3, <2>4, <2>5, <2>6 DEF GoodOrder
<1> QED BY <1>2, <1>4, <1>5, <1>6, <1>7, PublishKeeps

(* A request that does one thing and commits.                              *)
LEMMA ServePublishes ==
  ASSUME SeriesInv, NEW t \in Txn, NEW new, DOMAIN new \subseteq Row, Serve(t, new)
  PROVE  /\ Publishes(t, DOMAIN new, new) /\ wrote[t] = {}
         /\ \A r \in DOMAIN new : db[r] = view[t][r]
<1> USE DEF Serve, CommitWith, EndTxn
<1>1. wrote[t] = {} /\ t \in active /\ busy' = busy \ {t} /\ active' = active \ {t}
  BY DEF SeriesInv, SeriesLocks
<1> DEFINE W == DOMAIN new
<1>2. /\ \A r \in Row : db'[r] = IF r \in W THEN new[r] ELSE db[r]
      /\ DOMAIN db' = Row
  BY <1>1
<1>3. wrote' = [wrote EXCEPT ![t] = {}]
      /\ missed' = [u \in Txn |-> IF u \in active \ {t} THEN missed[u] \cup W ELSE {}]
  BY <1>1
<1>4. \A r \in W : CanWrite(t, r) OBVIOUS
<1>5. \A r \in W : r \notin missed[t] /\ \A u \in Txn \ {t} : r \notin wrote[u]
  BY <1>4 DEF CanWrite
<1>6. \A u \in Txn \ {t} : view'[u] = view[u] /\ wrote'[u] = wrote[u]
  BY DEF SeriesInv, SeriesLocks
<1>7. view' \in [Txn -> [Row -> {Absent}] \cup {view[u] : u \in Txn}]
  BY DEF SeriesInv, SeriesLocks, EmptyView
<1>8. Publishes(t, DOMAIN new, new)
  BY <1>1, <1>2, <1>3, <1>5, <1>6, <1>7 DEF Publishes
<1>9. \A r \in DOMAIN new : db[r] = view[t][r]
  BY <1>1, <1>5 DEF SeriesInv, SeriesLocks, ViewsCurrent
<1> QED BY <1>1, <1>8, <1>9

(* It may change rows that are no documents,                               *)
LEMMA ServeOther ==
  ASSUME SeriesInv, NEW t \in Txn, NEW new, DOMAIN new \subseteq Row, Serve(t, new),
         Counter \notin DOMAIN new,
         Journal \in DOMAIN new => /\ new[Journal] \in Code /\ new[Journal] = view[t][Journal] + 1
                                   /\ DOMAIN new = {Journal},
         \A m \in Document \cap DOMAIN new : new[m] = view[t][m] /\ new[m] # Absent
  PROVE  SeriesInv' /\ PostedStay /\ Shown
<1> DEFINE W == DOMAIN new
<1>1. Publishes(t, W, new) /\ \A r \in W : db[r] = view[t][r] BY ServePublishes
<1>2. NewIn(W) = {} BY <1>1 DEF NewIn
<1>3. GoodRows(W, new) BY <1>1, <1>2 DEF GoodRows
<1>4. GoodNames(t, W, new) BY <1>2 DEF GoodNames
<1>5. GoodReceipts(W, new) BY <1>2 DEF GoodReceipts
<1>6. GoodOrder(W, new)
  <2>1. db[Journal] \in 1 .. db[Journal] BY DEF SeriesInv, SeriesTables, Code
  <2> QED BY <1>2, <2>1 DEF GoodOrder
<1> QED BY <1>1, <1>3, <1>4, <1>5, <1>6, PublishKeeps

(* or post one document that is no receipt.                                *)
LEMMA ServeDocument ==
  ASSUME SeriesInv, NEW t \in Txn, NEW new, DOMAIN new \subseteq Row, Serve(t, new),
         Counter \notin DOMAIN new, Journal \notin DOMAIN new,
         NEW m \in Document, DOMAIN new \cap Document = {m}, view[t][m] = Absent,
         MayNumber(t), NEW kind \in Kind \ {"receipt"}, NEW date \in Date, NEW pl \in Int,
         new[m] = Numbered(t, kind, date, pl)
  PROVE  SeriesInv' /\ PostedStay /\ Shown
<1> DEFINE W == DOMAIN new
           no == NextNumber(t)
<1>1. Publishes(t, W, new) /\ wrote[t] = {} /\ db[m] = Absent BY ServePublishes
<1>2. t \in active /\ Own(t) = {} /\ OwnNumbers(t) = {}
  BY <1>1 DEF Publishes, Own, OwnNumbers
<1>3. /\ no \in 1 .. Bound /\ ~Named(db, view[t][Journal], no)
      /\ 1 .. (no - 1) \subseteq Numbers
  BY <1>1, <1>2, NextNumberFacts
<1>4. NewIn(W) = {m} BY <1>1 DEF NewIn
<1>5. /\ new[m] \in DocumentRow /\ new[m].kind # "receipt"
      /\ new[m].no = no /\ new[m].code = view[t][Journal]
  <2>1. view[t][Journal] \in Code BY <1>2 DEF SeriesInv, SeriesTables
  <2> HIDE DEF no
  <2>2. no \in Nat BY <1>3, BoundType
  <2> QED BY <2>1, <2>2 DEF Numbered, DocumentRow, no
<1> HIDE DEF no
<1>6. GoodRows(W, new) BY <1>3, <1>4, <1>5 DEF GoodRows
<1>7. GoodNames(t, W, new)
  <2>1. \A n \in PostedIn(db) : ~SameName(new[m], db[n])
    BY <1>3, <1>5 DEF Named, SameName
  <2>2. \A u \in active \ {t} : \A n \in Own(u) : ~SameName(new[m], view[u][n])
    BY <1>5 DEF MayNumber, NameFree, Own, SameName, no
  <2>3. 1 .. new[m].no \subseteq Numbers \cup {new[n].no : n \in NewIn(W)}
    <3>1. \A k \in 1 .. no : k \in 1 .. (no - 1) \/ k = no BY <1>3, BoundType
    <3> QED BY <1>3, <1>4, <1>5, <3>1
  <2> QED BY <1>4, <2>1, <2>2, <2>3 DEF GoodNames
<1>8. GoodReceipts(W, new) BY <1>4, <1>5 DEF GoodReceipts
<1>9. GoodOrder(W, new)
  <2> DEFINE behind == LastNumber(t)
  <2>1. /\ behind \in Nat /\ behind < no
        /\ behind = 0 \/ \E d \in PostedIn(view[t]) : view[t][d].no = behind
        /\ \A k \in 1 .. (no - 1) : k <= behind \/ Named(db, view[t][Journal], k)
    BY <1>1, <1>2, NextNumberFacts DEF no
  <2> HIDE DEF behind
  <2>2. behind \in {0} \cup Numbers
    <3>1. \A d \in PostedIn(view[t]) : db[d] = view[t][d]
      BY <1>1, <1>2 DEF SeriesInv, SeenPosted, PostedIn
    <3> QED BY <2>1, <3>1 DEF Numbers, PostedIn
  <2>3. view[t][Journal] \in 1 .. db[Journal]
    BY <1>2 DEF SeriesInv, SeriesTables, TakenInOrder, Ahead, Code
  <2>4. \A k \in behind + 1 .. no : Named(db, view[t][Journal], k) \/ no = k
    BY <1>3, <2>1, BoundType
  <2> QED BY <1>4, <1>5, <2>1, <2>2, <2>3, <2>4 DEF GoodOrder
<1> QED BY <1>1, <1>6, <1>7, <1>8, <1>9, PublishKeeps

LEMMA ChangeCodeKeeps ==
  ASSUME SeriesInv, NEW t \in Txn, ChangeCode(t) PROVE SeriesInv' /\ PostedStay /\ Shown
<1> DEFINE new == [r \in {Journal} |-> view[t][Journal] + 1]
<1>1. DOMAIN new = {Journal} /\ new[Journal] = view[t][Journal] + 1 OBVIOUS
<1>2. t \in active /\ view[t][Journal] < LastCode /\ Serve(t, new) BY DEF ChangeCode
<1>3. view[t][Journal] + 1 \in Code
  BY <1>2, SeriesInputAssumption DEF SeriesInv, SeriesTables, Code
<1> HIDE DEF new
<1> QED BY <1>1, <1>2, <1>3, SeriesRows, ServeOther

LEMMA AssignReceiptKeeps ==
  ASSUME SeriesInv, NEW t \in Txn, NEW m \in Document, AssignReceipt(t, m)
  PROVE  SeriesInv' /\ PostedStay /\ Shown
<1> DEFINE new == [r \in {m} |-> view[t][m]]
<1>1. DOMAIN new = {m} /\ new[m] = view[t][m] OBVIOUS
<1>2. view[t][m] # Absent /\ view[t][m].receipt # 0
  BY DEF AssignReceipt, Exists, SeriesInv, SeriesTables
<1>3. Serve(t, new) BY <1>2 DEF AssignReceipt, ReceiptAssigned
<1> HIDE DEF new
<1> QED BY <1>1, <1>2, <1>3, SeriesRows, ServeOther

(* The rows a posting writes: a document, its receipt number, and the close*)
(* it belongs to if any.                                                   *)
PostingRows(t, m, kind, new) ==
  /\ DOMAIN new \subseteq Document \cup {Counter} \cup Close
  /\ DOMAIN new \ Close = IF kind = "receipt" THEN {m, Counter} ELSE {m}
  /\ new[m] \in DocumentRow /\ new[m].kind = kind
  /\ new[m].code = view[t][Journal] /\ new[m].no = NextNumber(t)
  /\ kind = "receipt" => /\ new[m].receipt = NextOf(view[t])
                         /\ new[Counter] = NextOf(view[t]) + 1
  /\ NextOf(view[t]) \in Nat \ {0}

LEMMA PostedRows ==
  ASSUME SeriesInv, NEW t \in active, NEW m \in Document, NEW kind \in {"entry", "receipt"},
         NEW date \in Date, NEW pl \in Int, NextNumber(t) \in Nat
  PROVE  PostingRows(t, m, kind, ReceiptAssigned(t, m, Numbered(t, kind, date, pl)))
<1> USE DEF PostingRows
<1> DEFINE new == ReceiptAssigned(t, m, Numbered(t, kind, date, pl))
<1> DEFINE row == Numbered(t, kind, date, pl)
           numbered == [row EXCEPT !.receipt = NextReceipt(t)]
<1>1. view[t][Journal] \in Code /\ Code \subseteq Nat
  BY SeriesInputAssumption DEF SeriesInv, SeriesTables, Code
<1>2. NextReceipt(t) = NextOf(view[t]) /\ NextOf(view[t]) \in Nat \ {0}
  BY DEF NextReceipt, NextOf, Exists, SeriesInv, SeriesTables
<1>3. /\ row \in DocumentRow /\ row.kind = kind /\ row.receipt = 0
      /\ row.code = view[t][Journal] /\ row.no = NextNumber(t)
  BY <1>1 DEF Numbered, DocumentRow, Kind
<1>4. /\ numbered \in DocumentRow /\ numbered.kind = kind /\ numbered.receipt = NextReceipt(t)
      /\ numbered.code = view[t][Journal] /\ numbered.no = NextNumber(t)
  BY <1>2, <1>3 DEF DocumentRow
<1> HIDE DEF row
<1>5. CASE kind = "receipt"
  <2>1. new = [r \in {m, Counter} |-> IF r = m THEN numbered ELSE NextReceipt(t) + 1]
    BY <1>3, <1>5 DEF ReceiptAssigned, row
  <2> HIDE DEF numbered, new
  <2>2. m # Counter BY SeriesRows
  <2>3. DOMAIN new = {m, Counter} BY <2>1
  <2>4. DOMAIN new \subseteq Document \cup {Counter} /\ DOMAIN new \ Close = {m, Counter}
    BY <2>3, CloseRows
  <2>5. PostingRows(t, m, kind, new) BY <1>2, <1>4, <1>5, <2>1, <2>2, <2>4
  <2> HIDE DEF PostingRows
  <2> QED BY <2>5 DEF new
<1>6. CASE kind # "receipt"
  <2>1. new = [r \in {m} |-> row]
    BY <1>3, <1>6 DEF ReceiptAssigned, row
  <2> HIDE DEF numbered, new
  <2>2. DOMAIN new = {m} BY <2>1
  <2>3. DOMAIN new \subseteq Document /\ DOMAIN new \ Close = {m} BY <2>2, CloseRows
  <2>4. PostingRows(t, m, kind, new) BY <1>2, <1>3, <1>6, <2>1, <2>3
  <2> HIDE DEF PostingRows
  <2> QED BY <2>4 DEF new
<1> QED BY <1>5, <1>6

(* A request posts a document and goes on.                                 *)
Posting(t, m, kind, new) ==
  /\ t \in active /\ view[t][m] = Absent /\ NameFree(t, NextNumber(t))
  /\ PutAll(t, new) /\ m \in DOMAIN new
  /\ busy' = busy \cup {t}
  /\ UNCHANGED <<db, active, shared, missed>>
  /\ NextNumber(t) \in Nat => PostingRows(t, m, kind, new)

LEMMA PostingKeeps ==
  ASSUME SeriesInv, NEW t \in Txn, NEW m \in Document, NEW kind \in Kind, NEW new,
         Posting(t, m, kind, new)
  PROVE  SeriesInv' /\ PostedStay /\ Shown
<1> DEFINE W == DOMAIN new
           w == wrote[t] \cup W
           v == [r \in Row |-> IF r \in W THEN new[r] ELSE view[t][r]]
           no == NextNumber(t)
<1>1. /\ t \in active /\ view[t][m] = Absent /\ NameFree(t, no)
      /\ PutAll(t, new) /\ busy' = busy \cup {t}
      /\ UNCHANGED <<db, active, shared, missed>>
  BY DEF Posting
<1>2. Mine(view[t], wrote[t]) BY <1>1, MineHolds
<1>3. m \notin wrote[t] BY <1>1, <1>2 DEF Mine
<1>5. /\ \A r \in W : r \notin missed[t] /\ \A u \in Txn \ {t} : r \notin wrote[u]
      /\ view' = [view EXCEPT ![t] = v] /\ wrote' = [wrote EXCEPT ![t] = w]
  <2>1. \A r \in W : CanWrite(t, r) BY <1>1 DEF PutAll
  <2>2. view' = [view EXCEPT ![t] = v] /\ wrote' = [wrote EXCEPT ![t] = w]
    BY <1>1 DEF PutAll
  <2> QED BY <2>1, <2>2 DEF CanWrite
<1>6. m \in W BY DEF Posting
<1>7. db[m] = Absent
  BY <1>1, <1>3, <1>5, <1>6, SeriesRows DEF SeriesInv, SeriesLocks, ViewsCurrent
<1>8. /\ no \in 1 .. Bound /\ \A d \in PostedIn(view[t]) : view[t][d].no < no
      /\ ~Named(db, view[t][Journal], no)
      /\ 1 .. (no - 1) \subseteq Numbers \cup OwnNumbers(t)
  BY <1>1, <1>7, NextNumberFacts
<1>9. /\ W \subseteq Document \cup {Counter} \cup Close
      /\ W \ Close = IF kind = "receipt" THEN {m, Counter} ELSE {m}
      /\ new[m] \in DocumentRow /\ new[m].kind = kind
      /\ new[m].code = view[t][Journal] /\ new[m].no = no
      /\ kind = "receipt" => /\ new[m].receipt = NextOf(view[t])
                             /\ new[Counter] = NextOf(view[t]) + 1
      /\ NextOf(view[t]) \in Nat \ {0}
  <2>1. NextNumber(t) \in Nat BY <1>8, BoundType
  <2>2. PostingRows(t, m, kind, new) BY <2>1 DEF Posting
  <2> QED BY <2>2 DEF PostingRows
<1> HIDE DEF no
<1>10. /\ v[m] = new[m] /\ v[Journal] = view[t][Journal]
       /\ \A d \in Document \ {m} : v[d] = view[t][d]
       /\ v[Counter] = IF kind = "receipt" THEN NextOf(view[t]) + 1 ELSE view[t][Counter]
       /\ w \cap Document = (wrote[t] \cap Document) \cup {m}
       /\ Counter \in w <=> (kind = "receipt" \/ Counter \in wrote[t])
       /\ v[m] # Absent
  <2>1. /\ m \in W /\ Journal \notin W /\ \A d \in Document \ {m} : d \notin W
        /\ Counter \in W <=> kind = "receipt"
    BY <1>6, <1>9, SeriesRows, CloseRows
  <2> HIDE DEF W
  <2>2. /\ v[m] = new[m] /\ v[Journal] = view[t][Journal]
        /\ \A d \in Document \ {m} : v[d] = view[t][d]
        /\ v[Counter] = IF kind = "receipt" THEN NextOf(view[t]) + 1 ELSE view[t][Counter]
    BY <1>9, <2>1, SeriesRows
  <2>3. /\ w \cap Document = (wrote[t] \cap Document) \cup {m}
        /\ Counter \in w <=> (kind = "receipt" \/ Counter \in wrote[t])
    BY <2>1
  <2> QED BY <1>9, <2>2, <2>3, SeriesAbsentAssumption
<1>11. PostedIn(v) = PostedIn(view[t]) \cup {m}
  BY <1>10 DEF PostedIn
<1>12. view'[t] = v /\ wrote'[t] = w /\ \A u \in Txn \ {t} : view'[u] = view[u] /\ wrote'[u] = wrote[u]
  BY <1>5 DEF SeriesInv, SeriesLocks
<1>13. SeriesLocks'
  <2>1. W \subseteq Document \cup {Counter} \cup Close BY <1>9
  <2>2. active' \subseteq Txn /\ busy' \subseteq active' /\ DOMAIN db' = Row
    BY <1>1 DEF SeriesInv, SeriesLocks
  <2>3. DOMAIN view' = Txn /\ \A u \in Txn : DOMAIN view'[u] = Row
    BY <1>5, <1>12 DEF SeriesInv, SeriesLocks
  <2>4. wrote' \in [Txn -> SUBSET (Document \cup {Counter} \cup Close)] /\ missed' \in [Txn -> SUBSET Row]
    BY <1>1, <1>5, <2>1 DEF SeriesInv, SeriesLocks
  <2>5. \A u \in Txn \ busy' : wrote'[u] = {}
    BY <1>1, <1>12 DEF SeriesInv, SeriesLocks
  <2>6. \A u, x \in Txn : u # x => wrote'[u] \cap wrote'[x] = {}
    BY <1>5, <1>12 DEF SeriesInv, SeriesLocks
  <2>7. \A u \in Txn : wrote'[u] \cap missed'[u] = {}
    BY <1>1, <1>5, <1>12 DEF SeriesInv, SeriesLocks
  <2>8. ViewsCurrent'
    <3>1. ASSUME NEW u \in active', NEW r \in Row, r \notin missed'[u], r \notin wrote'[u]
          PROVE  view'[u][r] = db'[r]
      <4>1. u \in active /\ r \notin missed[u] BY <1>1, <3>1
      <4>2. CASE u = t BY <1>1, <1>12, <3>1, <4>1, <4>2 DEF SeriesInv, SeriesLocks, ViewsCurrent
      <4>3. CASE u # t BY <1>1, <1>12, <3>1, <4>1, <4>3 DEF SeriesInv, SeriesLocks, ViewsCurrent
      <4> QED BY <4>2, <4>3
    <3> QED BY <3>1 DEF ViewsCurrent
  <2> QED BY <2>2, <2>3, <2>4, <2>5, <2>6, <2>7, <2>8 DEF SeriesLocks
<1> HIDE DEF v, w, W
<1>14. SeriesTables(v)
  <2>1. v[Journal] \in Code /\ v[Counter] \in (Nat \ {0}) \cup {Absent}
    BY <1>2, <1>9, <1>10 DEF Mine, SeriesTables
  <2>2. ASSUME NEW d \in Document, v[d] # Absent
        PROVE  /\ v[d] \in DocumentRow /\ v[d].no \in 1 .. Bound
               /\ v[d].kind = "receipt" => v[d].receipt # 0
    <3>1. CASE d = m BY <1>8, <1>9, <1>10, <3>1
    <3>2. CASE d # m BY <1>2, <1>10, <2>2, <3>2 DEF Mine, SeriesTables
    <3> QED BY <3>1, <3>2
  <2> QED BY <2>1, <2>2 DEF SeriesTables
<1>15. ASSUME NEW d \in w \cap Document
       PROVE  /\ db[d] = Absent /\ v[d] # Absent /\ v[d].code = v[Journal]
              /\ \A n \in PostedIn(db) : ~SameName(v[d], db[n])
              /\ \A n \in (w \cap Document) \ {d} : v[d].no # v[n].no
  <2>1. \A n \in wrote[t] \cap Document : n # m /\ v[n] = view[t][n] /\ n \in PostedIn(view[t])
    BY <1>2, <1>3, <1>10 DEF Mine, PostedIn
  <2>2. \A n \in wrote[t] \cap Document : view[t][n].no < no /\ view[t][n].no \in Nat /\ no \in Nat
    BY <1>2, <1>8, <2>1, BoundType DEF Mine, SeriesTables, PostedIn, DocumentRow
  <2>3. \A n \in wrote[t] \cap Document : v[n].no # v[m].no
    BY <1>9, <1>10, <2>1, <2>2
  <2>4. CASE d = m
    <3>1. \A n \in PostedIn(db) : ~SameName(v[d], db[n])
      BY <1>8, <1>9, <1>10, <2>4 DEF Named, SameName
    <3>2. \A n \in (w \cap Document) \ {d} : v[d].no # v[n].no
      BY <1>10, <2>3, <2>4
    <3> QED BY <1>7, <1>9, <1>10, <2>4, <3>1, <3>2
  <2>5. CASE d # m
    <3>1. d \in wrote[t] \cap Document /\ v[d] = view[t][d] BY <1>10, <1>15, <2>5
    <3>2. \A n \in (w \cap Document) \ {d} : v[d].no # v[n].no
      <4>1. ASSUME NEW n \in (w \cap Document) \ {d} PROVE v[d].no # v[n].no
        <5>1. CASE n = m BY <2>3, <3>1, <5>1
        <5>2. CASE n # m
          <6>1. n \in (wrote[t] \cap Document) \ {d} /\ v[n] = view[t][n] BY <1>10, <4>1, <5>2
          <6> QED BY <1>2, <3>1, <6>1 DEF Mine
        <5> QED BY <5>1, <5>2
      <4> QED BY <4>1
    <3> QED BY <1>2, <1>10, <3>1, <3>2 DEF Mine
  <2> QED BY <2>4, <2>5
<1>16. \A d \in PostedIn(v) : 1 .. v[d].no \subseteq Numbers \cup {v[n].no : n \in w \cap Document}
  <2>1. OwnNumbers(t) \subseteq {v[n].no : n \in w \cap Document}
    BY <1>3, <1>10 DEF OwnNumbers, Own
  <2>2. ASSUME NEW d \in PostedIn(v)
        PROVE  1 .. v[d].no \subseteq Numbers \cup {v[n].no : n \in w \cap Document}
    <3>1. CASE d = m
      <4>1. \A k \in 1 .. no : k \in 1 .. (no - 1) \/ k = no BY <1>8, BoundType
      <4>2. v[d].no = no /\ d \in w \cap Document BY <1>9, <1>10, <3>1
      <4> QED BY <1>8, <2>1, <4>1, <4>2
    <3>2. CASE d # m
      <4>1. d \in PostedIn(view[t]) /\ v[d] = view[t][d]
        BY <1>10, <1>11, <2>2, <3>2 DEF PostedIn
      <4>2. 1 .. view[t][d].no \subseteq Numbers \cup OwnNumbers(t)
        BY <1>1, <4>1 DEF SeriesInv, NoHoles
      <4> QED BY <2>1, <4>1, <4>2
    <3> QED BY <3>1, <3>2
  <2> QED BY <2>2
<1>17. IF Counter \in w THEN Counted(v, ReceiptsIn(v) \cap w, NextOf(db), NextOf(v))
       ELSE ReceiptsIn(v) \cap w = {}
  <2> DEFINE docs == ReceiptsIn(view[t]) \cap wrote[t]
             from == NextOf(db)
             next == NextOf(view[t])
  <2>1. from \in Nat \ {0} BY DEF NextOf, SeriesInv, SeriesTables
  <2>2. Counter \in w => Counted(view[t], docs, from, next)
    <3>1. CASE Counter \in wrote[t] BY <1>2, <3>1 DEF Mine
    <3>2. CASE Counter \notin wrote[t] /\ kind = "receipt"
      <4>1. docs = {} BY <1>2, <3>2 DEF Mine
      <4>2. Counter \in W BY <1>9, <3>2, CloseRows
      <4>3. view[t][Counter] = db[Counter]
        BY <1>1, <1>5, <3>2, <4>2, SeriesRows DEF SeriesInv, SeriesLocks, ViewsCurrent
      <4>4. next = from BY <4>3 DEF NextOf
      <4> HIDE DEF from, next, docs
      <4> QED BY <2>1, <4>1, <4>4 DEF Counted
    <3> QED BY <1>10, <3>1, <3>2
  <2>3. \A d \in docs : v[d] = view[t][d] /\ d # m
    BY <1>3, <1>10 DEF ReceiptsIn, PostedIn
  <2>4. CASE kind = "receipt"
    <3>1. ReceiptsIn(v) \cap w = docs \cup {m}
      <4>1. \A d \in Document : d \in ReceiptsIn(v) \cap w <=> d \in docs \cup {m}
        BY <1>9, <1>10, <1>11, <2>4 DEF ReceiptsIn, PostedIn
      <4> QED BY <4>1 DEF ReceiptsIn, PostedIn
    <3>2. NextOf(v) = next + 1 /\ v[m].receipt = next /\ next \in Nat \ {0}
      BY <1>9, <1>10, <2>4, SeriesAbsentAssumption DEF NextOf
    <3>3. Counted(v, docs, from, next)
      BY <1>10, <2>2, <2>3, <2>4 DEF Counted
    <3>4. \A d \in docs : v[d].receipt \in Nat
      BY <1>14, <2>3 DEF SeriesTables, DocumentRow, ReceiptsIn, PostedIn
    <3> HIDE DEF from, next, docs
    <3>5. Counted(v, docs \cup {m}, from, next + 1)
      <4>1. \A d \in docs \cup {m} : from <= v[d].receipt /\ v[d].receipt < next + 1
        BY <2>1, <3>2, <3>3, <3>4 DEF Counted
      <4>2. \A d, n \in docs \cup {m} : d # n => v[d].receipt # v[n].receipt
        <5>1. \A d \in docs : v[d].receipt # v[m].receipt BY <3>2, <3>3, <3>4 DEF Counted
        <5> QED BY <3>3, <5>1 DEF Counted
      <4>3. \A k \in from .. next : \E d \in docs \cup {m} : v[d].receipt = k
        <5>1. \A k \in from .. next : k \in from .. (next - 1) \/ k = next BY <2>1, <3>2
        <5> QED BY <3>2, <3>3, <5>1 DEF Counted
      <4>4. from <= next + 1 /\ (next + 1) - 1 = next BY <2>1, <3>2, <3>3 DEF Counted
      <4> QED BY <4>1, <4>2, <4>3, <4>4 DEF Counted
    <3> QED BY <1>10, <2>4, <3>1, <3>2, <3>5 DEF from, next
  <2>5. CASE kind # "receipt"
    <3>1. ReceiptsIn(v) \cap w = docs
      <4>1. \A d \in Document : d \in ReceiptsIn(v) \cap w <=> d \in docs
        BY <1>3, <1>9, <1>10, <1>11, <2>5 DEF ReceiptsIn, PostedIn
      <4> QED BY <4>1 DEF ReceiptsIn, PostedIn
    <3>2. NextOf(v) = next BY <1>10, <2>5 DEF NextOf
    <3>3. Counter \in w => Counted(v, docs, from, next)
      BY <2>2, <2>3 DEF Counted
    <3>4. Counter \notin w => docs = {} BY <1>2, <1>10 DEF Mine
    <3> QED BY <3>1, <3>2, <3>3, <3>4
  <2> QED BY <2>4, <2>5
<1>18. \A d \in Document \ w : v[d] # Absent => db[d] = v[d]
  BY <1>2, <1>10 DEF Mine
<1>19. Ahead(v, w)
  <2>1. /\ LastNumber(t) \in Nat /\ LastNumber(t) < no
        /\ LastNumber(t) = 0 \/ \E d \in PostedIn(view[t]) : view[t][d].no = LastNumber(t)
        /\ \A k \in 1 .. (no - 1) : k <= LastNumber(t) \/ Named(db, view[t][Journal], k)
    BY <1>1, <1>7, NextNumberFacts DEF no
  <2> DEFINE last == LastNumber(t)
  <2> HIDE DEF last
  <2>2. Ahead(view[t], wrote[t]) BY <1>2 DEF Mine
  <2>3. v[Journal] <= db[Journal] BY <1>10, <2>2 DEF Ahead
  <2>4. PostedIn(v) \ w = PostedIn(view[t]) \ wrote[t]
        /\ \A n \in PostedIn(v) \ w : v[n] = view[t][n]
    <3>1. \A n \in Document \ {m} : v[n] = view[t][n] /\ (n \in w <=> n \in wrote[t])
      BY <1>10
    <3>2. m \in w /\ view[t][m] = Absent BY <1>1, <1>10
    <3>3. PostedIn(v) \ w = PostedIn(view[t]) \ wrote[t]
      BY <3>1, <3>2 DEF PostedIn
    <3> QED BY <3>1, <3>2, <3>3 DEF PostedIn
  <2>5. \A n \in wrote[t] \cap Document : n \in w \cap Document /\ n # m /\ v[n] = view[t][n]
    BY <1>3, <1>10
  <2>6. ASSUME NEW k \in Nat \ {0}, NEW d \in PostedIn(view[t]), k <= view[t][d].no
        PROVE  \/ Named(db, v[Journal], k)
               \/ \E n \in w \cap Document : v[n].no = k
               \/ \E n \in PostedIn(v) \ w : k <= v[n].no
    <3>1. view[t][d].no \in Nat BY <1>2 DEF Mine, SeriesTables, PostedIn, DocumentRow
    <3>2. k \in 1 .. view[t][d].no BY <2>6, <3>1
    <3>3. CASE d \in wrote[t]
      <4>1. d \in wrote[t] \cap Document BY <3>3 DEF PostedIn
      <4>2. \/ Named(db, view[t][Journal], k)
            \/ \E n \in wrote[t] \cap Document : view[t][n].no = k
            \/ \E n \in PostedIn(view[t]) \ wrote[t] : k <= view[t][n].no
        BY <2>2, <3>2, <4>1 DEF Ahead
      <4> QED BY <1>10, <2>4, <2>5, <4>2
    <3>4. CASE d \notin wrote[t] BY <2>4, <2>6, <3>4
    <3> QED BY <3>3, <3>4
  <2>7. ASSUME NEW d \in w \cap Document
        PROVE  /\ \A n \in PostedIn(v) \ w : v[n].no < v[d].no
               /\ \A k \in 1 .. v[d].no :
                    \/ Named(db, v[Journal], k)
                    \/ \E n \in w \cap Document : v[n].no = k
                    \/ \E n \in PostedIn(v) \ w : k <= v[n].no
    <3>1. CASE d = m
      <4>1. v[d].no = no BY <1>9, <1>10, <3>1
      <4>2. \A n \in PostedIn(v) \ w : v[n].no < no BY <1>8, <2>4
      <4>3. ASSUME NEW k \in 1 .. no
            PROVE  \/ Named(db, v[Journal], k)
                   \/ \E n \in w \cap Document : v[n].no = k
                   \/ \E n \in PostedIn(v) \ w : k <= v[n].no
        <5>1. CASE k = no BY <2>7, <4>1, <5>1
        <5>2. CASE k # no
          <6>1. k \in 1 .. (no - 1) BY <1>8, <5>2, BoundType
          <6>2. CASE k <= LastNumber(t)
            <7>1. PICK e \in PostedIn(view[t]) : view[t][e].no = LastNumber(t)
              BY <2>1, <6>1, <6>2
            <7> QED BY <2>6, <6>1, <6>2, <7>1
          <6>3. CASE ~(k <= LastNumber(t)) BY <1>10, <2>1, <6>1, <6>3
          <6> QED BY <6>2, <6>3
        <5> QED BY <5>1, <5>2
      <4> QED BY <4>1, <4>2, <4>3
    <3>2. CASE d # m
      <4>1. d \in wrote[t] \cap Document /\ v[d] = view[t][d] /\ d \in PostedIn(view[t])
        BY <1>2, <1>10, <2>7, <3>2 DEF Mine, PostedIn
      <4>2. \A n \in PostedIn(v) \ w : v[n].no < v[d].no BY <2>2, <2>4, <4>1 DEF Ahead
      <4>3. view[t][d].no \in Nat BY <1>2, <4>1 DEF Mine, SeriesTables, PostedIn, DocumentRow
      <4>4. \A k \in 1 .. v[d].no : k \in Nat \ {0} /\ k <= view[t][d].no BY <4>1, <4>3
      <4> QED BY <2>6, <4>1, <4>2, <4>4
    <3> QED BY <3>1, <3>2
  <2> QED BY <2>3, <2>7 DEF Ahead
<1>20. Mine(v, w) BY <1>14, <1>15, <1>16, <1>17, <1>18, <1>19 DEF Mine
<1>21. \A u \in active \ {t} : \A d \in w \cap Document : \A n \in Own(u) :
         ~SameName(v[d], view[u][n])
  <2>1. ASSUME NEW u \in active \ {t}, NEW d \in w \cap Document, NEW n \in Own(u)
        PROVE  ~SameName(v[d], view[u][n])
    <3>1. CASE d = m
      BY <1>1, <1>9, <1>10, <2>1, <3>1 DEF NameFree, SameName, Own
    <3>2. CASE d # m
      <4>1. d \in Own(t) /\ v[d] = view[t][d] BY <1>10, <2>1, <3>2 DEF Own
      <4> QED BY <1>1, <2>1, <4>1 DEF SeriesInv, OwnNew
    <3> QED BY <3>1, <3>2
  <2> QED BY <2>1
<1>22. Alone(t)
  BY <1>1, <1>12, <1>20, <1>21 DEF Alone, SeriesInv, SeriesLocks
<1> QED BY <1>13, <1>22, AloneKeeps

LEMMA PostDocumentKeeps ==
  ASSUME SeriesInv, NEW t \in Txn, NEW m \in Document, NEW kind \in {"entry", "receipt"},
         NEW date \in EntryDate, PostDocument(t, m, kind, date)
  PROVE  SeriesInv' /\ PostedStay /\ Shown
<1> DEFINE pl == IF kind = "entry" THEN 1 ELSE 0
           new == ReceiptAssigned(t, m, Numbered(t, kind, date, pl))
<1>1. /\ t \in active /\ view[t][m] = Absent /\ NameFree(t, NextNumber(t))
      /\ PutAll(t, new) /\ busy' = busy \cup {t}
      /\ UNCHANGED <<db, active, shared, missed>>
  BY DEF PostDocument, MayNumber, Exists
<1>2. date \in Date /\ pl \in Int BY SeriesInputAssumption
<1> HIDE DEF pl
<1>3. m \in DOMAIN new BY DEF ReceiptAssigned
<1>4. NextNumber(t) \in Nat => PostingRows(t, m, kind, new)
  BY <1>1, <1>2, PostedRows
<1> HIDE DEF new
<1>5. Posting(t, m, kind, new) BY <1>1, <1>3, <1>4 DEF Posting
<1> QED BY <1>5, PostingKeeps DEF Kind

-----------------------------------------------------------------------------
(* Closes.                                                                 *)
LEMMA TotalType ==
  ASSUME NEW rows, SeriesTables(rows), NEW moves \in SUBSET PostedIn(rows)
  PROVE  TotalOf(rows, moves) \in Int
<1> DEFINE f == [m \in Document |-> IF m \in moves THEN rows[m].pl ELSE 0]
<1>1. \A m \in Document : f[m] \in Int
  BY DEF SeriesTables, PostedIn, DocumentRow
<1>2. moves \in SUBSET Document /\ IsFiniteSet(Document)
  BY SeriesInputAssumption DEF PostedIn
<1>3. TotalOf(rows, moves) = SumOver(f, moves) BY DEF TotalOf, SumOver, FoldFunctionOnSet
<1> HIDE DEF f
<1> QED BY <1>1, <1>2, <1>3, SumType

LEMMA TotalSame ==
  ASSUME NEW rows, NEW other, NEW moves \in SUBSET Document,
         \A m \in moves : rows[m].pl = other[m].pl
  PROVE  TotalOf(rows, moves) = TotalOf(other, moves)
<1> DEFINE f == [m \in Document |-> IF m \in moves THEN rows[m].pl ELSE 0]
           g == [m \in Document |-> IF m \in moves THEN other[m].pl ELSE 0]
<1>1. f = g OBVIOUS
<1>2. /\ TotalOf(rows, moves) = FoldFunctionOnSet(+, 0, f, moves)
      /\ TotalOf(other, moves) = FoldFunctionOnSet(+, 0, g, moves)
  BY DEF TotalOf
<1> HIDE DEF f, g
<1> QED BY <1>1, <1>2

LEMMA TotalWithout ==
  ASSUME NEW rows, SeriesTables(rows), NEW moves \in SUBSET PostedIn(rows), NEW m \in moves
  PROVE  TotalOf(rows, moves) = rows[m].pl + TotalOf(rows, moves \ {m})
<1> DEFINE rest == moves \ {m}
           f == [n \in Document |-> IF n \in moves THEN rows[n].pl ELSE 0]
           g == [n \in Document |-> IF n \in rest THEN rows[n].pl ELSE 0]
<1>1. moves \subseteq Document /\ IsFiniteSet(moves) /\ IsFiniteSet(rest)
  <2>1. moves \subseteq Document /\ rest \subseteq Document BY DEF PostedIn
  <2> QED BY <2>1, SeriesInputAssumption, FS_Subset
<1>2. \A n \in moves : f[n] \in Int
  BY DEF SeriesTables, PostedIn, DocumentRow
<1>3. (\A n \in rest : f[n] = g[n]) /\ f[m] = rows[m].pl BY <1>1
<1>4. TotalOf(rows, moves) = SumOver(f, moves) /\ TotalOf(rows, rest) = SumOver(g, rest)
  BY DEF TotalOf, SumOver, FoldFunctionOnSet
<1> HIDE DEF f, g
<1>5. SumOver(f, moves) = f[m] + SumOver(f, rest) BY <1>1, <1>2, SumWithout
<1>6. SumOver(f, rest) = SumOver(g, rest) BY <1>1, <1>3, SumSame
<1> QED BY <1>3, <1>4, <1>5, <1>6

ReversesStay == \A r \in PostedIn(db) : reverses'[r] = reverses[r]

LEMMA ReversedStays ==
  ASSUME PostedStay, ReversesStay, NEW m, Reversed(db, m)
  PROVE  Reversed(db, m)'
<1>1. PICK r \in PostedIn(db) : db[r].kind = "reversal" /\ reverses[r] = m
  BY DEF Reversed
<1>2. db'[r] = db[r] /\ reverses'[r] = m /\ r \in PostedIn(db')
  BY <1>1 DEF PostedStay, ReversesStay, PostedIn
<1> QED BY <1>1, <1>2 DEF Reversed, PostedIn

(* No close is posted in the step.                                         *)
NonePosted ==
  \A c \in Close :
    db[c] # Absent /\ db[c].state = "draft" /\ db'[c] # Absent => db'[c].state # "posted"

LEMMA ClosesStay ==
  ASSUME SeriesInv, CloseInv, PostedStay, ReversesStay, DOMAIN reverses' = Document,
         ClosesInProgress', \A c \in Close : db'[c] = db[c]
  PROVE  CloseInv' /\ NonePosted
<1>1. CloseTypeOK' BY DEF CloseTypeOK, CloseInv
<1>3. \A c, d \in Close : c # d /\ Live(db'[c]) /\ Live(db'[d]) => db'[c].date # db'[d].date
  BY DEF CloseInv
<1>4. ASSUME NEW c \in Close, db'[c] # Absent, db'[c].move # NoMove, db'[c].state # "posted"
      PROVE  Reversed(db, db[c].move)'
  <2>1. db'[c] = db[c] OBVIOUS
  <2>2. Reversed(db, db[c].move) BY <1>4, <2>1 DEF CloseInv
  <2>3. Reversed(db, db[c].move)' BY <2>1, <2>2, ReversedStays DEF Reversed, PostedIn
  <2> QED BY <2>3
<1>5. NonePosted BY DEF NonePosted
<1> QED BY <1>1, <1>3, <1>4, <1>5 DEF CloseInv, Live

LEMMA CloseChanges ==
  ASSUME SeriesInv, CloseInv, PostedStay, ReversesStay, DOMAIN reverses' = Document,
         ClosesInProgress', NEW c \in Close, \A d \in Close \ {c} : db'[d] = db[d],
         db'[c] \in CloseRow \cup {Absent},
         Live(db'[c]) => \A d \in Close \ {c} : Live(db[d]) => db[d].date # db'[c].date,
         db'[c] # Absent /\ db'[c].move # NoMove /\ db'[c].state # "posted" =>
           Reversed(db, db'[c].move)
  PROVE  CloseInv'
<1>1. CloseTypeOK' BY DEF CloseTypeOK, CloseInv
<1>3. ASSUME NEW d \in Close, NEW e \in Close, d # e, Live(db'[d]), Live(db'[e])
      PROVE  db'[d].date # db'[e].date
  <2>1. CASE d = c BY <1>3, <2>1
  <2>2. CASE e = c BY <1>3, <2>2
  <2>3. CASE d # c /\ e # c BY <1>3, <2>3 DEF CloseInv
  <2> QED BY <2>1, <2>2, <2>3
<1>4. ASSUME NEW d \in Close, db'[d] # Absent, db'[d].move # NoMove, db'[d].state # "posted"
      PROVE  Reversed(db, db[d].move)'
  <2> DEFINE m == db'[d].move
  <2>1. Reversed(db, m)
    <3>1. CASE d = c BY <1>4, <3>1
    <3>2. CASE d # c
      <4>1. db'[d] = db[d] BY <3>2
      <4> QED BY <1>4, <4>1 DEF CloseInv
    <3> QED BY <3>1, <3>2
  <2>2. \A k : Reversed(db, k) => (\E r \in PostedIn(db') : db'[r].kind = "reversal" /\ reverses'[r] = k)
    <3> TAKE k
    <3> HAVE Reversed(db, k)
    <3> QED BY DEF Reversed, PostedStay, ReversesStay, PostedIn
  <2> HIDE DEF m
  <2>3. \E r \in PostedIn(db') : db'[r].kind = "reversal" /\ reverses'[r] = m BY <2>1, <2>2
  <2> QED BY <2>3 DEF m, Reversed, PostedIn
<1> QED BY <1>1, <1>3, <1>4 DEF CloseInv, Live

YearEndInv == SeriesInv /\ CloseInv

(* What a request commits, no other has in progress.                       *)
LEMMA PublishedCloses ==
  ASSUME SeriesInv, CloseInv, NEW t, NEW W, NEW rows, Publishes(t, W, rows)
  PROVE  ClosesInProgress'
<1>1. ASSUME NEW u \in active'
      PROVE  /\ \A c \in Close : view'[u][c] \in CloseRow \cup {Absent}
             /\ Closing(db', view'[u], wrote'[u])
  <2>1. u \in active /\ u \in Txn \ {t} BY <1>1 DEF Publishes, SeriesInv, SeriesLocks
  <2>2. view'[u] = view[u] /\ wrote'[u] = wrote[u] BY <2>1 DEF Publishes
  <2>3. \A c \in wrote[u] \cap Close : db'[c] = db[c] BY <2>1, CloseRows DEF Publishes
  <2>4. /\ \A c \in Close : view[u][c] \in CloseRow \cup {Absent}
        /\ Closing(db, view[u], wrote[u])
    BY <2>1 DEF CloseInv, ClosesInProgress
  <2>5. Closing(db', view[u], wrote[u]) BY <2>3, <2>4 DEF Closing
  <2> QED BY <2>2, <2>4, <2>5
<1> QED BY <1>1 DEF ClosesInProgress

(* What a request that does one thing leaves of the rows of the closes.    *)
LEMMA ServeRows ==
  ASSUME SeriesInv, NEW t \in Txn, NEW new, DOMAIN new \subseteq Row, Serve(t, new)
  PROVE  /\ \A r \in Row : db'[r] = IF r \in DOMAIN new THEN new[r] ELSE db[r]
         /\ \A r \in DOMAIN new : db[r] = view[t][r]
         /\ CloseInv => ClosesInProgress'
         /\ \A u \in active' : u \in active /\ u # t /\ view'[u] = view[u]
         /\ \A u \in active \ active' : u = t
<1>1. Publishes(t, DOMAIN new, new) /\ \A r \in DOMAIN new : db[r] = view[t][r]
  BY ServePublishes
<1>2. active \subseteq Txn BY DEF SeriesInv, SeriesLocks
<1>3. CloseInv => ClosesInProgress' BY <1>1, PublishedCloses
<1>4. /\ \A r \in Row : db'[r] = IF r \in DOMAIN new THEN new[r] ELSE db[r]
      /\ \A u \in active' : u \in active /\ u # t /\ view'[u] = view[u]
      /\ \A u \in active \ active' : u = t
  BY <1>1, <1>2 DEF Publishes
<1> QED BY <1>1, <1>3, <1>4

(* A request that writes the row of one close.                             *)
LEMMA ServeClose ==
  ASSUME YearEndInv, NEW t \in Txn, NEW c \in Close, NEW row \in CloseRow \cup {Absent},
         Serve(t, [r \in {c} |-> row]), UNCHANGED reverses,
         Live(row) => \A d \in Close \ {c} : Live(db[d]) => db[d].date # row.date,
         row # Absent /\ row.move # NoMove /\ row.state # "posted" => Reversed(db, row.move),
         row # Absent => row.state # "posted"
  PROVE  YearEndInv' /\ NonePosted /\ Shown
<1> DEFINE new == [r \in {c} |-> row]
<1>1. DOMAIN new = {c} /\ new[c] = row OBVIOUS
<1>2. Serve(t, new) OBVIOUS
<1> HIDE DEF new
<1>3. DOMAIN new \subseteq Row /\ SeriesInv /\ CloseInv BY <1>1, CloseRows DEF YearEndInv
<1>4. SeriesInv' /\ PostedStay /\ Shown
  BY <1>1, <1>2, <1>3, CloseRows, ServeOther
<1>5. /\ db'[c] = row /\ \A d \in Close \ {c} : db'[d] = db[d]
      /\ ClosesInProgress'
  BY <1>1, <1>2, <1>3, CloseRows, ServeRows
<1>6. ReversesStay /\ DOMAIN reverses' = Document
  BY <1>3 DEF ReversesStay, CloseInv
<1>7. CloseInv'
  BY <1>3, <1>4, <1>5, <1>6, CloseChanges
<1>8. NonePosted BY <1>5 DEF NonePosted
<1> QED BY <1>4, <1>7, <1>8 DEF YearEndInv

(* A request sees the close it writes as it is committed.                  *)
LEMMA SeenClose ==
  ASSUME YearEndInv, NEW t \in Txn, NEW new, DOMAIN new \subseteq Row, Serve(t, new),
         NEW c \in Close \cap DOMAIN new, Exists(t, c)
  PROVE  /\ db[c] = view[t][c] /\ db[c] # Absent /\ db[c] \in CloseRow
         /\ db[c].move # NoMove /\ db[c].state # "posted" => Reversed(db, db[c].move)
<1>1. db[c] = view[t][c] /\ db[c] # Absent BY ServeRows DEF YearEndInv, Exists
<1>2. db[c] \in CloseRow BY <1>1 DEF YearEndInv, CloseInv, CloseTypeOK
<1> QED BY <1>1, <1>2 DEF YearEndInv, CloseInv

LEMMA CreateCloseKeeps ==
  ASSUME YearEndInv, NEW t \in Txn, NEW c \in Close, NEW date \in Date, CreateClose(t, c, date)
  PROVE  YearEndInv' /\ NonePosted /\ Shown
<1> DEFINE row == [state |-> "draft", date |-> date, move |-> NoMove]
<1>1. Serve(t, [r \in {c} |-> row]) /\ UNCHANGED reverses /\ DateFree(c, date)
  BY DEF CreateClose
<1>2. /\ row \in CloseRow /\ row.date = date /\ row.move = NoMove /\ row.state = "draft"
  BY DEF CloseRow
<1> HIDE DEF row
<1> QED BY <1>1, <1>2, ServeClose DEF DateFree

LEMMA WriteCloseKeeps ==
  ASSUME YearEndInv, NEW t \in Txn, NEW c \in Close, NEW date \in Date, WriteClose(t, c, date)
  PROVE  YearEndInv' /\ NonePosted /\ Shown
<1> DEFINE row == [view[t][c] EXCEPT !.date = date]
           new == [r \in {c} |-> row]
<1>1. /\ Serve(t, new) /\ UNCHANGED reverses /\ DateFree(c, date)
      /\ Exists(t, c) /\ view[t][c].state = "draft"
  BY DEF WriteClose
<1>2. DOMAIN new = {c} OBVIOUS
<1>3. /\ db[c] = view[t][c] /\ db[c] \in CloseRow
      /\ db[c].move # NoMove /\ db[c].state # "posted" => Reversed(db, db[c].move)
  <2> HIDE DEF new
  <2> QED BY <1>1, <1>2, CloseRows, SeenClose
<1>4. row \in CloseRow /\ row.date = date /\ row.move = db[c].move /\ row.state = "draft"
      /\ db[c].state = "draft"
  BY <1>1, <1>3 DEF CloseRow
<1> HIDE DEF row
<1> QED BY <1>1, <1>3, <1>4, ServeClose DEF DateFree

LEMMA CancelCloseKeeps ==
  ASSUME YearEndInv, NEW t \in Txn, NEW c \in Close, CancelClose(t, c)
  PROVE  YearEndInv' /\ NonePosted /\ Shown
<1> DEFINE row == [view[t][c] EXCEPT !.state = "cancelled"]
           new == [r \in {c} |-> row]
<1>1. /\ t \in active /\ Serve(t, new) /\ UNCHANGED reverses /\ Exists(t, c)
      /\ view[t][c].state = "posted" => Reversed(view[t], view[t][c].move)
  BY DEF CancelClose
<1>2. DOMAIN new = {c} OBVIOUS
<1>3. /\ db[c] = view[t][c] /\ db[c] \in CloseRow
      /\ db[c].move # NoMove /\ db[c].state # "posted" => Reversed(db, db[c].move)
  <2> HIDE DEF new
  <2> QED BY <1>1, <1>2, CloseRows, SeenClose
<1>4. row \in CloseRow /\ row.move = db[c].move /\ row.state = "cancelled"
  BY <1>3 DEF CloseRow
<1>5. db[c].move # NoMove => Reversed(db, db[c].move)
  <2>1. CASE db[c].state # "posted" BY <1>3, <2>1
  <2>2. CASE db[c].state = "posted"
    <3>1. PICK r \in PostedIn(view[t]) : view[t][r].kind = "reversal" /\ reverses[r] = db[c].move
      BY <1>1, <1>3, <2>2 DEF Reversed
    <3>2. wrote[t] = {}
      <4> HIDE DEF new
      <4> QED BY <1>1, <1>2, CloseRows, ServePublishes DEF YearEndInv
    <3>3. db[r] = view[t][r] /\ r \in PostedIn(db)
      BY <1>1, <3>1, <3>2 DEF YearEndInv, SeriesInv, SeenPosted, PostedIn
    <3> QED BY <3>1, <3>3 DEF Reversed
  <2> QED BY <2>1, <2>2
<1> HIDE DEF row
<1> QED BY <1>1, <1>4, <1>5, ServeClose DEF Live

LEMMA UnlinkCloseKeeps ==
  ASSUME YearEndInv, NEW t \in Txn, NEW c \in Close, UnlinkClose(t, c)
  PROVE  YearEndInv' /\ NonePosted /\ Shown
<1>1. Serve(t, [r \in {c} |-> Absent]) /\ UNCHANGED reverses BY DEF UnlinkClose
<1> QED BY <1>1, ServeClose DEF Live

LEMMA ReverseKeeps ==
  ASSUME YearEndInv, NEW t \in Txn, NEW m \in Document, NEW r \in Document, Reverse(t, m, r)
  PROVE  YearEndInv' /\ NonePosted /\ Shown
<1> DEFINE row == Numbered(t, "reversal", view[t][m].date, -view[t][m].pl)
           new == [d \in {r} |-> row]
<1>1. /\ t \in active /\ view[t][m] # Absent /\ view[t][r] = Absent /\ MayNumber(t)
      /\ Serve(t, new) /\ reverses' = [reverses EXCEPT ![r] = m]
  BY DEF Reverse, Exists
<1>2. DOMAIN new = {r} /\ new[r] = row OBVIOUS
<1>3. view[t][m].date \in Date /\ -view[t][m].pl \in Int
  BY <1>1 DEF YearEndInv, SeriesInv, SeriesTables, DocumentRow
<1> HIDE DEF new
<1>4. DOMAIN new \subseteq Row /\ SeriesInv /\ CloseInv
      /\ Counter \notin DOMAIN new /\ Journal \notin DOMAIN new /\ DOMAIN new \cap Document = {r}
  BY <1>2, SeriesRows DEF YearEndInv
<1>5. "reversal" \in Kind \ {"receipt"} BY DEF Kind
<1>6. SeriesInv' /\ PostedStay /\ Shown
  BY <1>1, <1>2, <1>3, <1>4, <1>5, ServeDocument
<1>7. /\ \A c \in Close : db'[c] = db[c]
      /\ ClosesInProgress'
      /\ db[r] = Absent
  BY <1>1, <1>2, <1>4, CloseRows, ServeRows
<1>8. ReversesStay /\ DOMAIN reverses' = Document
  BY <1>1, <1>4, <1>7 DEF ReversesStay, CloseInv, PostedIn
<1>9. CloseInv' /\ NonePosted BY <1>4, <1>6, <1>7, <1>8, ClosesStay
<1> QED BY <1>6, <1>9 DEF YearEndInv

(* When a close c of t commits, what t saw of the documents up to its date,*)
(* without what it posted after c itself, adds up to nothing.              *)
NothingLeft ==
  \A t \in Txn, c \in Close :
    Closes(t, c) =>
      LET others == missed[t] \ PostedIn(view[t])
          unseen == others \cup PostedAfter(db', t, c) IN
      TotalOf(db', {m \in PostedIn(db') \ unseen : db'[m].date <= db'[c].date}) = 0

LEMMA CommittedAsSeen ==
  ASSUME YearEndInv, NEW t \in Txn, Commit(t)
  PROVE  /\ t \in active /\ active' = active \ {t}
         /\ \A r \in Row : db'[r] = IF r \in wrote[t] THEN view[t][r] ELSE db[r]
         /\ \A n \in PostedIn(view[t]) : db'[n] = view[t][n]
         /\ \A n \in PostedIn(db') \ PostedIn(view[t]) : n \in missed[t]
         /\ Closing(db, view[t], wrote[t]) /\ ClosesInProgress'
         /\ SeriesTables(view[t]) /\ \A c \in Close : view[t][c] \in CloseRow \cup {Absent}
<1> USE DEF Commit, CommitTxn, EndTxn
<1>1. SeriesInv /\ CloseInv BY DEF YearEndInv
<1>2. t \in active /\ active' = active \ {t} OBVIOUS
<1>3. \A r \in Row : db'[r] = IF r \in wrote[t] THEN view[t][r] ELSE db[r] OBVIOUS
<1>4. ASSUME NEW n \in PostedIn(view[t]) PROVE db'[n] = view[t][n]
  <2>1. n \in Document /\ n \in Row /\ view[t][n] # Absent BY SeriesRows DEF PostedIn
  <2>2. n \notin wrote[t] => db[n] = view[t][n] BY <1>1, <1>2, <2>1 DEF SeriesInv, SeenPosted
  <2> QED BY <1>3, <2>1, <2>2
<1>5. ASSUME NEW n \in PostedIn(db') \ PostedIn(view[t]) PROVE n \in missed[t]
  <2>1. n \in Document /\ n \in Row /\ db'[n] # Absent /\ view[t][n] = Absent
    BY SeriesRows DEF PostedIn
  <2>2. n \notin wrote[t] /\ db[n] # Absent BY <1>3, <2>1
  <2> QED BY <1>1, <1>2, <2>1, <2>2 DEF SeriesInv, SeriesLocks, ViewsCurrent
<1>6. /\ Closing(db, view[t], wrote[t])
      /\ \A c \in Close : view[t][c] \in CloseRow \cup {Absent}
  BY <1>1, <1>2 DEF CloseInv, ClosesInProgress
<1>7. ClosesInProgress'
  <2>1. ASSUME NEW u \in active'
        PROVE  /\ \A c \in Close : view'[u][c] \in CloseRow \cup {Absent}
               /\ Closing(db', view'[u], wrote'[u])
    <3>1. u \in active /\ u \in Txn \ {t} BY <1>1, <2>1 DEF SeriesInv, SeriesLocks
    <3>2. view'[u] = view[u] /\ wrote'[u] = wrote[u]
      BY <1>1, <3>1 DEF SeriesInv, SeriesLocks
    <3>3. wrote[u] \cap wrote[t] = {} BY <1>1, <3>1 DEF SeriesInv, SeriesLocks
    <3>4. \A c \in wrote[u] \cap Close : db'[c] = db[c] BY <1>3, <3>3, CloseRows
    <3>5. /\ \A c \in Close : view[u][c] \in CloseRow \cup {Absent}
          /\ Closing(db, view[u], wrote[u])
      BY <1>1, <3>1 DEF CloseInv, ClosesInProgress
    <3>6. Closing(db', view[u], wrote[u]) BY <3>4, <3>5 DEF Closing
    <3> QED BY <3>2, <3>5, <3>6
  <2> QED BY <2>1 DEF ClosesInProgress
<1>8. SeriesTables(view[t]) BY <1>1, <1>2 DEF SeriesInv
<1> QED BY <1>2, <1>3, <1>4, <1>5, <1>6, <1>7, <1>8

LEMMA CommitClosesKeeps ==
  ASSUME YearEndInv, NEW t \in Txn, Commit(t), UNCHANGED reverses
  PROVE  YearEndInv' /\ NothingLeft /\ Shown
<1>1. SeriesInv /\ CloseInv BY DEF YearEndInv
<1>2. SeriesInv' /\ PostedStay /\ Shown BY <1>1, CommitKeeps
<1>3. /\ t \in active /\ active' = active \ {t}
      /\ \A r \in Row : db'[r] = IF r \in wrote[t] THEN view[t][r] ELSE db[r]
      /\ \A n \in PostedIn(view[t]) : db'[n] = view[t][n]
      /\ \A n \in PostedIn(db') \ PostedIn(view[t]) : n \in missed[t]
      /\ Closing(db, view[t], wrote[t]) /\ ClosesInProgress'
      /\ SeriesTables(view[t]) /\ \A c \in Close : view[t][c] \in CloseRow \cup {Absent}
  BY CommittedAsSeen
<1>4. ASSUME NEW c \in Close
      PROVE  \/ db'[c] = db[c]
             \/ /\ db'[c] = view[t][c] /\ db'[c] \in CloseRow /\ db'[c].state = "posted"
                /\ Live(db[c]) /\ db'[c].date = db[c].date
  BY <1>3, CloseRows DEF Closing, Live
<1>5. CloseInv'
  <2>1. CloseTypeOK' BY <1>1, <1>4 DEF CloseTypeOK, CloseInv
  <2>2. ASSUME NEW c \in Close, NEW d \in Close, c # d, Live(db'[c]), Live(db'[d])
        PROVE  db'[c].date # db'[d].date
    <3>1. Live(db[c]) /\ db'[c].date = db[c].date BY <1>4, <2>2
    <3>2. Live(db[d]) /\ db'[d].date = db[d].date BY <1>4, <2>2
    <3> QED BY <1>1, <2>2, <3>1, <3>2 DEF CloseInv
  <2>3. ReversesStay /\ DOMAIN reverses' = Document BY <1>1 DEF ReversesStay, CloseInv
  <2>4. ASSUME NEW c \in Close, db'[c] # Absent, db'[c].move # NoMove, db'[c].state # "posted"
        PROVE  Reversed(db, db[c].move)'
    <3>1. db'[c] = db[c] BY <1>4, <2>4
    <3>2. Reversed(db, db[c].move) BY <1>1, <2>4, <3>1 DEF CloseInv
    <3>3. Reversed(db, db[c].move)'
      BY <1>2, <2>3, <3>1, <3>2, ReversedStays DEF Reversed, PostedIn
    <3> QED BY <3>3
  <2> QED BY <1>3, <2>1, <2>2, <2>3, <2>4 DEF CloseInv, Live
<1>6. NothingLeft
  <2> DEFINE left(u, c) ==
        {m \in PostedIn(db') \ ((missed[u] \ PostedIn(view[u])) \cup PostedAfter(db', u, c)) :
           db'[m].date <= db'[c].date}
  <2>1. ASSUME NEW u \in Txn, NEW c \in Close, Closes(u, c)
        PROVE  TotalOf(db', left(u, c)) = 0
    <3>1. u = t /\ c \in wrote[t] BY <1>3, <2>1 DEF Closes
    <3> DEFINE v == view[t]
               w == wrote[t]
               move == v[c].move
    <3>2. /\ TotalOf(v, Before(v, w, c)) = 0 /\ move \in w \cap Document
          /\ v[c] # Absent
      BY <1>3, <3>1 DEF Closing
    <3>3. db'[c] = v[c] /\ db'[move] = v[move]
      BY <1>3, <3>1, <3>2, CloseRows, SeriesRows
    <3>4. Before(v, w, c) \subseteq PostedIn(v) /\ PostedIn(v) \subseteq Document
      BY DEF Before, PostedIn
    <3>5. \A n \in PostedIn(v) : db'[n] = v[n] /\ n \in PostedIn(db')
      BY <1>3 DEF PostedIn
    <3>6. v[move].no \in Nat /\ \A n \in PostedIn(v) : v[n].no \in Nat
      <4>1. \A n \in Document : v[n] # Absent => v[n].no \in Nat
        BY <1>3 DEF SeriesTables, DocumentRow
      <4>2. v[move] # Absent BY <1>1, <1>3, <3>2 DEF SeriesInv, OwnNew, Own
      <4> HIDE DEF v, move
      <4> QED BY <3>2, <4>1, <4>2 DEF PostedIn
    <3>7. PostedAfter(db', t, c) = {n \in w \cap PostedIn(db') : db'[n].no > v[move].no}
      BY <3>3 DEF PostedAfter
    <3>8. \A n \in left(t, c) : n \in PostedIn(v)
      BY <1>3
    <3> HIDE DEF v, w, move
    <3>9. \A n \in PostedIn(v) : n \in left(t, c) <=> n \in Before(v, w, c)
      <4> TAKE n \in PostedIn(v)
      <4>1. n \in left(t, c) <=> n \notin PostedAfter(db', t, c) /\ v[n].date <= v[c].date
        BY <3>3, <3>5 DEF v
      <4>2. n \notin PostedAfter(db', t, c) <=> (n \in w => v[n].no <= v[move].no)
        BY <3>5, <3>6, <3>7
      <4> HIDE DEF left
      <4> QED BY <4>1, <4>2 DEF Before, move
    <3> HIDE DEF left
    <3>10. left(t, c) = Before(v, w, c)
      <4>1. \A n : n \in left(t, c) => n \in Before(v, w, c) BY <3>8, <3>9 DEF v
      <4>2. \A n : n \in Before(v, w, c) => n \in left(t, c) BY <3>4, <3>9
      <4> QED BY <4>1, <4>2
    <3>11. Before(v, w, c) \in SUBSET Document
           /\ \A n \in Before(v, w, c) : db'[n].pl = v[n].pl
      BY <3>4, <3>5
    <3>12. TotalOf(db', Before(v, w, c)) = TotalOf(v, Before(v, w, c)) BY <3>11, TotalSame
    <3> QED BY <3>1, <3>2, <3>10, <3>12
  <2> QED BY <2>1 DEF NothingLeft
<1> QED BY <1>2, <1>5, <1>6 DEF YearEndInv

(* A step after which the closes are as they were and those in progress    *)
(* still hold.                                                             *)
LEMMA ClosesUntouched ==
  ASSUME YearEndInv, SeriesInv', PostedStay, UNCHANGED reverses, ClosesInProgress',
         \A c \in Close : db'[c] = db[c]
  PROVE  YearEndInv' /\ NothingLeft
<1>1. SeriesInv /\ CloseInv BY DEF YearEndInv
<1>2. ReversesStay /\ DOMAIN reverses' = Document BY <1>1 DEF ReversesStay, CloseInv
<1>3. CloseInv' /\ NonePosted BY <1>1, <1>2, ClosesStay
<1>4. NothingLeft BY <1>3 DEF NonePosted, NothingLeft, Closes
<1> QED BY <1>3, <1>4 DEF YearEndInv

(* The requests other than t keep what they have in progress.              *)
LEMMA InProgress ==
  ASSUME YearEndInv, NEW t \in Txn, db' = db,
         \A u \in active' \ {t} : u \in active /\ view'[u] = view[u] /\ wrote'[u] = wrote[u],
         t \in active' => /\ \A c \in Close : view'[t][c] \in CloseRow \cup {Absent}
                          /\ Closing(db, view'[t], wrote'[t])
  PROVE  ClosesInProgress'
<1>1. ASSUME NEW u \in active'
      PROVE  /\ \A c \in Close : view'[u][c] \in CloseRow \cup {Absent}
             /\ Closing(db', view'[u], wrote'[u])
  <2>1. CASE u = t BY <1>1, <2>1
  <2>2. CASE u # t BY <1>1, <2>2 DEF YearEndInv, CloseInv, ClosesInProgress
  <2> QED BY <2>1, <2>2
<1> QED BY <1>1 DEF ClosesInProgress

(* Requests of the series write no closes.                                 *)
LEMMA SeriesStepKeeps ==
  ASSUME YearEndInv, NEW t \in Txn, SeriesStep(t), PostsCloses(t) => t \notin active',
         UNCHANGED reverses
  PROVE  YearEndInv' /\ NothingLeft /\ Shown
<1>1. SeriesInv /\ CloseInv BY DEF YearEndInv
<1>2. SeriesInv' /\ PostedStay /\ Shown
  BY <1>1, BeginKeeps, CommitKeeps, AbortKeeps, PostDocumentKeeps, AssignReceiptKeeps,
     ChangeCodeKeeps DEF SeriesStep
<1> DEFINE Stay == ClosesInProgress' /\ \A c \in Close : db'[c] = db[c]
<1>3. CASE Begin(t)
  <2>1. /\ db' = db /\ wrote[t] = {} /\ wrote' = wrote /\ view'[t] = db
        /\ \A u \in active' \ {t} : u \in active /\ view'[u] = view[u] /\ wrote'[u] = wrote[u]
    BY <1>1, <1>3 DEF Begin, BeginTxn, SeriesInv, SeriesLocks
  <2>2. /\ \A c \in Close : view'[t][c] \in CloseRow \cup {Absent}
        /\ Closing(db, view'[t], wrote'[t])
    BY <1>1, <2>1 DEF CloseInv, CloseTypeOK, Closing
  <2>3. Stay BY <2>1, <2>2, InProgress
  <2> QED BY <1>2, <2>3, ClosesUntouched
<1>4. CASE Abort(t)
  <2>1. /\ db' = db /\ t \notin active'
        /\ \A u \in active' \ {t} : u \in active /\ view'[u] = view[u] /\ wrote'[u] = wrote[u]
    BY <1>1, <1>4 DEF Abort, AbortTxn, EndTxn, SeriesInv, SeriesLocks
  <2>2. Stay BY <2>1, InProgress
  <2> QED BY <1>2, <2>2, ClosesUntouched
<1>5. ASSUME NEW m \in Document, NEW kind \in {"entry", "receipt"}, NEW date \in EntryDate,
             PostDocument(t, m, kind, date)
      PROVE  Stay
  <2> DEFINE new == ReceiptAssigned(t, m, Numbered(t, kind, date, IF kind = "entry" THEN 1 ELSE 0))
  <2>1. DOMAIN new \subseteq {m, Counter} BY DEF ReceiptAssigned
  <2>2. t \in active /\ PutAll(t, new) /\ UNCHANGED <<db, active>> BY <1>5 DEF PostDocument
  <2>3. wrote[t] \cap Close = {} BY <2>2 DEF PostsCloses
  <2> HIDE DEF new
  <2>4. /\ view' = [view EXCEPT ![t] = [r \in Row |-> IF r \in DOMAIN new THEN new[r] ELSE @[r]]]
        /\ wrote' = [wrote EXCEPT ![t] = @ \cup DOMAIN new]
    BY <2>2 DEF PutAll
  <2>5. \A c \in Close : c \in Row /\ c \notin DOMAIN new BY <2>1, CloseRows
  <2>6. \A u \in active : u \in Txn /\ u \in DOMAIN view /\ u \in DOMAIN wrote
    BY <1>1 DEF SeriesInv, SeriesLocks
  <2>7. /\ \A c \in Close : view'[t][c] = view[t][c]
        /\ wrote'[t] \cap Close = {}
    BY <2>2, <2>3, <2>4, <2>5, <2>6
  <2>8. /\ \A c \in Close : view'[t][c] \in CloseRow \cup {Absent}
        /\ Closing(db, view'[t], wrote'[t])
    BY <1>1, <2>2, <2>7 DEF CloseInv, ClosesInProgress, Closing
  <2>9. \A u \in active' \ {t} : u \in active /\ view'[u] = view[u] /\ wrote'[u] = wrote[u]
    BY <2>2, <2>4, <2>6
  <2> QED BY <2>2, <2>8, <2>9, InProgress
<1>6. ASSUME NEW m \in Document, AssignReceipt(t, m) PROVE Stay
  <2> DEFINE new == ReceiptAssigned(t, m, view[t][m])
  <2>1. DOMAIN new \subseteq {m, Counter} BY DEF ReceiptAssigned
  <2>2. Serve(t, new) BY <1>6 DEF AssignReceipt
  <2> HIDE DEF new
  <2>3. DOMAIN new \subseteq Row /\ DOMAIN new \cap Close = {} BY <2>1, SeriesRows, CloseRows
  <2> QED BY <1>1, <2>2, <2>3, CloseRows, ServeRows
<1>7. CASE ChangeCode(t)
  <2> DEFINE new == [r \in {Journal} |-> view[t][Journal] + 1]
  <2>1. DOMAIN new = {Journal} OBVIOUS
  <2>2. Serve(t, new) BY <1>7 DEF ChangeCode
  <2> HIDE DEF new
  <2>3. DOMAIN new \subseteq Row /\ DOMAIN new \cap Close = {} BY <2>1, SeriesRows, CloseRows
  <2>4. Stay BY <1>1, <2>2, <2>3, CloseRows, ServeRows
  <2> QED BY <1>2, <2>4, ClosesUntouched
<1>8. Stay => YearEndInv' /\ NothingLeft /\ Shown BY <1>2, ClosesUntouched
<1> HIDE DEF Stay
<1> QED BY <1>3, <1>4, <1>5, <1>6, <1>7, <1>8, CommitClosesKeeps DEF SeriesStep

LEMMA PostCloseKeeps ==
  ASSUME YearEndInv, NEW t \in Txn, NEW c \in Close, NEW m \in Document, PostClose(t, c, m)
  PROVE  YearEndInv' /\ NothingLeft /\ Shown
<1> DEFINE date == view[t][c].date
           pl == -Balance(view[t], date)
           document == Numbered(t, "closing", date, pl)
           row == [view[t][c] EXCEPT !.state = "posted", !.move = m]
           new == [r \in {m, c} |-> IF r = m THEN document ELSE row]
           no == NextNumber(t)
<1>1. /\ t \in active /\ Exists(t, c) /\ view[t][c].state = "draft" /\ view[t][m] = Absent
      /\ NameFree(t, NextNumber(t)) /\ PutAll(t, new) /\ UNCHANGED reverses
      /\ busy' = busy \cup {t} /\ UNCHANGED <<db, active, shared, missed>>
  BY DEF PostClose, Exists, MayNumber
<1>2. m # c /\ m \in Row /\ c \in Row /\ m \notin {Journal, Counter} /\ c \notin {Journal, Counter}
  BY CloseRows, SeriesRows
<1>3. DOMAIN new = {m, c} /\ new[m] = document /\ new[c] = row
  BY <1>2
<1> HIDE DEF new
<1>4. SeriesInv /\ CloseInv BY DEF YearEndInv
<1>5. SeriesTables(view[t]) /\ Closing(db, view[t], wrote[t]) /\ view[t][c] \in CloseRow
  BY <1>1, <1>4 DEF SeriesInv, CloseInv, ClosesInProgress, Exists
<1>6. c \notin wrote[t] /\ m \notin wrote[t]
  <2>1. c \notin wrote[t] BY <1>1, <1>5 DEF Closing
  <2>2. m \notin wrote[t] BY <1>1, <1>4 DEF SeriesInv, OwnNew, Own
  <2> QED BY <2>1, <2>2
<1>7. db[c] = view[t][c] /\ db[m] = Absent
  <2>1. CanWrite(t, c) /\ CanWrite(t, m) BY <1>1, <1>3 DEF PutAll
  <2> QED BY <1>1, <1>2, <1>4, <1>6, <2>1 DEF CanWrite, SeriesInv, SeriesLocks, ViewsCurrent
<1>8. date \in Date /\ Date \subseteq Int BY <1>5, SeriesInputAssumption DEF CloseRow
<1> DEFINE before == {d \in PostedIn(view[t]) : view[t][d].date <= date}
<1>9. before \in SUBSET PostedIn(view[t]) /\ Balance(view[t], date) = TotalOf(view[t], before)
  BY DEF Balance
<1>10. Balance(view[t], date) \in Int /\ pl \in Int
  <2> HIDE DEF before
  <2>1. TotalOf(view[t], before) \in Int BY <1>5, <1>9, TotalType
  <2> QED BY <1>9, <2>1
<1>11. pl + TotalOf(view[t], before) = 0
  <2>1. Balance(view[t], date) = TotalOf(view[t], before) BY <1>9
  <2> HIDE DEF before, date
  <2> QED BY <1>10, <2>1
<1> HIDE DEF pl
<1>12. /\ row \in CloseRow /\ row.state = "posted" /\ row.move = m /\ row.date = date
       /\ row # Absent /\ date = db[c].date
  BY <1>5, <1>7, CloseAbsentAssumption DEF CloseRow
<1> HIDE DEF row
<1>13. /\ no \in 1 .. Bound /\ no \in Nat /\ \A d \in PostedIn(view[t]) : view[t][d].no < no
  BY <1>1, <1>4, <1>7, NextNumberFacts, BoundType
<1>14. /\ document \in DocumentRow /\ document.kind = "closing" /\ document.date = date
       /\ document.pl = pl /\ document.no = no /\ document.code = view[t][Journal]
       /\ document # Absent
  <2>1. view[t][Journal] \in Code BY <1>5 DEF SeriesTables
  <2> HIDE DEF date, no
  <2>2. document \in DocumentRow /\ document.kind = "closing" /\ document.date = date
        /\ document.pl = pl /\ document.code = view[t][Journal]
    BY <1>8, <1>10, <1>13, <2>1 DEF Numbered, DocumentRow, Kind, no
  <2> QED BY <2>2, SeriesAbsentAssumption DEF Numbered, no
<1> HIDE DEF document
<1>15. SeriesInv' /\ PostedStay /\ Shown
  <2>1. DOMAIN new \subseteq Document \cup {Counter} \cup Close /\ DOMAIN new \ Close = {m}
    BY <1>3, CloseRows
  <2>2. NextOf(view[t]) \in Nat \ {0}
    BY <1>5 DEF SeriesTables, NextOf
  <2>3. PostingRows(t, m, "closing", new)
    BY <1>3, <1>14, <2>1, <2>2 DEF PostingRows, no
  <2>4. Posting(t, m, "closing", new) BY <1>1, <1>3, <2>3 DEF Posting
  <2>5. "closing" \in Kind BY DEF Kind
  <2> QED BY <1>4, <2>4, <2>5, PostingKeeps
<1> DEFINE v == view'[t]
           w == wrote'[t]
<1>16. /\ v[m] = document /\ v[c] = row /\ \A r \in Row \ {m, c} : v[r] = view[t][r]
       /\ w = wrote[t] \cup {m, c}
       /\ \A u \in active' \ {t} : u \in active /\ view'[u] = view[u] /\ wrote'[u] = wrote[u]
  <2>1. /\ view' = [view EXCEPT ![t] = [r \in Row |-> IF r \in DOMAIN new THEN new[r] ELSE @[r]]]
        /\ wrote' = [wrote EXCEPT ![t] = @ \cup DOMAIN new]
    BY <1>1 DEF PutAll
  <2>2. \A u \in active : u \in Txn /\ u \in DOMAIN view /\ u \in DOMAIN wrote
    BY <1>4 DEF SeriesInv, SeriesLocks
  <2>3. view'[t] = [r \in Row |-> IF r \in DOMAIN new THEN new[r] ELSE view[t][r]]
    BY <1>1, <2>1, <2>2
  <2>4. wrote'[t] = wrote[t] \cup {m, c} BY <1>1, <1>3, <2>1, <2>2
  <2>5. \A u \in active' \ {t} : u \in active /\ view'[u] = view[u] /\ wrote'[u] = wrote[u]
    BY <1>1, <2>1, <2>2
  <2>6. v[m] = document /\ v[c] = row /\ \A r \in Row \ {m, c} : v[r] = view[t][r]
    BY <1>2, <1>3, <2>3
  <2> QED BY <2>4, <2>5, <2>6
<1> HIDE DEF v, w, no, before, date
<1>17. /\ \A d \in Document \ {m} : v[d] = view[t][d]
       /\ \A d \in Close \ {c} : v[d] = view[t][d]
       /\ PostedIn(v) = PostedIn(view[t]) \cup {m} /\ m \notin PostedIn(view[t])
  <2>1. /\ \A d \in Document \ {m} : v[d] = view[t][d]
        /\ \A d \in Close \ {c} : v[d] = view[t][d]
    BY <1>16, CloseRows, SeriesRows
  <2> QED BY <1>1, <1>14, <1>16, <2>1 DEF PostedIn
<1>18. \A d \in PostedIn(view[t]) :
         v[d] = view[t][d] /\ v[d].no < no /\ v[d].no \in Nat /\ v[d].pl \in Int
  BY <1>5, <1>13, <1>17 DEF PostedIn, SeriesTables, DocumentRow
<1>19. TotalOf(v, Before(v, w, c)) = 0
  <2>1. v[c].date = date /\ v[v[c].move].no = no BY <1>12, <1>14, <1>16
  <2>2. \A d \in PostedIn(view[t]) : d \in Before(v, w, c) <=> d \in before
    BY <1>13, <1>17, <1>18, <2>1 DEF Before, before
  <2>3. m \in Before(v, w, c)
    <3>1. v[m].date <= date /\ v[m].no <= no BY <1>8, <1>13, <1>14, <1>16
    <3> QED BY <1>17, <2>1, <3>1 DEF Before
  <2>4. Before(v, w, c) \subseteq PostedIn(v) BY DEF Before
  <2>5. Before(v, w, c) \ {m} = before
    <3>1. \A d : d \in before => d \in PostedIn(view[t]) BY DEF before
    <3> QED BY <1>17, <2>2, <2>4, <3>1
  <2>6. SeriesTables(v) BY <1>1, <1>15 DEF SeriesInv, SeriesTables, v
  <2>7. TotalOf(v, Before(v, w, c)) = v[m].pl + TotalOf(v, before)
    BY <2>3, <2>4, <2>5, <2>6, TotalWithout
  <2>8. TotalOf(v, before) = TotalOf(view[t], before)
    <3>1. before \in SUBSET Document /\ \A d \in before : v[d].pl = view[t][d].pl
      BY <1>9, <1>18 DEF PostedIn
    <3> QED BY <3>1, TotalSame
  <2> QED BY <1>11, <1>14, <1>16, <2>7, <2>8
<1>20. ASSUME NEW d \in (w \cap Close) \ {c}
       PROVE  TotalOf(v, Before(v, w, d)) = 0 /\ v[d].move \in wrote[t] \cap Document
  <2>1. d \in wrote[t] \cap Close /\ v[d] = view[t][d] BY <1>16, <1>17, CloseRows
  <2>2. /\ TotalOf(view[t], Before(view[t], wrote[t], d)) = 0
        /\ view[t][d].move \in wrote[t] \cap Document
    BY <1>5, <2>1 DEF Closing
  <2> DEFINE move == view[t][d].move
  <2>3. move # m /\ move \in PostedIn(view[t])
    BY <1>1, <1>4, <1>6, <2>2 DEF SeriesInv, OwnNew, Own, PostedIn
  <2>4. v[v[d].move].no = view[t][move].no /\ v[move].no < no /\ v[move] = view[t][move]
        /\ view[t][move].no \in Nat
    BY <1>18, <2>1, <2>3
  <2> HIDE DEF move
  <2>5. m \notin Before(v, w, d)
    <3>1. m \in w /\ v[m].no = no BY <1>14, <1>16
    <3>2. ~(no <= view[t][move].no) BY <1>13, <2>4
    <3> QED BY <2>4, <3>1, <3>2 DEF Before
  <2>6. \A n \in PostedIn(view[t]) : n \in w <=> n \in wrote[t]
    BY <1>16, <1>17, CloseRows DEF PostedIn
  <2>7. \A n \in PostedIn(view[t]) :
          n \in Before(v, w, d) <=> n \in Before(view[t], wrote[t], d)
    <3> TAKE n \in PostedIn(view[t])
    <3>1. v[n] = view[t][n] /\ n \in PostedIn(v) BY <1>17, <1>18
    <3> QED BY <2>1, <2>4, <2>6, <3>1 DEF Before, move
  <2>8. Before(v, w, d) = Before(view[t], wrote[t], d)
    <3>1. /\ Before(v, w, d) \subseteq PostedIn(v)
          /\ Before(view[t], wrote[t], d) \subseteq PostedIn(view[t])
      BY DEF Before
    <3> QED BY <1>17, <2>5, <2>7, <3>1
  <2>9. /\ Before(v, w, d) \in SUBSET Document
        /\ \A n \in Before(v, w, d) : v[n].pl = view[t][n].pl
    <3>1. Before(view[t], wrote[t], d) \subseteq PostedIn(view[t]) BY DEF Before
    <3> QED BY <1>18, <2>8, <3>1 DEF PostedIn
  <2>10. TotalOf(v, Before(v, w, d)) = TotalOf(view[t], Before(v, w, d)) BY <2>9, TotalSame
  <2> QED BY <2>1, <2>2, <2>8, <2>10
<1>21. Closing(db, v, w)
  <2>1. ASSUME NEW d \in w \cap Close
        PROVE  /\ db[d] # Absent /\ db[d].state = "draft"
               /\ v[d] # Absent /\ v[d].state = "posted" /\ v[d].date = db[d].date
               /\ v[d].move \in w \cap Document
               /\ TotalOf(v, Before(v, w, d)) = 0
    <3>1. CASE d = c
      BY <1>1, <1>7, <1>12, <1>16, <1>19, <3>1 DEF Exists
    <3>2. CASE d # c
      <4>1. d \in wrote[t] \cap Close /\ v[d] = view[t][d] BY <1>16, <1>17, <2>1, <3>2, CloseRows
      <4>2. TotalOf(v, Before(v, w, d)) = 0 /\ v[d].move \in wrote[t] \cap Document
        BY <1>20, <2>1, <3>2
      <4> QED BY <1>5, <1>16, <4>1, <4>2 DEF Closing
    <3> QED BY <3>1, <3>2
  <2> QED BY <2>1 DEF Closing
<1>22. \A d \in Close : v[d] \in CloseRow \cup {Absent}
  BY <1>1, <1>4, <1>12, <1>16, <1>17 DEF CloseInv, ClosesInProgress
<1>23. ClosesInProgress'
  BY <1>1, <1>16, <1>21, <1>22, InProgress DEF v, w
<1>24. \A d \in Close : db'[d] = db[d] BY <1>1
<1>25. YearEndInv' /\ NothingLeft BY <1>1, <1>15, <1>23, <1>24, ClosesUntouched
<1> QED BY <1>15, <1>25

(* Every step keeps the invariant, and a close leaves nothing of what its  *)
(* request saw.                                                            *)
LEMMA StepKeeps ==
  ASSUME YearEndInv, [CloseNext]_closeVars
  PROVE  YearEndInv' /\ NothingLeft /\ Shown
<1>1. NonePosted => NothingLeft BY DEF NonePosted, NothingLeft, Closes
<1>2. ASSUME NEW t \in Txn, SeriesStep(t), PostsCloses(t) => t \notin active', UNCHANGED reverses
      PROVE  YearEndInv' /\ NothingLeft /\ Shown
  BY <1>2, SeriesStepKeeps
<1>3. ASSUME NEW t \in Txn, CloseStep(t) PROVE YearEndInv' /\ NothingLeft /\ Shown
  BY <1>1, <1>3, CreateCloseKeeps, WriteCloseKeeps, PostCloseKeeps, CancelCloseKeeps,
     UnlinkCloseKeeps DEF CloseStep
<1>4. ASSUME NEW t \in Txn, NEW m \in Document, NEW r \in Document, Reverse(t, m, r)
      PROVE  YearEndInv' /\ NothingLeft /\ Shown
  BY <1>1, <1>4, ReverseKeeps
<1>5. CASE UNCHANGED closeVars
  <2>1. SeriesInv'
    BY <1>5 DEF closeVars, seriesVars, dbVars, YearEndInv, SeriesInv, SeriesLocks, SeriesTables,
      ViewsCurrent, SeenPosted, OwnNew, Own, SameName, NamesUnique, NoHoles, Numbers, OwnNumbers,
      ReceiptsCounted, ReceiptsIn, Counted, NextOf, PostedIn, TakenInOrder, Ahead, Named
  <2>2. CloseInv'
    <3>1. ClosesInProgress'
      <4>1. ASSUME NEW t \in active'
            PROVE  /\ \A c \in Close : view'[t][c] \in CloseRow \cup {Absent}
                   /\ Closing(db', view'[t], wrote'[t])
        <5>1. t \in active /\ db' = db /\ view'[t] = view[t] /\ wrote'[t] = wrote[t]
          BY <1>5 DEF closeVars, seriesVars, dbVars
        <5> QED BY <5>1 DEF YearEndInv, CloseInv, ClosesInProgress
      <4> QED BY <4>1 DEF ClosesInProgress
    <3> QED
      BY <1>5, <3>1 DEF closeVars, seriesVars, dbVars, YearEndInv, CloseInv, CloseTypeOK, Live,
         Reversed, PostedIn
  <2>3. NonePosted BY <1>5 DEF closeVars, seriesVars, dbVars, NonePosted
  <2>4. Shown BY <1>5 DEF closeVars, seriesVars, dbVars, Shown, Series!series
  <2> QED BY <1>1, <2>1, <2>2, <2>3, <2>4 DEF YearEndInv
<1> QED BY <1>2, <1>3, <1>4, <1>5 DEF CloseNext

LEMMA InitHolds == CloseInit => YearEndInv
<1> SUFFICES ASSUME CloseInit PROVE YearEndInv OBVIOUS
<1> USE DEF CloseInit, SeriesInit, DBInitWith
<1>1. /\ db[Journal] = 1 /\ db[Counter] = Absent /\ \A m \in Document : db[m] = Absent
      /\ \A c \in Close : db[c] = Absent
  BY SeriesRows, CloseRows
<1>2. active = {} /\ busy = {} /\ DOMAIN reverses = Document OBVIOUS
<1>3. SeriesLocks
  BY DEF SeriesLocks, EmptyView, ViewsCurrent
<1>4. PostedIn(db) = {} /\ ReceiptsIn(db) = {} BY <1>1 DEF PostedIn, ReceiptsIn
<1>5. SeriesTables(db) BY <1>1, SeriesInputAssumption DEF SeriesTables, Code
<1>6. ReceiptsCounted
  <2>1. NextOf(db) = 1 BY <1>1 DEF NextOf
  <2>2. Counted(db, {}, 1, 1) BY DEF Counted
  <2> QED BY <1>2, <1>4, <2>1, <2>2 DEF ReceiptsCounted
<1>7. SeriesInv
  BY <1>2, <1>3, <1>4, <1>5, <1>6 DEF SeriesInv, SeenPosted, OwnNew, NamesUnique, NoHoles, TakenInOrder
<1>8. CloseInv BY <1>1, <1>2 DEF CloseInv, ClosesInProgress, CloseTypeOK, Live
<1> QED BY <1>7, <1>8 DEF YearEndInv

LEMMA UnbrokenHolds == YearEndInv => SeriesUnbroken
<1> SUFFICES ASSUME YearEndInv PROVE SeriesUnbroken OBVIOUS
<1> DEFINE receipts == ReceiptsIn(db)
           top == Max({0} \cup Numbers)
           next == NextOf(db)
<1>1. SeriesInv BY DEF YearEndInv
<1>2. SeriesTypeOK BY <1>1 DEF SeriesTypeOK, SeriesInv, SeriesLocks, SeriesTables
<1>3. Numbers = 1 .. top
  <2>1. Numbers \subseteq 1 .. Bound BY <1>1 DEF Numbers, PostedIn, SeriesInv, SeriesTables
  <2>2. {0} \cup Numbers \in SUBSET (0 .. Bound) BY <2>1, BoundType
  <2>3. top \in {0} \cup Numbers /\ \A k \in {0} \cup Numbers : top >= k
    BY <2>2, BoundType, MaxFacts
  <2> HIDE DEF top
  <2>4. Numbers \subseteq 1 .. top BY <2>1, <2>2, <2>3, BoundType
  <2>5. 1 .. top \subseteq Numbers
    <3>1. CASE top = 0 BY <3>1
    <3>2. CASE top # 0
      <4>1. PICK m \in PostedIn(db) : top = db[m].no BY <2>3, <3>2 DEF Numbers
      <4> QED BY <1>1, <4>1 DEF SeriesInv, NoHoles
    <3> QED BY <3>1, <3>2
  <2> QED BY <2>4, <2>5
<1>4. \A m, n \in PostedIn(db) : m # n /\ db[m].no = db[n].no => db[m].code # db[n].code
  BY <1>1 DEF SeriesInv, NamesUnique, SameName
<1>5. Counted(db, receipts, 1, next) /\ next \in Nat \ {0}
  BY <1>1 DEF SeriesInv, ReceiptsCounted, NextOf, SeriesTables
<1>6. \A m \in receipts : db[m].receipt \in 1 .. (next - 1)
  <2>1. \A m \in receipts : db[m].receipt \in Nat
    BY <1>1 DEF SeriesInv, SeriesTables, ReceiptsIn, PostedIn, DocumentRow
  <2> HIDE DEF receipts, next
  <2> QED BY <1>5, <2>1 DEF Counted
<1>7. IsFiniteSet(receipts) /\ Cardinality(receipts) = next - 1
  <2> DEFINE number == [m \in receipts |-> db[m].receipt]
             S == 1 .. (next - 1)
  <2>1. receipts \in SUBSET Document BY DEF ReceiptsIn, PostedIn
  <2>2. IsFiniteSet(receipts) BY <2>1, SeriesInputAssumption, FS_Subset
  <2>3. IsFiniteSet(S) /\ Cardinality(S) = next - 1
    <3> HIDE DEF next
    <3>1. next - 1 \in Nat BY <1>5
    <3> DEFINE last == next - 1
    <3>2. last \in Nat /\ 1 \in Int /\ last \in Int BY <3>1
    <3> HIDE DEF last
    <3>3. IsFiniteSet(1 .. last) /\ Cardinality(1 .. last) = IF 1 > last THEN 0 ELSE last - 1 + 1
      BY <3>2, FS_Interval
    <3>4. Cardinality(1 .. last) = last BY <3>2, <3>3
    <3> QED BY <3>3, <3>4 DEF last
  <2>4. number \in [receipts -> S] BY <1>6
  <2>5. \A m, n \in receipts : number[m] = number[n] => m = n BY <1>5 DEF Counted
  <2>6. \A k \in S : \E m \in receipts : number[m] = k BY <1>5 DEF Counted
  <2> HIDE DEF number, S, receipts
  <2>7. number \in Bijection(receipts, S)
    BY <2>4, <2>5, <2>6 DEF Bijection, Injection, Surjection, IsInjective
  <2>8. ExistsBijection(receipts, S) BY <2>7 DEF ExistsBijection
  <2> QED BY <2>2, <2>3, <2>8, FS_Bijection
<1>8. {db[m].receipt : m \in receipts} = 1 .. Cardinality(receipts)
  BY <1>5, <1>6, <1>7 DEF Counted
<1>9. receipts # {} => db[Counter] = Cardinality(receipts) + 1
  <2>1. receipts # {} => next # 1 BY <1>6
  <2>2. next # 1 => db[Counter] = next BY DEF NextOf
  <2> HIDE DEF receipts, next
  <2> QED BY <1>5, <1>7, <2>1, <2>2
<1> QED BY <1>2, <1>3, <1>4, <1>8, <1>9 DEF SeriesUnbroken, Numbers, ReceiptsIn

LEMMA OneTransferHolds == YearEndInv => OneTransferPerDate
<1> SUFFICES ASSUME YearEndInv PROVE OneTransferPerDate OBVIOUS
<1>1. CloseTypeOK BY DEF YearEndInv, CloseInv
<1>2. ASSUME NEW c \in Close, NEW d \in Close, c # d, db[c] # Absent, db[d] # Absent,
             db[c].move # NoMove, db[d].move # NoMove, db[c].date = db[d].date
      PROVE  Reversed(db, db[c].move) \/ Reversed(db, db[d].move)
  <2>1. ~Live(db[c]) \/ ~Live(db[d]) BY <1>2 DEF YearEndInv, CloseInv
  <2> QED BY <1>2, <2>1 DEF YearEndInv, CloseInv, Live
<1> QED BY <1>1, <1>2 DEF OneTransferPerDate

-----------------------------------------------------------------------------
(* The inductive invariant of the series and the closes: what requests saw *)
(* posted is still posted, what they posted themselves is new and carries  *)
(* a name nobody else uses, numbers and receipts have no hole below them,  *)
(* live closes have dates of their own and a cancelled one was reversed.   *)
THEOREM SeriesAndClosesInvariant == CloseSpec => []YearEndInv
<1>1. YearEndInv /\ [CloseNext]_closeVars => YearEndInv' BY StepKeeps
<1> QED BY <1>1, InitHolds, PTL DEF CloseSpec

(* Whatever requests post at once and whichever of them fail, the journal  *)
(* has every number from 1 to its last, two documents share one only under *)
(* different codes, and the receipts of the company are numbered without a *)
(* gap up to its counter.                                                  *)
THEOREM SeriesNeverBroken == CloseSpec => []SeriesUnbroken
BY SeriesAndClosesInvariant, UnbrokenHolds, PTL

(* Each posting takes effect at its commit as one step of NumberSeries: its*)
(* documents take the next free names of one code behind a number in use,  *)
(* its payments the next receipts, and nothing posted before changes.      *)
THEOREM SeriesIsNumbered == CloseSpec => ImplementsNumberSeries
<1>1. CloseInit => Series!Start
  <2> SUFFICES ASSUME CloseInit PROVE Series!Start OBVIOUS
  <2>1. /\ db[Journal] = 1 /\ db[Counter] = Absent /\ \A m \in Document : db[m] = Absent
    BY SeriesRows DEF CloseInit, SeriesInit, DBInitWith
  <2>2. [m \in Document |-> db[m]] = [m \in Document |-> Absent] BY <2>1
  <2>3. 1 .. db[Journal] = {1} BY <2>1
  <2> QED BY <2>1, <2>2, <2>3 DEF Series!Start
<1>2. YearEndInv /\ [CloseNext]_closeVars => [Series!Number]_(Series!series)
  BY StepKeeps DEF Shown
<1> QED
  BY <1>1, <1>2, SeriesAndClosesInvariant, PTL
  DEF CloseSpec, ImplementsNumberSeries, Series!Numbering

(* Of two closes that posted an entry for the same date, the entry of one  *)
(* has been reversed: the profit of a date is not transferred twice.       *)
THEOREM DatesTransferredOnce == CloseSpec => []OneTransferPerDate
BY SeriesAndClosesInvariant, OneTransferHolds, PTL

(* When a close commits, the income and expense up to its date that are not*)
(* transferred are what others committed unseen and what its own request   *)
(* posted after it: all that its request saw by then adds up to zero.      *)
THEOREM ClosesLeaveNothing == CloseSpec => CloseLeavesNothing
<1>1. YearEndInv /\ [CloseNext]_closeVars =>
        [\A t \in Txn, c \in Close :
           Closes(t, c) =>
             LET others == missed[t] \ PostedIn(view[t])
                 unseen == others \cup PostedAfter(db', t, c) IN
             TotalOf(db', {m \in PostedIn(db') \ unseen : db'[m].date <= db'[c].date}) = 0]_closeVars
  BY StepKeeps DEF NothingLeft
<1> QED BY <1>1, SeriesAndClosesInvariant, PTL DEF CloseSpec, CloseLeavesNothing
================================================================================
