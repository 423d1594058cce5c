------------------------- MODULE PeriodControlProofs -------------------------
(***************************************************************************)
(* Machine-checked proofs about PeriodControl, for every number of         *)
(* requests, entries, periods and dates; and what holds of every document  *)
(* under the rules of DocumentRules, and of the reports that read them     *)
(* (LedgerReports).                                                        *)
(***************************************************************************)
EXTENDS PeriodControl, DocumentRules, LedgerReports, TLAPS

(* What an entry operation and a period operation do, in the terms the     *)
(* invariant needs: the row written and the facts its checks established.  *)
AllowedInView(t, row) ==
  row # Absent =>
    \A p \in Period : ClosedIn(view[t], p) => ~Covers(view[t][p], row.date)

EntryEffect(t, m, row) ==
  /\ Entry(t)
  /\ Share(t, Company)
  /\ Put(t, m, row)
  /\ row \in MoveRow \cup {Absent}
  /\ AllowedInView(t, row)
  /\ AllowedInView(t, view[t][m])
  /\ view[t][m] # Absent => view[t][m].state # "posted"
  /\ UNCHANGED <<db, active, missed, request>>

CloseEffect(t, p, row) ==
  /\ request[t] = "close"
  /\ Company \in wrote[t]
  /\ view[t][p] # Absent /\ view[t][p].state = "open"
  /\ ~DraftIn(db, view[t][p])
  /\ row = [view[t][p] EXCEPT !.state = "closed"]

ReopenEffect(t, p, row) ==
  /\ request[t] = "reopen"
  /\ Company \in wrote[t]
  /\ ClosedIn(view[t], p)
  /\ row = [view[t][p] EXCEPT !.state = "open"]

MaintainEffect(t, p, row) ==
  /\ request[t] = "maintain"
  /\ ~ClosedIn(view[t], p)
  /\ row # Absent => row.state = "open"

PeriodEffect(t, p, row) ==
  /\ t \in active
  /\ Put(t, p, row)
  /\ row \in PeriodRow \cup {Absent}
  /\ CloseEffect(t, p, row) \/ ReopenEffect(t, p, row) \/ MaintainEffect(t, p, row)
  /\ UNCHANGED <<db, active, shared, missed, request>>

Effect(t) ==
  \/ \E kind \in Kind : Begin(t, kind)
  \/ \E m \in Move, row \in MoveRow \cup {Absent} : EntryEffect(t, m, row)
  \/ \E p \in Period, row \in PeriodRow \cup {Absent} : PeriodEffect(t, p, row)
  \/ LockPeriodState(t)
  \/ Commit(t)
  \/ Abort(t)

(* Every operation of a request has one of these effects.                  *)
LEMMA EntryStepEffect ==
  ASSUME TypeOK, NEW t \in Txn, EntryStep(t)
  PROVE  \E m \in Move, row \in MoveRow \cup {Absent} : EntryEffect(t, m, row)
<1> USE RowAssumption, AbsentAssumption
<1>1. PICK m \in Move :
        \/ \E date \in Date : CreateMove(t, m, date) \/ WriteMove(t, m, date)
        \/ PostMove(t, m)
        \/ ButtonDraft(t, m)
        \/ ButtonCancel(t, m)
        \/ UnlinkMove(t, m)
  BY DEF EntryStep
<1>2. view[t][m] \in MoveRow \cup {Absent}
  BY DEF TypeOK, RowTypeOK
<1>3. ASSUME NEW row, EntryEffect(t, m, row)
      PROVE  \E e \in Move, value \in MoveRow \cup {Absent} : EntryEffect(t, e, value)
  <2>1. row \in MoveRow \cup {Absent}
    BY <1>3 DEF EntryEffect
  <2>2. QED BY <1>3, <2>1
<1>4. ASSUME NEW state \in MoveState, Entry(t), CheckImmutable(t, m),
             SetMoveState(t, m, state)
      PROVE  EntryEffect(t, m, [view[t][m] EXCEPT !.state = state])
  BY <1>2, <1>4 DEF SetMoveState, EntryEffect, CheckDateAllowed, OutsideClosedPeriods,
     CheckImmutable,
              AllowedInView, Exists, MoveRow
<1>5. ASSUME NEW date \in Date, CreateMove(t, m, date)
      PROVE  EntryEffect(t, m, [state |-> "draft", date |-> date])
  BY <1>5 DEF CreateMove, EntryEffect, CheckDateAllowed, OutsideClosedPeriods, AllowedInView,
     Exists,
              MoveRow, MoveState
<1>6. ASSUME NEW date \in Date, WriteMove(t, m, date)
      PROVE  EntryEffect(t, m, [view[t][m] EXCEPT !.date = date])
  BY <1>2, <1>6 DEF WriteMove, EntryEffect, CheckDateAllowed, OutsideClosedPeriods, CheckImmutable,
              AllowedInView, Exists, MoveRow
<1>7. CASE PostMove(t, m)
  <2>1. Entry(t) /\ CheckImmutable(t, m) /\ SetMoveState(t, m, "posted")
    BY <1>7 DEF PostMove, CheckImmutable, Entry, Running
  <2>2. "posted" \in MoveState
    BY DEF MoveState
  <2>3. QED BY <2>1, <2>2, <1>4, <1>3
<1>8. CASE ButtonDraft(t, m) \/ ButtonCancel(t, m)
  <2>1. PICK state \in MoveState :
          Entry(t) /\ CheckImmutable(t, m) /\ SetMoveState(t, m, state)
    BY <1>8 DEF ButtonDraft, ButtonCancel, MoveState
  <2>2. QED BY <2>1, <1>4, <1>3
<1>9. CASE UnlinkMove(t, m)
  <2>1. EntryEffect(t, m, Absent)
    BY <1>2, <1>9 DEF UnlinkMove, EntryEffect, CheckDateAllowed, OutsideClosedPeriods,
       CheckImmutable,
                AllowedInView, Exists
  <2>2. QED BY <2>1, <1>3
<1>10. QED
  BY <1>1, <1>3, <1>5, <1>6, <1>7, <1>8, <1>9

LEMMA PeriodStepEffect ==
  ASSUME TypeOK, NEW t \in Txn, PeriodStep(t)
  PROVE  \/ LockPeriodState(t)
         \/ \E p \in Period, row \in PeriodRow \cup {Absent} : PeriodEffect(t, p, row)
<1> USE RowAssumption, AbsentAssumption
<1>1. ASSUME NEW p \in Period, NEW row, PeriodEffect(t, p, row)
      PROVE  \E q \in Period, value \in PeriodRow \cup {Absent} :
               PeriodEffect(t, q, value)
  <2>1. row \in PeriodRow \cup {Absent}
    BY <1>1 DEF PeriodEffect
  <2>2. QED BY <1>1, <2>1
<1>2. ASSUME NEW p \in Period PROVE view[t][p] \in PeriodRow \cup {Absent}
  BY DEF TypeOK, RowTypeOK
<1>3. ASSUME NEW p \in Period, ActionClose(t, p)
      PROVE  PeriodEffect(t, p, [view[t][p] EXCEPT !.state = "closed"])
  BY <1>2, <1>3 DEF ActionClose, NoDraftLeft, PeriodEffect, CloseEffect, Exists, Running, PeriodRow
<1>4. ASSUME NEW p \in Period, ActionReopen(t, p)
      PROVE  PeriodEffect(t, p, [view[t][p] EXCEPT !.state = "open"])
  BY <1>2, <1>4 DEF ActionReopen, PeriodEffect, ReopenEffect, ClosedIn, Running, PeriodRow
<1>5. ASSUME NEW p \in Period, NEW first \in Date, NEW last \in Date,
             CreatePeriod(t, p, first, last) \/ WritePeriod(t, p, first, last)
      PROVE  PeriodEffect(t, p, [state |-> "open", first |-> first, last |-> last])
  BY <1>5 DEF CreatePeriod, WritePeriod, PeriodEffect, MaintainEffect, Exists,
              ClosedIn, Running, PeriodRow
<1>6. ASSUME NEW p \in Period, UnlinkPeriod(t, p)
      PROVE  PeriodEffect(t, p, Absent)
  BY <1>6 DEF UnlinkPeriod, PeriodEffect, MaintainEffect, Exists, ClosedIn, Running
<1>7. QED
  BY <1>1, <1>3, <1>4, <1>5, <1>6 DEF PeriodStep

LEMMA NextEffect ==
  ASSUME TypeOK, Next
  PROVE  \E t \in Txn : Effect(t)
BY EntryStepEffect, PeriodStepEffect DEF Next, Effect

-----------------------------------------------------------------------------
LEMMA PutFacts ==
  ASSUME TypeOK, NEW t \in Txn, NEW r \in Row, NEW row, Put(t, r, row)
  PROVE  /\ view'[t][r] = row
         /\ \A q \in Row \ {r} : view'[t][q] = view[t][q]
         /\ \A u \in Txn \ {t} : view'[u] = view[u] /\ wrote'[u] = wrote[u]
         /\ wrote'[t] = wrote[t] \cup {r}
BY DEF Put, TypeOK

LEMMA TypeInit == Init => TypeOK
BY RowAssumption DEF Init, DBInit, DBInitWith, EmptyView, TypeOK, RowTypeOK

LEMMA TypeStep ==
  ASSUME TypeOK, NEW t \in Txn, Effect(t)
  PROVE  TypeOK'
<1> USE RowAssumption DEF TypeOK, RowTypeOK
<1>1. CASE \E kind \in Kind : Begin(t, kind)
  BY <1>1 DEF Begin, BeginTxn, Kind
<1>2. ASSUME NEW m \in Move, NEW row \in MoveRow \cup {Absent},
             EntryEffect(t, m, row)
      PROVE  TypeOK'
  BY <1>2 DEF EntryEffect, Put, Share, Entry, Running
<1>3. ASSUME NEW p \in Period, NEW row \in PeriodRow \cup {Absent},
             PeriodEffect(t, p, row)
      PROVE  TypeOK'
  BY <1>3 DEF PeriodEffect, Put
<1>4. CASE LockPeriodState(t)
  BY <1>4 DEF LockPeriodState, Touch, Put
<1>5. CASE Commit(t)
  BY <1>5 DEF Commit, CommitTxn, EndTxn, EmptyView, Kind
<1>6. CASE Abort(t)
  BY <1>6 DEF Abort, AbortTxn, EndTxn, EmptyView, Kind
<1>7. QED
  BY <1>1, <1>2, <1>3, <1>4, <1>5, <1>6 DEF Effect

(* Every reachable state is well formed.                                   *)
THEOREM TypeCorrect == Spec => []TypeOK
<1>1. TypeOK /\ [Next]_vars => TypeOK'
  <2> SUFFICES ASSUME TypeOK, [Next]_vars PROVE TypeOK'
    OBVIOUS
  <2>1. CASE Next
    BY <2>1, NextEffect, TypeStep
  <2>2. CASE UNCHANGED vars
    BY <2>2 DEF vars, dbVars, TypeOK, RowTypeOK
  <2>3. QED BY <2>1, <2>2
<1>2. QED
  BY TypeInit, <1>1, PTL DEF Spec

-----------------------------------------------------------------------------
(* The transaction discipline, preserved by every effect.                  *)
LEMMA SnapshotInit == Init => SnapshotInv
BY DEF Init, DBInit, DBInitWith, EmptyView, SnapshotInv, IdleClean, RowLocksExclusive,
       LockedRowsCurrent, ViewsCurrent

LEMMA SnapshotPut ==
  ASSUME TypeOK, SnapshotInv, NEW t \in active, NEW r \in Row, NEW row,
         Put(t, r, row), UNCHANGED <<db, active, missed>>,
         shared' = shared \/ (r # Company /\ Share(t, Company))
  PROVE  SnapshotInv'
<1> USE RowAssumption
<1>1. t \in Txn /\ Company \in Row
  BY DEF TypeOK
<1>2. /\ \A u \in Txn \ {t} : /\ view'[u] = view[u]
                              /\ wrote'[u] = wrote[u]
                              /\ shared'[u] = shared[u]
      /\ \A q \in Row \ {r} : view'[t][q] = view[t][q]
      /\ wrote'[t] = wrote[t] \cup {r}
      /\ shared'[t] \subseteq shared[t] \cup {Company}
  BY <1>1 DEF Put, Share, TypeOK
<1>3. IdleClean'
  BY <1>1, <1>2 DEF SnapshotInv, IdleClean
<1>4. RowLocksExclusive'
  BY <1>1, <1>2 DEF SnapshotInv, RowLocksExclusive, Put, CanWrite, Share, CanShare, TypeOK
<1>5. LockedRowsCurrent'
  BY <1>1, <1>2 DEF SnapshotInv, LockedRowsCurrent, Put, CanWrite, Share, CanShare, TypeOK
<1>6. ViewsCurrent'
  BY <1>1, <1>2 DEF SnapshotInv, ViewsCurrent, TypeOK
<1>7. QED BY <1>3, <1>4, <1>5, <1>6 DEF SnapshotInv

LEMMA SnapshotBegin ==
  ASSUME TypeOK, SnapshotInv, NEW t \in Txn, BeginTxn(t)
  PROVE  SnapshotInv'
<1>1. IdleClean'
  BY DEF SnapshotInv, IdleClean, BeginTxn, TypeOK
<1>2. RowLocksExclusive' /\ LockedRowsCurrent'
  BY DEF SnapshotInv, RowLocksExclusive, LockedRowsCurrent, BeginTxn
<1>3. ViewsCurrent'
  BY DEF SnapshotInv, ViewsCurrent, BeginTxn, TypeOK
<1>4. QED BY <1>1, <1>2, <1>3 DEF SnapshotInv

LEMMA SnapshotCommit ==
  ASSUME TypeOK, SnapshotInv, NEW t \in Txn, CommitTxn(t)
  PROVE  SnapshotInv'
<1>1. IdleClean'
  BY DEF SnapshotInv, IdleClean, CommitTxn, EndTxn, TypeOK
<1>2. RowLocksExclusive'
  BY DEF SnapshotInv, RowLocksExclusive, CommitTxn, EndTxn, TypeOK
<1>3. LockedRowsCurrent'
  BY DEF SnapshotInv, RowLocksExclusive, LockedRowsCurrent, CommitTxn, EndTxn, TypeOK
<1>4. ViewsCurrent'
  BY DEF SnapshotInv, ViewsCurrent, CommitTxn, EndTxn, TypeOK
<1>5. QED BY <1>1, <1>2, <1>3, <1>4 DEF SnapshotInv

LEMMA SnapshotAbort ==
  ASSUME TypeOK, SnapshotInv, NEW t \in Txn, AbortTxn(t)
  PROVE  SnapshotInv'
<1>1. IdleClean'
  BY DEF SnapshotInv, IdleClean, AbortTxn, EndTxn, TypeOK
<1>2. RowLocksExclusive' /\ LockedRowsCurrent'
  BY DEF SnapshotInv, RowLocksExclusive, LockedRowsCurrent, AbortTxn, EndTxn, TypeOK
<1>3. ViewsCurrent'
  BY DEF SnapshotInv, ViewsCurrent, AbortTxn, EndTxn, TypeOK
<1>4. QED BY <1>1, <1>2, <1>3 DEF SnapshotInv

LEMMA SnapshotStep ==
  ASSUME TypeOK, SnapshotInv, NEW t \in Txn, Effect(t)
  PROVE  SnapshotInv'
<1> USE RowAssumption
<1>1. CASE \E kind \in Kind : Begin(t, kind)
  BY <1>1, SnapshotBegin DEF Begin
<1>2. ASSUME NEW m \in Move, NEW row \in MoveRow \cup {Absent},
             EntryEffect(t, m, row)
      PROVE  SnapshotInv'
  BY <1>2, SnapshotPut DEF EntryEffect, Entry, Running
<1>3. ASSUME NEW p \in Period, NEW row \in PeriodRow \cup {Absent},
             PeriodEffect(t, p, row)
      PROVE  SnapshotInv'
  BY <1>3, SnapshotPut DEF PeriodEffect
<1>4. CASE LockPeriodState(t)
  BY <1>4, SnapshotPut DEF LockPeriodState, Touch, Running
<1>5. CASE Commit(t)
  BY <1>5, SnapshotCommit DEF Commit
<1>6. CASE Abort(t)
  BY <1>6, SnapshotAbort DEF Abort
<1>7. QED
  BY <1>1, <1>2, <1>3, <1>4, <1>5, <1>6 DEF Effect

-----------------------------------------------------------------------------

LEMMA LocksStep ==
  ASSUME IInv, NEW t \in Txn, Effect(t)
  PROVE  LocksByKind'
<1> USE RowAssumption DEF IInv, TypeOK, SnapshotInv, LocksByKind
<1>1. CASE \E kind \in Kind : Begin(t, kind)
  BY <1>1 DEF Begin, BeginTxn, Entry, Running, IdleClean
<1>2. ASSUME NEW m \in Move, NEW row \in MoveRow \cup {Absent},
             EntryEffect(t, m, row)
      PROVE  LocksByKind'
  BY <1>2 DEF EntryEffect, Put, Share, CanWrite, CanShare, Entry, Running, Entry, Running, IdleClean
<1>3. ASSUME NEW p \in Period, NEW row \in PeriodRow \cup {Absent},
             PeriodEffect(t, p, row)
      PROVE  LocksByKind'
  BY <1>3 DEF PeriodEffect, CloseEffect, ReopenEffect, MaintainEffect, Put, CanWrite, Entry,
     Running, IdleClean
<1>4. CASE LockPeriodState(t)
  BY <1>4 DEF LockPeriodState, Touch, Put, CanWrite, Running, Entry, Running, IdleClean
<1>5. CASE Commit(t)
  BY <1>5 DEF Commit, CommitTxn, EndTxn, Entry, Running, IdleClean
<1>6. CASE Abort(t)
  BY <1>6 DEF Abort, AbortTxn, EndTxn, Entry, Running, IdleClean
<1>7. QED
  BY <1>1, <1>2, <1>3, <1>4, <1>5, <1>6 DEF Effect

(* A commit that did not hold the company row leaves the closed periods    *)
(* alone: such a request can only have written periods that are open.      *)
LEMMA CommitKeepsClosed ==
  ASSUME IInv, NEW t \in Txn, Commit(t), Company \notin wrote[t], NEW p \in Period
  PROVE  ClosedIn(db, p) \/ ClosedIn(db', p) => db'[p] = db[p]
<1> USE RowAssumption DEF IInv, TypeOK
<1>1. t \in active /\ p \in Row
  BY DEF Commit, CommitTxn, EndTxn
<1>2. CASE p \notin wrote[t]
  BY <1>1, <1>2 DEF Commit, CommitTxn
<1>3. CASE p \in wrote[t]
  <2>1. request[t] = "maintain"
    BY <1>1, <1>3 DEF LocksByKind, Entry, Running, Kind
  <2>2. ~ClosedIn(db, p) /\ ~ClosedIn(view[t], p)
    BY <1>1, <1>3, <2>1 DEF PendingPeriods
  <2>3. db'[p] = view[t][p]
    BY <1>1, <1>3 DEF Commit, CommitTxn
  <2>4. QED BY <2>2, <2>3 DEF ClosedIn
<1>4. QED BY <1>2, <1>3

LEMMA ClosedKnownStep ==
  ASSUME IInv, NEW t \in Txn, Effect(t)
  PROVE  ClosedPeriodsKnown'
<1> USE RowAssumption DEF IInv, TypeOK, SnapshotInv, ClosedPeriodsKnown
<1>1. CASE \E kind \in Kind : Begin(t, kind)
  BY <1>1 DEF Begin, BeginTxn, ClosedIn
<1>2. ASSUME NEW m \in Move, NEW row \in MoveRow \cup {Absent},
             EntryEffect(t, m, row)
      PROVE  ClosedPeriodsKnown'
  BY <1>2 DEF EntryEffect, Put, ClosedIn
<1>3. ASSUME NEW p \in Period, NEW row \in PeriodRow \cup {Absent},
             PeriodEffect(t, p, row)
      PROVE  ClosedPeriodsKnown'
  BY <1>3 DEF PeriodEffect, Put, ClosedIn
<1>4. CASE LockPeriodState(t)
  BY <1>4 DEF LockPeriodState, Touch, Put, ClosedIn
<1>5. CASE Commit(t)
  <2> SUFFICES ASSUME NEW u \in active', NEW p \in Period,
                      Company \notin missed'[u],
                      p \notin wrote'[u],
                      ClosedIn(view'[u], p) \/ ClosedIn(db', p)
               PROVE  view'[u][p] = db'[p]
    OBVIOUS
  <2>1. /\ u \in active /\ u # t /\ u \in Txn
        /\ view'[u] = view[u]
        /\ wrote'[u] = wrote[u]
        /\ missed'[u] = missed[u] \cup wrote[t]
    BY <1>5 DEF Commit, CommitTxn, EndTxn
  <2>2. ClosedIn(db, p) \/ ClosedIn(db', p) => db'[p] = db[p]
    BY <1>5, <2>1, CommitKeepsClosed
  <2>3. ClosedIn(view[u], p) \/ ClosedIn(db, p) => view[u][p] = db[p]
    BY <2>1
  <2>4. QED BY <2>1, <2>2, <2>3 DEF ClosedIn
<1>6. CASE Abort(t)
  BY <1>6 DEF Abort, AbortTxn, EndTxn, ClosedIn
<1>7. QED
  BY <1>1, <1>2, <1>3, <1>4, <1>5, <1>6 DEF Effect

(* A date that passed the check against the request's own view is outside  *)
(* the periods that are closed in the database.                            *)
LEMMA AllowedIsUnfrozen ==
  ASSUME IInv, NEW t \in active, Entry(t), Company \notin missed[t],
         NEW row, AllowedInView(t, row)
  PROVE  Unfrozen(row)
<1>1. ASSUME NEW p \in Period, ClosedIn(db, p) PROVE view[t][p] = db[p]
  BY <1>1, RowAssumption DEF IInv, ClosedPeriodsKnown, LocksByKind
<1>2. QED
  BY <1>1 DEF AllowedInView, Unfrozen, ClosedIn

LEMMA PendingEntriesStep ==
  ASSUME IInv, NEW t \in Txn, Effect(t)
  PROVE  PendingEntries'
<1> USE RowAssumption DEF IInv, TypeOK, SnapshotInv, PendingEntries
<1>1. CASE \E kind \in Kind : Begin(t, kind)
  <2>1. wrote[t] = {} /\ wrote' = wrote /\ db' = db /\ active' = active \cup {t}
    BY <1>1 DEF Begin, BeginTxn, IdleClean
  <2>2. \A u \in active : view'[u] = view[u]
    BY <1>1 DEF Begin, BeginTxn
  <2>3. QED BY <2>1, <2>2 DEF Unfrozen, ClosedIn
<1>2. ASSUME NEW m \in Move, NEW row \in MoveRow \cup {Absent},
             EntryEffect(t, m, row)
      PROVE  PendingEntries'
  <2> SUFFICES ASSUME NEW u \in active, NEW e \in Move, e \in wrote'[u]
               PROVE  /\ Unfrozen(db[e])'
                      /\ Unfrozen(view[u][e])'
                      /\ db[e] # Absent => db[e].state # "posted"
    BY <1>2 DEF EntryEffect
  <2>1. db' = db /\ m \in Row /\ m \notin missed[t] /\ Company \notin missed[t]
    BY <1>2 DEF EntryEffect, Put, CanWrite, Share, CanShare
  <2>2. CASE u # t \/ e # m
    <3>1. view'[u][e] = view[u][e] /\ e \in wrote[u]
      BY <1>2, <2>2 DEF EntryEffect, Put
    <3>2. QED BY <2>1, <3>1 DEF Unfrozen, ClosedIn
  <2>3. CASE u = t /\ e = m
    <3>1. Unfrozen(row) /\ Unfrozen(view[t][m])
      BY <1>2, <2>1, <2>3, AllowedIsUnfrozen DEF EntryEffect
    <3>2. view'[u][e] = row
      BY <1>2, <2>1, <2>3 DEF EntryEffect, Put
    <3>3. CASE m \in wrote[t]
      BY <2>1, <2>3, <3>1, <3>2, <3>3 DEF Unfrozen, ClosedIn
    <3>4. CASE m \notin wrote[t]
      <4>1. view[t][m] = db[m]
        BY <2>1, <2>3, <3>4 DEF ViewsCurrent
      <4>2. QED BY <1>2, <2>1, <2>3, <3>1, <3>2, <4>1 DEF EntryEffect, Unfrozen, ClosedIn
    <3>5. QED BY <3>3, <3>4
  <2>4. QED BY <2>2, <2>3
<1>3. ASSUME NEW p \in Period, NEW row \in PeriodRow \cup {Absent},
             PeriodEffect(t, p, row)
      PROVE  PendingEntries'
  BY <1>3 DEF PeriodEffect, Put, Unfrozen, ClosedIn
<1>4. CASE LockPeriodState(t)
  BY <1>4 DEF LockPeriodState, Touch, Put, Unfrozen, ClosedIn
<1>5. CASE Commit(t)
  <2> SUFFICES ASSUME NEW u \in active', NEW m \in Move, m \in wrote'[u]
               PROVE  /\ Unfrozen(db[m])'
                      /\ Unfrozen(view[u][m])'
                      /\ db'[m] # Absent => db'[m].state # "posted"
    OBVIOUS
  <2>1. u \in active /\ u # t /\ view'[u] = view[u] /\ wrote'[u] = wrote[u]
    BY <1>5 DEF Commit, CommitTxn, EndTxn
  <2>2. db'[m] = db[m]
    BY <1>5, <2>1 DEF Commit, CommitTxn, RowLocksExclusive
  <2>3. Company \notin wrote[t]
    <3>1. Company \in shared[u]
      BY <2>1 DEF LocksByKind, Entry, Running, Kind
    <3>2. QED BY <2>1, <3>1 DEF RowLocksExclusive
  <2>4. \A p \in Period : ClosedIn(db, p) \/ ClosedIn(db', p) => db'[p] = db[p]
    BY <1>5, <2>3, CommitKeepsClosed
  <2>5. QED BY <2>1, <2>2, <2>4 DEF Unfrozen, ClosedIn
<1>6. CASE Abort(t)
  BY <1>6 DEF Abort, AbortTxn, EndTxn, Unfrozen, ClosedIn
<1>7. QED
  BY <1>1, <1>2, <1>3, <1>4, <1>5, <1>6 DEF Effect

LEMMA PeriodRowState ==
  ASSUME NEW row \in PeriodRow, NEW state
  PROVE  /\ [row EXCEPT !.state = state].state = state
         /\ [row EXCEPT !.state = state].first = row.first
         /\ [row EXCEPT !.state = state].last = row.last
BY DEF PeriodRow

LEMMA PendingPeriodsStep ==
  ASSUME IInv, NEW t \in Txn, Effect(t)
  PROVE  PendingPeriods'
<1> USE RowAssumption DEF IInv, TypeOK, SnapshotInv, PendingPeriods
<1>1. CASE \E kind \in Kind : Begin(t, kind)
  <2>1. wrote[t] = {} /\ wrote' = wrote /\ db' = db /\ active' = active \cup {t}
    BY <1>1 DEF Begin, BeginTxn, IdleClean
  <2>2. \A u \in active : view'[u] = view[u] /\ request'[u] = request[u]
    BY <1>1 DEF Begin, BeginTxn
  <2>3. QED BY <2>1, <2>2 DEF ClosedIn, DraftIn
<1>2. ASSUME NEW m \in Move, NEW row \in MoveRow \cup {Absent},
             EntryEffect(t, m, row)
      PROVE  PendingPeriods'
  BY <1>2 DEF EntryEffect, Put, ClosedIn, DraftIn
<1>3. ASSUME NEW p \in Period, NEW row \in PeriodRow \cup {Absent},
             PeriodEffect(t, p, row)
      PROVE  PendingPeriods'
  <2>1. db' = db /\ active' = active /\ request' = request /\ t \in active
    BY <1>3 DEF PeriodEffect
  <2>2. /\ \A u \in Txn, q \in Period :
             u # t \/ q # p => view'[u][q] = view[u][q] /\ (q \in wrote'[u] <=> q \in wrote[u])
        /\ view'[t][p] = row
        /\ p \notin missed[t]
    BY <1>3 DEF PeriodEffect, Put, CanWrite
  <2>3. p \notin wrote[t] => view[t][p] = db[p]
    BY <2>1, <2>2 DEF ViewsCurrent
  <2>4. /\ request[t] = "close" =>
             /\ db[p] # Absent
             /\ db[p].state = "open"
             /\ row = [db[p] EXCEPT !.state = "closed"]
             /\ ~DraftIn(db, db[p])
        /\ request[t] = "reopen" =>
             ClosedIn(db, p) /\ row = [db[p] EXCEPT !.state = "open"]
        /\ request[t] = "maintain" =>
             ~ClosedIn(db, p) /\ ~(row # Absent /\ row.state = "closed")
    <3>1. CASE CloseEffect(t, p, row)
      <4>1. p \notin wrote[t]
        <5>1. db[p] # Absent => [db[p] EXCEPT !.state = "closed"].state = "closed"
          BY PeriodRowState DEF RowTypeOK
        <5>2. QED BY <2>1, <3>1, <5>1 DEF CloseEffect
      <4>2. request[t] = "close"
        BY <3>1 DEF CloseEffect
      <4>3. QED BY <2>3, <3>1, <4>1, <4>2 DEF CloseEffect
    <3>2. CASE ReopenEffect(t, p, row)
      <4>1. p \notin wrote[t]
        <5>1. db[p] # Absent => [db[p] EXCEPT !.state = "open"].state = "open"
          BY PeriodRowState DEF RowTypeOK
        <5>2. QED BY <2>1, <3>2, <5>1 DEF ReopenEffect, ClosedIn
      <4>2. request[t] = "reopen"
        BY <3>2 DEF ReopenEffect
      <4>3. QED BY <2>3, <3>2, <4>1, <4>2 DEF ReopenEffect, ClosedIn
    <3>3. CASE MaintainEffect(t, p, row)
      <4>1. ~ClosedIn(db, p)
        BY <2>1, <2>3, <3>3 DEF MaintainEffect, ClosedIn
      <4>2. request[t] = "maintain" /\ request[t] # "close" /\ request[t] # "reopen"
        BY <3>3 DEF MaintainEffect
      <4>3. ~(row # Absent /\ row.state = "closed")
        BY <3>3 DEF MaintainEffect
      <4>4. QED BY <4>1, <4>2, <4>3
    <3>4. CloseEffect(t, p, row) \/ ReopenEffect(t, p, row) \/ MaintainEffect(t, p, row)
      BY <1>3 DEF PeriodEffect
    <3>5. QED BY <3>1, <3>2, <3>3, <3>4
  <2>5. SUFFICES ASSUME NEW u \in active, NEW q \in Period, q \in wrote'[u]
                 PROVE  PendingPeriods!(u, q)!2'
    BY <2>1 DEF PendingPeriods
  <2>6. DraftIn(db, db[q])' <=> DraftIn(db, db[q])
    BY <2>1 DEF DraftIn
  <2>7. CASE u = t /\ q = p
    BY <2>1, <2>2, <2>4, <2>6, <2>7 DEF ClosedIn
  <2>8. CASE u # t \/ q # p
    <3>1. view'[u][q] = view[u][q] /\ q \in wrote[u]
      BY <2>2, <2>5, <2>8
    <3>2. QED BY <2>1, <2>6, <3>1 DEF ClosedIn
  <2>9. QED BY <2>7, <2>8
<1>4. CASE LockPeriodState(t)
  BY <1>4 DEF LockPeriodState, Touch, Put, ClosedIn, DraftIn
<1>5. CASE Commit(t)
  <2> SUFFICES ASSUME NEW u \in active', NEW p \in Period, p \in wrote'[u]
               PROVE  PendingPeriods!(u, p)!2'
    BY DEF PendingPeriods
  <2>1. /\ u \in active /\ u # t
        /\ view'[u] = view[u] /\ wrote'[u] = wrote[u] /\ request'[u] = request[u]
    BY <1>5 DEF Commit, CommitTxn, EndTxn
  <2>2. db'[p] = db[p]
    BY <1>5, <2>1 DEF Commit, CommitTxn, RowLocksExclusive
  <2>3. request[u] = "close" => \A m \in Move : db'[m] = db[m]
    <3>1. SUFFICES ASSUME request[u] = "close", NEW m \in Move PROVE m \notin wrote[t]
      BY <1>5 DEF Commit, CommitTxn
    <3>2. Company \in wrote[u]
      BY <2>1, <3>1 DEF LocksByKind, Running
    <3>3. Company \notin shared[t]
      BY <2>1, <3>2 DEF RowLocksExclusive
    <3>4. QED
      BY <1>5, <3>3 DEF LocksByKind, Entry, Running, Kind, Commit, CommitTxn, EndTxn
  <2>4. QED BY <2>1, <2>2, <2>3 DEF ClosedIn, DraftIn
<1>6. CASE Abort(t)
  BY <1>6 DEF Abort, AbortTxn, EndTxn, ClosedIn, DraftIn
<1>7. QED
  BY <1>1, <1>2, <1>3, <1>4, <1>5, <1>6 DEF Effect

(* Only a commit changes the database, so only a commit can break it.      *)
LEMMA OnlyCommitChangesDB ==
  ASSUME NEW t \in Txn, Effect(t), ~Commit(t)
  PROVE  db' = db
BY DEF Effect, Begin, BeginTxn, EntryEffect, PeriodEffect, LockPeriodState,
       Abort, AbortTxn

LEMMA NoDraftStep ==
  ASSUME IInv, NEW t \in Txn, Effect(t)
  PROVE  NoDraftInClosedPeriod'
<1> USE RowAssumption DEF IInv, TypeOK, NoDraftInClosedPeriod
<1>1. CASE ~Commit(t)
  BY <1>1, OnlyCommitChangesDB DEF ClosedIn, DraftIn
<1>2. CASE Commit(t)
  <2> SUFFICES ASSUME NEW p \in Period, ClosedIn(db', p),
                      NEW m \in Move, db'[m] # Absent, db'[m].state = "draft",
                      Covers(db'[p], db'[m].date)
               PROVE  FALSE
    BY DEF DraftIn
  <2>1. /\ t \in active
        /\ db'[p] = IF p \in wrote[t] THEN view[t][p] ELSE db[p]
        /\ db'[m] = IF m \in wrote[t] THEN view[t][m] ELSE db[m]
    BY <1>2 DEF Commit, CommitTxn, EndTxn
  <2>2. CASE p \in wrote[t]
    <3>1. request[t] = "close"
      <4>1. request[t] \in {"close", "reopen", "maintain"}
        BY <2>1, <2>2 DEF LocksByKind, Entry, Running, Kind
      <4>2. ClosedIn(view[t], p)
        BY <2>1, <2>2 DEF ClosedIn
      <4>3. request[t] # "reopen"
        <5>1. db[p] # Absent => [db[p] EXCEPT !.state = "open"].state = "open"
          BY PeriodRowState DEF RowTypeOK
        <5>2. QED BY <2>1, <2>2, <4>2, <5>1 DEF PendingPeriods, ClosedIn
      <4>4. QED BY <2>1, <2>2, <4>1, <4>2, <4>3 DEF PendingPeriods
    <3>2. m \notin wrote[t]
      BY <2>1, <3>1 DEF LocksByKind, Running
    <3>3. /\ ~DraftIn(db, db[p])
          /\ db'[p] = [db[p] EXCEPT !.state = "closed"]
          /\ db[p] \in PeriodRow
      BY <2>1, <2>2, <3>1 DEF PendingPeriods, RowTypeOK
    <3>4. QED BY <2>1, <3>2, <3>3 DEF DraftIn, Covers, PeriodRow
  <2>3. CASE p \notin wrote[t] /\ m \notin wrote[t]
    BY <2>1, <2>3 DEF DraftIn, ClosedIn
  <2>4. CASE p \notin wrote[t] /\ m \in wrote[t]
    BY <2>1, <2>4 DEF PendingEntries, Unfrozen, ClosedIn
  <2>5. QED BY <2>2, <2>3, <2>4
<1>3. QED BY <1>1, <1>2

LEMMA IInvInit == Init => IInv
<1> SUFFICES ASSUME Init PROVE IInv
  OBVIOUS
<1>1. TypeOK /\ SnapshotInv
  BY TypeInit, SnapshotInit
<1>2. /\ LocksByKind /\ ClosedPeriodsKnown /\ PendingEntries /\ PendingPeriods
      /\ NoDraftInClosedPeriod
  BY RowAssumption DEF Init, DBInit, DBInitWith, EmptyView, LocksByKind, ClosedPeriodsKnown,
     PendingEntries, PendingPeriods, NoDraftInClosedPeriod, ClosedIn
<1>3. QED BY <1>1, <1>2 DEF IInv

LEMMA IInvNext == IInv /\ [Next]_vars => IInv'
<1> SUFFICES ASSUME IInv, [Next]_vars PROVE IInv'
  OBVIOUS
<1>1. CASE Next
  <2>1. PICK t \in Txn : Effect(t)
    BY <1>1, NextEffect DEF IInv
  <2>2. TypeOK' /\ SnapshotInv'
    BY <2>1, TypeStep, SnapshotStep DEF IInv
  <2>3. LocksByKind' /\ ClosedPeriodsKnown'
    BY <2>1, LocksStep, ClosedKnownStep
  <2>4. PendingEntries' /\ PendingPeriods' /\ NoDraftInClosedPeriod'
    BY <2>1, PendingEntriesStep, PendingPeriodsStep, NoDraftStep
  <2>5. QED BY <2>2, <2>3, <2>4 DEF IInv
<1>2. CASE UNCHANGED vars
  BY <1>2 DEF vars, dbVars, IInv, TypeOK, RowTypeOK, SnapshotInv, IdleClean,
     RowLocksExclusive, LockedRowsCurrent, ViewsCurrent, LocksByKind, Entry, Running,
     ClosedPeriodsKnown, PendingEntries, PendingPeriods, Unfrozen,
     NoDraftInClosedPeriod, ClosedIn, DraftIn
<1>3. QED BY <1>1, <1>2

(* The strengthened invariant holds in every reachable state.              *)
THEOREM InductiveInvariant == Spec => []IInv
BY IInvInit, IInvNext, PTL DEF Spec

(* No closed period ever holds a draft, whatever closes, entries and edits *)
(* run at once (action_close, _check_date_allowed).                        *)
THEOREM ClosedPeriodsHoldNoDraft == Spec => []NoDraftInClosedPeriod
<1>1. IInv => NoDraftInClosedPeriod
  BY DEF IInv
<1>2. QED BY <1>1, InductiveInvariant, PTL

-----------------------------------------------------------------------------
(* What one commit does to the committed books, by the kind of request.    *)
LEMMA CommittedRow ==
  ASSUME NEW t \in Txn, Commit(t), NEW r \in Row
  PROVE  db'[r] = IF r \in wrote[t] THEN view[t][r] ELSE db[r]
BY DEF Commit, CommitTxn

LEMMA CommitEntries ==
  ASSUME IInv, NEW t \in active, Commit(t), Entry(t)
  PROVE  /\ \A m \in Move : db'[m] # db[m] =>
              /\ db[m] # Absent => db[m].state # "posted"
              /\ Unfrozen(db[m])
              /\ Unfrozen(db'[m])
         /\ \A p \in Period : db'[p] = db[p]
BY RowAssumption, CommittedRow DEF IInv, TypeOK, LocksByKind, PendingEntries

PeriodChange(t, p) ==
  \/ /\ request[t] = "close"
     /\ db[p] # Absent
     /\ db[p].state = "open"
     /\ db'[p] = [db[p] EXCEPT !.state = "closed"]
     /\ ~DraftIn(db, db[p])
  \/ /\ request[t] = "reopen"
     /\ ClosedIn(db, p)
     /\ db'[p] = [db[p] EXCEPT !.state = "open"]
  \/ /\ request[t] = "maintain"
     /\ ~ClosedIn(db, p)
     /\ ~ClosedIn(db', p)

LEMMA CommitPeriods ==
  ASSUME IInv, NEW t \in active, Commit(t), ~Entry(t)
  PROVE  /\ \A m \in Move : db'[m] = db[m]
         /\ \A p \in Period : db'[p] # db[p] => PeriodChange(t, p)
<1> USE RowAssumption DEF IInv, TypeOK
<1>1. request[t] \in {"close", "reopen", "maintain"}
  BY DEF Entry, Running, Kind
<1>2. wrote[t] \subseteq Period \cup {Company}
  BY <1>1 DEF LocksByKind, Running
<1>3. \A m \in Move : db'[m] = db[m]
  BY <1>2, CommittedRow
<1>4. SUFFICES ASSUME NEW p \in Period, db'[p] # db[p]
               PROVE  PeriodChange(t, p)
  BY <1>3
<1>5. p \in wrote[t] /\ db'[p] = view[t][p]
  BY <1>4, CommittedRow
<1>6. QED BY <1>1, <1>5 DEF PendingPeriods, ClosedIn, PeriodChange

(* Every step leaves the books alone or is the commit of one request.      *)
LEMMA StepOfBooks ==
  ASSUME IInv, [Next]_vars
  PROVE  \/ db' = db
         \/ \E t \in active : Commit(t)
<1>1. CASE Next
  <2>1. PICK t \in Txn : Effect(t)
    BY <1>1, NextEffect DEF IInv
  <2>2. Commit(t) => t \in active
    BY DEF Commit, CommitTxn, EndTxn
  <2>3. QED BY <2>1, <2>2, OnlyCommitChangesDB
<1>2. CASE UNCHANGED vars
  BY <1>2 DEF vars, dbVars
<1>3. QED BY <1>1, <1>2

(* The committed books of PeriodControl behave as AccountingLedger: each   *)
(* request takes effect at its commit, as one legal change.                *)
LEMMA LedgerInit == Init => Ledger!Start
BY RowAssumption DEF Init, DBInit, DBInitWith, EmptyView, Ledger!Start

LEMMA LedgerStep ==
  ASSUME IInv, [Next]_vars
  PROVE  [Ledger!Change]_(Ledger!books)
<1> USE DEF Ledger!books
<1>1. CASE db' = db
  BY <1>1
<1>2. ASSUME NEW t \in active, Commit(t), Entry(t)
      PROVE  Ledger!RecordEntries
  BY <1>2, CommitEntries
     DEF Ledger!RecordEntries, Ledger!Posted, Ledger!Frozen, Ledger!Closed,
         Ledger!Within, Unfrozen, ClosedIn, Covers
<1>3. ASSUME NEW t \in active, Commit(t), ~Entry(t)
      PROVE  Ledger!ClosePeriods \/ Ledger!ReopenPeriods \/ Ledger!DefinePeriods
  <2>1. /\ \A m \in Move : db'[m] = db[m]
        /\ \A p \in Period : db'[p] # db[p] => PeriodChange(t, p)
    BY <1>3, CommitPeriods
  <2>2. request[t] \in {"close", "reopen", "maintain"}
    BY <1>3 DEF IInv, TypeOK, Entry, Running, Kind
  <2>3. CASE request[t] = "close"
    <3>1. Ledger!ClosePeriods
      BY <2>1, <2>3 DEF PeriodChange, Ledger!ClosePeriods, Ledger!DraftWithin,
         Ledger!Within, DraftIn, Covers
    <3>2. QED BY <3>1
  <2>4. CASE request[t] = "reopen"
    <3>1. Ledger!ReopenPeriods
      BY <2>1, <2>4 DEF PeriodChange, Ledger!ReopenPeriods, Ledger!Closed, ClosedIn
    <3>2. QED BY <3>1
  <2>5. CASE request[t] = "maintain"
    <3>1. \A p \in Period : db'[p] # Absent /\ ~ClosedIn(db', p) => db'[p].state = "open"
      <4> SUFFICES ASSUME NEW p \in Period, db'[p] # Absent, ~ClosedIn(db', p)
                   PROVE  db'[p].state = "open"
        OBVIOUS
      <4>1. TypeOK'
        BY IInvNext DEF IInv
      <4>2. QED BY <4>1 DEF TypeOK, RowTypeOK, PeriodRow, ClosedIn
    <3>2. Ledger!DefinePeriods
      BY <2>1, <2>5, <3>1 DEF PeriodChange, Ledger!DefinePeriods, Ledger!Closed, ClosedIn
    <3>3. QED BY <3>2
  <2>6. QED BY <2>2, <2>3, <2>4, <2>5
<1>4. QED
  BY <1>1, <1>2, <1>3, StepOfBooks DEF Ledger!Change

THEOREM ImplementsLedgerTheorem == Spec => ImplementsLedger
<1>1. QED
  BY LedgerInit, LedgerStep, InductiveInvariant, PTL
  DEF Spec, ImplementsLedger, Ledger!Books

(* A posted entry never changes again (_thirdcode_check_immutable).        *)
THEOREM PostedEntriesImmutable == Spec => PostedImmutable
<1>1. ASSUME IInv, [Next]_vars
      PROVE  \A m \in Move :
               db[m] # Absent /\ db[m].state = "posted" => db'[m] = db[m]
  <2>1. ASSUME NEW t \in active, Commit(t), NEW m \in Move,
               db[m] # Absent, db[m].state = "posted"
        PROVE  db'[m] = db[m]
    BY <1>1, <2>1, CommitEntries, CommitPeriods
  <2>2. QED BY <1>1, <2>1, StepOfBooks
<1>2. QED
  BY <1>1, InductiveInvariant, PTL DEF Spec, PostedImmutable

(* Nothing dated in a period that stays closed is touched                  *)
(* (_check_date_allowed, called before and after every write).             *)
THEOREM ClosedPeriodsFrozen == Spec => ClosedPeriodFrozen
<1>1. ASSUME IInv, [Next]_vars
      PROVE  \A p \in Period, m \in Move :
               /\ ClosedIn(db, p) /\ ClosedIn(db', p)
               /\ DatedIn(db, m, p) \/ DatedIn(db', m, p)
               => db'[m] = db[m]
  <2>1. ASSUME NEW t \in active, Commit(t), NEW p \in Period, NEW m \in Move,
               ClosedIn(db, p), DatedIn(db, m, p) \/ DatedIn(db', m, p),
               db'[m] # db[m]
        PROVE  FALSE
    <3>1. Entry(t)
      BY <1>1, <2>1, CommitPeriods
    <3>2. Unfrozen(db[m]) /\ Unfrozen(db'[m]) /\ db'[p] = db[p]
      BY <1>1, <2>1, <3>1, CommitEntries
    <3>3. QED BY <2>1, <3>2 DEF Unfrozen, DatedIn
  <2>2. QED BY <1>1, <2>1, StepOfBooks
<1>2. QED
  BY <1>1, InductiveInvariant, PTL DEF Spec, ClosedPeriodFrozen

(* A closed period is only ever reopened, with its dates intact            *)
(* (action_reopen; AccountingPeriod.write and unlink refuse).              *)
THEOREM ClosedPeriodsOnlyReopened == Spec => ClosedPeriodOnlyReopened
<1>1. ASSUME IInv, [Next]_vars, NEW p \in Period, ClosedIn(db, p), db'[p] # db[p]
      PROVE  /\ db'[p] = [db[p] EXCEPT !.state = "open"]
             /\ \E t \in active \ active' : request[t] = "reopen"
  <2>1. PICK t \in active : Commit(t)
    BY <1>1, StepOfBooks
  <2>2. PeriodChange(t, p)
    BY <1>1, <2>1, CommitEntries, CommitPeriods
  <2>3. request[t] = "reopen" /\ db'[p] = [db[p] EXCEPT !.state = "open"]
    BY <1>1, <2>2 DEF PeriodChange, ClosedIn
  <2>4. t \notin active'
    BY <2>1 DEF Commit, CommitTxn, EndTxn
  <2>5. QED BY <2>3, <2>4
<1>2. IInv /\ [Next]_vars =>
        \A p \in Period :
          ClosedIn(db, p) /\ db'[p] # db[p] =>
            /\ db'[p] = [db[p] EXCEPT !.state = "open"]
            /\ \E t \in active \ active' : request[t] = "reopen"
  BY <1>1
<1>3. QED
  BY <1>2, InductiveInvariant, PTL DEF Spec, ClosedPeriodOnlyReopened

-----------------------------------------------------------------------------
(* Documents and reports.                                                  *)

(* No draft is armed by an Encoder, whatever he writes, so what the next   *)
(* nightly job posts was armed by somebody else; and the job posts nothing *)
(* an Encoder wrote last, but leaves it a draft that no later night posts. *)
THEOREM NightlyPostsNoEncoderDraft ==
  ASSUME NEW User, NEW row \in DraftRow(User), ~row.posted, NEW root,
         NEW u, NEW values, DraftWriteAllowed(u, values), EncoderWriter(u)
  PROVE  LET written == DraftWritten(row, u, values)
             night == AutoPosted(written, root) IN
         /\ written.auto => row.auto
         /\ written.checked => row.checked
         /\ ~night.posted /\ ~night.auto
         /\ ~AutoPosted(night, root).posted
<1> DEFINE written == DraftWritten(row, u, values)
           night == AutoPosted(written, root)
<1>1. ~ArmsPosting(values) BY DEF DraftWriteAllowed
<1>2. written.auto => row.auto BY <1>1 DEF DraftWritten, ArmsPosting
<1>3. written.checked => row.checked BY <1>1 DEF DraftWritten, ArmsPosting
<1>4. ~written.posted /\ written.writer = u BY DEF DraftWritten
<1>5. u.role = "encoder" BY DEF EncoderWriter
<1>6. ~Demoted(written, root).auto /\ ~Demoted(written, root).posted
  BY <1>4, <1>5 DEF Demoted, DraftWritten
<1>7. night = Demoted(written, root) BY <1>6 DEF AutoPosted
<1>8. Demoted(night, root) = night BY <1>6, <1>7 DEF Demoted
<1> QED BY <1>2, <1>3, <1>6, <1>7, <1>8 DEF AutoPosted

(* The trial balance is complete and counts nothing twice: every line of   *)
(* the ledger up to the report's last day is a source of the ending balance*)
(* of one account, its own or, for the result of an earlier year, that of  *)
(* unaffected earnings (_thirdcode_source_domain).                         *)
THEOREM LineOfOneAccount ==
  ASSUME Earnings \in Account,
         NEW lines, NEW from \in Int, NEW to \in Int, NEW year \in Int,
         year <= from, from <= to,
         NEW l \in lines, l.account \in Account, l.day \in Int
  PROVE  {a \in Account : l \in Sources(lines, from, to, year, FALSE, "ending", {a})}
           = IF l.day > to THEN {}
             ELSE IF ResultAccount(l.account) /\ l.day < year THEN {Earnings}
             ELSE {l.account}
<1> DEFINE In(a) == l \in Sources(lines, from, to, year, FALSE, "ending", {a})
           Carried == ResultAccount(l.account) /\ l.day < year
           Rows == IF l.day > to THEN {} ELSE IF Carried THEN {Earnings} ELSE {l.account}
<1>1. ASSUME NEW a \in Account
      PROVE  In(a) <=> a \in Rows
  <2>1. In(a) <=> \/ a = l.account /\ l \in OpeningLines(lines, from, year)
                  \/ a = Earnings /\ l \in CarriedProfit(lines, year)
                  \/ a = l.account /\ l \in ActivityLines(lines, from, to)
    BY DEF Sources
  <2>2. CASE l.day > to
    <3>1. /\ l \notin OpeningLines(lines, from, year) /\ l \notin CarriedProfit(lines, year)
          /\ l \notin ActivityLines(lines, from, to)
      BY <2>2 DEF OpeningLines, CarriedProfit, ActivityLines
    <3>2. Rows = {}
      BY <2>2
    <3>3. QED
      BY <2>1, <3>1, <3>2
  <2>3. CASE l.day <= to /\ Carried
    <3>1. /\ l \notin OpeningLines(lines, from, year) /\ l \in CarriedProfit(lines, year)
          /\ l \notin ActivityLines(lines, from, to)
      BY <2>3 DEF OpeningLines, CarriedProfit, ActivityLines
    <3>2. Rows = {Earnings}
      BY <2>3
    <3>3. QED
      BY <2>1, <3>1, <3>2
  <2>4. CASE l.day <= to /\ ~Carried
    <3>1. /\ l \in OpeningLines(lines, from, year) \/ l \in ActivityLines(lines, from, to)
          /\ l \notin CarriedProfit(lines, year)
      BY <2>4 DEF OpeningLines, CarriedProfit, ActivityLines
    <3>2. Rows = {l.account}
      BY <2>4
    <3>3. QED
      BY <2>1, <3>1, <3>2
  <2>5. l.day > to \/ l.day <= to
    OBVIOUS
  <2>6. QED
    BY <2>2, <2>3, <2>4, <2>5
<1>2. Rows \subseteq Account
  OBVIOUS
<1>3. QED
  BY <1>1, <1>2

===============================================================================
