---------------------------- MODULE PeriodControl ----------------------------
(***************************************************************************)
(* The core of the add-on: journal entries (account.move), accounting      *)
(* periods (thirdcode.accounting.period) and the company row whose         *)
(* revision serializes the closing of a period against everything that     *)
(* writes an accounting effect (res_company.py).                           *)
(*                                                                         *)
(* Each request is a transaction of SnapshotDB.  A request runs any number *)
(* of the operations its kind allows and then commits or aborts; an        *)
(* operation whose checks fail is not enabled, and the request aborts.     *)
(* A move stands for itself and its lines, which the guards treat alike.   *)
(* One company: the lock and every search are per company.                 *)
(***************************************************************************)
EXTENDS Integers, SnapshotDB

CONSTANTS
  Move,      \* journal entries
  Period,    \* accounting periods
  Company,   \* the row of res_company
  Date       \* accounting dates

ASSUME RowAssumption ==
  /\ Row = Move \cup Period \cup {Company}
  /\ Move \cap Period = {}
  /\ Company \notin Move \cup Period

ASSUME DateAssumption == Date \subseteq Int

MoveState == {"draft", "posted", "cancel"}
MoveRow == [state : MoveState, date : Date]

PeriodRow ==
  {row \in [state : {"open", "closed"}, first : Date, last : Date] :
     row.first <= row.last}

ASSUME AbsentAssumption == Absent \notin MoveRow \cup PeriodRow

(* What a request was made for: an entry by an Encoder ("encode") or by an *)
(* accountant ("account"), the close or reopen button of a set of periods, *)
(* or the maintenance of period records.                                   *)
Kind == {"encode", "account", "close", "reopen", "maintain"}

VARIABLE request    \* request[t]: the kind of the request t serves

vars == <<dbVars, request>>

Init ==
  /\ DBInit
  /\ request = [t \in Txn |-> "none"]

-----------------------------------------------------------------------------
Covers(period, date) == period.first <= date /\ date <= period.last

Overlap(p, q) == p.first <= q.last /\ q.first <= p.last

ClosedIn(rows, p) == rows[p] # Absent /\ rows[p].state = "closed"

DraftIn(rows, period) ==
  \E m \in Move : /\ rows[m] # Absent
                  /\ rows[m].state = "draft"
                  /\ Covers(period, rows[m].date)

Running(t, kinds) == t \in active /\ request[t] \in kinds

Entry(t) == Running(t, {"encode", "account"})

Begin(t, kind) ==
  /\ BeginTxn(t)
  /\ request' = [request EXCEPT ![t] = kind]

Commit(t) ==
  /\ CommitTxn(t)
  /\ request' = [request EXCEPT ![t] = "none"]

Abort(t) ==
  /\ AbortTxn(t)
  /\ request' = [request EXCEPT ![t] = "none"]

-----------------------------------------------------------------------------
(* Entries.  _check_date_allowed takes the company row FOR SHARE and then  *)
(* looks for a closed period in the request's own view.                    *)
OutsideClosedPeriods(t, date) ==
  \A p \in Period : ClosedIn(view[t], p) => ~Covers(view[t][p], date)

(* Mutant: the search without the lock on the company row.                 *)
CheckDateUnlocked(t, date) == OutsideClosedPeriods(t, date) /\ UNCHANGED shared

CheckDateAllowed(t, date) == Share(t, Company) /\ OutsideClosedPeriods(t, date)

(* _thirdcode_check_immutable: a move that was ever posted never changes.  *)
(* Mutant: posting history ignored.                                        *)
CheckNothing(t, m) == Exists(t, m)

CheckImmutable(t, m) == Exists(t, m) /\ view[t][m].state # "posted"

CreateMove(t, m, date) ==
  /\ Entry(t)
  /\ ~Exists(t, m)
  /\ Put(t, m, [state |-> "draft", date |-> date])
  /\ CheckDateAllowed(t, date)
  /\ UNCHANGED <<db, active, missed, request>>

(* Mutant: the new date is not checked after the update.                   *)
WriteMoveCheckedBefore(t, m, date) ==
  /\ Entry(t)
  /\ CheckImmutable(t, m)
  /\ CheckDateAllowed(t, view[t][m].date)
  /\ Put(t, m, [view[t][m] EXCEPT !.date = date])
  /\ UNCHANGED <<db, active, missed, request>>

(* write() checks the stored date before and the new date after the update *)
WriteMove(t, m, date) ==
  /\ Entry(t)
  /\ CheckImmutable(t, m)
  /\ CheckDateAllowed(t, view[t][m].date)
  /\ Put(t, m, [view[t][m] EXCEPT !.date = date])
  /\ CheckDateAllowed(t, date)
  /\ UNCHANGED <<db, active, missed, request>>

(* The state changes of a move go through the same checks on its date.     *)
SetMoveState(t, m, state) ==
  /\ CheckDateAllowed(t, view[t][m].date)
  /\ Put(t, m, [view[t][m] EXCEPT !.state = state])
  /\ UNCHANGED <<db, active, missed, request>>

PostMove(t, m) ==
  /\ Running(t, {"account"})
  /\ Exists(t, m) /\ view[t][m].state = "draft"
  /\ SetMoveState(t, m, "posted")

ButtonDraft(t, m) ==
  /\ Entry(t)
  /\ CheckImmutable(t, m)
  /\ view[t][m].state = "cancel"
  /\ SetMoveState(t, m, "draft")

ButtonCancel(t, m) ==
  /\ Entry(t)
  /\ CheckImmutable(t, m)
  /\ view[t][m].state = "draft"
  /\ SetMoveState(t, m, "cancel")

UnlinkMove(t, m) ==
  /\ Entry(t)
  /\ CheckImmutable(t, m)
  /\ CheckDateAllowed(t, view[t][m].date)
  /\ Put(t, m, Absent)
  /\ UNCHANGED <<db, active, missed, request>>

-----------------------------------------------------------------------------
(* Closing and reopening.  The exclusive lock is an UPDATE of the          *)
(* company's period revision, so it waits for every shared holder and      *)
(* makes every request whose snapshot is older fail on its next check.     *)
(* The number itself is never read, so the row keeps one value here.       *)
LockPeriodState(t) ==
  /\ Running(t, {"close", "reopen"})
  /\ Company \notin wrote[t]
  /\ Touch(t, Company)
  /\ UNCHANGED <<db, active, shared, missed, request>>

(* Mutant: the draft search trusts the request's own snapshot.             *)
NoDraftInView(t, p) == ~DraftIn(view[t], view[t][p])

(* The draft search runs twice: in the request's view and, on a fresh      *)
(* cursor, in the committed database.                                      *)
NoDraftLeft(t, p) == ~DraftIn(view[t], view[t][p]) /\ ~DraftIn(db, view[t][p])

ActionClose(t, p) ==
  /\ Running(t, {"close"})
  /\ Company \in wrote[t]
  /\ Exists(t, p) /\ view[t][p].state = "open"
  /\ NoDraftLeft(t, p)
  /\ Put(t, p, [view[t][p] EXCEPT !.state = "closed"])
  /\ UNCHANGED <<db, active, shared, missed, request>>

ActionReopen(t, p) ==
  /\ Running(t, {"reopen"})
  /\ Company \in wrote[t]
  /\ ClosedIn(view[t], p)
  /\ Put(t, p, [view[t][p] EXCEPT !.state = "open"])
  /\ UNCHANGED <<db, active, shared, missed, request>>

-----------------------------------------------------------------------------
(* Maintenance of period records takes no company lock.  _check_overlap is *)
(* a search in the request's own view.                                     *)
CheckOverlap(t, p, new) ==
  \A q \in Period \ {p} : Exists(t, q) => ~Overlap(new, view[t][q])

CreatePeriod(t, p, first, last) ==
  LET new == [state |-> "open", first |-> first, last |-> last] IN
  /\ Running(t, {"maintain"})
  /\ ~Exists(t, p)
  /\ first <= last
  /\ CheckOverlap(t, p, new)
  /\ Put(t, p, new)
  /\ UNCHANGED <<db, active, shared, missed, request>>

WritePeriod(t, p, first, last) ==
  LET new == [state |-> "open", first |-> first, last |-> last] IN
  /\ Running(t, {"maintain"})
  /\ Exists(t, p) /\ view[t][p].state # "closed"
  /\ first <= last
  /\ CheckOverlap(t, p, new)
  /\ Put(t, p, new)
  /\ UNCHANGED <<db, active, shared, missed, request>>

UnlinkPeriod(t, p) ==
  /\ Running(t, {"maintain"})
  /\ Exists(t, p) /\ view[t][p].state # "closed"
  /\ Put(t, p, Absent)
  /\ UNCHANGED <<db, active, shared, missed, request>>

-----------------------------------------------------------------------------
EntryStep(t) ==
  \E m \in Move :
    \/ \E date \in Date : CreateMove(t, m, date) \/ WriteMove(t, m, date)
    \/ PostMove(t, m)
    \/ ButtonDraft(t, m)
    \/ ButtonCancel(t, m)
    \/ UnlinkMove(t, m)

PeriodStep(t) ==
  \/ LockPeriodState(t)
  \/ \E p \in Period :
       \/ ActionClose(t, p)
       \/ ActionReopen(t, p)
       \/ \E first, last \in Date :
            CreatePeriod(t, p, first, last) \/ WritePeriod(t, p, first, last)
       \/ UnlinkPeriod(t, p)

Next ==
  \E t \in Txn :
    \/ \E kind \in Kind : Begin(t, kind)
    \/ EntryStep(t)
    \/ PeriodStep(t)
    \/ Commit(t)
    \/ Abort(t)

Spec == Init /\ [][Next]_vars

-----------------------------------------------------------------------------
RowTypeOK(rows) ==
  /\ \A m \in Move : rows[m] \in MoveRow \cup {Absent}
  /\ \A p \in Period : rows[p] \in PeriodRow \cup {Absent}

(* The tables, the views of the requests and their locks are well formed.  *)
TypeOK ==
  /\ db \in [Row -> MoveRow \cup PeriodRow \cup {Absent}]
  /\ view \in [Txn -> [Row -> MoveRow \cup PeriodRow \cup {Absent}]]
  /\ RowTypeOK(db)
  /\ \A t \in Txn : RowTypeOK(view[t])
  /\ active \subseteq Txn
  /\ wrote \in [Txn -> SUBSET Row]
  /\ shared \in [Txn -> SUBSET {Company}]
  /\ missed \in [Txn -> SUBSET Row]
  /\ request \in [Txn -> Kind \cup {"none"}]
  /\ \A t \in Txn : request[t] = "none" <=> t \notin active

(* A closed period holds no draft, however the close interleaved with the  *)
(* requests that were creating, re-dating or reviving entries: action_close*)
(* refuses to close over a draft and _check_date_allowed keeps drafts out  *)
(* afterwards.                                                             *)
NoDraftInClosedPeriod ==
  \A p \in Period : ClosedIn(db, p) => ~DraftIn(db, db[p])

DatedIn(rows, m, p) == rows[m] # Absent /\ Covers(rows[p], rows[m].date)

(* While a period stays closed, nothing dated in it is created, changed,   *)
(* deleted, moved out of it or moved into it: "Accounting effects dated in *)
(* closed period are prohibited" (_check_date_allowed).                    *)
ClosedPeriodFrozen ==
  [][\A p \in Period, m \in Move :
       /\ ClosedIn(db, p) /\ ClosedIn(db', p)
       /\ DatedIn(db, m, p) \/ DatedIn(db', m, p)
       => db'[m] = db[m]]_vars

(* A posted entry never changes again, also not through a request that     *)
(* read it while it was a draft (_thirdcode_check_immutable).              *)
PostedImmutable ==
  [][\A m \in Move :
       db[m] # Absent /\ db[m].state = "posted" => db'[m] = db[m]]_vars

(* Only an administrator's reopen takes a period out of "closed", and it   *)
(* keeps the dates: an edit or deletion that raced the close cannot        *)
(* (AccountingPeriod.write, unlink and action_reopen).                     *)
ClosedPeriodOnlyReopened ==
  [][\A p \in Period :
       ClosedIn(db, p) /\ db'[p] # db[p] =>
         /\ db'[p] = [db[p] EXCEPT !.state = "open"]
         /\ \E t \in active \ active' : request[t] = "reopen"]_vars

(* What _check_overlap states of every period of the company: it shares no *)
(* date with another.                                                      *)
PeriodsDisjoint ==
  \A p, q \in Period :
    p # q /\ db[p] # Absent /\ db[q] # Absent => ~Overlap(db[p], db[q])
-----------------------------------------------------------------------------
(* The committed books, seen without requests and locks, change only as    *)
(* AccountingLedger allows: every request takes effect at its commit.      *)
Ledger == INSTANCE AccountingLedger WITH
            entries <- [m \in Move |-> db[m]],
            periods <- [p \in Period |-> db[p]]

ImplementsLedger == Ledger!Books

-----------------------------------------------------------------------------
(* The inductive invariant.  Who holds which locks:                        *)
LocksByKind ==
  \A t \in active :
    /\ Entry(t) =>
         /\ wrote[t] \subseteq Move
         /\ wrote[t] # {} => Company \in shared[t]
    /\ Running(t, {"close", "reopen"}) =>
         /\ wrote[t] \subseteq Period \cup {Company}
         /\ wrote[t] # {} => Company \in wrote[t]
         /\ shared[t] = {}
    /\ Running(t, {"maintain"}) =>
         /\ wrote[t] \subseteq Period
         /\ shared[t] = {}

(* A request whose snapshot saw the last revision of the company row knows *)
(* which periods are closed, and their dates.                              *)
ClosedPeriodsKnown ==
  \A t \in active, p \in Period :
    /\ Company \notin missed[t]
    /\ p \notin wrote[t]
    /\ ClosedIn(view[t], p) \/ ClosedIn(db, p)
    => view[t][p] = db[p]

Unfrozen(row) ==
  row # Absent => \A p \in Period : ClosedIn(db, p) => ~Covers(db[p], row.date)

(* What a request is about to commit was decided on rows that still hold.  *)
PendingEntries ==
  \A t \in active, m \in Move :
    m \in wrote[t] =>
      /\ Unfrozen(db[m])
      /\ Unfrozen(view[t][m])
      /\ db[m] # Absent => db[m].state # "posted"

PendingPeriods ==
  \A t \in active, p \in Period :
    p \in wrote[t] =>
      /\ request[t] = "close" =>
           /\ db[p] # Absent
           /\ db[p].state = "open"
           /\ view[t][p] = [db[p] EXCEPT !.state = "closed"]
           /\ ~DraftIn(db, db[p])
      /\ request[t] = "reopen" =>
           /\ ClosedIn(db, p)
           /\ view[t][p] = [db[p] EXCEPT !.state = "open"]
      /\ request[t] = "maintain" => ~ClosedIn(db, p) /\ ~ClosedIn(view[t], p)

(* The invariant that the proofs carry through every step.                 *)
IInv ==
  /\ TypeOK
  /\ SnapshotInv
  /\ LocksByKind
  /\ ClosedPeriodsKnown
  /\ PendingEntries
  /\ PendingPeriods
  /\ NoDraftInClosedPeriod
===============================================================================
