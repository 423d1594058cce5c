----------------------------- MODULE BankSignOff -----------------------------
(***************************************************************************)
(* The manual bank reconciliation (bank_reconciliation.py), the statement  *)
(* lines attached to it (bank_statement_line.py) and the matching of those *)
(* lines with open items (statement_matching.py), for one bank journal.    *)
(*                                                                         *)
(* Requests are transactions of SnapshotDB, every one of them a single     *)
(* operation.  Each statement line carries an amount of one and stands for *)
(* its posted bank entry too, so the posted ledger balance is the number   *)
(* of lines.  A match posts an adjusting entry of two sides: one settles   *)
(* an open item, the other clears the suspense of the line's own entry.    *)
(* What it paired can be undone and paired otherwise natively, side by     *)
(* side (reconciliation.py); a reversal's own sides pair only with the     *)
(* entry it reverses.  Outstanding deposits and payments are part of the   *)
(* figure the statement leads one to expect.  Dates, roles and the period  *)
(* check of the entries (PeriodControl) are left out: a request they       *)
(* refuse is an Abort.                                                     *)
(***************************************************************************)
EXTENDS Integers, FiniteSets, SnapshotDB

CONSTANTS
  Rec,        \* bank reconciliations
  Line,       \* bank statement lines
  Item,       \* open items: posted reconcilable journal items
  Adjustment,      \* adjusting entries of matches
  Capacity,   \* how many allocations an item has room for; other payments leave less
  Figure,     \* what users enter as the statement's balance
  None,       \* no reconciliation, no entry, nothing paired
  Reversal,    \* the reversal of the entry
  Other,      \* an entry that belongs to no match
  OneCommit   \* a bound: at most one commits while another is in progress

ASSUME RowAssumption ==
  /\ Row = Rec \cup Line \cup Item \cup Adjustment
  /\ Rec \cap Line = {} /\ Rec \cap Item = {} /\ Rec \cap Adjustment = {}
  /\ Line \cap Item = {} /\ Line \cap Adjustment = {} /\ Item \cap Adjustment = {}
ASSUME FiniteAssumption == IsFiniteSet(Line) /\ IsFiniteSet(Adjustment)
ASSUME BalanceAssumption == Capacity \in Nat /\ Figure \subseteq Nat
ASSUME BoundAssumption == OneCommit \in BOOLEAN
ASSUME NoneAssumption ==
  /\ None \notin Row /\ Reversal \notin Row /\ Other \notin Row
  /\ None # Reversal /\ None # Other

RecRow == [state : {"draft", "reconciled", "reopened"},
           statement : Figure, ledger : Nat]

(* The recorded match, and what the line's suspense is paired with.        *)
LineRow == [rec : Rec \cup {None}, match : Adjustment \cup {None},
            cleared : Adjustment \cup {None, Other}]

(* The line an entry was posted for, and what its two sides are paired     *)
(* with; the row of an item is the set of what it is paired with.          *)
AdjustmentRow == [line : Line, settles : Item \cup {None, Reversal},
             clears : Line \cup {None, Reversal}, reversed : BOOLEAN]

ASSUME AbsentAssumption == Absent \notin RecRow \cup LineRow \cup AdjustmentRow

vars == dbVars

Init == DBInitWith([r \in Row |-> IF r \in Item THEN {} ELSE Absent])

-----------------------------------------------------------------------------
Existing(rows, S) == {r \in S : rows[r] # Absent}

LinesOf(rows, r) == {l \in Existing(rows, Line) : rows[l].rec = r}

(* _posted_ledger_balance.                                                 *)
Ledger(rows) == Cardinality(Existing(rows, Line))

SignedOff(rows, r) ==
  r # None /\ rows[r] # Absent /\ rows[r].state = "reconciled"

IsReconciled(rows, l) == rows[l].cleared # None

(* A bound of the model: see OneCommit.                                    *)
InBound(t) == OneCommit => \A u \in active \ {t} : missed[u] = {}

One(r, value) == [x \in {r} |-> value]

-----------------------------------------------------------------------------
(* The reconciliation.                                                     *)
CreateRec(t, r, figure) ==
  /\ t \in active /\ ~Exists(t, r)
  /\ CommitWith(t, One(r, [state |-> "draft", statement |-> figure, ledger |-> 0]))

(* Mutant: a signed-off reconciliation may be edited.                      *)
WriteRecAnyState(t, r, figure) ==
  /\ t \in active /\ Exists(t, r)
  /\ CommitWith(t, One(r, [view[t][r] EXCEPT !.statement = figure]))

WriteRec(t, r, figure) ==
  /\ t \in active /\ Exists(t, r) /\ ~SignedOff(view[t], r)
  /\ CommitWith(t, One(r, [view[t][r] EXCEPT !.statement = figure]))

ComputeLedger(t, r) ==
  /\ t \in active /\ Exists(t, r) /\ ~SignedOff(view[t], r)
  /\ CommitWith(t, One(r, [view[t][r] EXCEPT !.ledger = Ledger(view[t])]))

(* Mutant: the stored ledger balance is taken for granted.                 *)
ReconcileStored(t, r) ==
  /\ t \in active /\ Exists(t, r) /\ ~SignedOff(view[t], r)
  /\ \A l \in LinesOf(view[t], r) : IsReconciled(view[t], l)
  /\ view[t][r].statement = view[t][r].ledger
  /\ CommitWith(t, One(r, [view[t][r] EXCEPT !.state = "reconciled"]))

(* action_reconcile: the lines, the ledger and the difference are checked  *)
(* in the snapshot; only the reconciliation itself is written.             *)
Reconcile(t, r) ==
  /\ t \in active /\ Exists(t, r) /\ ~SignedOff(view[t], r)
  /\ \A l \in LinesOf(view[t], r) : IsReconciled(view[t], l)
  /\ view[t][r].ledger = Ledger(view[t])
  /\ view[t][r].statement = view[t][r].ledger
  /\ CommitWith(t, One(r, [view[t][r] EXCEPT !.state = "reconciled"]))

Reopen(t, r) ==
  /\ t \in active /\ SignedOff(view[t], r)
  /\ CommitWith(t, One(r, [view[t][r] EXCEPT !.state = "reopened"]))

-----------------------------------------------------------------------------
(* The statement lines.  Their guards read the reconciliation, but nothing *)
(* locks it.                                                               *)
CreateLine(t, l, r) ==
  /\ t \in active /\ ~Exists(t, l)
  /\ r # None => Exists(t, r)
  /\ ~SignedOff(view[t], r)
  /\ CommitWith(t, One(l, [rec |-> r, match |-> None, cleared |-> None]))

(* Mutant: only the reconciliation the line leaves is looked at.           *)
AttachLineAnywhere(t, l, r) ==
  /\ t \in active /\ Exists(t, l)
  /\ r # None => Exists(t, r)
  /\ ~SignedOff(view[t], view[t][l].rec)
  /\ CommitWith(t, One(l, [view[t][l] EXCEPT !.rec = r]))

(* write of thirdcode_reconciliation_id: attach, move or detach a line.    *)
AttachLine(t, l, r) ==
  /\ t \in active /\ Exists(t, l)
  /\ r # None => Exists(t, r)
  /\ ~SignedOff(view[t], view[t][l].rec) /\ ~SignedOff(view[t], r)
  /\ CommitWith(t, One(l, [view[t][l] EXCEPT !.rec = r]))

-----------------------------------------------------------------------------
(* Matching.                                                               *)
HasRoom(t, i) == Cardinality(view[t][i]) < Capacity

(* The entry is posted and paired with the item and the line.              *)
Allocate(t, l, e, i) ==
  CommitWith(t, [r \in {l, e, i} |->
    IF r = l THEN [view[t][l] EXCEPT !.match = e, !.cleared = e]
    ELSE IF r = e THEN [line |-> l, settles |-> i, clears |-> l, reversed |-> FALSE]
    ELSE view[t][i] \cup {e}])

(* The match is written through the line's own write, hence the last guard.*)
MayMatch(t, l, e, i) ==
  /\ t \in active /\ Exists(t, l) /\ ~Exists(t, e)
  /\ ~IsReconciled(view[t], l)
  /\ HasRoom(t, i)
  /\ ~SignedOff(view[t], view[t][l].rec)

(* Mutant: a line that is open again is matched again.                     *)
MatchAgain(t, l, e, i) == MayMatch(t, l, e, i) /\ Allocate(t, l, e, i)

(* action_match_thirdcode_items.  A repeated request with the same         *)
(* allocation only returns the recorded match, which changes nothing; one  *)
(* that was undone natively has to be reversed before the next.            *)
Match(t, l, e, i) ==
  /\ MayMatch(t, l, e, i)
  /\ view[t][l].match # None => view[t][view[t][l].match].reversed
  /\ Allocate(t, l, e, i)

(* The rows when adjustment e becomes entry, and what that one is no longer*)
(* paired with is open again.                                              *)
Unpaired(t, e, entry) ==
  LET old == view[t][e] IN
  [r \in {e} \cup ({old.settles} \cap (Item \ {entry.settles}))
         \cup ({old.clears} \cap (Line \ {entry.clears})) |->
     IF r = e THEN entry
     ELSE IF r \in Item THEN view[t][r] \ {e}
     ELSE [view[t][r] EXCEPT !.cleared = None]]

(* action_reverse_thirdcode_match: the line is locked, the adjusting entry *)
(* loses what it is paired with and is paired with its reversal.  A line   *)
(* that something else clears refuses it.  No field goes through the       *)
(* line's write: the stored status is recomputed.                          *)
ReverseMatch(t, l) ==
  LET e == view[t][l].match IN
  /\ t \in active /\ Exists(t, l)
  /\ e # None /\ ~view[t][e].reversed
  /\ view[t][l].cleared \in {e, None}
  /\ CanWrite(t, l)
  /\ CommitWith(t, Unpaired(t, e, [view[t][e] EXCEPT
       !.settles = Reversal, !.clears = Reversal, !.reversed = TRUE]))

-----------------------------------------------------------------------------
(* What users pair and undo natively, item side and statement side apart,  *)
(* and the native reversal, with or without undoing first what is paired.  *)
UndoSettlement(t, e) ==
  /\ t \in active /\ Exists(t, e) /\ view[t][e].settles # None
  /\ CommitWith(t, Unpaired(t, e, [view[t][e] EXCEPT !.settles = None]))

UndoClearing(t, e) ==
  /\ t \in active /\ Exists(t, e) /\ view[t][e].clears # None
  /\ CommitWith(t, Unpaired(t, e, [view[t][e] EXCEPT !.clears = None]))

SettleNatively(t, e, i) ==
  /\ t \in active /\ Exists(t, e) /\ view[t][e].settles = None
  /\ HasRoom(t, i)
  /\ CommitWith(t, [r \in {e, i} |->
       IF r = e THEN [view[t][e] EXCEPT !.settles = i] ELSE view[t][i] \cup {e}])

ClearNatively(t, e, l) ==
  /\ t \in active /\ Exists(t, e) /\ view[t][e].clears = None
  /\ Exists(t, l) /\ ~IsReconciled(view[t], l)
  /\ CommitWith(t, [r \in {e, l} |->
       IF r = e THEN [view[t][e] EXCEPT !.clears = l]
       ELSE [view[t][l] EXCEPT !.cleared = e]])

ReversedEntry(entry, undone) ==
  LET AsReversed(x) == IF x = None \/ undone THEN Reversal ELSE x IN
  [entry EXCEPT !.settles = AsReversed(@), !.clears = AsReversed(@), !.reversed = TRUE]

ReverseNatively(t, e) ==
  /\ t \in active /\ Exists(t, e) /\ ~view[t][e].reversed
  /\ \E undone \in BOOLEAN :
       CommitWith(t, Unpaired(t, e, ReversedEntry(view[t][e], undone)))

(* Entries of no match clear lines as well.                                *)
PairLine(t, l) ==
  /\ t \in active /\ Exists(t, l)
  /\ \/ /\ view[t][l].cleared = None
        /\ CommitWith(t, One(l, [view[t][l] EXCEPT !.cleared = Other]))
     \/ /\ view[t][l].cleared = Other
        /\ CommitWith(t, One(l, [view[t][l] EXCEPT !.cleared = None]))

-----------------------------------------------------------------------------
RecStep(t, r) ==
  \/ \E figure \in Figure : CreateRec(t, r, figure) \/ WriteRec(t, r, figure)
  \/ ComputeLedger(t, r)
  \/ Reconcile(t, r)
  \/ Reopen(t, r)

LineStep(t, l) ==
  \/ \E r \in Rec \cup {None} : CreateLine(t, l, r) \/ AttachLine(t, l, r)
  \/ \E e \in Adjustment, i \in Item : Match(t, l, e, i)
  \/ ReverseMatch(t, l)
  \/ PairLine(t, l)

AdjustmentStep(t, e) ==
  \/ UndoSettlement(t, e)
  \/ UndoClearing(t, e)
  \/ \E i \in Item : SettleNatively(t, e, i)
  \/ \E l \in Line : ClearNatively(t, e, l)
  \/ ReverseNatively(t, e)

Step(t) ==
  \/ \E r \in Rec : RecStep(t, r)
  \/ \E l \in Line : LineStep(t, l)
  \/ \E e \in Adjustment : AdjustmentStep(t, e)

Next ==
  \E t \in Txn :
    \/ BeginTxn(t)
    \/ InBound(t) /\ Step(t)
    \/ AbortTxn(t)

Spec == Init /\ [][Next]_vars

-----------------------------------------------------------------------------
RowTypeOK(rows) ==
  /\ \A r \in Rec : rows[r] \in RecRow \cup {Absent}
  /\ \A l \in Line : rows[l] \in LineRow \cup {Absent}
  /\ \A e \in Adjustment : rows[e] \in AdjustmentRow \cup {Absent}
  /\ \A i \in Item : rows[i] \subseteq Adjustment /\ Cardinality(rows[i]) <= Capacity

(* The tables are well formed, and no open item is allocated beyond its    *)
(* balance, whichever lines were matched with it at the same time.         *)
TypeOK == RowTypeOK(db) /\ \A t \in active : RowTypeOK(view[t])

(* "This statement already has a recorded match. Reverse the matching      *)
(* adjustment before rematching": an adjusting entry that is not reversed  *)
(* is the recorded match of its line, so that a line never has two, and    *)
(* what an item or a line is paired with knows of it.  Matching, reversing,*)
(* and pairing or undoing either side natively, in any order and by anyone,*)
(* never leave a second live match or half a pairing behind.               *)
OneLiveMatch ==
  /\ TypeOK
  /\ \A e \in Existing(db, Adjustment) :
       ~db[e].reversed => db[db[e].line] # Absent /\ db[db[e].line].match = e
  /\ \A e \in Adjustment, i \in Item : e \in db[i] <=> db[e] # Absent /\ db[e].settles = i
  /\ \A e \in Adjustment, l \in Line :
       db[l] # Absent /\ db[l].cleared = e <=> db[e] # Absent /\ db[e].clears = l

(* "The reconciliation difference must be zero before sign-off" and "a     *)
(* signed-off reconciliation cannot be edited": together, a signed-off     *)
(* reconciliation shows no difference, whatever was edited meanwhile.      *)
SignedOffBalanced ==
  \A r \in Rec : SignedOff(db, r) => db[r].statement = db[r].ledger

(* "The posted bank ledger has changed.  Recompute the ledger balance":    *)
(* the balance a reconciliation is signed off with counts every bank entry *)
(* committed before the signing request began, however long ago it was     *)
(* computed, and there is no difference then or later.                     *)
SignedOffOnCurrentLedger ==
  [][\A r \in Rec : SignedOff(db', r) =>
       /\ db'[r].statement = db'[r].ledger
       /\ ~SignedOff(db, r) =>
            \A t \in active \ active' : db'[r].ledger = Ledger(view[t])]_vars

StaysSignedOff(r) == SignedOff(db, r) /\ SignedOff(db', r)

(* The only line that joins or leaves a signed-off reconciliation is one   *)
(* whose request began before the sign-off was committed: every request    *)
(* that begins later is refused, whatever it moves and between whichever   *)
(* reconciliations.                                                        *)
OnlyOverlappingLinesLate ==
  [][\A r \in Rec, t \in active \ active' :
       StaysSignedOff(r) /\ LinesOf(db', r) # LinesOf(db, r) =>
         r \in missed[t]]_vars
===============================================================================
