---------------------------- MODULE YearEndClose ----------------------------
(***************************************************************************)
(* Year-end closes (year_end_close.py) on the documents of DocumentSeries: *)
(* a close takes the posted income and expense up to its date, in the view *)
(* of its request, and posts an entry that transfers it to retained        *)
(* earnings.  One request may post several closes, one after the other in  *)
(* any order of their dates.  A close that was posted in error is corrected*)
(* by reversing its entry and cancelling it, which frees its date for      *)
(* another.                                                                *)
(*                                                                         *)
(* A close locks its own row and nothing else, so what other requests post *)
(* between its snapshot and its commit stays untransferred; and what the   *)
(* request itself transfers later from an earlier date is transferred twice*)
(* over.                                                                   *)
(***************************************************************************)
EXTENDS DocumentSeries

CONSTANTS
  Close,    \* year-end closes
  NoMove    \* a close without an entry

ASSUME CloseRowAssumption ==
  /\ Close \subseteq Row
  /\ Close \cap (Document \cup {Journal, Counter}) = {}
  /\ NoMove \notin Document

CloseRow == [state : {"draft", "posted", "cancelled"}, date : Date,
             move : Document \cup {NoMove}]

ASSUME CloseAbsentAssumption == Absent \notin CloseRow

VARIABLE reverses   \* the entry each reversal undoes, itself otherwise

closeVars == <<seriesVars, reverses>>

CloseInit ==
  /\ SeriesInit
  /\ reverses = [m \in Document |-> m]

TotalOf(rows, moves) ==
  FoldFunctionOnSet(+, 0, [m \in Document |-> IF m \in moves THEN rows[m].pl ELSE 0],
                    moves)

(* Mutant: everything posted is summed, whatever its date.                 *)
BalanceOfAllDates(rows, date) == TotalOf(rows, PostedIn(rows))

(* _profit_and_loss_lines: income and expense posted up to the date.       *)
Balance(rows, date) ==
  TotalOf(rows, {m \in PostedIn(rows) : rows[m].date <= date})

Live(row) == row # Absent /\ row.state # "cancelled"

Reversed(rows, m) ==
  \E r \in PostedIn(rows) : rows[r].kind = "reversal" /\ reverses[r] = m

(* The exclusion constraint on the company and date of live closes.        *)
DateFree(c, date) ==
  \A d \in Close \ {c} : Live(db[d]) => db[d].date # date

-----------------------------------------------------------------------------
CreateClose(t, c, date) ==
  /\ t \in active /\ ~Exists(t, c)
  /\ DateFree(c, date)
  /\ Serve(t, [r \in {c} |-> [state |-> "draft", date |-> date, move |-> NoMove]])
  /\ UNCHANGED reverses

WriteClose(t, c, date) ==
  /\ t \in active /\ Exists(t, c) /\ view[t][c].state = "draft"
  /\ DateFree(c, date)
  /\ Serve(t, [r \in {c} |-> [view[t][c] EXCEPT !.date = date]])
  /\ UNCHANGED reverses

(* action_post, one close of those it was called on: the entry m is        *)
(* created, posted and linked; the request goes on to another or commits.  *)
PostsCloses(t) == wrote[t] \cap Close # {}

PostClose(t, c, m) ==
  LET date == view[t][c].date IN
  /\ t \in active /\ (t \in busy => PostsCloses(t))
  /\ Exists(t, c) /\ view[t][c].state = "draft"
  /\ Balance(view[t], date) # 0
  /\ ~Exists(t, m) /\ MayNumber(t)
  /\ PutAll(t, [r \in {m, c} |->
                  IF r = m THEN Numbered(t, "closing", date, -Balance(view[t], date))
                  ELSE [view[t][c] EXCEPT !.state = "posted", !.move = m]])
  /\ busy' = busy \cup {t}
  /\ UNCHANGED <<db, active, shared, missed, reverses>>

(* Native reversal of the entry of a close, posted at once on its date.    *)
Reverse(t, m, r) ==
  /\ t \in active /\ Exists(t, m) /\ view[t][m].kind = "closing"
  /\ ~Exists(t, r) /\ MayNumber(t)
  /\ Serve(t, [d \in {r} |-> Numbered(t, "reversal", view[t][m].date, -view[t][m].pl)])
  /\ reverses' = [reverses EXCEPT ![r] = m]

(* Mutant: a posted close is cancelled without looking for the reversal.   *)
CancelCloseUnreversed(t, c) ==
  /\ t \in active /\ Exists(t, c)
  /\ view[t][c].state \in {"draft", "posted"}
  /\ Serve(t, [r \in {c} |-> [view[t][c] EXCEPT !.state = "cancelled"]])
  /\ UNCHANGED reverses

CancelClose(t, c) ==
  /\ t \in active /\ Exists(t, c)
  /\ view[t][c].state \in {"draft", "posted"}
  /\ view[t][c].state = "posted" => Reversed(view[t], view[t][c].move)
  /\ Serve(t, [r \in {c} |-> [view[t][c] EXCEPT !.state = "cancelled"]])
  /\ UNCHANGED reverses

UnlinkClose(t, c) ==
  /\ t \in active /\ Exists(t, c)
  /\ view[t][c].state # "posted" /\ view[t][c].move = NoMove
  /\ Serve(t, [r \in {c} |-> Absent])
  /\ UNCHANGED reverses

CloseStep(t) ==
  \E c \in Close :
    \/ \E date \in Date : CreateClose(t, c, date) \/ WriteClose(t, c, date)
    \/ \E m \in Document : PostClose(t, c, m)
    \/ CancelClose(t, c)
    \/ UnlinkClose(t, c)

CloseNext ==
  \E t \in Txn :
    \/ SeriesStep(t) /\ (PostsCloses(t) => t \notin active') /\ UNCHANGED reverses
    \/ CloseStep(t)
    \/ \E m, r \in Document : Reverse(t, m, r)

CloseSpec == CloseInit /\ [][CloseNext]_closeVars

-----------------------------------------------------------------------------
CloseTypeOK == \A c \in Close : db[c] \in CloseRow \cup {Absent}

(* The profit of a date is transferred once: of two closes that posted an  *)
(* entry for the same date, the entry of one at least has been reversed,   *)
(* whatever was edited, cancelled and closed again at the same time.       *)
OneTransferPerDate ==
  /\ CloseTypeOK
  /\ \A c, d \in Close :
       /\ c # d /\ db[c] # Absent /\ db[d] # Absent
       /\ db[c].move # NoMove /\ db[d].move # NoMove
       /\ db[c].date = db[d].date
       => Reversed(db, db[c].move) \/ Reversed(db, db[d].move)

(* When a close commits, the income and expense up to its date that are not*)
(* transferred are those its request could not see when it posted it: what *)
(* others committed since its snapshot, and its own closes of other dates  *)
(* after this one.  All else, whatever was closed, reversed or drafted     *)
(* before, adds up to nothing.                                             *)
Closes(t, c) ==
  /\ t \in active /\ t \notin active' /\ c \in wrote[t]
  /\ db[c] # Absent /\ db[c].state = "draft"
  /\ db'[c] # Absent /\ db'[c].state = "posted"

PostedAfter(rows, t, c) ==
  {m \in wrote[t] \cap PostedIn(rows) : rows[m].no > rows[rows[c].move].no}

CloseLeavesNothing ==
  [][\A t \in Txn, c \in Close :
       Closes(t, c) =>
         LET others == missed[t] \ PostedIn(view[t])
             unseen == others \cup PostedAfter(db', t, c) IN
         TotalOf(db', {m \in PostedIn(db') \ unseen : db'[m].date <= db'[c].date}) = 0]_closeVars
===============================================================================
