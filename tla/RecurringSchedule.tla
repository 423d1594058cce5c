--------------------------- MODULE RecurringSchedule ---------------------------
(***************************************************************************)
(* The calendar of recurring journals and invoices and the document one    *)
(* scheduled date asks for (recurring_journal.py, recurring_invoice.py).   *)
(* RecurringRuns says which dates are run by whom; here is which dates     *)
(* there are.                                                              *)
(*                                                                         *)
(* A date is a month, counted from January 2000, and a day of the month.   *)
(***************************************************************************)
EXTENDS Integers, Sequences, Functions

Leap(year) == year % 4 = 0 /\ (year % 100 # 0 \/ year % 400 = 0)

MonthLength(month) ==
  LET m == month % 12 IN
  IF m = 1 THEN IF Leap(2000 + month \div 12) THEN 29 ELSE 28
  ELSE IF m \in {3, 5, 8, 10} THEN 30 ELSE 31

CalendarDate == {d \in [month : Nat, day : 1 .. 31] : d.day <= MonthLength(d.month)}

NotAfter(a, b) == a.month < b.month \/ (a.month = b.month /\ a.day <= b.day)

Before(a, b) == a.month < b.month \/ (a.month = b.month /\ a.day < b.day)

Latest(a, b) == IF NotAfter(a, b) THEN b ELSE a

DaysBefore[month \in Nat] ==
  IF month = 0 THEN 0 ELSE DaysBefore[month - 1] + MonthLength(month - 1)

Ordinal(d) == DaysBefore[d.month] + d.day

AddDays(d, n) ==
  LET o == Ordinal(d) + n
      m == CHOOSE m \in d.month .. d.month + n :
             DaysBefore[m] < o /\ o <= DaysBefore[m] + MonthLength(m) IN
  [month |-> m, day |-> o - DaysBefore[m]]

-----------------------------------------------------------------------------
(* start is date_start: a monthly or yearly schedule keeps its day, in a   *)
(* shorter month the last one.                                             *)
Schedule == [start : CalendarDate, number : Nat \ {0},
             unit : {"days", "weeks", "months", "years"}]

Clamped(month, day) ==
  [month |-> month, day |-> IF day <= MonthLength(month) THEN day ELSE MonthLength(month)]

(* _next_date.                                                             *)
NextDate(s, date) ==
  IF s.unit = "days" THEN AddDays(date, s.number)
  ELSE IF s.unit = "weeks" THEN AddDays(date, 7 * s.number)
  ELSE IF s.unit = "months" THEN Clamped(date.month + s.number, s.start.day)
  ELSE Clamped(date.month + 12 * s.number, s.start.day)

(* What a run of one date leaves in last_run and next_run.                 *)
AfterRun(s, row, date) ==
  [last |-> IF row.last = <<>> THEN date ELSE Latest(row.last, date),
   next |-> Latest(row.next, NextDate(s, date))]

(* "Run now" refuses while scheduled dates are overdue.                    *)
RunNowAllowed(row, today) == NotAfter(today, row.next)

-----------------------------------------------------------------------------
(* A definition: a journal entry with debits and credits, or an invoice or *)
(* a bill whose lines have a quantity, a price and the uses of its taxes.  *)
EntryLine(Account) == [account : Account, debit : Int, credit : Int]
InvoiceLine(Account) ==
  [account : Account, quantity : Int, price : Int,
   taxes : SUBSET {"sale", "purchase", "none"}]

ExpectedUse(kind) == IF kind = "out_invoice" THEN "sale" ELSE "purchase"

EntryLineAccepted(line) ==
  line.debit >= 0 /\ line.credit >= 0 /\ (line.debit = 0 \/ line.credit = 0)

InvoiceLineAccepted(line) == line.quantity > 0 /\ line.price >= 0

TaxesAccepted(def) ==
  \A i \in DOMAIN def.lines : def.lines[i].taxes \subseteq {ExpectedUse(def.kind)}

EntryBalanced(lines) ==
  SumFunction([i \in DOMAIN lines |-> lines[i].debit])
    = SumFunction([i \in DOMAIN lines |-> lines[i].credit])

(* What can be saved through the form of the definition.                   *)
DefinitionAccepted(def) ==
  /\ def.schedule.number > 0
  /\ IF def.kind = "entry"
     THEN /\ \A i \in DOMAIN def.lines : EntryLineAccepted(def.lines[i])
          /\ def.lines # <<>> => EntryBalanced(def.lines)
     ELSE /\ \A i \in DOMAIN def.lines : InvoiceLineAccepted(def.lines[i])
          /\ TaxesAccepted(def) /\ def.journal = ExpectedUse(def.kind)

(* Diagnostics of the daily job are the job's own; actors that may run.    *)
SaveAllowed(names, isJob) ==
  names \cap {"last_cron_error", "last_cron_error_at"} # {} => isJob

RunAccess(actor) == actor.system \/ actor.groups \cap {"accountant", "administrator"} # {}

(* A run looks at the lines again: they are records of their own, and the  *)
(* use of a tax may have changed since.                                    *)
Preparable(def) ==
  /\ def.lines # <<>>
  /\ IF def.kind = "entry" THEN EntryBalanced(def.lines) ELSE TaxesAccepted(def)

Prepared(def, date) ==
  [kind |-> def.kind, journal |-> def.journal, date |-> date, of |-> def.id,
   lines |-> [i \in DOMAIN def.lines |->
                IF def.kind = "entry"
                THEN [account |-> def.lines[i].account, debit |-> def.lines[i].debit,
                      credit |-> def.lines[i].credit]
                ELSE [account |-> def.lines[i].account, quantity |-> def.lines[i].quantity,
                      price |-> def.lines[i].price, taxes |-> def.lines[i].taxes]]]

(* The document _run_one finds for its date is of this definition's kind   *)
(* and company and posted, or the run is refused.                          *)
Reusable(def, doc) ==
  /\ doc.company = def.company /\ doc.kind = def.kind /\ doc.state = "posted"

-----------------------------------------------------------------------------
(* The dates of a monthly or yearly schedule, by their number.             *)
Monthly(s) == s.unit \in {"months", "years"}

Step(s) == IF s.unit = "months" THEN s.number ELSE 12 * s.number

KthDate(s, k) == Clamped(s.start.month + k * Step(s), s.start.day)

(* Catching up from the start, date after date.                            *)
Dates(s, n) ==
  LET date[k \in 0 .. n] == IF k = 0 THEN s.start ELSE NextDate(s, date[k - 1]) IN date

(* The catch-up runs exactly the dates of the schedule: the anchored ones, *)
(* or dates a fixed number of days apart.                                  *)
ScheduleKept(s, n) ==
  LET dates == Dates(s, n)
      days == (IF s.unit = "weeks" THEN 7 ELSE 1) * s.number IN
  \A k \in 0 .. n :
    /\ dates[k] \in [month : Nat, day : 1 .. MonthLength(dates[k].month)]
    /\ IF Monthly(s) THEN dates[k] = KthDate(s, k)
       ELSE Ordinal(dates[k]) = Ordinal(s.start) + k * days
===============================================================================
