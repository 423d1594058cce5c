---------------------------- MODULE LedgerReports ----------------------------
(***************************************************************************)
(* What the reports read from the books: financial statements and cash     *)
(* flow (financial_report.py), the sources behind the trial balance's      *)
(* figures (trial_balance.py), the tax summary (report_completion.py) and  *)
(* the monthly review of a bank account (monthly_reconciliation.py).       *)
(*                                                                         *)
(* A move is [id, day, state, closing, reverses, lines], closing being     *)
(* whether a year-end close made it; its lines are a sequence of           *)
(* [account, amount], debits positive, in whole cents of one currency.     *)
(* One company: every search is per company.                               *)
(***************************************************************************)
EXTENDS Integers, Sequences, FiniteSets, FiniteSetsExt, Functions

CONSTANTS
  Account,
  GroupOf,     \* asset, liability, equity, income, expense or off, per account
  Cash,        \* the cash accounts and those counted as cash equivalents
  CategoryOf,  \* the cash flow category of an account, or NoCategory
  Earnings,    \* the account of unaffected earnings
  NoCategory

Category == {"operating", "investing", "financing"}
Result == {"income", "expense"}

-----------------------------------------------------------------------------
(* Who may run reports. *)

MayReport(user) ==
  "encoder" \in user.roles => user.roles \cap {"accountant", "administrator"} # {}

MayReview(user) ==
  user.roles \cap {"readonly", "accountant", "administrator"} # {} /\ MayReport(user)

Runs(user, company) == MayReport(user) /\ company \in user.companies

Reviews(user, company) == MayReview(user) /\ company \in user.companies

-----------------------------------------------------------------------------
(* A report is [type, from, to, compare, all]: compare is the sequence of  *)
(* no or one pair of dates, all whether drafts count.                      *)
DatesAllowed(w) ==
  /\ w.from <= w.to
  /\ \A i \in DOMAIN w.compare : w.compare[i].from <= w.compare[i].to

ReportAllowed(user, company, w) == Runs(user, company) /\ DatesAllowed(w)

Counts(w, m) == IF w.all THEN m.state # "cancel" ELSE m.state = "posted"

InClosing(moves, m) ==
  m.closing \/ \E c \in moves : c.closing /\ m.reverses = c.id

UpTo(moves, w, day) == {m \in moves : m.day <= day /\ Counts(w, m)}

MovesWithin(moves, w) ==
  {m \in UpTo(moves, w, w.to) :
     m.day >= w.from /\ (w.type = "profit_loss" => ~InClosing(moves, m))}

MoveSum(m, accounts) ==
  SumFunctionOnSet([i \in DOMAIN m.lines |-> m.lines[i].amount],
                   {i \in DOMAIN m.lines : m.lines[i].account \in accounts})

Total(moves, accounts) == MapThenSumSet(LAMBDA m : MoveSum(m, accounts), moves)

Of(groups) == {a \in Account : GroupOf[a] \in groups}

BalanceSheet(moves, w) ==
  LET shown == UpTo(moves, w, w.to)
      assets == Total(shown, Of({"asset"}))
      liabilities == -Total(shown, Of({"liability"}))
      equity == -Total(shown, Of({"equity"}))
      earnings == -Total(shown, Of(Result)) IN
  [assets |-> assets, liabilities |-> liabilities, equity |-> equity, earnings |-> earnings,
   check |-> assets - (liabilities + equity + earnings)]

ProfitLoss(moves, w) ==
  LET shown == MovesWithin(moves, w)
      income == -Total(shown, Of({"income"}))
      expenses == Total(shown, Of({"expense"})) IN
  [income |-> income, expenses |-> expenses, net |-> income - expenses]

-----------------------------------------------------------------------------
(* The cash flow of a move: what a reviewer allocated to the categories,   *)
(* if that adds up to its cash, or the one category of its counterparts.   *)
Offsets(m) ==
  {i \in DOMAIN m.lines : m.lines[i].account \notin Cash /\ m.lines[i].amount # 0}

CategoryOfMove(m) ==
  LET found == {CategoryOf[m.lines[i].account] : i \in Offsets(m)} IN
  IF Cardinality(found) = 1 /\ NoCategory \notin found
  THEN CHOOSE k \in found : TRUE ELSE "unclassified"

Allocated(rows, kinds) ==
  SumFunctionOnSet([i \in DOMAIN rows |-> rows[i].amount],
                   {i \in DOMAIN rows : rows[i].category \in kinds})

AllocationFits(m, rows) == Allocated(rows, Category) = MoveSum(m, Cash)

\* The rows of a move under one category, and whether it has to be reviewed.
FlowOf(m, rows, k) ==
  IF rows # <<>> /\ AllocationFits(m, rows) THEN Allocated(rows, {k})
  ELSE IF k = (IF rows # <<>> THEN "unclassified" ELSE CategoryOfMove(m))
       THEN MoveSum(m, Cash) ELSE 0

ToReview(m, rows) ==
  IF rows # <<>> THEN ~AllocationFits(m, rows)
  ELSE IF MoveSum(m, Cash) = 0 THEN Offsets(m) # {}
       ELSE CategoryOfMove(m) = "unclassified"

CashFlow(moves, allocations, w) ==
  LET touching == {m \in MovesWithin(moves, w) :
                     \E i \in DOMAIN m.lines : m.lines[i].account \in Cash}
      flow == [k \in Category \cup {"unclassified"} |->
                 MapThenSumSet(LAMBDA m : FlowOf(m, allocations[m.id], k), touching)]
      opening == Total(UpTo(moves, w, w.from - 1), Cash)
      closing == Total(UpTo(moves, w, w.to), Cash) IN
  [flow |-> flow, opening |-> opening, closing |-> closing,
   difference |-> closing - opening - SumFunction(flow),
   complete |-> \A m \in touching : ~ToReview(m, allocations[m.id])]

(* A report and its comparison, which is the same report of other dates.   *)
ReportDates(w) == <<[from |-> w.from, to |-> w.to]>> \o w.compare

ReportData(moves, allocations, w) ==
  [i \in DOMAIN ReportDates(w) |->
     LET v == [w EXCEPT !.from = ReportDates(w)[i].from, !.to = ReportDates(w)[i].to] IN
     CASE w.type = "balance_sheet" -> BalanceSheet(moves, v)
       [] w.type = "profit_loss" -> ProfitLoss(moves, v)
       [] w.type = "cash_flow" -> CashFlow(moves, allocations, v)]

-----------------------------------------------------------------------------
(* The trial balance.  A line of the ledger is [account, partner, day, ...];*)
(* the fiscal year's first day is that of the report's own start.  A figure *)
(* of the report links to its sources: the lines its domain finds.          *)
ResultAccount(a) == GroupOf[a] \in Result

OpeningLines(lines, from, year) ==
  {l \in lines : l.day < from /\ (ResultAccount(l.account) => l.day >= year)}

ActivityLines(lines, from, to) == {l \in lines : from <= l.day /\ l.day <= to}

CarriedProfit(lines, year) == {l \in lines : ResultAccount(l.account) /\ l.day < year}

\* The figure `metric' of the row of the accounts `selected'; filtered says
\* whether the report was asked for some accounts only.
Sources(lines, from, to, year, filtered, metric, selected) ==
  LET own(S) == {l \in S : l.account \in selected}
      initial == own(OpeningLines(lines, from, year)) \cup
                 (IF ~filtered /\ Earnings \in selected THEN CarriedProfit(lines, year) ELSE {})
      activity == own(ActivityLines(lines, from, to)) IN
  CASE metric = "initial" -> initial
    [] metric = "ending" -> initial \cup activity
    [] metric = "activity" -> activity

-----------------------------------------------------------------------------
(* The tax summary.  A tax line is [move, refund, day, tax, amount, base];  *)
(* a tax is [kind, use].  Lines of one document and tax are one row, whose  *)
(* base is counted once.                                                    *)
TaxLines(lines, from, to) == {l \in lines : l.posted /\ from <= l.day /\ l.day <= to}

Unclassified(lines) == {l \in lines : l.tax.kind = "none"}

TaxRow(lines, key) ==
  LET own == {l \in lines : <<l.move, l.tax>> = key}
      sign == IF key[2].use = "sale" THEN -1 ELSE 1
      size(l) == IF l.base < 0 THEN -l.base ELSE l.base IN
  [tax |-> sign * MapThenSumSet(LAMBDA l : l.amount, own),
   base |-> (IF \E l \in own : l.refund THEN -1 ELSE 1) * Max({size(l) : l \in own})]

TaxSummary(lines, kind, from, to) ==
  LET shown == {l \in TaxLines(lines, from, to) : l.tax.kind = kind}
      keys == {<<l.move, l.tax>> : l \in shown} IN
  [rows |-> [key \in keys |-> TaxRow(shown, key)],
   total |-> MapThenSumSet(LAMBDA key : TaxRow(shown, key).tax, keys),
   complete |-> Unclassified(TaxLines(lines, from, to)) = {}]

-----------------------------------------------------------------------------
(* The monthly review of a bank account against a reconciliation, a record  *)
(* [from, to, opening, closing, ledger, deposits, payments, evidence, rules,*)
(* state].  Its statement lines are `linked', each [day, amount, posted,    *)
(* matched]; others of the journal and month are `other'.  The posted       *)
(* ledger of the account is a set of [day, amount, id].                     *)
Amounts(S) == MapThenSumSet(LAMBDA l : l.amount, S)

\* _posted_ledger_balance of the reconciliation itself.
PostedBalance(ledger, rec) == Amounts({l \in ledger : l.day <= rec.to})

MonthLedger(ledger, rec) ==
  LET opening == Amounts({l \in ledger : l.day < rec.from})
      month == {l \in ledger : rec.from <= l.day /\ l.day <= rec.to} IN
  [opening |-> opening, closing |-> opening + Amounts(month)]

Expected(balance, rec) == balance - rec.deposits + rec.payments

Difference(balance, rec) == rec.closing - Expected(balance, rec)

Unmatched(linked) == {l \in linked : ~l.posted \/ ~l.matched}

LinesOfMonth(linked, rec) == \A l \in linked : rec.from <= l.day /\ l.day <= rec.to

ReviewAllowed(user, company, linked, rec) ==
  Reviews(user, company) /\ LinesOfMonth(linked, rec)

Warnings(ledger, linked, other, rec) ==
  LET closing == MonthLedger(ledger, rec).closing
      name(c, text) == IF c THEN {text} ELSE {} IN
  UNION {name(linked = {}, "no lines"), name(other # {}, "other lines"),
         name(\E l \in linked : ~l.posted, "unposted"),
         name(rec.closing # rec.opening + Amounts(linked), "activity"),
         name(Difference(closing, rec) # 0, "difference"),
         name(Unmatched(linked) # {}, "unmatched"),
         name(rec.ledger # closing, "ledger changed"),
         name(~rec.evidence, "no evidence")}

\* The conditions of action_reconcile.
MaySignOff(ledger, linked, rec) ==
  /\ rec.state # "reconciled" /\ rec.evidence /\ rec.rules
  /\ \A l \in linked : l.matched
  /\ rec.ledger = PostedBalance(ledger, rec)
  /\ Difference(rec.ledger, rec) = 0
=============================================================================
