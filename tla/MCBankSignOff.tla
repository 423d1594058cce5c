---------------------------- MODULE MCBankSignOff ----------------------------
(* Model-checking instance of BankSignOff, with the reports checked on      *)
(* small books.                                                             *)
EXTENDS BankSignOff, TLC, SequencesExt, FiniteSetsExt

Symmetry == Permutations(Txn) \cup Permutations(Line) \cup Permutations(Adjustment)

-----------------------------------------------------------------------------
MCGroupOf == [a \in {"cash", "loan", "capital", "sales"} |->
  CASE a = "cash" -> "asset" [] a = "loan" -> "liability"
    [] a = "capital" -> "equity" [] a = "sales" -> "income"]

MCCategoryOf == [a \in DOMAIN MCGroupOf |->
  CASE a = "sales" -> "operating" [] a = "loan" -> "financing" [] OTHER -> "none"]

R == INSTANCE LedgerReports WITH
  Account <- DOMAIN MCGroupOf, GroupOf <- MCGroupOf, Cash <- {"cash"},
  CategoryOf <- MCCategoryOf, Earnings <- "capital", NoCategory <- "none"

Days == 1 .. 3

Move(id, day, state, closing, reverses, lines) ==
  [id |-> id, day |-> day, state |-> state, closing |-> closing, reverses |-> reverses,
   lines |-> lines]

Entry(a, b, x) == <<[account |-> a, amount |-> x], [account |-> b, amount |-> -x]>>

\* A sale or a loan, cash or not, and a move of both.
Ordinary ==
  {Entry("cash", "sales", 2), Entry("loan", "sales", 1), Entry("loan", "cash", 2),
   Entry("cash", "sales", 1) \o Entry("cash", "loan", 1),
   Entry("cash", "sales", 1) \o Entry("loan", "cash", 1)}

Accountant == [roles |-> {"encoder", "accountant"}, companies |-> {"c"}]

Asked ==
  {w \in [type : {"profit_loss"}, from : Days, to : Days, all : BOOLEAN,
          compare : {<<>>, <<[from |-> 1, to |-> 2]>>}] :
     R!ReportAllowed(Accountant, "c", w)}

Transfer == Entry("sales", "capital", 1)
Back == Entry("capital", "sales", 1)

\* An ordinary move, a year-end close and its reversal, on any days.
Books ==
  {{Move("m", day, state, FALSE, "-", lines), Move("close", 2, "posted", TRUE, "-", Transfer),
    Move("back", later, after, FALSE, "close", Back)} :
     lines \in Ordinary, state \in {"posted", "draft", "cancel"}, day \in Days,
     later \in Days, after \in {"posted", "draft"}}

Sheet(moves, w, day) ==
  R!ReportData(moves, <<>>, [w EXCEPT !.type = "balance_sheet", !.to = day])[1]

NetWorth(moves, w, day) == Sheet(moves, w, day).equity + Sheet(moves, w, day).earnings

Ties(moves, w) ==
  LET report == R!ReportData(moves, <<>>, w) IN
  \A i \in DOMAIN report : LET dates == R!ReportDates(w)[i] IN
    report[i].net = NetWorth(moves, w, dates.to) - NetWorth(moves, w, dates.from - 1)

\* The balance sheet balances, and a result is what the equity and the earnings
\* of its period grow by, however years are closed and opened again; only a
\* reversal that is reversed itself counts as a result of its own.
ASSUME StatementsTie ==
  /\ \A moves \in Books : \A w \in Asked :
       Sheet(moves, w, w.to).check = 0 /\ Ties(moves, w)
  /\ \E moves \in Books : \E w \in Asked :
       ~Ties(moves \cup {Move("again", 3, "posted", FALSE, "back", Transfer)}, w)

\* The flows of cash add up to the change of cash, whatever was allocated and
\* to whichever moves, and nothing is unclassified in a complete statement.
Allocations ==
  SeqOf([category : {"operating", "financing"}, amount : {-1, 1, 2}], 2)

ASSUME CashReconciles ==
  \A lines \in Ordinary, rows \in Allocations, day \in Days :
    \A w \in Asked :
      LET moves == {Move("m", day, "posted", FALSE, "-", lines),
                    Move("n", 2, "draft", FALSE, "-", Entry("cash", "capital", 1))}
          report == R!CashFlow(moves, [id \in {"m", "n"} |-> IF id = "m" THEN rows ELSE <<>>],
                               [w EXCEPT !.type = "cash_flow"]) IN
      /\ report.difference = 0
      /\ report.complete => report.flow["unclassified"] = 0

-----------------------------------------------------------------------------
Pairs(S) == {{a, b} : a, b \in S}

TaxLine ==
  [move : {"invoice"}, refund : {FALSE}, posted : BOOLEAN, day : {1}, part : {1, 2},
   tax : [kind : {"vat", "none"}, use : {"sale", "purchase"}], amount : {-2, 1}, base : {-3, 3}]

Refund(l) ==
  [l EXCEPT !.move = "refund", !.refund = TRUE, !.amount = -l.amount, !.base = -l.base]

\* A document and its refund leave no tax and no base in the summary, however
\* many lines its taxes were split into; and a complete one left none out.
ASSUME RefundsCancel ==
  \A lines \in Pairs(TaxLine) :
    LET summary == R!TaxSummary(lines \cup {Refund(l) : l \in lines}, "vat", 1, 1)
        keys == DOMAIN summary.rows IN
    /\ summary.total = 0
    /\ MapThenSumSet(LAMBDA key : summary.rows[key].base, keys) = 0
    /\ summary.complete =>
         \A l \in lines : l.posted => <<l.move, l.tax>> \in keys

-----------------------------------------------------------------------------
Statement ==
  [from : {2}, to : {3}, opening : {0, 1}, closing : 0 .. 2, ledger : 0 .. 2,
   deposits : {0, 1}, payments : {0}, evidence : BOOLEAN, rules : {TRUE},
   state : {"draft", "reconciled"}]

MonthLine == [day : {2, 4}, amount : {1}, posted : BOOLEAN, matched : BOOLEAN]

\* A month whose review warns of nothing can be signed off, unless it is; and
\* one that can be warns of nothing but its coverage.
ASSUME ReviewAgrees ==
  \A rec \in Statement, linked \in {{}} \cup Pairs(MonthLine) :
    \A days \in SUBSET (1 .. 4) : \A other \in {{}, {"o"}} :
      LET ledger == {[day |-> d, amount |-> 1, id |-> d] : d \in days}
          warnings == R!Warnings(ledger, linked, other, rec) IN
      R!ReviewAllowed(Accountant, "c", linked, rec) =>
      /\ warnings = {} /\ rec.state # "reconciled" => R!MaySignOff(ledger, linked, rec)
      /\ R!MaySignOff(ledger, linked, rec) =>
           warnings \subseteq {"no lines", "other lines", "unposted", "activity", "unmatched"}
===============================================================================
