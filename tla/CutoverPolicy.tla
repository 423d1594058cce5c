----------------------------- MODULE CutoverPolicy -----------------------------
(***************************************************************************)
(* How the opening entries of a cutover are made of a trial balance, the   *)
(* open items and the undeposited receipts of the old books, and when that *)
(* is refused (cutover_math.py, cutover.py _cutover_plan).  Each open item *)
(* and receipt becomes an entry against the clearing account or a control  *)
(* account; one residual entry carries what the trial balance has left.    *)
(* Amounts are in units of the currency's rounding.                        *)
(***************************************************************************)
EXTENDS Integers, Sequences, Functions, FiniteSets

CONSTANTS
  Account,
  TypeOf,      \* TypeOf[a]: the account type
  Clearing,    \* the opening-clearing account of the payload
  Nobody       \* no partner

(* NotMoney stands for whatever is no nonnegative decimal at the currency's*)
(* precision, Unknown for an account or a word the policy does not know.       *)
NotMoney == -1
Unknown == "unknown"

BalanceRow(Money) ==
  [account : Account \cup {Unknown}, debit : Money \cup {NotMoney}, credit : Money \cup {NotMoney}]
ItemRow(Money, Partner) ==
  [source : STRING, account : Account \cup {Unknown}, partner : Partner \cup {Nobody},
   kind : {"out_invoice", "out_refund", "in_invoice", "in_refund", Unknown},
   residual : Money \cup {NotMoney}, late : BOOLEAN]
ReceiptRow(Money, Partner) ==
  [source : STRING, cash : Account \cup {Unknown}, receivable : Account \cup {Unknown},
   partner : Partner \cup {Nobody}, amount : Money \cup {NotMoney}, evidence : BOOLEAN,
   disposition : {"already_allocated", "unallocated", Unknown}, late : BOOLEAN]

Residual == "__residual_opening__"

-----------------------------------------------------------------------------
IsMoney(x) == x >= 0
IsPositive(x) == x > 0

(* The trial balance: accounts of the company, each once, in balance.      *)
Expected(p, a) ==
  SumFunction([i \in {i \in DOMAIN p.balances : p.balances[i].account = a} |->
                 p.balances[i].debit - p.balances[i].credit])

TrialBalanceAccepted(p) ==
  LET rows == p.balances IN
  /\ rows # <<>>
  /\ \A i \in DOMAIN rows :
       /\ rows[i].account \in Account
       /\ IsMoney(rows[i].debit) /\ IsMoney(rows[i].credit)
       /\ rows[i].debit = 0 \/ rows[i].credit = 0
  /\ \A i, j \in DOMAIN rows : rows[i].account = rows[j].account => i = j
  /\ SumFunction([a \in Account |-> Expected(p, a)]) = 0

(* The opening-clearing account is an equity account the old books leave   *)
(* empty.                                                                  *)
ClearingAccepted(p) ==
  TypeOf[Clearing] = "equity" /\ Expected(p, Clearing) = 0

Control(kind) ==
  IF kind \in {"out_invoice", "out_refund"} THEN "asset_receivable" ELSE "liability_payable"

Sign(kind) == IF kind \in {"out_invoice", "in_refund"} THEN 1 ELSE -1

ItemAccepted(item) ==
  /\ item.kind # Unknown /\ item.account \in Account
  /\ TypeOf[item.account] = Control(item.kind) /\ item.partner # Nobody
  /\ IsPositive(item.residual) /\ ~item.late

ReceiptAccepted(r) ==
  /\ r.cash \in Account \ {Clearing}
  /\ TypeOf[r.cash] \in {"asset_cash", "asset_current"}
  /\ IsPositive(r.amount) /\ r.partner # Nobody /\ ~r.late
  /\ \/ r.disposition = "already_allocated" /\ r.evidence
     \/ /\ r.disposition = "unallocated" /\ r.receivable \in Account
        /\ TypeOf[r.receivable] = "asset_receivable"

(* Every item and receipt has a source identifier of its own.              *)
SourcesAccepted(p) ==
  LET rows == p.items \o p.receipts IN
  /\ \A i \in DOMAIN rows : rows[i].source \notin {"", Residual}
  /\ \A i, j \in DOMAIN rows : rows[i].source = rows[j].source => i = j

-----------------------------------------------------------------------------
Line(account, partner, balance) ==
  [account |-> account, partner |-> partner, balance |-> balance]

ItemEntry(item) ==
  [source |-> item.source,
   lines |-> <<Line(item.account, item.partner, Sign(item.kind) * item.residual),
               Line(Clearing, Nobody, -Sign(item.kind) * item.residual)>>]

(* A receipt the old books had allocated must not settle anything again.   *)
ReceiptEntry(r) ==
  [source |-> r.source,
   lines |-> <<Line(r.cash, Nobody, r.amount),
               IF r.disposition = "unallocated"
               THEN Line(r.receivable, r.partner, -r.amount)
               ELSE Line(Clearing, Nobody, -r.amount)>>]

Components(p) ==
  [i \in 1 .. Len(p.items) |-> ItemEntry(p.items[i])]
    \o [i \in 1 .. Len(p.receipts) |-> ReceiptEntry(p.receipts[i])]

LineSum(lines, a) ==
  SumFunction([i \in {i \in DOMAIN lines : lines[i].account = a} |-> lines[i].balance])

Total(entries, a) == SumFunction([i \in DOMAIN entries |-> LineSum(entries[i].lines, a)])

IsControl(a) == TypeOf[a] \in {"asset_receivable", "liability_payable"}

(* The detail explains the whole balance of every control account and of   *)
(* every account that holds undeposited receipts.                          *)
DetailReconciles(p) ==
  \A a \in {a \in Account : IsControl(a)} \cup {p.receipts[i].cash : i \in DOMAIN p.receipts} :
    Expected(p, a) = Total(Components(p), a)

ResidualLines(p) ==
  LET left == [a \in Account |-> Expected(p, a) - Total(Components(p), a)] IN
  [a \in {a \in Account : left[a] # 0} |-> Line(a, Nobody, left[a])]

Entries(p) ==
  LET residual == ResidualLines(p) IN
  IF DOMAIN residual = {} THEN Components(p)
  ELSE Append(Components(p), [source |-> Residual, lines |-> residual])

(* _cutover_plan and build_cutover_plan; named says that the payload names *)
(* the policy and nothing unknown, ready that the batch has its date, its  *)
(* owner, the retention policy and a general journal of the company.       *)
Accepted(p) ==
  /\ p.named /\ p.ready
  /\ TrialBalanceAccepted(p) /\ ClearingAccepted(p)
  /\ \A i \in DOMAIN p.items : ItemAccepted(p.items[i])
  /\ \A i \in DOMAIN p.receipts : ReceiptAccepted(p.receipts[i])
  /\ SourcesAccepted(p)
  /\ DetailReconciles(p) /\ Entries(p) # <<>>

-----------------------------------------------------------------------------
(* The books an accepted plan opens: every entry balances, every account   *)
(* has the balance of the old books and the clearing account none; what a  *)
(* partner owes or is owed is on his own open items and receipts, and the  *)
(* residual entry touches neither a control account nor a partner.         *)
PlanOpensTheBooks(p) ==
  Accepted(p) =>
    LET entries == Entries(p) IN
    /\ \A i \in DOMAIN entries : SumFunction([a \in Account |-> LineSum(entries[i].lines, a)]) = 0
    /\ \A a \in Account : Total(entries, a) = Expected(p, a)
    /\ Total(entries, Clearing) = 0
    /\ \A i \in DOMAIN entries : \A l \in DOMAIN entries[i].lines :
         LET line == entries[i].lines[l] IN
         /\ IsControl(line.account) <=> line.partner # Nobody
         /\ IsControl(line.account) => entries[i].source # Residual
===============================================================================
