----------------------------- MODULE DocumentRules -----------------------------
(***************************************************************************)
(* What each role may do with a document before and after it is posted,    *)
(* and what the receipt of a payment says of the VAT it carried            *)
(* (account_move.py, account_payment.py).  Amounts are whole cents of one  *)
(* currency.                                                               *)
(***************************************************************************)
EXTENDS Integers, FiniteSets, Functions

(* The class a list shows a document under; the sources win over the type. *)
DocumentClass(move) ==
  IF move.opening THEN "opening_balance"
  ELSE IF move.recurringJournal THEN "recurring_journal"
  ELSE IF move.recurringInvoice THEN "recurring_invoice"
  ELSE IF move.type = "out_invoice" THEN "sales_invoice"
  ELSE IF move.type = "in_invoice" THEN "purchase_bill"
  ELSE IF move.type = "out_refund" THEN "credit_note"
  ELSE IF move.type = "in_refund" THEN "debit_note" ELSE "journal_entry"

-----------------------------------------------------------------------------
(* Automatic posting.  auto is auto_post other than "no", due says that    *)
(* the date of the draft has come, writer is write_uid.                    *)
DraftRow(User) ==
  [posted : BOOLEAN, auto : BOOLEAN, until : BOOLEAN, checked : BOOLEAN,
   due : BOOLEAN, writer : User]

EncoderWriter(u) == ~u.system /\ u.role = "encoder"

(* _thirdcode_autopost_values_blocked of the fields that are given.        *)
ArmsPosting(values) ==
  \E f \in {"auto", "until", "checked"} \cap DOMAIN values : values[f]

DraftWriteAllowed(u, values) == EncoderWriter(u) => ~ArmsPosting(values)

DraftWritten(row, u, values) ==
  [posted |-> row.posted,
   auto |-> IF "auto" \in DOMAIN values THEN values.auto ELSE row.auto,
   until |-> IF "until" \in DOMAIN values THEN values.until ELSE row.until,
   checked |-> IF "checked" \in DOMAIN values THEN values.checked ELSE row.checked,
   due |-> row.due, writer |-> u]

(* The nightly job, as root: what an Encoder wrote last is disarmed.       *)
Demoted(row, root) ==
  IF ~row.posted /\ row.auto /\ row.writer.role = "encoder"
  THEN DraftWritten(row, root, [f \in {"auto", "checked"} |-> FALSE]) ELSE row

AutoPosted(row, root) ==
  LET draft == Demoted(row, root) IN
  IF draft.auto /\ draft.due /\ ~draft.posted
  THEN [posted |-> TRUE, auto |-> draft.auto, until |-> draft.until,
        checked |-> draft.checked, due |-> draft.due, writer |-> root]
  ELSE draft

PostAllowedTo(u) == u.role # "encoder"

SendAllowed(u) == u.system \/ u.role \notin {"encoder", "readonly"}

(* The official invoice and the official receipt.                          *)
Official(company) == company.trial \/ (company.approved /\ company.numbered)

InvoicePrintable(u, move) ==
  SendAllowed(u) /\ move.posted /\ Official(move.company)

ReceiptPrintable(payment) ==
  /\ payment.state \in {"in_process", "paid", "reconciled"} /\ payment.posted
  /\ payment.inbound /\ payment.customer /\ Official(payment.company)

-----------------------------------------------------------------------------
(* A payment's fields after it was posted.  A write is a function from the *)
(* fields it gives; isNumbering is the token of the numbering.             *)
ReceiptFields == {"receipt", "issued"}
Economic ==
  {"amount", "date", "partner", "type", "partnerType", "journal", "company", "currency", "move"}

NoReceipt == "none"

PaymentWriteAllowed(row, everPosted, isNumbering, values) ==
  /\ ReceiptFields \cap DOMAIN values # {} => isNumbering /\ row.receipt = NoReceipt
  /\ everPosted /\ ({"state"} \cup Economic) \cap DOMAIN values # {} =>
       /\ (IF "state" \in DOMAIN values THEN values.state ELSE row.state)
            \notin {"draft", "canceled", "cancel"}
       /\ \A f \in DOMAIN values \ {"state"} : values[f] = row[f]

PaymentWritten(row, values) ==
  [f \in DOMAIN row |-> IF f \in DOMAIN values THEN values[f] ELSE row[f]]

-----------------------------------------------------------------------------
(* Reconciliation matches a debit with a credit line, each in its currency.*)
LineRow(Move) == [move : Move, control : BOOLEAN]

SaleTypes == {"out_invoice", "out_refund", "out_receipt"}

(* The partials that settle the invoice with the payment, and how much of  *)
(* it: _thirdcode_receipt_allocations.                                     *)
Settles(p, payment, invoice) ==
  \/ p.debit.move = payment.move /\ p.debit.control /\ p.credit.move = invoice
  \/ p.credit.move = payment.move /\ p.credit.control /\ p.debit.move = invoice

AppliedAmount(partials, payment, invoice) ==
  IF payment.inbound /\ payment.customer /\ invoice.type \in SaleTypes
  THEN SumFunction([p \in {p \in partials : Settles(p, payment, invoice)} |->
         IF p.debit.move = invoice THEN p.debitAmount ELSE p.creditAmount])
  ELSE 0

(* A share of an amount, in whole cents, the half rounded up.              *)
Rounded(n, d) == (2 * n + d) \div (2 * d)

Portion(partials, payment, invoice, amount) ==
  LET applied == AppliedAmount(partials, payment, invoice)
      covered == IF applied <= invoice.total THEN applied ELSE invoice.total IN
  IF invoice.total = 0 THEN 0 ELSE Rounded(amount * covered, invoice.total)

ReceiptVAT(partials, payment, invoices) ==
  SumFunction([i \in invoices |-> Portion(partials, payment, i, i.tax)])

(* The lines of the breakdown: one per tax group, or one per invoice.      *)
Breakdown(partials, payment, invoice) ==
  LET amounts == IF invoice.total = 0 THEN <<>>
                 ELSE IF invoice.groups # <<>> THEN invoice.groups
                 ELSE IF invoice.tax # 0 THEN <<invoice.tax>> ELSE <<>> IN
  [g \in DOMAIN amounts |-> Portion(partials, payment, invoice, amounts[g])]

(* Every cent of an invoice's VAT is on some receipt when payments settle  *)
(* it in full, up to the rounding of half a cent a receipt; the breakdown  *)
(* adds up to the amount, up to half a cent a line.                        *)
VATAccountedFor(partials, payments, invoice) ==
  LET applied == SumFunction([p \in payments |-> AppliedAmount(partials, p, invoice)])
      vat == SumFunction([p \in payments |-> ReceiptVAT(partials, p, {invoice})])
      off == 2 * (vat - invoice.tax) IN
  /\ applied = invoice.total => off <= Cardinality(payments) /\ -off <= Cardinality(payments)
  /\ \A p \in payments :
       LET lines == Breakdown(partials, p, invoice)
           gap == 2 * (SumFunction(lines) - Portion(partials, p, invoice, invoice.tax)) IN
       (invoice.groups = <<>> \/ SumFunction(invoice.groups) = invoice.tax) =>
         gap <= Cardinality(DOMAIN lines) + 1 /\ -gap <= Cardinality(DOMAIN lines) + 1
===============================================================================
