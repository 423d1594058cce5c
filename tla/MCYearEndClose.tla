---------------------------- MODULE MCYearEndClose ----------------------------
(* Model-checking instance of YearEndClose; the numbered receipts' VAT and *)
(* the rules of the documents (DocumentRules) are checked on all small     *)
(* cases before.                                                           *)
EXTENDS YearEndClose, TLC

MCRow == Document \cup {Journal, Counter} \cup Close

Symmetry == Permutations(Txn) \cup Permutations(Document) \cup Permutations(Close)

D == INSTANCE DocumentRules

(* An invoice, and a match of it with the entry of a payment, whose amount *)
(* in the payment's currency differs.                                      *)
Invoice(total, tax, groups) ==
  [name |-> "invoice", type |-> "out_invoice", total |-> total, tax |-> tax, groups |-> groups]

Entry(name) == [name |-> name, type |-> "entry"]

Paid(id, entry, amount, invoice) ==
  [id |-> id, debit |-> [move |-> invoice, control |-> TRUE],
   credit |-> [move |-> entry, control |-> TRUE],
   debitAmount |-> amount, creditAmount |-> 2 * amount]

(* The VAT of invoices settled by two receipts, one of them twice.         *)
ReceiptsCarryTheVAT ==
  \A total \in 1..6 : \A tax \in 0..3 :
    \A groups \in {<<>>} \cup {<<part, tax - part>> : part \in 0..tax} :
      \A once \in 0..total : \A twice \in 0..(total - once) :
        LET invoice == Invoice(total, tax, groups)
            first == [move |-> Entry("one"), inbound |-> TRUE, customer |-> TRUE]
            second == [move |-> Entry("two"), inbound |-> TRUE, customer |-> TRUE]
            partials == {Paid(1, Entry("one"), once, invoice),
                         Paid(2, Entry("two"), twice, invoice),
                         Paid(3, Entry("two"), total - once - twice, invoice)} IN
        D!VATAccountedFor(partials, {first, second}, invoice)
ASSUME ReceiptsCarryTheVAT

(* What an Encoder may do with a draft that somebody armed.                *)
Persons == [role : {"encoder", "accountant"}, system : {FALSE}]
Root == [role |-> "root", system |-> TRUE]

NightlyJobKeepsRoles ==
  \A row \in D!DraftRow(Persons) : \A u \in Persons : \A arm \in BOOLEAN :
    LET values == [f \in {"auto"} |-> arm]
        night == D!AutoPosted(D!DraftWritten(row, u, values), Root) IN
    D!DraftWriteAllowed(u, values) /\ ~row.posted =>
      (night.posted <=> arm /\ row.due /\ u.role = "accountant")
ASSUME NightlyJobKeepsRoles
===============================================================================
