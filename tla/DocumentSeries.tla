---------------------------- MODULE DocumentSeries ----------------------------
(***************************************************************************)
(* The two series of numbers the add-on promises without holes: documents  *)
(* of a journal (continuous_numbering.py), numbered when they are posted,  *)
(* and official receipts of a company (account_payment.py, res_company.py  *)
(* and receipt_sequence.py), numbered when a customer payment is posted.   *)
(*                                                                         *)
(* Requests are transactions of SnapshotDB.  A document's name is the code *)
(* its journal had when it was posted and a number; a unique index on the  *)
(* names of posted documents makes whoever tries a name in use by a        *)
(* request in progress wait for it, and whoever finds it committed try the *)
(* next number.  One journal and one company: every search is per journal  *)
(* or per company.  A posted document is never changed or removed, which   *)
(* PeriodControl establishes; periods play no part here.                   *)
(***************************************************************************)
EXTENDS Integers, FiniteSets, FiniteSetsExt, Functions, SnapshotDB

CONSTANTS
  Document,   \* journal entries and payments, each with its entry
  Journal,    \* the row of the journal: its code
  Counter,    \* the receipt sequence of the company: the next number
  Date,       \* accounting dates
  EntryDate,  \* the dates of the documents and payments users post (a bound)
  OneOverlap, \* whether at most one request commits while another is in progress (a bound)
  LastCode    \* the codes of the journal are 1 .. LastCode (a bound)

Code == 1 .. LastCode

ASSUME SeriesRowAssumption ==
  /\ Document \cup {Journal, Counter} \subseteq Row
  /\ Journal # Counter /\ {Journal, Counter} \cap Document = {}
ASSUME SeriesInputAssumption ==
  /\ IsFiniteSet(Document) /\ Date \subseteq Int /\ EntryDate \subseteq Date
  /\ LastCode \in Nat \ {0} /\ OneOverlap \in BOOLEAN

(* "closing" and "reversal" are the entries of YearEndClose.               *)
Kind == {"entry", "receipt", "closing", "reversal"}

DocumentRow ==
  [kind : Kind, date : Date, pl : Int, code : Code, no : Nat, receipt : Nat]

ASSUME SeriesAbsentAssumption == Absent \notin DocumentRow \cup Nat

VARIABLE busy   \* the requests that have posted something and not ended yet

seriesVars == <<dbVars, busy>>

-----------------------------------------------------------------------------
PostedIn(rows) == {m \in Document : rows[m] # Absent}

(* The highest number of the journal in the view of t, whatever its code.  *)
LastNumber(t) == Max({0} \cup {view[t][m].no : m \in PostedIn(view[t])})

Named(rows, code, no) ==
  \E m \in PostedIn(rows) : rows[m].code = code /\ rows[m].no = no

(* Mutant: the number follows the last one of the view and of every request*)
(* in progress, as a plain database sequence would give it.                *)
NextNumberPastOthers(t) ==
  1 + Max({0} \cup UNION {{view[u][m].no : m \in PostedIn(view[u])} : u \in active})

(* Names already committed are passed over one by one.                     *)
NextNumber(t) ==
  Min({no \in 1 .. Cardinality(Document) + 1 :
         no > LastNumber(t) /\ ~Named(db, view[t][Journal], no)})

(* The name is not held by another request in progress.                    *)
NameFree(t, no) ==
  \A u \in active \ {t} : \A m \in wrote[u] \cap Document :
    ~(view[u][m].code = view[t][Journal] /\ view[u][m].no = no)

(* A document as it is posted in the request t.                            *)
Numbered(t, kind, date, pl) ==
  [kind |-> kind, date |-> date, pl |-> pl,
   code |-> view[t][Journal], no |-> NextNumber(t), receipt |-> 0]

MayNumber(t) == NameFree(t, NextNumber(t))

(* _thirdcode_receipt_sequence creates a missing sequence at 1; _next takes*)
(* its row lock and counts on.                                             *)
NextReceipt(t) == IF Exists(t, Counter) THEN view[t][Counter] ELSE 1

(* Mutant: a payment that has its receipt number is given another.         *)
ReceiptAssignedAgain(t, m, row) ==
  IF row.kind = "receipt"
  THEN [r \in {m, Counter} |-> IF r = m THEN [row EXCEPT !.receipt = NextReceipt(t)]
                                ELSE NextReceipt(t) + 1]
  ELSE [r \in {m} |-> row]

(* _assign_thirdcode_receipt_number: the rows written for a posted payment.*)
ReceiptAssigned(t, m, row) ==
  IF row.kind = "receipt" /\ row.receipt = 0
  THEN [r \in {m, Counter} |-> IF r = m THEN [row EXCEPT !.receipt = NextReceipt(t)]
                                ELSE NextReceipt(t) + 1]
  ELSE [r \in {m} |-> row]

-----------------------------------------------------------------------------
SeriesInit ==
  /\ DBInitWith([r \in Row |-> IF r = Journal THEN 1 ELSE Absent])
  /\ busy = {}

Begin(t) == BeginTxn(t) /\ UNCHANGED busy

WithinBound(t) == OneOverlap => \A u \in active \ {t} : missed[u] = {}

Commit(t) ==
  /\ t \in busy
  /\ CommitTxn(t) /\ WithinBound(t)
  /\ busy' = busy \ {t}

Abort(t) == AbortTxn(t) /\ busy' = busy \ {t}

(* A request that does one thing and commits.                              *)
Serve(t, new) ==
  /\ t \notin busy
  /\ CommitWith(t, new) /\ WithinBound(t)
  /\ UNCHANGED busy

(* A document or customer payment is drafted and posted (action_post); the *)
(* request may post more of them before it ends.                           *)
PostDocument(t, m, kind, date) ==
  /\ t \in active /\ ~Exists(t, m) /\ MayNumber(t)
  /\ PutAll(t, ReceiptAssigned(t, m, Numbered(t, kind, date, IF kind = "entry" THEN 1 ELSE 0)))
  /\ busy' = busy \cup {t}
  /\ UNCHANGED <<db, active, shared, missed>>

(* action_assign_thirdcode_receipt_number, once more for a posted payment. *)
AssignReceipt(t, m) ==
  /\ t \in active /\ Exists(t, m) /\ view[t][m].kind = "receipt"
  /\ Serve(t, ReceiptAssigned(t, m, view[t][m]))

(* ContinuousJournalNumbering.write: the code stays once the journal has a *)
(* posting history in the request's own view.                              *)
ChangeCode(t) ==
  /\ t \in active /\ PostedIn(view[t]) = {}
  /\ view[t][Journal] < LastCode
  /\ Serve(t, [r \in {Journal} |-> view[t][Journal] + 1])

SeriesStep(t) ==
  \/ Begin(t)
  \/ Commit(t)
  \/ Abort(t)
  \/ \E m \in Document :
       \/ \E kind \in {"entry", "receipt"}, date \in EntryDate : PostDocument(t, m, kind, date)
       \/ AssignReceipt(t, m)
  \/ ChangeCode(t)

-----------------------------------------------------------------------------
SeriesTypeOK ==
  /\ \A m \in Document : db[m] \in DocumentRow \cup {Absent}
  /\ db[Journal] \in Code
  /\ db[Counter] \in Nat \cup {Absent}
  /\ busy \subseteq active

(* Whatever requests post at once and whichever of them fail, the posted   *)
(* documents of the journal carry every number from 1 to the last, and two *)
(* of them share a number only if the code was changed between them by a   *)
(* request that could not see the first.  Every posted customer payment    *)
(* has a receipt number, no two the same one, and the counter stands right *)
(* behind the last: no receipt is missing.                                 *)
SeriesUnbroken ==
  LET numbers == {db[m].no : m \in PostedIn(db)}
      receipts == {m \in PostedIn(db) : db[m].kind = "receipt"} IN
  /\ SeriesTypeOK
  /\ numbers = 1 .. Max({0} \cup numbers)
  /\ \A m, n \in PostedIn(db) :
       m # n /\ db[m].no = db[n].no => db[m].code # db[n].code
  /\ {db[m].receipt : m \in receipts} = 1 .. Cardinality(receipts)
  /\ receipts # {} => db[Counter] = Cardinality(receipts) + 1

(* Whatever requests post at once and whichever of them fail, the committed*)
(* documents behave as NumberSeries: each request that posts takes effect  *)
(* as one step, which takes the next free names behind a number it saw and *)
(* the next receipt numbers, and changes nothing posted before.            *)
Series == INSTANCE NumberSeries WITH
  documents <- [m \in Document |-> db[m]],
  codes <- 1 .. db[Journal],
  receipt <- IF db[Counter] = Absent THEN 1 ELSE db[Counter]

ImplementsNumberSeries == Series!Numbering
===============================================================================
