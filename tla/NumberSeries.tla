----------------------------- MODULE NumberSeries -----------------------------
(***************************************************************************)
(* What continuous_numbering.py and the receipt sequence promise to        *)
(* whoever looks at the posted documents of a journal: no requests, views  *)
(* or locks, only documents that are posted, some at a time, each batch of *)
(* them under the next free names and the next receipt numbers.            *)
(* DocumentSeries, with the closes of YearEndClose, implements this        *)
(* specification.                                                          *)
(***************************************************************************)
EXTENDS Integers

CONSTANTS
  Document,   \* journal entries and payments
  Absent      \* the value of a document that is not posted

VARIABLES
  documents,  \* documents[m]: Absent, or the kind, code, number and receipt of m
  codes,      \* the codes the journal has had so far
  receipt     \* the next receipt number

series == <<documents, codes, receipt>>

Start ==
  /\ documents = [m \in Document |-> Absent]
  /\ codes = {1}
  /\ receipt = 1

Posted == {m \in Document : documents[m] # Absent}

(* The documents that a step posts.                                        *)
New == {m \in Document : documents'[m] # documents[m]}

Taken(code, no) ==
  \E m \in Posted : documents[m].code = code /\ documents[m].no = no

-----------------------------------------------------------------------------
(* Behind a number in use the new documents take the free names of a code, *)
(* leaving none out.                                                       *)
InARow(code, behind) ==
  /\ \A m \in New :
       /\ documents'[m].code = code
       /\ documents'[m].no > behind
       /\ ~Taken(code, documents'[m].no)
       /\ \A n \in New \ {m} : documents'[n].no # documents'[m].no
       /\ \A no \in behind + 1 .. documents'[m].no :
            Taken(code, no) \/ \E n \in New : documents'[n].no = no

(* The new customer payments share out the next receipt numbers.           *)
Receipted ==
  LET payments == {m \in New : documents'[m].kind = "receipt"} IN
  /\ receipt' >= receipt
  /\ {documents'[m].receipt : m \in payments} = receipt .. receipt' - 1
  /\ \A m, n \in payments : m # n => documents'[m].receipt # documents'[n].receipt

Post ==
  /\ New \cap Posted = {}
  /\ \E code \in codes, behind \in {0} \cup {documents[m].no : m \in Posted} :
       InARow(code, behind)
  /\ Receipted
  /\ UNCHANGED codes

(* The code may change while documents are posted under the former one:    *)
(* whoever changes it need not see them.                                   *)
Recode ==
  /\ \E code \in codes' : codes' = codes \cup {code}
  /\ UNCHANGED <<documents, receipt>>

Number == Post \/ Recode

Numbering == Start /\ [][Number]_series
===============================================================================
