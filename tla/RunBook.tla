-------------------------------- MODULE RunBook --------------------------------
(***************************************************************************)
(* What recurring_journal.py and recurring_invoice.py promise to whoever   *)
(* looks at the definitions and their documents: no requests, views, locks *)
(* or savepoints.  One step runs a definition by hand or catches up any    *)
(* number of them; a catch-up takes every date that has come, or reports   *)
(* an error and takes none.  RecurringRuns implements this specification.  *)
(***************************************************************************)
EXTENDS Integers

CONSTANTS
  Definition,   \* recurring journals and invoices
  LastDay,      \* the day on which the model's clock stops (a bound)
  Interval,     \* days between two scheduled dates
  Closable,     \* dates through which the periods may get closed
  Editable,     \* dates a user may set the next run to
  Absent        \* the value of a document that does not exist

VARIABLES
  definitions,  \* definitions[d]: next and last run, active, failed
  documents,    \* documents[<<d, n>>]: Absent, "unposted" or "posted"
  closed,       \* the last date of the closed periods
  today         \* the current date

entries == <<definitions, documents, closed>>
book == <<definitions, documents, closed, today>>

Days == 0 .. LastDay
Documents == Definition \X Days

Start ==
  /\ definitions = [d \in Definition |->
                      [next |-> 0, last |-> -1, active |-> TRUE, failed |-> FALSE]]
  /\ documents \in [Documents -> {Absent, "unposted"}]
  /\ closed = -1
  /\ today = 0

-----------------------------------------------------------------------------
Kept(d) ==
  /\ definitions'[d] = definitions[d]
  /\ \A n \in Days : documents'[<<d, n>>] = documents[<<d, n>>]

Latest(a, b) == IF a >= b THEN a ELSE b

(* d gets its documents of these dates, posted outside the closed periods  *)
(* or found posted, and no other; none of them stood there unposted.       *)
Ran(d, dates) ==
  /\ \E date \in dates :
       /\ \A n \in dates : n <= date
       /\ definitions'[d] = [definitions[d] EXCEPT
                               !.last = Latest(@, date),
                               !.next = Latest(@, date + Interval),
                               !.failed = FALSE]
  /\ \A n \in dates : \/ documents[<<d, n>>] = "posted"
                      \/ documents[<<d, n>>] = Absent /\ n > closed
  /\ \A n \in Days :
       documents'[<<d, n>>] = IF n \in dates THEN "posted" ELSE documents[<<d, n>>]

(* The scheduled dates of d through a day.                                 *)
Scheduled(d, upto) ==
  {n \in Days : /\ n >= definitions[d].next /\ n <= upto
                /\ (n - definitions[d].next) % Interval = 0}

CaughtUp(d) ==
  /\ definitions[d].active
  /\ \E dates \in {Scheduled(d, upto) : upto \in 0 .. today} : Ran(d, dates)

(* An error is recorded of what was due, and of nothing else.              *)
Reported(d) ==
  /\ definitions[d].active /\ definitions[d].next <= today
  /\ definitions'[d] = [definitions[d] EXCEPT !.failed = TRUE]
  /\ \A n \in Days : documents'[<<d, n>>] = documents[<<d, n>>]

-----------------------------------------------------------------------------
(* By hand, for today, when no date is overdue.                            *)
RunByHand(d, date) ==
  /\ date = today /\ definitions[d].next >= today
  /\ Ran(d, {date})
  /\ \A e \in Definition \ {d} : Kept(e)
  /\ UNCHANGED closed

CatchUp ==
  /\ \A d \in Definition : Kept(d) \/ CaughtUp(d) \/ Reported(d)
  /\ UNCHANGED closed

Edit(d, next, on) ==
  /\ definitions' = [definitions EXCEPT ![d] = [@ EXCEPT !.next = next, !.active = on]]
  /\ UNCHANGED <<documents, closed>>

Close(date) ==
  /\ date > closed
  /\ closed' = date
  /\ UNCHANGED <<definitions, documents>>

(* What stood unposted gets posted or deleted.                             *)
Resolve(doc, outcome) ==
  /\ documents[doc] = "unposted"
  /\ documents' = [documents EXCEPT ![doc] = outcome]
  /\ UNCHANGED <<definitions, closed>>

Turn ==
  \/ \E d \in Definition :
       \/ \E date \in Days : RunByHand(d, date)
       \/ \E next \in Editable, on \in BOOLEAN : Edit(d, next, on)
  \/ CatchUp
  \/ \E date \in Closable : Close(date)
  \/ \E doc \in Documents, outcome \in {"posted", Absent} : Resolve(doc, outcome)

Tomorrow ==
  /\ today < LastDay
  /\ today' = today + 1
  /\ UNCHANGED entries

Keep == (Turn /\ UNCHANGED today) \/ Tomorrow

Bookkeeping == Start /\ [][Keep]_book
===============================================================================
