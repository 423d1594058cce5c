--------------------------- MODULE AccountingLedger ---------------------------
(***************************************************************************)
(* What the period controls of the add-on promise to whoever looks at the  *)
(* committed books: no requests, snapshots or locks, only the entries and  *)
(* the periods, changed by one step at a time.  PeriodControl implements   *)
(* this specification.                                                     *)
(***************************************************************************)
EXTENDS Integers

CONSTANTS
  Move,     \* journal entries
  Period,   \* accounting periods
  Absent    \* the value of a row that does not exist

VARIABLES
  entries,  \* entries[m]: Absent, or the state and date of an entry
  periods   \* periods[p]: Absent, or the state and date range of a period

books == <<entries, periods>>

Within(date, period) == period.first <= date /\ date <= period.last

Closed(p) == periods[p] # Absent /\ periods[p].state = "closed"

(* An entry value that some closed period holds in place.                  *)
Frozen(entry) ==
  entry # Absent /\ \E p \in Period : Closed(p) /\ Within(entry.date, periods[p])

Posted(m) == entries[m] # Absent /\ entries[m].state = "posted"

DraftWithin(period) ==
  \E m \in Move : /\ entries[m] # Absent
                  /\ entries[m].state = "draft"
                  /\ Within(entries[m].date, period)

Start ==
  /\ entries = [m \in Move |-> Absent]
  /\ periods = [p \in Period |-> Absent]

(* One request's entries take effect together, outside closed periods and  *)
(* without touching a posted entry.                                        *)
RecordEntries ==
  /\ \A m \in Move : entries'[m] # entries[m] =>
       ~Posted(m) /\ ~Frozen(entries[m]) /\ ~Frozen(entries'[m])
  /\ periods' = periods

(* Open periods that hold no draft close.                                  *)
ClosePeriods ==
  /\ \A p \in Period : periods'[p] # periods[p] =>
       /\ periods[p] # Absent
       /\ periods[p].state = "open"
       /\ periods'[p] = [periods[p] EXCEPT !.state = "closed"]
       /\ ~DraftWithin(periods[p])
  /\ entries' = entries

(* Closed periods reopen, over the same dates.                             *)
ReopenPeriods ==
  /\ \A p \in Period : periods'[p] # periods[p] =>
       /\ Closed(p)
       /\ periods'[p] = [periods[p] EXCEPT !.state = "open"]
  /\ entries' = entries

(* Periods that are not closed are defined, moved and deleted.             *)
DefinePeriods ==
  /\ \A p \in Period : periods'[p] # periods[p] =>
       /\ ~Closed(p)
       /\ periods'[p] # Absent => periods'[p].state = "open"
  /\ entries' = entries

Change == RecordEntries \/ ClosePeriods \/ ReopenPeriods \/ DefinePeriods

Books == Start /\ [][Change]_books
===============================================================================
