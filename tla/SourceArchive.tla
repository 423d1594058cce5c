----------------------------- MODULE SourceArchive -----------------------------
(***************************************************************************)
(* The history of the old system that a migration retains beside the       *)
(* ledger (migration_archive.py): lines that are written once and kept.    *)
(* A line is [entry, id, day, content, debit, credit], its amounts whole   *)
(* cents; the rows of one call are a set, since no identifier comes twice. *)
(***************************************************************************)
EXTENDS Integers, FiniteSets, FiniteSetsExt

KeyOf(row) == <<row.entry, row.id>>

EntryLines(rows, entry) == {row \in rows : row.entry = entry}

Balance(rows) == MapThenSumSet(LAMBDA row : row.debit - row.credit, rows)

EntriesBalance(rows) == \A row \in rows : Balance(EntryLines(rows, row.entry)) = 0

(* Who may load history into which batch: its snapshot must be imported.   *)
ArchiveOpen(user, batch) ==
  /\ user.administrator /\ batch.company \in user.companies
  /\ batch.sourceRetained /\ batch.cutoverDone

(* The checks of the rows by themselves.                                   *)
RowsAllowed(rows, cutoverDate) ==
  /\ rows # {} /\ EntriesBalance(rows)
  /\ \A row \in rows :
       /\ row.day <= cutoverDate
       /\ row.debit >= 0 /\ row.credit >= 0 /\ (row.debit = 0 <=> row.credit # 0)
       /\ \A other \in rows :
            /\ KeyOf(other) = KeyOf(row) => other = row
            /\ other.entry = row.entry => other.day = row.day

(* The checks against what the call sees in the archive.                   *)
Fits(seen, rows) ==
  \A row \in rows :
    IF \E kept \in seen : KeyOf(kept) = KeyOf(row) THEN row \in seen
    ELSE EntryLines(seen, row.entry) = {}

NewRows(seen, rows) == {row \in rows : \A kept \in seen : KeyOf(kept) # KeyOf(row)}

(* unique(batch_id, source_entry_id, source_line_id).                      *)
LinesUnique(retained) ==
  \A r1, r2 \in retained : KeyOf(r1) = KeyOf(r2) => r1 = r2

ArchiveAllowed(retained, seen, rows, cutoverDate) ==
  /\ RowsAllowed(rows, cutoverDate) /\ Fits(seen, rows)
  /\ \A row \in NewRows(seen, rows) : \A kept \in retained : KeyOf(kept) # KeyOf(row)

(* action_archive_source_history: seen is what its snapshot holds of the   *)
(* archive; the lock of the batch, taken later, does not renew it.         *)
Archived(retained, seen, rows) == retained \cup NewRows(seen, rows)
================================================================================
