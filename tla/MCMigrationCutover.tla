-------------------------- MODULE MCMigrationCutover --------------------------
(* Model-checking instance of MigrationCutover: two versions of a package  *)
(* that disagree on their last document.  Beside it, the loading of master *)
(* rows and the plan of a cutover are evaluated over small inputs.         *)
EXTENDS MigrationCutover, PackageRules

CONSTANTS s1, s2, l1, l2

MCRow == {Company, Batch} \cup RecRow \cup Opening \cup Source \cup Other
MCOrder == <<s1, s2>>
MCSays == [l \in {l1, l2} |-> [s \in {s1, s2} |-> IF s = s2 /\ l = l2 THEN 2 ELSE 1]]

Symmetry == Permutations(Txn)

-----------------------------------------------------------------------------
UpTo(n, S) == UNION {[1 .. k -> S] : k \in 0 .. n}

MCText == {"a", "b"}

\* Two rows against two records, the rows' identifiers in order.
MasterRows == {rows \in UpTo(2, MasterRow(MCText)) : rows # <<>> => rows[1].id = "a"}

ASSUME MastersRetry ==
  \A records \in UpTo(2, MasterRecord(MCText)), rows \in MasterRows :
    /\ RetryKeepsMasters("partner", records, rows)
    /\ (\A i \in DOMAIN rows : rows[i].vat = Blank) => RetryKeepsMasters("tax", records, rows)

\* Two rows of one name, the second with a VAT number: the second load stops.
ASSUME TwoOfOneName ==
  \E records \in UpTo(1, MasterRecord({"a", "b", "c"})), rows \in MasterRows :
    LET whole == LoadMasters("partner", records, rows) IN
    IdsUnique(rows) /\ ~whole.stopped /\ LoadMasters("partner", whole.records, rows).stopped

-----------------------------------------------------------------------------
H == INSTANCE SourceArchive

HistoryLine ==
  [entry : {"e"}, id : {1, 2, 3, 4}, day : {1}, debit : {0, 1}, credit : {0, 1}]

History == {rows \in UNION {kSubset(k, HistoryLine) : k \in {2, 3}} : H!RowsAllowed(rows, 1)}

\* Two calls at once, the second with the archive it saw before the first:
\* the entry may gain lines, as no later call could make it, but balances.
ASSUME ArchivedAtOnce ==
  LET both(first, second) == H!Archived(first, {}, second) IN
  /\ \A first, second \in History : H!ArchiveAllowed(first, {}, second, 1) =>
       H!EntriesBalance(both(first, second)) /\ H!LinesUnique(both(first, second))
  /\ \E first, second \in History :
       H!ArchiveAllowed(first, {}, second, 1) /\ ~H!ArchiveAllowed(first, first, second, 1)

-----------------------------------------------------------------------------
MCTypeOf ==
  [a \in {"ar", "bank", "capital", "opening"} |->
     CASE a = "ar" -> "asset_receivable" [] a = "bank" -> "asset_cash" [] OTHER -> "equity"]

Policy == INSTANCE CutoverPolicy WITH
  Account <- DOMAIN MCTypeOf, TypeOf <- MCTypeOf, Clearing <- "opening", Nobody <- "nobody"

Side(a, amount) ==
  [account |-> a, debit |-> IF amount > 0 THEN amount ELSE 0,
                  credit |-> IF amount < 0 THEN -amount ELSE 0]

Items ==
  [source : {"i1", "i2"}, account : {"ar", "bank"}, partner : {"ana"},
   kind : {"out_invoice", "out_refund"}, residual : 1 .. 2, late : {FALSE}]

Receipts ==
  [source : {"i1", "r1"}, cash : {"ar", "bank"}, receivable : {"ar"}, partner : {"ana", "nobody"},
   amount : {1}, evidence : {TRUE}, disposition : {"already_allocated", "unallocated"},
   late : {FALSE}]

Payloads ==
  {[named |-> TRUE, ready |-> TRUE, items |-> items, receipts |-> receipts,
    balances |-> <<Side("ar", ar), Side("bank", bank), Side("capital", -ar - bank)>>] :
     items \in {s \in UpTo(2, Items) : Len(s) > 1 => s[1].source = "i1"},
     receipts \in UpTo(1, Receipts), ar \in -2 .. 2, bank \in 0 .. 1}

ASSUME CutoverPlans ==
  /\ \A p \in Payloads : Policy!PlanOpensTheBooks(p)
  /\ \E p \in Payloads : Policy!Accepted(p) /\ Len(p.items) = 2 /\ p.receipts # <<>>
===============================================================================
