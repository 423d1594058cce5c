----------------------------- MODULE PackageRules -----------------------------
(***************************************************************************)
(* A migration package and what is made of it: the checks of               *)
(* migration_validate.py and the documents migration_load.py asks the      *)
(* server for, one call each, in this order.  A load is not atomic, so a   *)
(* lookup that fails in the middle of it would leave half a package on the *)
(* books: the checks must exclude it.                                      *)
(*                                                                         *)
(* The records of the master files are found or created one server call at *)
(* a time.                                                                 *)
(*                                                                         *)
(* A file is a sequence of rows.  Blank is an empty field and Bad a field  *)
(* that is no date, or no finite nonnegative decimal.                      *)
(***************************************************************************)
EXTENDS Integers, Sequences, Functions, FiniteSets, SequencesExt, TLC

CONSTANTS Id, Date, Blank, Bad

ASSUME FieldAssumption ==
  /\ Blank \notin Id \cup Date \cup Nat /\ Bad \notin Id \cup Date \cup Nat
  /\ Blank # Bad

Money == Nat \cup {Blank, Bad}

AccountLine == [id : Id \cup {Blank}, code : Id \cup {Blank}, filled : BOOLEAN]
PartnerLine == [id : Id \cup {Blank}, filled : BOOLEAN, flags : BOOLEAN]
TaxLine == [id : Id \cup {Blank}, filled : BOOLEAN, amount : Money, kinds : BOOLEAN]
OpenItemLine ==
  [id : Id \cup {Blank}, partner : Id \cup {Blank}, account : Id \cup {Blank},
   counterpart : Id \cup {Blank}, kind : {"out_invoice", "in_invoice", Bad},
   date : Date \cup {Blank, Bad}, due : Date \cup {Blank, Bad}, amount : Money]
TransactionLine ==
  [entry : Id \cup {Blank}, line : Id \cup {Blank}, date : Date \cup {Blank, Bad},
   account : Id \cup {Blank}, partner : Id \cup {Blank}, tax : Id \cup {Blank},
   debit : Money, credit : Money]
OpeningLine == [account : Id \cup {Blank}, debit : Money, credit : Money]

(* whole says that the six files exist with their columns and can be read, *)
(* receipts that there is a file of undeposited receipts.                  *)
Package ==
  [whole : BOOLEAN, receipts : BOOLEAN, accounts : Seq(AccountLine),
   partners : Seq(PartnerLine), taxes : Seq(TaxLine), openItems : Seq(OpenItemLine),
   transactions : Seq(TransactionLine), opening : Seq(OpeningLine)]

-----------------------------------------------------------------------------
(* load_csv: rows with an identifier of their own.                         *)
IdsFilled(rows) == \A i \in DOMAIN rows : rows[i].id # Blank

IdsUnique(rows) == \A i, j \in DOMAIN rows : rows[i].id = rows[j].id => i = j

Identified(rows) == IdsFilled(rows) /\ IdsUnique(rows)

Ids(rows) == {rows[i].id : i \in DOMAIN rows}

(* parse_decimal.                                                          *)
IsAmount(x) == x \in Nat

AccountsValid(pkg) ==
  /\ Identified(pkg.accounts)
  /\ \A i \in DOMAIN pkg.accounts : pkg.accounts[i].filled /\ pkg.accounts[i].code # Blank

PartnersValid(pkg) ==
  /\ Identified(pkg.partners)
  /\ \A i \in DOMAIN pkg.partners : pkg.partners[i].filled /\ pkg.partners[i].flags

TaxesValid(pkg) ==
  /\ Identified(pkg.taxes)
  /\ \A i \in DOMAIN pkg.taxes :
       pkg.taxes[i].filled /\ IsAmount(pkg.taxes[i].amount) /\ pkg.taxes[i].kinds

OpenItemValid(pkg, row) ==
  /\ row.date \in Date /\ row.due \in Date \cup {Blank}
  /\ row.partner \in Ids(pkg.partners)
  /\ row.account \in Ids(pkg.accounts) /\ row.counterpart \in Ids(pkg.accounts)
  /\ row.kind \in {"out_invoice", "in_invoice"}
  /\ IsAmount(row.amount)

OpenItemsValid(pkg) ==
  /\ Identified(pkg.openItems)
  /\ \A i \in DOMAIN pkg.openItems : OpenItemValid(pkg, pkg.openItems[i])

TransactionValid(pkg, row) ==
  /\ row.entry # Blank /\ row.line # Blank /\ row.date \in Date
  /\ row.account \in Ids(pkg.accounts)
  /\ row.partner \in Ids(pkg.partners) \cup {Blank}
  /\ IsAmount(row.debit) /\ IsAmount(row.credit)
  /\ (row.debit = 0) # (row.credit = 0)
  /\ row.tax \in Ids(pkg.taxes) \cup {Blank}

LinesOf(pkg, entry) ==
  {i \in DOMAIN pkg.transactions : pkg.transactions[i].entry = entry}

Entries(pkg) == {pkg.transactions[i].entry : i \in DOMAIN pkg.transactions}

(* The sum of a column over some rows.                                     *)
Debits(rows, S) == SumFunctionOnSet([i \in S |-> rows[i].debit], S)
Credits(rows, S) == SumFunctionOnSet([i \in S |-> rows[i].credit], S)

Balanced(rows, S) == Debits(rows, S) = Credits(rows, S)

TransactionsValid(pkg) ==
  LET rows == pkg.transactions IN
  /\ \A i \in DOMAIN rows : TransactionValid(pkg, rows[i])
  /\ \A i, j \in DOMAIN rows :
       rows[i].entry = rows[j].entry =>
         /\ rows[i].date = rows[j].date
         /\ rows[i].line = rows[j].line => i = j
  /\ \A entry \in Entries(pkg) : Balanced(rows, LinesOf(pkg, entry))

OpeningValid(pkg) ==
  LET rows == pkg.opening IN
  /\ \A i \in DOMAIN rows :
       /\ rows[i].account \in Ids(pkg.accounts)
       /\ IsAmount(rows[i].debit) /\ IsAmount(rows[i].credit)
       /\ rows[i].debit = 0 \/ rows[i].credit = 0
  /\ \A i, j \in DOMAIN rows : rows[i].account = rows[j].account => i = j
  /\ Balanced(rows, DOMAIN rows)

(* The three ways of stating the books are alternatives.                   *)
OneBasis(pkg) ==
  /\ pkg.opening # <<>> => pkg.openItems = <<>> /\ pkg.transactions = <<>>
  /\ pkg.openItems # <<>> => pkg.transactions = <<>>

(* No identifier is used by two files.                                     *)
IdsDisjoint(pkg) ==
  LET files == <<Ids(pkg.accounts), Ids(pkg.partners), Ids(pkg.taxes), Ids(pkg.openItems)>> IN
  \A f, g \in 1 .. 4 : f # g => files[f] \cap files[g] \subseteq {Blank}

(* validate_package.                                                       *)
Valid(pkg) ==
  /\ pkg.whole /\ ~pkg.receipts
  /\ AccountsValid(pkg) /\ PartnersValid(pkg) /\ TaxesValid(pkg)
  /\ OpenItemsValid(pkg) /\ TransactionsValid(pkg) /\ OpeningValid(pkg)
  /\ OneBasis(pkg) /\ IdsDisjoint(pkg)

-----------------------------------------------------------------------------
(* The maps from source identifiers to records that load fills from the    *)
(* master files, here the identifiers they are defined for, and what it    *)
(* looks up in them.                                                       *)
AccountLookups(pkg) ==
  {pkg.opening[i].account : i \in DOMAIN pkg.opening}
    \cup {pkg.transactions[i].account : i \in DOMAIN pkg.transactions}
    \cup UNION {{pkg.openItems[i].account, pkg.openItems[i].counterpart} :
                  i \in DOMAIN pkg.openItems}

PartnerLookups(pkg) == {pkg.openItems[i].partner : i \in DOMAIN pkg.openItems}

TaxLookups(pkg) ==
  {pkg.transactions[i].tax : i \in DOMAIN pkg.transactions} \ {Blank}

(* The documents asked for, by their source identifiers.                   *)
OpeningDocument == <<"OPENING">>

Documents(pkg) ==
  (IF pkg.opening = <<>> THEN {} ELSE {OpeningDocument})
    \cup {<<"TRANSACTION", entry>> : entry \in Entries(pkg)}
    \cup {<<pkg.openItems[i].id>> : i \in DOMAIN pkg.openItems}

(* Their contents.  args are the arguments of the load: the journals,      *)
(* Blank where none is named, and the date of the cutover.                 *)
Or(journal, general) == IF journal = Blank THEN general ELSE journal

OpeningMove(pkg, args) ==
  [kind |-> "entry", journal |-> Or(args.opening, args.general), date |-> args.date,
   lines |-> [i \in DOMAIN pkg.opening |->
                [account |-> pkg.opening[i].account, debit |-> pkg.opening[i].debit,
                 credit |-> pkg.opening[i].credit]]]

(* The lines of an entry keep the numbers of their rows.  The date is that *)
(* of the first; TransactionsValid gives the rows of an entry one date.    *)
TransactionMove(pkg, args, entry) ==
  LET S == LinesOf(pkg, entry)
      row(i) == pkg.transactions[i] IN
  [kind |-> "entry", journal |-> args.general,
   date |-> row(CHOOSE i \in S : TRUE).date,
   lines |-> [i \in S |-> [account |-> row(i).account, partner |-> row(i).partner,
                          tax |-> row(i).tax, debit |-> row(i).debit,
                          credit |-> row(i).credit]]]

OpenItemMove(args, row) ==
  [kind |-> row.kind, partner |-> row.partner, date |-> row.date, due |-> row.due,
   journal |-> IF row.kind = "out_invoice" THEN Or(args.sales, args.general)
               ELSE Or(args.purchase, args.general),
   control |-> row.account,
   lines |-> <<[account |-> row.counterpart, price |-> row.amount]>>]

(* main and the checks load starts with; hash is the content that main     *)
(* validated and fresh what is there now.                                  *)
MayLoad(pkg, hash, fresh, args) ==
  /\ Valid(pkg) /\ hash = fresh
  /\ args.general # Blank /\ args.date # Blank
  /\ pkg.openItems # <<>> => args.sales # Blank /\ args.purchase # Blank
-----------------------------------------------------------------------------
(* The master files: the account, partner or tax of each row.  A record is *)
(* its source identifier, its name (the code of an account) and its VAT    *)
(* number; records are numbered in the order of their creation.            *)
MasterRow(Text) == [id : Text, name : Text, vat : Text \cup {Blank}]
MasterRecord(Text) ==
  [source : Text \cup {Blank}, name : Text, vat : Text \cup {Blank}]

-----------------------------------------------------------------------------
(* existing_source_record.                                                 *)
OfSource(records, row) == {r \in DOMAIN records : records[r].source = row.id}

(* A partner with a VAT number is looked for by it, others by their name.  *)
OfKey(records, row) ==
  {r \in DOMAIN records :
     IF row.vat # Blank THEN records[r].vat = row.vat ELSE records[r].name = row.name}

(* existing_one stops the load when it finds two; taxes are looked for by  *)
(* their name in any case, the others only when the source finds none.     *)
Ambiguous(kind, records, row) ==
  \/ Cardinality(OfSource(records, row)) > 1
  \/ /\ Cardinality(OfKey(records, row)) > 1
     /\ kind = "tax" \/ OfSource(records, row) = {}

Matches(records, row) ==
  IF OfSource(records, row) # {} THEN OfSource(records, row) ELSE OfKey(records, row)

(* persist_source_identifier writes it where there is none.                *)
Adopt(record, row) ==
  [record EXCEPT !.source = IF @ = Blank THEN row.id ELSE @]

(* The load of one row; of maps the identifiers of the rows to records.    *)
LoadRow(kind, state, row) ==
  LET found == Matches(state.records, row)
      r == CHOOSE r \in found : TRUE IN
  IF state.stopped \/ Ambiguous(kind, state.records, row)
  THEN [state EXCEPT !.stopped = TRUE]
  ELSE IF found # {}
  THEN [state EXCEPT !.records[r] = Adopt(@, row), !.of = (row.id :> r) @@ @]
  ELSE [state EXCEPT
          !.records = Append(@, [source |-> row.id, name |-> row.name, vat |-> row.vat]),
          !.of = (row.id :> Len(state.records) + 1) @@ @,
          !.created = @ + 1]

LoadMasters(kind, records, rows) ==
  FoldLeft(LAMBDA state, row : LoadRow(kind, state, row),
           [records |-> records, of |-> <<>>, created |-> 0, stopped |-> FALSE], rows)

-----------------------------------------------------------------------------
NamesUnique(rows) == \A i, j \in DOMAIN rows : rows[i].name = rows[j].name => i = j

(* A load that was cut off after any number of its master rows and started *)
(* again ends with the records and the map of one that was not: it creates *)
(* nothing twice and takes nobody for somebody else.  Only rows of one     *)
(* name break this: a second partner of the name, with a VAT number, makes *)
(* the name of the first ambiguous.                                        *)
RetryKeepsMasters(kind, records, rows) ==
  LET whole == LoadMasters(kind, records, rows) IN
  IdsUnique(rows) /\ NamesUnique(rows) /\ ~whole.stopped =>
    \A k \in 0 .. Len(rows) :
      LET cut == LoadMasters(kind, records, SubSeq(rows, 1, k))
          again == LoadMasters(kind, cut.records, rows) IN
      /\ ~again.stopped /\ again.of = whole.of /\ again.records = whole.records
      /\ cut.created + again.created = whole.created
===============================================================================
