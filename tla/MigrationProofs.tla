---------------------------- MODULE MigrationProofs ----------------------------
(***************************************************************************)
(* Machine-checked proofs about MigrationCutover, for every number of      *)
(* requests, loaders, reconciliation rows and documents: sign-off, cutover *)
(* and package load.  The batch's stored counters carry the first, the     *)
(* loaders' place in the package the last.  And what a package that was    *)
(* found valid guarantees the load (PackageRules), and what the archive of *)
(* the old books keeps (SourceArchive).                                    *)
(***************************************************************************)
EXTENDS MigrationCutover, PackageRules, SourceArchive, SnapshotProofs

(* The stored counters of the batch are those of its rows, and past draft  *)
(* it has some.                                                            *)
InState(rows, state) == {r \in RowsOf(rows) : rows[r].state = state}

Tally(rows) == [rows    |-> Cardinality(RowsOf(rows)),
                errors  |-> Cardinality(InState(rows, "error")),
                matched |-> Cardinality(InState(rows, "matched"))]

Counters(batch) == [rows |-> batch.rows, errors |-> batch.errors, matched |-> batch.matched]

RowValue == {Refreshed(target) : target \in 0 .. 2} \cup {Absent}

BatchOK(rows) ==
  /\ rows[Batch] \in BatchRow
  /\ \A r \in RecRow : rows[r] \in RowValue
  /\ Counters(rows[Batch]) = Tally(rows)
  /\ rows[Batch].state # "draft" => RowsOf(rows) # {}

DocumentsOK(rows) ==
  /\ \A d \in Opening \cup Other : rows[d] \in {"draft", "posted", Absent}
  /\ \A s \in Source : rows[s] \in Nat \cup {Absent}

(* Every change of a row changes a counter: who has not missed a change of *)
(* the batch reads its rows as they are committed.                         *)
RowsCurrent ==
  \A t \in active : Batch \notin missed[t] => \A r \in RecRow : view[t][r] = db[r]

(* A document that a package brought is neither changed nor deleted.       *)
SourcesKept ==
  \A t \in active : \A s \in Source : view[t][s] # Absent => db[s] = view[t][s]

(* A loader makes one call at a time, for a document of its package.       *)
CallsInOrder ==
  /\ caller \in [Txn -> Loader \cup {Nobody}]
  /\ phase \in [Loader -> {"idle", "loading", "applied", "failed"}]
  /\ at \in [Loader -> 1 .. Len(Order) + 1]
  /\ \A t \in Txn : caller[t] # Nobody =>
       t \in active /\ phase[caller[t]] = "loading" /\ at[caller[t]] <= Len(Order)
  /\ \A t, u \in Txn : caller[t] # Nobody /\ caller[t] = caller[u] => t = u
  /\ \A l \in Loader : phase[l] = "applied" => at[l] > Len(Order)

(* What a loader has come past is on the books as its package says.        *)
Loaded(rows, place) ==
  \A l \in Loader : \A k \in DOMAIN Order :
    k < place[l] => rows[Order[k]] = Says[l][Order[k]]

(* The inductive invariant.                                                *)
IInv ==
  /\ Discipline
  /\ BatchOK(db) /\ \A t \in active : BatchOK(view[t])
  /\ DocumentsOK(db) /\ \A t \in active : DocumentsOK(view[t])
  /\ RowsCurrent /\ SourcesKept
  /\ CallsInOrder /\ Loaded(db, at)

-----------------------------------------------------------------------------
(* The counters tell every row from another value of it.                   *)
LEMMA SameCount ==
  ASSUME NEW S, NEW T, NEW x, IsFiniteSet(S), IsFiniteSet(T),
         S \ {x} = T \ {x}, Cardinality(S) = Cardinality(T)
  PROVE  x \in S <=> x \in T
<1> DEFINE R == S \ {x}
<1>1. IsFiniteSet(R) /\ Cardinality(R) \in Nat
  BY FS_Subset, FS_CardinalityType
<1>2. ASSUME NEW A, IsFiniteSet(A), A \ {x} = R
      PROVE  Cardinality(A) = IF x \in A THEN Cardinality(R) + 1 ELSE Cardinality(R)
  <2>1. CASE x \in A
    <3>1. A = R \cup {x} /\ x \notin R
      BY <1>2, <2>1
    <3>2. QED
      BY <1>1, <2>1, <3>1, FS_AddElement
  <2>2. CASE x \notin A
    <3>1. A = R
      BY <1>2, <2>2
    <3>2. QED
      BY <2>2, <3>1
  <2>3. QED
    BY <2>1, <2>2
<1>3. /\ Cardinality(S) = IF x \in S THEN Cardinality(R) + 1 ELSE Cardinality(R)
      /\ Cardinality(T) = IF x \in T THEN Cardinality(R) + 1 ELSE Cardinality(R)
  BY <1>2
<1> HIDE DEF R
<1>4. Cardinality(R) # Cardinality(R) + 1
  BY <1>1
<1>5. QED
  BY <1>3, <1>4

LEMMA RowValues ==
  ASSUME NEW v \in RowValue, NEW w \in RowValue,
         v = Absent <=> w = Absent,
         v # Absent => /\ v.state = "error" <=> w.state = "error"
                       /\ v.state = "matched" <=> w.state = "matched"
  PROVE  v = w
<1>1. CASE v = Absent
  BY <1>1
<1>2. CASE v # Absent
  <2>1. PICK i \in 0 .. 2, j \in 0 .. 2 : v = Refreshed(i) /\ w = Refreshed(j)
    BY <1>2 DEF RowValue
  <2>2. /\ Refreshed(i).state = IF i = 1 THEN "matched" ELSE IF i = 0 THEN "pending" ELSE "error"
        /\ Refreshed(j).state = IF j = 1 THEN "matched" ELSE IF j = 0 THEN "pending" ELSE "error"
    BY DEF Refreshed
  <2>3. i = j
    BY <1>2, <2>1, <2>2
  <2>4. QED
    BY <2>1, <2>3
<1>3. QED
  BY <1>1, <1>2

LEMMA TallyTells ==
  ASSUME NEW rows, NEW other, NEW r \in RecRow,
         \A q \in RecRow \ {r} : rows[q] = other[q],
         rows[r] \in RowValue, other[r] \in RowValue,
         Tally(rows) = Tally(other)
  PROVE  rows[r] = other[r]
<1>1. \A A \in SUBSET RecRow : IsFiniteSet(A)
  BY AccountsAssumption, FS_Subset
<1>2. /\ RowsOf(rows) \in SUBSET RecRow /\ RowsOf(other) \in SUBSET RecRow
      /\ \A state : InState(rows, state) \in SUBSET RecRow /\ InState(other, state) \in SUBSET RecRow
  BY DEF RowsOf, InState
<1>3. /\ Cardinality(RowsOf(rows)) = Cardinality(RowsOf(other))
      /\ Cardinality(InState(rows, "error")) = Cardinality(InState(other, "error"))
      /\ Cardinality(InState(rows, "matched")) = Cardinality(InState(other, "matched"))
  BY DEF Tally
<1>4. RowsOf(rows) \ {r} = RowsOf(other) \ {r}
  BY DEF RowsOf
<1>5. \A state : InState(rows, state) \ {r} = InState(other, state) \ {r}
  BY DEF RowsOf, InState
<1>6. r \in RowsOf(rows) <=> r \in RowsOf(other)
  BY <1>1, <1>2, <1>3, <1>4, SameCount
<1>7. r \in InState(rows, "error") <=> r \in InState(other, "error")
  BY <1>1, <1>2, <1>3, <1>5, SameCount
<1>8. r \in InState(rows, "matched") <=> r \in InState(other, "matched")
  BY <1>1, <1>2, <1>3, <1>5, SameCount
<1>9. QED
  BY <1>6, <1>7, <1>8, RowValues DEF RowsOf, InState

LEMMA TallyDepends ==
  ASSUME NEW rows, NEW other, \A q \in RecRow : rows[q] = other[q]
  PROVE  RowsOf(rows) = RowsOf(other) /\ Tally(rows) = Tally(other)
BY DEF RowsOf, InState, Tally

LEMMA TallyType ==
  ASSUME NEW rows
  PROVE  /\ Cardinality(RowsOf(rows)) \in Nat
         /\ \A state : Cardinality(InState(rows, state)) \in Nat
BY AccountsAssumption, FS_Subset, FS_CardinalityType DEF RowsOf, InState

-----------------------------------------------------------------------------
(* The documents and the batch do not share rows.                          *)
LEMMA RowsApart ==
  /\ Batch \in Row /\ Company \in Row /\ RecRow \subseteq Row /\ Document \subseteq Row
  /\ Batch \notin RecRow \cup Document /\ Company \notin {Batch} \cup RecRow \cup Document
  /\ RecRow \cap Document = {}
  /\ Opening \cap (Source \cup Other) = {} /\ Source \cap Other = {}
BY RowAssumption DEF Document

(* What the commits leave, t being the request that commits.  One of a     *)
(* document writes nothing of the batch; one of the batch alone keeps what *)
(* it counts, and signs only with rows that all match; one of a row counts *)
(* it, past draft one that was not there; a cutover fills an empty ledger. *)
Aside(t, S) ==
  /\ t \in active /\ active' = active \ {t}
  /\ \A r \in Row \ S : db'[r] = db[r]
  /\ \A u \in active' : view'[u] = view[u] /\ missed[u] \subseteq missed'[u]
  /\ Discipline'

DocumentLeaves(t, d, value) ==
  /\ Aside(t, {d}) /\ db'[d] = value

BatchLeaves(t) ==
  /\ Aside(t, {Batch})
  /\ db'[Batch] \in BatchRow
  /\ Counters(db'[Batch]) = Counters(db[Batch])
  /\ db'[Batch].applied = db[Batch].applied
  /\ db'[Batch].state # "draft" => db[Batch].state # "draft" \/ AllMatched(db)
  /\ db'[Batch].state = "reconciled" => db[Batch].state = "reconciled" \/ AllMatched(db)

NothingLeaves(t) == Aside(t, {})

RowLeaves(t, r) ==
  /\ Aside(t, {Batch, r})
  /\ \A u \in active' : Batch \in missed'[u]
  /\ BatchOK(db')
  /\ db'[Batch].applied = db[Batch].applied
  /\ db'[Batch].state = db[Batch].state
  /\ db[Batch].state # "draft" => db[r] = Absent

CutoverLeaves(t) ==
  /\ Aside(t, {Batch} \cup Account \cup Opening)
  /\ \A u \in active' : Batch \in missed'[u]
  /\ LedgerEmpty(db)
  /\ db[Batch].state = "draft" /\ RowsOf(db) = {} /\ AllMatched(db')
  /\ db'[Batch].state = "loaded"
  /\ BatchOK(db')
  /\ \A d \in Opening : db'[d] = "posted"

LEMMA CommitAside ==
  ASSUME Discipline, NEW t \in active, NEW S \in SUBSET Row, NEW new,
         DOMAIN new \subseteq Row, CommitWith(t, new),
         \A r \in DOMAIN new \ S : new[r] = view[t][r]
  PROVE  /\ Aside(t, S)
         /\ \A r \in DOMAIN new : view[t][r] = db[r] /\ db'[r] = new[r]
         /\ \A u \in active', r \in DOMAIN new : r \in missed'[u]
BY CommitFacts DEF Aside

LEMMA ServeAside ==
  ASSUME Discipline, NEW t \in Txn, NEW S \in SUBSET Row, NEW new,
         DOMAIN new \subseteq Row, t \in active, Serve(t, new),
         \A r \in DOMAIN new \ S : new[r] = view[t][r]
  PROVE  /\ Aside(t, S) /\ UNCHANGED loadVars
         /\ \A r \in DOMAIN new : view[t][r] = db[r] /\ db'[r] = new[r]
         /\ \A u \in active', r \in DOMAIN new : r \in missed'[u]
BY CommitAside DEF Serve

LEMMA PutFacts ==
  ASSUME Discipline, NEW t \in Txn, NEW r \in Row, NEW value, t \in active,
         Serve(t, Put1(r, value))
  PROVE  /\ Aside(t, {r}) /\ UNCHANGED loadVars
         /\ view[t][r] = db[r] /\ db'[r] = value
         /\ \A u \in active' : r \in missed'[u]
<1>1. DOMAIN Put1(r, value) = {r} /\ Put1(r, value)[r] = value
  BY DEF Put1
<1>2. QED
  BY <1>1, ServeAside

-----------------------------------------------------------------------------
LEMMA DraftFacts ==
  ASSUME IInv, NEW t \in Txn, NEW d \in Other, CreateDraft(t, d) \/ UnlinkDraft(t, d)
  PROVE  /\ \E value \in {"draft", Absent} : DocumentLeaves(t, d, value)
         /\ UNCHANGED loadVars
<1>1. PICK value \in {"draft", Absent} : t \in active /\ Serve(t, Put1(d, value))
  BY DEF CreateDraft, UnlinkDraft, User
<1>2. d \in Row
  BY RowsApart DEF Document
<1>3. QED
  BY <1>1, <1>2, PutFacts DEF IInv, DocumentLeaves

LEMMA BatchRowCurrent ==
  ASSUME IInv, NEW t \in active, view[t][Batch] = db[Batch], Batch \notin missed[t]
  PROVE  /\ \A r \in RecRow : view[t][r] = db[r]
         /\ RowsOf(view[t]) = RowsOf(db) /\ Tally(view[t]) = Tally(db)
BY TallyDepends DEF IInv, RowsCurrent

(* A batch row written with other fields than its counters changed.        *)
LEMMA BatchWrite ==
  ASSUME IInv, NEW t \in Txn, NEW row, t \in active, Serve(t, Put1(Batch, row)),
         view[t][Batch] \in BatchRow =>
           /\ row \in BatchRow /\ Counters(row) = Counters(view[t][Batch])
           /\ row.applied = view[t][Batch].applied
           /\ row.state # "draft" => view[t][Batch].state # "draft"
           /\ row.state = "reconciled" => view[t][Batch].state = "reconciled" \/ AllMatched(view[t])
  PROVE  BatchLeaves(t) /\ UNCHANGED loadVars
<1>1. view[t][Batch] \in BatchRow /\ Discipline /\ Batch \in Row
  BY RowsApart DEF IInv, BatchOK
<1>2. /\ Aside(t, {Batch}) /\ UNCHANGED loadVars
      /\ view[t][Batch] = db[Batch] /\ db'[Batch] = row
  BY <1>1, PutFacts
<1>3. Batch \notin missed[t]
  <2>1. Batch \in DOMAIN Put1(Batch, row)
    BY DEF Put1
  <2>2. QED
    BY <2>1 DEF Serve, CommitWith, CanWrite
<1>4. AllMatched(view[t]) => AllMatched(db)
  <2>1. /\ \A r \in RecRow : view[t][r] = db[r]
        /\ RowsOf(view[t]) = RowsOf(db)
    BY <1>2, <1>3, BatchRowCurrent
  <2>2. QED
    BY <2>1 DEF AllMatched, RowsOf
<1>5. QED
  BY <1>1, <1>2, <1>4 DEF BatchLeaves

(* Counters that say so mean that all rows match.                          *)
LEMMA CountersMatch ==
  ASSUME NEW rows, BatchOK(rows), rows[Batch].state # "draft",
         rows[Batch].matched = rows[Batch].rows
  PROVE  AllMatched(rows)
<1>1. Cardinality(InState(rows, "matched")) = Cardinality(RowsOf(rows))
  BY DEF BatchOK, Counters, Tally
<1>2. InState(rows, "matched") \subseteq RowsOf(rows) /\ RowsOf(rows) \subseteq RecRow
  BY DEF InState, RowsOf
<1>3. IsFiniteSet(RowsOf(rows))
  BY <1>2, AccountsAssumption, FS_Subset
<1>4. InState(rows, "matched") = RowsOf(rows)
  BY <1>1, <1>2, <1>3, FS_Subset
<1>5. QED
  BY <1>4 DEF AllMatched, BatchOK, InState

LEMMA BatchMoveFacts ==
  ASSUME IInv, NEW t \in Txn,
         \/ MarkLoaded(t) \/ MarkReconciled(t)
         \/ \E payload \in 1 .. 2 : ReviewCutoverFile(t, payload)
  PROVE  BatchLeaves(t) /\ UNCHANGED loadVars
<1>1. ASSUME MarkLoaded(t) PROVE BatchLeaves(t) /\ UNCHANGED loadVars
  BY <1>1, BatchWrite DEF MarkLoaded, User, BatchRow, Counters
<1>2. ASSUME MarkReconciled(t) PROVE BatchLeaves(t) /\ UNCHANGED loadVars
  <2>1. /\ t \in active /\ view[t][Batch].state = "loaded"
        /\ view[t][Batch].matched = view[t][Batch].rows
        /\ Serve(t, Put1(Batch, [view[t][Batch] EXCEPT !.state = "reconciled"]))
    BY <1>2 DEF MarkReconciled, User
  <2>2. AllMatched(view[t])
    BY <2>1, CountersMatch DEF IInv
  <2>3. QED
    BY <2>1, <2>2, BatchWrite DEF BatchRow, Counters
<1>3. ASSUME NEW payload \in 1 .. 2, ReviewCutoverFile(t, payload)
      PROVE  BatchLeaves(t) /\ UNCHANGED loadVars
  BY <1>3, BatchWrite DEF ReviewCutoverFile, User, BatchRow, Counters
<1>4. QED
  BY <1>1, <1>2, <1>3

LEMMA ValidateFacts ==
  ASSUME IInv, NEW t \in Txn, Validate(t)
  PROVE  BatchLeaves(t) /\ UNCHANGED loadVars
<1> DEFINE row == [view[t][Batch] EXCEPT !.state = "validated"]
           new == [x \in {Batch} \cup RowsOf(view[t]) |->
                     IF x = Batch THEN row ELSE view[t][x]]
<1>1. /\ t \in active /\ Serve(t, new)
      /\ RowsOf(view[t]) # {} /\ \A r \in RowsOf(view[t]) : view[t][r].state = "matched"
  BY DEF Validate, User
<1>2. RowsOf(view[t]) \subseteq RecRow
  BY DEF RowsOf
<1>3. /\ DOMAIN new = {Batch} \cup RowsOf(view[t]) /\ DOMAIN new \subseteq Row
      /\ new[Batch] = row /\ \A r \in DOMAIN new \ {Batch} : new[r] = view[t][r]
  BY <1>2, RowsApart
<1>4. row \in BatchRow /\ Counters(row) = Counters(view[t][Batch])
      /\ row.applied = view[t][Batch].applied
  BY <1>1 DEF IInv, BatchOK, BatchRow, Counters
<1> HIDE DEF new, row
<1>5. /\ Aside(t, {Batch}) /\ UNCHANGED loadVars
      /\ view[t][Batch] = db[Batch] /\ db'[Batch] = row
  BY <1>1, <1>3, RowsApart, ServeAside DEF IInv
<1>6. Batch \notin missed[t]
  BY <1>1, <1>3 DEF Serve, CommitWith, CanWrite
<1>7. AllMatched(db)
  BY <1>1, <1>2, <1>5, <1>6, BatchRowCurrent DEF AllMatched
<1>8. QED
  BY <1>4, <1>5, <1>7 DEF BatchLeaves

LEMMA AgainFacts ==
  ASSUME IInv, NEW t \in Txn, ApplyCutoverAgain(t)
  PROVE  NothingLeaves(t) /\ UNCHANGED loadVars
<1> DEFINE new == [x \in {Company, Batch} |-> view[t][x]]
<1>1. t \in active /\ Serve(t, new)
  BY DEF ApplyCutoverAgain, User
<1>2. DOMAIN new \subseteq Row /\ \A r \in DOMAIN new \ {} : new[r] = view[t][r]
  BY RowsApart
<1> HIDE DEF new
<1>3. QED
  BY <1>1, <1>2, ServeAside DEF IInv, NothingLeaves

LEMMA RefreshedTo ==
  /\ \A target \in 0 .. 2 : Refreshed(target) \in ReconciliationRow /\ Refreshed(target) # Absent
  /\ Refreshed(1).state = "matched"
BY AbsentAssumption DEF Refreshed, ReconciliationRow

(* A row is written: nothing changes, or the batch is written with it.     *)
LEMMA RowWriteFacts ==
  ASSUME IInv, NEW t \in Txn, NEW r \in RecRow, NEW new \in RowValue, t \in active,
         Settled(t) => view[t][r] = Absent /\ new # Absent,
         Serve(t, RowWrites(t, r, new))
  PROVE  (NothingLeaves(t) \/ RowLeaves(t, r)) /\ UNCHANGED loadVars
<1> DEFINE after == [view[t] EXCEPT ![r] = new]
           old == view[t][Batch]
           batch == [old EXCEPT !.rows = Cardinality(RowsOf(after)),
                                !.errors = Cardinality(InState(after, "error")),
                                !.matched = Cardinality(InState(after, "matched"))]
           changed == IF batch = old THEN {r} ELSE {r, Batch}
           writes == [x \in changed |-> IF x = r THEN new ELSE batch]
<1>1. RowWrites(t, r, new) = writes
  BY DEF RowWrites, InState
<1>2. r \in Row /\ r # Batch /\ DOMAIN view[t] = Row
  BY RowsApart DEF IInv, Discipline
<1>3. after[r] = new /\ \A q \in RecRow \ {r} : after[q] = view[t][q]
  BY <1>2, RowsApart
<1>4. /\ \A q \in RecRow : view[t][q] \in RowValue /\ after[q] \in RowValue
      /\ old \in BatchRow /\ Counters(old) = Tally(view[t])
  BY <1>3 DEF IInv, BatchOK
<1>5. old.state # "draft" => view[t][r] = Absent /\ new # Absent
  BY <1>4 DEF Settled, BatchRow
<1>6. /\ batch \in BatchRow /\ Counters(batch) = Tally(after)
      /\ batch.applied = old.applied /\ batch.state = old.state
  BY <1>4, TallyType DEF BatchRow, Counters, Tally
<1> HIDE DEF after, batch
<1>7. CASE batch = old
  <2>1. view[t][r] = new
    BY <1>3, <1>4, <1>6, <1>7, TallyTells
  <2>2. DOMAIN writes = {r} /\ writes[r] = view[t][r]
    BY <1>7, <2>1
  <2>3. DOMAIN writes \subseteq Row /\ \A q \in DOMAIN writes \ {} : writes[q] = view[t][q]
    BY <1>2, <2>2
  <2> HIDE DEF writes
  <2>4. QED
    BY <1>1, <2>3, ServeAside DEF IInv, NothingLeaves
<1>8. CASE batch # old
  <2>1. DOMAIN writes = {r, Batch} /\ writes[r] = new /\ writes[Batch] = batch
    BY <1>2, <1>8
  <2> HIDE DEF writes, changed
  <2>2. DOMAIN writes \subseteq Row /\ {Batch, r} \in SUBSET Row
    BY <1>2, <2>1, RowsApart
  <2>3. /\ Aside(t, {Batch, r}) /\ UNCHANGED loadVars
        /\ db'[r] = new /\ db'[Batch] = batch /\ old = db[Batch]
        /\ \A u \in active' : Batch \in missed'[u]
    BY <1>1, <2>1, <2>2, ServeAside DEF IInv
  <2>4. Batch \notin missed[t]
    BY <1>1, <2>1 DEF Serve, CommitWith, CanWrite
  <2>5. \A q \in RecRow : view[t][q] = db[q]
    BY <2>3, <2>4, BatchRowCurrent
  <2>6. \A q \in RecRow : db'[q] = after[q]
    BY <1>2, <1>3, <2>3, <2>5, RowsApart DEF Aside
  <2>7. Tally(db') = Tally(after)
    BY <2>6, TallyDepends
  <2>8. db'[Batch].state # "draft" => RowsOf(db') # {}
    BY <1>5, <1>6, <2>3 DEF RowsOf
  <2>9. BatchOK(db')
    BY <1>4, <1>6, <2>3, <2>6, <2>7, <2>8 DEF BatchOK
  <2>10. QED
    BY <1>5, <1>6, <2>3, <2>5, <2>9 DEF RowLeaves
<1>9. QED
  BY <1>7, <1>8

LEMMA RowFacts ==
  ASSUME IInv, NEW t \in Txn, NEW r \in RecRow,
         \/ \E target \in 0 .. 2 : WriteRow(t, r, target) \/ MoveRowIn(t, r, target)
         \/ UnlinkRow(t, r)
  PROVE  (NothingLeaves(t) \/ RowLeaves(t, r)) /\ UNCHANGED loadVars
<1>1. \A target \in 0 .. 2 : Refreshed(target) \in RowValue /\ Refreshed(target) # Absent
  BY RefreshedTo DEF RowValue
<1>2. Absent \in RowValue
  BY DEF RowValue
<1>3. QED
  BY <1>1, <1>2, RowWriteFacts DEF WriteRow, MoveRowIn, UnlinkRow, User, Exists

LEMMA CutoverFacts ==
  ASSUME IInv, NEW t \in Txn, ApplyCutover(t)
  PROVE  CutoverLeaves(t) /\ UNCHANGED loadVars
<1> DEFINE old == view[t][Batch]
           batch == [old EXCEPT !.state = "loaded", !.applied = @ + old.payload,
                                !.rows = Cardinality(Account), !.matched = Cardinality(Account)]
           written == {Company, Batch} \cup Opening \cup Account
           new == [x \in written |->
                     CASE x = Company -> view[t][Company]
                       [] x = Batch -> batch
                       [] x \in Account -> Refreshed(1)
                       [] OTHER -> "posted"]
<1>1. /\ t \in active /\ Serve(t, new) /\ LedgerEmpty(db)
      /\ old.applied = 0 /\ old.state = "draft" /\ RowsOf(view[t]) = {}
  BY DEF ApplyCutover, User, LedgerEmptyNow
<1>2. /\ DOMAIN new = written /\ written \subseteq Row /\ Opening \subseteq Document
      /\ new[Company] = view[t][Company] /\ new[Batch] = batch
  BY RowsApart, AccountsAssumption DEF Document
<1>3. \A x \in Account : new[x] = Refreshed(1)
  BY RowsApart, AccountsAssumption DEF Document
<1>4. \A x \in Opening : new[x] = "posted"
  BY RowsApart, AccountsAssumption DEF Document
<1>5. old \in BatchRow /\ Counters(old) = Tally(view[t])
  BY <1>1 DEF IInv, BatchOK
<1>6. InState(view[t], "error") = {} /\ Cardinality({}) = 0
  BY <1>1, FS_EmptySet DEF InState
<1>7. old.errors = 0
  BY <1>5, <1>6 DEF Counters, Tally
<1>8. Cardinality(Account) \in Nat
  BY AccountsAssumption, FS_Subset, FS_CardinalityType
<1>9. /\ batch \in BatchRow /\ batch.state = "loaded"
      /\ Counters(batch) = [rows |-> Cardinality(Account), errors |-> 0,
                            matched |-> Cardinality(Account)]
  <2>1. old.payload \in 1 .. 2 /\ old.applied + old.payload \in 0 .. 2
    BY <1>1, <1>5 DEF BatchRow
  <2>2. batch \in BatchRow /\ batch.state = "loaded"
    BY <1>5, <1>8, <2>1 DEF BatchRow
  <2>3. batch.rows = Cardinality(Account) /\ batch.matched = Cardinality(Account)
        /\ batch.errors = 0
    BY <1>5, <1>7 DEF BatchRow
  <2>4. QED
    BY <2>2, <2>3 DEF Counters
<1> HIDE DEF new, batch
<1>10. \A r \in DOMAIN new \ ({Batch} \cup Account \cup Opening) : new[r] = view[t][r]
  BY <1>2
<1>11. /\ Aside(t, {Batch} \cup Account \cup Opening) /\ UNCHANGED loadVars
       /\ \A r \in DOMAIN new : view[t][r] = db[r] /\ db'[r] = new[r]
       /\ \A u \in active' : Batch \in missed'[u]
  <2>1. {Batch} \cup Account \cup Opening \in SUBSET Row
    BY RowsApart, AccountsAssumption DEF Document
  <2>2. Batch \in DOMAIN new
    BY <1>2
  <2>3. QED
    BY <1>1, <1>2, <1>10, <2>1, <2>2, ServeAside DEF IInv
<1>12. /\ db'[Batch] = batch /\ \A r \in Account : db'[r] = Refreshed(1)
       /\ \A d \in Opening : db'[d] = "posted"
  BY <1>2, <1>3, <1>4, <1>11
<1>13. /\ old = db[Batch] /\ RowsOf(db) = {}
  <2>1. Batch \notin missed[t]
    BY <1>1, <1>2 DEF Serve, CommitWith, CanWrite
  <2>2. QED
    BY <1>1, <1>2, <1>11, <2>1, BatchRowCurrent
<1>14. \A r \in RecRow \ Account : db'[r] = Absent
  BY <1>11, <1>13, RowsApart DEF Aside, RowsOf, Document
<1>15. RowsOf(db') = Account /\ InState(db', "matched") = Account /\ InState(db', "error") = {}
  <2>1. RowsOf(db') = Account
    BY <1>12, <1>14, RefreshedTo, AccountsAssumption DEF RowsOf
  <2>2. QED
    BY <1>12, <2>1, RefreshedTo DEF InState
<1>16. AllMatched(db')
  BY <1>12, <1>15, RefreshedTo, AccountsAssumption DEF AllMatched
<1>17. Counters(batch) = Tally(db')
  BY <1>6, <1>9, <1>15 DEF Tally
<1>18. \A r \in RecRow : db'[r] \in RowValue
  BY <1>12, <1>14 DEF RowValue
<1>19. BatchOK(db')
  BY <1>9, <1>12, <1>15, <1>17, <1>18, AccountsAssumption DEF BatchOK
<1>20. QED
  BY <1>1, <1>9, <1>11, <1>12, <1>13, <1>16, <1>19 DEF CutoverLeaves

-----------------------------------------------------------------------------
(* The steps by what they leave.  Imports leave one document of a package, *)
(* new, with the content that the caller's package has.                    *)
ImportLeaves(t, l) ==
  LET s == Order[at[l]] IN
  /\ Aside(t, {s})
  /\ db[s] = Absent /\ db'[s] = Says[l][s]
  /\ Answer(t, l)

UserEffect(t) ==
  /\ \/ BeginTxn(t)
     \/ caller[t] = Nobody /\ AbortTxn(t)
     \/ /\ caller[t] = Nobody
        /\ \/ \E d \in Other, value \in {"draft", Absent} : DocumentLeaves(t, d, value)
           \/ BatchLeaves(t) \/ NothingLeaves(t) \/ CutoverLeaves(t)
           \/ \E r \in RecRow : RowLeaves(t, r)
  /\ UNCHANGED loadVars

LoadEffect(l) ==
  \/ StartLoad(l) \/ FinishLoad(l)
  \/ \E t \in Txn :
       \/ CallImport(l, t)
       \/ FindImported(t, l)
       \/ RefuseImport(t, l)
       \/ caller[t] = l /\ t \in active /\ ImportLeaves(t, l)

LEMMA CalledInPackage ==
  ASSUME CallsInOrder, NEW t \in Txn, NEW l \in Loader, caller[t] = l
  PROVE  at[l] \in DOMAIN Order /\ Order[at[l]] \in Source /\ phase[l] = "loading"
<1>1. at[l] \in 1 .. Len(Order) + 1 /\ at[l] <= Len(Order) /\ phase[l] = "loading"
  BY NobodyAssumption DEF CallsInOrder
<1>2. DOMAIN Order = 1 .. Len(Order) /\ Len(Order) \in Nat
  BY PackageAssumption
<1>3. at[l] \in DOMAIN Order
  BY <1>1, <1>2
<1>4. QED
  BY <1>1, <1>3, PackageAssumption

LEMMA ImportFacts ==
  ASSUME IInv, NEW t \in Txn, NEW l \in Loader, ImportMove(t, l)
  PROVE  /\ caller[t] = l /\ t \in active /\ Order[at[l]] \in Source
         /\ ImportLeaves(t, l)
<1> DEFINE s == Order[at[l]]
           new == Put1(s, Says[l][s])
<1>1. /\ t \in active /\ caller[t] = l /\ view[t][s] = Absent
      /\ CommitWith(t, new) /\ Answer(t, l)
  BY DEF ImportMove, Exists
<1>2. at[l] \in DOMAIN Order
  BY <1>1, CalledInPackage DEF IInv
<1>3. s \in Source /\ s \in Row
  BY <1>2, PackageAssumption, RowsApart DEF Document
<1>4. DOMAIN new = {s} /\ new[s] = Says[l][s]
  BY DEF Put1
<1> HIDE DEF new, s
<1>5. Aside(t, {s}) /\ view[t][s] = db[s] /\ db'[s] = Says[l][s]
  BY <1>1, <1>3, <1>4, CommitAside DEF IInv
<1>6. QED
  BY <1>1, <1>3, <1>5 DEF ImportLeaves, s

LEMMA NextEffect ==
  ASSUME IInv, Next
  PROVE  (\E t \in Txn : UserEffect(t)) \/ (\E l \in Loader : LoadEffect(l))
<1>1. ASSUME NEW t \in Txn, BatchStep(t) PROVE UserEffect(t)
  <2>1. caller[t] = Nobody
    BY <1>1 DEF BatchStep, WriteRow, MoveRowIn, UnlinkRow, Validate, MarkLoaded, MarkReconciled,
                ReviewCutoverFile, ApplyCutover, ApplyCutoverAgain, User
  <2>2. QED
    BY <1>1, <2>1, RowFacts, ValidateFacts, BatchMoveFacts, CutoverFacts, AgainFacts
       DEF BatchStep, UserEffect
<1>2. ASSUME NEW t \in Txn, Begin(t) \/ Abort(t) PROVE UserEffect(t)
  BY <1>2 DEF Begin, Abort, User, UserEffect
<1>3. ASSUME NEW t \in Txn, NEW d \in Other, CreateDraft(t, d) \/ UnlinkDraft(t, d)
      PROVE  UserEffect(t)
  <2>1. caller[t] = Nobody
    BY <1>3 DEF CreateDraft, UnlinkDraft, User
  <2>2. QED
    BY <1>3, <2>1, DraftFacts DEF UserEffect
<1>4. ASSUME NEW l \in Loader, LoadStep(l) PROVE LoadEffect(l)
  BY <1>4, ImportFacts DEF LoadStep, LoadEffect
<1>5. QED
  BY <1>1, <1>2, <1>3, <1>4 DEF Next

-----------------------------------------------------------------------------
LEMMA Initially == Init => IInv
<1> SUFFICES ASSUME Init PROVE IInv
  OBVIOUS
<1> DEFINE draft == [state |-> "draft", payload |-> 1, applied |-> 0,
                     rows |-> 0, errors |-> 0, matched |-> 0]
<1>1. DBInitWith([r \in Row |->
       CASE r = Company -> "books" [] r = Batch -> draft [] OTHER -> Absent])
  BY DEF Init
<1>2. /\ db[Batch] = draft /\ active = {}
      /\ \A r \in RecRow \cup Document : db[r] = Absent
  BY <1>1, RowsApart DEF DBInitWith
<1>3. Discipline
  BY <1>1, DisciplineInit
<1>4. RowsOf(db) = {} /\ InState(db, "error") = {} /\ InState(db, "matched") = {}
  BY <1>2 DEF RowsOf, InState
<1>5. BatchOK(db)
  <2>1. Tally(db) = [rows |-> 0, errors |-> 0, matched |-> 0]
    BY <1>4, FS_EmptySet DEF Tally
  <2>2. draft \in BatchRow /\ Counters(draft) = [rows |-> 0, errors |-> 0, matched |-> 0]
    BY DEF BatchRow, Counters
  <2>3. QED
    BY <1>2, <2>1, <2>2 DEF BatchOK, RowValue
<1>6. DocumentsOK(db)
  BY <1>2 DEF DocumentsOK, Document
<1>7. CallsInOrder
  <2>1. Len(Order) \in Nat
    BY PackageAssumption
  <2>2. QED
    BY <2>1 DEF Init, CallsInOrder
<1>8. Loaded(db, at)
  BY PackageAssumption DEF Init, Loaded
<1>9. db[Batch].state = "draft"
  BY <1>2
<1>10. QED
  BY <1>2, <1>3, <1>5, <1>6, <1>7, <1>8, <1>9 DEF IInv, RowsCurrent, SourcesKept

-----------------------------------------------------------------------------
(* What holds of the rows after a commit of t, of whatever it left aside.  *)
LEMMA ViewsKept ==
  ASSUME IInv, NEW t \in Txn, NEW S, Aside(t, S)
  PROVE  /\ Discipline'
         /\ \A u \in active' : BatchOK(view'[u]) /\ DocumentsOK(view'[u])
BY DEF Aside, IInv

LEMMA BatchAside ==
  ASSUME IInv, NEW t \in Txn, NEW S, Aside(t, S), S \cap ({Batch} \cup RecRow) = {}
  PROVE  BatchOK(db') /\ RowsCurrent'
<1>1. db'[Batch] = db[Batch] /\ \A r \in RecRow : db'[r] = db[r]
  BY RowsApart DEF Aside
<1>2. RowsOf(db') = RowsOf(db) /\ Tally(db') = Tally(db)
  BY <1>1, TallyDepends
<1>3. BatchOK(db')
  BY <1>1, <1>2 DEF BatchOK, IInv
<1>4. RowsCurrent'
  BY <1>1 DEF RowsCurrent, IInv, Aside
<1>5. QED
  BY <1>3, <1>4

LEMMA DocumentsAside ==
  ASSUME IInv, NEW t \in Txn, NEW S, Aside(t, S), S \cap Document = {}, UNCHANGED loadVars
  PROVE  DocumentsOK(db') /\ SourcesKept' /\ Loaded(db', at')
<1>1. \A d \in Document : db'[d] = db[d]
  BY RowsApart DEF Aside
<1>2. DocumentsOK(db')
  BY <1>1 DEF DocumentsOK, IInv, Document
<1>3. SourcesKept'
  BY <1>1 DEF SourcesKept, IInv, Document, Aside
<1>4. \A k \in DOMAIN Order : Order[k] \in Document
  BY PackageAssumption DEF Document
<1>5. Loaded(db', at')
  BY <1>1, <1>4 DEF Loaded, IInv, loadVars
<1>6. QED
  BY <1>2, <1>3, <1>5

(* Documents that no package brings do not concern the loaders.            *)
LEMMA SourcesAside ==
  ASSUME IInv, NEW t \in Txn, NEW S, Aside(t, S), S \cap Source = {}, UNCHANGED loadVars
  PROVE  SourcesKept' /\ Loaded(db', at')
<1>1. \A s \in Source : db'[s] = db[s]
  BY RowsApart DEF Aside, Document
<1>2. SourcesKept'
  BY <1>1 DEF SourcesKept, IInv, Aside
<1>3. \A k \in DOMAIN Order : Order[k] \in Source
  BY PackageAssumption
<1>4. Loaded(db', at')
  BY <1>1, <1>3 DEF Loaded, IInv, loadVars
<1>5. QED
  BY <1>2, <1>4

LEMMA CallsAside ==
  ASSUME CallsInOrder, NEW t \in Txn, caller[t] = Nobody, UNCHANGED loadVars,
         active \ {t} \subseteq active'
  PROVE  CallsInOrder'
BY DEF CallsInOrder, loadVars

(* The parts of the invariant as one goal.                                 *)
AllKept ==
  /\ Discipline'
  /\ BatchOK(db') /\ \A u \in active' : BatchOK(view'[u])
  /\ DocumentsOK(db') /\ \A u \in active' : DocumentsOK(view'[u])
  /\ RowsCurrent' /\ SourcesKept' /\ CallsInOrder' /\ Loaded(db', at')

LEMMA AllKeptIsIInv == AllKept => IInv'
<1> SUFFICES ASSUME AllKept PROVE IInv'
  OBVIOUS
<1>1. BatchOK(db)' /\ \A u \in active' : BatchOK(view[u])'
  BY DEF AllKept, BatchOK, Counters, Tally, InState, RowsOf
<1>2. DocumentsOK(db)' /\ \A u \in active' : DocumentsOK(view[u])'
  BY DEF AllKept, DocumentsOK
<1>3. Loaded(db, at)'
  BY DEF AllKept, Loaded
<1>4. QED
  BY <1>1, <1>2, <1>3 DEF AllKept, IInv

(* A request that begins or ends without a commit.                         *)
LEMMA NothingCommitted ==
  ASSUME IInv, db' = db, Discipline', CallsInOrder', Loaded(db', at'),
         \A u \in active' : \/ view'[u] = db /\ missed'[u] = {}
                            \/ u \in active /\ view'[u] = view[u] /\ missed'[u] = missed[u]
  PROVE  AllKept
<1>1. BatchOK(db) /\ DocumentsOK(db)
  BY DEF IInv
<1>2. \A u \in active' : BatchOK(view'[u]) /\ DocumentsOK(view'[u])
  BY <1>1 DEF IInv
<1>3. RowsCurrent'
  BY DEF IInv, RowsCurrent
<1>4. SourcesKept'
  BY DEF IInv, SourcesKept
<1>5. QED
  BY <1>1, <1>2, <1>3, <1>4 DEF AllKept

LEMMA BeginKeeps ==
  ASSUME IInv, NEW t \in Txn, BeginTxn(t), CallsInOrder', at' = at
  PROVE  AllKept
<1>1. Discipline /\ Discipline'
  BY DisciplineBegin DEF IInv
<1>2. /\ db' = db /\ missed' = missed /\ active' = active \cup {t}
      /\ missed[t] = {} /\ view'[t] = db
      /\ \A u \in active : u # t /\ view'[u] = view[u]
  BY <1>1 DEF BeginTxn, Discipline, IdleClean
<1>3. \A u \in active' : \/ view'[u] = db /\ missed'[u] = {}
                         \/ u \in active /\ view'[u] = view[u] /\ missed'[u] = missed[u]
  BY <1>2
<1>4. Loaded(db', at')
  BY <1>2 DEF IInv, Loaded
<1>5. QED
  BY <1>1, <1>2, <1>3, <1>4, NothingCommitted

LEMMA AbortKeeps ==
  ASSUME IInv, NEW t \in Txn, AbortTxn(t), CallsInOrder', Loaded(db', at')
  PROVE  AllKept
<1>1. /\ db' = db /\ Discipline'
      /\ \A u \in active' : u \in active /\ view'[u] = view[u] /\ missed'[u] = missed[u]
  BY DisciplineAbort DEF AbortTxn, EndTxn, IInv, Discipline
<1>2. QED
  BY <1>1, NothingCommitted

LEMMA DocumentCommitKeeps ==
  ASSUME IInv, NEW t \in Txn, NEW d \in Other, NEW value \in {"draft", Absent},
         DocumentLeaves(t, d, value), CallsInOrder', UNCHANGED loadVars
  PROVE  AllKept
<1>1. Aside(t, {d}) /\ db'[d] = value /\ d \in Document /\ d \notin Source
  BY RowsApart DEF DocumentLeaves, Document
<1>2. /\ BatchOK(db') /\ RowsCurrent'
      /\ SourcesKept' /\ Loaded(db', at')
  BY <1>1, RowsApart, BatchAside, SourcesAside
<1>3. \A q \in Document \ {d} : db'[q] = db[q]
  BY <1>1, RowsApart DEF Aside
<1>4. DocumentsOK(db')
  BY <1>1, <1>3 DEF IInv, DocumentsOK, Document
<1>5. QED
  BY <1>1, <1>2, <1>4, ViewsKept DEF AllKept

LEMMA BatchCommitKeeps ==
  ASSUME IInv, NEW t \in Txn, BatchLeaves(t), CallsInOrder', UNCHANGED loadVars
  PROVE  AllKept
<1>1. Aside(t, {Batch}) /\ \A r \in RecRow : db'[r] = db[r]
  BY RowsApart DEF BatchLeaves, Aside
<1>2. DocumentsOK(db') /\ SourcesKept' /\ Loaded(db', at')
  BY <1>1, RowsApart, DocumentsAside
<1>3. RowsOf(db') = RowsOf(db) /\ Tally(db') = Tally(db)
  BY <1>1, TallyDepends
<1>4. BatchOK(db')
  BY <1>1, <1>3 DEF BatchLeaves, BatchOK, IInv, AllMatched
<1>5. RowsCurrent'
  BY <1>1 DEF RowsCurrent, IInv, Aside
<1>6. QED
  BY <1>1, <1>2, <1>4, <1>5, ViewsKept DEF AllKept

LEMMA RowCommitKeeps ==
  ASSUME IInv, NEW t \in Txn, NEW r \in RecRow, RowLeaves(t, r), CallsInOrder',
         UNCHANGED loadVars
  PROVE  AllKept
<1>1. Aside(t, {Batch, r}) /\ BatchOK(db')
      /\ \A u \in active' : Batch \in missed'[u]
  BY DEF RowLeaves
<1>2. DocumentsOK(db') /\ SourcesKept' /\ Loaded(db', at')
  BY <1>1, RowsApart, DocumentsAside
<1>3. RowsCurrent'
  BY <1>1 DEF RowsCurrent
<1>4. QED
  BY <1>1, <1>2, <1>3, ViewsKept DEF AllKept

LEMMA CutoverKeeps ==
  ASSUME IInv, NEW t \in Txn, CutoverLeaves(t), CallsInOrder', UNCHANGED loadVars
  PROVE  AllKept
<1>1. /\ Aside(t, {Batch} \cup Account \cup Opening) /\ BatchOK(db')
      /\ \A u \in active' : Batch \in missed'[u]
      /\ \A d \in Opening : db'[d] = "posted"
  BY DEF CutoverLeaves
<1>2. SourcesKept' /\ Loaded(db', at')
  <2>1. ({Batch} \cup Account \cup Opening) \cap Source = {}
    BY RowsApart, AccountsAssumption DEF Document
  <2>2. QED
    BY <1>1, <2>1, SourcesAside
<1>3. DocumentsOK(db')
  <2>1. \A d \in Source \cup Other : db'[d] = db[d]
    BY <1>1, RowsApart, AccountsAssumption DEF Aside, Document
  <2>2. QED
    BY <1>1, <2>1 DEF DocumentsOK, IInv
<1>4. RowsCurrent'
  BY <1>1 DEF RowsCurrent
<1>5. QED
  BY <1>1, <1>2, <1>3, <1>4, ViewsKept DEF AllKept

LEMMA UserEffectKeeps ==
  ASSUME IInv, NEW t \in Txn, UserEffect(t)
  PROVE  IInv'
<1>1. UNCHANGED loadVars /\ CallsInOrder
  BY DEF UserEffect, IInv
<1>2. CASE BeginTxn(t)
  <2>1. CallsInOrder' /\ at' = at
    BY <1>1, <1>2 DEF BeginTxn, CallsInOrder, loadVars
  <2>2. QED
    BY <1>2, <2>1, BeginKeeps, AllKeptIsIInv
<1>3. ASSUME caller[t] = Nobody, active' = active \ {t} PROVE CallsInOrder'
  BY <1>1, <1>3, CallsAside
<1>4. CASE caller[t] = Nobody /\ AbortTxn(t)
  <2>1. db' = db /\ active' = active \ {t} /\ at' = at
    BY <1>1, <1>4 DEF AbortTxn, EndTxn, loadVars
  <2>2. Loaded(db', at')
    BY <2>1 DEF IInv, Loaded
  <2>3. QED
    BY <1>3, <1>4, <2>1, <2>2, AbortKeeps, AllKeptIsIInv
<1>5. ASSUME NEW S, Aside(t, S), caller[t] = Nobody PROVE CallsInOrder'
  BY <1>3, <1>5 DEF Aside
<1>6. ASSUME caller[t] = Nobody, NothingLeaves(t) PROVE AllKept
  BY <1>1, <1>5, <1>6, BatchAside, DocumentsAside, ViewsKept DEF NothingLeaves, AllKept
<1>7. ASSUME caller[t] = Nobody, NEW d \in Other, NEW value \in {"draft", Absent},
             DocumentLeaves(t, d, value)
      PROVE  AllKept
  BY <1>1, <1>5, <1>7, DocumentCommitKeeps DEF DocumentLeaves
<1>8. ASSUME caller[t] = Nobody, BatchLeaves(t) \/ CutoverLeaves(t) PROVE AllKept
  BY <1>1, <1>5, <1>8, BatchCommitKeeps, CutoverKeeps DEF BatchLeaves, CutoverLeaves
<1>9. ASSUME caller[t] = Nobody, NEW r \in RecRow, RowLeaves(t, r) PROVE AllKept
  BY <1>1, <1>5, <1>9, RowCommitKeeps DEF RowLeaves
<1>10. QED
  BY <1>2, <1>4, <1>6, <1>7, <1>8, <1>9, AllKeptIsIInv DEF UserEffect

-----------------------------------------------------------------------------
(* The loaders.                                                            *)
LEMMA SaysNat ==
  \A l \in Loader : \A k \in DOMAIN Order :
    Order[k] \in Source /\ Says[l][Order[k]] \in Nat /\ Says[l][Order[k]] # Absent
BY PackageAssumption, AbsentAssumption

LEMMA AnswerKeepsCalls ==
  ASSUME CallsInOrder, NEW t \in Txn, NEW l \in Loader, caller[t] = l,
         Answer(t, l) \/ (/\ caller' = [caller EXCEPT ![t] = Nobody] /\ UNCHANGED at
                          /\ \/ phase' = [phase EXCEPT ![l] = "failed"]
                             \/ UNCHANGED phase),
         active' = active \ {t}
  PROVE  CallsInOrder'
<1>1. /\ at[l] \in 1 .. Len(Order) + 1 /\ at[l] <= Len(Order) /\ Len(Order) \in Nat
      /\ phase[l] = "loading"
  BY NobodyAssumption, PackageAssumption DEF CallsInOrder
<1>2. \A u \in Txn \ {t} : caller[u] # l
  BY NobodyAssumption DEF CallsInOrder
<1>3. /\ caller' \in [Txn -> Loader \cup {Nobody}] /\ caller'[t] = Nobody
      /\ \A u \in Txn \ {t} : caller'[u] = caller[u]
  BY DEF CallsInOrder, Answer
<1>4. /\ phase' \in [Loader -> {"idle", "loading", "applied", "failed"}]
      /\ phase'[l] \in {"loading", "failed"}
      /\ \A k \in Loader \ {l} : phase'[k] = phase[k]
  BY <1>1 DEF CallsInOrder, Answer
<1>5. /\ at' \in [Loader -> 1 .. Len(Order) + 1]
      /\ \A k \in Loader \ {l} : at'[k] = at[k]
  BY <1>1 DEF CallsInOrder, Answer
<1>6. \A u \in Txn : caller'[u] # Nobody =>
        /\ u # t /\ u \in active' /\ caller'[u] = caller[u] /\ caller[u] \in Loader \ {l}
  BY <1>2, <1>3 DEF CallsInOrder
<1>7. \A u \in Txn : caller'[u] # Nobody =>
        u \in active' /\ phase'[caller'[u]] = "loading" /\ at'[caller'[u]] <= Len(Order)
  BY <1>4, <1>5, <1>6 DEF CallsInOrder
<1>8. \A u, w \in Txn : caller'[u] # Nobody /\ caller'[u] = caller'[w] => u = w
  BY <1>6 DEF CallsInOrder
<1>9. \A k \in Loader : phase'[k] = "applied" => at'[k] > Len(Order)
  BY <1>4, <1>5 DEF CallsInOrder
<1>10. QED
  BY <1>3, <1>4, <1>5, <1>7, <1>8, <1>9 DEF CallsInOrder

LEMMA ScriptKeeps ==
  ASSUME IInv, NEW l \in Loader, StartLoad(l) \/ FinishLoad(l)
  PROVE  IInv'
<1>1. UNCHANGED <<dbVars, caller>> /\ CallsInOrder
  BY DEF StartLoad, FinishLoad, IInv
<1>2. /\ \A k \in Loader \ {l} : phase'[k] = phase[k] /\ at'[k] = at[k]
      /\ phase' \in [Loader -> {"idle", "loading", "applied", "failed"}]
      /\ at' \in [Loader -> 1 .. Len(Order) + 1]
      /\ phase'[l] = "applied" => at'[l] > Len(Order)
      /\ at'[l] = 1 \/ at' = at
  <2>1. Len(Order) \in Nat
    BY PackageAssumption
  <2>2. 1 \in 1 .. Len(Order) + 1
    BY <2>1
  <2>3. CASE StartLoad(l)
    BY <1>1, <2>2, <2>3 DEF StartLoad, CallsInOrder
  <2>4. CASE FinishLoad(l)
    BY <1>1, <2>1, <2>4 DEF FinishLoad, CallsInOrder
  <2>5. QED
    BY <2>3, <2>4
<1>3. \A u \in Txn : caller[u] # l
  BY <1>1, NobodyAssumption, PackageAssumption DEF StartLoad, FinishLoad, CallsInOrder
<1>4. CallsInOrder'
  BY <1>1, <1>2, <1>3 DEF CallsInOrder, dbVars
<1>5. Loaded(db', at')
  <2>1. \A k \in DOMAIN Order : ~(k < 1)
    BY PackageAssumption
  <2>2. QED
    BY <1>1, <1>2, <2>1 DEF IInv, Loaded, dbVars
<1>6. Discipline'
  BY <1>1, DisciplineStutter DEF IInv
<1>7. AllKept
  BY <1>1, <1>4, <1>5, <1>6, NothingCommitted DEF dbVars
<1>8. QED
  BY <1>7, AllKeptIsIInv

LEMMA CallKeeps ==
  ASSUME IInv, NEW l \in Loader, NEW t \in Txn, CallImport(l, t)
  PROVE  IInv'
<1>1. /\ CallsInOrder /\ BeginTxn(t) /\ phase' = phase /\ at' = at
      /\ phase[l] = "loading" /\ at[l] <= Len(Order) /\ \A u \in Txn : caller[u] # l
      /\ active' = active \cup {t}
  BY DEF CallImport, IInv, BeginTxn
<1>2. /\ caller' \in [Txn -> Loader \cup {Nobody}]
      /\ caller'[t] = l /\ \A u \in Txn \ {t} : caller'[u] = caller[u]
  BY DEF CallImport, CallsInOrder, IInv
<1>3. CallsInOrder'
  BY <1>1, <1>2 DEF CallsInOrder
<1>4. QED
  BY <1>1, <1>3, BeginKeeps, AllKeptIsIInv

LEMMA FindKeeps ==
  ASSUME IInv, NEW l \in Loader, NEW t \in Txn, FindImported(t, l) \/ RefuseImport(t, l)
  PROVE  IInv'
<1>1. /\ t \in active /\ caller[t] = l /\ AbortTxn(t) /\ CallsInOrder
      /\ db' = db /\ active' = active \ {t}
  BY DEF FindImported, RefuseImport, AbortTxn, EndTxn, IInv
<1>2. CallsInOrder'
  BY <1>1, AnswerKeepsCalls DEF FindImported, RefuseImport
<1>3. /\ at[l] \in DOMAIN Order /\ DOMAIN Order \subseteq Nat
      /\ at \in [Loader -> 1 .. Len(Order) + 1] /\ Len(Order) \in Nat
  BY <1>1, CalledInPackage, PackageAssumption DEF CallsInOrder
<1>4. at' = at \/ (/\ at' = [at EXCEPT ![l] = @ + 1]
                   /\ view[t][Order[at[l]]] = Says[l][Order[at[l]]])
  BY DEF FindImported, RefuseImport, Answer, AlreadyImported
<1>5. Loaded(db', at')
  <2>1. CASE at' = at
    BY <1>1, <2>1 DEF IInv, Loaded
  <2>2. CASE /\ at' = [at EXCEPT ![l] = @ + 1]
             /\ view[t][Order[at[l]]] = Says[l][Order[at[l]]]
    <3>1. db[Order[at[l]]] = Says[l][Order[at[l]]]
      BY <1>1, <1>3, <2>2, SaysNat DEF IInv, SourcesKept
    <3>2. \A k \in DOMAIN Order : k < at[l] + 1 => k < at[l] \/ k = at[l]
      BY <1>3
    <3>3. at'[l] = at[l] + 1 /\ \A m \in Loader \ {l} : at'[m] = at[m]
      BY <1>3, <2>2
    <3>4. QED
      BY <1>1, <3>1, <3>2, <3>3 DEF IInv, Loaded
  <2>3. QED
    BY <1>4, <2>1, <2>2
<1>6. QED
  BY <1>1, <1>2, <1>5, AbortKeeps, AllKeptIsIInv

LEMMA ImportKeeps ==
  ASSUME IInv, NEW l \in Loader, NEW t \in Txn, caller[t] = l, t \in active,
         ImportLeaves(t, l)
  PROVE  IInv'
<1> DEFINE s == Order[at[l]]
<1>1. /\ at[l] \in DOMAIN Order /\ DOMAIN Order \subseteq Nat
      /\ at \in [Loader -> 1 .. Len(Order) + 1] /\ Len(Order) \in Nat
  BY CalledInPackage, PackageAssumption DEF CallsInOrder, IInv
<1>2. s \in Source /\ Says[l][s] \in Nat /\ Says[l][s] # Absent
  BY <1>1, SaysNat
<1>3. Aside(t, {s}) /\ db[s] = Absent /\ db'[s] = Says[l][s] /\ Answer(t, l)
  BY DEF ImportLeaves
<1> HIDE DEF s
<1>4. BatchOK(db') /\ RowsCurrent'
  BY <1>2, <1>3, RowsApart, BatchAside DEF Document
<1>5. \A d \in Document \ {s} : db'[d] = db[d]
  BY <1>3, RowsApart DEF Aside
<1>6. DocumentsOK(db')
  BY <1>2, <1>3, <1>5, RowsApart DEF IInv, DocumentsOK, Document
<1>7. SourcesKept'
  BY <1>3, <1>5, RowsApart DEF IInv, SourcesKept, Document, Aside
<1>8. CallsInOrder'
  BY <1>3, AnswerKeepsCalls DEF IInv, Aside
<1>9. \A m \in Loader : \A k \in DOMAIN Order :
        k < at[m] => Order[k] # s /\ db'[Order[k]] = Says[m][Order[k]]
  <2>1. \A m \in Loader : \A k \in DOMAIN Order : k < at[m] => db[Order[k]] = Says[m][Order[k]]
    BY DEF IInv, Loaded
  <2>2. QED
    BY <1>3, <1>5, <2>1, SaysNat DEF Document
<1>10. Loaded(db', at')
  <2>1. CASE at' = at
    BY <1>9, <2>1 DEF Loaded
  <2>2. CASE at' = [at EXCEPT ![l] = @ + 1]
    <3>1. \A k \in DOMAIN Order : k < at[l] + 1 => k < at[l] \/ k = at[l]
      BY <1>1
    <3>2. at'[l] = at[l] + 1 /\ \A m \in Loader \ {l} : at'[m] = at[m]
      BY <1>1, <2>2
    <3>3. QED
      BY <1>3, <1>9, <3>1, <3>2 DEF Loaded, s
  <2>3. QED
    BY <1>3, <2>1, <2>2 DEF Answer
<1>11. QED
  BY <1>3, <1>4, <1>6, <1>7, <1>8, <1>10, ViewsKept, AllKeptIsIInv DEF AllKept

-----------------------------------------------------------------------------
(* The batch's counters stay those of its rows, a loader's documents stay  *)
(* on the books, whatever requests and loads are in progress.              *)
THEOREM InductiveInvariant == Spec => []IInv
<1>1. IInv /\ [Next]_vars => IInv'
  <2> SUFFICES ASSUME IInv, [Next]_vars PROVE IInv'
    OBVIOUS
  <2>1. CASE Next
    <3>1. ASSUME NEW l \in Loader, LoadEffect(l) PROVE IInv'
      BY <3>1, ScriptKeeps, CallKeeps, FindKeeps, ImportKeeps DEF LoadEffect
    <3>2. QED
      BY <2>1, <3>1, NextEffect, UserEffectKeeps
  <2>2. CASE UNCHANGED vars
    <3>1. UNCHANGED dbVars /\ caller' = caller /\ phase' = phase /\ at' = at
      BY <2>2 DEF vars
    <3>2. Discipline' /\ CallsInOrder' /\ Loaded(db', at')
      BY <3>1, DisciplineStutter DEF IInv, CallsInOrder, Loaded, dbVars
    <3>3. AllKept
      BY <3>1, <3>2, NothingCommitted DEF dbVars
    <3>4. QED
      BY <3>3, AllKeptIsIInv
  <2>3. QED
    BY <2>1, <2>2
<1>2. QED
  BY <1>1, Initially, PTL DEF Spec

(* A batch leaves its draft, and is signed off, with rows that all match,  *)
(* and keeps them as they are (migration.py: the stored counters make every*)
(* change of a row a change of the batch, which a validation in between    *)
(* would then have missed; and they tell a sign-off of a row moved in).    *)
THEOREM SignedOffRowsMatch == Spec => SignedOffMatches
<1> DEFINE P == /\ Signs(db[Batch].state, db'[Batch].state) => AllMatched(db')
                /\ db[Batch].state # "draft" => \A r \in RowsOf(db) : db'[r] = db[r]
           Kept == \A r \in RecRow : db'[r] = db[r]
           SameState == db'[Batch].state = db[Batch].state
<1>1. IInv /\ [Next]_vars => P
  <2> SUFFICES ASSUME IInv, [Next]_vars PROVE P
    OBVIOUS
  <2>1. ASSUME Kept, SameState PROVE P
    BY <2>1 DEF Signs, RowsOf
  <2>2. ASSUME NEW t, NEW S, Aside(t, S), S \cap ({Batch} \cup RecRow) = {} PROVE P
    <3>1. Kept /\ SameState
      BY <2>2, RowsApart DEF Aside
    <3> HIDE DEF P, Kept, SameState
    <3>2. QED
      BY <3>1, <2>1
  <2>3. ASSUME db' = db PROVE P
    BY <2>1, <2>3
  <2>4. ASSUME NEW t, BatchLeaves(t) PROVE P
    <3>1. Kept
      BY <2>4, RowsApart DEF BatchLeaves, Aside
    <3>2. AllMatched(db) => AllMatched(db')
      BY <3>1 DEF AllMatched, RowsOf
    <3>3. Signs(db[Batch].state, db'[Batch].state) => AllMatched(db)
      BY <2>4 DEF Signs, BatchLeaves
    <3>4. QED
      BY <3>1, <3>2, <3>3 DEF RowsOf
  <2>5. ASSUME NEW t, NEW r \in RecRow, RowLeaves(t, r) PROVE P
    <3>1. SameState /\ \A q \in RecRow \ {r} : db'[q] = db[q]
      BY <2>5, RowsApart DEF RowLeaves, Aside
    <3>2. db[Batch].state # "draft" => r \notin RowsOf(db)
      BY <2>5 DEF RowLeaves, RowsOf
    <3>3. QED
      BY <3>1, <3>2 DEF Signs, RowsOf
  <2>6. ASSUME NEW t, CutoverLeaves(t) PROVE P
    BY <2>6 DEF CutoverLeaves
  <2> HIDE DEF P
  <2>7. ASSUME NEW t \in Txn, UserEffect(t) PROVE P
    <3>1. BeginTxn(t) \/ AbortTxn(t) => db' = db
      BY DEF BeginTxn, AbortTxn
    <3>2. NothingLeaves(t) => P
      BY <2>2 DEF NothingLeaves
    <3>3. ASSUME NEW d \in Other, NEW value, DocumentLeaves(t, d, value) PROVE P
      BY <2>2, <3>3, RowsApart DEF DocumentLeaves, Document
    <3>4. QED
      BY <2>3, <2>4, <2>5, <2>6, <2>7, <3>1, <3>2, <3>3 DEF UserEffect
  <2>8. ASSUME NEW l \in Loader, LoadEffect(l) PROVE P
    <3>1. StartLoad(l) \/ FinishLoad(l) => db' = db
      BY DEF StartLoad, FinishLoad, dbVars
    <3>2. \A t \in Txn : CallImport(l, t) \/ FindImported(t, l) \/ RefuseImport(t, l) => db' = db
      BY DEF CallImport, FindImported, RefuseImport, BeginTxn, AbortTxn
    <3>3. ASSUME NEW t \in Txn, caller[t] = l, t \in active, ImportLeaves(t, l) PROVE P
      <4>1. Order[at[l]] \in Source
        BY <3>3, CalledInPackage DEF IInv
      <4>2. QED
        BY <2>2, <3>3, <4>1, RowsApart DEF ImportLeaves, Document
    <3>4. QED
      BY <2>3, <2>8, <3>1, <3>2, <3>3 DEF LoadEffect
  <2>9. CASE UNCHANGED vars
    BY <2>3, <2>9 DEF vars, dbVars
  <2>10. QED
    BY <2>7, <2>8, <2>9, NextEffect
<1>2. Spec => [][P]_vars
  BY <1>1, InductiveInvariant, PTL DEF Spec
<1>3. QED
  BY <1>2 DEF SignedOffMatches

(* The cutover finds the ledger empty at the moment it commits (cutover.py:*)
(* the fresh cursor under the exclusive company lock).                     *)
THEOREM CutoverStartsEmpty == Spec => CutoverOnEmptyLedger
<1> DEFINE P == db[Batch].applied = 0 /\ db'[Batch].applied # 0 => LedgerEmpty(db)
<1>1. IInv /\ [Next]_vars => P
  <2> SUFFICES ASSUME IInv, [Next]_vars, db[Batch].applied # db'[Batch].applied
               PROVE  LedgerEmpty(db)
    BY DEF P
  <2> HIDE DEF P
  <2>1. ASSUME NEW t, NEW S, Aside(t, S), Batch \notin S PROVE FALSE
    BY <2>1, RowsApart DEF Aside
  <2>2. ASSUME NEW t \in Txn, UserEffect(t) PROVE LedgerEmpty(db)
    <3>1. db' # db
      OBVIOUS
    <3>2. ~BeginTxn(t) /\ ~AbortTxn(t)
      BY <3>1 DEF BeginTxn, AbortTxn
    <3>3. ~BatchLeaves(t) /\ ~(\E r \in RecRow : RowLeaves(t, r))
      BY DEF BatchLeaves, RowLeaves
    <3>4. ~NothingLeaves(t) /\ ~(\E d \in Other, value \in {"draft", Absent} :
                                   DocumentLeaves(t, d, value))
      BY <2>1, RowsApart DEF NothingLeaves, DocumentLeaves, Document
    <3>5. CutoverLeaves(t)
      BY <2>2, <3>2, <3>3, <3>4 DEF UserEffect
    <3>6. QED
      BY <3>5 DEF CutoverLeaves
  <2>3. ASSUME NEW l \in Loader, LoadEffect(l) PROVE FALSE
    <3>1. db' # db
      OBVIOUS
    <3>2. ~StartLoad(l) /\ ~FinishLoad(l)
      BY <3>1 DEF StartLoad, FinishLoad, dbVars
    <3>3. \A t \in Txn : ~CallImport(l, t) /\ ~FindImported(t, l) /\ ~RefuseImport(t, l)
      BY <3>1 DEF CallImport, FindImported, RefuseImport, BeginTxn, AbortTxn
    <3>4. PICK t \in Txn : caller[t] = l /\ t \in active /\ ImportLeaves(t, l)
      BY <2>3, <3>2, <3>3 DEF LoadEffect
    <3>5. Order[at[l]] \in Source
      BY <3>4, CalledInPackage DEF IInv
    <3>6. QED
      BY <2>1, <3>4, <3>5, RowsApart DEF ImportLeaves, Document
  <2>4. CASE UNCHANGED vars
    BY <2>4 DEF vars, dbVars
  <2>5. QED
    BY <2>2, <2>3, <2>4, NextEffect
<1>2. Spec => [][P]_vars
  BY <1>1, InductiveInvariant, PTL DEF Spec
<1>3. QED
  BY <1>2 DEF CutoverOnEmptyLedger

(* A load that reports APPLIED left its whole package on the books         *)
(* (migration_load.py walks the package to its end, and no document of a   *)
(* package is changed or deleted once it is imported).                     *)
THEOREM LoadsAreComplete == Spec => []AppliedLoadIsComplete
<1> SUFFICES IInv => AppliedLoadIsComplete
  BY InductiveInvariant, PTL
<1>1. IInv => TypeOK
  <2> SUFFICES ASSUME IInv PROVE TypeOK
    OBVIOUS
  <2>1. RowValue \subseteq ReconciliationRow \cup {Absent}
    BY RefreshedTo DEF RowValue
  <2>2. QED
    BY <2>1 DEF IInv, BatchOK, DocumentsOK, CallsInOrder, TypeOK
<1>2. IInv => \A l \in Loader : phase[l] = "applied" => \A s \in Source : db[s] = Says[l][s]
  <2> SUFFICES ASSUME IInv, NEW l \in Loader, phase[l] = "applied", NEW s \in Source
               PROVE  db[s] = Says[l][s]
    OBVIOUS
  <2>1. PICK k \in DOMAIN Order : Order[k] = s
    BY PackageAssumption DEF ToSet
  <2>2. k \in 1 .. Len(Order) /\ Len(Order) \in Nat
    BY PackageAssumption
  <2>3. at[l] > Len(Order) /\ at[l] \in 1 .. Len(Order) + 1
    BY DEF IInv, CallsInOrder
  <2>4. k < at[l]
    BY <2>2, <2>3
  <2>5. QED
    BY <2>1, <2>4 DEF IInv, Loaded
<1>3. QED
  BY <1>1, <1>2 DEF AppliedLoadIsComplete

-----------------------------------------------------------------------------
(* Packages and the archive.                                               *)

(* A load of a valid package never stops in the middle at a record it did  *)
(* not load first: every account, partner and tax a document names is one  *)
(* the master files gave an identifier.                                    *)
THEOREM ValidNamesWhatItLoads ==
  ASSUME NEW pkg \in Package, Valid(pkg)
  PROVE  /\ AccountLookups(pkg) \subseteq Ids(pkg.accounts) \ {Blank}
         /\ PartnerLookups(pkg) \subseteq Ids(pkg.partners) \ {Blank}
         /\ TaxLookups(pkg) \subseteq Ids(pkg.taxes) \ {Blank}
<1>1. Blank \notin Ids(pkg.accounts) \cup Ids(pkg.partners) \cup Ids(pkg.taxes)
  BY DEF Valid, AccountsValid, PartnersValid, TaxesValid, Identified, IdsFilled, Ids
<1>2. \A i \in DOMAIN pkg.opening : pkg.opening[i].account \in Ids(pkg.accounts)
  BY DEF Valid, OpeningValid
<1>3. \A i \in DOMAIN pkg.transactions :
        /\ pkg.transactions[i].account \in Ids(pkg.accounts)
        /\ pkg.transactions[i].tax \in Ids(pkg.taxes) \cup {Blank}
  BY DEF Valid, TransactionsValid, TransactionValid
<1>4. \A i \in DOMAIN pkg.openItems :
        /\ pkg.openItems[i].account \in Ids(pkg.accounts)
        /\ pkg.openItems[i].counterpart \in Ids(pkg.accounts)
        /\ pkg.openItems[i].partner \in Ids(pkg.partners)
  BY DEF Valid, OpenItemsValid, OpenItemValid
<1>5. AccountLookups(pkg) \subseteq Ids(pkg.accounts)
  BY <1>2, <1>3, <1>4 DEF AccountLookups
<1> QED BY <1>1, <1>3, <1>4, <1>5 DEF PartnerLookups, TaxLookups

(* The documents of a valid package restate no balance twice: they are the *)
(* opening entry alone, entries alone, or open items alone.                *)
THEOREM ValidHasOneBasis ==
  ASSUME NEW pkg \in Package, Valid(pkg)
  PROVE  \/ Documents(pkg) \subseteq {OpeningDocument}
         \/ Documents(pkg) = {<<"TRANSACTION", entry>> : entry \in Entries(pkg)}
         \/ Documents(pkg) = {<<pkg.openItems[i].id>> : i \in DOMAIN pkg.openItems}
<1>1. pkg.transactions = <<>> => Entries(pkg) = {} BY DEF Entries
<1>2. /\ pkg.opening # <<>> => pkg.openItems = <<>> /\ pkg.transactions = <<>>
      /\ pkg.openItems # <<>> => pkg.transactions = <<>>
  BY DEF Valid, OneBasis
<1>3. CASE pkg.opening # <<>> BY <1>1, <1>2, <1>3 DEF Documents
<1>4. CASE pkg.opening = <<>> /\ pkg.openItems # <<>>
  BY <1>1, <1>2, <1>4 DEF Documents
<1>5. CASE pkg.opening = <<>> /\ pkg.openItems = <<>> BY <1>5 DEF Documents
<1> QED BY <1>3, <1>4, <1>5

(* Every entry the load asks for balances, the opening entry and those of  *)
(* the transactions, and all the rows of an entry have the date it gets.   *)
THEOREM ValidEntriesBalance ==
  ASSUME NEW pkg \in Package, Valid(pkg), NEW args
  PROVE  /\ LET lines == OpeningMove(pkg, args).lines IN Balanced(lines, DOMAIN lines)
         /\ \A entry \in Entries(pkg) :
              LET move == TransactionMove(pkg, args, entry) IN
              /\ Balanced(move.lines, DOMAIN move.lines)
              /\ \A i \in LinesOf(pkg, entry) : pkg.transactions[i].date = move.date
<1>1. LET lines == OpeningMove(pkg, args).lines IN Balanced(lines, DOMAIN lines)
  <2> DEFINE lines == OpeningMove(pkg, args).lines
             S == DOMAIN pkg.opening
  <2>1. Balanced(pkg.opening, S) BY DEF Valid, OpeningValid
  <2>2. /\ DOMAIN lines = S
        /\ [i \in S |-> lines[i].debit] = [i \in S |-> pkg.opening[i].debit]
        /\ [i \in S |-> lines[i].credit] = [i \in S |-> pkg.opening[i].credit]
    BY DEF OpeningMove
  <2> QED BY <2>1, <2>2 DEF Balanced, Debits, Credits
<1>2. ASSUME NEW entry \in Entries(pkg)
      PROVE  LET move == TransactionMove(pkg, args, entry) IN
             /\ Balanced(move.lines, DOMAIN move.lines)
             /\ \A i \in LinesOf(pkg, entry) : pkg.transactions[i].date = move.date
  <2> DEFINE rows == pkg.transactions
             S == LinesOf(pkg, entry)
             move == TransactionMove(pkg, args, entry)
             first == CHOOSE i \in S : TRUE
  <2>1. Balanced(rows, S) BY DEF Valid, TransactionsValid
  <2>2. /\ DOMAIN move.lines = S
        /\ [i \in S |-> move.lines[i].debit] = [i \in S |-> rows[i].debit]
        /\ [i \in S |-> move.lines[i].credit] = [i \in S |-> rows[i].credit]
    BY DEF TransactionMove
  <2>3. Balanced(move.lines, DOMAIN move.lines)
    BY <2>1, <2>2 DEF Balanced, Debits, Credits
  <2>5. S # {} BY DEF Entries, LinesOf
  <2>7. first \in S BY <2>5
  <2>8. move.date = rows[first].date BY DEF TransactionMove
  <2>9. \A i \in S : rows[i].date = rows[first].date
    BY <2>7 DEF Valid, TransactionsValid, LinesOf
  <2> QED BY <2>3, <2>8, <2>9
<1> QED BY <1>1, <1>2

(* An archived entry never gains or loses a line, nor a line its content,  *)
(* by a later call that sees the archive as it is; and every entry of the  *)
(* archive balances as it did in the old system.                           *)
THEOREM ArchiveKept ==
  ASSUME NEW retained, NEW rows, NEW cutoverDate, EntriesBalance(retained),
         ArchiveAllowed(retained, retained, rows, cutoverDate)
  PROVE  LET after == Archived(retained, retained, rows) IN
         /\ retained \subseteq after /\ rows \subseteq after
         /\ \A row \in retained :
              EntryLines(after, row.entry) = EntryLines(retained, row.entry)
         /\ EntriesBalance(after)
<1> DEFINE new == NewRows(retained, rows)
           after == Archived(retained, retained, rows)
<1>1. Fits(retained, rows) /\ EntriesBalance(rows) BY DEF ArchiveAllowed, RowsAllowed
<1>2. \A row \in new : row \in rows /\ EntryLines(retained, row.entry) = {}
  BY <1>1 DEF NewRows, Fits
<1>3. rows \subseteq after BY <1>1 DEF Archived, NewRows, Fits
<1>4. ASSUME NEW row \in retained
      PROVE  EntryLines(after, row.entry) = EntryLines(retained, row.entry)
  <2>1. \A other \in new : other.entry # row.entry BY <1>2 DEF EntryLines
  <2> QED BY <2>1 DEF Archived, EntryLines
<1>5. ASSUME NEW row \in new
      PROVE  EntryLines(after, row.entry) = EntryLines(rows, row.entry)
  <2>1. EntryLines(retained, row.entry) = {} BY <1>2
  <2>2. \A other \in rows : other.entry = row.entry => other \in new
    <3> SUFFICES ASSUME NEW other \in rows, other.entry = row.entry PROVE other \in new
      OBVIOUS
    <3>1. \A kept \in retained : kept.entry # other.entry BY <2>1 DEF EntryLines
    <3>2. \A kept \in retained : KeyOf(kept) # KeyOf(other) BY <3>1 DEF KeyOf
    <3> QED BY <3>2 DEF NewRows
  <2>3. new \subseteq rows BY <1>2
  <2> QED BY <2>1, <2>2, <2>3 DEF Archived, EntryLines
<1>6. EntriesBalance(after)
  <2> SUFFICES ASSUME NEW row \in after PROVE Balance(EntryLines(after, row.entry)) = 0
    BY DEF EntriesBalance
  <2>1. CASE row \in retained BY <1>4, <2>1 DEF EntriesBalance
  <2>2. CASE row \in new BY <1>1, <1>2, <1>5, <2>2 DEF EntriesBalance
  <2> QED BY <2>1, <2>2 DEF Archived
<1> QED BY <1>3, <1>4, <1>6 DEF Archived

===============================================================================
