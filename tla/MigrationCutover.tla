--------------------------- MODULE MigrationCutover ---------------------------
(***************************************************************************)
(* Bringing a company's books over from another system, the two ways there *)
(* are.  A cutover batch (cutover.py) posts the reviewed opening entries   *)
(* in one transaction on an empty ledger.  A package load                  *)
(* (scripts/migration_load.py) calls the server once per document, each    *)
(* call a transaction of its own (migration.py), and is started again      *)
(* after a crash or a refusal.  Batches also carry reconciliation rows     *)
(* that are validated and signed off on their own (migration.py).          *)
(*                                                                         *)
(* Requests are transactions of SnapshotDB.  A document is identified by   *)
(* its source identifier, which is unique in its company; its content      *)
(* stands for the fingerprint of what was imported.                        *)
(***************************************************************************)
EXTENDS Integers, FiniteSets, Sequences, SequencesExt, SnapshotDB

CONSTANTS
  Company,    \* the row of res_company that carries the period lock
  Batch,      \* the cutover batch
  RecRow,     \* reconciliation rows
  Account,    \* those that an applied cutover adds, one for an account
  Opening,    \* the documents of the batch's opening entries
  Source,     \* the documents of the packages
  Other,      \* documents an Encoder may draft
  Loader,     \* runs of the load script
  Order,      \* the order of the documents in a package
  Says,       \* Says[l][s]: the content of s in the package of l
  Nobody,     \* the caller of a request that no loader made
  OneOverlap  \* whether at most one request commits while another is in progress (a bound)

ASSUME RowAssumption ==
  /\ Row = {Company, Batch} \cup RecRow \cup Opening \cup Source \cup Other
  /\ Company # Batch
  /\ {Company, Batch} \cap (RecRow \cup Opening \cup Source \cup Other) = {}
  /\ RecRow \cap (Opening \cup Source \cup Other) = {}
  /\ Opening \cap (Source \cup Other) = {} /\ Source \cap Other = {}
ASSUME AccountsAssumption == IsFiniteSet(RecRow) /\ Account \subseteq RecRow /\ Account # {}
ASSUME PackageAssumption ==
  /\ Order \in Seq(Source) /\ ToSet(Order) = Source
  /\ \A l \in Loader : Says[l] \in [Source -> Nat]
ASSUME NobodyAssumption == Nobody \notin Loader
ASSUME BoundAssumption == OneOverlap \in BOOLEAN

Document == Opening \cup Source \cup Other

(* applied: 0 before the cutover, then the fingerprint of its payload.     *)
(* rows, errors and matched are stored counters.                           *)
BatchRow == [state : {"draft", "validated", "loaded", "reconciled"},
             payload : 1 .. 2, applied : 0 .. 2,
             rows : Nat, errors : Nat, matched : Nat]

(* A row compares a source amount with a target amount.                    *)
ReconciliationRow == [source : {1}, target : 0 .. 2, state : {"pending", "matched", "error"}]

ASSUME AbsentAssumption ==
  Absent \notin Nat \cup {"draft", "posted"} \cup ReconciliationRow

VARIABLES
  caller,   \* caller[t]: the loader that made the request t serves
  phase,    \* phase[l]: "idle", "loading", "applied" or "failed"
  at        \* at[l]: the place in the package l has come to

vars == <<dbVars, caller, phase, at>>
loadVars == <<caller, phase, at>>

Init ==
  /\ DBInitWith([r \in Row |->
       CASE r = Company -> "books"
         [] r = Batch -> [state |-> "draft", payload |-> 1, applied |-> 0,
                          rows |-> 0, errors |-> 0, matched |-> 0]
         [] OTHER -> Absent])
  /\ caller = [t \in Txn |-> Nobody]
  /\ phase = [l \in Loader |-> "idle"]
  /\ at = [l \in Loader |-> 1]

-----------------------------------------------------------------------------
WithinBound(t) == OneOverlap => \A u \in active \ {t} : missed[u] = {}

Begin(t) == BeginTxn(t) /\ UNCHANGED loadVars

User(t) == t \in active /\ caller[t] = Nobody

Serve(t, new) == CommitWith(t, new) /\ WithinBound(t) /\ UNCHANGED loadVars

Abort(t) == User(t) /\ AbortTxn(t) /\ UNCHANGED loadVars

Put1(r, value) == [x \in {r} |-> value]

LedgerEmpty(rows) == \A d \in Document : rows[d] = Absent

(* Drafting and deleting a document takes the company row FOR SHARE.       *)
CreateDraft(t, d) ==
  /\ User(t) /\ ~Exists(t, d)
  /\ CanShare(t, Company)
  /\ Serve(t, Put1(d, "draft"))

UnlinkDraft(t, d) ==
  /\ User(t) /\ Exists(t, d)
  /\ CanShare(t, Company)
  /\ Serve(t, Put1(d, Absent))

-----------------------------------------------------------------------------
(* The batch and its rows.  A reconciliation row is absent from the batch  *)
(* when it does not exist or belongs to another batch.                     *)
Settled(t) == view[t][Batch].state \in {"validated", "loaded", "reconciled"}

RowsOf(rows) == {r \in RecRow : rows[r] # Absent}

Refreshed(target) ==
  [source |-> 1, target |-> target,
   state |-> CASE target = 1 -> "matched" [] target = 0 -> "pending" [] OTHER -> "error"]

(* The rows written when the row r gets the value new: r itself, and the   *)
(* batch when a stored counter changes.                                    *)
(* Mutant: the counters are not stored with the batch.                     *)
RowWritesUncounted(t, r, new) == Put1(r, new)

RowWrites(t, r, new) ==
  LET after == [view[t] EXCEPT ![r] = new]
      Count(state) == Cardinality({q \in RowsOf(after) : after[q].state = state})
      batch == [view[t][Batch] EXCEPT !.rows = Cardinality(RowsOf(after)),
                                      !.errors = Count("error"),
                                      !.matched = Count("matched")]
      changed == IF batch = view[t][Batch] THEN {r} ELSE {r, Batch} IN
  [x \in changed |-> IF x = r THEN new ELSE batch]

WriteRow(t, r, target) ==
  /\ User(t) /\ ~Settled(t)
  /\ Serve(t, RowWrites(t, r, Refreshed(target)))

(* A row of another batch, a draft, is given this one: the write looks at  *)
(* the batch the row leaves only.  (A row that leaves this batch for       *)
(* another is, for this one, a row unlinked.)                              *)
MoveRowIn(t, r, target) ==
  /\ User(t) /\ ~Exists(t, r)
  /\ Serve(t, RowWrites(t, r, Refreshed(target)))

UnlinkRow(t, r) ==
  /\ User(t) /\ ~Settled(t) /\ Exists(t, r)
  /\ Serve(t, RowWrites(t, r, Absent))

(* action_validate refreshes, and so writes, every row.                    *)
Validate(t) ==
  /\ User(t) /\ view[t][Batch].state = "draft"
  /\ RowsOf(view[t]) # {}
  /\ \A r \in RowsOf(view[t]) : view[t][r].state = "matched"
  /\ Serve(t, [x \in {Batch} \cup RowsOf(view[t]) |->
                 IF x = Batch THEN [view[t][Batch] EXCEPT !.state = "validated"]
                 ELSE view[t][x]])

MarkLoaded(t) ==
  /\ User(t) /\ view[t][Batch].state = "validated"
  /\ Serve(t, Put1(Batch, [view[t][Batch] EXCEPT !.state = "loaded"]))

MarkReconciled(t) ==
  /\ User(t) /\ view[t][Batch].state = "loaded" /\ view[t][Batch].errors = 0
  /\ view[t][Batch].matched = view[t][Batch].rows
  /\ Serve(t, Put1(Batch, [view[t][Batch] EXCEPT !.state = "reconciled"]))

(* A reviewed mapping package replaces the payload.                        *)
ReviewCutoverFile(t, payload) ==
  /\ User(t) /\ view[t][Batch].state = "draft" /\ view[t][Batch].applied = 0
  /\ Serve(t, Put1(Batch, [view[t][Batch] EXCEPT !.payload = payload]))

-----------------------------------------------------------------------------
(* action_apply_cutover.  The exclusive lock is an update of the company   *)
(* row; the ledger must be empty in the request's own view and, on a fresh *)
(* cursor, in the committed database.  Every opening entry is posted, one  *)
(* matched row per account is added, and the batch is loaded.              *)
(* Mutant: the fresh cursor is left out.                                   *)
LedgerEmptyInView(t) == LedgerEmpty(view[t])

LedgerEmptyNow(t) == LedgerEmpty(db) /\ LedgerEmpty(view[t])

ApplyCutover(t) ==
  LET written == {Company, Batch} \cup Opening \cup Account IN
  /\ User(t)
  /\ view[t][Batch].applied = 0
  /\ view[t][Batch].state = "draft" /\ RowsOf(view[t]) = {}
  /\ LedgerEmptyNow(t)
  /\ Serve(t, [x \in written |->
       CASE x = Company -> view[t][Company]
         [] x = Batch -> [view[t][Batch] EXCEPT
                            !.state = "loaded", !.applied = @ + view[t][Batch].payload,
                            !.rows = Cardinality(Account), !.matched = Cardinality(Account)]
         [] x \in Account -> Refreshed(1)
         [] OTHER -> "posted"])

(* Applied again, it takes both locks and returns the stored result.       *)
ApplyCutoverAgain(t) ==
  /\ User(t)
  /\ view[t][Batch].applied = view[t][Batch].payload
  /\ \A d \in Opening : view[t][d] = "posted"
  /\ Serve(t, [x \in {Company, Batch} |-> view[t][x]])

-----------------------------------------------------------------------------
(* The load script.                                                        *)
StartLoad(l) ==
  /\ phase[l] \in {"idle", "failed"}
  /\ phase' = [phase EXCEPT ![l] = "loading"]
  /\ at' = [at EXCEPT ![l] = 1]
  /\ UNCHANGED <<dbVars, caller>>

CallImport(l, t) ==
  /\ phase[l] = "loading" /\ at[l] <= Len(Order)
  /\ \A u \in Txn : caller[u] # l
  /\ BeginTxn(t)
  /\ caller' = [caller EXCEPT ![t] = l]
  /\ UNCHANGED <<phase, at>>

(* The call ends; the script goes on to the next document, or it died or   *)
(* lost the answer and must be started again.                              *)
Answer(t, l) ==
  /\ caller' = [caller EXCEPT ![t] = Nobody]
  /\ \/ at' = [at EXCEPT ![l] = @ + 1] /\ UNCHANGED phase
     \/ phase' = [phase EXCEPT ![l] = "failed"] /\ UNCHANGED at

(* Mutant: any document with the identifier is taken for the import.       *)
AlreadyImportedAnyContent(t, s, content) == Exists(t, s)

AlreadyImported(t, s, content) == view[t][s] = content

(* action_import_thirdcode_move finds the document with the same content,  *)
(* or creates and posts it; the unique identifier stops a second creation. *)
FindImported(t, l) ==
  /\ t \in active /\ caller[t] = l
  /\ AlreadyImported(t, Order[at[l]], Says[l][Order[at[l]]])
  /\ AbortTxn(t)
  /\ Answer(t, l)

ImportMove(t, l) ==
  LET s == Order[at[l]] IN
  /\ t \in active /\ caller[t] = l
  /\ ~Exists(t, s)
  /\ CanShare(t, Company)
  /\ CommitWith(t, Put1(s, Says[l][s])) /\ WithinBound(t)
  /\ Answer(t, l)

(* A refusal stops the script; a serialization error is retried for it.    *)
RefuseImport(t, l) ==
  /\ t \in active /\ caller[t] = l
  /\ AbortTxn(t)
  /\ caller' = [caller EXCEPT ![t] = Nobody]
  /\ UNCHANGED at
  /\ \/ phase' = [phase EXCEPT ![l] = "failed"]
     \/ (missed[t] # {} /\ UNCHANGED phase)

FinishLoad(l) ==
  /\ phase[l] = "loading" /\ at[l] > Len(Order)
  /\ phase' = [phase EXCEPT ![l] = "applied"]
  /\ UNCHANGED <<dbVars, caller, at>>

-----------------------------------------------------------------------------
BatchStep(t) ==
  \/ \E r \in RecRow :
       \/ \E target \in 0 .. 2 : WriteRow(t, r, target) \/ MoveRowIn(t, r, target)
       \/ UnlinkRow(t, r)
  \/ Validate(t)
  \/ MarkLoaded(t)
  \/ MarkReconciled(t)
  \/ \E payload \in 1 .. 2 : ReviewCutoverFile(t, payload)
  \/ ApplyCutover(t)
  \/ ApplyCutoverAgain(t)

LoadStep(l) ==
  \/ StartLoad(l)
  \/ \E t \in Txn :
       CallImport(l, t) \/ FindImported(t, l) \/ ImportMove(t, l) \/ RefuseImport(t, l)
  \/ FinishLoad(l)

Next ==
  \/ \E t \in Txn :
       \/ Begin(t)
       \/ Abort(t)
       \/ \E d \in Other : CreateDraft(t, d) \/ UnlinkDraft(t, d)
       \/ BatchStep(t)
  \/ \E l \in Loader : LoadStep(l)

Spec == Init /\ [][Next]_vars

-----------------------------------------------------------------------------
TypeOK ==
  /\ db[Batch] \in BatchRow
  /\ \A r \in RecRow : db[r] \in ReconciliationRow \cup {Absent}
  /\ \A d \in Opening \cup Other : db[d] \in {"draft", "posted", Absent}
  /\ \A s \in Source : db[s] \in Nat \cup {Absent}
  /\ caller \in [Txn -> Loader \cup {Nobody}]
  /\ phase \in [Loader -> {"idle", "loading", "applied", "failed"}]
  /\ at \in [Loader -> 1 .. Len(Order) + 1]

(* A batch leaves its draft, and is signed off, with rows that all match   *)
(* at that moment, however rows are added, edited, removed and moved in    *)
(* meanwhile; past its draft it keeps the rows it has, as they are.        *)
AllMatched(rows) == RowsOf(rows) # {} /\ \A r \in RowsOf(rows) : rows[r].state = "matched"

Signs(old, new) ==
  \/ old = "draft" /\ new # "draft"
  \/ old # "reconciled" /\ new = "reconciled"

SignedOffMatches ==
  [][/\ Signs(db[Batch].state, db'[Batch].state) => AllMatched(db')
     /\ db[Batch].state # "draft" => \A r \in RowsOf(db) : db'[r] = db[r]]_vars

(* The opening entries are posted on an empty ledger only: no document that*)
(* another request committed before, a draft included, ends up beside them *)
(* unnoticed.                                                              *)
CutoverOnEmptyLedger ==
  [][db[Batch].applied = 0 /\ db'[Batch].applied # 0 => LedgerEmpty(db)]_vars

(* A load that reports APPLIED left every document of its package on the   *)
(* books with the content of its package, whatever was lost, retried or    *)
(* loaded from another version of the package in between.                  *)
AppliedLoadIsComplete ==
  /\ TypeOK
  /\ \A l \in Loader : phase[l] = "applied" =>
       \A s \in Source : db[s] = Says[l][s]
===============================================================================
