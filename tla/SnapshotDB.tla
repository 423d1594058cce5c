------------------------------ MODULE SnapshotDB ------------------------------
(***************************************************************************)
(* The transaction discipline under which every request of the accounting  *)
(* add-on runs: Odoo opens one PostgreSQL transaction per request at       *)
(* REPEATABLE READ.  Nothing here is code of the repository; it is the     *)
(* platform, modelled from how the add-on relies on it (the comment in     *)
(* res_company.py on serialization errors and the native RPC retry,        *)
(* payment_batch.py on "retry from a fresh snapshot", and the probes of    *)
(* scripts/alignment_concurrency.py).                                      *)
(*                                                                         *)
(*   - a transaction reads the database as it was at its first statement,  *)
(*     overlaid with its own writes;                                       *)
(*   - a row written by a transaction stays locked until the transaction   *)
(*     ends; a row it holds FOR SHARE may be shared but not written;       *)
(*   - a transaction that locks or writes a row which changed after its    *)
(*     snapshot fails with a serialization error (Abort here; the retry is *)
(*     a new Begin with a fresh snapshot).                                 *)
(***************************************************************************)
CONSTANTS
  Txn,      \* transaction slots: concurrent requests and cron workers
  Row,      \* identities of the rows the modelled tables can hold
  Absent    \* the value of a row that does not exist

VARIABLES
  db,       \* the committed value of every row
  active,   \* the transactions in progress
  view,     \* view[t]: what t reads, its snapshot overlaid with its writes
  wrote,    \* wrote[t]: the rows t has written and holds locked
  shared,   \* shared[t]: the rows t holds FOR SHARE
  missed    \* missed[t]: the rows others committed since t's snapshot

dbVars == <<db, active, view, wrote, shared, missed>>

EmptyView == [r \in Row |-> Absent]

DBInitWith(rows) ==
  /\ db = rows
  /\ active = {}
  /\ view = [t \in Txn |-> EmptyView]
  /\ wrote = [t \in Txn |-> {}]
  /\ shared = [t \in Txn |-> {}]
  /\ missed = [t \in Txn |-> {}]

DBInit == DBInitWith(EmptyView)

Exists(t, r) == view[t][r] # Absent

(* t may lock r for writing: nobody else holds it, and it is unchanged     *)
(* since t's snapshot.                                                     *)
CanWrite(t, r) ==
  /\ r \notin missed[t]
  /\ \A u \in Txn \ {t} : r \notin wrote[u] /\ r \notin shared[u]

CanShare(t, r) ==
  /\ r \notin missed[t]
  /\ \A u \in Txn \ {t} : r \notin wrote[u]

(* The two effects a statement of t can have on the transaction state.     *)
Put(t, r, value) ==
  /\ CanWrite(t, r)
  /\ view' = [view EXCEPT ![t][r] = value]
  /\ wrote' = [wrote EXCEPT ![t] = @ \cup {r}]

(* Several rows in one go: new is a function from the rows to their values.*)
PutAll(t, new) ==
  /\ \A r \in DOMAIN new : CanWrite(t, r)
  /\ view' = [view EXCEPT ![t] = [r \in Row |-> IF r \in DOMAIN new
                                                THEN new[r] ELSE @[r]]]
  /\ wrote' = [wrote EXCEPT ![t] = @ \cup DOMAIN new]

(* Locking a row for writing without changing what it says.                *)
Touch(t, r) == Put(t, r, view[t][r])

Share(t, r) ==
  /\ CanShare(t, r)
  /\ shared' = [shared EXCEPT ![t] = @ \cup {r}]

BeginTxn(t) ==
  /\ t \notin active
  /\ active' = active \cup {t}
  /\ view' = [view EXCEPT ![t] = db]
  /\ UNCHANGED <<db, wrote, shared, missed>>

(* Releasing every lock and forgetting the snapshot.                       *)
EndTxn(t) ==
  /\ t \in active
  /\ active' = active \ {t}
  /\ view' = [view EXCEPT ![t] = EmptyView]
  /\ wrote' = [wrote EXCEPT ![t] = {}]
  /\ shared' = [shared EXCEPT ![t] = {}]

CommitTxn(t) ==
  /\ EndTxn(t)
  /\ db' = [r \in Row |-> IF r \in wrote[t] THEN view[t][r] ELSE db[r]]
  /\ missed' = [u \in Txn |-> IF u \in active \ {t}
                              THEN missed[u] \cup wrote[t]
                              ELSE {}]

(* A last write and the commit in one step, for requests whose locks nobody*)
(* can notice in between: whoever needs one of these rows waits for the    *)
(* commit and then fails, which is what it does here without the wait.     *)
CommitWith(t, new) ==
  LET written == wrote[t] \cup DOMAIN new IN
  /\ \A r \in DOMAIN new : CanWrite(t, r)
  /\ EndTxn(t)
  /\ db' = [r \in Row |-> IF r \in DOMAIN new THEN new[r]
                          ELSE IF r \in wrote[t] THEN view[t][r] ELSE db[r]]
  /\ missed' = [u \in Txn |-> IF u \in active \ {t}
                              THEN missed[u] \cup written
                              ELSE {}]

(* A refusal (UserError), a lost serialization race or a deadlock victim.  *)
AbortTxn(t) ==
  /\ EndTxn(t)
  /\ missed' = [missed EXCEPT ![t] = {}]
  /\ UNCHANGED db

(***************************************************************************)
(* What the discipline guarantees, whatever the transactions do.  Every    *)
(* component's inductive invariant starts from this one.                   *)
(***************************************************************************)
IdleClean ==
  \A t \in Txn \ active :
    wrote[t] = {} /\ shared[t] = {} /\ missed[t] = {} /\ view[t] = EmptyView

RowLocksExclusive ==
  \A t, u \in Txn : t # u =>
    /\ wrote[t] \cap wrote[u] = {}
    /\ wrote[t] \cap shared[u] = {}

LockedRowsCurrent ==
  \A t \in Txn : (wrote[t] \cup shared[t]) \cap missed[t] = {}

ViewsCurrent ==
  \A t \in active : \A r \in Row :
    r \notin missed[t] /\ r \notin wrote[t] => view[t][r] = db[r]

SnapshotInv ==
  /\ IdleClean
  /\ RowLocksExclusive
  /\ LockedRowsCurrent
  /\ ViewsCurrent
===============================================================================
