------------------------- MODULE OrganisationLifecycle -------------------------
(***************************************************************************)
(* The life of the customer organizations on the platform console          *)
(* (platform_console.py: trial, active, suspended, resumed) and of their   *)
(* employees' accounts (platform_operations.py manage_person, org_users.py *)
(* toggle and employee wizard, the creation path of setup_service.py).     *)
(*                                                                         *)
(* Requests are transactions of SnapshotDB, each a single operation.  Every*)
(* change of an account ends in _sync_company_channels, which locks every  *)
(* company for update without changing it: such a request fails when a     *)
(* company changed since its snapshot, but makes no other request fail.    *)
(* Only customer accounts are modelled: platform owners are no member of   *)
(* the sets a suspension looks at.  Trial dates, roles and passwords are   *)
(* left out; a refused request is an Abort.                                *)
(***************************************************************************)
EXTENDS FiniteSets, SnapshotDB

CONSTANTS
  Company,     \* customer organizations
  User,        \* customer accounts
  Member,      \* Member[u]: the companies of u (company_ids)
  Home,        \* Home[u]: the main company of u (company_id)
  Admin,       \* tenant administrators
  Hired,       \* accounts that exist from the start
  None,        \* no status
  OneCommit    \* a bound: at most one commits while another is in progress

ASSUME RowAssumption == Row = Company \cup User /\ Company \cap User = {}
ASSUME MemberAssumption ==
  /\ Member \in [User -> SUBSET Company]
  /\ \A u \in User : Home[u] \in Member[u]
ASSUME BoundAssumption == OneCommit \in BOOLEAN
ASSUME UserAssumption == Admin \subseteq User /\ Hired \subseteq User

Status == {"trial", "active", "suspended"}

(* status, the status before the suspension, the accounts it disabled.     *)
CompanyRow == [status : Status, from : Status \cup {None}, ids : SUBSET User]

VARIABLE
  last  \* history: last[u] is what was last done to the account u

(* What is recorded in last, or else the organization whose suspension     *)
(* disabled the account; "bypassed" once that organization left the        *)
(* suspension otherwise than by a resumption.                              *)
Event == {"created", "enabled", "disabled", "disabled meanwhile", "toggled", "resumed",
          "bypassed"}

ASSUME EventAssumption == Company \cap Event = {}

vars == <<dbVars, last>>

Init ==
  /\ DBInitWith([r \in Row |->
       IF r \in Company THEN [status |-> "trial", from |-> None, ids |-> {}]
       ELSE IF r \in Hired THEN "enabled" ELSE Absent])
  /\ last = [u \in User |-> "created"]

-----------------------------------------------------------------------------
Suspended(rows, c) == rows[c].status = "suspended"

MembersOf(c) == {u \in User : c \in Member[u]}

Enabled(rows, c) == {u \in MembersOf(c) : rows[u] = "enabled"}

One(r, value) == [x \in {r} |-> value]

Begin(t) == BeginTxn(t) /\ UNCHANGED last

Abort(t) == AbortTxn(t) /\ UNCHANGED last

(* A request that changes companies only.                                  *)
ServeCompany(t, c, value) ==
  /\ CommitWith(t, One(c, value))
  /\ last' = [u \in User |->
       IF last[u] = c /\ value.status # "suspended" THEN "bypassed" ELSE last[u]]

(* A request that changes accounts: _sync_company_channels locks every     *)
(* company.  event is recorded for the accounts among the rows.            *)
SyncChannels(t) == \A c \in Company : CanWrite(t, c)

ServeUsers(t, new, event) ==
  /\ SyncChannels(t)
  /\ CommitWith(t, new)
  /\ last' = [u \in User |-> IF u \in DOMAIN new THEN event ELSE last[u]]

-----------------------------------------------------------------------------
(* The status of an organization.  The console offers "Activate" to trials *)
(* and "Start trial" to active organizations by the list it shows, however *)
(* old; the methods behind them do not look at the status.                 *)
ConvertToActive(t, c) ==
  /\ t \in active
  /\ ServeCompany(t, c, [view[t][c] EXCEPT !.status = "active"])

MarkTrial(t, c) ==
  /\ t \in active
  /\ ServeCompany(t, c, [view[t][c] EXCEPT !.status = "trial"])

(* A longer trial writes the company and leaves what is modelled alone.    *)
ExtendTrial(t, c) ==
  /\ t \in active
  /\ ServeCompany(t, c, view[t][c])

SuspendRows(t, c, ids, disabled) ==
  [r \in {c} \cup disabled |->
     IF r = c THEN [status |-> "suspended", from |-> view[t][c].status, ids |-> ids]
     ELSE "disabled"]

(* Mutant: a suspended organization is suspended again.                    *)
SuspendAgain(t, c) ==
  /\ t \in active
  /\ ServeUsers(t, SuspendRows(t, c, Enabled(view[t], c), Enabled(view[t], c)), c)

(* Mutant: only employees whose main company it is are disabled.           *)
SuspendHome(t, c) ==
  LET there == {u \in Enabled(view[t], c) : Home[u] = c} IN
  /\ t \in active /\ ~Suspended(view[t], c)
  /\ ServeUsers(t, SuspendRows(t, c, there, there), c)

(* suspend_company.  On a suspended organization it returns at once.       *)
Suspend(t, c) ==
  /\ t \in active /\ ~Suspended(view[t], c)
  /\ ServeUsers(t, SuspendRows(t, c, Enabled(view[t], c), Enabled(view[t], c)), c)

(* resume_company enables whoever the suspension disabled.                 *)
Resume(t, c) ==
  /\ t \in active /\ Suspended(view[t], c)
  /\ ServeUsers(t, [r \in {c} \cup view[t][c].ids |->
       IF r = c THEN [status |-> view[t][c].from, from |-> None, ids |-> {}]
       ELSE "enabled"], "resumed")

-----------------------------------------------------------------------------
(* The accounts.  Disabling one while an organization of its is suspended  *)
(* is told apart from disabling it beforehand.                             *)
DisabledNow(u) ==
  IF \E c \in Member[u] : Suspended(db, c) THEN "disabled meanwhile" ELSE "disabled"

(* Mutant: the change of the account does not reach the channels.          *)
EnableUnsynced(t, u) ==
  /\ t \in active /\ Exists(t, u)
  /\ ~Suspended(view[t], Home[u])
  /\ CommitWith(t, One(u, "enabled"))
  /\ last' = [last EXCEPT ![u] = "enabled"]

(* manage_person: "Resume the organization before enabling its employees". *)
Enable(t, u) ==
  /\ t \in active /\ Exists(t, u)
  /\ ~Suspended(view[t], Home[u])
  /\ ServeUsers(t, One(u, "enabled"), "enabled")

Disable(t, u) ==
  /\ t \in active /\ Exists(t, u)
  /\ ServeUsers(t, One(u, "disabled"), DisabledNow(u))

Flip(t, u) ==
  IF view[t][u] = "enabled"
  THEN ServeUsers(t, One(u, "disabled"), DisabledNow(u))
  ELSE ServeUsers(t, One(u, "enabled"), "toggled")

(* action_thirdcode_toggle_active, by the platform owner and by a tenant   *)
(* administrator, who manages others whose companies are all theirs.       *)
ToggleByOwner(t, u) ==
  t \in active /\ Exists(t, u) /\ Flip(t, u)

ToggleByAdmin(t, admin, u) ==
  /\ t \in active /\ view[t][admin] = "enabled"
  /\ Exists(t, u) /\ u \notin Admin
  /\ Member[u] \subseteq Member[admin]
  /\ Flip(t, u)

(* The employee wizard and the first administrator of an organization.     *)
CreateUser(t, u) ==
  /\ t \in active /\ ~Exists(t, u)
  /\ ServeUsers(t, One(u, "enabled"), "created")

CompanyStep(t, c) ==
  \/ ConvertToActive(t, c)
  \/ MarkTrial(t, c)
  \/ ExtendTrial(t, c)
  \/ Suspend(t, c)
  \/ Resume(t, c)

UserStep(t, u) ==
  \/ Enable(t, u)
  \/ Disable(t, u)
  \/ ToggleByOwner(t, u)
  \/ \E admin \in Admin : ToggleByAdmin(t, admin, u)
  \/ CreateUser(t, u)

Step(t) ==
  \/ \E c \in Company : CompanyStep(t, c)
  \/ \E u \in User : UserStep(t, u)

(* A bound of the model: see OneCommit.                                    *)
InBound(t) == OneCommit => \A u \in active \ {t} : missed[u] = {}

Next ==
  \E t \in Txn :
    \/ Begin(t)
    \/ InBound(t) /\ Step(t)
    \/ Abort(t)

Spec == Init /\ [][Next]_vars

-----------------------------------------------------------------------------
RowTypeOK(rows) ==
  /\ \A c \in Company :
       /\ rows[c] \in CompanyRow
       /\ rows[c].ids \subseteq MembersOf(c)
       /\ Suspended(rows, c) => rows[c].from \in Status \ {"suspended"}
  /\ \A u \in User : rows[u] \in {"enabled", "disabled", Absent}

(* The tables are well formed; a suspended organization knows the status   *)
(* to go back to, and a second suspension never made that "suspended".     *)
TypeOK == RowTypeOK(db) /\ \A t \in active : RowTypeOK(view[t])

(* "Repeated suspend and resume preserve recovery": as long as an          *)
(* organization stays suspended, the accounts to restore and the status to *)
(* go back to stay what the suspension found.  "It preserves accounts that *)
(* were disabled beforehand": no resumption of whichever organization      *)
(* enables an account that a person disabled while none of its             *)
(* organizations was suspended.                                            *)
RecoveryKept ==
  [][/\ \A c \in Company :
          Suspended(db, c) /\ Suspended(db', c) => db'[c] = db[c]
     /\ \A u \in User : last[u] = "disabled" => last'[u] # "resumed"]_vars

(* "Resuming restores accounts disabled by that suspension": an account    *)
(* that nobody touched since a suspension disabled it is still on the list *)
(* of that organization, which is still suspended and can be resumed; it   *)
(* is lost to the resumption only when an operator activated the suspended *)
(* organization or started a trial of it, and then it stays disabled.      *)
NobodyStranded ==
  /\ TypeOK
  /\ \A u \in User : last[u] \in Company =>
       /\ db[u] = "disabled"
       /\ Suspended(db, last[u]) /\ u \in db[last[u]].ids
  /\ \A u \in User : last[u] = "bypassed" => db[u] = "disabled"

(* "Resume the organization before enabling its employees": the console    *)
(* enables no employee of an organization suspended by then, although it   *)
(* reads the status without locking it; the channels' lock on the companies*)
(* makes the request fail that read it too early.                          *)
EnabledAfterResume ==
  [][\A u \in User :
       last[u] # "enabled" /\ last'[u] = "enabled" => ~Suspended(db', Home[u])]_vars

(* "Suspending disables customer employee access": the only employee who   *)
(* keeps access through a suspension is one whose account another request  *)
(* created or enabled after the suspending one took its snapshot.          *)
OnlyNewcomersEscape ==
  [][\A c \in Company, t \in active \ active' :
       ~Suspended(db, c) /\ Suspended(db', c) =>
         Enabled(db', c) \subseteq missed[t]]_vars
================================================================================
