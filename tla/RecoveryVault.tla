---------------------------- MODULE RecoveryVault ----------------------------
(***************************************************************************)
(* The independent, versioned and object-locked store of encrypted bundles *)
(* (scripts/hosted_recovery_provider.py): deliveries that may be repeated  *)
(* after a lost answer, and retention, which deletes the exact versions of *)
(* an approved plan one by one.                                            *)
(*                                                                         *)
(* Run r is captured on day r.  Its delivery, and every repetition of it,  *)
(* may come on any later day.  Putting an object succeeds only if its key  *)
(* has none (IfNoneMatch), as the store decides.                           *)
(***************************************************************************)
EXTENDS Naturals, FiniteSets

CONSTANTS Runs,        \* run ids, 1..n, in order of capture
          Deliverers,  \* processes that deliver
          Plans,       \* plan files, each with its journal
          MaxDay,      \* bound: days of a behaviour
          MaxVersion,  \* bound: payload versions the store has issued
          Staged,      \* bound: days for which an artifact may be delivered again
          Horizon,     \* policy retention days
          KeepMinimum, \* policy keep_minimum
          MaxAge       \* policy maximum_success_age

ASSUME VaultAssumption ==
  /\ IsFiniteSet(Runs) /\ Runs = 1..Cardinality(Runs)
  /\ {MaxDay, MaxVersion, Staged, Horizon, MaxAge} \subseteq Nat
  /\ MaxDay >= 1 /\ KeepMinimum \in Nat /\ KeepMinimum >= 2

VARIABLES
  day,
  payload,   \* [Runs -> version of the bundle object, 0 if none]
  until,     \* [version -> day its object lock ends]
  created,   \* [version -> day of its creation, verified_at]
  receipt,   \* [Runs -> version the receipt names, 0 if none]
  issued,    \* versions issued
  del,       \* [Deliverers -> [pc, run, version]]
  acked,     \* runs and versions some delivery has reported durable
  plan       \* [Plans -> [pc, at, todo, pending]], the plan and its journal

storeVars == <<payload, until, created, receipt, issued>>
vaultVars == <<day, storeVars, del, acked, plan>>

Entry    == Runs \X (0..MaxVersion)     \* a receipt: its run and version
NoEntry  == <<0, 0>>
Idling   == [pc |-> "idle", run |-> 0, version |-> 0]
Unmade   == [pc |-> "unmade", at |-> 0, todo |-> {}, pending |-> NoEntry]

VaultTypeOK ==
  /\ day \in 1..MaxDay /\ issued \in 0..MaxVersion
  /\ payload \in [Runs -> 0..MaxVersion] /\ receipt \in [Runs -> 0..MaxVersion]
  /\ until \in [1..MaxVersion -> 0..(MaxDay + Horizon)]
  /\ created \in [1..MaxVersion -> 0..MaxDay]
  /\ del \in [Deliverers -> [pc : {"idle", "verify", "receipt", "confirm"},
                             run : Runs \cup {0}, version : 0..MaxVersion]]
  /\ acked \subseteq Entry
  /\ plan \in [Plans -> [pc : {"unmade", "made", "payload", "receipt", "closed"},
                         at : 0..MaxDay, todo : SUBSET Entry,
                         pending : Entry \cup {NoEntry}]]

VaultInit ==
  /\ day = 1 /\ issued = 0 /\ acked = {}
  /\ payload = [r \in Runs |-> 0] /\ receipt = [r \in Runs |-> 0]
  /\ until = [v \in 1..MaxVersion |-> 0] /\ created = [v \in 1..MaxVersion |-> 0]
  /\ del = [d \in Deliverers |-> Idling] /\ plan = [p \in Plans |-> Unmade]

-----------------------------------------------------------------------------
(* What the catalog shows: receipts, the latest capture first. *)

Catalog     == {r \in Runs : receipt[r] # 0}
Newer(r)    == {s \in Catalog : s > r}
Whole(r)    == payload[r] # 0 /\ payload[r] = receipt[r]
LatestRun      == CHOOSE r \in Catalog : Newer(r) = {}

\* The newest bundle is recent, there, and locked for its whole horizon.
HealthyLatest == /\ Catalog # {} /\ day - LatestRun <= MaxAge /\ Whole(LatestRun)
                 /\ until[payload[LatestRun]] >= created[payload[LatestRun]] + Horizon

\* Mutant: the newest runs are not kept.
SelectedByAge == {<<r, receipt[r]>> : r \in {s \in Catalog :
                    created[receipt[s]] + Horizon < day}}

Selected == {<<r, receipt[r]>> : r \in {s \in Catalog :
               Cardinality(Newer(s)) >= KeepMinimum /\ created[receipt[s]] + Horizon < day}}

-----------------------------------------------------------------------------
(* Delivery. *)

Deliver(d, r) == del' = [del EXCEPT ![d] = r]
DelKeeps      == UNCHANGED <<day, plan>>

\* One PUT.  The object that is already there is used as it is, if its lock
\* has not run out.
PutPayload(d, r) ==
  /\ del[d].pc = "idle" /\ r <= day /\ day <= r + Staged /\ issued < MaxVersion
  /\ \/ /\ payload[r] = 0
        /\ issued' = issued + 1 /\ payload' = [payload EXCEPT ![r] = issued + 1]
        /\ created' = [created EXCEPT ![issued + 1] = day]
        /\ until' = [until EXCEPT ![issued + 1] = day + Horizon]
        /\ Deliver(d, [pc |-> "verify", run |-> r, version |-> issued + 1])
     \/ /\ payload[r] # 0
        /\ Deliver(d, [pc |-> "verify", run |-> r, version |-> payload[r]])
        /\ UNCHANGED <<issued, payload, created, until>>
  /\ UNCHANGED <<receipt, acked>> /\ DelKeeps

\* The version is read back in full and its lock is read.
VerifyPayload(d) ==
  LET r == del[d].run IN
  /\ del[d].pc = "verify"
  /\ IF payload[r] = del[d].version /\ until[del[d].version] >= day
       THEN Deliver(d, [del[d] EXCEPT !.pc = "receipt"]) ELSE Deliver(d, Idling)
  /\ UNCHANGED <<storeVars, acked>> /\ DelKeeps

PutReceipt(d) ==
  LET r == del[d].run IN
  /\ del[d].pc = "receipt"
  /\ receipt' = IF receipt[r] = 0 THEN [receipt EXCEPT ![r] = del[d].version] ELSE receipt
  /\ Deliver(d, [del[d] EXCEPT !.pc = "confirm"])
  /\ UNCHANGED <<payload, until, created, issued, acked>> /\ DelKeeps

\* The receipt that is there must be the one this delivery would have written.
ConfirmReceipt(d) ==
  LET r == del[d].run IN
  /\ del[d].pc = "confirm"
  /\ acked' = IF receipt[r] = del[d].version THEN acked \cup {<<r, del[d].version>>} ELSE acked
  /\ Deliver(d, Idling)
  /\ UNCHANGED storeVars /\ DelKeeps

\* The operation's alarm, an error of the store, or a killed adapter.
AbandonDelivery(d) ==
  /\ del[d].pc # "idle" /\ Deliver(d, Idling)
  /\ UNCHANGED <<storeVars, acked>> /\ DelKeeps

Delivery == \E d \in Deliverers :
  \/ \E r \in Runs : PutPayload(d, r)
  \/ VerifyPayload(d) \/ PutReceipt(d) \/ ConfirmReceipt(d) \/ AbandonDelivery(d)

-----------------------------------------------------------------------------
(* Retention. *)

PlanIs(p, r) == plan' = [plan EXCEPT ![p] = r] /\ UNCHANGED <<day, del, acked>>

MakePlan(p) ==
  /\ plan[p].pc = "unmade" /\ HealthyLatest
  /\ PlanIs(p, [pc |-> "made", at |-> day, todo |-> Selected, pending |-> NoEntry])
  /\ UNCHANGED storeVars

\* The approved plan is checked against a plan made now, all of it before the
\* first delete; an existing journal forbids a second application.
ApplyPlan(p) ==
  /\ plan[p].pc = "made"
  /\ PlanIs(p, [plan[p] EXCEPT !.pc =
       IF plan[p].at = day /\ HealthyLatest /\ plan[p].todo \subseteq Selected
       THEN "payload" ELSE "closed"])
  /\ UNCHANGED storeVars

\* The journal names the version before it is deleted.  A lock or hold on it,
\* or a version that is gone, ends the application.
DeletePayload(p) ==
  /\ plan[p].pc = "payload" /\ plan[p].todo # {}
  /\ \E e \in plan[p].todo :
       IF payload[e[1]] = e[2] /\ until[e[2]] <= day
         THEN /\ PlanIs(p, [plan[p] EXCEPT !.pc = "receipt", !.pending = e])
              /\ payload' = [payload EXCEPT ![e[1]] = 0]
         ELSE /\ PlanIs(p, [plan[p] EXCEPT !.pc = "closed"])
              /\ UNCHANGED payload
  /\ UNCHANGED <<until, created, receipt, issued>>

DeleteReceipt(p) ==
  LET e == plan[p].pending IN
  /\ plan[p].pc = "receipt"
  /\ receipt[e[1]] = e[2]
  /\ receipt' = [receipt EXCEPT ![e[1]] = 0]
  /\ PlanIs(p, [plan[p] EXCEPT !.pc = "payload", !.todo = @ \ {e}, !.pending = NoEntry])
  /\ UNCHANGED <<payload, until, created, issued>>

\* Mutant: nothing is left pending in a closed journal.
CloseJournalClean(p) ==
  /\ plan[p].pc \in {"payload", "receipt"}
  /\ PlanIs(p, [plan[p] EXCEPT !.pc = "closed", !.todo = {}, !.pending = NoEntry])
  /\ UNCHANGED storeVars

\* All done, or killed, or a hold: what is pending stays in the journal.
CloseJournal(p) ==
  /\ plan[p].pc \in {"payload", "receipt"}
  /\ PlanIs(p, [plan[p] EXCEPT !.pc = "closed", !.todo = {}])
  /\ UNCHANGED storeVars

Retention == \E p \in Plans : \/ MakePlan(p) \/ ApplyPlan(p) \/ DeletePayload(p)
                              \/ DeleteReceipt(p) \/ CloseJournal(p)

\* The alarm ends every operation within the hour: none is open at midnight.
DayPasses ==
  /\ \A d \in Deliverers : del[d].pc = "idle"
  /\ \A p \in Plans : plan[p].pc \notin {"payload", "receipt"}
  /\ day < MaxDay /\ day' = day + 1
  /\ UNCHANGED <<storeVars, del, acked, plan>>

VaultNext == Delivery \/ Retention \/ DayPasses
VaultSpec == VaultInit /\ [][VaultNext]_vaultVars

-----------------------------------------------------------------------------
(* Properties. *)

\* A run reported durable is there, whole, until its horizon has passed; and
\* it is gone later only while the store still has keep_minimum whole runs of
\* later captures: no order of repeated deliveries, plans and interrupted
\* deletions takes the newest bundles away.
Recoverable(r) == r \in Catalog /\ Whole(r)
DurableKept ==
  /\ VaultTypeOK
  /\ \A e \in acked :
       \/ Recoverable(e[1]) /\ receipt[e[1]] = e[2]
       \/ /\ created[e[2]] + Horizon < day
          /\ Cardinality({s \in Runs : s > e[1] /\ Recoverable(s)}) >= KeepMinimum

\* A receipt whose bundle is gone is named by a journal as pending.
LossJournaled ==
  \A r \in Catalog : Whole(r) \/ \E p \in Plans : plan[p].pending = <<r, receipt[r]>>
=============================================================================
