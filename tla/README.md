# Formal verification of ThirdCode Accounting

TLA+ specifications of the accounting add-on `addons/thirdcode_accounting`
(Odoo 18) and of the operations around it, checked with TLC and, where stated,
proved with TLAPS for every value of their constants. Paths below are relative
to `src/`; `models/` abbreviates `addons/thirdcode_accounting/models/`.
`PROJECT.json` maps each definition to the lines it models and lists the runs,
the mutants, the findings, the hazards and the theorems.

Contents: 1 the system, 2 the modules, 3 the runs, 4 fairness, 5 what is
proved, 6 findings and observations, 7 what is left out, 8 what could follow.

## 1. The system

### 1.1 How it runs

The add-on extends Odoo with the controls of a Philippine bookkeeping office:
accounting periods that close, posted entries that never change, payment
batches that need an approval, recurring documents, bank reconciliations that
are signed off, and a console from which the platform's owner manages customer
organizations. Around it stand a server container, backup scripts run by a
scheduler, a website and customer portal (Next.js over a hosted database) and a
small worker.

All accounting state is rows of PostgreSQL tables. Every button press, record
edit and scheduled job is one transaction at isolation level REPEATABLE READ
that reads a snapshot, so **a search in Python sees the past**. The add-on's
correctness rests on a few idioms, and they are what the models are about:

| idiom | where | what it must give |
|---|---|---|
| shared or exclusive lock on the company row, the latter by bumping `thirdcode_period_revision` | `models/res_company.py`, used by `account_move.py`, `accounting_period.py`, `recurring_*.py` | a period is not closed while somebody writes into it, nor written by somebody who does not know it is closed |
| a no-change `UPDATE` of the parent row before anything else | `payment_batch.py` `_lock_for_posting` | requests on one batch exclude one another even when they touch different lines |
| a read of the state in the snapshot, and no lock | `bank_statement_line.py`, `platform_operations.py`, `accounting_period.py` `_check_overlap` | nothing by itself: another row conflict has to save it, and sometimes none does |
| a savepoint per unit of work within a job | `recurring_journal.py` `_cron_run_due` | a refusal undoes one unit and not the others |
| idempotence by a recorded result | `statement_matching.py`, `recurring_journal.py`, `cutover.py`, `orvexa.py` | a repeated call does nothing twice |

A lost race (serialization error) makes Odoo repeat a request from a fresh
snapshot; a scheduled job is not repeated, it comes back with its next run.

### 1.2 Inventory

*Modelled:*

| component | state | operations | interacts with | hard behaviours | correct when |
|---|---|---|---|---|---|
| **Periods and entries** (`accounting_period.py`, `account_move.py`, `res_company.py`) | period: open/closed and dates; move: draft/posted/cancel and date; company: period revision | create, write, post, cancel, back to draft, delete entries; create, write, delete, close, reopen periods | everything that posts goes through the same date check | a close racing drafts it cannot see; re-dating across a close; edit or deletion of a period racing its close | closed periods hold no draft and do not change; posted entries never change; only a reopen leaves "closed"; periods do not overlap |
| **Documents and roles** (`account_move.py`, `account_payment.py`, `res_partner.py`) | who wrote a draft last, whether the nightly job may post it; what a posted payment froze | arm, edit, post, send, print; VAT of a receipt | nightly job, recurring documents | an Encoder's draft posted by a job that runs as somebody else | nothing an Encoder wrote is posted without a reviewer; receipts keep what they say |
| **Payment batches** (`payment_batch.py`, `account_payment*.py`) | batch: draft/pending/approved/posted/cancelled, creator, approver; lines with amount, document, payment; company threshold | edit lines, submit, approve, cancel, post (one payment per line), delete | documents' balances, payments outside batches, policy changes | balances and policy stale between submission and posting; a refusal halfway through the lines; a double click on Post | all or nothing, once; what was submitted is what is posted; approval covers the total; no overpayment |
| **Recurring documents** (`recurring_journal.py`, `recurring_invoice.py`) | next date, last date, active, last error; one document per date | run now, run due, daily job, edit | period rule, company lock | three ways to run at once; one transaction for all definitions; backlog after an outage; ends of months | no due date is passed without its document; a failure leaves nothing; the job reports what it cannot do; backlogs shrink; dates come back to their day |
| **Bank reconciliation** (`bank_reconciliation.py`, `bank_statement_line.py`, `statement_matching.py`) | reconciliation: draft/reconciled/reopened, statement and ledger balance; lines; matches with their adjusting entry | create, edit, compute, sign off, reopen; create, attach, detach lines; match, reverse, undo natively | entries posted meanwhile change the ledger balance | state of the parent read without a lock; repeated match after a lost answer; native undo between match and reversal | signed off means balanced, on the current ledger, and frozen; one live match per line, known at both ends |
| **Organization lifecycle** (`platform_console.py`, `platform_operations.py`) | status, status before suspension, accounts the suspension disabled; accounts enabled or not | trial, activate, extend, suspend, resume; enable, disable, toggle, create accounts | channel synchronization locks every company | overlapping suspensions of organizations that share an employee; enabling while suspending; stale console pages | recovery lists survive; nobody stays locked out; nobody is let in during a suspension |
| **Set-up of organizations and accounts** (`setup_service.py`, `org_users.py`) | settings, chart, journals, first period; accounts, profiles, who may manage them | baseline steps, provisioning, expense profiles | lifecycle, Discuss | a step fails and the set-up is started again; a request is sent twice | a second attempt ends where one would have; repeats change nothing |
| **Year-end close** (`year_end_close.py`) | draft/posted/cancelled per date; one entry that transfers profit and loss | create, edit, post, reverse natively, cancel, delete | numbering of the entries; other postings of the year | the balance is summed in a snapshot under a lock on its own record only | transferred once per date; nothing left that was there |
| **Numbering** (`continuous_numbering.py`, `receipt_sequence.py`, `res_company.py`, `account_payment.py`) | highest number ever posted; a no-gap sequence made on first use | post, change a journal's code, first receipt | year-end closes | two readers of one maximum; two creators of one sequence; rollback | numbers unique and without gaps |
| **Migration and cutover** (`migration*.py`, `cutover*.py`, `scripts/migration_*.py`) | batches of rows; opening entries; source identifiers of documents; the archive | edit and move rows, validate, sign off, apply a cutover, load a package call by call, archive history | the ledger of the company | repeated or concurrent application, lost answers, two versions of a package | applied completely or reported as not; on an empty ledger only; archived history never changes |
| **Backup and recovery** (`scripts/hosted_backup.py`, `docker/odoo/*.py`, `scripts/hosted_recovery_*.py`) | server's processes running or stopped; capture; status objects; receipts; locked versions in the vault; a drill's processes | capture, deliver, record, retain, monitor; deliver to the vault, plan, delete; drill | watchdog, scheduler, supervisor, monitors | a process stalls or is killed between any two steps; late events; interrupted retention; lost answers | writers always run again; a status names what is there; the newest bundles survive; a drill verifies what was captured and leaves nothing behind |
| **Sign-in throttle** (`tcsi_auth_throttle.py`, `res_users.py`) | failure counters on a cursor of their own | check, authenticate, count | prefork workers | three transactions per attempt; counts lost to races | few attempts beyond the limit; cooldowns end |
| **Website publications** (`platform_publication.py`) | draft, public and previous snapshot under a revision | new, save, publish, archive, revert | several operators' pages | stale pages | nothing changed unseen |
| **ORVEXA proposals** (`orvexa.py`) | pending/done/cancelled, expiry, revisions seen | prepare, confirm, cancel | drafts removed by others | repeated confirmation | at most one invoice per proposal |
| **Discuss of organizations** (`discuss_isolation.py`) | membership of channels; organization of a conversation | every change of a user, join, leave, open a chat; checks of messages, files, calls, notifications | organization lifecycle | synchronization from an old snapshot | access follows the account |
| **Contacts of organizations** (`contact_isolation.py`) | company and shares of a contact, trees of contacts | read, write, create, move, name in a document, backfill | documents, bus | trees that are carried along by a write | what a user changes he may see; nothing crosses companies |
| **Reports** (`financial_report.py`, `trial_balance.py`, `report_completion.py`, `report_access.py`, `monthly_reconciliation.py`) | none of their own; the allocations of cash movements | financial statements, cash flow, tax summary, sources of the trial balance, monthly bank review | entries, year-end closes, reconciliations | figures that count something twice or not at all; closes and their reversals; lines of one tax split in parts | statements tie to one another and to the ledger; a review agrees with the sign-off |

*Not modelled:* controlled configuration records (`tax_profile.py`,
`report_sample.py`, `settings.py`, `branding.py`: two-state approvals of single
records); the audit log of an external module; controllers, assets and browser code; the website, portal and worker,
which hold no protocol beyond a unique key; verification, benchmark and demo
scripts. Reasons are in `PROJECT.json` under `components`.

## 2. The modules

State machines:

```
SnapshotDB                 transactions: snapshots, row locks, commit, abort (external)
  SnapshotProofs           lemmas every component below starts from; sums over rows
  PeriodControl            entries, periods, company lock  --refines--> AccountingLedger
    PeriodControlProofs
  PaymentBatch             batches, lines, balances, policy  --refines--> BatchLifecycle
    PaymentBatchProofs
  RecurringRuns            definitions, documents, the daily job  --refines--> RunBook
    JobProofs
  BankSignOff              reconciliations, statement lines, matches
  DocumentSeries           numbers of journals and receipts  --refines--> NumberSeries
    YearEndClose           closes over those documents
      SignOffProofs        BankSignOff and YearEndClose
  OrganisationLifecycle    organizations and accounts
    OrganisationProofs
  MigrationCutover         batches, opening entries, a package load
    MigrationProofs
  OrvexaTasks, WebsitePublications, CompanyDiscuss, and SignInThrottle
    PlatformServices       the four composed
      PlatformServicesProofs
WriterPause                a capture and its watchdog
  BackupCycle              the daily cycle around it
    JobProofs
  HostedProcesses          WriterPause and RestoreDrill composed
    JobProofs
RestoreDrill               a drill and its watchers
RecoveryVault              the object-locked store
  JobProofs
MC<module>                 instances for TLC where one is needed: symmetry sets, constant
                           functions, and the assumptions by which TLC checks the rules below
```

Rules, without state of their own: what one call decides or computes.

```
RecurringSchedule   dates and documents of a definition   JobProofs
DocumentRules       roles on documents, VAT of receipts   PeriodControlProofs
LedgerReports       what the reports read from the books  PeriodControlProofs
OrganisationSetup   set-up, accounts, who manages whom    OrganisationProofs
PackageRules        a valid package, its entries, the     MigrationProofs
                    search-or-create of master records
SourceArchive       the archive of source history         MigrationProofs
ContactScope        whose contacts a user reads, writes   PlatformServicesProofs
DiscussAccess       whose conversations a user reaches    PlatformServicesProofs
CutoverPolicy       the entries of a cutover              (TLC only)
```

**SnapshotDB** is the one piece that is not the repository's code: the
behaviour of PostgreSQL and Odoo the add-on counts on. `db` holds the committed
rows; a transaction `t` has a `view` (snapshot plus own writes), the rows it
`wrote` (locked), those it holds `shared`, and `missed[t]`, the rows others
committed since its snapshot. Locking or writing a missed row is impossible:
that is the serialization error, and what the request does then is `Abort`; the
retry is a new `Begin`. So every refusal, lost race, crash and deadlock victim
is one action, enabled at any time, and waiting for a lock is an action that is
not enabled. `Put` is one statement, `CommitWith` a last statement together
with the commit. The latter is used where nothing that other requests can
notice lies between the two: whoever wants such a row would wait and then fail
on its `missed` set, which is what happens without the wait.

**PeriodControl** has one action per operation on an entry or a period. A
request runs any number of operations of its kind before it commits, so an edit
after a check in the same request is covered. `CheckDateAllowed` is
`_check_date_allowed`: FOR SHARE on the company, then the search for a closed
period in the view. `LockPeriodState` is the revision bump; its number is never
read by anybody, so the row keeps one value and only the conflict remains
(otherwise the state space would grow with each close). `ActionClose` searches
drafts twice as the code does, in the view and on a fresh cursor (`db`). A move
stands for itself and its lines: the guards on `account.move.line` reach the
same checks through its move. An operation on several records is several steps
of one request.

**AccountingLedger** is the abstract specification: entries and periods without
requests. Its steps say what may happen to the committed books at all.

**PaymentBatch**: one request is one button or edit. Each begins with
`_lock_for_posting` on the batch, which is why every write set includes the
batch even if only a line changes (`WithBatch`). Posting is `StartPost` (all
checks), a `PostLine` per line and `FinishPost`; between them other requests
run. `Settle` is Odoo's payment register: what exceeds a balance becomes an
outstanding credit, counted here in `over`.

**BatchLifecycle** is its abstract specification: batches and lines without
requests, views or locks. A submission keeps what is payable, an approval is by
an administrator other than the creator, lines change among drafts only, and a
posting pays all lines as they are in the books in the step that posts the
batch. The steps of a request map to no step but the last, which takes its effect.

**RecurringRuns**: `AfterRuns` gives the rows a sequence of `_run_one` calls
leaves; `RunNow`, `RunDue` and `CronRun` use it under their own conditions.
`CronFail` is the rollback to the savepoint and the recorded error. The job is
one transaction for all due definitions and its slot is unique, as Odoo locks
the job's row. Scheduled dates are `Interval` days apart.

**RunBook** is its abstract specification: definitions, documents, the last closed
date and the clock, without requests, snapshots or savepoints. One step runs a
definition by hand for today, or catches up any number of definitions: each gets
exactly the dates that had come by some day up to today, or only its error, or
stays. The job's commit is such a step, however long it has worked.

**BankSignOff**: the guards of statement lines read the reconciliation in the
view and write only the line; `Reconcile` writes only the reconciliation. That
asymmetry is in the code and is the subject of the module. A line stands for
its bank entry too, so the ledger balance is the number of lines. An adjusting
entry remembers its line and what its two sides are paired with; items and lines
know their end of the pairing. `Match` and `ReverseMatch` are the code's actions;
the rest is what `reconciliation.py` lets users do natively with the same entries:
undo either side, pair it again with any item or line, reverse the entry, clear a
line with an entry of no match. A reversal's own sides are paired with the entry it
reverses and with nothing else.

**OrganisationLifecycle**: every change of an account ends in
`_sync_company_channels`, which locks all companies. `SyncChannels` demands
that no company changed since the snapshot. That lock exists for the channels,
and it is the only reason why enabling an employee is safe against a concurrent
suspension. `last` is a history variable, what was done to an account last, in
terms of which the promises to employees are stated. The console offers "Activate"
and "Start trial" by the status it shows, which may be old, and the methods behind
them check none, so the model lets both hit a suspended organization: whom its
suspension disabled is then recorded as "bypassed".

**DocumentSeries** has one journal and one company. Posting takes the number
after the highest the view shows, and the unique index decides: a name another
request in progress uses makes it wait, one found committed makes it try the
next. Receipts lock the counter's row; the first receipt creates it.
**NumberSeries** is its abstract specification: only what is posted, without
requests, views or the index. One step posts some documents: they take the free
names of one code behind a number in use and leave none out, and customer
payments among them the next receipt numbers. Another step changes the journal's
code. A request maps to one step, its commit.
**YearEndClose** adds the closes. Income and expense are one signed figure; a
close transfers the sum its view shows and locks only its own row. One request may
post several closes, in any order of their dates (the code takes the latest first,
`year_end_close.py:9`), all committed together; the code locks them all before it
starts, the model one by one, which admits more. What a close does not transfer is
named: documents that others committed since the snapshot of its request, and
later closes of the same request. `CloseLeavesNothing` says that all else, up to
its date, adds up to nothing.

**MigrationCutover** has both ways of bringing books over. A cutover is one
request that searches the ledger, drafts included, and posts the opening
entries. A reconciliation row that is absent does not exist or belongs to another
batch; `MoveRowIn` gives a row of another draft batch this batch, which the code
does whatever state this batch is in. A load is a process outside the server that makes a call per document,
each a request of its own; calls and answers get lost, loaders die and start
again, and two loaders may carry packages that disagree (`Says`). **PackageRules**
says which packages `migration_validate.py` accepts and what `migration_load.py`
makes of one, **CutoverPolicy** what `cutover_math.py` computes, **SourceArchive**
what is retained beside the ledger.

**SignInThrottle** keeps the age of a counter's first failure and what is left of
its cooldown instead of times. An update is begun and committed on a cursor of
its own, fails if somebody else committed to the row, is tried once more and then
given up. `tries` and `lost` are history variables: the wrong passwords on a login
in one window and those of them whose update was given up. **OrvexaTasks** and **WebsitePublications** are requests of SnapshotDB
whose guards compare the revision a proposal or a page was made of.
**CompanyDiscuss** has `_sync_company_channels` as part of every change of a user:
the lock it takes changes no row, so a request that waited goes on with its old
snapshot. Everybody eligible is added to a General channel, archived or not, and who
is not eligible is taken out of every channel that is not archived; channels are
archived and taken out again natively. **PlatformServices** composes the four. They share the database and no
row, so one of them is at work in each behaviour; the run is their disjoint
union, not an interleaving of them, which could show nothing more.

**WriterPause** is `hosted_backup.py` against the server it stops: requests are
in three steps (file, row, commit), signals stop processes one by one, and the
capturing process has no fairness. The watchdog is a process of its own with a
timer of its own. **BackupCycle** extends it by the scheduler, its supervisor, the
container, delivery, retention and the two monitors; a day begins at 03:00.
**RestoreDrill** is the tree of five processes by which a drill is run, every
second one a watcher. **RecoveryVault** is the store: objects by key and version,
locks that end on a day, deliveries that are repeated, and plans that delete the
exact versions they list, step by step. In these modules a kill is an action
that may come between any two steps, counted by `MaxKills` or `MaxDeaths`.

**The rule modules** translate what a call checks and computes into operators;
their inputs are the records and lists the code reads. `DiscussAccess` and
`ContactScope` are the predicates every request evaluates, `RecurringSchedule` the
month arithmetic, `OrganisationSetup` the baseline as a sequence of steps each of
which looks at what is there. `LedgerReports` has the searches of each report as sets of
moves or lines and its figures as sums over them; the rows and their wording are
left out. The search-or-create of master records (`LoadMasters`) and
`CutoverPolicy` compute over sequences and are checked by TLC over all small
inputs.

## 3. The runs

"V" marks the run that refutes what the code states of itself (section 6).

| run | instance | shows |
|---|---|---|
| `period_control` | 2 requests, 1 entry, 1 period, 2 dates | closed periods hold no draft and stay frozen, the books implement AccountingLedger: what is posted stays, and changes need an open period |
| `period_overlap` V | 2 requests, 2 periods, 1 date | two concurrent creations overlap |
| `payment_batch` | 2 requests, 1 batch, 2 lines, 1 document of 3, amounts of 2, thresholds 2 and 4 | posting is all or nothing and once, approval covers the total, a document is overpaid only by two lines of one batch or by hand, never on a balance that was gone, the batches implement BatchLifecycle: what was submitted is what is approved and posted |
| `recurring` | job and 1 user, 2 definitions, 2 days, at most 2 runs per catch-up, 1 closable date, 1 unposted document | no overdue date is skipped, nothing lands in a closed period, the runs implement RunBook: a failure leaves nothing but its error, and a catch-up is all or nothing; under fairness the job runs or reports everything and catches up. Assumption `SchedulesKept`: the calendar over 14 dates of daily, weekly, monthly and yearly schedules, against dates written down directly |
| `bank_sign_off` | 2 requests, 1 reconciliation, 2 lines, 2 adjusting entries, 1 item of capacity 1 | one live match per line, known at both ends of every pairing, what is signed off is balanced and was compared with the current ledger, only overlapping requests change signed-off lines. `StatementsTie`, `CashReconciles`, `RefundsCancel`, `ReviewAgrees`: the reports over small books with a year-end close and its reversal, allocations of two rows, tax lines in two parts, and every ledger of four days |
| `organisation` | 2 requests, 2 organizations that share an employee, 2 accounts | recovery survives, nobody is stranded but by an operator who activates a suspended organization, nobody is enabled into a suspension, only newcomers escape one. `SetupAfterSomeJournals`: set-ups of organizations that have part of their books |
| `year_end` | 2 requests, 4 documents, 2 closes, 2 dates, 2 codes of the journal | numbers and receipts without holes, the documents implement NumberSeries, one transfer per date, a close leaves nothing its request saw, whether it is alone in its request or one of two. `ReceiptsCarryTheVAT`, `NightlyJobKeepsRoles`: DocumentRules over small documents |
| `migration` | 2 requests, 2 rows, of which a cutover adds 1, 1 opening entry, 2 documents of a package, 2 loaders, 1 other document | batches leave their draft and are signed off with rows that all match, and keep those, a cutover comes onto an empty ledger, a load that says APPLIED is complete. `MastersRetry`, `TwoOfOneName`, `ArchivedAtOnce`, `CutoverPlans`: the pure rules of packages, archive and cutover |
| `platform` | 2 workers, login limit 2, address limit 3; 2 proposals, 2 invoices; 2 operators, 3 revisions; 2 organizations and the platform, 2 users, 1 chat, opened in one organization, that may be archived | the throttle's limit holds, few updates are given up and cooldowns end, one invoice per proposal, nothing published unseen, a change of an account revokes, and nobody strays into a conversation but through a commit on it or on him that the request could not see. `ContactWrites`: every write on a book of six contacts |
| `hosted_processes` | 2 workers, 2 attachments; a drill with 2 kills | a bundle kept is paired, writers resume, a verified drill verified what was captured, drills end and leave nothing running |
| `backup_cycle` | 3 days, 2 runs, 1 death anywhere, 2 attempts a day, retention 1 day | what a status or a monitor claims is there; the attempts of a day end |
| `recovery_vault` | 3 captures, 2 deliverers, 2 plans, 5 days, 5 versions, at least 2 kept | durable bundles are kept, what is lost is journaled |

**Why the bounds suffice.** Where requests are transactions of SnapshotDB, the
hazards are conflicts between a request and those that committed since its
snapshot, and `missed` accumulates over any number of commits of the other slot,
so two slots give one stale request against arbitrarily many finished ones. In
DocumentSeries, MigrationCutover and CompanyDiscuss the runs bound this further
(`WithinBound`, the constant `OneOverlap` set to TRUE; in BankSignOff and
OrganisationLifecycle `InBound` and `OneCommit`): while a request is in progress at most one other commits. Their conflicts are between two requests (two
postings, two loads, two changes of a user), and a third commit would only add
rows to `missed` that the first already holds. The theorems do not rest on it:
they are proved for both values of the constant. One entry and one period suffice for the period rule because its guards
speak of one entry against one period at a time; the proof removes that bound.
Two dates give an inside and an outside. Two lines are what an overpayment and a
partial failure need, and with a total of 3 and lines of 2 one line fits and two
do not; the thresholds lie below every total of two lines and at it. Two days
give today and an overdue date, and 2 for the limit of 120 lets a backlog reach
it exactly. Two organizations with a shared employee are what overlapping
suspensions need; the second account belongs to one of them and is hired during
the run. Four documents are two closes, a reversal and an ordinary entry. Two
documents of a package give a load that stopped in between, and two loaders
whose packages differ in one of them a conflict. A login limit of 2 and two
workers let a count be lost twice. Two attachments are one that a bundle holds
and one that is being written; two workers are one stopped and one not yet.
Retention needs a bundle older than its window and one younger: three days, and
in the vault three captures of which two must be kept. Symmetry is used over
request slots and interchangeable records, never in a run with a liveness
property.

Deadlock is checked in the runs whose requests can always begin anew.
`platform`, `hosted_processes`, `backup_cycle` and `recovery_vault` say
`CHECK_DEADLOCK FALSE`: their days, versions, revisions, kills and deaths are
bounded and their processes finish, after which nothing is left to do.

Each passing run visits every action of its module. Each property of a passing
run has a mutant: a plausible slip in the code (a dropped guard, a missing lock,
a stale value trusted) kept in the module beside the definition it alters, under
which TLC finds the property violated. They are comments in executable form on
what each guard is for.

## 4. Fairness

`RecurringRuns`, under `FairSpec`:

- `WF(StartCron)`: Odoo's scheduler starts the job every day;
- `WF(CronStep)`: a job that can go on does;
- `WF(missed[Scheduler] # {} /\ Abort(Scheduler))`: a job that lost a race
  notices, so it does not block its slot for ever;
- `<>[][~Abort(Scheduler)]`: crashes and lost races end some time. Without it
  users could change a definition during each run of the job and defeat it
  for ever, which nothing in the code rules out.

`HostedProcesses`: of a capture only the watchdog is fair, since it waits for a
timer or a closed pipe; the capturing process may stall for ever between any two
steps, and still no writer stays stopped. Of a drill the drill itself and the
watchers are fair; the restore and its tools may hang.

`BackupCycle`: the watchdog and the capture's deadline (timers), the steps of a
capture (every call it makes has a timeout there), the scheduler and its
supervisor (a polling loop), and the restart of the container by its host. Kills,
operators' captures, requests and monitors owe nothing.

`PlatformServices`: the throttle's clock ticks.

Users, operators and callers owe nothing anywhere: no run, correction,
confirmation or retry of theirs is assumed.

## 5. What is proved

Each invariant that a run checks is a theorem too, for every value of the
constants, with one exception (`FewGivenUp`, section 5.12), and so is each action
property and each refinement. What the theorems assume are the named
assumptions on constants: that rows of different tables are different (`Row` is
the union of the tables), that an absent value is none of the rows, that bounds
and amounts are natural numbers and, where something is counted, that the set is
finite. TLC evaluates all of them on the instances. They are repeated below only
where they say more than that.

### 5.1 Transactions and sums

`SnapshotProofs` has the lemmas the other proofs start from.

*Requests of one statement.* Where a request ends with its only statement no lock
outlives a step. `Discipline` says so, and adds `ViewsCurrent`: a row that a
request has not missed reads as committed. It is kept by a begin, an abort and a
commit whose rows were not missed (`DisciplineBegin`, `Commits`). BankSignOff,
OrganisationLifecycle, MigrationCutover and PlatformServices start here. The
components whose requests hold locks over several steps (PeriodControl,
PaymentBatch, RecurringRuns, DocumentSeries) state the same with the locks:
locks are exclusive, a locked row is current.

*Sums.* The community modules fold a finite set by a recursion over its elements.
That this recursion has a solution, only one, and that the order of elements does
not matter is proved by well-founded induction on finite sets (`SumsExist`,
`SumsUnique`, `SumWithout`); with it follow totals of payment batches and the
balances that year-end closes transfer.

### 5.2 Periods

`PeriodControlProofs`, for any number of requests, entries, periods and dates:

| theorem | states |
|---|---|
| `TypeCorrect`, `InductiveInvariant` | `TypeOK`, `IInv` |
| `ClosedPeriodsHoldNoDraft` | `NoDraftInClosedPeriod` |
| `PostedEntriesImmutable` | `PostedImmutable`, a part of what `AccountingLedger` says |
| `ClosedPeriodsFrozen` | `ClosedPeriodFrozen` |
| `ClosedPeriodsOnlyReopened` | a closed period changes only by a reopen, which keeps its dates |
| `ImplementsLedgerTheorem` | `PeriodControl` implements `AccountingLedger` |

*The argument.* `NoDraftInClosedPeriod` is not inductive: whether a commit
keeps it depends on what the committing request checked long before. `IInv` adds

- `SnapshotInv`: locks are exclusive, locked rows are current, and a row that
  was neither missed nor written reads as committed;
- `LocksByKind`: a request that wrote an entry holds the company shared, one
  that closed or reopened a period holds it exclusively, and maintenance
  requests write only periods;
- `ClosedPeriodsKnown`: a request that has not missed the last revision of the
  company knows every closed period and its dates. This is the heart: it is
  what the revision bump is for, and it holds because closed periods change
  only under the exclusive lock while open ones may change without it;
- `PendingEntries` and `PendingPeriods`: what is about to be committed was
  decided on rows that still hold. For a close this includes that no draft has
  been committed into the period since the search on the fresh cursor, which
  follows from the exclusive lock: an entry writer needs the shared one.

Every operation is first reduced to one of six effects (`Effect`), then each
part of `IInv` is proved for each effect; the action properties and the
refinement follow from what a commit publishes (`CommitEntries`,
`CommitPeriods`).

### 5.3 Payment batches

`PaymentBatchProofs`, for any number of requests, batches, lines (a finite set)
and documents, any amounts and any policy:

| theorem | states |
|---|---|
| `InductiveInvariant` | `IInv` |
| `BatchesPostInFull` | `PostedInFull`, with `TypeOK` |
| `SubmittedLinesStay` | `SubmittedLinesFrozen`, lines of a batch stay once it is submitted |
| `ApprovalCoversTheTotal` | `ApprovalCoversTotal` |
| `OverpaymentIsNeverStale` | `OverpaidKnowingly` |
| `BatchesFollowLifecycle` | `PaymentBatch` implements `BatchLifecycle` |

*The argument.* That a posted batch has no unpaid line depends on lines its
poster read many steps earlier, so `IInv` says what a request knows:

- `LinesKnown`: a request that missed no change of a batch knows its lines.
  This is what every edit of a line writing the rows of its batches gives, and
  what the run's mutant `WriteLineUnlocked` takes away;
- `PostingLines`: a posting request holds its batch, what it wrote beyond it are
  lines of that batch changed only in being paid, and what it has still to pay
  are exactly the others;
- `PostingDocuments`: a document with no paid line yet has room for each of
  its lines, as the check before the loop left it; one already paid beyond its
  balance has two paid lines;
- `Books`: committed lines have a batch, and a submitted batch has lines.

Operations are first reduced to a few effects (`Effect`): a batch changes state,
a line changes among drafts, a balance or the policy changes. `CommitOthers` and
`WriteOthers` then settle what a step leaves of all other requests, once, and
each effect has to restore only its own part.

`ApprovalCoversTotal` needs a second invariant, `CoverInv`: whoever is named as
approver is an administrator who did not create the batch, and while a request
posts, the total in its view is within the policy it read or the batch has an
approver. Paying a line changes no total (`TotalSame`), so the total that was
compared at the start is the total of the batch posted at the end.

`BatchesFollowLifecycle` takes the same effects: nothing is committed before a
request's last step (`NothingShown`), and that step is one of the abstract ones. For
a change of state this needs that the batch it turns is the committed one
(`BatchShows`, from the locks); for a posting that the batch is held as it was read,
with positive amounts, and that the lines still in the books under it are those
that were paid one by one (`FinishShows`, from `PostingLines` and `LinesKnown`); for a
line that both the batch it leaves and the batch it joins are drafts at the
commit (`LineShows`), which is what `_lock_for_posting` is there for.

### 5.4 Bank sign-off

`SignOffProofs`, for any number of requests, reconciliations, items, lines and
adjusting entries (finite sets):

| theorem | states |
|---|---|
| `MatchesStayLive` | `OneLiveMatch`, with `TypeOK` |
| `SignedOffStaysBalanced` | `SignedOffBalanced`, the first part of the next |
| `LedgerIsCurrent` | `SignedOffOnCurrentLedger` |
| `LinesStayWithSignOff` | `OnlyOverlappingLinesLate` |

*The argument.* With `Discipline` each guard read in the view holds in the
database of the commit, unless the row was missed, and then it cannot be written.
`MatchesLive` says of the committed rows what `OneLiveMatch` says, and that a
recorded match exists. `ReversalsSeen` is what makes a match safe: whoever reads the
recorded match as reversed is right, since a reversal is never taken back, so the
line's next entry replaces none that is live. The last theorem turns the same fact around: a request that has not missed
the sign-off reads it, and is refused.

### 5.5 Numbers and year-end closes

`SignOffProofs`, for any number of requests, documents and closes, any dates and
codes of the journal:

| theorem | states |
|---|---|
| `SeriesNeverBroken` | `SeriesUnbroken` |
| `DatesTransferredOnce` | `OneTransferPerDate` |
| `ClosesLeaveNothing` | `CloseLeavesNothing` |
| `SeriesIsNumbered` | `DocumentSeries` with `YearEndClose` implements `NumberSeries` |

*The argument.* A request takes a number from a view that may be old, so the
invariant relates views to the committed documents: `SeenPosted` (what a request
sees posted and did not post itself is committed just so), `OwnNew` (what it
posted itself has a name nobody else has, in any request), `NamesUnique`, and
`NoHoles`, which is what makes "one after the highest" right: below a number in
use every number is, in the committed documents or in the request's own. The
number a request tries next exists because the documents are finitely many (a
pigeonhole over their numbers). `ReceiptsCounted` says the same of receipts
through the locked counter. `CloseInv` has the dates of closes that live and that
a close which is no longer posted has had its entry reversed. For a request in
progress it says (`Closing`) that each close it has posted is still a draft of the
same date in the books, and that what the view had up to that date when its entry
was added, the entry included, adds up to zero: the entry is minus the sum of the
rest, and whatever the request posts later has a higher number and stays outside.
At the commit `SeenPosted` turns what the view showed into what is committed, and
`CloseLeavesNothing` follows, whatever others committed meanwhile.

`SeriesIsNumbered` needs what a request skipped: it tries one number after the
other, and may find some of them taken by documents it does not see.
`TakenInOrder` says that what it has posted lies behind every number it saw, and
that each name of its code in between is committed or its own. Names once
committed stay, so the statement survives the commits of others, and at its own
commit (`PublishShows`) it is the abstract step `Post`; a commit of the journal
is `Recode`, and any other stutters. The code a document carries is one the
journal had, perhaps not the last, because a posting need not see the change.

### 5.6 Recurring runs

`JobProofs`, for any number of requests and definitions, any interval, horizon
of days and limit of runs:

| theorem | states |
|---|---|
| `RunsInvariant` | `IInv` |
| `NoDateSkipped` | `OverdueNeverSkipped` |
| `FailuresLeaveNothing` | `FailureLeavesNothing`, a part of what `RunBook` says |
| `ClosedPeriodsSpared` | `NoneIntoClosedPeriod` |
| `RunsKeepTheBook` | `RecurringRuns` implements `RunBook` |

*The argument.* Users' requests are one statement each, the daily job is one
transaction over many definitions. What it will commit was decided step by step
on an old view, so `IInv` keeps, beside locks and types (`Locks`, `JobRequests`,
`Tables`, `Views`), what is pending: `PendingRuns` says of a definition the job has
run that each scheduled date its runs passed is posted in its view, of one it
failed to run that nothing but the error differs from the committed row, and of
one still to run that it is due and untouched (`RanDue`); `PendingPosts` says that
each document it has posted lies after the last closed date and that it holds the
company, so no close can come in between.

`RunsKeepTheBook` needs of the job's pending rows exactly what they are:
`RanThrough` says that the row of a definition it has run is what runs through
some day make of the committed row, that the dates of those runs are posted in its
view, and that it wrote no other document of the definition. The day need not be
today: the job may commit after midnight what it ran before, and this is why the
abstract catch-up chooses its day. A document it has posted was absent when it
did, and as it holds the row it still is at the commit.

### 5.7 Organization lifecycle

`OrganisationProofs`, for any organizations, employees and requests:

| theorem | states |
|---|---|
| `NobodyIsStranded` | `NobodyStranded` |
| `RecoveryIsKept` | `RecoveryKept` |
| `EnabledAfterResumption` | `EnabledAfterResume` |
| `NewcomersAloneEscape` | `OnlyNewcomersEscape` |

*The argument.* Each change of an account locks all companies, so `Discipline`
makes a committing request current on them. `IInv` adds `Recoverable`, whoever a
suspension disabled last is disabled, and on the list of that organization, which
is suspended, or that suspension was bypassed, and `Unlisted`, no list of a
suspended organization names anyone disabled beforehand.

### 5.8 Migration and cutover

`MigrationProofs`, for any number of requests, loaders, rows (finite, not empty)
and documents, and any package order:

| theorem | states |
|---|---|
| `SignedOffRowsMatch` | `SignedOffMatches` |
| `CutoverStartsEmpty` | `CutoverOnEmptyLedger` |
| `LoadsAreComplete` | `AppliedLoadIsComplete` |

*The argument.* A validation or sign-off writes the batch and no change of a row,
so nothing would stop a row from changing meanwhile, were it not for the batch's
stored counters: every change of a row changes a counter (`Tally`), hence the
batch, so who has missed no change of the batch reads the rows as committed
(`RowsCurrent`). A row moved into a loaded batch makes the sign-off depend on the
counters themselves: as many matched rows as rows means that all match
(`CountersMatch`). For loads:
`SourcesKept`, a document a package brought stays; `CallsInOrder`, a loader has one
call under way; and `Loaded`, what a loader has come past is on the books as its
package says, which is `AppliedLoadIsComplete` before the end of the package.

### 5.9 Platform services

`PlatformServicesProofs`, for any number of requests, proposals, operators,
organizations, users, workers and logins:

| theorem | states |
|---|---|
| `TasksCarriedOutOnce` | `OneInvoicePerTask` |
| `DraftsChangedAsSeen` | `SeenBeforeChanged` |
| `AccountChangeRevokes` | `UserChangeRevokes` |
| `FewTriesBeforeCooldown` | `LimitHolds` |

*The argument.* `OnceOnly` and `CarriedOut`: two invoices of one proposal are
one, and an invoice has its proposal done. `PagesFaithful`: a page of the draft's
revision has its text, and no page is ahead. `UserChangeRevokes`: whoever a
request lets in it saw entitled (`SyncLetsIn`, `ConversationFacts`), whom a change
of an account saw in a conversation in use without being entitled it takes out
(`SyncTakesOut`), and what it saw of an account, a conversation and a membership is
what is committed unless it missed a change of one of them (`Entered`). The throttle has an invariant of its own,
`ThrottleInv`: before the cooldown every wrong password is in the counter, in
flight or given up; during it what was tried and what may still be tried by those
past the check stay within the limit and the other workers (`Accounted`); and a
transaction prunes no counter on cooldown, since it has not missed a change of
what it deletes (`PrunesUnblocked`).

### 5.10 Backup, drills and recovery

`JobProofs`, for any number of captures, days, workers, attachments, processes
killed, deliverers, plans and versions (finitely many runs):

| theorem | states |
|---|---|
| `KeptBundlesPaired` | `BundlePaired` |
| `VerifiedDrillsCaptured` | `VerifiedIsCaptured` |
| `StatusesNameBackups` | `StatusNamesBackup` |
| `DurableStaysKept` | `DurableKept` |
| `LossesStayJournaled` | `LossJournaled` |

*The captures.* The server may run again at any moment of a capture: a late
watchdog, a restart. `BundleMade` says what holds of the dump and the copy at each
point *unless the master has run or gone since* (`Disturbed`); once that has
happened it cannot be undone within the pause, because nobody stops a server that
was confirmed stopped again, so the last check sees it and the bundle is dropped.
A bundle that is kept is `Paired`, and stays so because no request in flight holds
one of its files. *The drill:* `DrillInv` says which processes live at which stage
and that a judgement was made of the captured accounting with no jobs running.
*The cycle:* `RunOrder` (what has an object, a receipt or the place of the last
success has uploaded; what comes after an upload comes in order), `RunDates`
(captures are no younger than their receipts) and `Pruning` (what retention is
deleting has expired and is not the run just delivered, which the remote status
names by then).

*The vault.* A plan counts receipts, some of whose bundles another plan may have
deleted meanwhile, so that "enough are left" is not inductive. `LossesCovered` is:
a receipt whose bundle is gone has at least `KeepMinimum` whole bundles of later
captures. Whatever of those a plan counts in vain is thus made up for, and no plan
reaches the newest. `LossJournaled` is strengthened by what a journal holds: its
entries were due when it was made and stay due.

### 5.11 Rules

The rule modules are proved for every input of the shape the code accepts. What
a caller may be, a contact, a conversation or a package is a record of the
module's sets; the hypotheses of a theorem are the checks the code makes before
(a write was allowed, a package was valid) and nothing else.

| proofs | theorem | states |
|---|---|---|
| JobProofs | `NextDateKeepsDay` | the k-th date of a monthly or yearly schedule is where one would write it down, also after shorter months |
| | `NextDateOrdered` | the next date is a date, later, and monotone in the date of the run |
| | `RunNowSkipsAtMostOne` | a run by hand before the scheduled date costs at most that one date |
| PeriodControlProofs | `NightlyPostsNoEncoderDraft` | the nightly job posts no draft an Encoder wrote last, on no night |
| | `LineOfOneAccount` | every line up to a trial balance's last day is a source of the ending balance of exactly one account, and no later line is |
| OrganisationProofs | `SetupRetried` | a set-up that failed after any of its steps and is started again ends where it would have ended at once |
| | `ProvisionedAgain`, `CreatorManages` | a provisioning request sent again changes nothing; an administrator may manage every employee he created, other administrators excepted |
| PlatformServicesProofs | `WritableIsReadable`, `NoTakeover`, `WriteKeepsTreesAligned`, `CreatedIsOwned` | what a tenant's user writes or creates he may read and change, stays with its company, and trees stay within one |
| | `BackfillOnlyShares`, `AcceptedDocumentRuns`, `ReceivedIsVisible` | the upgrade takes nothing away; a form's acceptance holds for the scheduled task; the bus shows nothing hidden |
| | `DeliveredInScope`, `WrittenIsReadable`, `AddressedHaveItInScope` and five smaller ones | what reaches whom in conversations, for every book of channels and members |
| MigrationProofs | `ValidNamesWhatItLoads` | every account, partner and tax of a valid package was given a record by its master files |
| | `ValidHasOneBasis` | a valid package states the books in one way |
| | `ValidEntriesBalance` | each entry it loads balances and has one date |
| | `ArchiveKept` | an archived entry never gains, loses or changes a line by a later call, and every one balances |

Some rules are stated without a theorem, since one would only repeat them: what a
run checks of a definition's lines (`Preparable`), what a form accepts
(`DefinitionAccepted`) and what a write may still change of a posted payment
(`PaymentWriteAllowed`).

These are theorems about one call on a consistent picture of the data. Where two
calls meet, the theorems about the state machines say what holds.

### 5.12 Only model-checked

- Liveness (`RunOrReported`, `MissedDatesRun`, `WritersResume`, `DrillEnds`,
  `DueDayEnds`, `CooldownEnds`, section 4): fairness and ENABLED are beyond the prover.
- `FewGivenUp`: that few updates of the throttle are given up is a fact about two
  workers and one login. With many logins the pruning of old counters may refuse
  an update too, so no bound of this form holds for every instance; what does is
  `LimitHolds`, which counts the updates given up.
- What is computed by recursion along a sequence: `CutoverPolicy`, the
  search-or-create of master records, the partial sums behind receipts, the figures
  of reports, schedules of days and weeks. TLC evaluates assumptions about them
  over every input of a small size (`CutoverPlans`, `MastersRetry`,
  `ReceiptsCarryTheVAT`, `StatementsTie`, `SchedulesKept` and the others named in
  section 3).

## 6. Findings and observations

| run | the code | the statement it contradicts |
|---|---|---|
| `period_overlap` | `accounting_period.py:53` searches overlaps in the snapshot without lock or exclusion constraint | "Period ... overlaps ..." is refused (`:64`) |

Where the code keeps less than one might read into it, the passing runs check the
strongest form found that it does keep: a document is overpaid only by two lines
of one batch or by hand, never on a balance that was gone (`OverpaidKnowingly`), a
late line stems from a request that
overlapped the sign-off (`OnlyOverlappingLinesLate`), a migration batch matches when
it is signed off, not ever after (`SignedOffMatches`), an employee who keeps access
through a suspension is a newcomer (`OnlyNewcomersEscape`), a close leaves nothing
of what its request saw before it (`CloseLeavesNothing`).

*Observations without a run of their own*, for whoever maintains the code:

Payments and recurring documents

- Two lines of one batch on one document are each compared with its whole
  balance (`payment_batch.py:175`) and can overpay it together. A payment
  registered by hand may exceed the balance as well: `account_payment.py:228-281`
  compares it with the approval threshold only.
- A backlog of more than 120 dates is rolled back as a whole at the 121st
  (`recurring_journal.py:203`), so it never shrinks by itself.
- "Run now" before a scheduled date moves `next_run` past it
  (`recurring_journal.py:167`). A `next_run` that is not on the anchor day is run
  as it is, and the schedule then goes back to the anchor day. "Run now" takes
  today from the user's time zone, the daily job from the server's (`:184`).
- The constraint on quantity and price of a recurring invoice's lines is reached
  through the parent's `line_ids` and not evaluated again when a date is run.
- The VAT of several receipts of one invoice is rounded per receipt and may
  differ from the invoice's by half a cent for each.

Bank and closes

- A line whose request began before a sign-off may join after it
  (`bank_statement_line.py:39` reads the state without a lock).
- A match of a signed-off reconciliation's line can still be reversed
  (`statement_matching.py:128`, `:149`).
- A match undone natively on the statement's side leaves its line open and its item
  settled; the line takes another match only once the adjusting entry is reversed
  (`statement_matching.py:71`), and one that another entry has cleared meanwhile
  cannot be reversed by the matching action (`:150`), only natively.
- Entries posted between the snapshot of a year-end close and its commit stay
  untransferred (`year_end_close.py:167`).
- Two closes posted from one selection are taken latest date first
  (`year_end_close.py:9`, `:125`). The later one has then transferred the whole
  balance when the earlier one transfers its part once more, dated before it: the
  earlier date ends at zero, the later one does not, though nobody else posted
  anything.
- Profit and loss leaves out closes and their direct reversals
  (`financial_report.py:104`). A reversal that is itself reversed counts as a result
  of its period, and the statements then no longer tie (`StatementsTie`).
- The tax summary counts the base of a document and tax once, as the largest of
  its lines (`report_completion.py:70`), also where the lines of one tax stand for
  different bases.

Organizations

- Resuming one organization enables a shared employee of another that is still
  suspended (`platform_console.py:475`). The employee wizard and the toggle enable
  accounts without a look at the status (`setup_service.py:300`).
- "Activate" or "Start trial" on a suspended organization, from a page that shows an
  old status, ends the suspension without enabling the employees it disabled, and
  the organization cannot be resumed any more (`platform_console.py:417`, `:433`
  check no status): they stay disabled until each is enabled by hand. The
  documentation says that resuming restores them (`docs/platform-console.md:20`).
- The reply of a set-up that found an existing account, without moving it, names
  the role and company of the request though the account keeps its own
  (`setup_service.py:284`).

Migration

- A row of a draft batch can be moved into one that is validated, loaded or signed
  off: a write compares the state of the batch the row leaves only
  (`migration.py:251`), while a new row is refused with "Rows cannot be added to a
  validated migration batch." (`:235`). A loaded batch that was given an unmatched
  row cannot be signed off, and the row cannot be edited or moved out; one that is
  already signed off keeps that state with a row that does not match.
- Two loaders at once may create the same account, partner or tax
  (`migration_load.py:49`); every load then stops at the ambiguous match. Two
  partners of one name, the second with a VAT number, have the same effect on the
  next load (`TwoOfOneName`); of one name and none with a VAT number, they
  become one.
- Two archive calls at once may give an entry lines from both
  (`migration_archive.py:88`); it still balances (`ArchivedAtOnce`).

Platform

- A second draft of the homepage may be created at once, since the advisory lock
  is taken after the snapshot (`platform_publication.py:92`).
- Archived conversations keep members who are no longer eligible: the revocation
  searches without them (`discuss_isolation.py:250`), unlike the provisioning
  (`:237`), though its comment says "Revoke memberships immediately after user
  deactivation or scope changes." (`:249`). They open nothing, since every read
  checks the organization (`AddressedHaveItInScope`), but once the conversation is
  taken out of the archive they are listed as its members until the next change of
  any account.
- A synchronization that waited for the company lock goes on with its old snapshot
  (`discuss_isolation.py:236`): two requests at once may leave somebody in a
  conversation that is not for him, until the next change of any account that
  sees him there.
- A notification queued for a conversation that is deleted meanwhile makes its
  receiver's poll fail (`discuss_isolation.py:405`).
- In the vault, a crash between the deletion of a payload and of its receipt
  leaves an entry at which every later plan stops, until it is removed by hand.
- Each command of a capture runs in a session of its own (`hosted_backup.py:116`), so
  the adapter of a capture that was killed outright may outlive it; in the models
  it ends with the capture.

## 7. What the models leave out

- One company per model of accounting; every lock and search is per company.
- Roles, groups and record rules: which buttons a role sees is left to the
  framework, except where a role decides the outcome (Encoders, the approver,
  administrators of employees, tenants in contacts and Discuss).
- Amounts are small numbers: no currencies or rates; rounding only where a rule
  is about it (receipts, cutover).
- PaymentBatch: dates, instruments and the period rule for the payments made.
  RecurringRuns: closed periods are one last closed date, a date is a number of
  days. The calendar is RecurringSchedule, apart.
- BankSignOff: each line is worth one; outstanding items are part of the
  statement figure; the dates and the period check of adjusting entries. Two
  simultaneous reversals of one entry exclude each other.
- OrganisationLifecycle: passwords, channel membership (CompanyDiscuss), and the
  branch of `_provision_user` that adopts an existing account (OrganisationSetup).
  Platform owners are in no organization. The setup endpoint's token and its
  maintenance of database sessions are not modelled.
- YearEndClose: income and expense are one balance; accounts and roles.
- DocumentSeries: the note on the numbering policy and legacy numbers.
- MigrationCutover: reading files and writing reports about them.
- SignInThrottle: addresses behind proxies, the allow list, the hash spent on
  unknown logins.
- WebsitePublications: incidents, grouped by fingerprint, and events, a log.
- OrvexaTasks: the parsing of commands and the read-only tools.
- CompanyDiscuss: the deletion of channels, quarantined ones and those without an
  organization, and guests.
- DiscussAccess: reactions and the rendering of threads. ContactScope:
  attachments outside Discuss and public assets.
- LedgerReports: the reports of the reporting library itself and their options,
  rounding, rendering and printing. Matching adjustments, a listing of the monthly
  review, do not enter its figures.
- Backup: the text of alerts, the separate delivery command, encryption;
  checksums are equal or not. The object store and the kernel's signals and
  pipes are modelled from how the scripts use them.
- A deadlock among locks: the database picks a victim, which is `Abort`.

## 8. What could follow

*Proofs, in this order:* `CutoverPolicy` and the schedules of days and weeks, by rewriting
their recursion as functions whose solution is unique, as was done for sums; the
liveness properties' safety parts (what a stuck daily job would have to be).

*Models:* incidents and their reopening; PeriodControl with RecurringRuns over
its real periods in place of one last closed date; an abstract specification of
a load (apply once) and the refinement it allows.

## 9. Running it

```
tlc -workers 2 -config MCPeriodControl.cfg PeriodControl
tlapm PeriodControlProofs.tla
```

Each run ends within a few minutes on two cores. The largest proof module,
JobProofs, takes about five minutes, the others less.
