---------------------------- MODULE RecurringRuns ----------------------------
(***************************************************************************)
(* Recurring journals and recurring invoices (recurring_journal.py and     *)
(* recurring_invoice.py, which share every rule modelled here).  A         *)
(* definition creates and posts one document per scheduled date, through   *)
(* "Run now", through "Run due periods" and through the daily job, which   *)
(* runs all the due definitions in one transaction and gives each one a    *)
(* savepoint.                                                              *)
(*                                                                         *)
(* Requests are transactions of SnapshotDB.  A document is identified by   *)
(* its definition and its date, as its SQL unique constraint has it.  A    *)
(* refused request and a lost race are both Abort.                         *)
(***************************************************************************)
EXTENDS Integers, FiniteSets, SnapshotDB

CONSTANTS
  Definition,   \* recurring journals and invoices
  Scheduler,    \* the slot of the daily job, which never runs twice at once
  Company,      \* the row of res_company: the last closed date
  LastDay,      \* the day on which the model's clock stops (a bound)
  Interval,     \* days between two scheduled dates
  MaxRuns,      \* runs one catch-up may make: 120
  Closable,     \* dates through which the periods may get closed
  Editable,     \* dates a user may set next_run to
  Legacy        \* documents that exist unposted from the start

Day == 0 .. LastDay
Document == Definition \X Day

ASSUME DayAssumption ==
  LastDay \in Nat /\ Interval \in Nat \ {0} /\ MaxRuns \in Nat
ASSUME SchedulerAssumption == Scheduler \in Txn
ASSUME RowAssumption ==
  /\ Row = Definition \cup Document \cup {Company}
  /\ Definition \cap Document = {} /\ Company \notin Definition \cup Document
ASSUME AbsentAssumption == Absent \notin {"posted", "unposted"}
ASSUME InputAssumption ==
  Closable \subseteq Day /\ Editable \subseteq Day /\ Legacy \subseteq Document

Never == -1

DefinitionRow == [next : 0 .. LastDay + Interval, last : Day \cup {Never},
                  active : BOOLEAN, failed : BOOLEAN]

VARIABLES
  today,    \* the current date
  job,      \* job[t]: "idle", "open", "cron" (the daily job)
  due       \* due[t]: the definitions the daily job has still to run

vars == <<dbVars, today, job, due>>

Init ==
  /\ DBInitWith([r \in Row |->
       IF r \in Definition
       THEN [next |-> 0, last |-> Never, active |-> TRUE, failed |-> FALSE]
       ELSE IF r = Company THEN Never
       ELSE IF r \in Legacy THEN "unposted" ELSE Absent])
  /\ today = 0
  /\ job = [t \in Txn |-> "idle"]
  /\ due = [t \in Txn |-> {}]

-----------------------------------------------------------------------------
DateAfter(date) == date + Interval

Later(a, b) == IF a >= b THEN a ELSE b

(* The dates a catch-up of d runs, in the view of t.                       *)
DueDates(t, d) ==
  {n \in Day : /\ n >= view[t][d].next /\ n <= today
               /\ (n - view[t][d].next) % Interval = 0}

(* _run_one accepts an existing posted document, refuses an unposted one   *)
(* and posts a new one unless its date is in a closed period.              *)
Runnable(t, d, n) ==
  \/ view[t][<<d, n>>] = "posted"
  \/ view[t][<<d, n>>] = Absent /\ n > view[t][Company]

(* The rows that runs of d on dates write.                                 *)
Posted(t, d, dates) ==
  {<<d, n>> : n \in {k \in dates : view[t][<<d, k>>] = Absent}}

LastOf(dates) == CHOOSE n \in dates : \A k \in dates : k <= n

AfterRuns(t, d, dates) ==
  [r \in {d} \cup Posted(t, d, dates) |->
     IF r = d
     THEN [view[t][d] EXCEPT !.last = Later(@, LastOf(dates)),
                             !.next = Later(@, DateAfter(LastOf(dates))),
                             !.failed = FALSE]
     ELSE "posted"]

(* Mutant: the limit itself is refused.                                    *)
CatchUpBelowLimit(t, d) ==
  /\ Cardinality(DueDates(t, d)) < MaxRuns
  /\ \A n \in DueDates(t, d) : Runnable(t, d, n)

CatchUpSucceeds(t, d) ==
  /\ Cardinality(DueDates(t, d)) <= MaxRuns
  /\ \A n \in DueDates(t, d) : Runnable(t, d, n)

-----------------------------------------------------------------------------
Begin(t) ==
  /\ t # Scheduler
  /\ BeginTxn(t)
  /\ job' = [job EXCEPT ![t] = "open"]
  /\ UNCHANGED <<today, due>>

Finish(t) ==
  /\ job' = [job EXCEPT ![t] = "idle"]
  /\ due' = [due EXCEPT ![t] = {}]
  /\ UNCHANGED today

Abort(t) == AbortTxn(t) /\ Finish(t)

Serve(t, new) == CommitWith(t, new) /\ Finish(t)

(* Mutant: overdue dates are not looked at.                                *)
RunNowAlways(t, d) ==
  /\ Runnable(t, d, today)
  /\ CanShare(t, Company)
  /\ Serve(t, AfterRuns(t, d, {today}))

(* "Run now" posts a document dated today, unless dates are overdue.       *)
RunNow(t, d) ==
  /\ view[t][d].next >= today
  /\ Runnable(t, d, today)
  /\ CanShare(t, Company)
  /\ Serve(t, AfterRuns(t, d, {today}))

(* "Run due periods" of one definition.                                    *)
RunDue(t, d) ==
  /\ view[t][d].active
  /\ DueDates(t, d) # {}
  /\ CatchUpSucceeds(t, d)
  /\ CanShare(t, Company)
  /\ Serve(t, AfterRuns(t, d, DueDates(t, d)))

(* The daily job: every definition due in its snapshot, one savepoint each.*)
StartCron ==
  /\ BeginTxn(Scheduler)
  /\ job' = [job EXCEPT ![Scheduler] = "cron"]
  /\ due' = [due EXCEPT ![Scheduler] =
               {d \in Definition : db[d].active /\ db[d].next <= today}]
  /\ UNCHANGED today

RanCron(d) ==
  /\ due' = [due EXCEPT ![Scheduler] = @ \ {d}]
  /\ UNCHANGED <<db, active, missed, today, job>>

(* Mutant: the closed periods are read without the lock on the company.    *)
CronRunUnlocked(d) ==
  /\ d \in due[Scheduler]
  /\ CatchUpSucceeds(Scheduler, d)
  /\ PutAll(Scheduler, AfterRuns(Scheduler, d, DueDates(Scheduler, d)))
  /\ UNCHANGED shared
  /\ RanCron(d)

CronRun(d) ==
  /\ d \in due[Scheduler]
  /\ CatchUpSucceeds(Scheduler, d)
  /\ PutAll(Scheduler, AfterRuns(Scheduler, d, DueDates(Scheduler, d)))
  /\ Share(Scheduler, Company)
  /\ RanCron(d)

(* Mutant: the dates before the refused one are kept.                      *)
CronFailKeeping(d) ==
  LET ran == {n \in DueDates(Scheduler, d) : \A k \in Day : k <= n => Runnable(Scheduler, d, k)}
  IN
  /\ d \in due[Scheduler]
  /\ ~CatchUpSucceeds(Scheduler, d)
  /\ PutAll(Scheduler, [r \in {d} \cup Posted(Scheduler, d, ran) |->
                  IF r = d THEN [view[Scheduler][d] EXCEPT !.failed = TRUE]
                  ELSE "posted"])
  /\ UNCHANGED shared
  /\ RanCron(d)

(* Mutant: a refused definition ends the job, nothing is recorded.         *)
CronFailSilently(d) ==
  /\ d \in due[Scheduler]
  /\ ~CatchUpSucceeds(Scheduler, d)
  /\ UNCHANGED <<view, wrote, shared>>
  /\ RanCron(d)

(* A UserError rolls back to the savepoint, the error is recorded on the   *)
(* definition, and the job goes on with the next one.                      *)
CronFail(d) ==
  /\ d \in due[Scheduler]
  /\ ~CatchUpSucceeds(Scheduler, d)
  /\ Put(Scheduler, d, [view[Scheduler][d] EXCEPT !.failed = TRUE])
  /\ UNCHANGED shared
  /\ RanCron(d)

CronCommit ==
  /\ job[Scheduler] = "cron" /\ due[Scheduler] = {}
  /\ CommitTxn(Scheduler)
  /\ Finish(Scheduler)

-----------------------------------------------------------------------------
(* What users do meanwhile: reschedule or pause a definition, close the    *)
(* periods through a date, resolve a document that was left unposted.      *)
Write(t, d, next, on) ==
  Serve(t, [r \in {d} |-> [view[t][d] EXCEPT !.next = next, !.active = on]])

ClosePeriods(t, date) ==
  /\ date > view[t][Company]
  /\ Serve(t, [r \in {Company} |-> date])

ResolveUnposted(t, doc) ==
  /\ view[t][doc] = "unposted"
  /\ \E outcome \in {"posted", Absent} : Serve(t, [r \in {doc} |-> outcome])

NewDay ==
  /\ today < LastDay
  /\ today' = today + 1
  /\ UNCHANGED <<dbVars, job, due>>

CronStep ==
  \/ \E d \in Definition : CronRun(d) \/ CronFail(d)
  \/ CronCommit

UserStep(t) ==
  /\ job[t] = "open"
  /\ \/ \E d \in Definition :
          \/ RunNow(t, d)
          \/ RunDue(t, d)
          \/ \E next \in Editable, on \in BOOLEAN : Write(t, d, next, on)
     \/ \E date \in Closable : ClosePeriods(t, date)
     \/ \E doc \in Document : ResolveUnposted(t, doc)

Next ==
  \/ NewDay
  \/ StartCron
  \/ CronStep
  \/ \E t \in Txn : Begin(t) \/ UserStep(t) \/ Abort(t)

Spec == Init /\ [][Next]_vars

(* Odoo's scheduler starts the job every day and the job goes on while it  *)
(* can.  Its transaction may be lost, to a crash or to a user who changed  *)
(* one of its rows, any number of times, but not for ever.  Users owe      *)
(* nothing.                                                                *)
FairSpec ==
  /\ Spec
  /\ WF_vars(StartCron)
  /\ WF_vars(CronStep)
  /\ WF_vars(missed[Scheduler] # {} /\ Abort(Scheduler))
  /\ <>[][~Abort(Scheduler)]_vars

-----------------------------------------------------------------------------
RowTypeOK(rows) ==
  /\ \A d \in Definition : rows[d] \in DefinitionRow
  /\ \A doc \in Document : rows[doc] \in {"unposted", "posted", Absent}
  /\ rows[Company] \in Day \cup {Never}

(* The tables and the requests are well formed, and last_run names a date  *)
(* the definition has a posted document for.                               *)
TypeOK ==
  /\ RowTypeOK(db)
  /\ \A t \in active : RowTypeOK(view[t])
  /\ today \in Day
  /\ job \in [Txn -> {"idle", "open", "cron"}]
  /\ \A t \in Txn : /\ job[t] = "idle" <=> t \notin active
                    /\ due[t] # {} => job[t] = "cron"
  /\ \A d \in Definition : db[d].last # Never => db[<<d, db[d].last>>] = "posted"

(* "Use Run due periods so none are skipped": when runs move next_run,     *)
(* every scheduled date they pass that has come by now has its document,   *)
(* however run-now, catch-up and the daily job interleaved.                *)
OverdueNeverSkipped ==
  /\ []TypeOK
  /\ [][\A d \in Definition :
          db'[d].last # db[d].last =>
            \A n \in Day :
              /\ n >= db[d].next /\ n < db'[d].next /\ n <= today
              /\ (n - db[d].next) % Interval = 0
              => db'[<<d, n>>] = "posted"]_vars

(* "That definition's attempted catch-up is rolled back and its due date   *)
(* remains unchanged": a recorded failure left nothing else behind.        *)
FailureLeavesNothing ==
  [][\A d \in Definition :
       db'[d].failed /\ ~db[d].failed =>
         /\ db'[d] = [db[d] EXCEPT !.failed = TRUE]
         /\ \A n \in Day : db'[<<d, n>>] = db[<<d, n>>]]_vars

(* A document that runs post is dated outside the closed periods, although *)
(* the daily job may have read them long before it commits.                *)
NoneIntoClosedPeriod ==
  [][\A d \in Definition, n \in Day :
       db[<<d, n>>] = Absent /\ db'[<<d, n>>] = "posted" => n > db'[Company]]_vars

(* However runs by hand, catch-ups, the daily job and the edits of users   *)
(* overlap and whichever of them fail, definitions and documents behave as *)
(* RunBook: each request that commits takes effect as one step, in which a *)
(* definition gets all dates that had come, or only its error.             *)
Book == INSTANCE RunBook WITH
  definitions <- [d \in Definition |-> db[d]],
  documents <- [doc \in Document |-> db[doc]],
  closed <- db[Company]

ImplementsRunBook == Book!Bookkeeping

Overdue(d) == db[d].active /\ db[d].next <= today

(* The daily job leaves no active definition behind in silence: each one   *)
(* keeps getting its dates run or its error recorded.                      *)
RunOrReported == \A d \in Definition : []<>(Overdue(d) => db[d].failed)

(* A problem to correct: an overdue date is closed or left unposted.       *)
InTheWay(d) ==
  \E n \in Day : /\ n >= db[d].next /\ n <= today
                 /\ db[<<d, n>>] = "unposted" \/ n <= db[Company]

(* "Correct the stated problem, then use Run due periods to retry the      *)
(* missed dates": unless a closed or unposted date is in the way, every    *)
(* missed date gets its document in the end.                               *)
MissedDatesRun == \A d \in Definition : []<>(Overdue(d) => InTheWay(d))
===============================================================================
